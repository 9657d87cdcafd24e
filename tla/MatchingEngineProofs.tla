------------------------- MODULE MatchingEngineProofs -------------------------
(***************************************************************************)
(* Theorems about MatchingEngine: the routing of cancels, the subscriber's *)
(* view of every symbol, the separation of the books, and what becomes of  *)
(* an order that stops resting.                                            *)
(***************************************************************************)
EXTENDS EngineReplay, BookProofs

-----------------------------------------------------------------------------
(* Keys in a book.                                                         *)

\* At most one order with this key is queued in the book.
KeyOnce(lv, key) ==
    \A s, t \in Sides : \A p \in DOMAIN lv[s], q \in DOMAIN lv[t] :
        \A i \in DOMAIN lv[s][p], j \in DOMAIN lv[t][q] :
            lv[s][p][i].key = key /\ lv[t][q][j].key = key => s = t /\ p = q /\ i = j

\* An order with this key rests in the book.
KeyRests(lv, key) == \E o \in Resting(lv) : o.key = key

\* The book `new` has no key that `lv` has not, and none more often.
Thins(new, lv) ==
    \A key : /\ KeyOnce(lv, key) => KeyOnce(new, key)
             /\ KeyRests(new, key) => KeyRests(lv, key)

\* The order, or what a fill has left of it, rests in the book.
Stays(lv, order) ==
    \E o \in Resting(lv) : o.key = order.key /\ o.arrival = order.arrival

LEMMA ThinsTransitive ==
    ASSUME NEW a, NEW b, NEW c, Thins(a, b), Thins(b, c)
    PROVE  Thins(a, c)
BY DEF Thins

\* A key that rests is a key that is queued.
LEMMA KeyRestsIsQueued ==
    ASSUME NEW lv, NEW key
    PROVE  KeyRests(lv, key) <=>
             \E s \in Sides : \E p \in DOMAIN lv[s] : \E i \in DOMAIN lv[s][p] :
                lv[s][p][i].key = key
BY RestingIsQueued DEF KeyRests

\* The orders of `queue` have the keys of different orders of `old`.
Picks(f, queue, old) ==
    /\ \A i \in DOMAIN queue : f[i] \in DOMAIN old /\ queue[i].key = old[f[i]].key
    /\ \A i, j \in DOMAIN queue : f[i] = f[j] => i = j

\* Replacing a queue by one whose orders have the keys of different orders of
\* the old one thins the book.
LEMMA SetLevelThins ==
    ASSUME NEW lv, IsLevels(lv), NEW side \in Sides, NEW price \in DOMAIN lv[side],
           NEW queue \in Seq(Orders), NEW f, Picks(f, queue, lv[side][price])
    PROVE  Thins(SetLevel(lv, side, price, queue), lv)
<1> DEFINE new == SetLevel(lv, side, price, queue)
<1>1. /\ DOMAIN new[side] = DOMAIN lv[side]
      /\ new[side][price] = queue
      /\ \A p \in DOMAIN lv[side] : p # price => new[side][p] = lv[side][p]
      /\ \A s \in Sides : s # side => new[s] = lv[s]
  <2>1. price \in Prices
    BY DEF IsLevels
  <2>2. DOMAIN new[side] = DOMAIN lv[side] \cup {price}
    BY <2>1, SetLevelEffect
  <2> QED
    BY <2>1, <2>2, SetLevelEffect
<1> HIDE DEF new
<1>2. ASSUME NEW s \in Sides, NEW p \in DOMAIN new[s]
      PROVE  \/ s = side /\ p = price /\ new[s][p] = queue
             \/ ~(s = side /\ p = price) /\ p \in DOMAIN lv[s] /\ new[s][p] = lv[s][p]
  BY <1>1
<1>3. ASSUME NEW key, KeyRests(new, key)
      PROVE  KeyRests(lv, key)
  <2>1. PICK s \in Sides : \E p \in DOMAIN new[s] : \E i \in DOMAIN new[s][p] :
               new[s][p][i].key = key
    BY <1>3, KeyRestsIsQueued
  <2>2. PICK p \in DOMAIN new[s] : \E i \in DOMAIN new[s][p] : new[s][p][i].key = key
    BY <2>1
  <2>3. PICK i \in DOMAIN new[s][p] : new[s][p][i].key = key
    BY <2>2
  <2>4. \E q \in DOMAIN lv[s] : \E j \in DOMAIN lv[s][q] : lv[s][q][j].key = key
    BY <1>2, <2>3 DEF Picks
  <2> QED
    BY <2>4, KeyRestsIsQueued
<1>4. ASSUME NEW key, KeyOnce(lv, key)
      PROVE  KeyOnce(new, key)
  <2> SUFFICES ASSUME NEW s \in Sides, NEW t \in Sides,
                      NEW p \in DOMAIN new[s], NEW q \in DOMAIN new[t],
                      NEW i \in DOMAIN new[s][p], NEW j \in DOMAIN new[t][q],
                      new[s][p][i].key = key, new[t][q][j].key = key
               PROVE  s = t /\ p = q /\ i = j
    BY DEF KeyOnce
  <2> DEFINE a == IF s = side /\ p = price THEN f[i] ELSE i
             b == IF t = side /\ q = price THEN f[j] ELSE j
  <2>1. p \in DOMAIN lv[s] /\ a \in DOMAIN lv[s][p] /\ lv[s][p][a].key = key
    BY <1>2 DEF Picks
  <2>2. q \in DOMAIN lv[t] /\ b \in DOMAIN lv[t][q] /\ lv[t][q][b].key = key
    BY <1>2 DEF Picks
  <2>3. s = t /\ p = q /\ a = b
    <3> HIDE DEF a, b
    <3> QED
      BY <1>4, <2>1, <2>2 DEF KeyOnce
  <2>4. CASE s = side /\ p = price
    BY <1>2, <2>3, <2>4 DEF Picks
  <2>5. CASE ~(s = side /\ p = price)
    BY <2>3, <2>5
  <2> QED
    BY <2>3, <2>4, <2>5
<1> QED
  BY <1>3, <1>4 DEF Thins, new

LEMMA DropLevelThins ==
    ASSUME NEW lv, IsLevels(lv), NEW side \in Sides, NEW price
    PROVE  Thins(DropLevel(lv, side, price), lv)
<1> DEFINE new == DropLevel(lv, side, price)
<1>1. /\ DOMAIN new[side] = DOMAIN lv[side] \ {price}
      /\ \A p \in DOMAIN new[side] : new[side][p] = lv[side][p]
      /\ \A s \in Sides : s # side => new[s] = lv[s]
  BY DropLevelEffect
<1> HIDE DEF new
<1>2. \A s \in Sides : \A p \in DOMAIN new[s] : p \in DOMAIN lv[s] /\ new[s][p] = lv[s][p]
  BY <1>1
<1>3. \A key : KeyRests(new, key) => KeyRests(lv, key)
  BY <1>2, KeyRestsIsQueued
<1>4. \A key : KeyOnce(lv, key) => KeyOnce(new, key)
  BY <1>2 DEF KeyOnce
<1> QED
  BY <1>3, <1>4 DEF Thins, new

\* A trade thins the book, and only the order that it names stops resting.
LEMMA TradedThins ==
    ASSUME NEW lv, IsLevels(lv), NEW new, NEW side \in Sides, NEW price, NEW queue,
           NEW front, Traded(lv, new, side, price, queue, front)
    PROVE  /\ Thins(new, lv)
           /\ \A o \in Resting(lv) : Stays(new, o) \/ o.key = queue[1].key
<1>1. /\ price \in DOMAIN lv[side] /\ price \in Prices
      /\ queue \in Seq(Orders) /\ queue = lv[side][price] /\ queue # <<>>
      /\ front \in Orders /\ front.key = queue[1].key
      /\ front.arrival = queue[1].arrival
  BY DEF Traded
<1>2. \/ new = SetLevel(lv, side, price, [queue EXCEPT ![1] = front])
      \/ new = SetLevel(lv, side, price, Tail(queue))
      \/ Tail(queue) = <<>> /\ new = DropLevel(lv, side, price)
  BY DEF Traded
<1>3. ASSUME NEW o \in Resting(lv)
      PROVE  Elsewhere(lv, side, price, o) \/ \E i \in DOMAIN queue : queue[i] = o
  BY <1>1, RestingSplit
<1>4. CASE new = SetLevel(lv, side, price, [queue EXCEPT ![1] = front])
  <2> DEFINE q == [queue EXCEPT ![1] = front]
             f == [i \in DOMAIN q |-> i]
  <2>1. /\ q \in Seq(Orders) /\ DOMAIN q = DOMAIN queue /\ 1 \in DOMAIN q
        /\ \A i \in DOMAIN q : q[i] = IF i = 1 THEN front ELSE queue[i]
    BY <1>1
  <2>2. Picks(f, q, lv[side][price])
    <3> HIDE DEF q
    <3> QED
      BY <1>1, <2>1 DEF Picks
  <2>3. new = SetLevel(lv, side, price, q)
    BY <1>4
  <2> HIDE DEF q, f
  <2>4. Thins(new, lv)
    BY <1>1, <2>1, <2>2, <2>3, SetLevelThins
  <2>5. \A x : x \in Resting(new) <=>
                 Elsewhere(lv, side, price, x) \/ \E i \in DOMAIN q : q[i] = x
    BY <1>1, <2>1, <2>3, SetLevelResting
  <2>6. ASSUME NEW o \in Resting(lv)
        PROVE  Stays(new, o)
    <3>1. CASE Elsewhere(lv, side, price, o)
      BY <2>5, <3>1 DEF Stays
    <3>2. CASE \E i \in DOMAIN queue : queue[i] = o
      <4>1. PICK i \in DOMAIN queue : queue[i] = o
        BY <3>2
      <4>2. q[i] \in Resting(new) /\ q[i].key = o.key /\ q[i].arrival = o.arrival
        BY <1>1, <2>1, <2>5, <4>1
      <4> QED
        BY <4>2 DEF Stays
    <3> QED
      BY <1>3, <3>1, <3>2
  <2> QED
    BY <2>4, <2>6
<1>5. CASE new = SetLevel(lv, side, price, Tail(queue))
  <2> DEFINE q == Tail(queue)
             f == [i \in DOMAIN q |-> i + 1]
  <2>1. /\ q \in Seq(Orders)
        /\ \A i \in DOMAIN q : i \in Nat /\ i + 1 \in DOMAIN queue /\ q[i] = queue[i + 1]
        /\ \A i \in DOMAIN queue : i = 1 \/ (i - 1 \in DOMAIN q /\ q[i - 1] = queue[i])
    BY <1>1
  <2>2. Picks(f, q, lv[side][price])
    <3> HIDE DEF q
    <3> QED
      BY <1>1, <2>1 DEF Picks
  <2>3. new = SetLevel(lv, side, price, q)
    BY <1>5
  <2> HIDE DEF q, f
  <2>4. Thins(new, lv)
    BY <1>1, <2>1, <2>2, <2>3, SetLevelThins
  <2>5. \A x : x \in Resting(new) <=>
                 Elsewhere(lv, side, price, x) \/ \E i \in DOMAIN q : q[i] = x
    BY <1>1, <2>1, <2>3, SetLevelResting
  <2>6. ASSUME NEW o \in Resting(lv), o.key # queue[1].key
        PROVE  Stays(new, o)
    <3>1. o \in Resting(new)
      BY <1>3, <2>1, <2>5, <2>6
    <3> QED
      BY <3>1 DEF Stays
  <2> QED
    BY <2>4, <2>6
<1>6. CASE Tail(queue) = <<>> /\ new = DropLevel(lv, side, price)
  <2>1. Thins(new, lv)
    BY <1>6, DropLevelThins
  <2>2. DOMAIN queue = {1}
    <3>1. Len(Tail(queue)) = Len(queue) - 1 /\ DOMAIN queue = 1..Len(queue)
          /\ Len(queue) \in Nat
      BY <1>1
    <3> DEFINE rest == Tail(queue)
    <3>2. rest = <<>>
      BY <1>6
    <3>3. Len(rest) = 0
      <4> HIDE DEF rest
      <4> QED
        BY <3>2
    <3> QED
      BY <3>1, <3>3
  <2>3. \A x : x \in Resting(new) <=> Elsewhere(lv, side, price, x)
    BY <1>6, DropLevelResting
  <2>4. ASSUME NEW o \in Resting(lv), o.key # queue[1].key
        PROVE  Stays(new, o)
    <3>1. o \in Resting(new)
      BY <1>3, <2>2, <2>3, <2>4
    <3> QED
      BY <3>1 DEF Stays
  <2> QED
    BY <2>1, <2>4
<1> QED
  BY <1>2, <1>4, <1>5, <1>6

\* A cancel thins the book, takes the only order with the key if there is only
\* one, and touches no order with another key.
LEMMA RemoveOrderThins ==
    ASSUME NEW lv, IsLevels(lv), NEW key, InBook(lv, key)
    PROVE  LET new == RemoveOrder(lv, key) IN
           /\ Thins(new, lv)
           /\ \A o \in Resting(lv) : Stays(new, o) \/ o.key = key
           /\ KeyOnce(lv, key) => ~KeyRests(new, key)
<1>1. PICK side \in Sides : \E price \in DOMAIN lv[side] :
        \E i \in 1..Len(lv[side][price]) :
          /\ lv[side][price][i].key = key
          /\ RemoveOrder(lv, key) =
               SetLevel(lv, side, price, RemoveAt(lv[side][price], i))
  BY RemoveOrderEffect
<1>2. PICK price \in DOMAIN lv[side] :
        \E i \in 1..Len(lv[side][price]) :
          /\ lv[side][price][i].key = key
          /\ RemoveOrder(lv, key) =
               SetLevel(lv, side, price, RemoveAt(lv[side][price], i))
  BY <1>1
<1>3. PICK i \in 1..Len(lv[side][price]) :
        /\ lv[side][price][i].key = key
        /\ RemoveOrder(lv, key) =
             SetLevel(lv, side, price, RemoveAt(lv[side][price], i))
  BY <1>2
<1> DEFINE new   == RemoveOrder(lv, key)
           queue == lv[side][price]
           q     == RemoveAt(queue, i)
           f     == [j \in DOMAIN q |-> IF j < i THEN j ELSE j + 1]
<1>4. queue \in Seq(Orders) /\ price \in Prices /\ i \in 1..Len(queue)
  BY DEF IsLevels
<1>5. new = SetLevel(lv, side, price, q) /\ queue[i].key = key
  BY <1>3
<1>6. /\ q \in Seq(Orders) /\ Len(q) = Len(queue) - 1
      /\ \A j \in 1..(Len(queue) - 1) :
           q[j] = IF j < i THEN queue[j] ELSE queue[j + 1]
  <2> HIDE DEF queue
  <2> QED
    BY <1>4, RemoveAtEffect
<1>7. \A o : o \in Resting(lv) <=>
               Elsewhere(lv, side, price, o) \/ \E j \in DOMAIN queue : queue[j] = o
  BY RestingSplit
<1> HIDE DEF q
<1>8. \A o : o \in Resting(new) <=>
               Elsewhere(lv, side, price, o) \/ \E j \in DOMAIN q : q[j] = o
  BY <1>4, <1>5, <1>6, SetLevelResting
<1>9. /\ \A j \in DOMAIN q : /\ f[j] \in DOMAIN queue /\ f[j] # i
                             /\ q[j] = queue[f[j]]
      /\ \A j, k \in DOMAIN q : f[j] = f[k] => j = k
      /\ \A k \in DOMAIN queue : k = i \/ \E j \in DOMAIN q : q[j] = queue[k]
  <2> HIDE DEF queue
  <2>1. /\ DOMAIN q = 1..(Len(queue) - 1) /\ DOMAIN queue = 1..Len(queue)
        /\ Len(queue) \in Nat
    BY <1>4, <1>6
  <2>2. ASSUME NEW j \in DOMAIN q
        PROVE  f[j] \in DOMAIN queue /\ f[j] # i /\ q[j] = queue[f[j]]
    BY <1>4, <1>6, <2>1
  <2>3. ASSUME NEW j \in DOMAIN q, NEW k \in DOMAIN q, f[j] = f[k] PROVE j = k
    BY <1>4, <2>1, <2>3
  <2>4. ASSUME NEW k \in DOMAIN queue, k # i
        PROVE  \E j \in DOMAIN q : q[j] = queue[k]
    <3>1. CASE k < i
      <4>1. k \in DOMAIN q /\ q[k] = queue[k]
        BY <1>4, <1>6, <2>1, <3>1
      <4> QED
        BY <4>1
    <3>2. CASE ~(k < i)
      <4>1. k - 1 \in 1..(Len(queue) - 1) /\ ~(k - 1 < i) /\ (k - 1) + 1 = k
        BY <1>4, <2>1, <2>4, <3>2
      <4>2. k - 1 \in DOMAIN q /\ q[k - 1] = queue[(k - 1) + 1]
        BY <1>6, <2>1, <4>1
      <4> QED
        BY <4>1, <4>2
    <3> QED
      BY <3>1, <3>2
  <2> QED
    BY <2>2, <2>3, <2>4
<1>10. Thins(new, lv)
  <2>1. Picks(f, q, queue)
    <3> HIDE DEF queue, f
    <3> QED
      BY <1>9 DEF Picks
  <2> HIDE DEF new, f
  <2> QED
    BY <1>4, <1>5, <1>6, <2>1, SetLevelThins
<1> HIDE DEF new, f
<1>11. ASSUME NEW o \in Resting(lv), o.key # key
       PROVE  Stays(new, o)
  <2>1. o \in Resting(new)
    <3>1. CASE Elsewhere(lv, side, price, o)
      BY <1>8, <3>1
    <3>2. CASE \E k \in DOMAIN queue : queue[k] = o
      <4>1. PICK k \in DOMAIN queue : queue[k] = o
        BY <3>2
      <4>2. k # i
        BY <1>5, <1>11, <4>1
      <4>3. PICK j \in DOMAIN q : q[j] = queue[k]
        BY <1>9, <4>2
      <4> QED
        BY <1>8, <4>1, <4>3
    <3> QED
      BY <1>7, <3>1, <3>2
  <2> QED
    BY <2>1 DEF Stays
<1>12. ASSUME KeyOnce(lv, key), NEW o \in Resting(new), o.key = key
       PROVE  FALSE
  <2>1. i \in DOMAIN queue
    <3> HIDE DEF queue
    <3> QED
      BY <1>4
  <2>2. CASE Elsewhere(lv, side, price, o)
    <3>1. PICK s \in Sides : \E p \in DOMAIN lv[s] :
             ~(s = side /\ p = price) /\ \E j \in DOMAIN lv[s][p] : lv[s][p][j] = o
      BY <2>2 DEF Elsewhere
    <3>2. PICK p \in DOMAIN lv[s] :
             ~(s = side /\ p = price) /\ \E j \in DOMAIN lv[s][p] : lv[s][p][j] = o
      BY <3>1
    <3>3. PICK j \in DOMAIN lv[s][p] : lv[s][p][j] = o
      BY <3>2
    <3> QED
      BY <1>5, <1>12, <2>1, <3>2, <3>3 DEF KeyOnce
  <2>3. CASE \E j \in DOMAIN q : q[j] = o
    <3>1. PICK j \in DOMAIN q : q[j] = o
      BY <2>3
    <3>2. f[j] \in DOMAIN queue /\ f[j] # i /\ queue[f[j]].key = key
      BY <1>9, <1>12, <3>1
    <3> QED
      BY <1>5, <1>12, <2>1, <3>2 DEF KeyOnce
  <2> QED
    BY <1>8, <1>12, <2>2, <2>3
<1> QED
  BY <1>10, <1>11, <1>12 DEF KeyRests, new

\* What is left of an order joins the book under its own key.
LEMMA SettleKeys ==
    ASSUME NEW lv, IsLevels(lv), NEW order \in Orders
    PROVE  LET new == Settle(lv, order) IN
           /\ \A key : KeyRests(new, key) => KeyRests(lv, key) \/ key = order.key
           /\ \A key : /\ KeyOnce(lv, key)
                       /\ key # order.key \/ ~KeyRests(lv, key)
                       => KeyOnce(new, key)
           /\ \A o \in Resting(lv) : Stays(new, o)
<1> DEFINE new == Settle(lv, order)
<1>1. Resting(new) = Resting(lv) \cup (IF order.remaining_qty > 0 /\ ~IsMarket(order)
                                       THEN {order} ELSE {})
  BY SettleResting
<1>2. \A key : KeyRests(new, key) => KeyRests(lv, key) \/ key = order.key
  BY <1>1 DEF KeyRests
<1>3. \A o \in Resting(lv) : Stays(new, o)
  BY <1>1 DEF Stays
<1>4. ASSUME NEW key, KeyOnce(lv, key), key # order.key \/ ~KeyRests(lv, key)
      PROVE  KeyOnce(new, key)
  <2>1. CASE ~(order.remaining_qty > 0 /\ ~IsMarket(order))
    BY <1>4, <2>1 DEF Settle
  <2>2. CASE order.remaining_qty > 0 /\ ~IsMarket(order)
    <3>1. order.side \in Sides /\ order.price \in Prices
      BY <2>2 DEF Orders, IsMarket, Market
    <3> DEFINE queue == IF order.price \in DOMAIN lv[order.side]
                        THEN lv[order.side][order.price] ELSE <<>>
               q     == Append(queue, order)
    <3>2. queue \in Seq(Orders)
      BY <3>1 DEF IsLevels
    <3>3. new = SetLevel(lv, order.side, order.price, q)
      BY <2>2 DEF Settle, AddToBook
    <3>4. /\ order.price \in DOMAIN lv[order.side] => queue = lv[order.side][order.price]
          /\ order.price \notin DOMAIN lv[order.side] => queue = <<>>
      OBVIOUS
    <3> HIDE DEF queue, new
    <3>5. /\ q \in Seq(Orders) /\ DOMAIN queue = 1..Len(queue) /\ Len(queue) \in Nat
          /\ DOMAIN q = 1..(Len(queue) + 1)
          /\ q[Len(queue) + 1] = order
          /\ \A i \in DOMAIN queue : q[i] = queue[i]
      BY <3>2
    <3> HIDE DEF q
    <3>6. /\ DOMAIN new[order.side] = DOMAIN lv[order.side] \cup {order.price}
          /\ new[order.side][order.price] = q
          /\ \A p \in DOMAIN lv[order.side] :
               p # order.price => new[order.side][p] = lv[order.side][p]
          /\ \A s \in Sides : s # order.side => new[s] = lv[s]
      BY <3>1, <3>3, <3>5, SetLevelEffect
    <3>7. ASSUME NEW s \in Sides, NEW p \in DOMAIN new[s], NEW i \in DOMAIN new[s][p]
          PROVE  \/ /\ s = order.side /\ p = order.price /\ i = Len(queue) + 1
                    /\ new[s][p][i] = order
                 \/ p \in DOMAIN lv[s] /\ i \in DOMAIN lv[s][p]
                    /\ new[s][p][i] = lv[s][p][i]
      <4>1. CASE s = order.side /\ p = order.price
        <5>1. new[s][p] = q /\ i \in 1..(Len(queue) + 1)
          BY <3>5, <3>6, <3>7, <4>1
        <5>2. CASE i = Len(queue) + 1
          BY <3>5, <4>1, <5>1, <5>2
        <5>3. CASE i # Len(queue) + 1
          <6>1. i \in DOMAIN queue
            BY <3>5, <5>1, <5>3
          <6>2. order.price \in DOMAIN lv[order.side]
            BY <3>4, <6>1
          <6> QED
            BY <3>4, <3>5, <4>1, <5>1, <6>1, <6>2
        <5> QED
          BY <5>2, <5>3
      <4>2. CASE ~(s = order.side /\ p = order.price)
        BY <3>6, <4>2
      <4> QED
        BY <4>1, <4>2
    <3>8. ASSUME key = order.key, NEW s \in Sides, NEW p \in DOMAIN lv[s],
                 NEW i \in DOMAIN lv[s][p]
          PROVE  lv[s][p][i].key # key
      BY <1>4, <3>8, KeyRestsIsQueued
    <3>9. CASE key = order.key
      BY <3>7, <3>8, <3>9 DEF KeyOnce
    <3>10. CASE key # order.key
      BY <1>4, <3>7, <3>10 DEF KeyOnce
    <3> QED
      BY <3>9, <3>10
  <2> QED
    BY <2>1, <2>2
<1> QED
  BY <1>2, <1>3, <1>4

-----------------------------------------------------------------------------
(* Calls on one book.                                                      *)

\* A message has the fields that observers read.
IsMessage(m) ==
    /\ "type" \in DOMAIN m
    /\ m.type = "TopOfBook" => {"side", "price", "quantity"} \subseteq DOMAIN m
    /\ m.type = "CancelAck" => "key" \in DOMAIN m
    /\ m.type = "Trade" => {"buy", "sell"} \subseteq DOMAIN m

IsMessages(q) == \E M : q \in Seq(M) /\ \A m \in M : IsMessage(m)

LEMMA KnownMessages ==
    /\ \A m \in Silent : IsMessage(m)
    /\ \A side, best : IsMessage(TopEvent(side, best))
    /\ \A side : IsMessage(Eliminated(side))
    /\ \A key : IsMessage(AckOutput(key)) /\ IsMessage(CancelAckOutput(key))
<1>1. ASSUME NEW m \in Acks PROVE IsMessage(m)
  <2>1. m.type = "Ack" /\ DOMAIN m = {"type", "key"}
    BY DEF Acks
  <2> QED
    BY <2>1 DEF IsMessage
<1>2. ASSUME NEW m \in Trades PROVE IsMessage(m)
  <2>1. m.type = "Trade" /\ DOMAIN m = {"type", "buy", "sell", "price", "quantity"}
    BY DEF Trades
  <2> QED
    BY <2>1 DEF IsMessage
<1>3. ASSUME NEW key PROVE IsMessage(AckOutput(key)) /\ IsMessage(CancelAckOutput(key))
  BY DEF IsMessage, AckOutput, CancelAckOutput
<1>4. ASSUME NEW side PROVE IsMessage(Eliminated(side))
  BY DEF IsMessage, Eliminated
<1>5. ASSUME NEW side, NEW best PROVE IsMessage(TopOfBook(side, best))
  BY DEF IsMessage, TopOfBook
<1>6. \A m \in Silent : IsMessage(m)
  BY <1>1, <1>2, <1>3 DEF Silent, CancelAcks
<1> QED
  BY <1>3, <1>4, <1>5, <1>6 DEF TopEvent

\* The message takes an order with this key off the book.
Names(m, key) ==
    \/ m.type = "CancelAck" /\ m.key = key
    \/ m.type = "Trade" /\ key \in {m.buy, m.sell}

\* An order of `lv` rests in `new`, or a message says that it is gone.
Reports(new, q, lv) ==
    \A o \in Resting(lv) : Stays(new, o) \/ \E i \in DOMAIN q : Names(q[i], o.key)

\* What a call on a book with these levels and this cached top returns.
Returns(result, levels, prev) ==
    LET new == result.book.levels
    IN  /\ result.book = [levels |-> new, prev |-> Snapshot(new)]
        /\ IsLevels(new)
        /\ IsMessages(result.outputs) /\ result.outputs # <<>>
        /\ Informs(ToSet(result.outputs), prev, Snapshot(new))
        /\ Reports(new, result.outputs, levels)

\* A call that ends with check_top_of_book_changes.
LEMMA CheckedReturns ==
    ASSUME NEW book, NEW new, IsLevels(new), NEW messages \in Seq(Silent),
           messages # <<>>, Reports(new, messages, book.levels)
    PROVE  /\ Returns(Checked(book, new, messages), book.levels, book.prev)
           /\ Checked(book, new, messages).book.levels = new
<1> DEFINE result == Checked(book, new, messages)
           top    == Snapshot(new)
           E      == {TopEvent(side, top[side]) : side \in Sides}
           M      == Silent \cup E
           events == TopEvents(book.prev, top)
           all    == messages \o events
<1>1. result.book = [levels |-> new, prev |-> top] /\ result.outputs = all
      /\ result.book.levels = new
  BY DEF Checked
<1>2. all \in Seq(M) /\ Informs(ToSet(all), book.prev, top)
  BY CheckedInforms
<1>3. \A m \in M : IsMessage(m)
  BY KnownMessages
<1>4. events \in Seq(E)
  BY TopEventsFacts
<1> HIDE DEF result, events, E
<1>5. /\ Len(all) = Len(messages) + Len(events)
      /\ \A i \in 1..(Len(messages) + Len(events)) :
           all[i] = IF i <= Len(messages) THEN messages[i] ELSE events[i - Len(messages)]
  BY <1>4, ConcatProperties
<1> HIDE DEF M, all, top
<1>6. /\ DOMAIN messages = 1..Len(messages) /\ Len(messages) \in Nat /\ 1 <= Len(messages)
      /\ Len(events) \in Nat
      /\ DOMAIN all = 1..Len(all)
  BY <1>2, <1>4
<1>7. \A i \in DOMAIN messages : i \in DOMAIN all /\ all[i] = messages[i]
  BY <1>5, <1>6
<1>8. all # <<>>
  BY <1>6, <1>7
<1>9. IsMessages(all)
  BY <1>2, <1>3 DEF IsMessages
<1>10. Reports(new, all, book.levels)
  BY <1>7 DEF Reports
<1> QED
  BY <1>1, <1>2, <1>8, <1>9, <1>10 DEF Returns, result, top

\* What match_order keeps while it works on an order that came to a book with
\* levels `lv`.
Progress(lv, key) ==
    {t \in MatchStates :
        /\ t.order.key = key /\ t.outputs # <<>>
        /\ Thins(t.levels, lv) /\ Reports(t.levels, t.outputs, lv)}

\* A turn of the loop is progress.
LEMMA TurnProgress ==
    ASSUME NEW lv, NEW key, NEW t \in Progress(lv, key), Matching(t.levels, t.order)
    PROVE  MatchStep(t) \in Progress(lv, key)
<1> DEFINE next  == MatchStep(t)
           side  == Opposite(t.order.side)
           price == BestPrice(t.levels, side)
           queue == t.levels[side][price]
           qty   == TradeQuantity(t.order, queue[1])
           trade == TradeOutput(t.order, queue[1], price, qty)
           front == Fill(queue[1], qty)
<1>1. /\ t \in MatchStates /\ t.order.key = key /\ t.outputs # <<>>
      /\ Thins(t.levels, lv) /\ Reports(t.levels, t.outputs, lv)
      /\ t.outputs \in Seq(Acks \cup Trades)
  BY DEF Progress, MatchStates
<1>2. /\ IsLevels(t.levels) /\ side \in Sides /\ price \in DOMAIN t.levels[side]
      /\ next \in MatchStates
      /\ \/ /\ queue = <<>>
            /\ next.levels = DropLevel(t.levels, side, price)
            /\ next.order = t.order
            /\ next.outputs = t.outputs
         \/ /\ Traded(t.levels, next.levels, side, price, queue, front)
            /\ next.order = Fill(t.order, qty)
            /\ next.outputs = Append(t.outputs, trade)
            /\ trade \in Trades
            /\ qty \in Nat
  BY <1>1, MatchStepEffect
<1> HIDE DEF next, front, price, qty, trade
<1>3. CASE queue = <<>> /\ next.levels = DropLevel(t.levels, side, price)
           /\ next.order = t.order /\ next.outputs = t.outputs
  <2>1. Thins(next.levels, t.levels)
    BY <1>2, <1>3, DropLevelThins
  <2>2. Thins(next.levels, lv)
    BY <1>1, <2>1, ThinsTransitive
  <2>3. ASSUME NEW o, o \in Resting(t.levels)
        PROVE  o \in Resting(next.levels)
    <3>1. Elsewhere(t.levels, side, price, o) \/ \E i \in DOMAIN queue : queue[i] = o
      <4>1. side \in Sides /\ price \in DOMAIN t.levels[side] /\ o \in Resting(t.levels)
        BY <1>2, <2>3
      <4> HIDE DEF side
      <4> QED
        BY ONLY <4>1, RestingSplit DEF queue
    <3>2. ~\E i \in DOMAIN queue : queue[i] = o
      <4> HIDE DEF queue
      <4> QED
        BY <1>3
    <3> QED
      BY <1>2, <1>3, <3>1, <3>2, DropLevelResting
  <2>4. Reports(next.levels, next.outputs, lv)
    BY <1>1, <1>3, <2>3 DEF Reports, Stays
  <2> QED
    BY <1>1, <1>2, <1>3, <2>2, <2>4 DEF Progress, next
<1>4. CASE /\ Traded(t.levels, next.levels, side, price, queue, front)
           /\ next.order = Fill(t.order, qty)
           /\ next.outputs = Append(t.outputs, trade)
           /\ trade \in Trades
  <2>1. /\ Thins(next.levels, t.levels)
        /\ \A o \in Resting(t.levels) : Stays(next.levels, o) \/ o.key = queue[1].key
    <3> HIDE DEF queue, side
    <3> QED
      BY <1>2, <1>4, TradedThins
  <2>2. Thins(next.levels, lv)
    BY <1>1, <2>1, ThinsTransitive
  <2>3. next.order.key = key
    BY <1>1, <1>4 DEF Fill, MatchStates, Orders
  <2>4. Names(trade, queue[1].key)
    BY DEF Names, trade, TradeOutput
  <2> DEFINE n == Len(t.outputs) + 1
  <2>5. /\ n \in DOMAIN next.outputs /\ next.outputs[n] = trade
        /\ next.outputs # <<>>
        /\ \A i \in DOMAIN t.outputs : i \in DOMAIN next.outputs
                                       /\ next.outputs[i] = t.outputs[i]
    <3> DEFINE out == t.outputs
    <3>1. out \in Seq(Acks \cup Trades) /\ trade \in Acks \cup Trades
          /\ next.outputs = Append(out, trade)
      BY <1>1, <1>4
    <3> HIDE DEF out
    <3>2. /\ Len(out) + 1 \in DOMAIN next.outputs
          /\ next.outputs[Len(out) + 1] = trade
          /\ next.outputs # <<>>
          /\ \A i \in DOMAIN out : i \in DOMAIN next.outputs
                                   /\ next.outputs[i] = out[i]
      BY <3>1
    <3> QED
      BY <3>2 DEF out
  <2> HIDE DEF n
  <2>6. ASSUME NEW o \in Resting(lv)
        PROVE  Stays(next.levels, o)
               \/ \E i \in DOMAIN next.outputs : Names(next.outputs[i], o.key)
    <3>1. CASE \E i \in DOMAIN t.outputs : Names(t.outputs[i], o.key)
      BY <2>5, <3>1
    <3>2. CASE Stays(t.levels, o)
      <4>1. PICK x \in Resting(t.levels) : x.key = o.key /\ x.arrival = o.arrival
        BY <3>2 DEF Stays
      <4>2. CASE Stays(next.levels, x)
        BY <4>1, <4>2 DEF Stays
      <4>3. CASE x.key = queue[1].key
        BY <2>4, <2>5, <4>1, <4>3
      <4> QED
        BY <2>1, <4>2, <4>3
    <3> QED
      BY <1>1, <3>1, <3>2 DEF Reports
  <2>7. Reports(next.levels, next.outputs, lv)
    BY <2>6 DEF Reports
  <2> QED
    BY <1>2, <2>2, <2>3, <2>5, <2>7 DEF Progress, next
<1> QED
  BY <1>2, <1>3, <1>4

\* add_order: no key but the order's comes to the book, no other becomes more
\* frequent, and every order that leaves is named by a message.
LEMMA AddedReturns ==
    ASSUME NEW book, IsLevels(book.levels), NEW order \in Orders
    PROVE  LET result == Added(book, order)
               new    == result.book.levels
           IN  /\ Returns(result, book.levels, book.prev)
               /\ \A key : KeyRests(new, key) =>
                             KeyRests(book.levels, key) \/ key = order.key
               /\ \A key : /\ KeyOnce(book.levels, key)
                           /\ key # order.key \/ ~KeyRests(book.levels, key)
                           => KeyOnce(new, key)
<1> DEFINE lv    == book.levels
           ack   == AckOutput(order.key)
           start == [levels |-> lv, order |-> order, outputs |-> <<ack>>]
           V     == Progress(lv, order.key)
           done  == MatchOrder(start)
           new   == Settle(done.levels, done.order)
<1>1. start \in V
  <2>1. lv \in AllLevels
    BY AllLevelsTyped
  <2>2. ack \in Acks
    BY DEF AckOutput, Acks, Orders
  <2>3. <<ack>> \in Seq(Acks \cup Trades) /\ <<ack>> # <<>>
    <3>1. ack \in Acks \cup Trades
      BY <2>2
    <3> HIDE DEF ack
    <3> QED
      BY <3>1
  <2>4. start \in MatchStates
    BY <2>1, <2>3 DEF MatchStates
  <2>5. Thins(lv, lv) /\ Reports(lv, <<ack>>, lv)
    BY DEF Thins, Reports, Stays
  <2>6. start.order.key = order.key /\ start.outputs = <<ack>> /\ start.levels = lv
    OBVIOUS
  <2> HIDE DEF start, ack
  <2> QED
    BY <2>3, <2>4, <2>5, <2>6 DEF Progress
<1>2. done \in V
  <2>1. \A t \in V : Matching(t.levels, t.order) => MatchStep(t) \in V
    BY TurnProgress
  <2>2. IsLevels(start.levels) /\ start.order \in Orders
    OBVIOUS
  <2> HIDE DEF V, start
  <2> QED
    BY <1>1, <2>1, <2>2, MatchOrderKeeps
<1> HIDE DEF done
<1>3. /\ done.levels \in AllLevels /\ done.order \in Orders
      /\ done.outputs \in Seq(Acks \cup Trades) /\ done.outputs # <<>>
      /\ done.order.key = order.key
      /\ Thins(done.levels, lv) /\ Reports(done.levels, done.outputs, lv)
  BY <1>2 DEF Progress, MatchStates
<1>4. IsLevels(done.levels)
  BY <1>3, AllLevelsTyped
<1> DEFINE left == done.order
<1>5. left \in Orders /\ left.key = order.key /\ new = Settle(done.levels, left)
  BY <1>3
<1> HIDE DEF left, new
<1>6. /\ \A key : KeyRests(new, key) => KeyRests(done.levels, key) \/ key = left.key
      /\ \A key : /\ KeyOnce(done.levels, key)
                  /\ key # left.key \/ ~KeyRests(done.levels, key)
                  => KeyOnce(new, key)
      /\ \A o \in Resting(done.levels) : Stays(new, o)
  BY <1>4, <1>5, SettleKeys
<1>7. IsLevels(new)
  BY <1>4, <1>5, SettleType
<1>8. Reports(new, done.outputs, lv)
  BY <1>3, <1>6 DEF Reports, Stays
<1>9. done.outputs \in Seq(Silent)
  BY <1>3 DEF Silent
<1>10. /\ Returns(Checked(book, new, done.outputs), book.levels, book.prev)
       /\ Checked(book, new, done.outputs).book.levels = new
  <2> DEFINE out == done.outputs
  <2>1. out \in Seq(Silent) /\ out # <<>> /\ Reports(new, out, lv)
    BY <1>3, <1>8, <1>9
  <2> HIDE DEF out
  <2> QED
    BY <1>7, <2>1, CheckedReturns DEF out
<1>11. Added(book, order) = Checked(book, new, done.outputs)
  BY DEF Added, done, new, left
<1> QED
  BY <1>3, <1>5, <1>6, <1>10, <1>11 DEF Thins

\* cancel_order: no key comes to the book, none becomes more frequent, and of
\* a key that was there once nothing is left.
LEMMA CancelledReturns ==
    ASSUME NEW book, IsLevels(book.levels),
           book = [levels |-> book.levels, prev |-> Snapshot(book.levels)],
           NEW key \in Keys
    PROVE  LET result == Cancelled(book, key)
               new    == result.book.levels
           IN  /\ Returns(result, book.levels, book.prev)
               /\ Thins(new, book.levels)
               /\ KeyOnce(book.levels, key) => ~KeyRests(new, key)
<1> DEFINE lv  == book.levels
           ack == CancelAckOutput(key)
           q   == <<ack>>
<1>1. ack \in Silent /\ ack.type = "CancelAck" /\ ack.key = key
  BY SilentMessages DEF CancelAckOutput
<1> HIDE DEF ack
<1>2. q \in Seq(Silent) /\ q # <<>> /\ 1 \in DOMAIN q /\ q[1] = ack /\ ToSet(q) = {ack}
  BY <1>1 DEF ToSet
<1>3. Names(q[1], key)
  BY <1>1, <1>2 DEF Names
<1> HIDE DEF q
<1>4. Cancelled(book, key) = IF InBook(lv, key) THEN Checked(book, RemoveOrder(lv, key), q)
                             ELSE [book |-> book, outputs |-> q]
  BY DEF Cancelled, q, ack
<1>5. CASE InBook(lv, key)
  <2> DEFINE new == RemoveOrder(lv, key)
  <2>1. IsLevels(new)
    BY <1>5, RemoveOrderType
  <2>2. /\ Thins(new, lv)
        /\ \A o \in Resting(lv) : Stays(new, o) \/ o.key = key
        /\ KeyOnce(lv, key) => ~KeyRests(new, key)
    BY <1>5, RemoveOrderThins
  <2> HIDE DEF new
  <2>3. Reports(new, q, lv)
    BY <1>2, <1>3, <2>2 DEF Reports
  <2>4. Returns(Checked(book, new, q), lv, book.prev) /\ Checked(book, new, q).book.levels = new
    BY <1>2, <2>1, <2>3, CheckedReturns
  <2> QED
    BY <1>4, <1>5, <2>2, <2>4 DEF new
<1>6. CASE ~InBook(lv, key)
  <2>1. ~KeyRests(lv, key)
    BY <1>6, KeyRestsIsQueued DEF InBook, OnSide, PricesWithKey, HasKey, Sides
  <2> DEFINE result == [book |-> book, outputs |-> q]
  <2>2. result.book = book /\ result.outputs = q
    OBVIOUS
  <2> HIDE DEF result
  <2>3. Informs(ToSet(q), book.prev, Snapshot(lv))
    <3>1. book.prev = Snapshot(lv)
      OBVIOUS
    <3>2. \A m \in ToSet(q) : m.type # "TopOfBook"
      BY <1>1, <1>2
    <3> QED
      BY <3>1, <3>2, SnapshotFacts DEF Informs
  <2>4. IsMessages(q)
    BY <1>2, KnownMessages DEF IsMessages
  <2>5. Reports(lv, q, lv) /\ Thins(lv, lv)
    BY DEF Reports, Stays, Thins
  <2>6. Returns(result, lv, book.prev)
    BY <1>2, <2>2, <2>3, <2>4, <2>5 DEF Returns
  <2> QED
    BY <1>4, <1>6, <2>1, <2>2, <2>5, <2>6 DEF result
<1> QED
  BY <1>5, <1>6

-----------------------------------------------------------------------------
(* Messages with their symbol.                                             *)

\* The message `n` is `m` with its symbol.
Carries(n, m, symbol) ==
    /\ n.symbol = symbol
    /\ n.type = m.type
    /\ m.type = "TopOfBook" =>
         n.side = m.side /\ n.price = m.price /\ n.quantity = m.quantity
    /\ \A key : Names(n, key) <=> Names(m, key)

LEMMA PutCarries ==
    ASSUME NEW m, IsMessage(m), NEW symbol
    PROVE  Carries(Put(m, "symbol", symbol), m, symbol)
<1> DEFINE n == Put(m, "symbol", symbol)
<1>1. /\ n.symbol = symbol
      /\ \A x \in DOMAIN m : x # "symbol" => n[x] = m[x]
  BY DEF Put
<1> HIDE DEF n
<1>2. /\ n.type = m.type
      /\ m.type = "TopOfBook" =>
           n.side = m.side /\ n.price = m.price /\ n.quantity = m.quantity
      /\ m.type = "CancelAck" => n.key = m.key
      /\ m.type = "Trade" => n.buy = m.buy /\ n.sell = m.sell
  BY <1>1 DEF IsMessage
<1>3. \A key : Names(n, key) <=> Names(m, key)
  BY <1>2 DEF Names
<1> QED
  BY <1>1, <1>2, <1>3 DEF Carries, n

\* What a call on one book returns, with the symbol added.
Tagged(all, q, symbol) ==
    /\ \E M : all \in Seq(M)
    /\ DOMAIN all = DOMAIN q
    /\ \A i \in DOMAIN q : Carries(all[i], q[i], symbol)

LEMMA TagTagged ==
    ASSUME NEW q, IsMessages(q), NEW symbol
    PROVE  Tagged(Tag(symbol, q), q, symbol)
<1>1. PICK M : q \in Seq(M) /\ \A m \in M : IsMessage(m)
  BY DEF IsMessages
<1> DEFINE N == {Put(m, "symbol", symbol) : m \in M}
           all == Tag(symbol, q)
<1>2. all = [i \in DOMAIN q |-> Put(q[i], "symbol", symbol)]
  BY DEF Tag
<1>3. DOMAIN q = 1..Len(q) /\ Len(q) \in Nat /\ \A i \in DOMAIN q : q[i] \in M
  BY <1>1
<1>4. \A i \in DOMAIN q : Put(q[i], "symbol", symbol) \in N
  BY <1>3
<1>5. \A i \in DOMAIN q : Carries(all[i], q[i], symbol)
  BY <1>1, <1>2, <1>3, PutCarries
<1> HIDE DEF N, all
<1>6. all \in Seq(N) /\ DOMAIN all = DOMAIN q
  BY <1>2, <1>3, <1>4
<1> QED
  BY <1>5, <1>6 DEF Tagged, all

\* The messages that an observer of one symbol takes note of.
About(symbol, messages) == {m \in messages : m.symbol = symbol}

\* What the messages about a symbol say, its subscriber sees.
LEMMA OfSymbolInforms ==
    ASSUME NEW all, \E M : all \in Seq(M), NEW symbol, NEW seen, NEW want,
           Informs(About(symbol, ToSet(all)), seen, want)
    PROVE  Observe(seen, OfSymbol(symbol, all)) = want
<1>1. PICK M : all \in Seq(M)
  OBVIOUS
<1> DEFINE K == About(symbol, ToSet(all))
           part == OfSymbol(symbol, all)
<1>2. part = Only(all, K)
  BY DEF OfSymbol, About
<1>3. K \subseteq ToSet(all)
  BY DEF About
<1> HIDE DEF K, part
<1>4. part \in Seq(M) /\ ToSet(part) = ToSet(all) \cap K
  BY <1>1, <1>2, OnlyRange
<1>5. ToSet(part) = K
  BY <1>3, <1>4
<1>6. Informs(ToSet(part), seen, want)
  BY <1>5 DEF K
<1>7. Observe(seen, part) = want
  BY <1>4, <1>6, ObserveAgrees
<1> QED
  BY <1>7 DEF part

\* A subscriber of the symbol learns what the messages say.
LEMMA TaggedView ==
    ASSUME NEW all, NEW q, NEW symbol, Tagged(all, q, symbol), NEW seen, NEW want,
           Informs(ToSet(q), seen, want)
    PROVE  Observe(seen, OfSymbol(symbol, all)) = want
<1>1. ASSUME NEW m \in About(symbol, ToSet(all))
      PROVE  \E i \in DOMAIN q : Carries(m, q[i], symbol) /\ q[i] \in ToSet(q)
  BY DEF Tagged, About, ToSet
<1>2. ASSUME NEW m \in ToSet(q)
      PROVE  \E n \in About(symbol, ToSet(all)) : Carries(n, m, symbol)
  <2>1. PICK i \in DOMAIN q : m = q[i]
    BY DEF ToSet
  <2>2. Carries(all[i], m, symbol) /\ all[i] \in ToSet(all)
    BY <2>1 DEF Tagged, ToSet
  <2>3. all[i] \in About(symbol, ToSet(all))
    BY <2>2 DEF About, Carries
  <2> QED
    BY <2>2, <2>3
<1> DEFINE A == About(symbol, ToSet(all))
<1> HIDE DEF A
<1>3. ASSUME NEW m \in A, NEW side \in Sides, m.type = "TopOfBook", m.side = side
      PROVE  m.price = want[side].price /\ m.quantity = want[side].quantity
  <2>1. PICK i \in DOMAIN q : Carries(m, q[i], symbol) /\ q[i] \in ToSet(q)
    BY <1>1 DEF A
  <2>2. q[i].type = "TopOfBook" /\ q[i].side = side
        /\ m.price = q[i].price /\ m.quantity = q[i].quantity
    BY <1>3, <2>1 DEF Carries
  <2> QED
    BY <2>1, <2>2 DEF Informs
<1>4. ASSUME NEW side \in Sides, seen[side] # want[side]
      PROVE  \E m \in A : m.type = "TopOfBook" /\ m.side = side
  <2>1. PICK m \in ToSet(q) : m.type = "TopOfBook" /\ m.side = side
    BY <1>4 DEF Informs
  <2>2. PICK n \in A : Carries(n, m, symbol)
    BY <1>2 DEF A
  <2>3. n.type = "TopOfBook" /\ n.side = side
    BY <2>1, <2>2 DEF Carries
  <2> QED
    BY <2>3
<1>5. Informs(A, seen, want)
  BY <1>3, <1>4 DEF Informs
<1> QED
  BY <1>5, OfSymbolInforms DEF Tagged, A

\* A subscriber of another symbol learns nothing.
LEMMA OtherView ==
    ASSUME NEW all, NEW q, NEW symbol, Tagged(all, q, symbol), NEW other,
           other # symbol, NEW lv, IsLevels(lv)
    PROVE  Observe(Snapshot(lv), OfSymbol(other, all)) = Snapshot(lv)
<1>1. About(other, ToSet(all)) = {}
  BY DEF Tagged, About, ToSet, Carries
<1>2. Informs({}, Snapshot(lv), Snapshot(lv))
  BY SnapshotFacts DEF Informs
<1> QED
  BY <1>1, <1>2, OfSymbolInforms DEF Tagged

\* What a flush of all books returns: the messages of every book's flush.
Flushed(all, books) ==
    /\ \E M : all \in Seq(M)
    /\ \A x : x \in ToSet(all) <=>
         \E s \in DOMAIN books : \E m \in ToSet(FlushOutputs(books[s].levels)) :
            x = Put(m, "symbol", s)

\* What ProcessFlush returns, part by part: one part for every book, in the
\* order in which the map is visited.
Parts(parts, symbols, books, M) ==
    /\ parts \in Seq(Seq(M)) /\ Len(symbols) \in Nat
    /\ DOMAIN symbols = 1..Len(symbols) /\ Len(parts) = Len(symbols)
    /\ \A i \in DOMAIN symbols :
         /\ symbols[i] \in DOMAIN books
         /\ parts[i] = Tag(symbols[i], FlushOutputs(books[symbols[i]].levels))
         /\ \A x : x \in ToSet(parts[i]) <=>
                     \E m \in ToSet(FlushOutputs(books[symbols[i]].levels)) :
                        x = Put(m, "symbol", symbols[i])
    /\ \A i, j \in DOMAIN symbols : symbols[i] = symbols[j] => i = j
    /\ \A s \in DOMAIN books : \E i \in DOMAIN symbols : symbols[i] = s

LEMMA FlushParts ==
    ASSUME NEW books, IsFiniteSet(DOMAIN books),
           \A s \in DOMAIN books : IsLevels(books[s].levels),
           NEW symbols \in SetToSeqs(DOMAIN books)
    PROVE  \E M : Parts([i \in DOMAIN symbols |->
                     Tag(symbols[i], FlushOutputs(books[symbols[i]].levels))],
                   symbols, books, M)
<1> DEFINE D == DOMAIN books
           B == CancelAcks \cup {Eliminated(side) : side \in Sides}
           M == {Put(t[1], "symbol", t[2]) : t \in B \X D}
           out(s) == FlushOutputs(books[s].levels)
           part(s) == Tag(s, out(s))
           parts == [i \in DOMAIN symbols |-> part(symbols[i])]
<1>1. /\ symbols \in Seq(D) /\ DOMAIN symbols = 1..Len(symbols)
      /\ \A i, j \in DOMAIN symbols : symbols[i] = symbols[j] => i = j
      /\ \A s \in D : \E i \in DOMAIN symbols : symbols[i] = s
  <2> HIDE DEF D
  <2> QED
    BY ListsAll DEF D
<1>2. ASSUME NEW s \in D
      PROVE  /\ part(s) \in Seq(M)
             /\ \A x : x \in ToSet(part(s)) <=>
                         \E m \in ToSet(out(s)) : x = Put(m, "symbol", s)
  <2> DEFINE q == out(s)
             p == part(s)
  <2>1. q \in Seq(B)
    BY FlushOutputsFacts
  <2>2. p = [i \in DOMAIN q |-> Put(q[i], "symbol", s)]
    BY DEF Tag
  <2> HIDE DEF q, p, B, D, part
  <2>3. DOMAIN q = 1..Len(q) /\ Len(q) \in Nat /\ \A i \in DOMAIN q : q[i] \in B
    BY <2>1
  <2>4. \A i \in DOMAIN q : Put(q[i], "symbol", s) \in M
    <3> TAKE i \in DOMAIN q
    <3>1. <<q[i], s>> \in B \X D
      BY <2>3
    <3> DEFINE t == <<q[i], s>>
    <3>2. t \in B \X D /\ Put(q[i], "symbol", s) = Put(t[1], "symbol", t[2])
      BY <3>1
    <3> HIDE DEF t
    <3> QED
      BY <3>2
  <2> HIDE DEF M
  <2>5. p \in Seq(M) /\ DOMAIN p = DOMAIN q
    BY <2>2, <2>3, <2>4
  <2>6. \A x : x \in ToSet(p) <=> \E m \in ToSet(q) : x = Put(m, "symbol", s)
    BY <2>2, <2>5 DEF ToSet
  <2> QED
    BY <2>5, <2>6 DEF q, p
<1> HIDE DEF D, M, part
<1>3. Len(symbols) \in Nat /\ \A i \in DOMAIN symbols : symbols[i] \in D
  BY <1>1
<1>4. parts \in Seq(Seq(M)) /\ Len(parts) = Len(symbols) /\ DOMAIN parts = DOMAIN symbols
  BY <1>1, <1>2, <1>3
<1>5. \A i \in DOMAIN symbols : parts[i] = part(symbols[i])
  OBVIOUS
<1>6. \A i \in DOMAIN symbols : \A x :
        x \in ToSet(parts[i]) <=>
           \E m \in ToSet(out(symbols[i])) : x = Put(m, "symbol", symbols[i])
  <2> HIDE DEF parts, out
  <2> QED
    BY <1>2, <1>3, <1>5
<1>7. \A i \in DOMAIN symbols :
        parts[i] = Tag(symbols[i], FlushOutputs(books[symbols[i]].levels))
  BY <1>5 DEF part
<1>8. Parts(parts, symbols, books, M)
  <2> HIDE DEF parts, M
  <2> QED
    BY <1>1, <1>3, <1>4, <1>6, <1>7 DEF Parts, D
<1>9. parts = [i \in DOMAIN symbols |->
                 Tag(symbols[i], FlushOutputs(books[symbols[i]].levels))]
  BY DEF parts, part
<1> QED
  BY <1>8, <1>9

LEMMA FlushFlushed ==
    ASSUME NEW books, NEW symbols, NEW parts, NEW M, Parts(parts, symbols, books, M)
    PROVE  Flushed(FlattenSeq(parts), books)
<1> DEFINE all == FlattenSeq(parts)
<1>1. PICK f : Flattens(f, M, parts)
  BY FlattenFacts DEF Parts
<1>2. Len(parts) \in 0..Len(parts) /\ 1..Len(parts) = DOMAIN symbols
  BY DEF Parts
<1>3. all \in Seq(M)
  BY <1>1, <1>2 DEF Flattens
<1>4. \A x : x \in ToSet(all) <=> \E i \in DOMAIN symbols : x \in ToSet(parts[i])
  BY <1>1, <1>2 DEF Flattens
<1> HIDE DEF all
<1>5. ASSUME NEW x
      PROVE  x \in ToSet(all) <=>
               \E s \in DOMAIN books : \E m \in ToSet(FlushOutputs(books[s].levels)) :
                  x = Put(m, "symbol", s)
  <2> DEFINE from(s) == \E m \in ToSet(FlushOutputs(books[s].levels)) :
                          x = Put(m, "symbol", s)
  <2>1. /\ \A i \in DOMAIN symbols : symbols[i] \in DOMAIN books
        /\ \A s \in DOMAIN books : \E i \in DOMAIN symbols : symbols[i] = s
    BY DEF Parts
  <2>2. \A i \in DOMAIN symbols : x \in ToSet(parts[i]) <=> from(symbols[i])
    BY DEF Parts
  <2> HIDE DEF from
  <2>3. x \in ToSet(all) <=> \E s \in DOMAIN books : from(s)
    BY <1>4, <2>1, <2>2
  <2> QED
    BY <2>3 DEF from
<1>6. Flushed(all, books)
  BY <1>3, <1>5 DEF Flushed
<1> QED
  BY <1>6 DEF all

\* What the messages of one symbol are, whatever the order of the map.
LEMMA FlushedOfSymbol ==
    ASSUME NEW books, NEW symbols, NEW parts, NEW M, Parts(parts, symbols, books, M),
           NEW symbol
    PROVE  OfSymbol(symbol, FlattenSeq(parts)) =
             IF symbol \in DOMAIN books
             THEN Tag(symbol, FlushOutputs(books[symbol].levels)) ELSE <<>>
<1> DEFINE all == FlattenSeq(parts)
           K   == {m \in ToSet(all) : m.symbol = symbol}
<1>1. PICK f : Flattens(f, M, parts)
  BY FlattenFacts DEF Parts
<1>2. /\ Len(parts) \in 0..Len(parts) /\ 1..Len(parts) = DOMAIN symbols
      /\ DOMAIN parts = DOMAIN symbols
  BY DEF Parts
<1>3. \A x : x \in ToSet(all) <=> \E i \in DOMAIN symbols : x \in ToSet(parts[i])
  BY <1>1, <1>2 DEF Flattens
<1> HIDE DEF all
<1>4. ASSUME NEW i \in DOMAIN symbols, NEW x \in ToSet(parts[i])
      PROVE  x.symbol = symbols[i] /\ x \in ToSet(all)
  <2>1. PICK m \in ToSet(FlushOutputs(books[symbols[i]].levels)) :
              x = Put(m, "symbol", symbols[i])
    BY DEF Parts
  <2> QED
    BY <1>3, <2>1 DEF Put
<1>5. OfSymbol(symbol, all) = Only(all, K)
  BY DEF OfSymbol
<1>6. \A x : x \in K <=> x \in ToSet(all) /\ x.symbol = symbol
  OBVIOUS
<1> HIDE DEF K
<1>7. CASE symbol \in DOMAIN books
  <2>1. PICK j \in DOMAIN symbols : symbols[j] = symbol
    BY <1>7 DEF Parts
  <2>2. OnlyPart(parts, K, j)
    <3>1. ToSet(parts[j]) \subseteq K
      BY <1>4, <1>6, <2>1
    <3>2. ASSUME NEW i \in DOMAIN symbols, i # j
          PROVE  ToSet(parts[i]) \cap K = {}
      <4>1. symbols[i] # symbol
        BY <2>1, <3>2 DEF Parts
      <4> QED
        BY <1>4, <1>6, <4>1
    <3> QED
      BY <1>2, <3>1, <3>2 DEF OnlyPart
  <2>3. Only(all, K) = parts[j]
    <3>1. Only(all, K) = IF j \in DOMAIN parts THEN parts[j] ELSE <<>>
      BY <2>2, OnlyFlatten DEF Parts, all
    <3> QED
      BY <1>2, <3>1
  <2>4. parts[j] = Tag(symbol, FlushOutputs(books[symbol].levels))
    BY <2>1 DEF Parts
  <2> QED
    BY <1>5, <1>7, <2>3, <2>4 DEF all
<1>8. CASE symbol \notin DOMAIN books
  <2>1. 0 \notin DOMAIN parts
    BY <1>2
  <2>2. OnlyPart(parts, K, 0)
    <3>1. ASSUME NEW i \in DOMAIN symbols
          PROVE  ToSet(parts[i]) \cap K = {}
      <4>1. symbols[i] # symbol
        BY <1>8 DEF Parts
      <4> QED
        BY <1>4, <1>6, <4>1
    <3> QED
      BY <1>2, <2>1, <3>1 DEF OnlyPart
  <2>3. Only(all, K) = <<>>
    <3>1. Only(all, K) = IF 0 \in DOMAIN parts THEN parts[0] ELSE <<>>
      BY <2>2, OnlyFlatten DEF Parts, all
    <3> QED
      BY <2>1, <3>1
  <2> QED
    BY <1>5, <1>8, <2>3 DEF all
<1> QED
  BY <1>7, <1>8

\* After a flush a subscriber of a symbol that had a book knows that its top is
\* gone; a subscriber of another one learns nothing.
LEMMA FlushedView ==
    ASSUME NEW all, NEW books, Flushed(all, books), NEW symbol,
           \A s \in DOMAIN books : IsLevels(books[s].levels)
    PROVE  /\ symbol \in DOMAIN books =>
                Observe(Snapshot(books[symbol].levels), OfSymbol(symbol, all)) = NoTop
           /\ symbol \notin DOMAIN books =>
                Observe(NoTop, OfSymbol(symbol, all)) = NoTop
<1> DEFINE A == About(symbol, ToSet(all))
<1>1. ASSUME NEW s \in DOMAIN books, NEW m \in ToSet(FlushOutputs(books[s].levels))
      PROVE  Carries(Put(m, "symbol", s), m, s)
  <2>1. \/ \E o \in Resting(books[s].levels) : m = CancelAckOutput(o.key)
        \/ \E side \in Sides : m = Eliminated(side)
    BY FlushOutputsFacts
  <2>2. IsMessage(m)
    BY <2>1, KnownMessages
  <2> QED
    BY <2>2, PutCarries
<1>2. \A x : x \in A <=> x \in ToSet(all) /\ x.symbol = symbol
  BY DEF About
<1> HIDE DEF A
<1>3. CASE symbol \in DOMAIN books
  <2> DEFINE q == FlushOutputs(books[symbol].levels)
             seen == Snapshot(books[symbol].levels)
  <2>1. Informs(ToSet(q), seen, NoTop)
    BY <1>3, FlushedInforms
  <2>2. \A m \in ToSet(q) : Carries(Put(m, "symbol", symbol), m, symbol)
    BY <1>1, <1>3
  <2>3. ASSUME NEW n \in A
        PROVE  \E m \in ToSet(q) : Carries(n, m, symbol)
    <3>1. PICK s \in DOMAIN books : \E m \in ToSet(FlushOutputs(books[s].levels)) :
                 n = Put(m, "symbol", s)
      BY <1>2 DEF Flushed
    <3>2. PICK m \in ToSet(FlushOutputs(books[s].levels)) : n = Put(m, "symbol", s)
      BY <3>1
    <3>3. Carries(n, m, s)
      BY <1>1, <3>2
    <3>4. s = symbol
      BY <1>2, <3>3 DEF Carries
    <3> QED
      BY <3>3, <3>4
  <2>4. ASSUME NEW m \in ToSet(q)
        PROVE  \E n \in A : Carries(n, m, symbol)
    <3>1. Put(m, "symbol", symbol) \in ToSet(all)
      BY <1>3 DEF Flushed
    <3>2. Carries(Put(m, "symbol", symbol), m, symbol)
      BY <2>2
    <3>3. Put(m, "symbol", symbol) \in A
      BY <1>2, <3>1, <3>2 DEF Carries
    <3> QED
      BY <3>2, <3>3
  <2> HIDE DEF q, seen
  <2>5. ASSUME NEW n \in A, NEW side \in Sides, n.type = "TopOfBook", n.side = side
        PROVE  n.price = NoTop[side].price /\ n.quantity = NoTop[side].quantity
    <3>1. PICK m \in ToSet(q) : Carries(n, m, symbol)
      BY <2>3
    <3> QED
      BY <2>1, <2>5, <3>1 DEF Carries, Informs
  <2>6. ASSUME NEW side \in Sides, seen[side] # NoTop[side]
        PROVE  \E n \in A : n.type = "TopOfBook" /\ n.side = side
    <3>1. PICK m \in ToSet(q) : m.type = "TopOfBook" /\ m.side = side
      BY <2>1, <2>6 DEF Informs
    <3>2. PICK n \in A : Carries(n, m, symbol)
      BY <2>4
    <3> QED
      BY <3>1, <3>2 DEF Carries
  <2>7. Informs(A, seen, NoTop)
    BY <2>1, <2>5, <2>6 DEF Informs
  <2>8. Observe(seen, OfSymbol(symbol, all)) = NoTop
    BY <2>7, OfSymbolInforms DEF A, Flushed
  <2> QED
    BY <1>3, <2>8 DEF seen
<1>4. CASE symbol \notin DOMAIN books
  <2>1. A = {}
    <3> SUFFICES ASSUME NEW n \in A PROVE FALSE
      OBVIOUS
    <3>1. PICK s \in DOMAIN books : \E m \in ToSet(FlushOutputs(books[s].levels)) :
                 n = Put(m, "symbol", s)
      BY <1>2 DEF Flushed
    <3>2. PICK m \in ToSet(FlushOutputs(books[s].levels)) : n = Put(m, "symbol", s)
      BY <3>1
    <3>3. Carries(n, m, s)
      BY <1>1, <3>2
    <3> QED
      BY <1>2, <1>4, <3>3 DEF Carries
  <2>2. Informs({}, NoTop, NoTop)
    BY DEF Informs, NoTop
  <2>3. Observe(NoTop, OfSymbol(symbol, all)) = NoTop
    BY <2>1, <2>2, OfSymbolInforms DEF A, Flushed
  <2> QED
    BY <1>4, <2>3
<1> QED
  BY <1>3, <1>4

-----------------------------------------------------------------------------
(* The invariant.                                                          *)

\* A book between two calls: the cached top is the top.
IsBook(book) ==
    /\ book = [levels |-> book.levels, prev |-> Snapshot(book.levels)]
    /\ IsLevels(book.levels)

AreBooks(books) ==
    /\ books = [symbol \in DOMAIN books |-> books[symbol]]
    /\ DOMAIN books \in SUBSET Symbols /\ IsFiniteSet(DOMAIN books)
    /\ \A symbol \in DOMAIN books : IsBook(books[symbol])

EngineTypeOK ==
    /\ AreBooks(order_books)
    /\ order_to_symbol = [key \in DOMAIN order_to_symbol |-> order_to_symbol[key]]
    /\ DOMAIN order_to_symbol \in SUBSET Keys
    /\ arrivals \in Nat /\ uses \in [Keys -> Nat]

\* A key that rests was used since the last flush, and a key that was used
\* once is in no book twice: what Routed needs to be inductive, because a
\* cancel takes one order and forgets the key.
KeysCounted ==
    \A symbol \in DOMAIN order_books, key \in Keys :
        /\ KeyRests(order_books[symbol].levels, key) => uses[key] # 0
        /\ uses[key] = 1 => KeyOnce(order_books[symbol].levels, key)

EngineInv == EngineTypeOK /\ KeysCounted /\ Routed /\ FeedCoherent

\* Routed in terms of keys.
RoutedKeys ==
    /\ \A key \in DOMAIN order_to_symbol : order_to_symbol[key] \in DOMAIN order_books
    /\ \A symbol \in DOMAIN order_books, key \in Keys :
         KeyRests(order_books[symbol].levels, key) /\ uses[key] = 1 =>
            key \in DOMAIN order_to_symbol /\ order_to_symbol[key] = symbol

LEMMA RoutedByKey == AreBooks(order_books) => (Routed <=> RoutedKeys)
<1> SUFFICES ASSUME AreBooks(order_books) PROVE Routed <=> RoutedKeys
  OBVIOUS
<1>1. ASSUME NEW symbol \in DOMAIN order_books, NEW o \in OrdersIn(symbol)
      PROVE  o.key \in Keys /\ KeyRests(order_books[symbol].levels, o.key)
  <2>1. IsLevels(order_books[symbol].levels)
    BY DEF AreBooks, IsBook
  <2>2. o \in Orders
    BY <2>1, RestingFinite DEF OrdersIn
  <2> QED
    BY <2>2 DEF OrdersIn, KeyRests, Orders
<1>2. \A symbol \in DOMAIN order_books : \A key :
        KeyRests(order_books[symbol].levels, key) <=> \E o \in OrdersIn(symbol) : o.key = key
  BY DEF KeyRests, OrdersIn
<1>3. Range(order_to_symbol) \subseteq DOMAIN order_books <=>
        \A key \in DOMAIN order_to_symbol : order_to_symbol[key] \in DOMAIN order_books
  BY DEF Range
<1>4. ASSUME Routed PROVE RoutedKeys
  BY <1>2, <1>3, <1>4 DEF Routed, RoutedKeys
<1>5. ASSUME RoutedKeys PROVE Routed
  BY <1>1, <1>3, <1>5 DEF Routed, RoutedKeys
<1> QED
  BY <1>4, <1>5

\* The book of every symbol, new or not, is a book.
LEMMA BookOfIsBook ==
    ASSUME AreBooks(order_books), NEW symbol
    PROVE  IsBook(BookOf(symbol))
<1>1. IsBook(NewBook)
  BY EmptyBook DEF NewBook, IsBook
<1> QED
  BY <1>1 DEF BookOf, AreBooks

\* The handler calls the book of one symbol.
Calls(symbol, result) ==
    /\ symbol \in Symbols /\ alive /\ alive' = alive
    /\ Returns(result, BookOf(symbol).levels, BookOf(symbol).prev)
    /\ order_books' = Put(order_books, symbol, result.book)
    /\ Return(Tag(symbol, result.outputs))

\* Every order of every book still rests in it, or a message with the symbol
\* and the key says that it is gone.
DeparturesNamed ==
    \A symbol \in DOMAIN order_books : \A o \in OrdersIn(symbol) :
        \/ symbol \in DOMAIN order_books' /\ Stays(order_books'[symbol].levels, o)
        \/ \E i \in DOMAIN outputs' :
             outputs'[i].symbol = symbol /\ Names(outputs'[i], o.key)

\* A message with the symbol comes with every change of a book.
ChangesTold ==
    \A symbol \in Symbols :
        BookOf(symbol)' # BookOf(symbol) =>
           \E i \in DOMAIN outputs' : outputs'[i].symbol = symbol

\* What a call on one book does to the books.
LEMMA CallEffect ==
    ASSUME AreBooks(order_books), NEW symbol, NEW result, Calls(symbol, result)
    PROVE  /\ DOMAIN order_books' = DOMAIN order_books \cup {symbol}
           /\ order_books'[symbol] = result.book
           /\ \A s \in DOMAIN order_books : s # symbol => order_books'[s] = order_books[s]
           /\ IsBook(result.book) /\ AreBooks(order_books)'
           /\ Tagged(outputs', result.outputs, symbol) /\ result.outputs # <<>>
           /\ BookOf(symbol)' = result.book
           /\ \A s : s # symbol => BookOf(s)' = BookOf(s)
<1>1. /\ DOMAIN order_books' = DOMAIN order_books \cup {symbol}
      /\ order_books' = [s \in DOMAIN order_books' |-> order_books'[s]]
      /\ order_books'[symbol] = result.book
      /\ \A s \in DOMAIN order_books : s # symbol => order_books'[s] = order_books[s]
  BY DEF Calls, Put
<1>2. IsBook(result.book) /\ IsMessages(result.outputs) /\ result.outputs # <<>>
  <2> DEFINE book == result.book
  <2>1. /\ book = [levels |-> book.levels, prev |-> Snapshot(book.levels)]
        /\ IsLevels(book.levels)
        /\ IsMessages(result.outputs) /\ result.outputs # <<>>
    BY DEF Calls, Returns
  <2> HIDE DEF book
  <2>2. IsBook(book)
    BY <2>1 DEF IsBook
  <2> QED
    BY <2>1, <2>2 DEF book
<1>3. AreBooks(order_books)'
  <2>1. IsFiniteSet(DOMAIN order_books \cup {symbol})
    BY FS_AddElement DEF AreBooks
  <2>2. DOMAIN order_books' \in SUBSET Symbols
    BY <1>1 DEF Calls, AreBooks
  <2>3. \A s \in DOMAIN order_books' : IsBook(order_books'[s])
    BY <1>1, <1>2 DEF AreBooks
  <2> QED
    BY <1>1, <2>1, <2>2, <2>3 DEF AreBooks
<1>4. Tagged(outputs', result.outputs, symbol)
  BY <1>2, TagTagged DEF Calls, Return
<1>5. BookOf(symbol)' = result.book
  BY <1>1 DEF BookOf
<1>6. \A s : s # symbol => BookOf(s)' = BookOf(s)
  BY <1>1 DEF BookOf
<1> QED
  BY <1>1, <1>2, <1>3, <1>4, <1>5, <1>6

\* After a call on one book every subscriber knows the top of its own.
LEMMA CallFeed ==
    ASSUME AreBooks(order_books), FeedCoherent, NEW symbol, NEW result,
           Calls(symbol, result)
    PROVE  FeedCoherent'
<1>1. /\ Tagged(outputs', result.outputs, symbol)
      /\ BookOf(symbol)' = result.book
      /\ \A s : s # symbol => BookOf(s)' = BookOf(s)
  BY CallEffect
<1>2. alive /\ symbol \in Symbols
      /\ feed' = [s \in Symbols |-> Observe(feed[s], OfSymbol(s, outputs'))]
  BY DEF Calls, Return
<1>3. ASSUME NEW s \in Symbols
      PROVE  feed[s] = Snapshot(BookOf(s).levels) /\ IsBook(BookOf(s))
  BY <1>2, BookOfIsBook DEF FeedCoherent
<1>4. feed'[symbol] = Snapshot(BookOf(symbol)'.levels)
  <2> DEFINE q == result.outputs
             new == result.book.levels
  <2>1. BookOf(symbol).prev = Snapshot(BookOf(symbol).levels)
    BY <1>2, <1>3 DEF IsBook
  <2>2. Informs(ToSet(q), feed[symbol], Snapshot(new))
    BY <1>2, <1>3, <2>1 DEF Calls, Returns
  <2>3. Tagged(outputs', q, symbol)
    BY <1>1
  <2> HIDE DEF q, new
  <2>4. Observe(feed[symbol], OfSymbol(symbol, outputs')) = Snapshot(new)
    BY <2>2, <2>3, TaggedView
  <2> QED
    BY <1>1, <1>2, <2>4 DEF new
<1>5. ASSUME NEW s \in Symbols, s # symbol
      PROVE  feed'[s] = Snapshot(BookOf(s)'.levels)
  <2> DEFINE q == result.outputs
             lv == BookOf(s).levels
  <2>1. Tagged(outputs', q, symbol) /\ IsLevels(lv)
    BY <1>1, <1>3 DEF IsBook
  <2>2. feed[s] = Snapshot(lv)
    BY <1>3
  <2> HIDE DEF q, lv
  <2>3. Observe(Snapshot(lv), OfSymbol(s, outputs')) = Snapshot(lv)
    BY <1>5, <2>1, OtherView
  <2>4. BookOf(s)'.levels = lv
    BY <1>1, <1>5 DEF lv
  <2> QED
    BY <1>2, <2>2, <2>3, <2>4
<1>6. \A s \in Symbols : feed'[s] = Snapshot(BookOf(s)'.levels)
  BY <1>4, <1>5
<1> QED
  BY <1>6 DEF FeedCoherent

\* A call on one book reports what it changes.
LEMMA CallReports ==
    ASSUME AreBooks(order_books), NEW symbol, NEW result, Calls(symbol, result)
    PROVE  DeparturesNamed /\ ChangesTold
<1>1. /\ DOMAIN order_books' = DOMAIN order_books \cup {symbol}
      /\ order_books'[symbol] = result.book
      /\ \A s \in DOMAIN order_books : s # symbol => order_books'[s] = order_books[s]
      /\ Tagged(outputs', result.outputs, symbol) /\ result.outputs # <<>>
      /\ \A s : s # symbol => BookOf(s)' = BookOf(s)
  BY CallEffect
<1>2. \A i \in DOMAIN result.outputs :
        /\ i \in DOMAIN outputs' /\ outputs'[i].symbol = symbol
        /\ \A key : Names(outputs'[i], key) <=> Names(result.outputs[i], key)
  BY <1>1 DEF Tagged, Carries
<1>3. ASSUME NEW s \in DOMAIN order_books, NEW o \in OrdersIn(s)
      PROVE  \/ s \in DOMAIN order_books' /\ Stays(order_books'[s].levels, o)
             \/ \E i \in DOMAIN outputs' :
                  outputs'[i].symbol = s /\ Names(outputs'[i], o.key)
  <2>1. CASE s # symbol
    BY <1>1, <2>1 DEF OrdersIn, Stays
  <2>2. CASE s = symbol
    <3>1. Reports(result.book.levels, result.outputs, order_books[s].levels)
      BY <2>2 DEF Calls, Returns, BookOf
    <3>2. \/ Stays(result.book.levels, o)
          \/ \E i \in DOMAIN result.outputs : Names(result.outputs[i], o.key)
      BY <3>1 DEF Reports, OrdersIn
    <3> QED
      BY <1>1, <1>2, <2>2, <3>2
  <2> QED
    BY <2>1, <2>2
<1>4. \E i \in DOMAIN outputs' : outputs'[i].symbol = symbol
  <2> DEFINE q == result.outputs
  <2>1. PICK M : q \in Seq(M)
    BY DEF Calls, Returns, IsMessages
  <2>2. q # <<>> /\ \A i \in DOMAIN q : i \in DOMAIN outputs' /\ outputs'[i].symbol = symbol
    BY <1>1, <1>2
  <2> HIDE DEF q
  <2>3. 1 \in DOMAIN q
    BY <2>1, <2>2
  <2> QED
    BY <2>2, <2>3
<1>5. ChangesTold
  BY <1>1, <1>4 DEF ChangesTold
<1> QED
  BY <1>3, <1>5 DEF DeparturesNamed

-----------------------------------------------------------------------------
(* The actions.                                                            *)

LEMMA InitEngineInv == Init => EngineInv
<1> SUFFICES ASSUME Init PROVE EngineInv
  OBVIOUS
<1>1. order_books = <<>> /\ order_to_symbol = <<>> /\ arrivals = 0
      /\ uses = [key \in Keys |-> 0] /\ feed = [symbol \in Symbols |-> NoTop]
  BY DEF Init
<1>2. /\ DOMAIN order_books = {} /\ DOMAIN order_to_symbol = {}
      /\ order_books = [symbol \in DOMAIN order_books |-> order_books[symbol]]
      /\ order_to_symbol = [key \in DOMAIN order_to_symbol |-> order_to_symbol[key]]
  BY <1>1
<1>3. AreBooks(order_books)
  BY <1>2, FS_EmptySet DEF AreBooks
<1>4. EngineTypeOK
  BY <1>1, <1>2, <1>3 DEF EngineTypeOK
<1>5. Routed /\ KeysCounted
  BY <1>2, <1>3, RoutedByKey DEF KeysCounted, RoutedKeys
<1>6. FeedCoherent
  BY <1>1, <1>2, EmptyBook DEF FeedCoherent, BookOf, NewBook
<1> QED
  BY <1>4, <1>5, <1>6 DEF EngineInv

\* process_new_order is a call of its symbol's book with a fresh order.
LEMMA NewOrderCalls ==
    ASSUME EngineInv, NEW symbol \in Symbols, NEW msg \in NewOrders,
           ProcessNewOrder(symbol, msg)
    PROVE  LET order == FromNewOrder(msg, arrivals + 1) IN
           /\ order \in Orders /\ order.key = msg.key /\ order.price = msg.price
           /\ order.remaining_qty = msg.quantity
           /\ IsBook(BookOf(symbol))
           /\ Calls(symbol, Added(BookOf(symbol), order))
<1> DEFINE book   == BookOf(symbol)
           order  == FromNewOrder(msg, arrivals + 1)
           result == Added(book, order)
<1>1. AreBooks(order_books) /\ arrivals \in Nat
  BY DEF EngineInv, EngineTypeOK
<1>2. /\ order \in Orders /\ order.key = msg.key /\ order.price = msg.price
      /\ order.remaining_qty = msg.quantity
  <2>1. /\ msg.key \in Keys /\ msg.side \in Sides /\ msg.price \in Prices \cup {Market}
        /\ msg.quantity \in Quantities /\ msg.quantity \in 0..(U32 - 1)
    BY BookAssumption DEF NewOrders
  <2> QED
    BY <1>1, <2>1 DEF FromNewOrder, Orders
<1>3. IsBook(book)
  BY <1>1, BookOfIsBook
<1>4. /\ alive /\ alive' = alive
      /\ order_books' = Put(order_books, symbol, result.book)
      /\ Return(Tag(symbol, result.outputs))
  BY DEF ProcessNewOrder
<1> HIDE DEF order, book, result
<1>5. Returns(result, book.levels, book.prev)
  BY <1>2, <1>3, AddedReturns DEF IsBook, result
<1>6. Calls(symbol, result)
  BY <1>4, <1>5 DEF Calls, book
<1> QED
  BY <1>2, <1>3, <1>6 DEF order, book, result

\* A new order is counted, and tracked to its symbol.
LEMMA NewOrderKeeps ==
    ASSUME EngineInv, NEW symbol \in Symbols, NEW msg \in NewOrders,
           ProcessNewOrder(symbol, msg)
    PROVE  EngineInv' /\ DeparturesNamed /\ ChangesTold
<1> DEFINE book   == BookOf(symbol)
           order  == FromNewOrder(msg, arrivals + 1)
           result == Added(book, order)
           key    == msg.key
           new    == result.book.levels
<1>1. /\ EngineTypeOK /\ AreBooks(order_books) /\ KeysCounted /\ Routed /\ FeedCoherent
      /\ arrivals \in Nat /\ uses \in [Keys -> Nat]
  BY DEF EngineInv, EngineTypeOK
<1>2. order \in Orders /\ order.key = key /\ key \in Keys
  BY NewOrderCalls DEF Orders
<1>3. IsBook(book) /\ Calls(symbol, result)
  BY NewOrderCalls
<1>4. /\ alive /\ alive' = alive
      /\ order_books' = Put(order_books, symbol, result.book)
      /\ order_to_symbol' = Put(order_to_symbol, key, symbol)
      /\ Return(Tag(symbol, result.outputs))
      /\ arrivals' = arrivals + 1 /\ uses' = [uses EXCEPT ![key] = @ + 1]
  BY DEF ProcessNewOrder
<1> HIDE DEF order, book, key, result
<1>5. /\ Returns(result, book.levels, book.prev)
      /\ \A k : KeyRests(new, k) => KeyRests(book.levels, k) \/ k = key
      /\ \A k : KeyOnce(book.levels, k) /\ (k # key \/ ~KeyRests(book.levels, k))
                  => KeyOnce(new, k)
  BY <1>2, <1>3, AddedReturns DEF IsBook, result
<1>6. Calls(symbol, result)
  BY <1>3
<1>7. /\ DOMAIN order_books' = DOMAIN order_books \cup {symbol}
      /\ order_books'[symbol].levels = new
      /\ \A s \in DOMAIN order_books : s # symbol => order_books'[s] = order_books[s]
      /\ AreBooks(order_books)'
  BY <1>1, <1>6, CallEffect
<1>8. /\ DOMAIN order_to_symbol' = DOMAIN order_to_symbol \cup {key}
      /\ order_to_symbol' = [k \in DOMAIN order_to_symbol' |-> order_to_symbol'[k]]
      /\ order_to_symbol'[key] = symbol
      /\ \A k \in DOMAIN order_to_symbol : k # key => order_to_symbol'[k] = order_to_symbol[k]
  BY <1>4 DEF Put
<1>9. EngineTypeOK'
  <2>1. DOMAIN order_to_symbol' \in SUBSET Keys
    BY <1>1, <1>2, <1>8 DEF EngineTypeOK
  <2>2. uses' \in [Keys -> Nat] /\ arrivals' \in Nat
    BY <1>1, <1>2, <1>4
  <2> QED
    BY <1>7, <1>8, <2>1, <2>2 DEF EngineTypeOK
<1>10. /\ \A k \in Keys : uses'[k] = IF k = key THEN uses[k] + 1 ELSE uses[k]
       /\ \A k \in Keys : uses[k] \in Nat
  BY <1>1, <1>2, <1>4
<1>11. ASSUME NEW k \in Keys
       PROVE  /\ KeyRests(book.levels, k) => uses[k] # 0
              /\ uses[k] = 1 => KeyOnce(book.levels, k)
              /\ ~KeyRests(book.levels, k) => KeyOnce(book.levels, k)
  <2>1. CASE symbol \in DOMAIN order_books
    BY <1>1, <2>1, KeyRestsIsQueued DEF KeysCounted, book, BookOf, KeyOnce
  <2>2. CASE symbol \notin DOMAIN order_books
    <3>1. book.levels = EmptyLevels
      BY <2>2 DEF book, BookOf, NewBook
    <3>2. ~KeyRests(book.levels, k)
      BY <3>1, EmptyBook DEF KeyRests
    <3> QED
      BY <3>2, KeyRestsIsQueued DEF KeyOnce
  <2> QED
    BY <2>1, <2>2
<1>12. ASSUME NEW s \in DOMAIN order_books', NEW k \in Keys
       PROVE  /\ KeyRests(order_books'[s].levels, k) => uses'[k] # 0
              /\ uses'[k] = 1 => KeyOnce(order_books'[s].levels, k)
  <2>1. CASE s = symbol
    <3>1. KeyRests(new, k) => uses'[k] # 0
      BY <1>5, <1>10, <1>11
    <3>2. uses'[k] = 1 => KeyOnce(new, k)
      BY <1>5, <1>10, <1>11
    <3> QED
      BY <1>7, <2>1, <3>1, <3>2
  <2>2. CASE s # symbol
    <3>1. s \in DOMAIN order_books /\ order_books'[s] = order_books[s]
      BY <1>7, <2>2
    <3>2. /\ KeyRests(order_books[s].levels, k) => uses[k] # 0
          /\ uses[k] = 1 => KeyOnce(order_books[s].levels, k)
          /\ ~KeyRests(order_books[s].levels, k) => KeyOnce(order_books[s].levels, k)
      BY <1>1, <3>1, KeyRestsIsQueued DEF KeysCounted, KeyOnce
    <3> QED
      BY <1>10, <3>1, <3>2
  <2> QED
    BY <2>1, <2>2
<1>13. KeysCounted'
  BY <1>12 DEF KeysCounted
<1>14. RoutedKeys
  BY <1>1, RoutedByKey
<1>15. ASSUME NEW s \in DOMAIN order_books', NEW k \in Keys,
              KeyRests(order_books'[s].levels, k), uses'[k] = 1
       PROVE  k \in DOMAIN order_to_symbol' /\ order_to_symbol'[k] = s
  <2>1. CASE k = key
    <3>1. uses[k] = 0
      BY <1>10, <1>15, <2>1
    <3>2. s = symbol
      BY <1>1, <1>7, <1>15, <3>1 DEF KeysCounted
    <3> QED
      BY <1>8, <2>1, <3>2
  <2>2. CASE k # key
    <3>1. uses[k] = 1
      BY <1>10, <1>15, <2>2
    <3>2. s \in DOMAIN order_books /\ KeyRests(order_books[s].levels, k)
      <4>1. CASE s # symbol
        BY <1>7, <1>15, <4>1
      <4>2. CASE s = symbol
        <5>1. KeyRests(book.levels, k)
          BY <1>5, <1>7, <1>15, <2>2, <4>2
        <5>2. symbol \in DOMAIN order_books
          BY <5>1, EmptyBook DEF book, BookOf, NewBook, KeyRests
        <5> QED
          BY <4>2, <5>1, <5>2 DEF book, BookOf
      <4> QED
        BY <4>1, <4>2
    <3> QED
      BY <1>8, <1>14, <2>2, <3>1, <3>2 DEF RoutedKeys
  <2> QED
    BY <2>1, <2>2
<1>16. \A k \in DOMAIN order_to_symbol' : order_to_symbol'[k] \in DOMAIN order_books'
  BY <1>7, <1>8, <1>14 DEF RoutedKeys
<1>17. Routed'
  <2>1. AreBooks(order_books)' => (Routed' <=> RoutedKeys')
    BY RoutedByKey, PTL
  <2>2. RoutedKeys'
    BY <1>15, <1>16 DEF RoutedKeys
  <2> QED
    BY <1>7, <2>1, <2>2
<1>18. FeedCoherent' /\ DeparturesNamed /\ ChangesTold
  BY <1>1, <1>6, CallFeed, CallReports
<1> QED
  BY <1>9, <1>13, <1>17, <1>18 DEF EngineInv

\* process_cancel of a tracked key is a call of the book it is tracked to.
LEMMA CancelCalls ==
    ASSUME EngineInv, NEW key \in Keys, ProcessCancel(key)
    PROVE  LET symbol == order_to_symbol[key] IN
           /\ symbol \in DOMAIN order_books /\ symbol \in Symbols
           /\ IsBook(BookOf(symbol)) /\ BookOf(symbol) = order_books[symbol]
           /\ Calls(symbol, Cancelled(BookOf(symbol), key))
<1> DEFINE symbol == order_to_symbol[key]
           book   == BookOf(symbol)
           result == Cancelled(book, key)
<1>1. AreBooks(order_books) /\ RoutedKeys
  BY RoutedByKey DEF EngineInv, EngineTypeOK
<1>2. key \in DOMAIN order_to_symbol /\ symbol \in DOMAIN order_books
      /\ symbol \in Symbols /\ book = order_books[symbol]
  BY <1>1 DEF ProcessCancel, RoutedKeys, BookOf, AreBooks
<1>3. IsBook(book)
  BY <1>1, BookOfIsBook
<1>4. /\ alive /\ alive' = alive
      /\ order_books' = [order_books EXCEPT ![symbol] = result.book]
      /\ Return(Tag(symbol, result.outputs))
  BY <1>2 DEF ProcessCancel
<1> HIDE DEF symbol, book, result
<1>5. Returns(result, book.levels, book.prev)
  BY <1>3, CancelledReturns DEF IsBook, result
<1>6. Calls(symbol, result)
  <2>1. order_books = [s \in DOMAIN order_books |-> order_books[s]]
    BY <1>1 DEF AreBooks
  <2>2. order_books' = Put(order_books, symbol, result.book)
    BY <1>2, <1>4, <2>1 DEF Put
  <2> QED
    BY <1>2, <1>4, <1>5, <2>2 DEF Calls, book
<1> QED
  BY <1>2, <1>3, <1>6 DEF symbol, book, result

\* A cancel also leaves no order of a key that was used once.
LEMMA CancelKeeps ==
    ASSUME EngineInv, NEW key \in Keys, ProcessCancel(key)
    PROVE  /\ EngineInv' /\ DeparturesNamed /\ ChangesTold
           /\ uses[key] = 1 =>
                \A s \in DOMAIN order_books' : ~KeyRests(order_books'[s].levels, key)
<1> DEFINE symbol == order_to_symbol[key]
           book   == BookOf(symbol)
           result == Cancelled(book, key)
           new    == result.book.levels
<1>1. /\ EngineTypeOK /\ AreBooks(order_books) /\ KeysCounted /\ RoutedKeys
      /\ FeedCoherent
  BY RoutedByKey DEF EngineInv, EngineTypeOK
<1>2. key \in DOMAIN order_to_symbol /\ symbol \in DOMAIN order_books
      /\ symbol \in Symbols /\ book = order_books[symbol]
  BY CancelCalls DEF ProcessCancel
<1>3. IsBook(book) /\ Calls(symbol, result)
  BY CancelCalls
<1>4. /\ alive /\ alive' = alive
      /\ order_books' = [order_books EXCEPT ![symbol] = result.book]
      /\ order_to_symbol' = Without(order_to_symbol, key)
      /\ Return(Tag(symbol, result.outputs))
      /\ UNCHANGED <<arrivals, uses>>
  BY <1>2 DEF ProcessCancel
<1> HIDE DEF symbol, book, result
<1>5. /\ Returns(result, book.levels, book.prev)
      /\ Thins(new, book.levels)
      /\ KeyOnce(book.levels, key) => ~KeyRests(new, key)
  BY <1>3, CancelledReturns DEF IsBook, result
<1>6. Calls(symbol, result)
  BY <1>3
<1>7. /\ DOMAIN order_books' = DOMAIN order_books
      /\ order_books'[symbol].levels = new
      /\ \A s \in DOMAIN order_books : s # symbol => order_books'[s] = order_books[s]
      /\ AreBooks(order_books)'
  <2>1. DOMAIN order_books' = DOMAIN order_books \cup {symbol}
    BY <1>1, <1>6, CallEffect
  <2>2. DOMAIN order_books' = DOMAIN order_books
    BY <1>2, <2>1
  <2> QED
    BY <1>1, <1>6, <2>2, CallEffect
<1>8. /\ DOMAIN order_to_symbol' = DOMAIN order_to_symbol \ {key}
      /\ order_to_symbol' = [k \in DOMAIN order_to_symbol' |-> order_to_symbol'[k]]
      /\ \A k \in DOMAIN order_to_symbol' : order_to_symbol'[k] = order_to_symbol[k]
  BY <1>4 DEF Without, Restrict
<1>9. EngineTypeOK'
  BY <1>1, <1>4, <1>7, <1>8 DEF EngineTypeOK
<1>10. ASSUME NEW s \in DOMAIN order_books
       PROVE  Thins(order_books'[s].levels, order_books[s].levels)
  BY <1>2, <1>5, <1>7 DEF Thins
<1>11. KeysCounted'
  BY <1>1, <1>4, <1>7, <1>10 DEF KeysCounted, Thins
<1>12. ASSUME uses[key] = 1, NEW s \in DOMAIN order_books'
       PROVE  ~KeyRests(order_books'[s].levels, key)
  <2>1. CASE s = symbol
    BY <1>1, <1>2, <1>5, <1>7, <1>12, <2>1 DEF KeysCounted
  <2>2. CASE s # symbol
    BY <1>1, <1>7, <1>12, <2>2 DEF RoutedKeys, symbol
  <2> QED
    BY <2>1, <2>2
<1>13. Routed'
  <2>1. AreBooks(order_books)' => (Routed' <=> RoutedKeys')
    BY RoutedByKey, PTL
  <2>2. ASSUME NEW s \in DOMAIN order_books', NEW k \in Keys,
               KeyRests(order_books'[s].levels, k), uses'[k] = 1
        PROVE  k \in DOMAIN order_to_symbol' /\ order_to_symbol'[k] = s
    <3>1. k # key /\ uses[k] = 1
      BY <1>4, <1>12, <2>2
    <3>2. s \in DOMAIN order_books /\ KeyRests(order_books[s].levels, k)
      BY <1>7, <1>10, <2>2 DEF Thins
    <3> QED
      BY <1>1, <1>8, <3>1, <3>2 DEF RoutedKeys
  <2>3. \A k \in DOMAIN order_to_symbol' : order_to_symbol'[k] \in DOMAIN order_books'
    BY <1>1, <1>7, <1>8 DEF RoutedKeys
  <2>4. RoutedKeys'
    BY <2>2, <2>3 DEF RoutedKeys
  <2> QED
    BY <1>7, <2>1, <2>4
<1>14. FeedCoherent' /\ DeparturesNamed /\ ChangesTold
  BY <1>1, <1>6, CallFeed, CallReports
<1> QED
  BY <1>9, <1>11, <1>12, <1>13, <1>14 DEF EngineInv

\* An action that leaves the books alone reports what it changes: nothing.
LEMMA SameBooksReport ==
    ASSUME order_books' = order_books
    PROVE  DeparturesNamed /\ ChangesTold
BY DEF DeparturesNamed, ChangesTold, Stays, OrdersIn, BookOf

\* Everything but the feed stays true when nothing but the outputs changes.
LEMMA SameBooksKeep ==
    ASSUME EngineInv, UNCHANGED <<order_books, order_to_symbol, arrivals, uses>>,
           FeedCoherent'
    PROVE  EngineInv'
<1>1. EngineTypeOK /\ KeysCounted /\ Routed
  BY DEF EngineInv
<1>2. EngineTypeOK'
  BY <1>1 DEF EngineTypeOK
<1>3. KeysCounted'
  BY <1>1 DEF KeysCounted
<1>4. Routed'
  BY <1>1 DEF Routed, OrdersIn
<1> QED
  BY <1>2, <1>3, <1>4 DEF EngineInv

LEMMA CancelUnknownKeeps ==
    ASSUME EngineInv, NEW key \in Keys, ProcessCancelUnknown(key)
    PROVE  EngineInv' /\ DeparturesNamed /\ ChangesTold
<1> DEFINE q == <<CancelAckOutput(key)>>
<1>1. AreBooks(order_books) /\ FeedCoherent /\ alive
  BY DEF EngineInv, EngineTypeOK, ProcessCancelUnknown
<1>2. /\ UNCHANGED <<order_books, order_to_symbol, alive, arrivals, uses>>
      /\ Return(Tag(Unknown, q))
  BY DEF ProcessCancelUnknown
<1>3. IsMessages(q)
  <2> DEFINE m == CancelAckOutput(key)
  <2>1. IsMessage(m)
    BY KnownMessages
  <2> HIDE DEF m
  <2> DEFINE single == <<m>>
             M == {m}
  <2>2. single \in Seq(M) /\ \A x \in M : IsMessage(x)
    BY <2>1
  <2> HIDE DEF single, M
  <2>3. IsMessages(single)
    BY <2>2 DEF IsMessages
  <2> QED
    BY <2>3 DEF single, m
<1> HIDE DEF q
<1>4. Tagged(outputs', q, Unknown)
  BY <1>2, <1>3, TagTagged DEF Return
<1>5. ASSUME NEW s \in Symbols
      PROVE  feed'[s] = Snapshot(BookOf(s)'.levels)
  <2> DEFINE lv == BookOf(s).levels
  <2>1. IsLevels(lv)
    BY <1>1, BookOfIsBook DEF IsBook
  <2>2. feed[s] = Snapshot(lv)
    BY <1>1 DEF FeedCoherent
  <2>3. s # Unknown
    BY MatchingEngineAssumption
  <2>4. BookOf(s)'.levels = lv
    BY <1>2 DEF BookOf
  <2> HIDE DEF lv
  <2>5. Observe(Snapshot(lv), OfSymbol(s, outputs')) = Snapshot(lv)
    BY <1>4, <2>1, <2>3, OtherView
  <2>6. feed'[s] = Observe(feed[s], OfSymbol(s, outputs'))
    BY <1>2 DEF Return
  <2> QED
    BY <2>2, <2>4, <2>5, <2>6
<1>6. FeedCoherent'
  BY <1>5 DEF FeedCoherent
<1> QED
  BY <1>2, <1>6, SameBooksKeep, SameBooksReport

\* What an answer to a query says is what every subscriber knows.
LEMMA QueryKeeps ==
    ASSUME EngineInv, NEW symbol \in Symbols, ProcessQueryTopOfBook(symbol)
    PROVE  EngineInv' /\ DeparturesNamed /\ ChangesTold
<1> DEFINE lv  == BookOf(symbol).levels
           top == Snapshot(lv)
           buy == TopEvent("Buy", top["Buy"])
           sell == TopEvent("Sell", top["Sell"])
           q   == <<buy, sell>>
<1>1. AreBooks(order_books) /\ FeedCoherent /\ alive
  BY DEF EngineInv, EngineTypeOK, ProcessQueryTopOfBook
<1>2. /\ UNCHANGED <<order_books, order_to_symbol, alive, arrivals, uses>>
      /\ Return(Tag(symbol, q))
  BY DEF ProcessQueryTopOfBook
<1>3. IsLevels(lv) /\ feed[symbol] = top
  BY <1>1, BookOfIsBook DEF IsBook, FeedCoherent
<1>4. IsMessage(buy) /\ IsMessage(sell)
  BY KnownMessages
<1>5. ASSUME NEW side \in Sides
      PROVE  /\ TopEvent(side, top[side]).type = "TopOfBook"
             /\ TopEvent(side, top[side]).side = side
             /\ TopEvent(side, top[side]).price = top[side].price
             /\ TopEvent(side, top[side]).quantity = top[side].quantity
  <2>1. top[side].price = 0 => top[side].quantity = 0
    BY <1>3, SnapshotFacts
  <2> HIDE DEF top
  <2> QED
    BY <2>1, TopEventCarries
<1>6. /\ top = [side \in Sides |-> top[side]]
      /\ \A side \in Sides : top[side] = [price |-> top[side].price,
                                         quantity |-> top[side].quantity]
  BY <1>3, SnapshotFacts
<1> HIDE DEF lv, top
<1>7. /\ buy.type = "TopOfBook" /\ buy.side = "Buy"
      /\ buy.price = top["Buy"].price /\ buy.quantity = top["Buy"].quantity
      /\ sell.type = "TopOfBook" /\ sell.side = "Sell"
      /\ sell.price = top["Sell"].price /\ sell.quantity = top["Sell"].quantity
  BY <1>5 DEF Sides
<1> HIDE DEF buy, sell
<1>8. q \in Seq({buy, sell}) /\ ToSet(q) = {buy, sell}
  BY DEF ToSet
<1> HIDE DEF q
<1>9. IsMessages(q)
  BY <1>4, <1>8 DEF IsMessages
<1>10. Informs(ToSet(q), top, top)
  BY <1>6, <1>7, <1>8 DEF Informs
<1>11. Tagged(outputs', q, symbol)
  BY <1>2, <1>9, TagTagged DEF Return
<1>12. feed' = [s \in Symbols |-> Observe(feed[s], OfSymbol(s, outputs'))]
  BY <1>2 DEF Return
<1>13. Observe(top, OfSymbol(symbol, outputs')) = top
  BY <1>10, <1>11, TaggedView
<1>14. ASSUME NEW s \in Symbols
       PROVE  feed'[s] = Snapshot(BookOf(s)'.levels)
  <2> DEFINE own == BookOf(s).levels
  <2>1. IsLevels(own) /\ feed[s] = Snapshot(own) /\ BookOf(s)'.levels = own
    BY <1>1, <1>2, BookOfIsBook DEF IsBook, FeedCoherent, BookOf
  <2>2. CASE s = symbol
    BY <1>3, <1>12, <1>13, <2>1, <2>2
  <2>3. CASE s # symbol
    <3> HIDE DEF own
    <3>1. Observe(Snapshot(own), OfSymbol(s, outputs')) = Snapshot(own)
      BY <1>11, <2>1, <2>3, OtherView
    <3> QED
      BY <1>12, <2>1, <3>1
  <2> QED
    BY <2>2, <2>3
<1>15. FeedCoherent'
  BY <1>14 DEF FeedCoherent
<1> QED
  BY <1>2, <1>15, SameBooksKeep, SameBooksReport

\* What a flush returns, in whatever order it visits the books.
LEMMA FlushSends ==
    ASSUME EngineInv, ProcessFlush
    PROVE  Flushed(outputs', order_books)
<1>1. /\ IsFiniteSet(DOMAIN order_books)
      /\ \A s \in DOMAIN order_books : IsLevels(order_books[s].levels)
  BY DEF EngineInv, EngineTypeOK, AreBooks, IsBook
<1>2. PICK symbols \in SetToSeqs(DOMAIN order_books) :
         Return(FlattenSeq([i \in DOMAIN symbols |->
                  Tag(symbols[i], FlushOutputs(order_books[symbols[i]].levels))]))
  BY DEF ProcessFlush
<1> DEFINE parts == [i \in DOMAIN symbols |->
                       Tag(symbols[i], FlushOutputs(order_books[symbols[i]].levels))]
<1>3. \E M : Parts(parts, symbols, order_books, M)
  BY <1>1, FlushParts
<1>4. outputs' = FlattenSeq(parts)
  BY <1>2 DEF Return
<1> HIDE DEF parts
<1> QED
  BY <1>3, <1>4, FlushFlushed

\* A flush drops every book, and says so of every order and of every side.
LEMMA FlushKeeps ==
    ASSUME EngineInv, ProcessFlush
    PROVE  EngineInv' /\ DeparturesNamed /\ ChangesTold
<1>1. /\ EngineTypeOK /\ AreBooks(order_books) /\ FeedCoherent /\ alive
      /\ IsFiniteSet(DOMAIN order_books) /\ DOMAIN order_books \in SUBSET Symbols
      /\ \A s \in DOMAIN order_books : IsBook(order_books[s])
                                       /\ IsLevels(order_books[s].levels)
  BY DEF EngineInv, EngineTypeOK, AreBooks, IsBook, ProcessFlush
<1>2. /\ order_books' = <<>> /\ order_to_symbol' = <<>>
      /\ uses' = [key \in Keys |-> 0] /\ UNCHANGED <<alive, arrivals>>
  BY DEF ProcessFlush
<1>3. feed' = [s \in Symbols |-> Observe(feed[s], OfSymbol(s, outputs'))]
  BY DEF ProcessFlush, Return
<1>4. Flushed(outputs', order_books)
  BY FlushSends
<1>6. /\ DOMAIN order_books' = {} /\ DOMAIN order_to_symbol' = {}
      /\ order_books' = [s \in DOMAIN order_books' |-> order_books'[s]]
      /\ order_to_symbol' = [k \in DOMAIN order_to_symbol' |-> order_to_symbol'[k]]
  BY <1>2
<1>7. AreBooks(order_books)'
  BY <1>6, FS_EmptySet DEF AreBooks
<1>8. EngineTypeOK'
  BY <1>1, <1>2, <1>6, <1>7 DEF EngineTypeOK
<1>9. KeysCounted'
  BY <1>6 DEF KeysCounted
<1>10. Routed'
  <2>1. AreBooks(order_books)' => (Routed' <=> RoutedKeys')
    BY RoutedByKey, PTL
  <2>2. RoutedKeys'
    BY <1>6 DEF RoutedKeys
  <2> QED
    BY <1>7, <2>1, <2>2
<1>11. ASSUME NEW s \in Symbols
       PROVE  feed'[s] = Snapshot(BookOf(s)'.levels)
  <2>1. feed[s] = Snapshot(BookOf(s).levels)
    BY <1>1 DEF FeedCoherent
  <2>2. Observe(feed[s], OfSymbol(s, outputs')) = NoTop
    <3>1. CASE s \in DOMAIN order_books
      BY <1>1, <1>4, <2>1, <3>1, FlushedView DEF BookOf
    <3>2. CASE s \notin DOMAIN order_books
      BY <1>1, <1>4, <2>1, <3>2, FlushedView, EmptyBook DEF BookOf, NewBook
    <3> QED
      BY <3>1, <3>2
  <2>3. BookOf(s)'.levels = EmptyLevels
    BY <1>6 DEF BookOf, NewBook
  <2> QED
    BY <1>3, <2>2, <2>3, EmptyBook
<1>12. FeedCoherent'
  BY <1>11 DEF FeedCoherent
<1>13. ASSUME NEW s \in DOMAIN order_books, NEW m \in ToSet(FlushOutputs(order_books[s].levels)),
              IsMessage(m)
       PROVE  \E i \in DOMAIN outputs' : Carries(outputs'[i], m, s)
  <2>1. Put(m, "symbol", s) \in ToSet(outputs')
    BY <1>4 DEF Flushed
  <2>2. Carries(Put(m, "symbol", s), m, s)
    BY <1>13, PutCarries
  <2> QED
    BY <2>1, <2>2 DEF ToSet
<1>14. ASSUME NEW s \in DOMAIN order_books, NEW o \in OrdersIn(s)
       PROVE  \E i \in DOMAIN outputs' :
                 outputs'[i].symbol = s /\ Names(outputs'[i], o.key)
  <2> DEFINE m == CancelAckOutput(o.key)
  <2>1. m \in ToSet(FlushOutputs(order_books[s].levels)) /\ IsMessage(m)
    BY <1>1, FlushOutputsFacts, KnownMessages DEF OrdersIn
  <2>2. Names(m, o.key)
    BY DEF Names, CancelAckOutput
  <2> HIDE DEF m
  <2>3. PICK i \in DOMAIN outputs' : Carries(outputs'[i], m, s)
    BY <1>13, <2>1
  <2> QED
    BY <2>2, <2>3 DEF Carries
<1>15. DeparturesNamed
  BY <1>14 DEF DeparturesNamed
<1>16. ASSUME NEW s \in Symbols, BookOf(s)' # BookOf(s)
       PROVE  \E i \in DOMAIN outputs' : outputs'[i].symbol = s
  <2>1. BookOf(s)' = NewBook
    BY <1>6 DEF BookOf
  <2>2. s \in DOMAIN order_books /\ order_books[s] # NewBook
    BY <1>16, <2>1 DEF BookOf
  <2> DEFINE lv == order_books[s].levels
  <2>3. lv # EmptyLevels
    BY <1>1, <2>2, EmptyBook DEF IsBook, NewBook
  <2>4. PICK side \in Sides : DOMAIN lv[side] # {}
    BY <1>1, <2>2, <2>3, EmptyBook
  <2> DEFINE m == Eliminated(side)
  <2>5. m \in ToSet(FlushOutputs(lv)) /\ IsMessage(m)
    BY <1>1, <2>2, <2>4, FlushOutputsFacts, KnownMessages
  <2> HIDE DEF m
  <2>6. PICK i \in DOMAIN outputs' : Carries(outputs'[i], m, s)
    BY <1>13, <2>2, <2>5
  <2> QED
    BY <2>6 DEF Carries
<1>17. ChangesTold
  BY <1>16 DEF ChangesTold
<1> QED
  BY <1>8, <1>9, <1>10, <1>12, <1>15, <1>17 DEF EngineInv

\* A panic drops the books; nobody speaks to the engine any more.
LEMMA PanicKeeps ==
    ASSUME EngineInv, Panic
    PROVE  EngineInv' /\ ~alive'
<1>1. order_books' = <<>> /\ order_to_symbol' = <<>> /\ alive' = FALSE
      /\ UNCHANGED <<arrivals, uses>>
  BY DEF Panic
<1>2. /\ DOMAIN order_books' = {} /\ DOMAIN order_to_symbol' = {}
      /\ order_books' = [s \in DOMAIN order_books' |-> order_books'[s]]
      /\ order_to_symbol' = [k \in DOMAIN order_to_symbol' |-> order_to_symbol'[k]]
  BY <1>1
<1>3. AreBooks(order_books)'
  BY <1>2, FS_EmptySet DEF AreBooks
<1>4. EngineTypeOK'
  BY <1>1, <1>2, <1>3 DEF EngineTypeOK, EngineInv
<1>5. KeysCounted'
  BY <1>2 DEF KeysCounted
<1>6. Routed'
  <2>1. AreBooks(order_books)' => (Routed' <=> RoutedKeys')
    BY RoutedByKey, PTL
  <2>2. RoutedKeys'
    BY <1>2 DEF RoutedKeys
  <2> QED
    BY <1>3, <2>1, <2>2
<1>7. FeedCoherent'
  BY <1>1 DEF FeedCoherent
<1> QED
  BY <1>1, <1>4, <1>5, <1>6, <1>7 DEF EngineInv

\* Every step keeps the invariant, and a step that does not end in a panic
\* reports what it changes.
LEMMA NextEngineInv ==
    ASSUME EngineInv, Next
    PROVE  EngineInv' /\ (alive' => DeparturesNamed /\ ChangesTold)
<1>1. ASSUME NEW symbol \in Symbols, NEW msg \in NewOrders, ProcessNewOrder(symbol, msg)
      PROVE  EngineInv' /\ DeparturesNamed /\ ChangesTold
  BY <1>1, NewOrderKeeps
<1>2. ASSUME NEW key \in Keys, ProcessCancel(key)
      PROVE  EngineInv' /\ DeparturesNamed /\ ChangesTold
  BY <1>2, CancelKeeps
<1>3. ASSUME NEW key \in Keys, ProcessCancelUnknown(key)
      PROVE  EngineInv' /\ DeparturesNamed /\ ChangesTold
  BY <1>3, CancelUnknownKeeps
<1>4. ASSUME ProcessFlush
      PROVE  EngineInv' /\ DeparturesNamed /\ ChangesTold
  BY <1>4, FlushKeeps
<1>5. ASSUME NEW symbol \in Symbols, ProcessQueryTopOfBook(symbol)
      PROVE  EngineInv' /\ DeparturesNamed /\ ChangesTold
  BY <1>5, QueryKeeps
<1>6. ASSUME Panic PROVE EngineInv' /\ ~alive'
  BY <1>6, PanicKeeps
<1> QED
  BY <1>1, <1>2, <1>3, <1>4, <1>5, <1>6 DEF Next

LEMMA EngineInvStep == EngineInv /\ [Next]_vars => EngineInv'
<1> SUFFICES ASSUME EngineInv, [Next]_vars PROVE EngineInv'
  OBVIOUS
<1>1. CASE Next
  BY <1>1, NextEngineInv
<1>2. CASE UNCHANGED vars
  <2>1. UNCHANGED <<order_books, order_to_symbol, arrivals, uses, alive, feed>>
    BY <1>2 DEF vars
  <2>2. FeedCoherent'
    BY <2>1 DEF EngineInv, FeedCoherent, BookOf
  <2> QED
    BY <2>1, <2>2, SameBooksKeep
<1> QED
  BY <1>1, <1>2

-----------------------------------------------------------------------------
(* Theorems.                                                               *)

\* Whatever messages come, an order whose key was used once since the last
\* flush is tracked under its own symbol for as long as it rests, and no
\* tracked key names a symbol without a book.
THEOREM CancelsFindTheirBook == Spec => []Routed
<1>1. EngineInv => Routed
  BY DEF EngineInv
<1> QED
  BY <1>1, InitEngineInv, EngineInvStep, PTL DEF Spec

\* A subscriber who sees only the TopOfBook messages knows the top of the book
\* of every symbol after every message, until a handler panics.
THEOREM FeedStaysCoherent == Spec => []FeedCoherent
<1>1. EngineInv => FeedCoherent
  BY DEF EngineInv
<1> QED
  BY <1>1, InitEngineInv, EngineInvStep, PTL DEF Spec

\* A message changes only books whose symbol its outputs carry.
THEOREM BooksAreIsolated == Spec => Isolated
<1> DEFINE A == alive' => \A symbol \in Symbols :
                            BookOf(symbol)' # BookOf(symbol) =>
                               \E i \in DOMAIN outputs' : outputs'[i].symbol = symbol
<1>1. ASSUME EngineInv, Next PROVE A
  BY <1>1, NextEngineInv DEF ChangesTold
<1>2. EngineInv /\ [Next]_vars => [A]_vars
  <2> HIDE DEF A
  <2> QED
    BY <1>1
<1>3. Isolated <=> [][A]_vars
  BY DEF Isolated
<1> QED
  BY <1>2, <1>3, InitEngineInv, EngineInvStep, PTL DEF Spec

\* An order that stops resting was traded or cancelled, and a message with its
\* symbol and its key says so.
THEOREM DeparturesAreReported == Spec => DeparturesReported
<1> DEFINE A == alive' =>
         \A symbol \in DOMAIN order_books : \A order \in OrdersIn(symbol) :
            LET stays == /\ symbol \in DOMAIN order_books'
                         /\ \E o \in OrdersIn(symbol)' : o.arrival = order.arrival
            IN  ~stays =>
                  \E i \in DOMAIN outputs' :
                     /\ outputs'[i].symbol = symbol
                     /\ \/ /\ outputs'[i].type = "CancelAck"
                           /\ outputs'[i].key = order.key
                        \/ /\ outputs'[i].type = "Trade"
                           /\ order.key \in {outputs'[i].buy, outputs'[i].sell}
<1>1. ASSUME EngineInv, Next PROVE A
  <2> SUFFICES ASSUME DeparturesNamed PROVE A
    BY <1>1, NextEngineInv
  <2> QED
    BY DEF DeparturesNamed, Stays, OrdersIn, Names
<1>2. EngineInv /\ [Next]_vars => [A]_vars
  <2> HIDE DEF A
  <2> QED
    BY <1>1
<1>3. DeparturesReported <=> [][A]_vars
  BY DEF DeparturesReported
<1> QED
  BY <1>2, <1>3, InitEngineInv, EngineInvStep, PTL DEF Spec

\* After a cancel of a key that was used once since the last flush no order of
\* that key rests in any book.
THEOREM CancelsTakeEffect == Spec => CancelTakesEffect
<1> DEFINE A == \A key \in Keys :
                  ProcessCancel(key) /\ uses[key] = 1 =>
                    \A symbol \in DOMAIN order_books' :
                      ~InBook(order_books'[symbol].levels, key)
<1>1. ASSUME EngineInv PROVE A
  <2> SUFFICES ASSUME NEW key \in Keys, ProcessCancel(key), uses[key] = 1,
                      NEW symbol \in DOMAIN order_books'
               PROVE  ~InBook(order_books'[symbol].levels, key)
    OBVIOUS
  <2>1. ~KeyRests(order_books'[symbol].levels, key)
    BY <1>1, CancelKeeps
  <2> QED
    BY <2>1, KeyRestsIsQueued DEF InBook, OnSide, PricesWithKey, HasKey, Sides
<1>2. EngineInv /\ [Next]_vars => [A]_vars
  <2> HIDE DEF A
  <2> QED
    BY <1>1
<1>3. CancelTakesEffect <=> [][A]_vars
  BY DEF CancelTakesEffect
<1> QED
  BY <1>2, <1>3, InitEngineInv, EngineInvStep, PTL DEF Spec
-----------------------------------------------------------------------------
(* The replay.                                                             *)

\* The instance's operators are the engine's: none reads a variable.
LEMMA SameMatching ==
    \A levels, order : Replay!Matching(levels, order) = Matching(levels, order)
BY DEF Replay!Matching, Matching, Replay!Opposite, Opposite, Replay!BestPrice, BestPrice,
       Replay!CanMatch, CanMatch, Replay!IsMarket, IsMarket, Replay!Market, Market,
       Replay!Max, Max, Replay!Min, Min

LEMMA SameMatchOrder == \A s : Replay!MatchOrder(s) = MatchOrder(s)
BY DEF Replay!MatchOrder, MatchOrder, Replay!FoldLeft, FoldLeft,
       Replay!MapThenFoldSet, MapThenFoldSet, Replay!RestingOn, RestingOn,
       Replay!ToSet, ToSet, Replay!Cardinality, Cardinality,
       Replay!MatchStep, MatchStep, Replay!TakeFromFront, TakeFromFront,
       Replay!Opposite, Opposite, Replay!BestPrice, BestPrice,
       Replay!TradeQuantity, TradeQuantity, Replay!Fill, Fill,
       Replay!TradeOutput, TradeOutput, Replay!SetLevel, SetLevel,
       Replay!DropLevel, DropLevel, Replay!Restrict, Restrict,
       Replay!Max, Max, Replay!Min, Min, Replay!Matching, Matching,
       Replay!CanMatch, CanMatch, Replay!IsMarket, IsMarket, Replay!Market, Market

LEMMA SameSettle ==
    \A levels, order : Replay!Settle(levels, order) = Settle(levels, order)
BY DEF Replay!Settle, Settle, Replay!AddToBook, AddToBook, Replay!SetLevel, SetLevel,
       Replay!IsMarket, IsMarket, Replay!Market, Market

LEMMA SameRemoval ==
    \A levels, key : /\ Replay!RemoveOrder(levels, key) = RemoveOrder(levels, key)
                     /\ Replay!InBook(levels, key) = InBook(levels, key)
BY DEF Replay!RemoveOrder, RemoveOrder, Replay!InBook, InBook, Replay!OnSide, OnSide,
       Replay!PricesWithKey, PricesWithKey, Replay!HasKey, HasKey,
       Replay!RemoveFromSide, RemoveFromSide, Replay!SetLevel, SetLevel,
       Replay!RemoveAt, RemoveAt, Replay!Min, Min

LEMMA SameSnapshot == \A levels : Replay!Snapshot(levels) = Snapshot(levels)
BY DEF Replay!Snapshot, Snapshot, Replay!Sides, Sides, Replay!BestPrice, BestPrice,
       Replay!BestQuantity, BestQuantity, Replay!BestTotal, BestTotal,
       Replay!TotalQuantity, TotalQuantity, Replay!FoldLeft, FoldLeft,
       Replay!MapThenFoldSet, MapThenFoldSet, Replay!Max, Max, Replay!Min, Min

LEMMA SameTopEvents ==
    /\ \A prev, top : Replay!TopEvents(prev, top) = TopEvents(prev, top)
    /\ \A side, level : Replay!TopEvent(side, level) = TopEvent(side, level)
BY DEF Replay!TopEvents, TopEvents, Replay!TopEvent, TopEvent,
       Replay!Eliminated, Eliminated, Replay!TopOfBook, TopOfBook

LEMMA SameAcks ==
    \A key : /\ Replay!AckOutput(key) = AckOutput(key)
             /\ Replay!CancelAckOutput(key) = CancelAckOutput(key)
BY DEF Replay!AckOutput, AckOutput, Replay!CancelAckOutput, CancelAckOutput

LEMMA SameFlushOutputs == \A levels : Replay!FlushOutputs(levels) = FlushOutputs(levels)
<1>1. \A keys : Replay!Ascending(keys) = Ascending(keys)
  BY DEF Replay!Ascending, Ascending, Replay!SetToSeqs, SetToSeqs,
         Replay!Cardinality, Cardinality
<1>2. \A seqs : Replay!FlattenSeq(seqs) = FlattenSeq(seqs)
  BY DEF Replay!FlattenSeq, FlattenSeq, Replay!FoldLeft, FoldLeft,
         Replay!MapThenFoldSet, MapThenFoldSet, Replay!Max, Max
<1>3. \A levels, side : Replay!QueueOrder(levels, side) = QueueOrder(levels, side)
  BY <1>1, <1>2 DEF Replay!QueueOrder, QueueOrder
<1> QED
  BY <1>3, SameAcks DEF Replay!FlushOutputs, FlushOutputs,
                        Replay!Eliminated, Eliminated

LEMMA SameHelpers ==
    /\ \A f, x, value : Replay!Put(f, x, value) = Put(f, x, value)
    /\ \A f, x : Replay!Without(f, x) = Without(f, x)
    /\ \A symbol, messages : Replay!Tag(symbol, messages) = Tag(symbol, messages)
    /\ \A parts : Replay!FlattenSeq(parts) = FlattenSeq(parts)
    /\ \A S : Replay!SetToSeqs(S) = SetToSeqs(S)
    /\ \A msg, arrival : Replay!FromNewOrder(msg, arrival) = FromNewOrder(msg, arrival)
<1>1. \A f, x, value : Replay!Put(f, x, value) = Put(f, x, value)
  BY DEF Replay!Put, Put
<1>2. \A f, x : Replay!Without(f, x) = Without(f, x)
  BY DEF Replay!Without, Without, Replay!Restrict, Restrict
<1>3. \A symbol, messages : Replay!Tag(symbol, messages) = Tag(symbol, messages)
  BY DEF Replay!Put, Put, Replay!Tag, Tag
<1>4. \A parts : Replay!FlattenSeq(parts) = FlattenSeq(parts)
  BY DEF Replay!FlattenSeq, FlattenSeq, Replay!FoldLeft, FoldLeft,
         Replay!MapThenFoldSet, MapThenFoldSet, Replay!Max, Max
<1>5. \A S : Replay!SetToSeqs(S) = SetToSeqs(S)
  BY DEF Replay!SetToSeqs, SetToSeqs, Replay!Cardinality, Cardinality
<1>6. \A msg, arrival : Replay!FromNewOrder(msg, arrival) = FromNewOrder(msg, arrival)
  BY DEF Replay!FromNewOrder, FromNewOrder, Replay!Market, Market
<1> QED
  BY <1>1, <1>2, <1>3, <1>4, <1>5, <1>6

LEMMA SameChecked ==
    \A book, levels, messages :
        Replay!Checked(book, levels, messages) = Checked(book, levels, messages)
BY SameSnapshot, SameTopEvents DEF Replay!Checked, Checked

LEMMA SameCalls ==
    /\ \A book, order : Replay!Added(book, order) = Added(book, order)
    /\ \A book, key : Replay!Cancelled(book, key) = Cancelled(book, key)
<1>1. ASSUME NEW book, NEW order
      PROVE  Replay!Added(book, order) = Added(book, order)
  BY SameMatchOrder, SameSettle, SameAcks, SameChecked DEF Replay!Added, Added
<1>2. ASSUME NEW book, NEW key
      PROVE  Replay!Cancelled(book, key) = Cancelled(book, key)
  BY SameRemoval, SameAcks, SameChecked DEF Replay!Cancelled, Cancelled
<1> QED
  BY <1>1, <1>2

\* What the theorem about the replay needs: the engine's own invariant, and
\* that both have numbered the same orders.
ReplayInv == EngineInv /\ SameBySymbol /\ arrivals2 = arrivals

\* The same book of a symbol.
LEMMA SameBookOf ==
    books2 = order_books => \A symbol : Replay!BookOf(symbol) = BookOf(symbol)
BY DEF Replay!BookOf, BookOf, Replay!NewBook, NewBook, Replay!EmptyLevels, EmptyLevels,
       Replay!NoTop, NoTop, Replay!Sides, Sides, Replay!Eliminated, Eliminated

LEMMA InitReplayInv == InitBoth => ReplayInv
BY InitEngineInv DEF InitBoth, Init, Replay!Init, ReplayInv, SameBySymbol

\* A step of both is a step of the engine.
LEMMA BothStep == [NextBoth]_bothVars => [Next]_vars
BY DEF NextBoth, bothVars, Next, NewOrder, Cancel, Flush, Query, BothPanic

LEMMA NewOrderSame ==
    ASSUME ReplayInv, NewOrder
    PROVE  SameBySymbol' /\ arrivals2' = arrivals'
<1>1. PICK symbol \in Symbols, msg \in NewOrders :
         ProcessNewOrder(symbol, msg) /\ Replay!ProcessNewOrder(symbol, msg)
  BY DEF NewOrder
<1> DEFINE result  == Added(BookOf(symbol), FromNewOrder(msg, arrivals + 1))
           result2 == Replay!Added(Replay!BookOf(symbol),
                                   Replay!FromNewOrder(msg, arrivals2 + 1))
<1>2. books2 = order_books /\ map2 = order_to_symbol /\ arrivals2 = arrivals
  BY DEF ReplayInv, SameBySymbol
<1>3. result2 = result
  BY <1>2, SameBookOf, SameHelpers, SameCalls
<1>4. /\ order_books' = Put(order_books, symbol, result.book)
      /\ order_to_symbol' = Put(order_to_symbol, msg.key, symbol)
      /\ outputs' = Tag(symbol, result.outputs)
      /\ arrivals' = arrivals + 1
  BY <1>1 DEF ProcessNewOrder, Return
<1>5. /\ books2' = Replay!Put(books2, symbol, result2.book)
      /\ map2' = Replay!Put(map2, msg.key, symbol)
      /\ out2' = Replay!Tag(symbol, result2.outputs)
      /\ arrivals2' = arrivals2 + 1
  BY <1>1 DEF Replay!ProcessNewOrder, Replay!Return
<1> HIDE DEF result, result2
<1>6. books2' = order_books' /\ map2' = order_to_symbol' /\ out2' = outputs'
      /\ arrivals2' = arrivals'
  BY <1>2, <1>3, <1>4, <1>5, SameHelpers
<1> QED
  BY <1>6 DEF SameBySymbol

LEMMA CancelSame ==
    ASSUME ReplayInv, Cancel
    PROVE  SameBySymbol' /\ arrivals2' = arrivals'
<1>1. PICK key \in Keys : /\ ProcessCancel(key) \/ ProcessCancelUnknown(key)
                          /\ Replay!ProcessCancel(key) \/ Replay!ProcessCancelUnknown(key)
  BY DEF Cancel
<1>2. books2 = order_books /\ map2 = order_to_symbol /\ arrivals2 = arrivals
  BY DEF ReplayInv, SameBySymbol
<1>3. CASE key \in DOMAIN order_to_symbol
  <2> DEFINE symbol  == order_to_symbol[key]
             result  == Cancelled(BookOf(symbol), key)
             result2 == Replay!Cancelled(Replay!BookOf(map2[key]), key)
  <2>1. result2 = result
    BY <1>2, SameBookOf, SameCalls
  <2>2. /\ order_books' = IF symbol \in DOMAIN order_books
                          THEN [order_books EXCEPT ![symbol] = result.book]
                          ELSE order_books
        /\ order_to_symbol' = Without(order_to_symbol, key)
        /\ outputs' = Tag(symbol, result.outputs)
        /\ arrivals' = arrivals
    BY <1>1, <1>3 DEF ProcessCancel, ProcessCancelUnknown, Return
  <2>3. /\ books2' = IF map2[key] \in DOMAIN books2
                     THEN [books2 EXCEPT ![map2[key]] = result2.book]
                     ELSE books2
        /\ map2' = Replay!Without(map2, key)
        /\ out2' = Replay!Tag(map2[key], result2.outputs)
        /\ arrivals2' = arrivals2
    BY <1>1, <1>2, <1>3 DEF Replay!ProcessCancel, Replay!ProcessCancelUnknown, Replay!Return
  <2> HIDE DEF result, result2
  <2>4. books2' = order_books' /\ map2' = order_to_symbol' /\ out2' = outputs'
        /\ arrivals2' = arrivals'
    BY <1>2, <2>1, <2>2, <2>3, SameHelpers
  <2> QED
    BY <2>4 DEF SameBySymbol
<1>4. CASE key \notin DOMAIN order_to_symbol
  <2>1. /\ UNCHANGED <<order_books, order_to_symbol, arrivals>>
        /\ outputs' = Tag(Unknown, <<CancelAckOutput(key)>>)
    BY <1>1, <1>4 DEF ProcessCancel, ProcessCancelUnknown, Return
  <2>2. /\ UNCHANGED <<books2, map2, arrivals2>>
        /\ out2' = Replay!Tag(Unknown, <<Replay!CancelAckOutput(key)>>)
    BY <1>1, <1>2, <1>4 DEF Replay!ProcessCancel, Replay!ProcessCancelUnknown, Replay!Return
  <2>3. out2' = outputs'
    BY <2>1, <2>2, SameHelpers, SameAcks
  <2> QED
    BY <1>2, <2>1, <2>2, <2>3 DEF SameBySymbol
<1> QED
  BY <1>3, <1>4

LEMMA QuerySame ==
    ASSUME ReplayInv, Query
    PROVE  SameBySymbol' /\ arrivals2' = arrivals'
<1>1. PICK symbol \in Symbols :
         ProcessQueryTopOfBook(symbol) /\ Replay!ProcessQueryTopOfBook(symbol)
  BY DEF Query
<1>2. books2 = order_books /\ map2 = order_to_symbol /\ arrivals2 = arrivals
  BY DEF ReplayInv, SameBySymbol
<1> DEFINE top  == Snapshot(BookOf(symbol).levels)
           top2 == Replay!Snapshot(Replay!BookOf(symbol).levels)
<1>3. top2 = top
  BY <1>2, SameBookOf, SameSnapshot
<1>4. /\ UNCHANGED <<order_books, order_to_symbol, arrivals>>
      /\ outputs' = Tag(symbol, <<TopEvent("Buy", top["Buy"]), TopEvent("Sell", top["Sell"])>>)
  BY <1>1 DEF ProcessQueryTopOfBook, Return
<1>5. /\ UNCHANGED <<books2, map2, arrivals2>>
      /\ out2' = Replay!Tag(symbol, <<Replay!TopEvent("Buy", top2["Buy"]),
                                      Replay!TopEvent("Sell", top2["Sell"])>>)
  BY <1>1 DEF Replay!ProcessQueryTopOfBook, Replay!Return
<1> HIDE DEF top, top2
<1>6. out2' = outputs'
  BY <1>3, <1>4, <1>5, SameHelpers, SameTopEvents
<1> QED
  BY <1>2, <1>4, <1>5, <1>6 DEF SameBySymbol

\* The one step in which the two may differ: each visits its books in an order
\* of its own.
LEMMA FlushSame ==
    ASSUME ReplayInv, Flush
    PROVE  SameBySymbol' /\ arrivals2' = arrivals'
<1>1. /\ books2 = order_books /\ map2 = order_to_symbol /\ arrivals2 = arrivals
      /\ AreBooks(order_books)
  BY DEF ReplayInv, SameBySymbol, EngineInv, EngineTypeOK
<1>2. IsFiniteSet(DOMAIN order_books) /\ \A s \in DOMAIN order_books : IsLevels(order_books[s].levels)
  BY <1>1 DEF AreBooks, IsBook
<1>3. ASSUME NEW q, NEW symbols \in SetToSeqs(DOMAIN order_books),
             q = FlattenSeq([i \in DOMAIN symbols |->
                     Tag(symbols[i], FlushOutputs(order_books[symbols[i]].levels))]),
             NEW s
      PROVE  OfSymbol(s, q) = IF s \in DOMAIN order_books
                              THEN Tag(s, FlushOutputs(order_books[s].levels)) ELSE <<>>
  <2> DEFINE parts == [i \in DOMAIN symbols |->
                         Tag(symbols[i], FlushOutputs(order_books[symbols[i]].levels))]
  <2>1. \E M : Parts(parts, symbols, order_books, M)
    BY <1>2, FlushParts
  <2>2. q = FlattenSeq(parts)
    BY <1>3
  <2> HIDE DEF parts
  <2> QED
    BY <2>1, <2>2, FlushedOfSymbol
<1>4. PICK symbols \in SetToSeqs(DOMAIN order_books) :
         outputs' = FlattenSeq([i \in DOMAIN symbols |->
                      Tag(symbols[i], FlushOutputs(order_books[symbols[i]].levels))])
  BY DEF Flush, ProcessFlush, Return
<1>5. PICK symbols2 \in Replay!SetToSeqs(DOMAIN books2) :
         out2' = Replay!FlattenSeq([i \in DOMAIN symbols2 |->
                   Replay!Tag(symbols2[i], Replay!FlushOutputs(books2[symbols2[i]].levels))])
  BY DEF Flush, Replay!ProcessFlush, Replay!Return
<1>6. /\ symbols2 \in SetToSeqs(DOMAIN order_books)
      /\ out2' = FlattenSeq([i \in DOMAIN symbols2 |->
                   Tag(symbols2[i], FlushOutputs(order_books[symbols2[i]].levels))])
  <2> DEFINE old == [i \in DOMAIN symbols2 |->
                   Replay!Tag(symbols2[i], Replay!FlushOutputs(books2[symbols2[i]].levels))]
             new == [i \in DOMAIN symbols2 |->
                   Tag(symbols2[i], FlushOutputs(order_books[symbols2[i]].levels))]
  <2>1. old = new
    BY <1>1, SameHelpers, SameFlushOutputs
  <2>2. symbols2 \in SetToSeqs(DOMAIN order_books)
    BY <1>1, SameHelpers
  <2>3. out2' = Replay!FlattenSeq(old)
    BY <1>5
  <2> HIDE DEF old, new
  <2>4. out2' = FlattenSeq(new)
    BY <2>1, <2>3, SameHelpers
  <2> QED
    BY <2>2, <2>4 DEF new
<1>7. ASSUME NEW s
      PROVE  OfSymbol(s, out2') = OfSymbol(s, outputs')
  BY <1>3, <1>4, <1>6
<1>8. /\ books2' = order_books' /\ map2' = order_to_symbol' /\ arrivals2' = arrivals'
  BY <1>1 DEF Flush, ProcessFlush, Replay!ProcessFlush
<1> QED
  BY <1>7, <1>8 DEF SameBySymbol

LEMMA ReplayInvStep == ReplayInv /\ [NextBoth]_bothVars => ReplayInv'
<1> SUFFICES ASSUME ReplayInv, [NextBoth]_bothVars PROVE ReplayInv'
  OBVIOUS
<1>1. EngineInv'
  BY BothStep, EngineInvStep DEF ReplayInv
<1>2. SameBySymbol' /\ arrivals2' = arrivals'
  <2>1. CASE UNCHANGED bothVars
    BY <2>1 DEF ReplayInv, SameBySymbol, bothVars, vars, Replay!vars, OfSymbol
  <2>2. CASE BothPanic
    BY <2>2 DEF ReplayInv, SameBySymbol, BothPanic, Panic, Replay!Panic
  <2> QED
    BY <2>1, <2>2, NewOrderSame, CancelSame, FlushSame, QuerySame DEF NextBoth
<1> QED
  BY <1>1, <1>2 DEF ReplayInv

\* What an engine answers is a function of the messages it has processed,
\* symbol by symbol: two engines that process the same messages have the same
\* books, track the same keys and return the same messages about each symbol,
\* in the same order, though each map of books has an order of its own.
THEOREM ReplaysAgree == SpecBoth => []SameBySymbol
<1>1. ReplayInv => SameBySymbol
  BY DEF ReplayInv
<1> QED
  BY <1>1, InitReplayInv, ReplayInvStep, PTL DEF SpecBoth

\* So the engine of the pair is an engine, and what is proved of it holds.
THEOREM PairIsAnEngine == SpecBoth => Spec
<1>1. InitBoth => Init
  BY DEF InitBoth
<1> QED
  BY <1>1, BothStep, PTL DEF SpecBoth, Spec
=============================================================================
