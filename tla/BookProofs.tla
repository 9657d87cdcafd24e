--------------------------- MODULE BookProofs ---------------------------
(***************************************************************************)
(* What the operators on a book return, preserve and bound, for every set  *)
(* of keys, prices and quantities and every width of the integers.         *)
(***************************************************************************)
EXTENDS Book, FoldProofs

-----------------------------------------------------------------------------
(* The operators on a book.                                                *)

\* The sides are the two maps of the book and differ from each other.
LEMMA OppositeSide ==
    ASSUME NEW side \in Sides
    PROVE  /\ Opposite(side) \in Sides
           /\ Opposite(side) # side
           /\ \A s \in Sides : s # side => s = Opposite(side)
BY DEF Sides, Opposite

\* The best price of a side that has levels is one of its levels, and none of
\* its levels is better.
LEMMA BestPriceIsBest ==
    ASSUME NEW lv, IsLevels(lv), NEW side \in Sides, DOMAIN lv[side] # {}
    PROVE  /\ BestPrice(lv, side) \in DOMAIN lv[side]
           /\ BestPrice(lv, side) \in Prices
           /\ \A p \in DOMAIN lv[side] :
                /\ side = "Buy"  => p <= BestPrice(lv, side)
                /\ side = "Sell" => BestPrice(lv, side) <= p
<1> DEFINE S == DOMAIN lv[side]
<1>1. S \subseteq Prices
  BY DEF IsLevels
<1>2. S \subseteq Nat /\ S # {} /\ U32 \in Nat /\ \A p \in S : p <= U32
  <2>1. \A p \in 1..(U32 - 1) : p \in Nat /\ p <= U32
    BY BookAssumption
  <2> QED
    BY <1>1, <2>1, BookAssumption
<1>3. Max(S) \in S /\ \A p \in S : p <= Max(S)
  <2> HIDE DEF S
  <2> QED
    BY <1>2, MaxIsGreatest
<1>4. Min(S) \in S /\ \A p \in S : Min(S) <= p
  <2> HIDE DEF S
  <2> QED
    BY <1>2, MinIsLeast
<1> QED
  BY <1>1, <1>3, <1>4 DEF BestPrice, Sides

\* Storing a queue changes that level and no other, and keeps the type.
LEMMA SetLevelEffect ==
    ASSUME NEW lv, IsLevels(lv), NEW side \in Sides, NEW price \in Prices,
           NEW queue \in Seq(Orders)
    PROVE  LET new == SetLevel(lv, side, price, queue) IN
           /\ IsLevels(new)
           /\ DOMAIN new[side] = DOMAIN lv[side] \cup {price}
           /\ new[side][price] = queue
           /\ \A p \in DOMAIN lv[side] : p # price => new[side][p] = lv[side][p]
           /\ \A s \in Sides : s # side => new[s] = lv[s]
BY DEF IsLevels, SetLevel

\* Removing a level changes no other level and keeps the type.
LEMMA DropLevelEffect ==
    ASSUME NEW lv, IsLevels(lv), NEW side \in Sides, NEW price
    PROVE  LET new == DropLevel(lv, side, price) IN
           /\ IsLevels(new)
           /\ DOMAIN new[side] = DOMAIN lv[side] \ {price}
           /\ \A p \in DOMAIN new[side] : new[side][p] = lv[side][p]
           /\ \A s \in Sides : s # side => new[s] = lv[s]
BY DEF IsLevels, DropLevel, Restrict

\* An order of the right price can be queued: add_to_book keeps the type.
LEMMA AddToBookType ==
    ASSUME NEW lv, IsLevels(lv), NEW order \in Orders, ~IsMarket(order)
    PROVE  IsLevels(AddToBook(lv, order))
<1>1. order.side \in Sides /\ order.price \in Prices
  BY DEF Orders, IsMarket, Market
<1> DEFINE queue == IF order.price \in DOMAIN lv[order.side]
                    THEN lv[order.side][order.price] ELSE <<>>
<1>2. queue \in Seq(Orders)
  BY <1>1 DEF IsLevels
<1>3. Append(queue, order) \in Seq(Orders)
  BY <1>2
<1> HIDE DEF queue
<1>4. IsLevels(SetLevel(lv, order.side, order.price, Append(queue, order)))
  BY <1>1, <1>3, SetLevelEffect
<1> QED
  BY <1>4 DEF AddToBook, queue

\* Removing the i-th element closes the gap and changes nothing else.
LEMMA RemoveAtEffect ==
    ASSUME NEW S, NEW q \in Seq(S), NEW i \in 1..Len(q)
    PROVE  /\ RemoveAt(q, i) \in Seq(S)
           /\ Len(RemoveAt(q, i)) = Len(q) - 1
           /\ \A j \in 1..(Len(q) - 1) :
                RemoveAt(q, i)[j] = IF j < i THEN q[j] ELSE q[j + 1]
<1> DEFINE left == SubSeq(q, 1, i - 1)
           right == SubSeq(q, i + 1, Len(q))
<1>1. /\ left \in Seq(S) /\ Len(left) = i - 1
      /\ \A j \in 1..(i - 1) : left[j] = q[j]
  BY SubSeqProperties
<1>2. /\ right \in Seq(S) /\ Len(right) = Len(q) - i
      /\ \A j \in 1..(Len(q) - i) : right[j] = q[i + j]
  BY SubSeqProperties
<1>3. RemoveAt(q, i) = left \o right
  BY DEF RemoveAt
<1> HIDE DEF left, right
<1>4. /\ left \o right \in Seq(S)
      /\ Len(left \o right) = Len(left) + Len(right)
      /\ \A j \in 1..(Len(left) + Len(right)) :
           (left \o right)[j] = IF j <= Len(left) THEN left[j]
                                ELSE right[j - Len(left)]
  BY <1>1, <1>2, ConcatProperties
<1>5. ASSUME NEW j \in 1..(Len(q) - 1)
      PROVE  (left \o right)[j] = IF j < i THEN q[j] ELSE q[j + 1]
  <2>1. CASE j < i
    BY <2>1, <1>1, <1>2, <1>4
  <2>2. CASE ~(j < i)
    <3>1. j - (i - 1) \in 1..(Len(q) - i)
      BY <2>2
    <3>2. right[j - (i - 1)] = q[i + (j - (i - 1))]
      BY <3>1, <1>2
    <3>3. i + (j - (i - 1)) = j + 1
      OBVIOUS
    <3> QED
      BY <2>2, <3>2, <3>3, <1>1, <1>2, <1>4
  <2> QED
    BY <2>1, <2>2
<1> QED
  BY <1>1, <1>2, <1>3, <1>4, <1>5

\* A cancel leaves the book alone, or takes one order with the key out of one
\* queue and leaves the level in place.
LEMMA RemoveOrderEffect ==
    ASSUME NEW lv, IsLevels(lv), NEW key, InBook(lv, key)
    PROVE  \E side \in Sides : \E price \in DOMAIN lv[side] :
             \E i \in 1..Len(lv[side][price]) :
               /\ lv[side][price][i].key = key
               /\ RemoveOrder(lv, key) =
                    SetLevel(lv, side, price, RemoveAt(lv[side][price], i))
<1>1. ASSUME NEW side \in Sides, OnSide(lv, side, key)
      PROVE  \E price \in DOMAIN lv[side] : \E i \in 1..Len(lv[side][price]) :
               /\ lv[side][price][i].key = key
               /\ RemoveFromSide(lv, side, key) =
                    SetLevel(lv, side, price, RemoveAt(lv[side][price], i))
  <2> DEFINE P     == PricesWithKey(lv, side, key)
             price == Min(P)
             queue == lv[side][price]
             I     == {i \in DOMAIN queue : queue[i].key = key}
  <2>1. P # {} /\ P \subseteq DOMAIN lv[side] /\ P \subseteq Nat
    <3>1. DOMAIN lv[side] \subseteq Nat
      BY BookAssumption DEF IsLevels
    <3> QED
      BY <1>1, <3>1 DEF OnSide, PricesWithKey
  <2>2. price \in P
    <3> HIDE DEF P
    <3> QED
      BY <2>1, MinIsLeast
  <2>3. queue \in Seq(Orders)
    <3>1. price \in DOMAIN lv[side]
      BY <2>1, <2>2
    <3> QED
      BY <3>1 DEF IsLevels
  <2>4. HasKey(queue, key)
    BY <2>2 DEF PricesWithKey
  <2>5. I # {} /\ I \subseteq Nat /\ I \subseteq 1..Len(queue)
    <3> HIDE DEF queue
    <3> QED
      BY <2>3, <2>4 DEF HasKey
  <2>6. Min(I) \in I
    <3> HIDE DEF I
    <3> QED
      BY <2>5, MinIsLeast
  <2>7. RemoveFromSide(lv, side, key) =
          SetLevel(lv, side, price, RemoveAt(queue, Min(I)))
    BY DEF RemoveFromSide
  <2>8. price \in DOMAIN lv[side] /\ Min(I) \in 1..Len(queue)
        /\ queue[Min(I)].key = key
    <3>1. price \in DOMAIN lv[side]
      BY <2>1, <2>2
    <3>2. Min(I) \in 1..Len(queue)
      BY <2>5, <2>6
    <3> QED
      BY <3>1, <3>2, <2>6
  <2> HIDE DEF P, price, I
  <2> QED
    BY <2>7, <2>8
<1>2. CASE OnSide(lv, "Buy", key)
  <2>1. RemoveOrder(lv, key) = RemoveFromSide(lv, "Buy", key)
    BY <1>2 DEF RemoveOrder
  <2> QED
    BY <1>1, <1>2, <2>1 DEF Sides
<1>3. CASE ~OnSide(lv, "Buy", key)
  <2>1. OnSide(lv, "Sell", key)
    BY <1>3 DEF InBook
  <2>2. RemoveOrder(lv, key) = RemoveFromSide(lv, "Sell", key)
    BY <1>3, <2>1 DEF RemoveOrder
  <2> QED
    BY <1>1, <2>1, <2>2 DEF Sides
<1> QED
  BY <1>2, <1>3

\* A cancel keeps the type of the book.
LEMMA RemoveOrderType ==
    ASSUME NEW lv, IsLevels(lv), NEW key, InBook(lv, key)
    PROVE  IsLevels(RemoveOrder(lv, key))
<1>1. PICK side \in Sides : \E price \in DOMAIN lv[side] :
        \E i \in 1..Len(lv[side][price]) :
          RemoveOrder(lv, key) =
            SetLevel(lv, side, price, RemoveAt(lv[side][price], i))
  BY RemoveOrderEffect
<1>2. PICK price \in DOMAIN lv[side] :
        \E i \in 1..Len(lv[side][price]) :
          RemoveOrder(lv, key) =
            SetLevel(lv, side, price, RemoveAt(lv[side][price], i))
  BY <1>1
<1>3. PICK i \in 1..Len(lv[side][price]) :
        RemoveOrder(lv, key) =
          SetLevel(lv, side, price, RemoveAt(lv[side][price], i))
  BY <1>2
<1>4. lv[side][price] \in Seq(Orders) /\ price \in Prices
  BY DEF IsLevels
<1>5. RemoveAt(lv[side][price], i) \in Seq(Orders)
  BY <1>4, RemoveAtEffect
<1> QED
  BY <1>3, <1>4, <1>5, SetLevelEffect

\* The quantity of a trade is what both orders have left to give.
LEMMA TradeQuantityBound ==
    ASSUME NEW order \in Orders, NEW passive \in Orders
    PROVE  LET qty == TradeQuantity(order, passive) IN
           /\ qty \in 0..(U32 - 1)
           /\ qty <= order.remaining_qty /\ qty <= passive.remaining_qty
           /\ order.remaining_qty - qty \in 0..(U32 - 1)
           /\ passive.remaining_qty - qty \in 0..(U32 - 1)
           /\ \/ order.remaining_qty - qty = 0
              \/ passive.remaining_qty - qty = 0
           /\ order.remaining_qty > 0 /\ passive.remaining_qty > 0 => qty > 0
BY BookAssumption DEF TradeQuantity, Orders

\* Filling an order changes what remains of it and nothing else.
LEMMA FillEffect ==
    ASSUME NEW order \in Orders, NEW qty \in Nat,
           order.remaining_qty - qty \in 0..(U32 - 1)
    PROVE  /\ Fill(order, qty) \in Orders
           /\ Fill(order, qty).remaining_qty = order.remaining_qty - qty
           /\ Fill(order, qty).key = order.key
           /\ Fill(order, qty).side = order.side
           /\ Fill(order, qty).price = order.price
           /\ Fill(order, qty).quantity = order.quantity
           /\ Fill(order, qty).arrival = order.arrival
BY DEF Fill, Orders

\* A fill replaces the front of the best queue, pops it, or pops it with its
\* level, according to what remains of it and of the queue.
LEMMA TakeFromFrontEffect ==
    ASSUME NEW lv, NEW side, NEW qty,
           NEW price, price = BestPrice(lv, side),
           NEW queue, queue = lv[side][price],
           NEW front, front = Fill(Head(queue), qty)
    PROVE  \/ /\ front.remaining_qty # 0
              /\ TakeFromFront(lv, side, qty) =
                   SetLevel(lv, side, price, [queue EXCEPT ![1] = front])
           \/ /\ front.remaining_qty = 0 /\ Tail(queue) # <<>>
              /\ TakeFromFront(lv, side, qty) =
                   SetLevel(lv, side, price, Tail(queue))
           \/ /\ front.remaining_qty = 0 /\ Tail(queue) = <<>>
              /\ TakeFromFront(lv, side, qty) = DropLevel(lv, side, price)
BY DEF TakeFromFront

-----------------------------------------------------------------------------
(* Flush, and the messages about the top of the book.                      *)

\* The prices of a side are finitely many positive naturals.
LEMMA PricesBounded ==
    ASSUME NEW lv, IsLevels(lv), NEW side \in Sides
    PROVE  /\ DOMAIN lv[side] \in SUBSET (1..(U32 - 1)) /\ U32 - 1 \in Nat
           /\ IsFiniteSet(DOMAIN lv[side])
<1>1. DOMAIN lv[side] \in SUBSET (1..(U32 - 1)) /\ U32 - 1 \in Nat
  BY BookAssumption DEF IsLevels
<1>2. IsFiniteSet(1..(U32 - 1))
  BY <1>1, FS_Interval
<1> QED
  BY <1>1, <1>2, FS_Subset

\* What flush visits on a side is what rests there.
LEMMA QueueOrderFacts ==
    ASSUME NEW lv, IsLevels(lv), NEW side \in Sides
    PROVE  /\ QueueOrder(lv, side) \in Seq(Orders)
           /\ ToSet(QueueOrder(lv, side)) = RestingOn(lv, side)
<1> DEFINE D == DOMAIN lv[side]
           prices == Ascending(D)
           parts == [i \in DOMAIN prices |-> lv[side][prices[i]]]
<1>1. prices \in SetToSeqs(D)
  <2>1. \E q \in SetToSeqs(D) : \A i, j \in DOMAIN q : i < j => q[i] < q[j]
    BY PricesBounded, AscendingExists
  <2> HIDE DEF D
  <2> QED
    BY <2>1 DEF Ascending
<1>2. /\ prices \in Seq(D) /\ DOMAIN prices = 1..Len(prices)
      /\ \A p \in D : \E i \in DOMAIN prices : prices[i] = p
  <2>1. IsFiniteSet(D)
    BY PricesBounded
  <2> HIDE DEF D, prices
  <2> QED
    BY <1>1, <2>1, ListsAll
<1>3. \A p \in D : lv[side][p] \in Seq(Orders)
  BY DEF IsLevels
<1> HIDE DEF D, prices
<1>4. \A i \in DOMAIN prices : prices[i] \in D
  BY <1>2
<1>5. Len(prices) \in Nat
  BY <1>2
<1>6. parts \in Seq(Seq(Orders)) /\ Len(parts) = Len(prices)
      /\ DOMAIN parts = DOMAIN prices
  BY <1>2, <1>3, <1>4, <1>5
<1>7. \A i \in DOMAIN prices : parts[i] = lv[side][prices[i]]
  OBVIOUS
<1> HIDE DEF parts
<1>8. PICK f : Flattens(f, Orders, parts)
  BY <1>6, FlattenFacts
<1>9. QueueOrder(lv, side) = FlattenSeq(parts)
  BY DEF QueueOrder, prices, D, parts
<1>10. Len(parts) \in 0..Len(parts) /\ 1..Len(parts) = DOMAIN prices
  BY <1>2, <1>5, <1>6
<1>11. \A x : (\E i \in DOMAIN prices : x \in ToSet(parts[i])) <=>
              (\E p \in D : x \in ToSet(lv[side][p]))
  BY <1>2, <1>4, <1>7
<1>12. \A x : x \in RestingOn(lv, side) <=> \E p \in D : x \in ToSet(lv[side][p])
  BY DEF RestingOn, D
<1>13. \A x : x \in ToSet(QueueOrder(lv, side)) <=> x \in RestingOn(lv, side)
  BY <1>8, <1>9, <1>10, <1>11, <1>12 DEF Flattens
<1>14. QueueOrder(lv, side) \in Seq(Orders)
  BY <1>8, <1>9, <1>10 DEF Flattens
<1> QED
  BY <1>13, <1>14

\* What rests on a side, and in a book, is finitely many orders.
LEMMA RestingFinite ==
    ASSUME NEW lv, IsLevels(lv)
    PROVE  /\ \A side \in Sides : IsFiniteSet(RestingOn(lv, side))
           /\ IsFiniteSet(Resting(lv)) /\ Resting(lv) \subseteq Orders
<1>1. ASSUME NEW side \in Sides
      PROVE  IsFiniteSet(RestingOn(lv, side)) /\ RestingOn(lv, side) \subseteq Orders
  <2> DEFINE q == QueueOrder(lv, side)
  <2>1. q \in Seq(Orders) /\ ToSet(q) = RestingOn(lv, side)
    BY QueueOrderFacts
  <2> HIDE DEF q
  <2>2. ToSet(q) \subseteq Orders
    BY <2>1 DEF ToSet
  <2>3. Len(q) \in Nat /\ q \in Surjection(1..Len(q), ToSet(q))
    BY <2>1 DEF Surjection, ToSet
  <2>4. IsFiniteSet(1..Len(q))
    BY <2>3, FS_Interval
  <2> QED
    BY <2>1, <2>2, <2>3, <2>4, FS_Surjection
<1>2. Resting(lv) = RestingOn(lv, "Buy") \cup RestingOn(lv, "Sell")
  BY DEF Resting
<1> QED
  BY <1>1, <1>2, FS_Union DEF Sides

\* The messages that a book can put out besides Ack and Trade.
CancelAcks == {CancelAckOutput(key) : key \in Keys}

\* What flush returns: a CancelAck for every resting order, and a TopOfBook
\* message that eliminates every side that had a level.
LEMMA FlushOutputsFacts ==
    ASSUME NEW lv, IsLevels(lv)
    PROVE  LET m == FlushOutputs(lv) IN
           /\ m \in Seq(CancelAcks \cup {Eliminated(side) : side \in Sides})
           /\ ToSet(m) = {CancelAckOutput(o.key) : o \in Resting(lv)}
                \cup {Eliminated(side) : side \in {s \in Sides : DOMAIN lv[s] # {}}}
<1> DEFINE M == CancelAcks \cup {Eliminated(side) : side \in Sides}
           acks(side) == LET orders == QueueOrder(lv, side)
                         IN  [i \in DOMAIN orders |-> CancelAckOutput(orders[i].key)]
           gone(side) == IF DOMAIN lv[side] = {} THEN <<>> ELSE <<Eliminated(side)>>
           A == acks("Buy")
           B == acks("Sell")
           C == gone("Buy")
           D == gone("Sell")
<1>1. ASSUME NEW side \in Sides
      PROVE  /\ acks(side) \in Seq(M)
             /\ ToSet(acks(side)) = {CancelAckOutput(o.key) : o \in RestingOn(lv, side)}
  <2> DEFINE q == QueueOrder(lv, side)
             a == [i \in DOMAIN q |-> CancelAckOutput(q[i].key)]
  <2>1. q \in Seq(Orders) /\ ToSet(q) = RestingOn(lv, side)
    BY QueueOrderFacts
  <2>2. acks(side) = a
    OBVIOUS
  <2> HIDE DEF q
  <2>3. \A i \in DOMAIN q : q[i].key \in Keys
    <3>1. \A i \in DOMAIN q : q[i] \in Orders
      BY <2>1
    <3> QED
      BY <3>1 DEF Orders
  <2>4. Len(q) \in Nat /\ DOMAIN q = 1..Len(q)
    BY <2>1
  <2>5. \A i \in DOMAIN q : CancelAckOutput(q[i].key) \in M
    BY <2>3 DEF CancelAcks
  <2> HIDE DEF M
  <2>6. a \in Seq(M) /\ DOMAIN a = DOMAIN q
    BY <2>4, <2>5
  <2>7. ToSet(a) = {CancelAckOutput(o.key) : o \in ToSet(q)}
    BY <2>6 DEF ToSet
  <2> QED
    BY <2>1, <2>2, <2>6, <2>7
<1>2. ASSUME NEW side \in Sides
      PROVE  /\ gone(side) \in Seq(M)
             /\ ToSet(gone(side)) = {Eliminated(s) : s \in
                                        {s \in {side} : DOMAIN lv[s] # {}}}
  <2>1. ToSet(<<>>) = {}
    BY DEF ToSet
  <2>2. CASE DOMAIN lv[side] = {}
    <3>1. gone(side) = <<>> /\ {s \in {side} : DOMAIN lv[s] # {}} = {}
      BY <2>2
    <3> HIDE DEF M, gone
    <3> QED
      BY <2>1, <3>1
  <2>3. CASE DOMAIN lv[side] # {}
    <3> DEFINE e == Eliminated(side)
    <3>1. gone(side) = <<e>> /\ {s \in {side} : DOMAIN lv[s] # {}} = {side}
      BY <2>3
    <3>2. e \in M
      OBVIOUS
    <3> HIDE DEF M, gone, e
    <3>3. ToSet(<<e>>) = {e} /\ <<e>> \in Seq(M)
      BY <3>2 DEF ToSet
    <3> QED
      BY <3>1, <3>3 DEF e
  <2> QED
    BY <2>2, <2>3
<1>3. FlushOutputs(lv) = ((A \o B) \o C) \o D
  BY DEF FlushOutputs
<1>4. A \in Seq(M) /\ B \in Seq(M) /\ C \in Seq(M) /\ D \in Seq(M)
  BY <1>1, <1>2 DEF Sides
<1>5. /\ ToSet(A) = {CancelAckOutput(o.key) : o \in RestingOn(lv, "Buy")}
      /\ ToSet(B) = {CancelAckOutput(o.key) : o \in RestingOn(lv, "Sell")}
      /\ ToSet(C) = {Eliminated(s) : s \in {s \in {"Buy"} : DOMAIN lv[s] # {}}}
      /\ ToSet(D) = {Eliminated(s) : s \in {s \in {"Sell"} : DOMAIN lv[s] # {}}}
  BY <1>1, <1>2 DEF Sides
<1>6. /\ ((A \o B) \o C) \o D \in Seq(M)
      /\ ToSet(((A \o B) \o C) \o D) = ToSet(A) \cup ToSet(B) \cup ToSet(C) \cup ToSet(D)
  <2> HIDE DEF A, B, C, D, M
  <2> DEFINE AB == A \o B
             ABC == AB \o C
  <2>1. AB \in Seq(M) /\ ToSet(AB) = ToSet(A) \cup ToSet(B)
    BY <1>4, ConcatProperties, ConcatRange
  <2> HIDE DEF AB
  <2>2. ABC \in Seq(M) /\ ToSet(ABC) = ToSet(AB) \cup ToSet(C)
    BY <2>1, <1>4, ConcatProperties, ConcatRange
  <2> HIDE DEF ABC
  <2>3. ABC \o D \in Seq(M) /\ ToSet(ABC \o D) = ToSet(ABC) \cup ToSet(D)
    BY <2>2, <1>4, ConcatProperties, ConcatRange
  <2> QED
    BY <2>1, <2>2, <2>3 DEF AB, ABC
<1>7. {CancelAckOutput(o.key) : o \in Resting(lv)} =
        {CancelAckOutput(o.key) : o \in RestingOn(lv, "Buy")} \cup
        {CancelAckOutput(o.key) : o \in RestingOn(lv, "Sell")}
  BY DEF Resting
<1>8. {Eliminated(side) : side \in {s \in Sides : DOMAIN lv[s] # {}}} =
        {Eliminated(s) : s \in {s \in {"Buy"} : DOMAIN lv[s] # {}}} \cup
        {Eliminated(s) : s \in {s \in {"Sell"} : DOMAIN lv[s] # {}}}
  BY DEF Sides
<1> HIDE DEF A, B, C, D, acks, gone
<1> QED
  BY <1>3, <1>5, <1>6, <1>7, <1>8

\* What check_top_of_book_changes returns: one event for every side whose top
\* is not the cached one.
LEMMA TopEventsFacts ==
    ASSUME NEW prev, NEW top
    PROVE  LET m == TopEvents(prev, top) IN
           /\ m \in Seq({TopEvent(side, top[side]) : side \in Sides})
           /\ \A x : x \in ToSet(m) <=>
                \E side \in Sides : top[side] # prev[side] /\ x = TopEvent(side, top[side])
<1> DEFINE M == {TopEvent(side, top[side]) : side \in Sides}
           event(side) == IF top[side] # prev[side]
                          THEN <<TopEvent(side, top[side])>> ELSE <<>>
           A == event("Buy")
           B == event("Sell")
<1>1. ASSUME NEW side \in Sides
      PROVE  /\ event(side) \in Seq(M)
             /\ \A x : x \in ToSet(event(side)) <=>
                  top[side] # prev[side] /\ x = TopEvent(side, top[side])
  <2>1. ToSet(<<>>) = {}
    BY DEF ToSet
  <2>2. CASE top[side] = prev[side]
    <3>1. event(side) = <<>>
      BY <2>2
    <3> HIDE DEF M, event
    <3> QED
      BY <2>1, <2>2, <3>1
  <2>3. CASE top[side] # prev[side]
    <3> DEFINE e == TopEvent(side, top[side])
    <3>1. event(side) = <<e>> /\ e \in M
      BY <2>3
    <3> HIDE DEF M, event, e
    <3>2. ToSet(<<e>>) = {e} /\ <<e>> \in Seq(M)
      BY <3>1 DEF ToSet
    <3> QED
      BY <2>3, <3>1, <3>2 DEF e
  <2> QED
    BY <2>2, <2>3
<1>2. TopEvents(prev, top) = A \o B
  BY DEF TopEvents
<1>3. A \in Seq(M) /\ B \in Seq(M)
  BY <1>1 DEF Sides
<1>4. A \o B \in Seq(M) /\ ToSet(A \o B) = ToSet(A) \cup ToSet(B)
  <2> HIDE DEF A, B, M
  <2> QED
    BY <1>3, ConcatProperties, ConcatRange
<1>5. \A x : x \in ToSet(A \o B) <=>
        \E side \in Sides : top[side] # prev[side] /\ x = TopEvent(side, top[side])
  <2> HIDE DEF event
  <2> QED
    BY <1>1, <1>4 DEF Sides
<1> QED
  BY <1>2, <1>4, <1>5

\* The event about a side carries the price and the quantity of its top.
LEMMA TopEventCarries ==
    ASSUME NEW side, NEW best, best.price = 0 => best.quantity = 0
    PROVE  /\ TopEvent(side, best).type = "TopOfBook"
           /\ TopEvent(side, best).side = side
           /\ TopEvent(side, best).price = best.price
           /\ TopEvent(side, best).quantity = best.quantity
BY DEF TopEvent, Eliminated, TopOfBook

\* The snapshot of a book has a price for exactly the sides that have levels,
\* and a side without levels has quantity 0.
LEMMA SnapshotFacts ==
    ASSUME NEW lv, IsLevels(lv)
    PROVE  /\ Snapshot(lv) = [side \in Sides |-> Snapshot(lv)[side]]
           /\ \A side \in Sides :
                /\ Snapshot(lv)[side] = [price |-> Snapshot(lv)[side].price,
                                         quantity |-> Snapshot(lv)[side].quantity]
                /\ Snapshot(lv)[side].price = 0 <=> DOMAIN lv[side] = {}
                /\ Snapshot(lv)[side].price = 0 => Snapshot(lv)[side].quantity = 0
                /\ DOMAIN lv[side] = {} => Snapshot(lv)[side] = NoTop[side]
<1> SUFFICES ASSUME NEW side \in Sides
             PROVE  /\ BestPrice(lv, side) = 0 <=> DOMAIN lv[side] = {}
                    /\ DOMAIN lv[side] = {} => BestQuantity(lv, side) = 0
  BY DEF Snapshot, NoTop
<1>1. CASE DOMAIN lv[side] = {}
  <2>1. 0 % U32 = 0
    BY BookAssumption
  <2> QED
    BY <1>1, <2>1 DEF BestPrice, BestQuantity, BestTotal
<1>2. CASE DOMAIN lv[side] # {}
  <2>1. BestPrice(lv, side) \in DOMAIN lv[side]
    BY <1>2, BestPriceIsBest
  <2>2. BestPrice(lv, side) \in 1..(U32 - 1)
    BY <2>1, PricesBounded
  <2> QED
    BY <1>2, <2>2, BookAssumption
<1> QED
  BY <1>1, <1>2

\* The snapshot of the empty book, which a new or flushed book caches.
LEMMA EmptyBook ==
    /\ IsLevels(EmptyLevels)
    /\ Snapshot(EmptyLevels) = NoTop
    /\ Resting(EmptyLevels) = {}
    /\ \A lv : IsLevels(lv) /\ (\A side \in Sides : DOMAIN lv[side] = {}) =>
                lv = EmptyLevels
<1>1. IsLevels(EmptyLevels)
  <2>1. <<>> \in [{} -> Seq(Orders)] /\ DOMAIN <<>> = {}
    OBVIOUS
  <2> QED
    BY <2>1 DEF IsLevels, EmptyLevels
<1>2. \A side \in Sides : DOMAIN EmptyLevels[side] = {}
  BY DEF EmptyLevels
<1>3. Snapshot(EmptyLevels) = NoTop
  <2>1. \A side \in Sides : Snapshot(EmptyLevels)[side] = NoTop[side]
    BY <1>1, <1>2, SnapshotFacts
  <2>2. NoTop = [side \in Sides |-> NoTop[side]]
    BY DEF NoTop
  <2> QED
    BY <1>1, <2>1, <2>2, SnapshotFacts
<1>4. Resting(EmptyLevels) = {}
  BY <1>2 DEF Resting, RestingOn, Sides
<1>5. ASSUME NEW lv, IsLevels(lv), \A side \in Sides : DOMAIN lv[side] = {}
      PROVE  lv = EmptyLevels
  <2>1. \A f : f \in [{} -> Seq(Orders)] => f = <<>>
    OBVIOUS
  <2>2. \A side \in Sides : lv[side] = <<>>
    BY <1>5, <2>1 DEF IsLevels
  <2> QED
    BY <1>5, <2>2 DEF IsLevels, EmptyLevels
<1> QED
  BY <1>1, <1>3, <1>4, <1>5

\* What a set of messages says of the tops is true of `want`, and it says
\* something of every side on which `seen` is not `want` already.
Informs(messages, seen, want) ==
    /\ want = [side \in Sides |-> want[side]]
    /\ \A side \in Sides : want[side] = [price |-> want[side].price,
                                        quantity |-> want[side].quantity]
    /\ \A m \in messages, side \in Sides :
         m.type = "TopOfBook" /\ m.side = side =>
           m.price = want[side].price /\ m.quantity = want[side].quantity
    /\ \A side \in Sides :
         \/ seen[side] = want[side]
         \/ \E m \in messages : m.type = "TopOfBook" /\ m.side = side

\* A subscriber whose view is right about every side that no message mentions,
\* and who is told nothing but the truth, knows the truth afterwards.
LEMMA ObserveAgrees ==
    ASSUME NEW M, NEW messages \in Seq(M), NEW seen, NEW want,
           Informs(ToSet(messages), seen, want)
    PROVE  Observe(seen, messages) = want
<1> DEFINE of(side) == {i \in DOMAIN messages :
                          messages[i].type = "TopOfBook" /\ messages[i].side = side}
           value(side) == IF of(side) = {} THEN seen[side]
                          ELSE LET last == messages[Max(of(side))]
                               IN  [price |-> last.price, quantity |-> last.quantity]
<1>1. ASSUME NEW side \in Sides
      PROVE  value(side) = want[side]
  <2>1. CASE of(side) = {}
    <3>1. ~\E m \in ToSet(messages) : m.type = "TopOfBook" /\ m.side = side
      BY <2>1 DEF ToSet
    <3> QED
      BY <2>1, <3>1 DEF Informs
  <2>2. CASE of(side) # {}
    <3> DEFINE I == of(side)
    <3>1. I \in SUBSET (1..Len(messages)) /\ Len(messages) \in Nat /\ I # {}
      BY <2>2
    <3>2. Max(I) \in I
      <4> HIDE DEF I
      <4> QED
        BY <3>1, LastPosition
    <3> DEFINE last == messages[Max(I)]
    <3>3. last \in ToSet(messages) /\ last.type = "TopOfBook" /\ last.side = side
      BY <3>2 DEF ToSet
    <3>4. value(side) = [price |-> last.price, quantity |-> last.quantity]
      BY <2>2
    <3> HIDE DEF last, value, of
    <3>5. last.price = want[side].price /\ last.quantity = want[side].quantity
      BY <3>3 DEF Informs
    <3>6. want[side] = [price |-> want[side].price, quantity |-> want[side].quantity]
      BY DEF Informs
    <3> QED
      BY <3>4, <3>5, <3>6
  <2> QED
    BY <2>1, <2>2
<1>2. Observe(seen, messages) = [side \in Sides |-> value(side)]
  BY DEF Observe
<1>3. want = [side \in Sides |-> want[side]]
  BY DEF Informs
<1> HIDE DEF value
<1> QED
  BY <1>1, <1>2, <1>3

\* Messages that do not speak of the top of the book.
Silent == Acks \cup Trades \cup CancelAcks

LEMMA SilentMessages ==
    /\ \A m \in Silent : m.type # "TopOfBook"
    /\ \A key \in Keys : AckOutput(key) \in Silent /\ CancelAckOutput(key) \in Silent
<1>1. /\ \A m \in Acks : m.type = "Ack"
      /\ \A m \in Trades : m.type = "Trade"
  BY DEF Acks, Trades
<1>2. \A m \in CancelAcks : m.type = "CancelAck"
  BY DEF CancelAcks, CancelAckOutput
<1>3. \A key \in Keys : AckOutput(key) \in Acks /\ CancelAckOutput(key) \in CancelAcks
  BY DEF Acks, CancelAcks, AckOutput
<1> QED
  BY <1>1, <1>2, <1>3 DEF Silent

\* A call that ends with check_top_of_book_changes tells a subscriber who knew
\* the cached top what the top is now, whatever else it put out.
LEMMA CheckedInforms ==
    ASSUME NEW lv, IsLevels(lv), NEW old, NEW messages \in Seq(Silent)
    PROVE  LET top == Snapshot(lv)
               all == messages \o TopEvents(old, top)
           IN  /\ all \in Seq(Silent \cup {TopEvent(side, top[side]) : side \in Sides})
               /\ Informs(ToSet(all), old, top)
<1> DEFINE top    == Snapshot(lv)
           events == TopEvents(old, top)
           E      == {TopEvent(side, top[side]) : side \in Sides}
           M      == Silent \cup E
           all    == messages \o events
<1>1. /\ events \in Seq(E)
      /\ \A x : x \in ToSet(events) <=>
           \E side \in Sides : top[side] # old[side] /\ x = TopEvent(side, top[side])
  BY TopEventsFacts
<1>2. ASSUME NEW side \in Sides
      PROVE  /\ TopEvent(side, top[side]).type = "TopOfBook"
             /\ TopEvent(side, top[side]).side = side
             /\ TopEvent(side, top[side]).price = top[side].price
             /\ TopEvent(side, top[side]).quantity = top[side].quantity
  <2>1. top[side].price = 0 => top[side].quantity = 0
    BY SnapshotFacts
  <2> HIDE DEF top
  <2> QED
    BY <2>1, TopEventCarries
<1>3. /\ top = [side \in Sides |-> top[side]]
      /\ \A side \in Sides : top[side] = [price |-> top[side].price,
                                         quantity |-> top[side].quantity]
  BY SnapshotFacts
<1>4. all \in Seq(M) /\ ToSet(all) = ToSet(messages) \cup ToSet(events)
  <2> HIDE DEF E, events
  <2>1. messages \in Seq(M) /\ events \in Seq(M)
    BY <1>1
  <2> HIDE DEF M
  <2> QED
    BY <2>1, ConcatProperties, ConcatRange
<1>5. \A m \in ToSet(messages) : m.type # "TopOfBook"
  BY SilentMessages DEF ToSet
<1> HIDE DEF all, events, E, M, top
<1>6. \A m \in ToSet(all), side \in Sides :
        m.type = "TopOfBook" /\ m.side = side =>
          m.price = top[side].price /\ m.quantity = top[side].quantity
  <2> TAKE m \in ToSet(all), side \in Sides
  <2> HAVE m.type = "TopOfBook" /\ m.side = side
  <2>1. PICK s \in Sides : m = TopEvent(s, top[s])
    BY <1>1, <1>4, <1>5
  <2> QED
    BY <2>1, <1>2
<1>7. \A side \in Sides :
        \/ old[side] = top[side]
        \/ \E m \in ToSet(all) : m.type = "TopOfBook" /\ m.side = side
  BY <1>1, <1>2, <1>4
<1>8. Informs(ToSet(all), old, top)
  BY <1>3, <1>6, <1>7 DEF Informs
<1> QED
  BY <1>4, <1>8 DEF all, events, top, M, E

LEMMA CheckedTop ==
    ASSUME NEW lv, IsLevels(lv), NEW old, NEW messages \in Seq(Silent)
    PROVE  Observe(old, messages \o TopEvents(old, Snapshot(lv))) = Snapshot(lv)
<1> DEFINE top == Snapshot(lv)
           all == messages \o TopEvents(old, top)
           M   == Silent \cup {TopEvent(side, top[side]) : side \in Sides}
<1>1. all \in Seq(M) /\ Informs(ToSet(all), old, top)
  BY CheckedInforms
<1> HIDE DEF all, M, top
<1>2. Observe(old, all) = top
  BY <1>1, ObserveAgrees
<1> QED
  BY <1>2 DEF all, top

\* flush tells a subscriber who knew the top of the book that it is gone.
LEMMA FlushedInforms ==
    ASSUME NEW lv, IsLevels(lv)
    PROVE  Informs(ToSet(FlushOutputs(lv)), Snapshot(lv), NoTop)
<1> DEFINE M   == CancelAcks \cup {Eliminated(side) : side \in Sides}
           all == FlushOutputs(lv)
<1>1. /\ all \in Seq(M)
      /\ ToSet(all) = {CancelAckOutput(o.key) : o \in Resting(lv)}
           \cup {Eliminated(side) : side \in {s \in Sides : DOMAIN lv[s] # {}}}
  BY FlushOutputsFacts
<1>2. /\ NoTop = [side \in Sides |-> NoTop[side]]
      /\ \A side \in Sides : /\ NoTop[side].price = 0 /\ NoTop[side].quantity = 0
                            /\ NoTop[side] = [price |-> NoTop[side].price,
                                             quantity |-> NoTop[side].quantity]
  BY DEF NoTop
<1>3. \A side \in Sides :
        /\ Eliminated(side).type = "TopOfBook" /\ Eliminated(side).side = side
        /\ Eliminated(side).price = 0 /\ Eliminated(side).quantity = 0
  BY DEF Eliminated
<1>4. \A key : CancelAckOutput(key).type # "TopOfBook"
  BY DEF CancelAckOutput
<1> HIDE DEF all, M
<1>5. \A m \in ToSet(all), side \in Sides :
        m.type = "TopOfBook" /\ m.side = side =>
          m.price = NoTop[side].price /\ m.quantity = NoTop[side].quantity
  <2> TAKE m \in ToSet(all), side \in Sides
  <2> HAVE m.type = "TopOfBook" /\ m.side = side
  <2>1. \E s \in Sides : m = Eliminated(s)
    BY <1>1, <1>4
  <2> QED
    BY <2>1, <1>2, <1>3
<1>6. \A side \in Sides :
        \/ Snapshot(lv)[side] = NoTop[side]
        \/ \E m \in ToSet(all) : m.type = "TopOfBook" /\ m.side = side
  BY <1>1, <1>3, SnapshotFacts
<1>7. Informs(ToSet(all), Snapshot(lv), NoTop)
  BY <1>2, <1>5, <1>6 DEF Informs
<1> QED
  BY <1>7 DEF all

LEMMA FlushedTop ==
    ASSUME NEW lv, IsLevels(lv)
    PROVE  Observe(Snapshot(lv), FlushOutputs(lv)) = NoTop
<1> DEFINE all == FlushOutputs(lv)
           M   == CancelAcks \cup {Eliminated(side) : side \in Sides}
<1>1. all \in Seq(M) /\ Informs(ToSet(all), Snapshot(lv), NoTop)
  BY FlushOutputsFacts, FlushedInforms
<1> HIDE DEF all, M
<1>2. Observe(Snapshot(lv), all) = NoTop
  BY <1>1, ObserveAgrees
<1> QED
  BY <1>2 DEF all

\* Storing what an order that is done leaves keeps the type of the book.
LEMMA SettleType ==
    ASSUME NEW lv, IsLevels(lv), NEW order \in Orders
    PROVE  IsLevels(Settle(lv, order))
BY AddToBookType DEF Settle

\* The first messages of flush are the CancelAcks of the resting orders, each
\* at a position of its own.
LEMMA FlushAckPositions ==
    ASSUME NEW lv, IsLevels(lv)
    PROVE  \E all \in Seq(Orders) :
             /\ ToSet(all) = Resting(lv)
             /\ \A i \in DOMAIN all :
                  /\ i \in DOMAIN FlushOutputs(lv)
                  /\ FlushOutputs(lv)[i] = CancelAckOutput(all[i].key)
<1> DEFINE bids == QueueOrder(lv, "Buy")
           asks == QueueOrder(lv, "Sell")
           M == CancelAcks \cup {Eliminated(side) : side \in Sides}
           gone(side) == IF DOMAIN lv[side] = {} THEN <<>> ELSE <<Eliminated(side)>>
           A == [i \in DOMAIN bids |-> CancelAckOutput(bids[i].key)]
           B == [i \in DOMAIN asks |-> CancelAckOutput(asks[i].key)]
           all == bids \o asks
<1>1. FlushOutputs(lv) = ((A \o B) \o gone("Buy")) \o gone("Sell")
  BY DEF FlushOutputs
<1>2. /\ bids \in Seq(Orders) /\ ToSet(bids) = RestingOn(lv, "Buy")
      /\ asks \in Seq(Orders) /\ ToSet(asks) = RestingOn(lv, "Sell")
  BY QueueOrderFacts DEF Sides
<1> HIDE DEF bids, asks
<1>3. ASSUME NEW q \in Seq(Orders)
      PROVE  /\ [i \in DOMAIN q |-> CancelAckOutput(q[i].key)] \in Seq(M)
             /\ Len([i \in DOMAIN q |-> CancelAckOutput(q[i].key)]) = Len(q)
  <2>1. \A i \in DOMAIN q : CancelAckOutput(q[i].key) \in M
    <3>1. \A i \in DOMAIN q : q[i] \in Orders
      OBVIOUS
    <3>2. \A i \in DOMAIN q : q[i].key \in Keys
      BY <3>1 DEF Orders
    <3> QED
      BY <3>2 DEF CancelAcks
  <2>2. Len(q) \in Nat /\ DOMAIN q = 1..Len(q)
    OBVIOUS
  <2> HIDE DEF M
  <2> QED
    BY <2>1, <2>2
<1>4. /\ A \in Seq(M) /\ Len(A) = Len(bids)
      /\ B \in Seq(M) /\ Len(B) = Len(asks)
  BY <1>2, <1>3
<1>5. PICK C \in Seq(M), D \in Seq(M) : FlushOutputs(lv) = ((A \o B) \o C) \o D
  <2>1. ASSUME NEW side \in Sides
        PROVE  gone(side) \in Seq(M)
    <3> DEFINE e == Eliminated(side)
    <3>1. e \in M /\ (gone(side) = <<>> \/ gone(side) = <<e>>)
      OBVIOUS
    <3> HIDE DEF e, M
    <3>2. <<>> \in Seq(M) /\ <<e>> \in Seq(M)
      BY <3>1
    <3> DEFINE single == <<e>>
               none == <<>>
    <3>3. single \in Seq(M) /\ none \in Seq(M)
          /\ (gone(side) = none \/ gone(side) = single)
      BY <3>1, <3>2
    <3> HIDE DEF single, none, gone
    <3> QED
      BY <3>3
  <2>2. gone("Buy") \in Seq(M) /\ gone("Sell") \in Seq(M)
    BY <2>1 DEF Sides
  <2> HIDE DEF gone, A, B, M
  <2> QED
    BY <1>1, <2>2
<1>6. /\ all \in Seq(Orders) /\ Len(all) = Len(bids) + Len(asks)
      /\ \A i \in 1..(Len(bids) + Len(asks)) :
           all[i] = IF i <= Len(bids) THEN bids[i] ELSE asks[i - Len(bids)]
      /\ ToSet(all) = ToSet(bids) \cup ToSet(asks)
  BY <1>2, ConcatProperties, ConcatRange
<1>7. /\ \A i \in 1..Len(bids) : A[i] = CancelAckOutput(bids[i].key)
      /\ \A i \in 1..Len(asks) : B[i] = CancelAckOutput(asks[i].key)
  BY <1>2
<1> HIDE DEF A, B, M
<1> DEFINE AB == A \o B
           ABC == AB \o C
<1>8. /\ AB \in Seq(M) /\ Len(AB) = Len(A) + Len(B)
      /\ \A i \in 1..(Len(A) + Len(B)) :
           AB[i] = IF i <= Len(A) THEN A[i] ELSE B[i - Len(A)]
  BY <1>4, ConcatProperties
<1> HIDE DEF AB
<1>9. /\ ABC \in Seq(M) /\ Len(ABC) = Len(AB) + Len(C)
      /\ \A i \in 1..(Len(AB) + Len(C)) :
           ABC[i] = IF i <= Len(AB) THEN AB[i] ELSE C[i - Len(AB)]
  <2>1. AB \in Seq(M) /\ C \in Seq(M)
    BY <1>8
  <2> QED
    BY ONLY <2>1, ConcatProperties
<1> HIDE DEF ABC
<1>10. /\ ABC \o D \in Seq(M) /\ Len(ABC \o D) = Len(ABC) + Len(D)
       /\ \A i \in 1..(Len(ABC) + Len(D)) :
            (ABC \o D)[i] = IF i <= Len(ABC) THEN ABC[i] ELSE D[i - Len(ABC)]
  BY <1>5, <1>9, ConcatProperties
<1>11. FlushOutputs(lv) = ABC \o D
  BY <1>5 DEF AB, ABC
<1> DEFINE out == ABC \o D
<1>12. Len(A) \in Nat /\ Len(B) \in Nat /\ Len(C) \in Nat /\ Len(D) \in Nat
       /\ Len(bids) \in Nat /\ Len(asks) \in Nat
  BY <1>2, <1>4, <1>5
<1>13. DOMAIN out = 1..Len(out) /\ DOMAIN all = 1..Len(all)
  <2>1. out \in Seq(M)
    BY <1>10
  <2> HIDE DEF out, all
  <2> QED
    BY <2>1, <1>6
<1> HIDE DEF out, all
<1>14. ASSUME NEW i \in DOMAIN all
       PROVE  i \in DOMAIN out /\ out[i] = CancelAckOutput(all[i].key)
  <2>1. i \in 1..(Len(bids) + Len(asks))
    BY <1>6, <1>13
  <2>2. Len(AB) = Len(bids) + Len(asks) /\ Len(ABC) = Len(AB) + Len(C)
        /\ Len(out) = Len(ABC) + Len(D)
    BY <1>4, <1>8, <1>9, <1>10 DEF out
  <2>3. i \in DOMAIN out /\ i <= Len(AB) /\ i <= Len(ABC)
    BY <2>1, <2>2, <1>12, <1>13
  <2>4. i \in 1..(Len(AB) + Len(C)) /\ i \in 1..(Len(ABC) + Len(D))
        /\ i \in 1..(Len(A) + Len(B))
    BY <2>1, <2>2, <2>3, <1>4, <1>12
  <2>5. out[i] = ABC[i]
    BY <2>3, <2>4, <1>10 DEF out
  <2>6. ABC[i] = AB[i]
    BY <2>3, <2>4, <1>9
  <2>7. AB[i] = IF i <= Len(bids) THEN A[i] ELSE B[i - Len(bids)]
    BY <2>4, <1>4, <1>8
  <2>8. CASE i <= Len(bids)
    BY <2>1, <2>3, <2>5, <2>6, <2>7, <2>8, <1>6, <1>7, <1>12
  <2>9. CASE ~(i <= Len(bids))
    <3>1. i - Len(bids) \in 1..Len(asks)
      BY <2>1, <2>9, <1>12
    <3>2. all[i] = asks[i - Len(bids)] /\ out[i] = B[i - Len(bids)]
      BY <2>1, <2>5, <2>6, <2>7, <2>9, <1>6
    <3> QED
      BY <2>3, <3>1, <3>2, <1>7
  <2> QED
    BY <2>8, <2>9
<1>15. ToSet(all) = Resting(lv)
  BY <1>2, <1>6 DEF Resting
<1> QED
  BY <1>6, <1>11, <1>14, <1>15 DEF out

-----------------------------------------------------------------------------
(* What rests in a book.                                                   *)

\* The orders that rest are those that a queue of the book holds.
LEMMA RestingIsQueued ==
    ASSUME NEW lv, NEW order
    PROVE  order \in Resting(lv) <=>
             \E side \in Sides : \E price \in DOMAIN lv[side] :
               \E i \in DOMAIN lv[side][price] : lv[side][price][i] = order
BY DEF Resting, RestingOn, ToSet, Sides

\* The order is queued, but not at this level.
Elsewhere(lv, side, price, order) ==
    \E s \in Sides : \E p \in DOMAIN lv[s] :
        /\ ~(s = side /\ p = price)
        /\ \E i \in DOMAIN lv[s][p] : lv[s][p][i] = order

\* What rests is at one level or elsewhere.
LEMMA RestingSplit ==
    ASSUME NEW lv, NEW side \in Sides, NEW price \in DOMAIN lv[side], NEW order
    PROVE  order \in Resting(lv) <=>
             \/ Elsewhere(lv, side, price, order)
             \/ \E i \in DOMAIN lv[side][price] : lv[side][price][i] = order
BY RestingIsQueued DEF Elsewhere

\* After a level is stored, what rests is in it or where it was.
LEMMA SetLevelResting ==
    ASSUME NEW lv, IsLevels(lv), NEW side \in Sides, NEW price \in Prices,
           NEW queue \in Seq(Orders), NEW order
    PROVE  order \in Resting(SetLevel(lv, side, price, queue)) <=>
             \/ Elsewhere(lv, side, price, order)
             \/ \E i \in DOMAIN queue : queue[i] = order
<1> DEFINE new == SetLevel(lv, side, price, queue)
<1>1. /\ DOMAIN new[side] = DOMAIN lv[side] \cup {price}
      /\ new[side][price] = queue
      /\ \A p \in DOMAIN lv[side] : p # price => new[side][p] = lv[side][p]
      /\ \A s \in Sides : s # side => new[s] = lv[s]
  BY SetLevelEffect
<1> HIDE DEF new
<1>2. order \in Resting(new) <=>
        \/ Elsewhere(new, side, price, order)
        \/ \E i \in DOMAIN new[side][price] : new[side][price][i] = order
  BY <1>1, RestingSplit
<1>3. Elsewhere(new, side, price, order) <=> Elsewhere(lv, side, price, order)
  BY <1>1 DEF Elsewhere
<1> QED
  BY <1>1, <1>2, <1>3 DEF new

LEMMA DropLevelResting ==
    ASSUME NEW lv, IsLevels(lv), NEW side \in Sides, NEW price, NEW order
    PROVE  order \in Resting(DropLevel(lv, side, price)) <=>
             Elsewhere(lv, side, price, order)
<1> DEFINE new == DropLevel(lv, side, price)
<1>1. /\ DOMAIN new[side] = DOMAIN lv[side] \ {price}
      /\ \A p \in DOMAIN new[side] : new[side][p] = lv[side][p]
      /\ \A s \in Sides : s # side => new[s] = lv[s]
  BY DropLevelEffect
<1> HIDE DEF new
<1>2. order \in Resting(new) <=> Elsewhere(lv, side, price, order)
  BY <1>1, RestingIsQueued DEF Elsewhere
<1> QED
  BY <1>2 DEF new

\* What is left of a limit order joins the set.
LEMMA SettleResting ==
    ASSUME NEW lv, IsLevels(lv), NEW order \in Orders
    PROVE  Resting(Settle(lv, order)) =
             Resting(lv) \cup (IF order.remaining_qty > 0 /\ ~IsMarket(order)
                               THEN {order} ELSE {})
<1>1. CASE ~(order.remaining_qty > 0 /\ ~IsMarket(order))
  BY <1>1 DEF Settle
<1>2. CASE order.remaining_qty > 0 /\ ~IsMarket(order)
  <2>1. order.side \in Sides /\ order.price \in Prices
    BY <1>2 DEF Orders, IsMarket, Market
  <2> DEFINE queue == IF order.price \in DOMAIN lv[order.side]
                      THEN lv[order.side][order.price] ELSE <<>>
             new   == Append(queue, order)
  <2>2. queue \in Seq(Orders)
    BY <2>1 DEF IsLevels
  <2>3. Settle(lv, order) = SetLevel(lv, order.side, order.price, new)
    BY <1>2 DEF Settle, AddToBook
  <2>4. ASSUME NEW o
        PROVE  o \in Resting(lv) <=>
                 \/ Elsewhere(lv, order.side, order.price, o)
                 \/ \E j \in DOMAIN queue : queue[j] = o
    <3>1. CASE order.price \in DOMAIN lv[order.side]
      BY <2>1, <3>1, RestingSplit
    <3>2. CASE order.price \notin DOMAIN lv[order.side]
      BY <2>1, <3>2, RestingIsQueued DEF Elsewhere
    <3> QED
      BY <3>1, <3>2
  <2> HIDE DEF queue
  <2>5. /\ new \in Seq(Orders)
        /\ \A j \in DOMAIN queue : j \in DOMAIN new /\ new[j] = queue[j]
        /\ Len(queue) + 1 \in DOMAIN new /\ new[Len(queue) + 1] = order
        /\ \A j \in DOMAIN new : \/ new[j] = order
                                 \/ j \in DOMAIN queue /\ new[j] = queue[j]
    BY <2>2
  <2> HIDE DEF new
  <2>6. ASSUME NEW o
        PROVE  o \in Resting(Settle(lv, order)) <=>
                 \/ Elsewhere(lv, order.side, order.price, o)
                 \/ \E j \in DOMAIN new : new[j] = o
    BY <2>1, <2>3, <2>5, SetLevelResting
  <2>7. ASSUME NEW o
        PROVE  (\E j \in DOMAIN new : new[j] = o) <=>
                 (\E j \in DOMAIN queue : queue[j] = o) \/ o = order
    BY <2>5
  <2>8. \A o : o \in Resting(Settle(lv, order)) <=> o \in Resting(lv) \/ o = order
    BY <2>4, <2>6, <2>7
  <2> QED
    BY <1>2, <2>8
<1> QED
  BY <1>1, <1>2

-----------------------------------------------------------------------------
(* Matching an order as a whole.                                           *)

\* The values of the recursion of match_order: h[k] is the state after k
\* turns of the loop, and the loop has ended after n.
Turns(h, n, V, s) ==
    /\ n \in Nat
    /\ h \in [0..n -> V]
    /\ h[0] = s
    /\ \A k \in 1..n : h[k] = IF Matching(h[k - 1].levels, h[k - 1].order)
                             THEN MatchStep(h[k - 1]) ELSE h[k - 1]
    /\ MatchOrder(s) = h[n]

\* The turns that MatchOrder allows for.
Fuel(s) ==
    LET side == Opposite(s.order.side)
    IN  Cardinality(RestingOn(s.levels, side))
          + Cardinality(DOMAIN s.levels[side]) + 1

LEMMA FuelIsNatural ==
    ASSUME NEW s, IsLevels(s.levels), s.order \in Orders
    PROVE  Fuel(s) \in Nat /\ 1 <= Fuel(s)
<1> DEFINE side == Opposite(s.order.side)
           o == s.order
<1>1. side \in Sides
  <2>1. o.side \in Sides
    BY DEF Orders
  <2> HIDE DEF o
  <2>2. Opposite(o.side) \in Sides
    BY <2>1, OppositeSide
  <2> QED
    BY <2>2 DEF o
<1> HIDE DEF side
<1>2. IsFiniteSet(RestingOn(s.levels, side)) /\ IsFiniteSet(DOMAIN s.levels[side])
  BY <1>1, RestingFinite, PricesBounded
<1>3. /\ Cardinality(RestingOn(s.levels, side)) \in Nat
      /\ Cardinality(DOMAIN s.levels[side]) \in Nat
  BY <1>2, FS_CardinalityType
<1> QED
  BY <1>3 DEF Fuel, side

\* What the turns of the loop keep, match_order keeps.
LEMMA MatchOrderTurns ==
    ASSUME NEW V, NEW s \in V, IsLevels(s.levels), s.order \in Orders,
           \A t \in V : Matching(t.levels, t.order) => MatchStep(t) \in V
    PROVE  \E h : Turns(h, Fuel(s), V, s)
<1> DEFINE N == Fuel(s)
           turn(t) == IF Matching(t.levels, t.order) THEN MatchStep(t) ELSE t
           step == [t \in (1..N) \X V |-> turn(t[2])]
<1>1. N \in Nat
  BY FuelIsNatural
<1> HIDE DEF N
<1>2. step \in [(1..N) \X V -> V]
  <2>1. ASSUME NEW t \in (1..N) \X V
        PROVE  turn(t[2]) \in V
    <3>1. t[2] \in V
      OBVIOUS
    <3> QED
      BY <3>1
  <2> HIDE DEF turn
  <2> QED
    BY <2>1
<1>3. N \in Nat /\ s \in V /\ step \in [(1..N) \X V -> V]
  BY <1>1, <1>2
<1>4. PICK h \in [SUBSET (1..N) -> V] :
        /\ Folds(h, N, s, step)
        /\ h[1..0] = s
        /\ \A k \in 1..N : h[1..k] = step[<<k, h[1..(k - 1)]>>]
        /\ \A k \in 0..N : h[1..k] \in V
  <2> HIDE DEF step
  <2> QED
    BY <1>3, FoldFacts
<1> DEFINE Rec(g) == g = [I \in SUBSET (1..N) |->
                            IF I = {} THEN s ELSE turn(g[I \ {Max(I)}])]
<1>5. MatchOrder(s) = (CHOOSE g : Rec(g))[1..N]
  <2>1. MatchOrder(s) =
          (CHOOSE g : g = [I \in SUBSET (DOMAIN [n \in 1..N |-> n]) |->
                            IF I = {} THEN s ELSE turn(g[I \ {Max(I)}])]
          )[DOMAIN [n \in 1..N |-> n]]
    BY DEF MatchOrder, FoldLeft, MapThenFoldSet, N, Fuel
  <2>2. DOMAIN [n \in 1..N |-> n] = 1..N
    OBVIOUS
  <2> HIDE DEF turn
  <2> QED
    BY <2>1, <2>2
<1>6. ASSUME NEW I \in SUBSET (1..N), I # {}, NEW t \in V
      PROVE  step[<<Max(I), t>>] = turn(t)
  <2>1. Max(I) \in 1..N
    BY <1>1, <1>6, LastPosition
  <2> DEFINE p == <<Max(I), t>>
  <2>2. p \in (1..N) \X V /\ p[2] = t
    BY <2>1
  <2> HIDE DEF p, turn
  <2>3. step[p] = turn(p[2])
    BY <2>2
  <2> HIDE DEF step
  <2> QED
    BY <2>2, <2>3 DEF p
<1>7. ASSUME NEW g, Rec(g)
      PROVE  g = h
  <2>1. \A I \in SUBSET (1..N) : I # {} => g[I] = turn(g[I \ {Max(I)}])
    <3> HIDE DEF turn
    <3> QED
      BY <1>7
  <2>2. g = [I \in SUBSET (1..N) |-> g[I]] /\ g[{}] = s
    <3> HIDE DEF turn
    <3>1. {} \in SUBSET (1..N)
      OBVIOUS
    <3> QED
      BY <1>7, <3>1
  <2>3. \A I \in SUBSET (1..N) :
          I # {} /\ g[I \ {Max(I)}] \in V =>
            g[I] = step[<<Max(I), g[I \ {Max(I)}]>>]
    <3> HIDE DEF turn, step, Rec
    <3> QED
      BY <1>6, <2>1
  <2> HIDE DEF turn, step, Rec
  <2>4. Replays(g, h, N, V, s, step)
    BY <1>3, <1>4, <2>2, <2>3 DEF Replays, Follows
  <2> QED
    BY <2>4, FoldUnique
<1>8. Rec(h)
  <2>1. h = [I \in SUBSET (1..N) |->
               IF I = {} THEN s ELSE step[<<Max(I), h[I \ {Max(I)}]>>]]
    BY <1>4 DEF Folds
  <2>2. \A I \in SUBSET (1..N) : I # {} =>
          step[<<Max(I), h[I \ {Max(I)}]>>] = turn(h[I \ {Max(I)}])
    <3> HIDE DEF turn, step
    <3>1. \A I \in SUBSET (1..N) : h[I \ {Max(I)}] \in V
      OBVIOUS
    <3> QED
      BY <1>6, <3>1
  <2> HIDE DEF turn, step
  <2> QED
    BY <2>1, <2>2
<1>9. MatchOrder(s) = h[1..N]
  <2> HIDE DEF Rec
  <2>1. Rec(CHOOSE g : Rec(g))
    BY <1>8
  <2>2. (CHOOSE g : Rec(g)) = h
    BY <1>7, <2>1
  <2> QED
    BY <1>5, <2>2
<1> DEFINE f == [k \in 0..N |-> h[1..k]]
<1>10. f \in [0..N -> V] /\ f[0] = s /\ f[N] = h[1..N]
  BY <1>1, <1>4
<1>11. ASSUME NEW k \in 1..N
       PROVE  f[k] = IF Matching(f[k - 1].levels, f[k - 1].order)
                     THEN MatchStep(f[k - 1]) ELSE f[k - 1]
  <2>1. k - 1 \in 0..N /\ k \in 0..N
    BY <1>1
  <2> DEFINE t == h[1..(k - 1)]
  <2>2. t \in V
    BY <2>1, <1>4
  <2>3. h[1..k] = step[<<k, t>>] /\ f[k] = h[1..k] /\ f[k - 1] = t
    BY <2>1, <1>4
  <2> DEFINE p == <<k, t>>
  <2>4. p \in (1..N) \X V /\ p[2] = t
    BY <2>2
  <2> HIDE DEF p, turn, f, t
  <2>5. step[p] = turn(p[2])
    BY <2>4
  <2>6. f[k] = turn(f[k - 1])
    <3> HIDE DEF step
    <3> QED
      BY <2>3, <2>4, <2>5 DEF p
  <2> QED
    BY <2>6 DEF turn
<1> HIDE DEF f, turn
<1>12. Turns(f, N, V, s)
  BY <1>1, <1>9, <1>10, <1>11 DEF Turns
<1> QED
  BY <1>12 DEF N

LEMMA MatchOrderKeeps ==
    ASSUME NEW V, NEW s \in V, IsLevels(s.levels), s.order \in Orders,
           \A t \in V : Matching(t.levels, t.order) => MatchStep(t) \in V
    PROVE  MatchOrder(s) \in V
<1>1. PICK h : Turns(h, Fuel(s), V, s)
  BY MatchOrderTurns
<1>2. Fuel(s) \in 0..Fuel(s)
  BY <1>1 DEF Turns
<1> QED
  BY <1>1, <1>2 DEF Turns

\* The books there are, and what match_order works on, as sets.
AllLevels == [Sides -> UNION {[D -> Seq(Orders)] : D \in SUBSET Prices}]

MatchStates == [levels : AllLevels, order : Orders, outputs : Seq(Acks \cup Trades)]

LEMMA AllLevelsTyped ==
    ASSUME NEW lv
    PROVE  lv \in AllLevels <=> IsLevels(lv)
<1>1. ASSUME IsLevels(lv)
      PROVE  lv \in AllLevels
  <2>1. \A side \in Sides : lv[side] \in UNION {[D -> Seq(Orders)] : D \in SUBSET Prices}
    BY <1>1 DEF IsLevels
  <2>2. lv = [side \in Sides |-> lv[side]]
    BY <1>1 DEF IsLevels
  <2> HIDE DEF IsLevels
  <2> QED
    BY <2>1, <2>2 DEF AllLevels
<1>2. ASSUME lv \in AllLevels
      PROVE  IsLevels(lv)
  <2>1. ASSUME NEW side \in Sides
        PROVE  DOMAIN lv[side] \subseteq Prices
               /\ lv[side] \in [DOMAIN lv[side] -> Seq(Orders)]
    <3>1. PICK D \in SUBSET Prices : lv[side] \in [D -> Seq(Orders)]
      BY <1>2 DEF AllLevels
    <3> QED
      BY <3>1
  <2>2. lv = [side \in Sides |-> lv[side]]
    BY <1>2 DEF AllLevels
  <2> QED
    BY <2>1, <2>2 DEF IsLevels
<1> QED
  BY <1>1, <1>2

\* What a turn of the loop does to the book: the front order of the best
\* level of the other side has traded, or the level had no order at all.
Traded(lv, new, side, price, queue, front) ==
    /\ price \in DOMAIN lv[side] /\ price \in Prices
    /\ queue \in Seq(Orders) /\ queue = lv[side][price] /\ queue # <<>>
    /\ queue[1] \in Orders /\ front \in Orders
    /\ front.key = queue[1].key /\ front.arrival = queue[1].arrival
    /\ front.side = queue[1].side /\ front.price = queue[1].price
    /\ front.remaining_qty <= queue[1].remaining_qty
    /\ \/ /\ front.remaining_qty # 0
          /\ new = SetLevel(lv, side, price, [queue EXCEPT ![1] = front])
       \/ /\ front.remaining_qty = 0 /\ Tail(queue) # <<>>
          /\ new = SetLevel(lv, side, price, Tail(queue))
       \/ /\ front.remaining_qty = 0 /\ Tail(queue) = <<>>
          /\ new = DropLevel(lv, side, price)

LEMMA MatchStepEffect ==
    ASSUME NEW t \in MatchStates, Matching(t.levels, t.order)
    PROVE  LET side  == Opposite(t.order.side)
               price == BestPrice(t.levels, side)
               queue == t.levels[side][price]
               qty   == TradeQuantity(t.order, queue[1])
           IN  /\ IsLevels(t.levels) /\ side \in Sides /\ price \in DOMAIN t.levels[side]
               /\ MatchStep(t) \in MatchStates
               /\ \/ /\ queue = <<>>
                     /\ MatchStep(t).levels = DropLevel(t.levels, side, price)
                     /\ MatchStep(t).order = t.order
                     /\ MatchStep(t).outputs = t.outputs
                  \/ /\ Traded(t.levels, MatchStep(t).levels, side, price, queue,
                               Fill(queue[1], qty))
                     /\ MatchStep(t).order = Fill(t.order, qty)
                     /\ MatchStep(t).outputs =
                          Append(t.outputs, TradeOutput(t.order, queue[1], price, qty))
                     /\ TradeOutput(t.order, queue[1], price, qty) \in Trades
                     /\ qty \in Nat
<1> DEFINE lv    == t.levels
           order == t.order
           side  == Opposite(order.side)
           price == BestPrice(lv, side)
           queue == lv[side][price]
           qty   == TradeQuantity(order, queue[1])
           front == Fill(queue[1], qty)
           left  == Fill(order, qty)
           trade == TradeOutput(order, queue[1], price, qty)
           M     == Acks \cup Trades
           next  == MatchStep(t)
<1>1. /\ lv \in AllLevels /\ IsLevels(lv) /\ order \in Orders
      /\ t.outputs \in Seq(M)
      /\ t = [levels |-> lv, order |-> order, outputs |-> t.outputs]
  <2>1. lv \in AllLevels /\ order \in Orders /\ t.outputs \in Seq(M)
        /\ t = [levels |-> lv, order |-> order, outputs |-> t.outputs]
    BY DEF MatchStates
  <2> QED
    BY <2>1, AllLevelsTyped
<1>2. order.side \in Sides /\ side \in Sides
  <2>1. order.side \in Sides
    BY <1>1 DEF Orders
  <2> HIDE DEF order
  <2> QED
    BY <2>1, OppositeSide
<1>3. DOMAIN lv[side] # {}
  BY DEF Matching
<1>4. price \in DOMAIN lv[side] /\ price \in Prices
  <2> HIDE DEF lv, side
  <2> QED
    BY <1>1, <1>2, <1>3, BestPriceIsBest
<1>5. queue \in Seq(Orders)
  BY <1>1, <1>2, <1>4 DEF IsLevels
<1>6. next = IF queue = <<>>
             THEN [levels |-> DropLevel(lv, side, price), order |-> order,
                   outputs |-> t.outputs]
             ELSE [levels |-> TakeFromFront(lv, side, TradeQuantity(order, Head(queue))),
                   order |-> Fill(order, TradeQuantity(order, Head(queue))),
                   outputs |-> Append(t.outputs,
                      TradeOutput(order, Head(queue), price,
                                  TradeQuantity(order, Head(queue))))]
  BY <1>1 DEF MatchStep
<1> HIDE DEF lv, order, side, price, queue, next
<1>7. CASE queue = <<>>
  <2>1. IsLevels(DropLevel(lv, side, price))
    BY <1>1, <1>2, DropLevelEffect
  <2>2. DropLevel(lv, side, price) \in AllLevels
    BY <2>1, AllLevelsTyped
  <2>3. next = [levels |-> DropLevel(lv, side, price), order |-> order,
                outputs |-> t.outputs]
    BY <1>6, <1>7
  <2>4. next \in MatchStates
    BY <1>1, <2>2, <2>3 DEF MatchStates
  <2> QED
    BY <1>1, <1>2, <1>4, <1>7, <2>3, <2>4 DEF next, lv, order, side, price, queue
<1>8. CASE queue # <<>>
  <2>1. Head(queue) = queue[1] /\ queue[1] \in Orders
    BY <1>5, <1>8
  <2>2. /\ qty \in 0..(U32 - 1)
        /\ order.remaining_qty - qty \in 0..(U32 - 1)
        /\ queue[1].remaining_qty - qty \in 0..(U32 - 1)
    BY <1>1, <2>1, TradeQuantityBound
  <2>3. qty \in Nat
    BY <2>2, BookAssumption
  <2> DEFINE first == queue[1]
  <2> HIDE DEF qty, first
  <2>4. /\ front \in Orders
        /\ front.remaining_qty = first.remaining_qty - qty
        /\ front.key = first.key /\ front.arrival = first.arrival
        /\ front.side = first.side /\ front.price = first.price
    BY <2>1, <2>2, <2>3, FillEffect DEF first
  <2>5. left \in Orders
    BY <1>1, <2>2, <2>3, FillEffect
  <2>6. trade \in Trades
    BY <1>1, <1>4, <2>1, <2>2 DEF TradeOutput, Trades, Orders
  <2>7. front.remaining_qty <= first.remaining_qty
    <3>1. first.remaining_qty \in Nat
      BY <2>1, BookAssumption DEF Orders, first
    <3> QED
      BY <2>3, <2>4, <3>1
  <2>8. next = [levels |-> TakeFromFront(lv, side, qty), order |-> left,
                outputs |-> Append(t.outputs, trade)]
    BY <1>6, <1>8, <2>1 DEF qty
  <2>9. \/ /\ front.remaining_qty # 0
           /\ TakeFromFront(lv, side, qty) =
                SetLevel(lv, side, price, [queue EXCEPT ![1] = front])
        \/ /\ front.remaining_qty = 0 /\ Tail(queue) # <<>>
           /\ TakeFromFront(lv, side, qty) = SetLevel(lv, side, price, Tail(queue))
        \/ /\ front.remaining_qty = 0 /\ Tail(queue) = <<>>
           /\ TakeFromFront(lv, side, qty) = DropLevel(lv, side, price)
    <3>1. front = Fill(Head(queue), qty)
      BY <2>1
    <3> HIDE DEF front
    <3> QED
      BY <3>1, TakeFromFrontEffect DEF price, queue
  <2> HIDE DEF front, left, trade
  <2>10. IsLevels(TakeFromFront(lv, side, qty))
    <3>1. Tail(queue) \in Seq(Orders) /\ [queue EXCEPT ![1] = front] \in Seq(Orders)
      BY <1>5, <1>8, <2>4
    <3>2. \A q \in Seq(Orders) : IsLevels(SetLevel(lv, side, price, q))
      BY <1>1, <1>2, <1>4, SetLevelEffect
    <3>3. IsLevels(DropLevel(lv, side, price))
      BY <1>1, <1>2, DropLevelEffect
    <3> QED
      BY <2>9, <3>1, <3>2, <3>3
  <2>11. TakeFromFront(lv, side, qty) \in AllLevels
    BY <2>10, AllLevelsTyped
  <2>12. Append(t.outputs, trade) \in Seq(M)
    <3>1. trade \in M
      BY <2>6
    <3> HIDE DEF M
    <3> QED
      BY <1>1, <3>1
  <2>13. next \in MatchStates
    BY <2>5, <2>8, <2>11, <2>12 DEF MatchStates
  <2>14. Traded(lv, TakeFromFront(lv, side, qty), side, price, queue, front)
    BY <1>4, <1>5, <1>8, <2>1, <2>4, <2>7, <2>9 DEF Traded, queue, first
  <2>15. /\ Traded(lv, next.levels, side, price, queue, front)
         /\ next.order = left /\ next.outputs = Append(t.outputs, trade)
    BY <2>8, <2>14
  <2> QED
    BY <1>1, <1>2, <1>4, <2>3, <2>6, <2>13, <2>15
       DEF next, lv, order, side, price, queue, front, left, trade, qty
<1> QED
  BY <1>7, <1>8
=============================================================================
