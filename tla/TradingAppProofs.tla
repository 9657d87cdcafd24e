--------------------------- MODULE TradingAppProofs ---------------------------
(***************************************************************************)
(* Theorems about the trading client: what the user sees agrees with the   *)
(* engine, for any number of orders, users and symbols (TradingApp), and   *)
(* the order that is sent is the one that was typed (OrderEntry).          *)
(***************************************************************************)
EXTENDS TradingApp, OrderEntry, MatchingEngineProofs

-----------------------------------------------------------------------------
(* What one message does to one order.                                     *)

Statuses == {"Pending", "Open", "PartiallyFilled", "Filled", "Cancelled"}

\* The statuses of an order that may still trade.
Live == {"Pending", "Open", "PartiallyFilled"}

MyOrders == [side : Sides, price : {DefaultPrice, Market}, quantity : Nat \ {0},
             filled_qty : Nat, status : Statuses]

\* The message is about the order with this key.
Concerns(m, key) == Names(m, key) \/ (m.type = "Ack" /\ m.key = key)

\* What the App can make sense of.
Readable(m) ==
    /\ m.type = "Trade" => m.quantity \in Nat
    /\ m.type = "TopOfBook" =>
         m.side \in Sides /\ (m.eliminated => m.price = 0 /\ m.quantity = 0)

\* No order trades with itself.
TradesOnce(m, key) == ~(m.type = "Trade" /\ m.buy = key /\ m.sell = key)

\* handle_engine_message, for the order with this key.
Handled(order, m, key) ==
    CASE m.type = "Ack" /\ m.key = key       -> [order EXCEPT !.status = "Open"]
      [] m.type = "CancelAck" /\ m.key = key -> [order EXCEPT !.status = "Cancelled"]
      [] m.type = "Trade" /\ key \in {m.buy, m.sell} -> FilledBy(order, m.quantity)
      [] OTHER -> order

\* A message that makes of every order what the other makes of it.
Alike(n, m, key) ==
    /\ Readable(m) => Readable(n)
    /\ TradesOnce(m, key) => TradesOnce(n, key)
    /\ \A order : Handled(order, n, key) = Handled(order, m, key)

\* The messages of q, handled one after the other, lead from one state of the
\* order to another, and by the way its status stays in the set.
Leads(key, order, q, last, statuses) ==
    \E w \in [0..Len(q) -> MyOrders] :
        /\ w[0] = order /\ w[Len(q)] = last
        /\ \A i \in 0..Len(q) : w[i].status \in statuses
        /\ \A i \in 1..Len(q) : /\ TradesOnce(q[i], key)
                                /\ w[i] = Handled(w[i - 1], q[i], key)

\* No message of q is about the key.
Spares(key, q) == \A i \in DOMAIN q : ~Concerns(q[i], key)

\* A sequence of messages the App can make sense of.
IsNews(q) == \E M : q \in Seq(M) /\ \A m \in M : Readable(m)

LEMMA HandledType ==
    ASSUME NEW order \in MyOrders, NEW m, Readable(m), NEW key
    PROVE  /\ Handled(order, m, key) \in MyOrders
           /\ Handled(order, m, key).side = order.side
           /\ Handled(order, m, key).price = order.price
           /\ Handled(order, m, key).quantity = order.quantity
           /\ Handled(order, m, key).filled_qty =
                IF m.type = "Trade" /\ key \in {m.buy, m.sell}
                THEN order.filled_qty + m.quantity ELSE order.filled_qty
<1>1. order.filled_qty \in Nat /\ order.quantity \in Nat
  BY DEF MyOrders
<1>2. CASE m.type = "Ack" /\ m.key = key
  BY <1>2 DEF Handled, MyOrders, Statuses
<1>3. CASE m.type = "CancelAck" /\ m.key = key
  BY <1>3 DEF Handled, MyOrders, Statuses
<1>4. CASE m.type = "Trade" /\ key \in {m.buy, m.sell}
  <2>1. Handled(order, m, key) = FilledBy(order, m.quantity) /\ m.quantity \in Nat
    BY <1>4 DEF Handled, Readable
  <2>2. order.filled_qty + m.quantity \in Nat
    BY <1>1, <2>1
  <2> QED
    BY <1>4, <2>1, <2>2 DEF FilledBy, MyOrders, Statuses
<1>5. CASE ~Concerns(m, key)
  <2>1. Handled(order, m, key) = order
    BY <1>5 DEF Handled, Concerns, Names
  <2> QED
    BY <1>5, <2>1 DEF Concerns, Names
<1> QED
  BY <1>2, <1>3, <1>4, <1>5 DEF Concerns, Names

LEMMA SparedHandled ==
    ASSUME NEW order, NEW m, NEW key, ~Concerns(m, key)
    PROVE  Handled(order, m, key) = order /\ TradesOnce(m, key)
  BY DEF Handled, Concerns, Names, TradesOnce

\* What is not about the key changes nothing of its order.
LEMMA LeadsSpared ==
    ASSUME NEW M, NEW q \in Seq(M), NEW key, Spares(key, q),
           NEW order \in MyOrders, NEW statuses, order.status \in statuses
    PROVE  Leads(key, order, q, order, statuses)
<1> DEFINE w == [i \in 0..Len(q) |-> order]
<1>1. w \in [0..Len(q) -> MyOrders] /\ \A i \in 0..Len(q) : w[i] = order
  OBVIOUS
<1>2. Len(q) \in Nat /\ 0 \in 0..Len(q) /\ Len(q) \in 0..Len(q)
  OBVIOUS
<1>3. ASSUME NEW i \in 1..Len(q)
      PROVE  TradesOnce(q[i], key) /\ w[i] = Handled(w[i - 1], q[i], key)
  <2>1. i \in DOMAIN q /\ i \in 0..Len(q) /\ i - 1 \in 0..Len(q)
    BY <1>2
  <2>2. ~Concerns(q[i], key)
    BY <2>1 DEF Spares
  <2>3. w[i] = order /\ w[i - 1] = order
    BY <1>1, <2>1
  <2> HIDE DEF w
  <2> QED
    BY <2>2, <2>3, SparedHandled
<1> HIDE DEF w
<1> QED
  BY <1>1, <1>2, <1>3 DEF Leads

\* One walk and another that begins where it ends.
LEMMA LeadsConcat ==
    ASSUME NEW M, NEW a \in Seq(M), NEW N, NEW b \in Seq(N), NEW key,
           NEW x, NEW y, NEW z, NEW S, NEW T, S \subseteq T,
           Leads(key, x, a, y, S), Leads(key, y, b, z, T)
    PROVE  Leads(key, x, a \o b, z, T)
<1> DEFINE m == Len(a)
           n == Len(b)
           c == a \o b
<1>1. /\ m \in Nat /\ n \in Nat /\ Len(c) = m + n
      /\ \A i \in 1..(m + n) : c[i] = IF i <= m THEN a[i] ELSE b[i - m]
  <2>1. a \in Seq(M \cup N) /\ b \in Seq(M \cup N)
    OBVIOUS
  <2> QED
    BY <2>1, ConcatProperties
<1>2. PICK u \in [0..m -> MyOrders] :
        /\ u[0] = x /\ u[m] = y
        /\ \A i \in 0..m : u[i].status \in S
        /\ \A i \in 1..m : TradesOnce(a[i], key) /\ u[i] = Handled(u[i - 1], a[i], key)
  BY DEF Leads
<1>3. PICK v \in [0..n -> MyOrders] :
        /\ v[0] = y /\ v[n] = z
        /\ \A i \in 0..n : v[i].status \in T
        /\ \A i \in 1..n : TradesOnce(b[i], key) /\ v[i] = Handled(v[i - 1], b[i], key)
  BY DEF Leads
<1> DEFINE w == [i \in 0..(m + n) |-> IF i <= m THEN u[i] ELSE v[i - m]]
<1> HIDE DEF c, m, n
<1>4. ASSUME NEW i \in 0..(m + n)
      PROVE  w[i] \in MyOrders /\ w[i].status \in T
  <2>1. CASE i <= m
    <3>1. i \in 0..m
      BY <1>1, <2>1
    <3> QED
      BY <1>2, <2>1, <3>1
  <2>2. CASE ~(i <= m)
    <3>1. i - m \in 0..n
      BY <1>1, <2>2
    <3> QED
      BY <1>3, <2>2, <3>1
  <2> QED
    BY <2>1, <2>2
<1>5. w \in [0..(m + n) -> MyOrders] /\ \A i \in 0..(m + n) : w[i].status \in T
  BY <1>4
<1>6. w[0] = x
  <2>1. 0 \in 0..(m + n) /\ 0 <= m
    BY <1>1
  <2> QED
    BY <1>2, <2>1
<1>7. w[m + n] = z
  <2>1. m + n \in 0..(m + n)
    BY <1>1
  <2>2. CASE n = 0
    <3>1. m + n = m /\ m <= m
      BY <1>1, <2>2
    <3> QED
      BY <1>2, <1>3, <2>1, <2>2, <3>1
  <2>3. CASE n # 0
    <3>1. ~(m + n <= m) /\ (m + n) - m = n
      BY <1>1, <2>3
    <3> QED
      BY <1>3, <2>1, <3>1
  <2> QED
    BY <2>2, <2>3
<1>8. ASSUME NEW i \in 1..(m + n)
      PROVE  TradesOnce(c[i], key) /\ w[i] = Handled(w[i - 1], c[i], key)
  <2>1. i \in 0..(m + n) /\ i - 1 \in 0..(m + n)
    BY <1>1
  <2>2. CASE i <= m
    <3>1. i \in 1..m /\ i - 1 <= m
      BY <1>1, <2>2
    <3>2. c[i] = a[i] /\ w[i] = u[i] /\ w[i - 1] = u[i - 1]
      BY <1>1, <2>1, <2>2, <3>1
    <3> HIDE DEF w
    <3> QED
      BY <1>2, <3>1, <3>2
  <2>3. CASE ~(i <= m)
    <3>1. i - m \in 1..n
      BY <1>1, <2>3
    <3>2. c[i] = b[i - m] /\ w[i] = v[i - m]
      BY <1>1, <2>1, <2>3
    <3>3. w[i - 1] = v[(i - m) - 1]
      <4>1. CASE i - 1 <= m
        <5>1. i - 1 = m /\ (i - m) - 1 = 0
          BY <1>1, <2>3, <4>1
        <5> QED
          BY <1>2, <1>3, <2>1, <4>1, <5>1
      <4>2. CASE ~(i - 1 <= m)
        <5>1. (i - 1) - m = (i - m) - 1
          BY <1>1
        <5> QED
          BY <2>1, <4>2, <5>1
      <4> QED
        BY <4>1, <4>2
    <3> HIDE DEF w
    <3> QED
      BY <1>3, <3>1, <3>2, <3>3
  <2> QED
    BY <2>2, <2>3
<1> HIDE DEF w
<1>9. Leads(key, x, c, z, T)
  BY <1>1, <1>5, <1>6, <1>7, <1>8 DEF Leads
<1> QED
  BY <1>9 DEF c

\* A walk of one message.
LEMMA LeadsOne ==
    ASSUME NEW m, Readable(m), NEW key, TradesOnce(m, key), NEW order \in MyOrders,
           NEW statuses, order.status \in statuses,
           Handled(order, m, key).status \in statuses
    PROVE  Leads(key, order, <<m>>, Handled(order, m, key), statuses)
<1> DEFINE last == Handled(order, m, key)
           w    == [i \in 0..1 |-> IF i = 0 THEN order ELSE last]
<1>1. last \in MyOrders
  BY HandledType
<1> HIDE DEF last
<1>2. w \in [0..1 -> MyOrders] /\ w[0] = order /\ w[1] = last
  BY <1>1
<1>3. \A i \in 0..1 : w[i].status \in statuses
  BY <1>2 DEF last
<1>4. \A i \in 1..1 : TradesOnce(m, key) /\ w[i] = Handled(w[i - 1], m, key)
  BY <1>2 DEF last
<1>5. Len(<<m>>) = 1 /\ \A i \in 1..1 : <<m>>[i] = m
  OBVIOUS
<1> HIDE DEF w
<1> QED
  BY <1>2, <1>3, <1>4, <1>5 DEF Leads, last

\* One more message.
LEMMA LeadsAppend ==
    ASSUME NEW M, NEW q \in Seq(M), NEW m, Readable(m), NEW key, TradesOnce(m, key),
           NEW order, NEW last \in MyOrders, NEW S, NEW T, S \subseteq T,
           Leads(key, order, q, last, S), last.status \in T,
           Handled(last, m, key).status \in T
    PROVE  Leads(key, order, Append(q, m), Handled(last, m, key), T)
<1> DEFINE one == <<m>>
           next == Handled(last, m, key)
<1>1. Leads(key, last, one, next, T)
  BY LeadsOne
<1>2. one \in Seq({m}) /\ Append(q, m) = q \o one
  <2>1. q \in Seq(M \cup {m}) /\ m \in M \cup {m} /\ one \in Seq(M \cup {m})
    OBVIOUS
  <2>2. Append(q, m) = q \o <<m>>
    BY <2>1, AppendIsConcat
  <2> QED
    BY <2>2
<1> HIDE DEF one, next
<1>3. Leads(key, order, q \o one, next, T)
  BY <1>1, <1>2, LeadsConcat
<1> QED
  BY <1>2, <1>3 DEF next

\* What is left of a walk once its first message is handled.
LEMMA LeadsTail ==
    ASSUME NEW M, NEW q \in Seq(M), q # <<>>, NEW key, NEW order, NEW last, NEW S,
           Leads(key, order, q, last, S)
    PROVE  /\ TradesOnce(Head(q), key) /\ order.status \in S /\ order \in MyOrders
           /\ Leads(key, Handled(order, Head(q), key), Tail(q), last, S)
<1>1. PICK w \in [0..Len(q) -> MyOrders] :
        /\ w[0] = order /\ w[Len(q)] = last
        /\ \A i \in 0..Len(q) : w[i].status \in S
        /\ \A i \in 1..Len(q) : TradesOnce(q[i], key) /\ w[i] = Handled(w[i - 1], q[i], key)
  BY DEF Leads
<1> DEFINE t == Tail(q)
           n == Len(q)
           v == [i \in 0..(n - 1) |-> w[i + 1]]
<1>2. /\ n \in Nat /\ n >= 1 /\ Len(t) = n - 1 /\ Head(q) = q[1]
      /\ \A i \in 1..(n - 1) : t[i] = q[i + 1]
  OBVIOUS
<1> HIDE DEF t, n
<1>3. /\ TradesOnce(Head(q), key) /\ order.status \in S /\ order \in MyOrders
      /\ w[1] = Handled(order, Head(q), key)
  <2>1. 0 \in 0..n /\ 1 \in 1..n /\ 1 - 1 = 0
    BY <1>2
  <2> QED
    BY <1>1, <1>2, <2>1 DEF n
<1>4. ASSUME NEW i \in 0..(n - 1)
      PROVE  v[i] = w[i + 1] /\ v[i] \in MyOrders /\ v[i].status \in S
  <2>1. i + 1 \in 0..n
    BY <1>2
  <2> QED
    BY <1>1, <2>1 DEF n
<1>5. v \in [0..(n - 1) -> MyOrders]
  BY <1>4
<1>6. v[0] = Handled(order, Head(q), key) /\ v[n - 1] = last
  <2>1. 0 \in 0..(n - 1) /\ 0 + 1 = 1 /\ n - 1 \in 0..(n - 1) /\ (n - 1) + 1 = n
    BY <1>2
  <2> QED
    BY <1>1, <1>3, <1>4, <2>1 DEF n
<1>7. ASSUME NEW i \in 1..(n - 1)
      PROVE  TradesOnce(t[i], key) /\ v[i] = Handled(v[i - 1], t[i], key)
  <2>1. /\ i + 1 \in 1..n /\ (i + 1) - 1 = i /\ i \in 0..(n - 1)
        /\ i - 1 \in 0..(n - 1) /\ (i - 1) + 1 = i
    BY <1>2
  <2>2. v[i] = w[i + 1] /\ v[i - 1] = w[i] /\ t[i] = q[i + 1]
    BY <1>2, <1>4, <2>1
  <2>3. TradesOnce(q[i + 1], key) /\ w[i + 1] = Handled(w[(i + 1) - 1], q[i + 1], key)
    BY <1>1, <2>1 DEF n
  <2> QED
    BY <2>1, <2>2, <2>3
<1> HIDE DEF v
<1>8. Leads(key, Handled(order, Head(q), key), t, last, S)
  BY <1>2, <1>4, <1>5, <1>6, <1>7 DEF Leads
<1> QED
  BY <1>3, <1>8 DEF t

\* Messages that are alike lead the same way.
LEMMA LeadsAlike ==
    ASSUME NEW p, NEW q, Len(p) = Len(q), NEW key,
           \A i \in 1..Len(q) : Alike(p[i], q[i], key),
           NEW order, NEW last, NEW S, Leads(key, order, q, last, S)
    PROVE  Leads(key, order, p, last, S)
<1>1. PICK w \in [0..Len(q) -> MyOrders] :
        /\ w[0] = order /\ w[Len(q)] = last
        /\ \A i \in 0..Len(q) : w[i].status \in S
        /\ \A i \in 1..Len(q) : TradesOnce(q[i], key) /\ w[i] = Handled(w[i - 1], q[i], key)
  BY DEF Leads
<1>2. \A i \in 1..Len(p) : TradesOnce(p[i], key) /\ w[i] = Handled(w[i - 1], p[i], key)
  BY <1>1 DEF Alike
<1> QED
  BY <1>1, <1>2 DEF Leads

\* How much each message of q fills the order with this key.
FillOf(q, key) ==
    [m \in ToSet(q) |-> IF m.type = "Trade" /\ key \in {m.buy, m.sell}
                        THEN m.quantity ELSE 0]

\* A walk adds the fills up and leaves the order's terms alone.
LEMMA LeadsFills ==
    ASSUME NEW q, IsNews(q), NEW key, NEW order, NEW last, NEW S,
           Leads(key, order, q, last, S)
    PROVE  /\ order \in MyOrders /\ last \in MyOrders
           /\ SumBy(FillOf(q, key), q) \in Nat
           /\ last.filled_qty = order.filled_qty + SumBy(FillOf(q, key), q)
           /\ last.quantity = order.quantity /\ last.price = order.price
           /\ q = <<>> => last = order
<1> DEFINE N == Len(q)
           R == ToSet(q)
           weight == FillOf(q, key)
<1>1. /\ q \in Seq(R) /\ N \in Nat /\ \A m \in R : Readable(m)
      /\ \A i \in 1..N : q[i] \in R
  <2>1. PICK M : q \in Seq(M) /\ \A m \in M : Readable(m)
    BY DEF IsNews
  <2> QED
    BY <2>1 DEF ToSet
<1>2. weight \in [R -> Nat] /\ \A m \in R : weight[m] =
        IF m.type = "Trade" /\ key \in {m.buy, m.sell} THEN m.quantity ELSE 0
  BY <1>1 DEF FillOf, Readable
<1> HIDE DEF weight, R
<1>3. PICK f : Sums(f, weight, q)
  BY <1>1, <1>2, SumFacts
<1>4. /\ f \in [0..N -> Nat] /\ f[0] = 0 /\ SumBy(weight, q) = f[N]
      /\ \A i \in 1..N : f[i] = f[i - 1] + weight[q[i]]
  BY <1>3 DEF Sums
<1>5. PICK w \in [0..N -> MyOrders] :
        /\ w[0] = order /\ w[N] = last
        /\ \A i \in 0..N : w[i].status \in S
        /\ \A i \in 1..N : TradesOnce(q[i], key) /\ w[i] = Handled(w[i - 1], q[i], key)
  BY DEF Leads
<1>6. order \in MyOrders /\ last \in MyOrders
  BY <1>1, <1>5
<1> DEFINE T == {i \in 0..N : /\ w[i].filled_qty = order.filled_qty + f[i]
                              /\ w[i].quantity = order.quantity
                              /\ w[i].price = order.price}
<1> HIDE DEF N
<1>7. 0 \in T
  BY <1>1, <1>4, <1>5, <1>6 DEF MyOrders
<1>8. ASSUME NEW i \in 0..(N - 1), i \in T
      PROVE  i + 1 \in T
  <2>1. i + 1 \in 1..N /\ (i + 1) - 1 = i /\ i \in 0..N /\ i + 1 \in 0..N
    BY <1>1
  <2> DEFINE m == q[i + 1]
  <2>2. /\ w[i + 1] = Handled(w[i], m, key) /\ f[i + 1] = f[i] + weight[m]
        /\ m \in R /\ w[i] \in MyOrders
    BY <1>1, <1>4, <1>5, <2>1
  <2>3. Readable(m) /\ weight[m] \in Nat /\ f[i] \in Nat
    BY <1>1, <1>2, <1>4, <2>1, <2>2
  <2> HIDE DEF m
  <2>4. /\ w[i + 1].quantity = w[i].quantity /\ w[i + 1].price = w[i].price
        /\ w[i + 1].filled_qty = w[i].filled_qty + weight[m]
    <3>1. w[i].filled_qty \in Nat
      BY <2>2 DEF MyOrders
    <3>2. weight[m] = IF m.type = "Trade" /\ key \in {m.buy, m.sell} THEN m.quantity ELSE 0
      BY <1>2, <2>2
    <3> QED
      BY <2>2, <2>3, <3>1, <3>2, HandledType
  <2>5. order.filled_qty \in Nat
    BY <1>6 DEF MyOrders
  <2>6. w[i].filled_qty = order.filled_qty + f[i]
        /\ w[i].quantity = order.quantity /\ w[i].price = order.price
    BY <1>8
  <2>7. w[i + 1].filled_qty = order.filled_qty + f[i + 1]
    BY <2>2, <2>3, <2>4, <2>5, <2>6
  <2> QED
    BY <2>1, <2>4, <2>6, <2>7
<1> HIDE DEF T
<1>9. N \in T
  <2>1. 0..N \subseteq T
    BY <1>1, <1>7, <1>8, UpTo
  <2> QED
    BY <1>1, <2>1
<1>10. q = <<>> => last = order
  BY <1>5 DEF N
<1>11. SumBy(weight, q) \in Nat
  BY <1>1, <1>4
<1> QED
  BY <1>4, <1>5, <1>6, <1>9, <1>10, <1>11 DEF T, weight

\* A walk that stays in a set stays in a larger one.
LEMMA LeadsMore ==
    ASSUME NEW key, NEW q, NEW order, NEW last, NEW S, NEW T, S \subseteq T,
           Leads(key, order, q, last, S)
    PROVE  Leads(key, order, q, last, T)
  BY DEF Leads

-----------------------------------------------------------------------------
(* Fills and removals, order by order.                                     *)

\* No order without a rest is queued.
Positive(lv) == \A o \in Resting(lv) : o.remaining_qty > 0

\* A trade replaces the front order by what is left of it, if anything is.
LEMMA TradedResting ==
    ASSUME NEW lv, IsLevels(lv), NEW new, NEW side \in Sides, NEW price, NEW queue,
           NEW front, Traded(lv, new, side, price, queue, front)
    PROVE  /\ queue[1] \in Resting(lv)
           /\ \A o \in Resting(new) :
                o \in Resting(lv) \/ (o = front /\ front.remaining_qty # 0)
           /\ \A o \in Resting(lv) : o.key # queue[1].key => o \in Resting(new)
           /\ front.remaining_qty # 0 => front \in Resting(new)
           /\ KeyOnce(lv, queue[1].key) =>
                \A o \in Resting(new) :
                   o.key = queue[1].key => o = front /\ front.remaining_qty # 0
<1>1. /\ price \in DOMAIN lv[side] /\ price \in Prices
      /\ queue \in Seq(Orders) /\ queue = lv[side][price] /\ queue # <<>>
      /\ front \in Orders /\ front.key = queue[1].key
      /\ 1 \in DOMAIN queue
  BY DEF Traded
<1>2. \/ front.remaining_qty # 0 /\ new = SetLevel(lv, side, price, [queue EXCEPT ![1] = front])
      \/ front.remaining_qty = 0 /\ new = SetLevel(lv, side, price, Tail(queue))
      \/ /\ front.remaining_qty = 0
         /\ Tail(queue) = <<>> /\ new = DropLevel(lv, side, price)
  BY DEF Traded
<1>3. \A o : o \in Resting(lv) <=>
               Elsewhere(lv, side, price, o) \/ \E i \in DOMAIN queue : queue[i] = o
  BY <1>1, RestingSplit
<1>4. queue[1] \in Resting(lv)
  BY <1>1, <1>3
<1> DEFINE once == KeyOnce(lv, queue[1].key)
<1>5. ASSUME once, NEW o, o.key = queue[1].key, Elsewhere(lv, side, price, o)
      PROVE  FALSE
  <2>1. PICK s \in Sides : \E p \in DOMAIN lv[s] :
           ~(s = side /\ p = price) /\ \E j \in DOMAIN lv[s][p] : lv[s][p][j] = o
    BY <1>5 DEF Elsewhere
  <2>2. PICK p \in DOMAIN lv[s] :
           ~(s = side /\ p = price) /\ \E j \in DOMAIN lv[s][p] : lv[s][p][j] = o
    BY <2>1
  <2>3. PICK j \in DOMAIN lv[s][p] : lv[s][p][j] = o
    BY <2>2
  <2> QED
    BY <1>1, <1>5, <2>2, <2>3 DEF KeyOnce
<1>6. ASSUME once, NEW i \in DOMAIN queue, queue[i].key = queue[1].key
      PROVE  i = 1
  BY <1>1, <1>6 DEF KeyOnce
<1> HIDE DEF once
<1>7. CASE /\ front.remaining_qty # 0
           /\ new = SetLevel(lv, side, price, [queue EXCEPT ![1] = front])
  <2> DEFINE q == [queue EXCEPT ![1] = front]
  <2>1. /\ q \in Seq(Orders) /\ DOMAIN q = DOMAIN queue
        /\ \A i \in DOMAIN q : q[i] = IF i = 1 THEN front ELSE queue[i]
    BY <1>1
  <2>2. new = SetLevel(lv, side, price, q)
    BY <1>7
  <2> HIDE DEF q
  <2>3. \A o : o \in Resting(new) <=>
                 Elsewhere(lv, side, price, o) \/ \E i \in DOMAIN q : q[i] = o
    BY <1>1, <2>1, <2>2, SetLevelResting
  <2>4. \A o \in Resting(new) : o \in Resting(lv) \/ o = front
    BY <1>3, <2>1, <2>3
  <2>5. \A o \in Resting(lv) : o.key # queue[1].key => o \in Resting(new)
    BY <1>3, <2>1, <2>3
  <2>6. front \in Resting(new)
    BY <1>1, <2>1, <2>3
  <2>7. once => \A o \in Resting(new) : o.key = queue[1].key => o = front
    BY <1>5, <1>6, <2>1, <2>3
  <2> QED
    BY <1>4, <1>7, <2>4, <2>5, <2>6, <2>7 DEF once
<1>8. CASE front.remaining_qty = 0 /\ new = SetLevel(lv, side, price, Tail(queue))
  <2> DEFINE q == Tail(queue)
  <2>1. /\ q \in Seq(Orders)
        /\ \A i \in DOMAIN q : i \in Nat /\ i + 1 \in DOMAIN queue /\ i + 1 # 1
                               /\ q[i] = queue[i + 1]
        /\ \A i \in DOMAIN queue : i = 1 \/ (i - 1 \in DOMAIN q /\ q[i - 1] = queue[i])
    BY <1>1
  <2>2. new = SetLevel(lv, side, price, q)
    BY <1>8
  <2> HIDE DEF q
  <2>3. \A o : o \in Resting(new) <=>
                 Elsewhere(lv, side, price, o) \/ \E i \in DOMAIN q : q[i] = o
    BY <1>1, <2>1, <2>2, SetLevelResting
  <2>4. \A o \in Resting(new) : o \in Resting(lv)
    BY <1>3, <2>1, <2>3
  <2>5. \A o \in Resting(lv) : o.key # queue[1].key => o \in Resting(new)
    BY <1>3, <2>1, <2>3
  <2>6. once => \A o \in Resting(new) : o.key # queue[1].key
    BY <1>5, <1>6, <2>1, <2>3
  <2> QED
    BY <1>4, <1>8, <2>4, <2>5, <2>6 DEF once
<1>9. CASE /\ front.remaining_qty = 0
           /\ Tail(queue) = <<>> /\ new = DropLevel(lv, side, price)
  <2>1. DOMAIN queue = {1}
    <3>1. Len(Tail(queue)) = Len(queue) - 1 /\ DOMAIN queue = 1..Len(queue)
          /\ Len(queue) \in Nat
      BY <1>1
    <3> DEFINE rest == Tail(queue)
    <3>2. rest = <<>>
      BY <1>9
    <3>3. Len(rest) = 0
      <4> HIDE DEF rest
      <4> QED
        BY <3>2
    <3> QED
      BY <3>1, <3>3
  <2>2. \A o : o \in Resting(new) <=> Elsewhere(lv, side, price, o)
    BY <1>9, DropLevelResting
  <2>3. \A o \in Resting(lv) : o.key # queue[1].key => o \in Resting(new)
    BY <1>3, <2>1, <2>2
  <2>4. once => \A o \in Resting(new) : o.key # queue[1].key
    BY <1>5, <2>2
  <2> QED
    BY <1>3, <1>4, <1>9, <2>2, <2>3, <2>4 DEF once
<1> QED
  BY <1>2, <1>7, <1>8, <1>9

\* A cancel takes an order of its key and leaves the others.
LEMMA RemovedResting ==
    ASSUME NEW lv, IsLevels(lv), NEW key, InBook(lv, key)
    PROVE  LET new == RemoveOrder(lv, key) IN
           /\ \A o \in Resting(new) : o \in Resting(lv)
           /\ \A o \in Resting(lv) : o.key # key => o \in Resting(new)
<1>1. PICK side \in Sides : \E price \in DOMAIN lv[side] :
        \E i \in 1..Len(lv[side][price]) :
          /\ lv[side][price][i].key = key
          /\ RemoveOrder(lv, key) =
               SetLevel(lv, side, price, RemoveAt(lv[side][price], i))
  BY RemoveOrderEffect
<1>2. PICK price \in DOMAIN lv[side] :
        \E i \in 1..Len(lv[side][price]) :
          /\ lv[side][price][i].key = key
          /\ RemoveOrder(lv, key) =
               SetLevel(lv, side, price, RemoveAt(lv[side][price], i))
  BY <1>1
<1>3. PICK i \in 1..Len(lv[side][price]) :
        /\ lv[side][price][i].key = key
        /\ RemoveOrder(lv, key) =
             SetLevel(lv, side, price, RemoveAt(lv[side][price], i))
  BY <1>2
<1> DEFINE new   == RemoveOrder(lv, key)
           queue == lv[side][price]
           q     == RemoveAt(queue, i)
<1>4. queue \in Seq(Orders) /\ price \in Prices /\ i \in 1..Len(queue)
  BY DEF IsLevels
<1>5. new = SetLevel(lv, side, price, q) /\ queue[i].key = key
  BY <1>3
<1>6. \A o : o \in Resting(lv) <=>
               Elsewhere(lv, side, price, o) \/ \E j \in DOMAIN queue : queue[j] = o
  BY RestingSplit
<1> HIDE DEF queue
<1>7. /\ q \in Seq(Orders) /\ Len(q) = Len(queue) - 1
      /\ \A j \in 1..(Len(queue) - 1) :
           q[j] = IF j < i THEN queue[j] ELSE queue[j + 1]
  BY <1>4, RemoveAtEffect
<1> HIDE DEF q, new
<1>8. \A o : o \in Resting(new) <=>
               Elsewhere(lv, side, price, o) \/ \E j \in DOMAIN q : q[j] = o
  BY <1>4, <1>5, <1>7, SetLevelResting
<1>9. /\ DOMAIN q = 1..(Len(queue) - 1) /\ DOMAIN queue = 1..Len(queue)
      /\ Len(queue) \in Nat
  BY <1>4, <1>7
<1>10. ASSUME NEW j \in DOMAIN q PROVE \E k \in DOMAIN queue : queue[k] = q[j]
  <2>1. j \in DOMAIN queue /\ j + 1 \in DOMAIN queue
    BY <1>9
  <2> QED
    BY <1>7, <1>9, <2>1
<1>11. ASSUME NEW k \in DOMAIN queue, queue[k].key # key
       PROVE  \E j \in DOMAIN q : q[j] = queue[k]
  <2>1. k # i
    BY <1>5, <1>11
  <2>2. CASE k < i
    <3>1. k \in DOMAIN q /\ q[k] = queue[k]
      BY <1>4, <1>7, <1>9, <2>2
    <3> QED
      BY <3>1
  <2>3. CASE ~(k < i)
    <3>1. k - 1 \in 1..(Len(queue) - 1) /\ ~(k - 1 < i) /\ (k - 1) + 1 = k
      BY <1>4, <1>9, <2>1, <2>3
    <3>2. k - 1 \in DOMAIN q /\ q[k - 1] = queue[(k - 1) + 1]
      BY <1>7, <1>9, <3>1
    <3> QED
      BY <3>1, <3>2
  <2> QED
    BY <2>2, <2>3
<1>12. \A o \in Resting(new) : o \in Resting(lv)
  BY <1>6, <1>8, <1>10
<1>13. \A o \in Resting(lv) : o.key # key => o \in Resting(new)
  BY <1>6, <1>8, <1>11
<1> QED
  BY <1>12, <1>13 DEF new

-----------------------------------------------------------------------------
(* Where the engine's order stands and what the App's order shows.         *)

\* So much of the order is still to be traded.
Working(order, left) ==
    /\ order.filled_qty + left = order.quantity
    /\ order.status = IF order.filled_qty = 0 THEN "Open" ELSE "PartiallyFilled"

\* The order is shown as one that does not rest.
Over(order) ==
    /\ order.filled_qty <= order.quantity
    /\ order.status # "Pending"
    /\ order.status \in {"Open", "PartiallyFilled"} => order.price = Market
    /\ order.status = "Open" => order.filled_qty = 0
    /\ order.status = "PartiallyFilled" => order.filled_qty \in 1..(order.quantity - 1)
    /\ order.status = "Filled" => order.filled_qty = order.quantity

\* The order is shown as what the book has of it.
Agrees(order, lv, key) ==
    /\ \A o \in Resting(lv) : o.key = key => Working(order, o.remaining_qty)
    /\ ~KeyRests(lv, key) => Over(order)

\* How an order may be shown, by whether it rests.
Allowed(lv, key) == IF KeyRests(lv, key) THEN Live ELSE Statuses

\* The messages lead from what is shown to what the book has, and on the way
\* a resting order is never shown as over.
Reaches(order, q, lv, key) ==
    \E last \in MyOrders :
        Leads(key, order, q, last, Allowed(lv, key)) /\ Agrees(last, lv, key)

\* A fill of what is still to be traded.
LEMMA FilledWorking ==
    ASSUME NEW order \in MyOrders, NEW left \in Nat, Working(order, left),
           NEW qty \in Nat, qty > 0, qty <= left
    PROVE  LET new == FilledBy(order, qty) IN
           /\ new \in MyOrders /\ new.price = order.price
           /\ left - qty \in Nat
           /\ left - qty # 0 => Working(new, left - qty) /\ new.status \in Live
           /\ left - qty = 0 => new.status = "Filled" /\ new.filled_qty = new.quantity
<1> DEFINE new == FilledBy(order, qty)
<1>1. /\ order.filled_qty \in Nat /\ order.quantity \in Nat
      /\ order.filled_qty + left = order.quantity
  BY DEF MyOrders, Working
<1>2. /\ new.filled_qty = order.filled_qty + qty /\ new.quantity = order.quantity
      /\ new.price = order.price /\ new.side = order.side
      /\ new.status = IF order.filled_qty + qty >= order.quantity
                      THEN "Filled" ELSE "PartiallyFilled"
      /\ new = [new EXCEPT !.status = @]
      /\ DOMAIN new = {"side", "price", "quantity", "filled_qty", "status"}
  BY DEF FilledBy, MyOrders
<1>3. new \in MyOrders
  <2>1. order.filled_qty + qty \in Nat
    BY <1>1
  <2> QED
    BY <2>1 DEF FilledBy, MyOrders, Statuses
<1> HIDE DEF new
<1>4. left - qty \in Nat
  BY <1>1
<1>5. CASE left - qty # 0
  <2>1. order.filled_qty + qty < order.quantity /\ new.filled_qty # 0
        /\ new.filled_qty + (left - qty) = new.quantity
    BY <1>1, <1>2, <1>5
  <2>2. new.status = "PartiallyFilled"
    BY <1>1, <1>2, <2>1
  <2> QED
    BY <1>2, <1>3, <1>4, <1>5, <2>1, <2>2 DEF Working, Live, new
<1>6. CASE left - qty = 0
  <2>1. order.filled_qty + qty = order.quantity
    BY <1>1, <1>6
  <2> QED
    BY <1>1, <1>2, <1>3, <1>4, <1>6, <2>1 DEF new
<1> QED
  BY <1>5, <1>6

\* What is shown of a resting order is one of the statuses allowed.
LEMMA AgreesAllowed ==
    ASSUME NEW lv, NEW key, NEW order \in MyOrders, Agrees(order, lv, key)
    PROVE  order.status \in Allowed(lv, key)
<1>1. order.status \in Statuses
  BY DEF MyOrders
<1>2. CASE KeyRests(lv, key)
  <2>1. PICK o \in Resting(lv) : o.key = key
    BY <1>2 DEF KeyRests
  <2>2. Working(order, o.remaining_qty)
    BY <2>1 DEF Agrees
  <2> QED
    BY <1>2, <2>2 DEF Allowed, Working, Live
<1> QED
  BY <1>1, <1>2 DEF Allowed

\* Messages that are not about a key whose orders stay.
LEMMA ReachesSpared ==
    ASSUME NEW M, NEW q \in Seq(M), NEW lv, NEW new, NEW key, Spares(key, q),
           \A o : o.key = key => (o \in Resting(new) <=> o \in Resting(lv)),
           NEW order \in MyOrders, Agrees(order, lv, key)
    PROVE  Reaches(order, q, new, key)
<1>1. KeyRests(new, key) <=> KeyRests(lv, key)
  BY DEF KeyRests
<1>2. Agrees(order, new, key)
  BY <1>1 DEF Agrees
<1>3. Leads(key, order, q, order, Allowed(new, key))
  BY <1>2, AgreesAllowed, LeadsSpared
<1> QED
  BY <1>2, <1>3 DEF Reaches

\* First these messages, then those.
LEMMA ReachesConcat ==
    ASSUME NEW M, NEW a \in Seq(M), NEW N, NEW b \in Seq(N), NEW lv, NEW new,
           NEW key, KeyRests(new, key) => KeyRests(lv, key),
           \A x \in MyOrders : Agrees(x, lv, key) => Reaches(x, b, new, key),
           NEW order, Reaches(order, a, lv, key)
    PROVE  Reaches(order, a \o b, new, key)
<1>1. PICK mid \in MyOrders :
        Leads(key, order, a, mid, Allowed(lv, key)) /\ Agrees(mid, lv, key)
  BY DEF Reaches
<1>2. PICK last \in MyOrders :
        Leads(key, mid, b, last, Allowed(new, key)) /\ Agrees(last, new, key)
  BY <1>1 DEF Reaches
<1>3. Allowed(lv, key) \subseteq Allowed(new, key)
  BY DEF Allowed, Live, Statuses
<1>4. Leads(key, order, a \o b, last, Allowed(new, key))
  BY <1>1, <1>2, <1>3, LeadsConcat
<1> QED
  BY <1>2, <1>4 DEF Reaches

\* The first message is handled.
LEMMA ReachesTail ==
    ASSUME NEW M, NEW q \in Seq(M), q # <<>>, NEW lv, NEW key, NEW order,
           Reaches(order, q, lv, key)
    PROVE  /\ TradesOnce(Head(q), key) /\ order \in MyOrders
           /\ Reaches(Handled(order, Head(q), key), Tail(q), lv, key)
<1>1. PICK last \in MyOrders :
        Leads(key, order, q, last, Allowed(lv, key)) /\ Agrees(last, lv, key)
  BY DEF Reaches
<1>2. /\ TradesOnce(Head(q), key) /\ order \in MyOrders
      /\ Leads(key, Handled(order, Head(q), key), Tail(q), last, Allowed(lv, key))
  BY <1>1, LeadsTail
<1> QED
  BY <1>1, <1>2 DEF Reaches

-----------------------------------------------------------------------------
(* The loop of match_order.                                                *)

\* What a trade's message says.
LEMMA TradeSays ==
    ASSUME NEW order, NEW passive, NEW price, NEW qty \in Nat, NEW key
    PROVE  LET m == TradeOutput(order, passive, price, qty) IN
           /\ Readable(m)
           /\ key # order.key => TradesOnce(m, key)
           /\ key # passive.key => TradesOnce(m, key)
           /\ Concerns(m, key) <=> key \in {order.key, passive.key}
           /\ Concerns(m, key) =>
                \A mine : Handled(mine, m, key) = FilledBy(mine, qty)
<1> DEFINE m == TradeOutput(order, passive, price, qty)
<1>1. /\ m.type = "Trade" /\ m.quantity = qty
      /\ {m.buy, m.sell} = {order.key, passive.key}
  BY DEF TradeOutput
<1> HIDE DEF m
<1> QED
  BY <1>1 DEF Readable, TradesOnce, Concerns, Names, Handled, m

\* The turns of the loop for another order than the user's.
PassiveTurns(key, mine) ==
    {t \in MatchStates :
        /\ t.order.key # key /\ Positive(t.levels) /\ KeyOnce(t.levels, key)
        /\ Reaches(mine, t.outputs, t.levels, key)}

\* The turn trades qty of the passive order's quantity.
Turned(t, next, passive, qty, price) ==
    LET front == Fill(passive, qty)
        m     == TradeOutput(t.order, passive, price, qty)
    IN  /\ qty > 0 /\ qty <= passive.remaining_qty /\ qty <= t.order.remaining_qty
        /\ passive \in Orders /\ front \in Orders
        /\ front.remaining_qty = passive.remaining_qty - qty
        /\ front.key = passive.key
        /\ \A o \in Resting(next.levels) :
             o \in Resting(t.levels) \/ (o = front /\ front.remaining_qty # 0)
        /\ \A o \in Resting(t.levels) :
             o.key # passive.key => o \in Resting(next.levels)
        /\ front.remaining_qty # 0 => front \in Resting(next.levels)
        /\ KeyOnce(t.levels, passive.key) =>
             \A o \in Resting(next.levels) :
                o.key = passive.key => o = front /\ front.remaining_qty # 0
        /\ next.order = Fill(t.order, qty)
        /\ next.outputs = Append(t.outputs, m) /\ m \in Trades

\* A turn of the loop: what becomes of the book and of its orders.
LEMMA TurnResting ==
    ASSUME NEW t \in MatchStates, Matching(t.levels, t.order), Positive(t.levels)
    PROVE  LET next == MatchStep(t) IN
           /\ next \in MatchStates /\ Thins(next.levels, t.levels)
           /\ \/ /\ Resting(next.levels) = Resting(t.levels)
                 /\ next.order = t.order /\ next.outputs = t.outputs
              \/ \E passive \in Resting(t.levels) : \E qty \in Nat : \E price :
                    Turned(t, next, passive, qty, price)
<1> DEFINE lv    == t.levels
           side  == Opposite(t.order.side)
           price == BestPrice(lv, side)
           queue == lv[side][price]
           qty   == TradeQuantity(t.order, queue[1])
           next  == MatchStep(t)
           passive == queue[1]
           front == Fill(passive, qty)
           m     == TradeOutput(t.order, passive, price, qty)
<1>1. /\ IsLevels(lv) /\ side \in Sides /\ price \in DOMAIN lv[side]
      /\ next \in MatchStates
      /\ \/ /\ queue = <<>> /\ next.levels = DropLevel(lv, side, price)
            /\ next.order = t.order /\ next.outputs = t.outputs
         \/ /\ Traded(lv, next.levels, side, price, queue, front)
            /\ next.order = Fill(t.order, qty)
            /\ next.outputs = Append(t.outputs, m)
            /\ m \in Trades /\ qty \in Nat
  BY MatchStepEffect
<1>2. t.order \in Orders /\ t.order.remaining_qty > 0
  BY DEF MatchStates, Matching
<1> HIDE DEF side, price, next
<1>3. CASE /\ queue = <<>> /\ next.levels = DropLevel(lv, side, price)
           /\ next.order = t.order /\ next.outputs = t.outputs
  <2>1. ASSUME NEW o PROVE o \in Resting(next.levels) <=> o \in Resting(lv)
    <3>1. o \in Resting(next.levels) <=> Elsewhere(lv, side, price, o)
      BY <1>1, <1>3, DropLevelResting
    <3>2. o \in Resting(lv) <=>
             Elsewhere(lv, side, price, o) \/ \E i \in DOMAIN queue : queue[i] = o
      BY <1>1, RestingSplit
    <3>3. DOMAIN queue = {}
      BY <1>3
    <3> QED
      BY <3>1, <3>2, <3>3
  <2>2. Thins(next.levels, lv)
    BY <1>1, <1>3, DropLevelThins
  <2>3. Resting(next.levels) = Resting(lv)
    BY <2>1
  <2> QED
    BY <1>1, <1>3, <2>2, <2>3 DEF next
<1>4. CASE /\ Traded(lv, next.levels, side, price, queue, front)
           /\ next.order = Fill(t.order, qty) /\ next.outputs = Append(t.outputs, m)
           /\ m \in Trades /\ qty \in Nat
  <2>1. passive \in Orders /\ front \in Orders /\ front.key = passive.key
    BY <1>4 DEF Traded
  <2>2. Thins(next.levels, lv)
    BY <1>1, <1>4, TradedThins
  <2>3. /\ passive \in Resting(lv)
        /\ \A o \in Resting(next.levels) :
             o \in Resting(lv) \/ (o = front /\ front.remaining_qty # 0)
        /\ \A o \in Resting(lv) : o.key # passive.key => o \in Resting(next.levels)
        /\ front.remaining_qty # 0 => front \in Resting(next.levels)
        /\ KeyOnce(lv, passive.key) =>
             \A o \in Resting(next.levels) :
                o.key = passive.key => o = front /\ front.remaining_qty # 0
    <3>1. Traded(lv, next.levels, side, price, queue, front)
      BY <1>4
    <3> HIDE DEF lv, queue, front
    <3> QED
      BY <1>1, <3>1, TradedResting
  <2>4. passive.remaining_qty > 0
    BY <2>3 DEF Positive
  <2>5. /\ qty > 0 /\ qty <= passive.remaining_qty /\ qty <= t.order.remaining_qty
    BY <1>2, <2>1, <2>4, TradeQuantityBound
  <2>6. front.remaining_qty = passive.remaining_qty - qty
    BY <1>4, <2>1, <2>5, TradeQuantityBound, FillEffect, <1>2
  <2> HIDE DEF qty, front, m, passive, queue
  <2>7. Turned(t, next, passive, qty, price)
    BY <1>4, <2>1, <2>3, <2>5, <2>6 DEF Turned, front, m
  <2> QED
    BY <1>1, <1>4, <2>2, <2>3, <2>7 DEF next
<1> QED
  BY <1>1, <1>3, <1>4

\* A turn leaves no order without a rest.
LEMMA TurnPositive ==
    ASSUME NEW t \in MatchStates, Matching(t.levels, t.order), Positive(t.levels)
    PROVE  Positive(MatchStep(t).levels)
<1> DEFINE next == MatchStep(t)
<1>1. CASE Resting(next.levels) = Resting(t.levels)
  BY <1>1 DEF Positive
<1>2. CASE \E passive \in Resting(t.levels) : \E qty \in Nat : \E price :
             Turned(t, next, passive, qty, price)
  <2>1. PICK passive \in Resting(t.levels) : \E qty \in Nat : \E price :
               Turned(t, next, passive, qty, price)
    BY <1>2
  <2>2. PICK qty \in Nat : \E price : Turned(t, next, passive, qty, price)
    BY <2>1
  <2>3. PICK price : Turned(t, next, passive, qty, price)
    BY <2>2
  <2> DEFINE front == Fill(passive, qty)
  <2>4. /\ front \in Orders
        /\ \A o \in Resting(next.levels) :
             o \in Resting(t.levels) \/ (o = front /\ front.remaining_qty # 0)
    BY <2>3 DEF Turned
  <2> HIDE DEF front, next
  <2>5. front.remaining_qty # 0 => front.remaining_qty > 0
    <3>1. front.remaining_qty \in Nat
      BY <2>4, BookAssumption DEF Orders
    <3> QED
      BY <3>1
  <2> QED
    BY <2>4, <2>5 DEF Positive, next
<1> QED
  BY <1>1, <1>2, TurnResting

LEMMA PassiveTurn ==
    ASSUME NEW key, NEW mine, NEW t \in PassiveTurns(key, mine),
           Matching(t.levels, t.order)
    PROVE  MatchStep(t) \in PassiveTurns(key, mine)
<1> DEFINE next == MatchStep(t)
           lv   == t.levels
           new  == next.levels
           q    == t.outputs
<1>1. /\ t \in MatchStates /\ t.order.key # key /\ Positive(lv) /\ KeyOnce(lv, key)
      /\ Reaches(mine, q, lv, key)
      /\ q \in Seq(Acks \cup Trades)
  BY DEF PassiveTurns, MatchStates
<1>2. /\ next \in MatchStates /\ Thins(new, lv) /\ Positive(new)
      /\ \/ Resting(new) = Resting(lv) /\ next.order = t.order /\ next.outputs = q
         \/ \E passive \in Resting(lv) : \E qty \in Nat : \E price :
               Turned(t, next, passive, qty, price)
  BY <1>1, TurnResting, TurnPositive
<1>3. KeyOnce(new, key) /\ (KeyRests(new, key) => KeyRests(lv, key))
  BY <1>1, <1>2 DEF Thins
<1> HIDE DEF next
<1>4. CASE Resting(new) = Resting(lv) /\ next.order = t.order /\ next.outputs = q
  <2>1. Reaches(mine, q, new, key)
    <3> HIDE DEF lv, new
    <3> QED
      BY <1>1, <1>4 DEF Reaches, Agrees, Allowed, KeyRests
  <2> QED
    BY <1>1, <1>2, <1>3, <1>4, <2>1 DEF PassiveTurns, next
<1>5. CASE \E passive \in Resting(lv) : \E qty \in Nat : \E price :
               Turned(t, next, passive, qty, price)
  <2>1. PICK passive \in Resting(lv) : \E qty \in Nat : \E price :
               Turned(t, next, passive, qty, price)
    BY <1>5
  <2>2. PICK qty \in Nat : \E price : Turned(t, next, passive, qty, price)
    BY <2>1
  <2>3. PICK price : Turned(t, next, passive, qty, price)
    BY <2>2
  <2> DEFINE front == Fill(passive, qty)
             m     == TradeOutput(t.order, passive, price, qty)
             one   == <<m>>
  <2>4. /\ qty > 0 /\ qty <= passive.remaining_qty
        /\ passive \in Orders /\ front \in Orders
        /\ front.remaining_qty = passive.remaining_qty - qty
        /\ front.key = passive.key
        /\ \A o \in Resting(new) : o \in Resting(lv) \/ (o = front /\ front.remaining_qty # 0)
        /\ \A o \in Resting(lv) : o.key # passive.key => o \in Resting(new)
        /\ front.remaining_qty # 0 => front \in Resting(new)
        /\ KeyOnce(lv, passive.key) =>
             \A o \in Resting(new) :
                o.key = passive.key => o = front /\ front.remaining_qty # 0
        /\ next.order = Fill(t.order, qty)
        /\ next.outputs = Append(q, m) /\ m \in Trades
    BY <2>3 DEF Turned
  <2>5. next.order.key = t.order.key
    BY <2>4 DEF Fill
  <2>6. /\ Readable(m) /\ TradesOnce(m, key)
        /\ Concerns(m, key) => key = passive.key
        /\ key = passive.key => \A x : Handled(x, m, key) = FilledBy(x, qty)
    BY <1>1, TradeSays
  <2> HIDE DEF front, m, lv, new, q
  <2>7. Append(q, m) = q \o one /\ one \in Seq({m})
    <3>1. m \in Acks \cup Trades
      BY <2>4
    <3>2. Append(q, m) = q \o <<m>>
      BY <1>1, <3>1, AppendIsConcat
    <3> QED
      BY <3>2
  <2>8. ASSUME NEW x \in MyOrders, Agrees(x, lv, key)
        PROVE  Reaches(x, one, new, key)
    <3>1. CASE key # passive.key
      <4>1. Spares(key, one)
        <5>1. one[1] = m /\ DOMAIN one = {1}
          OBVIOUS
        <5> HIDE DEF one
        <5> QED
          BY <2>6, <3>1, <5>1 DEF Spares
      <4>2. \A o : o.key = key => (o \in Resting(new) <=> o \in Resting(lv))
        BY <2>4, <3>1
      <4> HIDE DEF one
      <4> QED
        BY <2>7, <2>8, <4>1, <4>2, ReachesSpared
    <3>2. CASE key = passive.key
      <4> DEFINE left == passive.remaining_qty
                 y    == FilledBy(x, qty)
      <4>1. left \in Nat /\ Working(x, left)
        BY <2>1, <2>4, <2>8, <3>2, BookAssumption DEF Agrees, Orders
      <4>2. y = Handled(x, m, key)
        BY <2>6, <3>2
      <4>3. /\ y \in MyOrders
            /\ left - qty # 0 => Working(y, left - qty)
            /\ left - qty = 0 => y.status = "Filled" /\ y.filled_qty = y.quantity
            /\ left - qty # 0 => y.status \in Live
        BY <2>4, <4>1, FilledWorking
      <4> HIDE DEF left, y
      <4>4. front.remaining_qty = left - qty
        BY <2>4 DEF left
      <4>5. x.status \in Live
        BY <4>1 DEF Working, Live
      <4>6. Agrees(y, new, key) /\ x.status \in Allowed(new, key) /\ y.status \in Allowed(new, key)
        <5>1. \A o \in Resting(new) : o.key = key => o = front /\ front.remaining_qty # 0
          BY <1>1, <2>4, <3>2
        <5>2. CASE left - qty # 0
          <6>1. KeyRests(new, key)
            BY <2>4, <3>2, <4>4, <5>2 DEF KeyRests
          <6> QED
            BY <4>3, <4>4, <4>5, <5>1, <5>2, <6>1 DEF Agrees, Allowed
        <5>3. CASE left - qty = 0
          <6>1. ~KeyRests(new, key)
            BY <4>4, <5>1, <5>3 DEF KeyRests
          <6>2. Over(y)
            <7>1. y.filled_qty \in Nat /\ y.quantity \in Nat
              BY <4>3 DEF MyOrders
            <7> QED
              BY <4>3, <5>3, <7>1 DEF Over
          <6> QED
            BY <4>3, <4>4, <4>5, <5>1, <5>3, <6>1, <6>2
            DEF Agrees, Allowed, Live, Statuses
        <5> QED
          BY <5>2, <5>3
      <4>7. Leads(key, x, one, y, Allowed(new, key))
        BY <2>6, <4>2, <4>6, LeadsOne
      <4> QED
        BY <4>3, <4>6, <4>7 DEF Reaches
    <3> QED
      BY <3>1, <3>2
  <2>9. Reaches(mine, Append(q, m), new, key)
    <3> HIDE DEF one
    <3> QED
      BY <1>1, <1>3, <2>7, <2>8, ReachesConcat DEF lv, new, q
  <2> QED
    BY <1>1, <1>2, <1>3, <2>4, <2>5, <2>9 DEF PassiveTurns, lv, new, q, next
<1> QED
  BY <1>2, <1>4, <1>5

\* The turns of the loop while no order of the key is in the book.
UntouchedTurns(key) ==
    {t \in MatchStates :
        /\ t.order.key # key /\ Positive(t.levels) /\ ~KeyRests(t.levels, key)
        /\ Spares(key, t.outputs)}

LEMMA UntouchedTurn ==
    ASSUME NEW key, NEW t \in UntouchedTurns(key), Matching(t.levels, t.order)
    PROVE  MatchStep(t) \in UntouchedTurns(key)
<1> DEFINE next == MatchStep(t)
           lv   == t.levels
           q    == t.outputs
<1>1. /\ t \in MatchStates /\ t.order.key # key /\ Positive(lv) /\ ~KeyRests(lv, key)
      /\ Spares(key, q) /\ q \in Seq(Acks \cup Trades)
  BY DEF UntouchedTurns, MatchStates
<1>2. /\ next \in MatchStates /\ Thins(next.levels, lv) /\ Positive(next.levels)
      /\ \/ Resting(next.levels) = Resting(lv) /\ next.order = t.order /\ next.outputs = q
         \/ \E passive \in Resting(lv) : \E qty \in Nat : \E price :
               Turned(t, next, passive, qty, price)
  BY <1>1, TurnResting, TurnPositive
<1>3. ~KeyRests(next.levels, key)
  BY <1>1, <1>2 DEF Thins
<1> HIDE DEF next
<1>4. CASE next.order = t.order /\ next.outputs = q
  BY <1>1, <1>2, <1>3, <1>4 DEF UntouchedTurns, next
<1>5. CASE \E passive \in Resting(lv) : \E qty \in Nat : \E price :
               Turned(t, next, passive, qty, price)
  <2>1. PICK passive \in Resting(lv) : \E qty \in Nat : \E price :
               Turned(t, next, passive, qty, price)
    BY <1>5
  <2>2. PICK qty \in Nat : \E price : Turned(t, next, passive, qty, price)
    BY <2>1
  <2>3. PICK price : Turned(t, next, passive, qty, price)
    BY <2>2
  <2> DEFINE m == TradeOutput(t.order, passive, price, qty)
  <2>4. /\ next.order = Fill(t.order, qty)
        /\ next.outputs = Append(q, m) /\ m \in Trades
    BY <2>3 DEF Turned
  <2>5. next.order.key = t.order.key
    BY <2>4 DEF Fill
  <2>6. key # passive.key
    BY <1>1, <2>1 DEF KeyRests
  <2>7. ~Concerns(m, key)
    BY <1>1, <2>6, TradeSays
  <2> HIDE DEF m, q, lv
  <2>8. Spares(key, next.outputs)
    <3>1. \A i \in DOMAIN next.outputs :
             \/ i = Len(q) + 1 /\ next.outputs[i] = m
             \/ i \in DOMAIN q /\ next.outputs[i] = q[i]
      <4>1. m \in Acks \cup Trades
        BY <2>4
      <4> QED
        BY <1>1, <2>4, <4>1
    <3> QED
      BY <1>1, <2>7, <3>1 DEF Spares
  <2> QED
    BY <1>1, <1>2, <1>3, <2>5, <2>8 DEF UntouchedTurns, next
<1> QED
  BY <1>2, <1>4, <1>5

\* The turns of the loop for the user's order: `left` is still to be traded.
ActiveTurns(key, mine) ==
    {t \in MatchStates :
        /\ t.order.key = key /\ t.order.price = mine.price
        /\ Positive(t.levels) /\ ~KeyRests(t.levels, key)
        /\ \E last \in MyOrders :
             /\ Leads(key, mine, t.outputs, last,
                      IF t.order.remaining_qty > 0 THEN Live ELSE Statuses)
             /\ last.price = mine.price
             /\ IF t.order.remaining_qty > 0 THEN Working(last, t.order.remaining_qty)
                ELSE last.status = "Filled" /\ last.filled_qty = last.quantity}

LEMMA ActiveTurn ==
    ASSUME NEW key, NEW mine, NEW t \in ActiveTurns(key, mine),
           Matching(t.levels, t.order)
    PROVE  MatchStep(t) \in ActiveTurns(key, mine)
<1> DEFINE next == MatchStep(t)
           lv   == t.levels
           q    == t.outputs
           left == t.order.remaining_qty
<1>1. /\ t \in MatchStates /\ t.order.key = key /\ t.order.price = mine.price
      /\ Positive(lv) /\ ~KeyRests(lv, key) /\ q \in Seq(Acks \cup Trades)
      /\ t.order \in Orders /\ left > 0
  BY DEF ActiveTurns, MatchStates, Matching
<1>2. PICK last \in MyOrders :
        /\ Leads(key, mine, q, last, Live) /\ last.price = mine.price
        /\ Working(last, left)
  BY <1>1 DEF ActiveTurns
<1>3. /\ next \in MatchStates /\ Thins(next.levels, lv) /\ Positive(next.levels)
      /\ \/ Resting(next.levels) = Resting(lv) /\ next.order = t.order /\ next.outputs = q
         \/ \E passive \in Resting(lv) : \E qty \in Nat : \E price :
               Turned(t, next, passive, qty, price)
  BY <1>1, TurnResting, TurnPositive
<1>4. ~KeyRests(next.levels, key)
  BY <1>1, <1>3 DEF Thins
<1> HIDE DEF next
<1>5. CASE next.order = t.order /\ next.outputs = q
  BY <1>1, <1>2, <1>3, <1>4, <1>5 DEF ActiveTurns, next
<1>6. CASE \E passive \in Resting(lv) : \E qty \in Nat : \E price :
               Turned(t, next, passive, qty, price)
  <2>1. PICK passive \in Resting(lv) : \E qty \in Nat : \E price :
               Turned(t, next, passive, qty, price)
    BY <1>6
  <2>2. PICK qty \in Nat : \E price : Turned(t, next, passive, qty, price)
    BY <2>1
  <2>3. PICK price : Turned(t, next, passive, qty, price)
    BY <2>2
  <2> DEFINE m == TradeOutput(t.order, passive, price, qty)
             y == FilledBy(last, qty)
             S == IF next.order.remaining_qty > 0 THEN Live ELSE Statuses
  <2>4. /\ next.order = Fill(t.order, qty) /\ qty > 0 /\ qty <= left
        /\ next.outputs = Append(q, m) /\ m \in Trades
    BY <2>3 DEF Turned
  <2>5. /\ left \in Nat /\ left - qty \in 0..(U32 - 1)
    BY <1>1, <2>4, BookAssumption DEF Orders
  <2>6. /\ next.order.key = key /\ next.order.price = mine.price
        /\ next.order.remaining_qty = left - qty
    BY <1>1, <2>4, <2>5, FillEffect
  <2>7. key # passive.key
    BY <1>1, <2>1 DEF KeyRests
  <2>8. Readable(m) /\ TradesOnce(m, key) /\ Handled(last, m, key) = y
    <3>1. /\ Readable(m) /\ (key # passive.key => TradesOnce(m, key))
          /\ Concerns(m, key) <=> key \in {t.order.key, passive.key}
          /\ Concerns(m, key) => \A x : Handled(x, m, key) = FilledBy(x, qty)
      BY TradeSays
    <3> HIDE DEF m
    <3> QED
      BY <1>1, <2>7, <3>1
  <2>9. /\ y \in MyOrders /\ y.price = last.price
        /\ left - qty # 0 => Working(y, left - qty) /\ y.status \in Live
        /\ left - qty = 0 => y.status = "Filled" /\ y.filled_qty = y.quantity
    BY <1>2, <2>4, <2>5, FilledWorking
  <2> HIDE DEF m, y, q, left
  <2>10. /\ left - qty > 0 <=> left - qty # 0
         /\ left - qty \in Nat
    BY <2>4, <2>5
  <2>11. y.status \in S /\ last.status \in S /\ Live \subseteq S
    BY <1>2, <2>6, <2>9, <2>10 DEF Live, Statuses, MyOrders, Working
  <2>12. Leads(key, mine, next.outputs, y, S)
    <3>1. m \in Acks \cup Trades
      BY <2>4
    <3> HIDE DEF S
    <3>2. Leads(key, mine, Append(q, m), Handled(last, m, key), S)
      BY <1>1, <1>2, <2>8, <2>11, <3>1, LeadsAppend
    <3> QED
      BY <2>4, <2>8, <3>2
  <2> QED
    BY <1>2, <1>3, <1>4, <2>6, <2>9, <2>10, <2>12 DEF ActiveTurns, next
<1> QED
  BY <1>3, <1>5, <1>6

-----------------------------------------------------------------------------
(* What a call of the book tells the App.                                  *)

\* What a book returns.
Sendable(m) == m \in Silent \/ \E side \in Sides : \E best : m = TopEvent(side, best)

AllSendable(q) == \E M : q \in Seq(M) /\ \A m \in M : Sendable(m)

\* The symbol that is put on a message changes nothing for the orders.
LEMMA SendableFacts ==
    ASSUME NEW m, Sendable(m), NEW symbol
    PROVE  /\ Readable(m) /\ Readable(Put(m, "symbol", symbol))
           /\ Put(m, "symbol", symbol).symbol = symbol
           /\ \A key : /\ Alike(Put(m, "symbol", symbol), m, key)
                       /\ Concerns(Put(m, "symbol", symbol), key) <=> Concerns(m, key)
           /\ m.type = "TopOfBook" => \A key : ~Concerns(m, key)
<1> DEFINE n == Put(m, "symbol", symbol)
<1>1. CASE m \in Acks
  <2>1. /\ m.type = "Ack" /\ n.type = "Ack" /\ n.key = m.key /\ n.symbol = symbol
    BY <1>1 DEF Acks, Put
  <2> HIDE DEF n
  <2> QED
    BY <2>1 DEF Readable, Alike, TradesOnce, Handled, Concerns, Names, n
<1>2. CASE m \in CancelAcks
  <2>1. /\ m.type = "CancelAck" /\ n.type = "CancelAck" /\ n.key = m.key
        /\ n.symbol = symbol
    BY <1>2 DEF CancelAcks, CancelAckOutput, Put
  <2> HIDE DEF n
  <2> QED
    BY <2>1 DEF Readable, Alike, TradesOnce, Handled, Concerns, Names, n
<1>3. CASE m \in Trades
  <2>1. /\ m.type = "Trade" /\ n.type = "Trade" /\ n.buy = m.buy /\ n.sell = m.sell
        /\ n.quantity = m.quantity /\ m.quantity \in Nat /\ n.symbol = symbol
    BY <1>3, BookAssumption DEF Trades, Put
  <2> HIDE DEF n
  <2> QED
    BY <2>1 DEF Readable, Alike, TradesOnce, Handled, Concerns, Names, n
<1>4. CASE \E side \in Sides : \E best : m = TopEvent(side, best)
  <2>1. PICK side \in Sides : \E best : m = TopEvent(side, best)
    BY <1>4
  <2>2. PICK best : m = TopEvent(side, best)
    BY <2>1
  <2>3. /\ m.type = "TopOfBook" /\ m.side \in Sides
        /\ m.eliminated => m.price = 0 /\ m.quantity = 0
        /\ {"type", "side", "price", "quantity", "eliminated"} = DOMAIN m
    BY <2>2 DEF TopEvent, Eliminated, TopOfBook
  <2>4. /\ n.type = m.type /\ n.side = m.side /\ n.price = m.price
        /\ n.quantity = m.quantity /\ n.eliminated = m.eliminated /\ n.symbol = symbol
    BY <2>3 DEF Put
  <2> HIDE DEF n
  <2> QED
    BY <2>3, <2>4 DEF Readable, Alike, TradesOnce, Handled, Concerns, Names, n
<1>5. m \in Silent => m.type # "TopOfBook"
  BY SilentMessages
<1> QED
  BY <1>1, <1>2, <1>3, <1>4, <1>5 DEF Sendable, Silent

\* The changes of the top are about no order.
LEMMA TopEventsSpare ==
    ASSUME NEW prev, NEW top, NEW key
    PROVE  AllSendable(TopEvents(prev, top)) /\ Spares(key, TopEvents(prev, top))
<1> DEFINE M == {TopEvent(side, top[side]) : side \in Sides}
           q == TopEvents(prev, top)
<1>1. q \in Seq(M)
  BY TopEventsFacts
<1>2. ASSUME NEW m \in M
      PROVE  Sendable(m) /\ ~Concerns(m, key)
  <2>1. PICK side \in Sides : m = TopEvent(side, top[side])
    BY <1>2
  <2>2. Sendable(m) /\ m.type = "TopOfBook"
    BY <2>1 DEF Sendable, TopEvent, Eliminated, TopOfBook
  <2> QED
    BY <2>2, SendableFacts
<1> HIDE DEF M, q
<1>3. \A i \in DOMAIN q : q[i] \in M
  BY <1>1
<1> QED
  BY <1>1, <1>2, <1>3 DEF AllSendable, Spares, q

\* A call's messages and then the changes of the top.
LEMMA CheckedTells ==
    ASSUME NEW book, NEW new, NEW messages \in Seq(Silent), NEW key
    PROVE  LET q == Checked(book, new, messages).outputs IN
           /\ AllSendable(q)
           /\ Spares(key, messages) => Spares(key, q)
           /\ \A mine : Reaches(mine, messages, new, key) => Reaches(mine, q, new, key)
<1> DEFINE tops == TopEvents(book.prev, Snapshot(new))
           q    == messages \o tops
<1>1. Checked(book, new, messages).outputs = q
  BY DEF Checked
<1>2. AllSendable(tops) /\ Spares(key, tops)
  BY TopEventsSpare
<1>3. PICK M : tops \in Seq(M) /\ \A m \in M : Sendable(m)
  BY <1>2 DEF AllSendable
<1> HIDE DEF tops
<1>4. AllSendable(q)
  <2>1. q \in Seq(Silent \cup M)
    BY <1>3
  <2>2. \A m \in Silent \cup M : Sendable(m)
    BY <1>3 DEF Sendable
  <2> HIDE DEF q
  <2> QED
    BY <2>1, <2>2 DEF AllSendable
<1>5. ASSUME Spares(key, messages)
      PROVE  Spares(key, q)
  <2>1. \A i \in DOMAIN q : \/ i \in DOMAIN messages /\ q[i] = messages[i]
                            \/ i - Len(messages) \in DOMAIN tops
                               /\ q[i] = tops[i - Len(messages)]
    <3>1. messages \in Seq(Silent \cup M) /\ tops \in Seq(Silent \cup M)
      BY <1>3
    <3>2. /\ Len(q) = Len(messages) + Len(tops) /\ DOMAIN q = 1..Len(q)
          /\ \A i \in 1..(Len(messages) + Len(tops)) :
                q[i] = IF i <= Len(messages) THEN messages[i] ELSE tops[i - Len(messages)]
      BY <3>1, ConcatProperties
    <3>3. /\ DOMAIN messages = 1..Len(messages) /\ DOMAIN tops = 1..Len(tops)
          /\ Len(messages) \in Nat /\ Len(tops) \in Nat
      BY <3>1
    <3> HIDE DEF q
    <3> QED
      BY <3>2, <3>3
  <2> HIDE DEF q
  <2> QED
    BY <1>2, <1>5, <2>1 DEF Spares
<1>6. ASSUME NEW mine, Reaches(mine, messages, new, key)
      PROVE  Reaches(mine, q, new, key)
  <2>1. \A x \in MyOrders : Agrees(x, new, key) => Reaches(x, tops, new, key)
    BY <1>2, <1>3, ReachesSpared
  <2> QED
    BY <1>3, <1>6, <2>1, ReachesConcat
<1> QED
  BY <1>1, <1>4, <1>5, <1>6

\* add_order tells all that becomes of the orders with a key that was in the
\* book once, or not at all.
LEMMA AddedTells ==
    ASSUME NEW book, IsLevels(book.levels), Positive(book.levels),
           NEW order \in Orders, NEW key
    PROVE  LET q   == Added(book, order).outputs
               new == Added(book, order).book.levels
           IN  /\ AllSendable(q) /\ Positive(new)
               /\ key # order.key /\ ~KeyRests(book.levels, key) =>
                    Spares(key, q) /\ ~KeyRests(new, key)
               /\ key # order.key /\ KeyOnce(book.levels, key) =>
                    \A mine \in MyOrders :
                       Agrees(mine, book.levels, key) => Reaches(mine, q, new, key)
               /\ key = order.key /\ ~KeyRests(book.levels, key) =>
                    \A mine \in MyOrders :
                       /\ mine.price = order.price /\ mine.status \in Live
                       /\ mine.filled_qty = 0 /\ mine.quantity = order.remaining_qty
                       => Reaches(mine, q, new, key)
<1> DEFINE lv    == book.levels
           ack   == AckOutput(order.key)
           start == [levels |-> lv, order |-> order, outputs |-> <<ack>>]
           done  == MatchOrder(start)
           left  == done.order
           out   == done.outputs
           new   == Settle(done.levels, left)
<1>1. /\ Added(book, order) = Checked(book, new, out)
      /\ Checked(book, new, out).book.levels = new
  BY DEF Added, Checked
<1>2. /\ start \in MatchStates /\ start.levels = lv /\ start.order = order
      /\ start.outputs = <<ack>> /\ Sendable(ack) /\ ack.type = "Ack" /\ ack.key = order.key
  <2>1. lv \in AllLevels
    BY AllLevelsTyped
  <2>2. ack \in Acks /\ ack.type = "Ack" /\ ack.key = order.key
    BY DEF AckOutput, Acks, Orders
  <2>3. <<ack>> \in Seq(Acks \cup Trades)
    <3>1. ack \in Acks \cup Trades
      BY <2>2
    <3> HIDE DEF ack
    <3> QED
      BY <3>1
  <2> QED
    BY <2>1, <2>2, <2>3 DEF MatchStates, Sendable, Silent
<1>3. \A V : start \in V /\ (\A t \in V : Matching(t.levels, t.order) => MatchStep(t) \in V)
               => done \in V
  BY <1>2, MatchOrderKeeps
<1> DEFINE q == Checked(book, new, out).outputs
<1> HIDE DEF ack, start, done
<1> DEFINE V == {t \in MatchStates : Positive(t.levels)}
<1>4. done \in MatchStates /\ Positive(done.levels)
  <2>1. \A t \in V : Matching(t.levels, t.order) => MatchStep(t) \in V
    BY TurnPositive, TurnResting
  <2>2. start \in V
    BY <1>2
  <2> HIDE DEF V
  <2>3. done \in V
    BY <1>3, <2>1, <2>2
  <2> QED
    BY <2>3 DEF V
<1> HIDE DEF V
<1>5. /\ IsLevels(done.levels) /\ left \in Orders /\ out \in Seq(Silent)
      /\ left.remaining_qty \in Nat
  BY <1>4, AllLevelsTyped, BookAssumption DEF MatchStates, Silent, Orders
<1>6. Resting(new) = Resting(done.levels) \cup
        (IF left.remaining_qty > 0 /\ ~IsMarket(left) THEN {left} ELSE {})
  BY <1>5, SettleResting
<1> HIDE DEF new, left, out
<1>7. Positive(new)
  BY <1>4, <1>6 DEF Positive
<1>8. /\ AllSendable(q)
      /\ Spares(key, out) => Spares(key, q)
      /\ \A mine : Reaches(mine, out, new, key) => Reaches(mine, q, new, key)
  BY <1>5, CheckedTells
<1> HIDE DEF q
<1>9. ASSUME key # order.key, ~KeyRests(lv, key)
      PROVE  Spares(key, q) /\ ~KeyRests(new, key)
  <2> DEFINE W == UntouchedTurns(key)
  <2>1. start \in W
    <3>1. Spares(key, <<ack>>)
      <4> DEFINE one == <<ack>>
      <4>1. DOMAIN one = {1} /\ one[1] = ack
        OBVIOUS
      <4> HIDE DEF one
      <4>2. Spares(key, one)
        BY <1>2, <1>9, <4>1 DEF Spares, Concerns, Names
      <4> QED
        BY <4>2 DEF one
    <3> QED
      BY <1>2, <1>9, <3>1 DEF UntouchedTurns
  <2>2. \A t \in W : Matching(t.levels, t.order) => MatchStep(t) \in W
    BY UntouchedTurn
  <2> HIDE DEF W
  <2>3. done \in W
    BY <1>3, <2>1, <2>2
  <2>4. left.key # key /\ ~KeyRests(done.levels, key) /\ Spares(key, out)
    BY <2>3 DEF W, UntouchedTurns, left, out
  <2> QED
    BY <1>6, <1>8, <2>4 DEF KeyRests
<1>10. ASSUME key # order.key, KeyOnce(lv, key), NEW mine \in MyOrders,
              Agrees(mine, lv, key)
       PROVE  Reaches(mine, q, new, key)
  <2> DEFINE W == PassiveTurns(key, mine)
  <2>1. start \in W
    <3> DEFINE one == <<ack>>
    <3>1. one \in Seq({ack}) /\ DOMAIN one = {1} /\ one[1] = ack
      OBVIOUS
    <3> HIDE DEF one
    <3>2. Spares(key, one)
      BY <1>2, <1>10, <3>1 DEF Spares, Concerns, Names
    <3>3. Reaches(mine, one, lv, key)
      BY <1>10, <3>1, <3>2, ReachesSpared
    <3> QED
      BY <1>2, <1>10, <3>3 DEF PassiveTurns, one
  <2>2. \A t \in W : Matching(t.levels, t.order) => MatchStep(t) \in W
    BY PassiveTurn
  <2> HIDE DEF W
  <2>3. done \in W
    BY <1>3, <2>1, <2>2
  <2>4. left.key # key /\ Reaches(mine, out, done.levels, key)
    BY <2>3 DEF W, PassiveTurns, left, out
  <2>5. \A o : o.key = key => (o \in Resting(new) <=> o \in Resting(done.levels))
    BY <1>6, <2>4
  <2>6. KeyRests(new, key) <=> KeyRests(done.levels, key)
    BY <2>5 DEF KeyRests
  <2>7. Reaches(mine, out, new, key)
    BY <2>4, <2>5, <2>6 DEF Reaches, Agrees, Allowed
  <2> QED
    BY <1>8, <2>7
<1>11. ASSUME key = order.key, ~KeyRests(lv, key), NEW mine \in MyOrders,
              mine.price = order.price, mine.status \in Live,
              mine.filled_qty = 0, mine.quantity = order.remaining_qty
       PROVE  Reaches(mine, q, new, key)
  <2> DEFINE W == ActiveTurns(key, mine)
             y == Handled(mine, ack, key)
             one == <<ack>>
  <2>1. start \in W
    <3>1. /\ y = [mine EXCEPT !.status = "Open"] /\ TradesOnce(ack, key) /\ Readable(ack)
      BY <1>2, <1>11, SendableFacts DEF Handled, TradesOnce
    <3>2. /\ y \in MyOrders /\ y.price = mine.price /\ y.status = "Open"
          /\ y.filled_qty = 0 /\ y.quantity = mine.quantity
      BY <1>11, <3>1 DEF MyOrders, Statuses
    <3>3. mine.quantity \in Nat /\ mine.quantity > 0
      BY DEF MyOrders
    <3>4. Working(y, order.remaining_qty) /\ order.remaining_qty > 0
      BY <1>11, <3>2, <3>3 DEF Working
    <3>5. y.status \in Live
      BY <3>2 DEF Live
    <3> HIDE DEF y
    <3>6. Leads(key, mine, <<ack>>, y, Live)
      BY <1>11, <3>1, <3>5, LeadsOne DEF y
    <3> QED
      BY <1>2, <1>11, <3>2, <3>4, <3>6 DEF ActiveTurns
  <2>2. \A t \in W : Matching(t.levels, t.order) => MatchStep(t) \in W
    BY ActiveTurn
  <2> HIDE DEF W
  <2>3. done \in W
    BY <1>3, <2>1, <2>2
  <2> DEFINE rest == left.remaining_qty
             S    == IF rest > 0 THEN Live ELSE Statuses
  <2>4. /\ left.key = key /\ left.price = mine.price /\ ~KeyRests(done.levels, key)
        /\ \E last \in MyOrders :
             /\ Leads(key, mine, out, last, S) /\ last.price = mine.price
             /\ IF rest > 0 THEN Working(last, rest)
                ELSE last.status = "Filled" /\ last.filled_qty = last.quantity
    BY <2>3 DEF W, ActiveTurns, left, out
  <2>5. PICK last \in MyOrders :
             /\ Leads(key, mine, out, last, S) /\ last.price = mine.price
             /\ IF rest > 0 THEN Working(last, rest)
                ELSE last.status = "Filled" /\ last.filled_qty = last.quantity
    BY <2>4
  <2>6. last.filled_qty \in Nat /\ last.quantity \in Nat
    BY DEF MyOrders
  <2>7. CASE rest > 0 /\ ~IsMarket(left)
    <3>1. \A o \in Resting(new) : o.key = key => o = left
      BY <1>6, <2>4, <2>7 DEF KeyRests
    <3>2. KeyRests(new, key)
      BY <1>6, <2>4, <2>7 DEF KeyRests
    <3> QED
      BY <1>8, <2>5, <2>7, <3>1, <3>2 DEF Reaches, Agrees, Allowed
  <2>8. CASE ~(rest > 0 /\ ~IsMarket(left))
    <3>1. ~KeyRests(new, key)
      BY <1>6, <2>4, <2>8 DEF KeyRests
    <3>2. S \subseteq Statuses
      BY DEF Live, Statuses
    <3>3. Over(last)
      <4>1. CASE rest > 0
        <5>1. last.price = Market
          BY <2>4, <2>5, <2>8, <4>1 DEF IsMarket
        <5>2. /\ last.filled_qty + rest = last.quantity
              /\ last.status = IF last.filled_qty = 0 THEN "Open" ELSE "PartiallyFilled"
          BY <2>5, <4>1 DEF Working
        <5>3. /\ last.filled_qty <= last.quantity
              /\ last.filled_qty # 0 => last.filled_qty \in 1..(last.quantity - 1)
          BY <1>5, <2>6, <4>1, <5>2
        <5> QED
          BY <5>1, <5>2, <5>3 DEF Over
      <4>2. CASE ~(rest > 0)
        BY <2>5, <2>6, <4>2 DEF Over
      <4> QED
        BY <4>1, <4>2
    <3> HIDE DEF S
    <3>4. Leads(key, mine, out, last, Statuses)
      BY <2>5, <3>2, LeadsMore
    <3>5. Agrees(last, new, key) /\ Allowed(new, key) = Statuses
      BY <3>1, <3>3 DEF Agrees, Allowed, KeyRests
    <3>6. Reaches(mine, out, new, key)
      BY <3>4, <3>5 DEF Reaches
    <3> QED
      BY <1>8, <3>6
  <2> QED
    BY <2>7, <2>8
<1> QED
  BY <1>1, <1>7, <1>8, <1>9, <1>10, <1>11 DEF q

\* An order that agrees with the book has not been filled beyond its quantity.
LEMMA AgreesFilled ==
    ASSUME NEW lv, IsLevels(lv), NEW key, NEW order \in MyOrders, Agrees(order, lv, key)
    PROVE  order.filled_qty <= order.quantity
<1>1. order.filled_qty \in Nat /\ order.quantity \in Nat
  BY DEF MyOrders
<1>2. CASE KeyRests(lv, key)
  <2>1. PICK o \in Resting(lv) : o.key = key
    BY <1>2 DEF KeyRests
  <2>2. order.filled_qty + o.remaining_qty = order.quantity
    BY <2>1 DEF Agrees, Working
  <2>3. o.remaining_qty \in Nat
    <3>1. o \in Orders
      BY RestingFinite
    <3> QED
      BY <3>1, BookAssumption DEF Orders
  <2> QED
    BY <1>1, <2>2, <2>3
<1>3. CASE ~KeyRests(lv, key)
  BY <1>3 DEF Agrees, Over
<1> QED
  BY <1>2, <1>3

\* cancel_order tells all that becomes of the orders with a key that was in the
\* book once, or not at all.
LEMMA CancelledTells ==
    ASSUME NEW book, IsBook(book), Positive(book.levels), NEW k \in Keys, NEW key
    PROVE  LET q   == Cancelled(book, k).outputs
               new == Cancelled(book, k).book.levels
           IN  /\ AllSendable(q) /\ Positive(new)
               /\ key # k => Spares(key, q)
               /\ KeyOnce(book.levels, key) =>
                    \A mine \in MyOrders :
                       Agrees(mine, book.levels, key) => Reaches(mine, q, new, key)
<1> DEFINE lv  == book.levels
           ack == CancelAckOutput(k)
           one == <<ack>>
           q   == Cancelled(book, k).outputs
           new == Cancelled(book, k).book.levels
<1>1. /\ ack \in Silent /\ ack.type = "CancelAck" /\ ack.key = k /\ Readable(ack)
      /\ \A x : TradesOnce(ack, x)
  <2>1. ack \in Silent
    BY SilentMessages
  <2>2. ack.type = "CancelAck" /\ ack.key = k
    BY DEF CancelAckOutput
  <2> HIDE DEF ack
  <2> QED
    BY <2>1, <2>2 DEF Readable, TradesOnce
<1>2. one \in Seq(Silent) /\ DOMAIN one = {1} /\ one[1] = ack
  BY <1>1
<1>3. /\ AllSendable(q)
      /\ Spares(key, one) => Spares(key, q)
      /\ \A mine : Reaches(mine, one, new, key) => Reaches(mine, q, new, key)
  <2>1. CASE InBook(lv, k)
    <3> DEFINE removed == RemoveOrder(lv, k)
               out == Checked(book, removed, one).outputs
    <3>1. q = out /\ new = removed
      BY <2>1 DEF Cancelled, Checked
    <3> HIDE DEF removed, one
    <3>2. /\ AllSendable(out)
          /\ Spares(key, one) => Spares(key, out)
          /\ \A mine : Reaches(mine, one, removed, key) => Reaches(mine, out, removed, key)
      BY <1>2, CheckedTells
    <3> HIDE DEF q, new, out
    <3> QED
      BY <3>1, <3>2
  <2>2. CASE ~InBook(lv, k)
    <3>1. q = one
      BY <2>2 DEF Cancelled
    <3>2. AllSendable(one)
      BY <1>2 DEF AllSendable, Sendable
    <3> HIDE DEF q, new, one
    <3> QED
      BY <3>1, <3>2
  <2> QED
    BY <2>1, <2>2
<1>4. /\ \A o \in Resting(new) : o \in Resting(lv)
      /\ \A o \in Resting(lv) : o.key # k => o \in Resting(new)
  <2>1. CASE InBook(lv, k)
    <3>1. new = RemoveOrder(lv, k)
      BY <2>1 DEF Cancelled, Checked
    <3> HIDE DEF new
    <3> QED
      BY <2>1, <3>1, RemovedResting DEF IsBook
  <2>2. CASE ~InBook(lv, k)
    <3>1. new = lv
      BY <2>2 DEF Cancelled
    <3> HIDE DEF new
    <3> QED
      BY <3>1
  <2> QED
    BY <2>1, <2>2
<1>5. KeyOnce(lv, k) => ~KeyRests(new, k)
  BY CancelledReturns DEF IsBook
<1> HIDE DEF ack, one, q, new
<1>6. Positive(new)
  BY <1>4 DEF Positive
<1>7. ASSUME key # k
      PROVE  Spares(key, one)
  BY <1>1, <1>2, <1>7 DEF Spares, Concerns, Names
<1>8. ASSUME KeyOnce(lv, key), NEW mine \in MyOrders, Agrees(mine, lv, key)
      PROVE  Reaches(mine, one, new, key)
  <2>1. CASE key # k
    <3>1. \A o : o.key = key => (o \in Resting(new) <=> o \in Resting(lv))
      BY <1>4, <2>1
    <3> QED
      BY <1>2, <1>7, <1>8, <2>1, <3>1, ReachesSpared
  <2>2. CASE key = k
    <3> DEFINE y == Handled(mine, ack, key)
    <3>1. y = [mine EXCEPT !.status = "Cancelled"]
      BY <1>1, <2>2 DEF Handled
    <3>2. /\ y \in MyOrders /\ y.price = mine.price /\ y.status = "Cancelled"
          /\ y.filled_qty = mine.filled_qty /\ y.quantity = mine.quantity
          /\ mine.filled_qty \in Nat /\ mine.quantity \in Nat
          /\ mine.status \in Statuses /\ y.status \in Statuses
      BY <3>1 DEF MyOrders, Statuses
    <3>3. mine.filled_qty <= mine.quantity
      BY <1>8, AgreesFilled DEF IsBook
    <3> HIDE DEF y
    <3>4. Over(y)
      BY <3>2, <3>3 DEF Over
    <3>5. ~KeyRests(new, key) /\ Allowed(new, key) = Statuses
      BY <1>5, <1>8, <2>2 DEF Allowed
    <3>6. Agrees(y, new, key)
      BY <3>4, <3>5 DEF Agrees, KeyRests
    <3>7. Leads(key, mine, one, y, Statuses)
      BY <1>1, <3>2, LeadsOne DEF y, one
    <3> QED
      BY <3>2, <3>5, <3>6, <3>7 DEF Reaches
  <2> QED
    BY <2>1, <2>2
<1> QED
  BY <1>3, <1>6, <1>7, <1>8 DEF q, new

\* The same messages with the symbol on them.
LEMMA TaggedTells ==
    ASSUME NEW q, AllSendable(q), NEW symbol
    PROVE  LET p == Tag(symbol, q) IN
           /\ IsNews(p)
           /\ \A key : /\ Spares(key, q) => Spares(key, p)
                       /\ \A mine, lv : Reaches(mine, q, lv, key) => Reaches(mine, p, lv, key)
<1> DEFINE p == Tag(symbol, q)
<1>1. PICK M : q \in Seq(M) /\ \A m \in M : Sendable(m)
  BY DEF AllSendable
<1>2. /\ p \in Seq({Put(m, "symbol", symbol) : m \in M})
      /\ Len(p) = Len(q) /\ DOMAIN p = DOMAIN q /\ DOMAIN q = 1..Len(q)
      /\ \A i \in DOMAIN q : q[i] \in M /\ p[i] = Put(q[i], "symbol", symbol)
  BY <1>1 DEF Tag
<1> HIDE DEF p
<1>3. IsNews(p)
  <2>1. \A n \in {Put(m, "symbol", symbol) : m \in M} : Readable(n)
    BY <1>1, SendableFacts
  <2> QED
    BY <1>2, <2>1 DEF IsNews
<1>4. \A i \in DOMAIN q : \A key : /\ Alike(p[i], q[i], key)
                                   /\ Concerns(p[i], key) <=> Concerns(q[i], key)
  BY <1>1, <1>2, SendableFacts
<1>5. ASSUME NEW key
      PROVE  /\ Spares(key, q) => Spares(key, p)
             /\ \A mine, lv : Reaches(mine, q, lv, key) => Reaches(mine, p, lv, key)
  <2>1. Spares(key, q) => Spares(key, p)
    BY <1>2, <1>4 DEF Spares
  <2>2. ASSUME NEW mine, NEW lv, Reaches(mine, q, lv, key)
        PROVE  Reaches(mine, p, lv, key)
    <3>1. PICK last \in MyOrders :
             Leads(key, mine, q, last, Allowed(lv, key)) /\ Agrees(last, lv, key)
      BY <2>2 DEF Reaches
    <3>2. \A i \in 1..Len(q) : Alike(p[i], q[i], key)
      BY <1>2, <1>4
    <3>3. Leads(key, mine, p, last, Allowed(lv, key))
      BY <1>2, <3>1, <3>2, LeadsAlike
    <3> QED
      BY <3>1, <3>3 DEF Reaches
  <2> QED
    BY <2>1, <2>2
<1> QED
  BY <1>3, <1>5 DEF p

\* Cancels lead to a cancelled order, if there is one.
LEMMA LeadsCancelled ==
    ASSUME NEW M, NEW q \in Seq(M), NEW key, NEW order \in MyOrders,
           \A i \in DOMAIN q : ~Concerns(q[i], key) \/
                               (q[i].type = "CancelAck" /\ q[i].key = key)
    PROVE  Leads(key, order, q,
                 IF Spares(key, q) THEN order ELSE [order EXCEPT !.status = "Cancelled"],
                 Statuses)
<1> DEFINE over == [order EXCEPT !.status = "Cancelled"]
           told(i) == \E j \in 1..i : Concerns(q[j], key)
           w == [i \in 0..Len(q) |-> IF told(i) THEN over ELSE order]
<1>1. Len(q) \in Nat /\ DOMAIN q = 1..Len(q)
  OBVIOUS
<1>2. over \in MyOrders /\ over = [over EXCEPT !.status = "Cancelled"]
  BY DEF MyOrders, Statuses
<1>3. \A x \in MyOrders : x.status \in Statuses
  BY DEF MyOrders
<1> HIDE DEF over
<1>4. \A i \in 0..Len(q) : w[i] = IF told(i) THEN over ELSE order
  OBVIOUS
<1>5. w \in [0..Len(q) -> MyOrders] /\ \A i \in 0..Len(q) : w[i].status \in Statuses
  <2>1. \A i \in 0..Len(q) : w[i] \in MyOrders
    BY <1>2, <1>4
  <2> QED
    BY <1>3, <2>1
<1>6. w[0] = order
  <2>1. 0 \in 0..Len(q) /\ 1..0 = {}
    BY <1>1
  <2> QED
    BY <1>4, <2>1
<1>7. w[Len(q)] = IF Spares(key, q) THEN order ELSE over
  <2>1. Len(q) \in 0..Len(q)
    BY <1>1
  <2>2. told(Len(q)) <=> ~Spares(key, q)
    BY <1>1 DEF Spares
  <2> HIDE DEF w
  <2> QED
    BY <1>4, <2>1, <2>2
<1>8. ASSUME NEW i \in 1..Len(q)
      PROVE  TradesOnce(q[i], key) /\ w[i] = Handled(w[i - 1], q[i], key)
  <2>1. /\ i \in 0..Len(q) /\ i - 1 \in 0..Len(q) /\ i \in DOMAIN q
        /\ 1..i = (1..(i - 1)) \cup {i}
    BY <1>1
  <2>2. told(i) <=> told(i - 1) \/ Concerns(q[i], key)
    BY <2>1
  <2>3. w[i] = (IF told(i) THEN over ELSE order)
        /\ w[i - 1] = (IF told(i - 1) THEN over ELSE order)
    BY <1>4, <2>1
  <2> HIDE DEF w, told
  <2>4. CASE ~Concerns(q[i], key)
    BY <2>2, <2>3, <2>4, SparedHandled
  <2>5. CASE q[i].type = "CancelAck" /\ q[i].key = key
    <3>1. Concerns(q[i], key) /\ TradesOnce(q[i], key)
      BY <2>5 DEF Concerns, Names, TradesOnce
    <3>2. \A x : Handled(x, q[i], key) = [x EXCEPT !.status = "Cancelled"]
      BY <2>5 DEF Handled
    <3> QED
      BY <1>2, <2>2, <2>3, <3>1, <3>2 DEF over
  <2> QED
    BY <2>1, <2>4, <2>5
<1> HIDE DEF w
<1>9. Leads(key, order, q, IF Spares(key, q) THEN order ELSE over, Statuses)
  BY <1>5, <1>6, <1>7, <1>8 DEF Leads
<1> QED
  BY <1>9 DEF over

\* Cancels leave an order that agrees with a book in which it does not rest.
LEMMA CancelsReach ==
    ASSUME NEW M, NEW q \in Seq(M), NEW key,
           \A i \in DOMAIN q : ~Concerns(q[i], key) \/
                               (q[i].type = "CancelAck" /\ q[i].key = key),
           NEW lv, IsLevels(lv), NEW new, ~KeyRests(new, key),
           Spares(key, q) => ~KeyRests(lv, key),
           NEW mine \in MyOrders, Agrees(mine, lv, key)
    PROVE  Reaches(mine, q, new, key)
<1> DEFINE over == [mine EXCEPT !.status = "Cancelled"]
           last == IF Spares(key, q) THEN mine ELSE over
<1>1. Leads(key, mine, q, last, Statuses)
  BY LeadsCancelled
<1>2. /\ over \in MyOrders /\ over.status = "Cancelled"
      /\ over.filled_qty = mine.filled_qty /\ over.quantity = mine.quantity
  BY DEF MyOrders, Statuses
<1>3. mine.filled_qty <= mine.quantity
  BY AgreesFilled
<1> HIDE DEF over
<1>4. Over(over)
  BY <1>2, <1>3 DEF Over
<1>5. last \in MyOrders /\ Over(last)
  BY <1>2, <1>4 DEF Agrees
<1> HIDE DEF last
<1>6. Agrees(last, new, key) /\ Allowed(new, key) = Statuses
  BY <1>5 DEF Agrees, Allowed, KeyRests
<1> QED
  BY <1>1, <1>5, <1>6 DEF Reaches

\* A flush cancels the orders that rest, and tells of no other.
LEMMA FlushTells ==
    ASSUME NEW all, NEW books, Flushed(all, books),
           \A s \in DOMAIN books : IsLevels(books[s].levels), NEW key
    PROVE  /\ IsNews(all)
           /\ (\A s \in DOMAIN books : ~KeyRests(books[s].levels, key)) => Spares(key, all)
           /\ \A lv :
                IsLevels(lv)
                /\ (KeyRests(lv, key) <=> \E s \in DOMAIN books : KeyRests(books[s].levels, key))
                =>
                \A mine \in MyOrders :
                   Agrees(mine, lv, key) => Reaches(mine, all, EmptyLevels, key)
<1>1. PICK M : all \in Seq(M)
  BY DEF Flushed
<1>2. /\ DOMAIN all = 1..Len(all) /\ Len(all) \in Nat
      /\ \A x : x \in ToSet(all) <=> \E i \in DOMAIN all : all[i] = x
  BY <1>1 DEF ToSet
<1>3. \A x : x \in ToSet(all) <=>
         \E s \in DOMAIN books : \E m \in ToSet(FlushOutputs(books[s].levels)) :
            x = Put(m, "symbol", s)
  BY DEF Flushed
<1>4. ASSUME NEW s \in DOMAIN books, NEW m \in ToSet(FlushOutputs(books[s].levels))
      PROVE  LET n == Put(m, "symbol", s) IN
             /\ Readable(n)
             /\ Concerns(n, key) =>
                  /\ n.type = "CancelAck" /\ n.key = key
                  /\ KeyRests(books[s].levels, key)
  <2> DEFINE n == Put(m, "symbol", s)
  <2>1. \/ \E o \in Resting(books[s].levels) : m = CancelAckOutput(o.key)
        \/ \E side \in Sides : m = Eliminated(side)
    BY FlushOutputsFacts
  <2>2. CASE \E o \in Resting(books[s].levels) : m = CancelAckOutput(o.key)
    <3>1. PICK o \in Resting(books[s].levels) : m = CancelAckOutput(o.key)
      BY <2>2
    <3>2. n.type = "CancelAck" /\ n.key = o.key
      BY <3>1 DEF CancelAckOutput, Put
    <3> HIDE DEF n
    <3>3. /\ Readable(n)
          /\ Concerns(n, key) => n.type = "CancelAck" /\ n.key = key /\ key = o.key
      BY <3>2 DEF Readable, Concerns, Names
    <3> QED
      BY <3>1, <3>3 DEF KeyRests, n
  <2>3. CASE \E side \in Sides : m = Eliminated(side)
    <3>1. PICK side \in Sides : m = Eliminated(side)
      BY <2>3
    <3>2. /\ n.type = "TopOfBook" /\ n.side \in Sides /\ n.price = 0 /\ n.quantity = 0
      BY <3>1 DEF Eliminated, Put
    <3> HIDE DEF n
    <3> QED
      BY <3>2 DEF Readable, Concerns, Names, n
  <2> QED
    BY <2>1, <2>2, <2>3
<1>5. IsNews(all)
  <2>1. \A x \in ToSet(all) : Readable(x)
    BY <1>3, <1>4
  <2>2. all \in Seq(ToSet(all))
    BY <1>1, <1>2
  <2> QED
    BY <2>1, <2>2 DEF IsNews
<1>6. ASSUME NEW i \in DOMAIN all, Concerns(all[i], key)
      PROVE  /\ all[i].type = "CancelAck" /\ all[i].key = key
             /\ \E s \in DOMAIN books : KeyRests(books[s].levels, key)
  <2>1. all[i] \in ToSet(all)
    BY <1>2
  <2>2. PICK s \in DOMAIN books : \E m \in ToSet(FlushOutputs(books[s].levels)) :
            all[i] = Put(m, "symbol", s)
    BY <1>3, <2>1
  <2> QED
    BY <1>4, <1>6, <2>2
<1>7. ASSUME NEW s \in DOMAIN books, KeyRests(books[s].levels, key)
      PROVE  ~Spares(key, all)
  <2>1. PICK o \in Resting(books[s].levels) : o.key = key
    BY <1>7 DEF KeyRests
  <2> DEFINE m == CancelAckOutput(key)
             n == Put(m, "symbol", s)
  <2>2. m \in ToSet(FlushOutputs(books[s].levels))
    BY <2>1, FlushOutputsFacts
  <2>3. n.type = "CancelAck" /\ n.key = key
    BY DEF CancelAckOutput, Put
  <2> HIDE DEF m
  <2>4. n \in ToSet(all)
    BY <1>3, <2>2
  <2> HIDE DEF n
  <2>5. PICK i \in DOMAIN all : all[i] = n
    BY <1>2, <2>4
  <2> QED
    BY <2>3, <2>5 DEF Spares, Concerns, Names
<1>8. ASSUME NEW lv, IsLevels(lv),
             KeyRests(lv, key) <=> \E s \in DOMAIN books : KeyRests(books[s].levels, key),
             NEW mine \in MyOrders, Agrees(mine, lv, key)
      PROVE  Reaches(mine, all, EmptyLevels, key)
  <2>1. ~KeyRests(EmptyLevels, key)
    BY EmptyBook DEF KeyRests
  <2>2. Spares(key, all) => ~KeyRests(lv, key)
    BY <1>7, <1>8
  <2> QED
    BY <1>1, <1>6, <1>8, <2>1, <2>2, CancelsReach
<1>9. (\A s \in DOMAIN books : ~KeyRests(books[s].levels, key)) => Spares(key, all)
  BY <1>6 DEF Spares
<1> QED
  BY <1>5, <1>8, <1>9

-----------------------------------------------------------------------------
(* What a step of the engine tells the App.                                *)

MyLevels == BookOf(Symbol).levels

BooksPositive == \A symbol \in DOMAIN order_books : Positive(order_books[symbol].levels)

\* The key was used at most once since the last flush, for this symbol.
Private(key) ==
    /\ key \in Keys /\ uses[key] <= 1
    /\ \A s \in DOMAIN order_books : s # Symbol => ~KeyRests(order_books[s].levels, key)
    /\ key \in DOMAIN order_to_symbol => order_to_symbol[key] = Symbol

\* An order with this key that agrees with the book before the step agrees with
\* the book after it once the outputs are handled.
Tells(key) ==
    /\ KeyRests(MyLevels', key) => KeyRests(MyLevels, key)
    /\ \A mine \in MyOrders :
         Agrees(mine, MyLevels, key) => Reaches(mine, outputs', MyLevels', key)

LEMMA PrivateFacts ==
    ASSUME EngineInv, BooksPositive, NEW key, Private(key)
    PROVE  /\ \A s : IsBook(BookOf(s)) /\ Positive(BookOf(s).levels)
           /\ \A s : s # Symbol => ~KeyRests(BookOf(s).levels, key)
           /\ KeyOnce(MyLevels, key)
           /\ uses[key] \in Nat
           /\ uses[key] = 0 => ~KeyRests(MyLevels, key)
<1>1. AreBooks(order_books) /\ uses[key] \in Nat /\ key \in Keys /\ KeysCounted
  BY DEF EngineInv, EngineTypeOK, Private
<1>2. /\ ~KeyRests(NewBook.levels, key) /\ Positive(NewBook.levels)
      /\ KeyOnce(NewBook.levels, key)
  <2>1. NewBook.levels = EmptyLevels /\ Resting(EmptyLevels) = {}
    BY EmptyBook DEF NewBook
  <2>2. ~KeyRests(EmptyLevels, key) /\ Positive(EmptyLevels)
    BY <2>1 DEF KeyRests, Positive
  <2>3. KeyOnce(EmptyLevels, key)
    BY <2>2, KeyRestsIsQueued DEF KeyOnce
  <2> QED
    BY <2>1, <2>2, <2>3
<1>3. \A s : IsBook(BookOf(s)) /\ Positive(BookOf(s).levels)
  BY <1>1, <1>2, BookOfIsBook DEF BooksPositive, BookOf
<1>4. \A s : s # Symbol => ~KeyRests(BookOf(s).levels, key)
  BY <1>2 DEF Private, BookOf
<1>5. uses[key] = 0 => ~KeyRests(MyLevels, key)
  BY <1>1, <1>2 DEF MyLevels, BookOf, KeysCounted
<1>6. KeyOnce(MyLevels, key)
  <2>1. CASE uses[key] = 0
    BY <1>5, <2>1, KeyRestsIsQueued DEF KeyOnce
  <2>2. CASE uses[key] = 1
    BY <1>1, <1>2, <2>2 DEF MyLevels, BookOf, KeysCounted
  <2> QED
    BY <1>1, <2>1, <2>2 DEF Private
<1> QED
  BY <1>1, <1>3, <1>4, <1>5, <1>6

\* A call of a book.
LEMMA CallTells ==
    ASSUME EngineInv, BooksPositive, NEW symbol, NEW result, Calls(symbol, result),
           AllSendable(result.outputs), Positive(result.book.levels),
           NEW key, Private(key),
           symbol # Symbol => /\ Spares(key, result.outputs)
                              /\ ~KeyRests(result.book.levels, key)
    PROVE  /\ IsNews(outputs') /\ BooksPositive'
           /\ \A s \in DOMAIN order_books' : s # Symbol => ~KeyRests(order_books'[s].levels, key)
           /\ Spares(key, result.outputs) => Spares(key, outputs')
           /\ symbol = Symbol =>
                /\ MyLevels' = result.book.levels
                /\ \A mine, lv : Reaches(mine, result.outputs, lv, key) =>
                                    Reaches(mine, outputs', lv, key)
           /\ symbol # Symbol => Tells(key)
<1>1. AreBooks(order_books)
  BY DEF EngineInv, EngineTypeOK
<1>2. /\ DOMAIN order_books' = DOMAIN order_books \cup {symbol}
      /\ order_books'[symbol] = result.book
      /\ \A s \in DOMAIN order_books : s # symbol => order_books'[s] = order_books[s]
      /\ BookOf(symbol)' = result.book
      /\ \A s : s # symbol => BookOf(s)' = BookOf(s)
  BY <1>1, CallEffect
<1>3. outputs' = Tag(symbol, result.outputs)
  BY DEF Calls, Return
<1>4. /\ IsNews(outputs')
      /\ Spares(key, result.outputs) => Spares(key, outputs')
      /\ \A mine, lv : Reaches(mine, result.outputs, lv, key) =>
                          Reaches(mine, outputs', lv, key)
  BY <1>3, TaggedTells
<1>5. BooksPositive'
  BY <1>2 DEF BooksPositive
<1>6. \A s \in DOMAIN order_books' : s # Symbol => ~KeyRests(order_books'[s].levels, key)
  BY <1>2 DEF Private
<1>7. CASE symbol # Symbol
  <2>1. MyLevels' = MyLevels
    BY <1>2, <1>7 DEF MyLevels
  <2>2. Spares(key, outputs')
    BY <1>4, <1>7
  <2>3. PICK M : outputs' \in Seq(M)
    BY <1>4 DEF IsNews
  <2>4. \A mine \in MyOrders : Agrees(mine, MyLevels, key) =>
           Reaches(mine, outputs', MyLevels, key)
    BY <2>2, <2>3, ReachesSpared
  <2> QED
    BY <1>4, <1>5, <1>6, <1>7, <2>1, <2>4 DEF Tells
<1>8. CASE symbol = Symbol
  <2>1. MyLevels' = result.book.levels
    BY <1>2, <1>8 DEF MyLevels
  <2> QED
    BY <1>4, <1>5, <1>6, <1>8, <2>1
<1> QED
  BY <1>7, <1>8

\* A step of the engine that is not the entry of the order with this key.
Serves(key) ==
    /\ IsNews(outputs') /\ BooksPositive' /\ Private(key)' /\ Tells(key)
    /\ uses[key] = 0 => uses'[key] = 0

\* Another order.
LEMMA NewOrderServes ==
    ASSUME EngineInv, BooksPositive, NEW symbol \in Symbols, NEW msg \in NewOrders,
           ProcessNewOrder(symbol, msg), NEW key, Private(key), key # msg.key
    PROVE  Serves(key) /\ (~KeyRests(MyLevels, key) => Spares(key, outputs'))
<1> DEFINE book   == BookOf(symbol)
           order  == FromNewOrder(msg, arrivals + 1)
           result == Added(book, order)
           new    == result.book.levels
<1>1. /\ order \in Orders /\ order.key = msg.key /\ IsBook(book) /\ IsLevels(book.levels)
      /\ Calls(symbol, result)
  BY NewOrderCalls DEF IsBook
<1>2. /\ Positive(book.levels) /\ KeyOnce(MyLevels, key)
      /\ symbol # Symbol => ~KeyRests(book.levels, key)
      /\ key \in Keys /\ uses[key] \in Nat
  BY PrivateFacts DEF Private
<1>3. /\ order_to_symbol' = Put(order_to_symbol, msg.key, symbol)
      /\ uses' = [uses EXCEPT ![msg.key] = @ + 1]
  BY DEF ProcessNewOrder
<1> HIDE DEF order
<1>4. /\ AllSendable(result.outputs) /\ Positive(new)
      /\ ~KeyRests(book.levels, key) => Spares(key, result.outputs) /\ ~KeyRests(new, key)
      /\ KeyOnce(book.levels, key) =>
           \A mine \in MyOrders :
              Agrees(mine, book.levels, key) => Reaches(mine, result.outputs, new, key)
  BY <1>1, <1>2, AddedTells
<1> HIDE DEF result
<1>5. /\ IsNews(outputs') /\ BooksPositive'
      /\ \A s \in DOMAIN order_books' : s # Symbol => ~KeyRests(order_books'[s].levels, key)
      /\ Spares(key, result.outputs) => Spares(key, outputs')
      /\ symbol = Symbol =>
           /\ MyLevels' = new
           /\ \A mine, lv : Reaches(mine, result.outputs, lv, key) =>
                               Reaches(mine, outputs', lv, key)
      /\ symbol # Symbol => Tells(key)
  BY <1>1, <1>2, <1>4, CallTells
<1>6. uses'[key] = uses[key]
  <2>1. uses = [k \in Keys |-> uses[k]]
    BY DEF EngineInv, EngineTypeOK
  <2> QED
    BY <1>2, <1>3, <2>1
<1>7. Private(key)'
  <2>1. key \in DOMAIN order_to_symbol' => order_to_symbol'[key] = Symbol
    BY <1>3 DEF Put, Private
  <2> QED
    BY <1>2, <1>5, <1>6, <2>1 DEF Private
<1>8. Tells(key) /\ (~KeyRests(MyLevels, key) => Spares(key, outputs'))
  <2>1. CASE symbol # Symbol
    BY <1>2, <1>4, <1>5, <2>1
  <2>2. CASE symbol = Symbol
    <3>1. MyLevels = book.levels
      BY <2>2 DEF MyLevels
    <3>2. \A mine \in MyOrders : Agrees(mine, MyLevels, key) =>
             Reaches(mine, outputs', MyLevels', key)
      BY <1>2, <1>4, <1>5, <2>2, <3>1
    <3>3. KeyRests(MyLevels', key) => KeyRests(MyLevels, key)
      BY <1>4, <1>5, <2>2, <3>1
    <3> QED
      BY <1>4, <1>5, <3>1, <3>2, <3>3 DEF Tells
  <2> QED
    BY <2>1, <2>2
<1> QED
  BY <1>5, <1>6, <1>7, <1>8 DEF Serves

\* The user's own order: what the messages make of it agrees with the book.
LEMMA NewOrderEnters ==
    ASSUME EngineInv, BooksPositive, Symbol \in Symbols, NEW msg \in NewOrders,
           ProcessNewOrder(Symbol, msg), Private(msg.key), uses[msg.key] = 0,
           NEW mine \in MyOrders, mine.price = msg.price, mine.quantity = msg.quantity,
           mine.filled_qty = 0, mine.status = "Pending"
    PROVE  /\ IsNews(outputs') /\ BooksPositive' /\ Private(msg.key)'
           /\ Reaches(mine, outputs', MyLevels', msg.key)
<1> DEFINE key    == msg.key
           order  == FromNewOrder(msg, arrivals + 1)
           result == Added(BookOf(Symbol), order)
           new    == result.book.levels
<1>1. /\ order \in Orders /\ order.key = key /\ order.price = msg.price
      /\ order.remaining_qty = msg.quantity
      /\ IsLevels(MyLevels) /\ Calls(Symbol, result)
  BY NewOrderCalls DEF IsBook, MyLevels
<1>2. Positive(MyLevels) /\ ~KeyRests(MyLevels, key) /\ key \in Keys
  BY PrivateFacts DEF Private, MyLevels
<1>3. /\ order_to_symbol' = Put(order_to_symbol, key, Symbol)
      /\ uses' = [uses EXCEPT ![key] = @ + 1]
  BY DEF ProcessNewOrder
<1> HIDE DEF order, key
<1>4. /\ AllSendable(result.outputs) /\ Positive(new)
      /\ Reaches(mine, result.outputs, new, key)
  BY <1>1, <1>2, AddedTells DEF Live, MyLevels
<1> HIDE DEF result
<1>5. Private(key)
  BY DEF key
<1>6. /\ IsNews(outputs') /\ BooksPositive'
      /\ \A s \in DOMAIN order_books' : s # Symbol => ~KeyRests(order_books'[s].levels, key)
      /\ MyLevels' = new /\ Reaches(mine, outputs', new, key)
  BY <1>1, <1>4, <1>5, CallTells
<1>7. uses'[key] = 1
  <2>1. uses = [k \in Keys |-> uses[k]] /\ uses[key] = 0
    BY DEF EngineInv, EngineTypeOK, key
  <2> QED
    BY <1>2, <1>3, <2>1
<1>8. Private(key)'
  <2>1. key \in DOMAIN order_to_symbol' => order_to_symbol'[key] = Symbol
    BY <1>3 DEF Put
  <2> QED
    BY <1>2, <1>6, <1>7, <2>1 DEF Private
<1> QED
  BY <1>6, <1>8 DEF key

\* A cancel of a tracked key, of this or of another.
LEMMA CancelServes ==
    ASSUME EngineInv, BooksPositive, NEW k \in Keys, ProcessCancel(k),
           NEW key, Private(key)
    PROVE  /\ Serves(key)
           /\ key # k /\ ~KeyRests(MyLevels, key) => Spares(key, outputs')
           /\ key = k => ~KeyRests(MyLevels', key)
<1> DEFINE symbol == order_to_symbol[k]
           book   == BookOf(symbol)
           result == Cancelled(book, k)
           new    == result.book.levels
<1>1. /\ symbol \in Symbols /\ IsBook(book) /\ IsLevels(book.levels)
      /\ Calls(symbol, result)
  BY CancelCalls DEF IsBook
<1>2. /\ Positive(book.levels) /\ KeyOnce(MyLevels, key)
      /\ symbol # Symbol => ~KeyRests(book.levels, key)
      /\ key \in Keys /\ uses[key] \in Nat
      /\ key = k => symbol = Symbol
  BY PrivateFacts DEF Private, ProcessCancel
<1>3. /\ order_to_symbol' = Without(order_to_symbol, k) /\ uses' = uses
  BY DEF ProcessCancel
<1> HIDE DEF symbol
<1>4. /\ AllSendable(result.outputs) /\ Positive(new)
      /\ key # k => Spares(key, result.outputs)
      /\ KeyOnce(book.levels, key) =>
           \A mine \in MyOrders :
              Agrees(mine, book.levels, key) => Reaches(mine, result.outputs, new, key)
  BY <1>1, <1>2, CancelledTells
<1>5. /\ KeyRests(new, key) => KeyRests(book.levels, key)
      /\ KeyOnce(book.levels, k) => ~KeyRests(new, k)
  BY <1>1, CancelledReturns DEF IsBook, Thins
<1> HIDE DEF result
<1>6. /\ IsNews(outputs') /\ BooksPositive'
      /\ \A s \in DOMAIN order_books' : s # Symbol => ~KeyRests(order_books'[s].levels, key)
      /\ Spares(key, result.outputs) => Spares(key, outputs')
      /\ symbol = Symbol =>
           /\ MyLevels' = new
           /\ \A mine, lv : Reaches(mine, result.outputs, lv, key) =>
                               Reaches(mine, outputs', lv, key)
      /\ symbol # Symbol => Tells(key)
  BY <1>1, <1>2, <1>4, <1>5, CallTells
<1>7. Private(key)'
  <2>1. key \in DOMAIN order_to_symbol' => order_to_symbol'[key] = Symbol
    BY <1>3 DEF Without, Restrict, Private
  <2> QED
    BY <1>2, <1>3, <1>6, <2>1 DEF Private
<1>8. Tells(key) /\ (key = k => ~KeyRests(MyLevels', key))
  <2>1. CASE symbol # Symbol
    BY <1>2, <1>6, <2>1
  <2>2. CASE symbol = Symbol
    <3>1. MyLevels = book.levels
      BY <2>2 DEF MyLevels
    <3>2. \A mine \in MyOrders : Agrees(mine, MyLevels, key) =>
             Reaches(mine, outputs', MyLevels', key)
      BY <1>2, <1>4, <1>6, <2>2, <3>1
    <3> QED
      BY <1>2, <1>5, <1>6, <2>2, <3>1, <3>2 DEF Tells
  <2> QED
    BY <2>1, <2>2
<1> QED
  BY <1>3, <1>4, <1>6, <1>7, <1>8 DEF Serves

\* A cancel of a key that is not tracked: no order of it can rest.
LEMMA CancelUnknownServes ==
    ASSUME EngineInv, BooksPositive, NEW k \in Keys, ProcessCancelUnknown(k),
           NEW key, Private(key)
    PROVE  /\ Serves(key)
           /\ key # k => Spares(key, outputs')
           /\ key = k => ~KeyRests(MyLevels', key)
<1> DEFINE ack == CancelAckOutput(k)
           q   == <<ack>>
<1>1. /\ UNCHANGED <<order_books, order_to_symbol, alive, arrivals, uses>>
      /\ outputs' = Tag(Unknown, q) /\ k \notin DOMAIN order_to_symbol
  BY DEF ProcessCancelUnknown, Return
<1>2. MyLevels' = MyLevels /\ Private(key)' /\ BooksPositive'
  BY <1>1 DEF MyLevels, BookOf, Private, BooksPositive
<1>3. key = k => ~KeyRests(MyLevels, key)
  <2>1. ASSUME key = k, KeyRests(MyLevels, key)
        PROVE  FALSE
    <3>1. uses[key] = 1 /\ RoutedKeys
      BY <2>1, PrivateFacts, RoutedByKey DEF Private, EngineInv, EngineTypeOK
    <3>2. Symbol \in DOMAIN order_books
      BY <2>1, EmptyBook DEF MyLevels, BookOf, NewBook, KeyRests
    <3> QED
      BY <1>1, <2>1, <3>1, <3>2 DEF RoutedKeys, MyLevels, BookOf
  <2> QED
    BY <2>1
<1>4. /\ q \in Seq({ack}) /\ DOMAIN q = {1} /\ q[1] = ack
      /\ Sendable(ack) /\ ack.type = "CancelAck" /\ ack.key = k
  <2>1. Sendable(ack) /\ ack.type = "CancelAck" /\ ack.key = k
    BY SilentMessages DEF Sendable, CancelAckOutput
  <2> HIDE DEF ack
  <2> QED
    BY <2>1
<1> HIDE DEF ack, q
<1>5. AllSendable(q)
  BY <1>4 DEF AllSendable
<1>6. \A i \in DOMAIN q : ~Concerns(q[i], key) \/ (q[i].type = "CancelAck" /\ q[i].key = key)
  BY <1>4 DEF Concerns, Names
<1>7. key # k => Spares(key, q)
  BY <1>4 DEF Concerns, Names, Spares
<1>8. ASSUME NEW mine \in MyOrders, Agrees(mine, MyLevels, key)
      PROVE  Reaches(mine, q, MyLevels, key)
  <2>1. CASE key # k
    BY <1>4, <1>7, <1>8, <2>1, ReachesSpared
  <2>2. CASE key = k
    <3>1. IsLevels(MyLevels)
      BY PrivateFacts DEF IsBook, MyLevels
    <3> QED
      BY <1>3, <1>4, <1>6, <1>8, <2>2, <3>1, CancelsReach
  <2> QED
    BY <2>1, <2>2
<1>9. /\ IsNews(outputs')
      /\ Spares(key, q) => Spares(key, outputs')
      /\ \A mine, lv : Reaches(mine, q, lv, key) => Reaches(mine, outputs', lv, key)
  BY <1>1, <1>5, TaggedTells
<1>10. Tells(key)
  BY <1>2, <1>8, <1>9 DEF Tells
<1> QED
  BY <1>1, <1>2, <1>3, <1>7, <1>9, <1>10 DEF Serves

\* The answer to a query.
LEMMA QueryServes ==
    ASSUME EngineInv, BooksPositive, NEW symbol \in Symbols,
           ProcessQueryTopOfBook(symbol), NEW key, Private(key)
    PROVE  Serves(key) /\ Spares(key, outputs')
<1> DEFINE top  == Snapshot(BookOf(symbol).levels)
           buy  == TopEvent("Buy", top["Buy"])
           sell == TopEvent("Sell", top["Sell"])
           q    == <<buy, sell>>
<1>1. /\ UNCHANGED <<order_books, order_to_symbol, alive, arrivals, uses>>
      /\ outputs' = Tag(symbol, q)
  BY DEF ProcessQueryTopOfBook, Return
<1>2. MyLevels' = MyLevels /\ Private(key)' /\ BooksPositive'
  BY <1>1 DEF MyLevels, BookOf, Private, BooksPositive
<1> HIDE DEF top
<1>3. /\ Sendable(buy) /\ Sendable(sell)
      /\ buy.type = "TopOfBook" /\ sell.type = "TopOfBook"
  BY DEF Sendable, Sides, TopEvent, Eliminated, TopOfBook
<1> HIDE DEF buy, sell
<1>4. /\ q \in Seq({buy, sell}) /\ \A i \in DOMAIN q : q[i] \in {buy, sell}
  OBVIOUS
<1> HIDE DEF q
<1>5. AllSendable(q) /\ Spares(key, q)
  <2>1. ~Concerns(buy, key) /\ ~Concerns(sell, key)
    BY <1>3, SendableFacts
  <2> QED
    BY <1>3, <1>4, <2>1 DEF AllSendable, Spares
<1>6. IsNews(outputs') /\ Spares(key, outputs')
  BY <1>1, <1>5, TaggedTells
<1>7. PICK M : outputs' \in Seq(M)
  BY <1>6 DEF IsNews
<1>8. Tells(key)
  BY <1>2, <1>6, <1>7, ReachesSpared DEF Tells
<1> QED
  BY <1>1, <1>2, <1>6, <1>8 DEF Serves

\* A flush.
LEMMA FlushServes ==
    ASSUME EngineInv, BooksPositive, ProcessFlush, NEW key, Private(key)
    PROVE  Serves(key) /\ (~KeyRests(MyLevels, key) => Spares(key, outputs'))
<1>1. /\ order_books' = <<>> /\ order_to_symbol' = <<>>
      /\ uses' = [k \in Keys |-> 0]
  BY DEF ProcessFlush
<1>2. /\ \A s \in DOMAIN order_books : IsLevels(order_books[s].levels)
      /\ IsLevels(MyLevels) /\ key \in Keys
  BY PrivateFacts DEF EngineInv, EngineTypeOK, AreBooks, IsBook, Private, MyLevels
<1>3. DOMAIN order_books' = {} /\ DOMAIN order_to_symbol' = {} /\ uses'[key] = 0
  BY <1>1, <1>2
<1>4. MyLevels' = EmptyLevels
  BY <1>3 DEF MyLevels, BookOf, NewBook
<1>5. Private(key)' /\ BooksPositive'
  BY <1>2, <1>3 DEF Private, BooksPositive
<1>6. KeyRests(MyLevels, key) <=> \E s \in DOMAIN order_books : KeyRests(order_books[s].levels, key)
  <2>1. KeyRests(MyLevels, key) => Symbol \in DOMAIN order_books
    BY EmptyBook DEF MyLevels, BookOf, NewBook, KeyRests
  <2>2. Symbol \in DOMAIN order_books => MyLevels = order_books[Symbol].levels
    BY DEF MyLevels, BookOf
  <2> QED
    BY <2>1, <2>2 DEF Private
<1>7. /\ IsNews(outputs')
      /\ ~KeyRests(MyLevels, key) => Spares(key, outputs')
      /\ \A mine \in MyOrders :
            Agrees(mine, MyLevels, key) => Reaches(mine, outputs', EmptyLevels, key)
  <2>1. Flushed(outputs', order_books)
    BY FlushSends
  <2> QED
    BY <1>2, <1>6, <2>1, FlushTells
<1>8. ~KeyRests(EmptyLevels, key)
  BY EmptyBook DEF KeyRests
<1> QED
  BY <1>3, <1>4, <1>5, <1>7, <1>8 DEF Serves, Tells

-----------------------------------------------------------------------------
(* The tops on the screen.                                                 *)

\* The message at i is the last of q about the top of this side.
IsTop(m, side) == m.type = "TopOfBook" /\ m.side = side

Final(q, side, i) ==
    /\ i \in DOMAIN q /\ IsTop(q[i], side)
    /\ \A j \in DOMAIN q : IsTop(q[j], side) => j <= i

LEMMA ObserveFinal ==
    ASSUME NEW S, NEW q \in Seq(S), NEW side \in Sides
    PROVE  /\ \/ \A i \in DOMAIN q : ~IsTop(q[i], side)
              \/ \E i \in DOMAIN q : Final(q, side, i)
           /\ \A seen :
                /\ (\A i \in DOMAIN q : ~IsTop(q[i], side)) =>
                     Observe(seen, q)[side] = seen[side]
                /\ \A i : Final(q, side, i) =>
                     Observe(seen, q)[side] = [price |-> q[i].price, quantity |-> q[i].quantity]
<1> DEFINE of == {i \in DOMAIN q : q[i].type = "TopOfBook" /\ q[i].side = side}
<1>1. of \subseteq Nat /\ Len(q) \in Nat /\ \A i \in of : i <= Len(q)
  OBVIOUS
<1>2. of # {} => Max(of) \in of /\ \A i \in of : i <= Max(of)
  <2> HIDE DEF of
  <2> QED
    BY <1>1, MaxIsGreatest
<1>3. \A seen : Observe(seen, q)[side] =
         IF of = {} THEN seen[side]
         ELSE [price |-> q[Max(of)].price, quantity |-> q[Max(of)].quantity]
  BY DEF Observe
<1>4. \A i : i \in of <=> i \in DOMAIN q /\ IsTop(q[i], side)
  BY DEF IsTop
<1> HIDE DEF of
<1>5. \A i : Final(q, side, i) <=> of # {} /\ i = Max(of)
  <2>1. ASSUME NEW i, Final(q, side, i)
        PROVE  of # {} /\ i = Max(of)
    <3>1. i \in of /\ Max(of) \in of /\ i <= Max(of)
      BY <1>2, <1>4, <2>1 DEF Final
    <3>2. Max(of) <= i
      BY <1>4, <2>1, <3>1 DEF Final
    <3>3. i \in Nat /\ Max(of) \in Nat
      BY <1>1, <3>1
    <3> QED
      BY <3>1, <3>2, <3>3
  <2>2. of # {} => Final(q, side, Max(of))
    BY <1>2, <1>4 DEF Final
  <2> QED
    BY <2>1, <2>2
<1> QED
  BY <1>2, <1>3, <1>4, <1>5

LEMMA ObserveConcat ==
    ASSUME NEW S, NEW a \in Seq(S), NEW b \in Seq(S), NEW seen
    PROVE  Observe(seen, a \o b) = Observe(Observe(seen, a), b)
<1> DEFINE m == Len(a)
           n == Len(b)
           c == a \o b
           mid == Observe(seen, a)
<1>1. /\ m \in Nat /\ n \in Nat /\ DOMAIN a = 1..m /\ DOMAIN b = 1..n
      /\ c \in Seq(S) /\ DOMAIN c = 1..(m + n)
      /\ \A i \in 1..(m + n) : c[i] = IF i <= m THEN a[i] ELSE b[i - m]
  BY ConcatProperties
<1>2. \A s, q : Observe(s, q) = [side \in Sides |-> Observe(s, q)[side]]
  BY DEF Observe
<1> HIDE DEF m, n, c, mid
<1>3. ASSUME NEW side \in Sides
      PROVE  Observe(seen, c)[side] = Observe(mid, b)[side]
  <2> DEFINE Shows(q) ==
        \A old : /\ (\A i \in DOMAIN q : ~IsTop(q[i], side)) => Observe(old, q)[side] = old[side]
                 /\ \A i : Final(q, side, i) =>
                      Observe(old, q)[side] = [price |-> q[i].price, quantity |-> q[i].quantity]
  <2>1. Shows(a) /\ Shows(b)
    BY ObserveFinal
  <2>2. Shows(c)
    BY <1>1, ObserveFinal
  <2>3. \A q : q = a \/ q = b =>
           (\A i \in DOMAIN q : ~IsTop(q[i], side)) \/ \E i \in DOMAIN q : Final(q, side, i)
    BY ObserveFinal
  <2>4. \A i \in 1..m : i \in DOMAIN c /\ c[i] = a[i]
    BY <1>1
  <2>5. \A i \in 1..n : i + m \in DOMAIN c /\ c[i + m] = b[i] /\ i \in Nat
    <3>1. ASSUME NEW i \in 1..n
          PROVE  i + m \in DOMAIN c /\ c[i + m] = b[i] /\ i \in Nat
      <4>1. i + m \in 1..(m + n) /\ ~(i + m <= m) /\ (i + m) - m = i
        BY <1>1
      <4> QED
        BY <1>1, <4>1
    <3> QED
      BY <3>1
  <2>6. \A j \in DOMAIN c : j \in Nat /\ (j \in 1..m \/ \E i \in 1..n : j = i + m)
    <3>1. ASSUME NEW j \in DOMAIN c, j \notin 1..m
          PROVE  j - m \in 1..n /\ j = (j - m) + m
      BY <1>1, <3>1
    <3> QED
      BY <1>1, <3>1
  <2>7. CASE \E i \in DOMAIN b : Final(b, side, i)
    <3>1. PICK i \in DOMAIN b : Final(b, side, i)
      BY <2>7
    <3>2. \A j \in DOMAIN c : IsTop(c[j], side) => j <= i + m
      <4>1. ASSUME NEW j \in DOMAIN c, IsTop(c[j], side)
            PROVE  j <= i + m
        <5>1. CASE j \in 1..m
          BY <1>1, <3>1, <5>1
        <5>2. CASE \E k \in 1..n : j = k + m
          <6>1. PICK k \in 1..n : j = k + m
            BY <5>2
          <6>2. k <= i
            BY <1>1, <2>5, <3>1, <4>1, <6>1 DEF Final
          <6> QED
            BY <1>1, <6>1, <6>2
        <5> QED
          BY <2>6, <5>1, <5>2
      <4> QED
        BY <4>1
    <3>3. Final(c, side, i + m) /\ c[i + m] = b[i]
      BY <1>1, <2>5, <3>1, <3>2 DEF Final
    <3>4. Observe(seen, c)[side] = [price |-> c[i + m].price, quantity |-> c[i + m].quantity]
      BY <2>2, <3>3
    <3>5. Observe(mid, b)[side] = [price |-> b[i].price, quantity |-> b[i].quantity]
      BY <2>1, <3>1
    <3> QED
      BY <3>3, <3>4, <3>5
  <2>8. CASE \A i \in DOMAIN b : ~IsTop(b[i], side)
    <3>1. Observe(mid, b)[side] = mid[side]
      BY <2>8, <2>1
    <3>2. CASE \E i \in DOMAIN a : Final(a, side, i)
      <4>1. PICK i \in DOMAIN a : Final(a, side, i)
        BY <3>2
      <4>2. \A j \in DOMAIN c : IsTop(c[j], side) => j \in 1..m
        BY <1>1, <2>5, <2>6, <2>8
      <4>3. Final(c, side, i) /\ c[i] = a[i]
        BY <1>1, <2>4, <4>1, <4>2 DEF Final
      <4>4. Observe(seen, c)[side] = [price |-> c[i].price, quantity |-> c[i].quantity]
        BY <2>2, <4>3
      <4>5. mid[side] = [price |-> a[i].price, quantity |-> a[i].quantity]
        BY <2>1, <4>1 DEF mid
      <4> QED
        BY <3>1, <4>3, <4>4, <4>5
    <3>3. CASE \A i \in DOMAIN a : ~IsTop(a[i], side)
      <4>1. \A j \in DOMAIN c : ~IsTop(c[j], side)
        BY <1>1, <2>4, <2>5, <2>6, <2>8, <3>3
      <4> QED
        BY <2>1, <2>2, <3>1, <3>3, <4>1 DEF mid
    <3> QED
      BY <2>3, <3>2, <3>3
  <2> QED
    BY <2>3, <2>7, <2>8
<1>4. Observe(seen, c) = Observe(mid, b)
  BY <1>2, <1>3
<1> QED
  BY <1>4 DEF c, mid

LEMMA OfSymbolConcat ==
    ASSUME NEW S, NEW a \in Seq(S), NEW b \in Seq(S), NEW symbol
    PROVE  /\ OfSymbol(symbol, a \o b) = OfSymbol(symbol, a) \o OfSymbol(symbol, b)
           /\ OfSymbol(symbol, a) \in Seq(S)
<1> DEFINE K(q) == {m \in ToSet(q) : m.symbol = symbol}
<1>1. \A q : OfSymbol(symbol, q) = Only(q, K(q))
  BY DEF OfSymbol
<1>2. ToSet(a \o b) = ToSet(a) \cup ToSet(b)
  BY ConcatRange
<1>3. /\ \A x \in ToSet(a) : x \in K(a \o b) <=> x \in K(a)
      /\ \A x \in ToSet(b) : x \in K(a \o b) <=> x \in K(b)
  BY <1>2
<1> HIDE DEF K
<1>4. Only(a, K(a \o b)) = Only(a, K(a)) /\ Only(b, K(a \o b)) = Only(b, K(b))
  BY <1>3, OnlySame
<1>5. Only(a \o b, K(a \o b)) = Only(a, K(a \o b)) \o Only(b, K(a \o b))
  BY OnlyConcat
<1>6. Only(a, K(a)) \in Seq(S)
  BY OnlyRange
<1> QED
  BY <1>1, <1>4, <1>5, <1>6

LEMMA OfSymbolHead ==
    ASSUME NEW S, NEW q \in Seq(S), q # <<>>, NEW symbol
    PROVE  /\ OfSymbol(symbol, q) =
                IF Head(q).symbol = symbol THEN <<Head(q)>> \o OfSymbol(symbol, Tail(q))
                ELSE OfSymbol(symbol, Tail(q))
           /\ OfSymbol(symbol, Tail(q)) \in Seq(S)
<1> DEFINE K(p) == {m \in ToSet(p) : m.symbol = symbol}
           t    == Tail(q)
<1>1. \A p : OfSymbol(symbol, p) = Only(p, K(p))
  BY DEF OfSymbol
<1>2. t \in Seq(S) /\ (\A x \in ToSet(t) : x \in ToSet(q)) /\ Head(q) \in ToSet(q)
  BY DEF ToSet
<1>3. /\ \A x \in ToSet(t) : x \in K(q) <=> x \in K(t)
      /\ Head(q) \in K(q) <=> Head(q).symbol = symbol
  BY <1>2
<1> HIDE DEF K
<1>4. Only(q, K(q)) = IF Head(q) \in K(q) THEN <<Head(q)>> \o Only(t, K(q)) ELSE Only(t, K(q))
  BY OnlyHead
<1> HIDE DEF t
<1>5. Only(t, K(q)) = Only(t, K(t)) /\ Only(t, K(t)) \in Seq(S)
  BY <1>2, <1>3, OnlySame, OnlyRange
<1> QED
  BY <1>1, <1>3, <1>4, <1>5 DEF t

\* One message.
LEMMA ObserveOne ==
    ASSUME NEW m, NEW seen, seen = [side \in Sides |-> seen[side]]
    PROVE  /\ m.type # "TopOfBook" => Observe(seen, <<m>>) = seen
           /\ m.type = "TopOfBook" /\ m.side \in Sides =>
                Observe(seen, <<m>>) =
                  [seen EXCEPT ![m.side] = [price |-> m.price, quantity |-> m.quantity]]
<1> DEFINE q == <<m>>
<1>1. q \in Seq({m}) /\ DOMAIN q = {1} /\ q[1] = m
  OBVIOUS
<1> HIDE DEF q
<1>2. \A side : IsTop(m, side) => Final(q, side, 1)
  BY <1>1 DEF Final
<1>3. \A side \in Sides : Observe(seen, q)[side] =
         IF IsTop(m, side) THEN [price |-> m.price, quantity |-> m.quantity] ELSE seen[side]
  BY <1>1, <1>2, ObserveFinal
<1>4. Observe(seen, q) = [side \in Sides |-> Observe(seen, q)[side]]
  BY DEF Observe
<1>5. m.type # "TopOfBook" => Observe(seen, q) = seen
  BY <1>3, <1>4 DEF IsTop
<1>6. ASSUME m.type = "TopOfBook", m.side \in Sides
      PROVE  Observe(seen, q) =
               [seen EXCEPT ![m.side] = [price |-> m.price, quantity |-> m.quantity]]
  BY <1>3, <1>4, <1>6 DEF IsTop
<1> QED
  BY <1>5, <1>6 DEF q

-----------------------------------------------------------------------------
(* The inductive invariant.                                                *)

Commands == [type : {"NewOrder"}, order : NewOrders] \cup [type : {"Cancel"}, key : Keys]

AppTypeOK ==
    /\ alive
    /\ my_orders \in Seq(MyOrders) /\ Len(my_orders) <= Len(MyKeys)
    /\ to_network \in Seq(Commands) /\ IsNews(to_app)
    /\ shown = [side \in Sides |-> shown[side]]
    /\ cancelling \subseteq DOMAIN my_orders

Enters(m, n) == m.type = "NewOrder" /\ m.order.key = MyKeys[n]
Cancels(m, n) == m.type = "Cancel" /\ m.key = MyKeys[n]

\* The NewOrder message of the n-th order.
NewOrderMessage(n) ==
    [type |-> "NewOrder",
     order |-> [key |-> MyKeys[n], side |-> my_orders[n].side,
                price |-> my_orders[n].price, quantity |-> my_orders[n].quantity]]

\* What is on its way to the engine was sent for one of the user's orders; an
\* order is entered once, and cancelled only after that.
CommandsMatch ==
    /\ \A i \in DOMAIN to_network : \E n \in DOMAIN my_orders :
         to_network[i] = NewOrderMessage(n) \/ to_network[i] = CancelMessage(n)
    /\ \A n \in DOMAIN my_orders : \A i, j \in DOMAIN to_network :
         Enters(to_network[i], n) =>
            /\ Enters(to_network[j], n) => i = j
            /\ Cancels(to_network[j], n) => i < j

\* The engine has seen the n-th order.
Entered(n) ==
    n \in DOMAIN my_orders /\ \A i \in DOMAIN to_network : ~Enters(to_network[i], n)

\* An order the engine has seen becomes what the book says by the messages
\* under way.  Of another nothing is known to the engine or told by it.
Tracks(n) ==
    /\ Entered(n) => Reaches(my_orders[n], to_app, MyLevels, MyKeys[n])
    /\ ~Entered(n) =>
         /\ uses[MyKeys[n]] = 0 /\ Spares(MyKeys[n], to_app)
         /\ n \in DOMAIN my_orders =>
              my_orders[n].status = "Pending" /\ my_orders[n].filled_qty = 0

\* A cancel is on its way or has had its effect.
CancelsKept ==
    \A n \in cancelling :
        \/ \E i \in DOMAIN to_network : Cancels(to_network[i], n)
        \/ Entered(n) /\ ~KeyRests(MyLevels, MyKeys[n])

TradingInv ==
    /\ EngineInv /\ BooksPositive
    /\ AppTypeOK /\ CommandsMatch
    /\ \A n \in DOMAIN MyKeys : Private(MyKeys[n]) /\ Tracks(n)
    /\ CancelsKept /\ DisplayCoherent

LEMMA MyKeysFacts ==
    /\ MyKeys \in Seq(Keys) /\ Len(MyKeys) \in Nat
    /\ DOMAIN MyKeys = 1..Len(MyKeys) /\ 1 \in DOMAIN MyKeys
    /\ \A n \in DOMAIN MyKeys : MyKeys[n] \in Keys /\ MyKeys[n] \in Range(MyKeys)
    /\ \A n, k \in DOMAIN MyKeys : MyKeys[n] = MyKeys[k] => n = k
<1>1. MyKeys \in Seq(Keys) /\ MyKeys # <<>> /\ IsInjective(MyKeys)
  BY TradingAppAssumption
<1>2. Len(MyKeys) \in Nat /\ DOMAIN MyKeys = 1..Len(MyKeys) /\ 1 \in DOMAIN MyKeys
  BY <1>1
<1>3. \A n \in DOMAIN MyKeys : MyKeys[n] \in Keys /\ MyKeys[n] \in Range(MyKeys)
  BY <1>1 DEF Range
<1>4. \A n, k \in DOMAIN MyKeys : MyKeys[n] = MyKeys[k] => n = k
  BY <1>1 DEF IsInjective
<1> QED
  BY <1>1, <1>2, <1>3, <1>4

LEMMA NewsConcat ==
    ASSUME NEW a, IsNews(a), NEW b, IsNews(b)
    PROVE  /\ IsNews(a \o b)
           /\ \A key : Spares(key, a) /\ Spares(key, b) => Spares(key, a \o b)
<1>1. PICK M : a \in Seq(M) /\ \A m \in M : Readable(m)
  BY DEF IsNews
<1>2. PICK N : b \in Seq(N) /\ \A m \in N : Readable(m)
  BY DEF IsNews
<1> DEFINE c == a \o b
<1>3. a \in Seq(M \cup N) /\ b \in Seq(M \cup N) /\ \A m \in M \cup N : Readable(m)
  BY <1>1, <1>2
<1>4. c \in Seq(M \cup N)
  BY <1>3
<1>5. \A x \in ToSet(c) : x \in ToSet(a) \/ x \in ToSet(b)
  BY <1>3, ConcatRange
<1> HIDE DEF c
<1>6. ASSUME NEW key, Spares(key, a), Spares(key, b)
      PROVE  Spares(key, c)
  BY <1>5, <1>6 DEF Spares, ToSet
<1>7. IsNews(c)
  BY <1>3, <1>4 DEF IsNews
<1> QED
  BY <1>6, <1>7 DEF c

LEMMA NewsTail ==
    ASSUME NEW q, IsNews(q), q # <<>>
    PROVE  /\ IsNews(Tail(q)) /\ Readable(Head(q))
           /\ \A key : Spares(key, q) => Spares(key, Tail(q)) /\ ~Concerns(Head(q), key)
<1>1. PICK M : q \in Seq(M) /\ \A m \in M : Readable(m)
  BY DEF IsNews
<1> DEFINE t == Tail(q)
<1>2. /\ t \in Seq(M) /\ Head(q) \in M /\ 1 \in DOMAIN q /\ Head(q) = q[1]
      /\ \A i \in DOMAIN t : i + 1 \in DOMAIN q /\ t[i] = q[i + 1]
  BY <1>1
<1> HIDE DEF t
<1> QED
  BY <1>1, <1>2 DEF IsNews, Spares, t

\* What a step of the engine means for an order that it does not enter.
LEMMA ServesTracks ==
    ASSUME NEW n, Tracks(n), IsNews(to_app), Serves(MyKeys[n]),
           to_app' = to_app \o outputs', my_orders' = my_orders,
           Entered(n)' <=> Entered(n),
           ~Entered(n) => Spares(MyKeys[n], outputs')
    PROVE  Tracks(n)'
<1> DEFINE key == MyKeys[n]
<1>1. IsNews(outputs') /\ Tells(key) /\ (uses[key] = 0 => uses'[key] = 0)
  BY DEF Serves
<1>2. PICK M : to_app \in Seq(M)
  BY DEF IsNews
<1>3. PICK N : outputs' \in Seq(N)
  BY <1>1 DEF IsNews
<1>4. CASE Entered(n)
  <2>1. Reaches(my_orders[n], to_app, MyLevels, key)
    BY <1>4 DEF Tracks
  <2>2. Reaches(my_orders[n], to_app \o outputs', MyLevels', key)
    BY <1>1, <1>2, <1>3, <2>1, ReachesConcat DEF Tells
  <2> QED
    BY <1>4, <2>2 DEF Tracks
<1>5. CASE ~Entered(n)
  <2>1. /\ uses[key] = 0 /\ Spares(key, to_app)
        /\ n \in DOMAIN my_orders =>
             my_orders[n].status = "Pending" /\ my_orders[n].filled_qty = 0
    BY <1>5 DEF Tracks
  <2>2. Spares(key, to_app \o outputs')
    BY <1>1, <1>5, <2>1, NewsConcat
  <2> QED
    BY <1>1, <1>5, <2>1, <2>2 DEF Tracks
<1> QED
  BY <1>4, <1>5

\* The messages of a step of the engine tell its new tops.
Published ==
    feed' = [symbol \in Symbols |-> Observe(feed[symbol], OfSymbol(symbol, outputs'))]

LEMMA PublishedDisplay ==
    ASSUME FeedCoherent, FeedCoherent', alive, alive', Published, DisplayCoherent,
           IsNews(to_app), IsNews(outputs'),
           to_app' = to_app \o outputs', shown' = shown
    PROVE  DisplayCoherent'
<1>1. Symbol \in Symbols
  BY TradingAppAssumption
<1>2. feed[Symbol] = Snapshot(MyLevels) /\ feed'[Symbol] = Snapshot(MyLevels')
  BY <1>1 DEF FeedCoherent, MyLevels
<1>3. feed'[Symbol] = Observe(feed[Symbol], OfSymbol(Symbol, outputs'))
  BY <1>1 DEF Published
<1>4. PICK M : to_app \in Seq(M)
  BY DEF IsNews
<1>5. PICK N : outputs' \in Seq(N)
  BY DEF IsNews
<1> DEFINE a == OfSymbol(Symbol, to_app)
           b == OfSymbol(Symbol, outputs')
<1>6. /\ OfSymbol(Symbol, to_app \o outputs') = a \o b
      /\ a \in Seq(M \cup N) /\ b \in Seq(M \cup N)
  <2>1. to_app \in Seq(M \cup N) /\ outputs' \in Seq(M \cup N)
    BY <1>4, <1>5
  <2>2. /\ OfSymbol(Symbol, to_app \o outputs') = a \o b
        /\ a \in Seq(M \cup N)
    BY <2>1, OfSymbolConcat
  <2>3. b \in Seq(M \cup N)
    BY <2>1, OfSymbolConcat
  <2> QED
    BY <2>2, <2>3
<1>7. Observe(shown, a) = Snapshot(MyLevels)
  BY DEF DisplayCoherent, MyLevels
<1> HIDE DEF a, b
<1>8. Observe(shown, a \o b) = Observe(Observe(shown, a), b)
  BY <1>6, ObserveConcat
<1>9. Observe(shown, a \o b) = Snapshot(MyLevels')
  BY <1>2, <1>3, <1>7, <1>8 DEF b
<1> QED
  BY <1>6, <1>9 DEF DisplayCoherent, MyLevels

\* A step that leaves the engine alone keeps its invariant.
LEMMA EngineStutters ==
    ASSUME EngineInv, UNCHANGED vars
    PROVE  EngineInv'
<1>1. [Next]_vars
  OBVIOUS
<1> QED
  BY <1>1, EngineInvStep

LEMMA InitTradingInv == InitApp => TradingInv
<1> SUFFICES ASSUME InitApp
             PROVE  TradingInv
  OBVIOUS
<1>1. /\ Init /\ to_network = <<>> /\ to_app = <<>> /\ my_orders = <<>>
      /\ shown = NoTop /\ cancelling = {}
  BY DEF InitApp
<1>2. /\ order_books = <<>> /\ order_to_symbol = <<>> /\ alive
      /\ uses = [key \in Keys |-> 0]
  BY <1>1 DEF Init
<1>3. DOMAIN order_books = {} /\ DOMAIN order_to_symbol = {} /\ MyLevels = EmptyLevels
  BY <1>2 DEF MyLevels, BookOf, NewBook
<1>4. EngineInv
  BY <1>1, InitEngineInv
<1>5. BooksPositive
  BY <1>3 DEF BooksPositive
<1>6. AppTypeOK
  <2>1. /\ my_orders \in Seq(MyOrders) /\ Len(my_orders) = 0
        /\ to_network \in Seq(Commands) /\ IsNews(to_app)
    BY <1>1 DEF IsNews
  <2>2. shown = [side \in Sides |-> shown[side]]
    BY <1>1 DEF NoTop
  <2> QED
    BY <1>1, <1>2, <2>1, <2>2, MyKeysFacts DEF AppTypeOK
<1>7. CommandsMatch /\ CancelsKept
  BY <1>1 DEF CommandsMatch, CancelsKept
<1>8. ASSUME NEW n \in DOMAIN MyKeys
      PROVE  Private(MyKeys[n]) /\ Tracks(n)
  <2>1. MyKeys[n] \in Keys /\ uses[MyKeys[n]] = 0
    BY <1>2, MyKeysFacts
  <2>2. Private(MyKeys[n])
    BY <1>3, <2>1 DEF Private
  <2>3. n \notin DOMAIN my_orders /\ Spares(MyKeys[n], to_app)
    BY <1>1 DEF Spares
  <2> QED
    BY <2>1, <2>2, <2>3 DEF Tracks, Entered
<1>9. DisplayCoherent
  <2>1. OfSymbol(Symbol, <<>>) = <<>>
    <3>1. <<>> \in Seq({}) /\ ToSet(<<>>) = {}
      BY DEF ToSet
    <3> QED
      BY <3>1, OnlyAll DEF OfSymbol
  <2>2. Observe(NoTop, <<>>) = NoTop
    BY DEF Observe, NoTop
  <2> QED
    BY <1>1, <1>3, <2>1, <2>2, EmptyBook DEF DisplayCoherent, MyLevels
<1> QED
  BY <1>4, <1>5, <1>6, <1>7, <1>8, <1>9 DEF TradingInv

\* The App's next message to the engine is taken off its channel.
LEMMA TailCommands ==
    ASSUME AppTypeOK, CommandsMatch, to_network # <<>>,
           to_network' = Tail(to_network), my_orders' = my_orders
    PROVE  /\ to_network' \in Seq(Commands) /\ CommandsMatch'
           /\ Head(to_network) \in Commands
           /\ \E n \in DOMAIN my_orders : \/ Head(to_network) = NewOrderMessage(n)
                                          \/ Head(to_network) = CancelMessage(n)
           /\ \A n \in DOMAIN my_orders :
                /\ Enters(Head(to_network), n) => ~Entered(n)
                /\ Entered(n)' <=> Entered(n) \/ Enters(Head(to_network), n)
                /\ Cancels(Head(to_network), n) => Entered(n)
           /\ \A n : (\E i \in DOMAIN to_network : Cancels(to_network[i], n)) =>
                \/ Cancels(Head(to_network), n)
                \/ \E i \in DOMAIN to_network' : Cancels(to_network'[i], n)
<1> DEFINE q == to_network
           t == to_network'
<1>1. q \in Seq(Commands)
  BY DEF AppTypeOK
<1>2. /\ t \in Seq(Commands) /\ q[1] \in Commands /\ 1 \in DOMAIN q /\ Head(q) = q[1]
      /\ \A i \in DOMAIN t : i \in Nat /\ i + 1 \in DOMAIN q /\ t[i] = q[i + 1]
      /\ \A i \in DOMAIN q : i \in Nat /\ i >= 1
      /\ \A i \in DOMAIN q : i # 1 => i - 1 \in DOMAIN t /\ t[i - 1] = q[i]
  BY <1>1
<1>3. \A n : NewOrderMessage(n)' = NewOrderMessage(n)
  BY DEF NewOrderMessage
<1> HIDE DEF q, t
<1>4. /\ \A i \in DOMAIN q : \E n \in DOMAIN my_orders :
            q[i] = NewOrderMessage(n) \/ q[i] = CancelMessage(n)
      /\ \A n \in DOMAIN my_orders : \A i, j \in DOMAIN q :
            Enters(q[i], n) => /\ Enters(q[j], n) => i = j
                               /\ Cancels(q[j], n) => i < j
  BY DEF CommandsMatch, q
<1>5. ASSUME NEW n \in DOMAIN my_orders, NEW i \in DOMAIN t, NEW j \in DOMAIN t,
             Enters(t[i], n)
      PROVE  /\ Enters(t[j], n) => i = j
             /\ Cancels(t[j], n) => i < j
  <2>1. /\ Enters(q[j + 1], n) => i + 1 = j + 1
        /\ Cancels(q[j + 1], n) => i + 1 < j + 1
    BY <1>2, <1>4, <1>5
  <2> QED
    BY <1>2, <2>1
<1>6. CommandsMatch'
  BY <1>2, <1>3, <1>4, <1>5 DEF CommandsMatch, t
<1>7. ASSUME NEW n \in DOMAIN my_orders
      PROVE  /\ Enters(q[1], n) => ~Entered(n)
             /\ Entered(n)' <=> Entered(n) \/ Enters(q[1], n)
             /\ Cancels(q[1], n) => Entered(n)
  <2>1. Entered(n) <=> \A i \in DOMAIN q : ~Enters(q[i], n)
    BY <1>7 DEF Entered, q
  <2>2. Entered(n)' <=> \A i \in DOMAIN t : ~Enters(t[i], n)
    BY <1>7 DEF Entered, t
  <2>3. Enters(q[1], n) => Entered(n)'
    <3>1. ASSUME Enters(q[1], n), NEW i \in DOMAIN t, Enters(t[i], n)
          PROVE  FALSE
      <4>1. 1 = i + 1
        BY <1>2, <1>4, <3>1
      <4> QED
        BY <1>2, <4>1
    <3> QED
      BY <2>2, <3>1
  <2>4. Entered(n) => Entered(n)'
    BY <1>2, <2>1, <2>2
  <2>5. Entered(n)' /\ ~Enters(q[1], n) => Entered(n)
    BY <1>2, <2>1, <2>2
  <2>6. Cancels(q[1], n) => Entered(n)
    <3>1. ASSUME Cancels(q[1], n), NEW i \in DOMAIN q, Enters(q[i], n)
          PROVE  FALSE
      <4>1. i < 1
        BY <1>2, <1>4, <3>1
      <4> QED
        BY <1>2, <4>1
    <3> QED
      BY <2>1, <3>1
  <2> QED
    BY <1>2, <2>1, <2>3, <2>4, <2>5, <2>6
<1>8. \A n : (\E i \in DOMAIN q : Cancels(q[i], n)) =>
         Cancels(q[1], n) \/ \E i \in DOMAIN t : Cancels(t[i], n)
  BY <1>2
<1> QED
  BY <1>2, <1>4, <1>6, <1>7, <1>8 DEF q, t

\* A step of the engine that does not enter the n-th order, and one that does.
Continues(n) ==
    /\ Serves(MyKeys[n])
    /\ Entered(n)' <=> Entered(n)
    /\ ~Entered(n) => Spares(MyKeys[n], outputs')

Begins(n) ==
    /\ ~Entered(n) /\ Entered(n)'
    /\ IsNews(outputs') /\ BooksPositive' /\ Private(MyKeys[n])'
    /\ Reaches(my_orders[n], outputs', MyLevels', MyKeys[n])

LEMMA BeginsTracks ==
    ASSUME NEW n, Tracks(n), IsNews(to_app), n \in DOMAIN my_orders,
           my_orders[n] \in MyOrders, Begins(n),
           to_app' = to_app \o outputs', my_orders' = my_orders
    PROVE  Tracks(n)'
<1> DEFINE mine == my_orders[n]
           key  == MyKeys[n]
           lv   == MyLevels'
<1>1. PICK M : to_app \in Seq(M)
  BY DEF IsNews
<1>2. PICK N : outputs' \in Seq(N)
  BY DEF Begins, IsNews
<1>3. Spares(key, to_app) /\ mine.status = "Pending"
  BY DEF Tracks, Begins
<1>4. PICK last \in MyOrders :
        Leads(key, mine, outputs', last, Allowed(lv, key)) /\ Agrees(last, lv, key)
  BY DEF Begins, Reaches
<1>5. "Pending" \in Allowed(lv, key)
  BY DEF Allowed, Live, Statuses
<1> HIDE DEF lv
<1>6. Leads(key, mine, to_app, mine, Allowed(lv, key))
  BY <1>1, <1>3, <1>5, LeadsSpared
<1>7. Leads(key, mine, to_app \o outputs', last, Allowed(lv, key))
  BY <1>1, <1>2, <1>4, <1>6, LeadsConcat
<1>8. Reaches(mine, to_app \o outputs', lv, key)
  BY <1>4, <1>7 DEF Reaches
<1> QED
  BY <1>8 DEF Tracks, Begins, lv

\* A step of the engine keeps the invariant when it serves every order.
LEMMA EngineActKeeps ==
    ASSUME TradingInv, EngineInv', alive', Published,
           to_app' = to_app \o outputs', UNCHANGED appVars,
           to_network' \in Seq(Commands), CommandsMatch',
           \A n \in DOMAIN MyKeys :
              Continues(n) \/ (n \in DOMAIN my_orders /\ Begins(n)),
           \A n \in DOMAIN my_orders : \A i \in DOMAIN to_network :
              Cancels(to_network[i], n) =>
                 \/ \E j \in DOMAIN to_network' : Cancels(to_network'[j], n)
                 \/ Entered(n)' /\ ~KeyRests(MyLevels', MyKeys[n])
    PROVE  TradingInv'
<1>1. /\ EngineInv /\ AppTypeOK /\ CancelsKept /\ DisplayCoherent /\ IsNews(to_app)
      /\ alive /\ my_orders' = my_orders /\ shown' = shown /\ cancelling' = cancelling
      /\ my_orders \in Seq(MyOrders) /\ Len(my_orders) <= Len(MyKeys)
      /\ cancelling \subseteq DOMAIN my_orders
      /\ \A n \in DOMAIN MyKeys : Private(MyKeys[n]) /\ Tracks(n)
  BY DEF TradingInv, AppTypeOK, appVars
<1>2. \A n \in DOMAIN my_orders : n \in DOMAIN MyKeys /\ my_orders[n] \in MyOrders
  BY <1>1, MyKeysFacts
<1>3. \A n \in DOMAIN MyKeys :
         /\ IsNews(outputs') /\ BooksPositive' /\ Private(MyKeys[n])'
         /\ Tracks(n)'
  BY <1>1, <1>2, ServesTracks, BeginsTracks DEF Continues, Begins, Serves
<1>4. IsNews(outputs') /\ BooksPositive'
  BY <1>3, MyKeysFacts
<1>5. IsNews(to_app')
  BY <1>1, <1>4, NewsConcat
<1>6. AppTypeOK'
  BY <1>1, <1>5 DEF AppTypeOK
<1>7. DisplayCoherent'
  BY <1>1, <1>4, PublishedDisplay DEF EngineInv
<1>8. ASSUME NEW n \in cancelling
      PROVE  \/ \E i \in DOMAIN to_network' : Cancels(to_network'[i], n)
             \/ Entered(n)' /\ ~KeyRests(MyLevels', MyKeys[n])
  <2>1. CASE \E i \in DOMAIN to_network : Cancels(to_network[i], n)
    BY <1>1, <2>1
  <2>2. CASE Entered(n) /\ ~KeyRests(MyLevels, MyKeys[n])
    <3>1. n \in DOMAIN MyKeys
      BY <1>1, <1>2
    <3>2. Continues(n)
      BY <2>2, <3>1 DEF Begins
    <3> QED
      BY <2>2, <3>2 DEF Continues, Serves, Tells
  <2> QED
    BY <1>1, <2>1, <2>2 DEF CancelsKept
<1>9. CancelsKept'
  BY <1>1, <1>8 DEF CancelsKept
<1> QED
  BY <1>3, <1>4, <1>6, <1>7, <1>9, MyKeysFacts DEF TradingInv

\* The next message of the App comes to the engine.
LEMMA EngineReceivesKeeps ==
    ASSUME TradingInv, EngineReceives
    PROVE  TradingInv'
<1> DEFINE message == Head(to_network)
<1>1. /\ EngineInv /\ BooksPositive /\ AppTypeOK /\ CommandsMatch
      /\ \A n \in DOMAIN MyKeys : Private(MyKeys[n]) /\ Tracks(n)
      /\ my_orders \in Seq(MyOrders) /\ Len(my_orders) <= Len(MyKeys)
  BY DEF TradingInv, AppTypeOK
<1>2. /\ to_network # <<>> /\ to_network' = Tail(to_network)
      /\ to_app' = to_app \o outputs' /\ UNCHANGED appVars /\ my_orders' = my_orders
  BY DEF EngineReceives, Broadcast, appVars
<1>3. /\ to_network' \in Seq(Commands) /\ CommandsMatch' /\ message \in Commands
      /\ \E n \in DOMAIN my_orders : \/ message = NewOrderMessage(n)
                                     \/ message = CancelMessage(n)
      /\ \A n \in DOMAIN my_orders :
           /\ Enters(message, n) => ~Entered(n)
           /\ Entered(n)' <=> Entered(n) \/ Enters(message, n)
           /\ Cancels(message, n) => Entered(n)
      /\ \A n : (\E i \in DOMAIN to_network : Cancels(to_network[i], n)) =>
           \/ Cancels(message, n)
           \/ \E i \in DOMAIN to_network' : Cancels(to_network'[i], n)
  BY <1>1, <1>2, TailCommands
<1>4. /\ \A n \in DOMAIN my_orders : n \in DOMAIN MyKeys /\ my_orders[n] \in MyOrders
      /\ \A n : n \notin DOMAIN my_orders => ~Entered(n) /\ ~Entered(n)'
  BY <1>1, <1>2, MyKeysFacts DEF Entered
<1>5. \A n \in DOMAIN MyKeys : ~Entered(n) => ~KeyRests(MyLevels, MyKeys[n])
  BY <1>1, PrivateFacts DEF Tracks
<1>6. /\ \/ message.type = "NewOrder" /\ ProcessNewOrder(Symbol, message.order)
         \/ message.type = "Cancel" /\ ProcessCancel(message.key)
         \/ message.type = "Cancel" /\ ProcessCancelUnknown(message.key)
      /\ Symbol \in Symbols
  BY TradingAppAssumption DEF EngineReceives
<1> HIDE DEF message
<1>7. CASE message.type = "NewOrder" /\ ProcessNewOrder(Symbol, message.order)
  <2>1. PICK k \in DOMAIN my_orders : message = NewOrderMessage(k)
    BY <1>3, <1>7 DEF CancelMessage
  <2>2. PICK msg : msg = message.order
    OBVIOUS
  <2>3. /\ msg.key = MyKeys[k] /\ msg.price = my_orders[k].price
        /\ msg.quantity = my_orders[k].quantity /\ msg \in NewOrders
    BY <1>3, <1>7, <2>1, <2>2 DEF NewOrderMessage, Commands
  <2>4. ProcessNewOrder(Symbol, msg)
    BY <1>7, <2>2
  <2>5. /\ EngineInv' /\ alive' /\ Published
    BY <1>1, <1>6, <2>3, <2>4, NewOrderKeeps DEF ProcessNewOrder, Return, Published
  <2>6. \A n \in DOMAIN my_orders : Enters(message, n) <=> n = k
    BY <1>4, <1>7, <2>3, <2>2, MyKeysFacts DEF Enters
  <2>7. Begins(k)
    <3>1. ~Entered(k) /\ Entered(k)'
      BY <1>3, <2>6
    <3>2. /\ uses[msg.key] = 0 /\ my_orders[k].status = "Pending"
          /\ my_orders[k].filled_qty = 0 /\ Private(msg.key) /\ my_orders[k] \in MyOrders
      BY <1>1, <1>4, <2>3, <3>1 DEF Tracks
    <3>3. /\ IsNews(outputs') /\ BooksPositive' /\ Private(msg.key)'
          /\ Reaches(my_orders[k], outputs', MyLevels', msg.key)
      BY <1>1, <1>6, <2>3, <2>4, <3>2, NewOrderEnters
    <3>4. Private(MyKeys[k])'
      BY <2>3, <3>3
    <3> QED
      BY <2>3, <3>1, <3>3, <3>4 DEF Begins
  <2>8. ASSUME NEW n \in DOMAIN MyKeys, n # k
        PROVE  Continues(n)
    <3>1. MyKeys[n] # msg.key
      BY <1>4, <2>3, <2>8, MyKeysFacts
    <3>2. Serves(MyKeys[n]) /\ (~KeyRests(MyLevels, MyKeys[n]) => Spares(MyKeys[n], outputs'))
      BY <1>1, <1>6, <2>3, <2>4, <2>8, <3>1, NewOrderServes
    <3>3. Entered(n)' <=> Entered(n)
      BY <1>3, <1>4, <2>6, <2>8
    <3> QED
      BY <1>5, <2>8, <3>2, <3>3 DEF Continues
  <2>9. \A n : ~Cancels(message, n)
    BY <1>7 DEF Cancels
  <2> QED
    BY <1>2, <1>3, <2>5, <2>7, <2>8, <2>9, EngineActKeeps
<1>8. CASE /\ message.type = "Cancel"
           /\ ProcessCancel(message.key) \/ ProcessCancelUnknown(message.key)
  <2>1. PICK k \in DOMAIN my_orders : message = CancelMessage(k)
    BY <1>3, <1>8 DEF NewOrderMessage
  <2> DEFINE key == MyKeys[k]
  <2>2. key = message.key /\ key \in Keys
    BY <1>4, <2>1, MyKeysFacts DEF CancelMessage
  <2> HIDE DEF key
  <2>3. ProcessCancel(key) \/ ProcessCancelUnknown(key)
    BY <1>8, <2>2
  <2>4. /\ EngineInv' /\ alive' /\ Published
    <3>1. EngineInv'
      BY <1>1, <2>2, <2>3, CancelKeeps, CancelUnknownKeeps
    <3> QED
      BY <2>3, <3>1 DEF ProcessCancel, ProcessCancelUnknown, Return, Published
  <2>5. \A n \in DOMAIN my_orders : ~Enters(message, n) /\ (Cancels(message, n) <=> n = k)
    BY <1>4, <1>8, <2>2, MyKeysFacts DEF Enters, Cancels, key
  <2>6. Entered(k)
    BY <1>3, <2>5
  <2>7. ASSUME NEW n \in DOMAIN MyKeys
        PROVE  /\ Continues(n)
               /\ n = k => ~KeyRests(MyLevels', MyKeys[n])
    <3>1. /\ Serves(MyKeys[n])
          /\ MyKeys[n] # key /\ ~KeyRests(MyLevels, MyKeys[n]) => Spares(MyKeys[n], outputs')
          /\ MyKeys[n] = key => ~KeyRests(MyLevels', MyKeys[n])
      BY <1>1, <2>2, <2>3, CancelServes, CancelUnknownServes
    <3>2. Entered(n)' <=> Entered(n)
      BY <1>3, <1>4, <2>5
    <3>3. MyKeys[n] = key <=> n = k
      BY <1>4, MyKeysFacts DEF key
    <3> QED
      BY <1>5, <2>6, <3>1, <3>2, <3>3 DEF Continues
  <2>8. Entered(k)' /\ ~KeyRests(MyLevels', MyKeys[k])
    BY <1>3, <1>4, <2>5, <2>6, <2>7
  <2>9. \A n \in DOMAIN my_orders : \A i \in DOMAIN to_network :
              Cancels(to_network[i], n) =>
                 \/ \E j \in DOMAIN to_network' : Cancels(to_network'[j], n)
                 \/ Entered(n)' /\ ~KeyRests(MyLevels', MyKeys[n])
    BY <1>3, <2>5, <2>8
  <2> QED
    BY <1>2, <1>3, <2>4, <2>7, <2>9, EngineActKeeps
<1> QED
  BY <1>6, <1>7, <1>8

\* Somebody else's message comes to the engine.
LEMMA OtherUserKeeps ==
    ASSUME TradingInv, OtherUserActs
    PROVE  TradingInv'
<1>1. /\ EngineInv /\ BooksPositive /\ AppTypeOK /\ CommandsMatch
      /\ \A n \in DOMAIN MyKeys : Private(MyKeys[n]) /\ Tracks(n)
  BY DEF TradingInv
<1>2. /\ to_network' = to_network /\ to_app' = to_app \o outputs'
      /\ UNCHANGED appVars /\ my_orders' = my_orders
  BY DEF OtherUserActs, Broadcast, appVars
<1>3. /\ \A n : Entered(n)' <=> Entered(n)
      /\ to_network' \in Seq(Commands) /\ CommandsMatch'
  <2>1. \A n : NewOrderMessage(n)' = NewOrderMessage(n)
    BY <1>2 DEF NewOrderMessage
  <2> QED
    BY <1>1, <1>2, <2>1 DEF Entered, CommandsMatch, AppTypeOK
<1>4. \A n \in DOMAIN MyKeys : ~Entered(n) => ~KeyRests(MyLevels, MyKeys[n])
  BY <1>1, PrivateFacts DEF Tracks
<1>5. /\ EngineInv' /\ alive' /\ Published
      /\ \A n \in DOMAIN MyKeys :
           /\ Serves(MyKeys[n])
           /\ ~KeyRests(MyLevels, MyKeys[n]) => Spares(MyKeys[n], outputs')
  <2>1. CASE \E entered \in OtherOrders : ProcessNewOrder(entered.symbol, entered.order)
    <3>1. PICK entered \in OtherOrders : ProcessNewOrder(entered.symbol, entered.order)
      BY <2>1
    <3>2. PICK symbol, msg : symbol = entered.symbol /\ msg = entered.order
      OBVIOUS
    <3>3. /\ symbol \in Symbols /\ msg \in NewOrders
          /\ \A n \in DOMAIN MyKeys : MyKeys[n] # msg.key
      BY <3>2, TradingAppAssumption, MyKeysFacts
    <3>4. ProcessNewOrder(symbol, msg)
      BY <3>1, <3>2
    <3>5. EngineInv'
      BY <1>1, <3>3, <3>4, NewOrderKeeps
    <3>6. alive' /\ Published
      BY <3>4 DEF ProcessNewOrder, Return, Published
    <3>7. \A n \in DOMAIN MyKeys :
            /\ Serves(MyKeys[n])
            /\ ~KeyRests(MyLevels, MyKeys[n]) => Spares(MyKeys[n], outputs')
      BY <1>1, <3>3, <3>4, NewOrderServes
    <3> QED
      BY <3>5, <3>6, <3>7
  <2>2. CASE \E key \in Keys \ Range(MyKeys) : ProcessCancel(key)
    <3>1. PICK key \in Keys \ Range(MyKeys) : ProcessCancel(key)
      BY <2>2
    <3>2. EngineInv'
      BY <1>1, <3>1, CancelKeeps
    <3>3. alive' /\ Published
      BY <3>1 DEF ProcessCancel, Return, Published
    <3>4. \A n \in DOMAIN MyKeys :
            /\ Serves(MyKeys[n])
            /\ ~KeyRests(MyLevels, MyKeys[n]) => Spares(MyKeys[n], outputs')
      BY <1>1, <3>1, CancelServes, MyKeysFacts
    <3> QED
      BY <3>2, <3>3, <3>4
  <2>3. CASE ProcessFlush
    <3>1. EngineInv'
      BY <1>1, <2>3, FlushKeeps
    <3>2. alive' /\ Published
      BY <2>3 DEF ProcessFlush, Return, Published
    <3> QED
      BY <1>1, <2>3, <3>1, <3>2, FlushServes
  <2>4. CASE \E symbol \in Symbols : ProcessQueryTopOfBook(symbol)
    <3>1. PICK symbol \in Symbols : ProcessQueryTopOfBook(symbol)
      BY <2>4
    <3>2. EngineInv'
      BY <1>1, <3>1, QueryKeeps
    <3>3. alive' /\ Published
      BY <3>1 DEF ProcessQueryTopOfBook, Return, Published
    <3> QED
      BY <1>1, <3>1, <3>2, <3>3, QueryServes
  <2> QED
    BY <2>1, <2>2, <2>3, <2>4 DEF OtherUserActs
<1>6. \A n \in DOMAIN MyKeys : Continues(n)
  BY <1>3, <1>4, <1>5 DEF Continues
<1> QED
  BY <1>2, <1>3, <1>5, <1>6, EngineActKeeps

\* A step of the user, which leaves the engine and the messages to the App
\* alone, keeps the invariant when every order is as it was or is new.
LEMMA UserActKeeps ==
    ASSUME TradingInv, UNCHANGED <<vars, to_app, shown>>,
           my_orders' \in Seq(MyOrders), Len(my_orders') <= Len(MyKeys),
           to_network' \in Seq(Commands), CommandsMatch',
           cancelling' \subseteq DOMAIN my_orders',
           \A n \in DOMAIN MyKeys :
              \/ /\ Entered(n)' <=> Entered(n)
                 /\ n \in DOMAIN my_orders' <=> n \in DOMAIN my_orders
                 /\ n \in DOMAIN my_orders => my_orders'[n] = my_orders[n]
              \/ /\ ~Entered(n) /\ ~Entered(n)'
                 /\ my_orders'[n].status = "Pending" /\ my_orders'[n].filled_qty = 0,
           \A n \in cancelling' :
              n \in cancelling \/ \E i \in DOMAIN to_network' : Cancels(to_network'[i], n),
           \A n : \A i \in DOMAIN to_network : Cancels(to_network[i], n) =>
              \E j \in DOMAIN to_network' : Cancels(to_network'[j], n)
    PROVE  TradingInv'
<1>1. /\ EngineInv /\ BooksPositive /\ AppTypeOK /\ CancelsKept /\ DisplayCoherent
      /\ \A n \in DOMAIN MyKeys : Private(MyKeys[n]) /\ Tracks(n)
      /\ UNCHANGED <<order_books, order_to_symbol, uses, alive, to_app, shown>>
      /\ Len(my_orders) <= Len(MyKeys) /\ my_orders \in Seq(MyOrders)
      /\ cancelling \subseteq DOMAIN my_orders
  BY DEF TradingInv, AppTypeOK, vars
<1>2. EngineInv'
  BY <1>1, EngineStutters
<1>3. MyLevels' = MyLevels /\ BooksPositive' /\ DisplayCoherent'
  BY <1>1 DEF MyLevels, BookOf, BooksPositive, DisplayCoherent
<1>4. AppTypeOK'
  BY <1>1 DEF AppTypeOK
<1>5. ASSUME NEW n \in DOMAIN MyKeys
      PROVE  Private(MyKeys[n])' /\ Tracks(n)'
  <2>1. Private(MyKeys[n])'
    BY <1>1 DEF Private
  <2>2. Tracks(n)'
    <3>1. CASE /\ Entered(n)' <=> Entered(n)
               /\ n \in DOMAIN my_orders' <=> n \in DOMAIN my_orders
               /\ n \in DOMAIN my_orders => my_orders'[n] = my_orders[n]
      <4>1. Entered(n) => n \in DOMAIN my_orders
        BY DEF Entered
      <4> QED
        BY <1>1, <1>3, <3>1, <4>1 DEF Tracks
    <3>2. CASE /\ ~Entered(n) /\ ~Entered(n)'
               /\ my_orders'[n].status = "Pending" /\ my_orders'[n].filled_qty = 0
      BY <1>1, <3>2 DEF Tracks
    <3> QED
      BY <3>1, <3>2
  <2> QED
    BY <2>1, <2>2
<1>6. \A n \in cancelling : n \in DOMAIN MyKeys
  BY <1>1, MyKeysFacts
<1>7. CancelsKept'
  BY <1>1, <1>3, <1>6 DEF CancelsKept
<1> QED
  BY <1>2, <1>3, <1>4, <1>5, <1>7 DEF TradingInv

\* The user cancels some of the orders: CancelSelectedOrder, CancelAllOrders.
LEMMA CancelsSent ==
    ASSUME TradingInv, UNCHANGED <<vars, to_app, my_orders, shown>>,
           NEW picked \in Seq(DOMAIN my_orders),
           to_network' = to_network \o [i \in DOMAIN picked |-> CancelMessage(picked[i])],
           cancelling' = cancelling \cup ToSet(picked)
    PROVE  TradingInv'
<1> DEFINE extra == [i \in DOMAIN picked |-> CancelMessage(picked[i])]
           q == to_network
           p == to_network'
           m == Len(q)
           k == Len(extra)
<1>1. /\ CommandsMatch /\ q \in Seq(Commands) /\ my_orders' = my_orders
      /\ my_orders \in Seq(MyOrders) /\ Len(my_orders) <= Len(MyKeys)
      /\ cancelling \subseteq DOMAIN my_orders
  BY DEF TradingInv, AppTypeOK
<1>2. \A n \in DOMAIN my_orders : n \in DOMAIN MyKeys /\ CancelMessage(n) \in Commands
  <2>1. \A n \in DOMAIN my_orders : n \in DOMAIN MyKeys
    BY <1>1, MyKeysFacts
  <2> QED
    BY <2>1, MyKeysFacts DEF CancelMessage, Commands
<1>3. /\ extra \in Seq(Commands) /\ k \in Nat /\ DOMAIN extra = 1..k
      /\ DOMAIN picked = DOMAIN extra
      /\ \A i \in 1..k : picked[i] \in DOMAIN my_orders /\ extra[i] = CancelMessage(picked[i])
  <2>1. /\ DOMAIN extra = 1..Len(picked) /\ Len(picked) \in Nat /\ DOMAIN picked = 1..Len(picked)
        /\ \A i \in 1..Len(picked) :
              picked[i] \in DOMAIN my_orders /\ extra[i] = CancelMessage(picked[i])
    OBVIOUS
  <2>2. extra \in [1..Len(picked) -> Commands]
    BY <1>2, <2>1
  <2>3. extra \in Seq(Commands) /\ k = Len(picked)
    BY <2>1, <2>2
  <2> HIDE DEF extra
  <2> QED
    BY <2>1, <2>3
<1>4. /\ p \in Seq(Commands) /\ m \in Nat /\ DOMAIN q = 1..m /\ DOMAIN p = 1..(m + k)
      /\ \A i \in 1..(m + k) : p[i] = IF i <= m THEN q[i] ELSE extra[i - m]
  <2> HIDE DEF extra
  <2>1. p = q \o extra
    BY DEF extra
  <2>2. /\ q \o extra \in Seq(Commands) /\ Len(q \o extra) = m + k
        /\ \A i \in 1..(m + k) : (q \o extra)[i] = IF i <= m THEN q[i] ELSE extra[i - m]
    BY <1>1, <1>3, ConcatProperties
  <2> HIDE DEF p
  <2> QED
    BY <1>1, <2>1, <2>2
<1> HIDE DEF extra, m, k, p, q
<1>5. /\ \A i \in DOMAIN q : i \in DOMAIN p /\ p[i] = q[i] /\ i \in Nat /\ i <= m
      /\ \A i \in DOMAIN p : i \in Nat /\ (i \in DOMAIN q \/
            (i > m /\ \E n \in DOMAIN my_orders : p[i] = CancelMessage(n)))
      /\ \A i \in DOMAIN picked : \E j \in DOMAIN p : p[j] = CancelMessage(picked[i])
  <2>1. \A i \in DOMAIN q : i \in DOMAIN p /\ p[i] = q[i] /\ i \in Nat /\ i <= m
    BY <1>3, <1>4
  <2>2. ASSUME NEW i \in DOMAIN p, i \notin DOMAIN q
        PROVE  i > m /\ \E n \in DOMAIN my_orders : p[i] = CancelMessage(n)
    <3>1. i - m \in 1..k /\ ~(i <= m) /\ i > m
      BY <1>3, <1>4, <2>2
    <3> QED
      BY <1>3, <1>4, <3>1
  <2>3. ASSUME NEW i \in DOMAIN picked
        PROVE  \E j \in DOMAIN p : p[j] = CancelMessage(picked[i])
    <3>1. i + m \in DOMAIN p /\ ~(i + m <= m) /\ (i + m) - m = i /\ i \in 1..k
      BY <1>3, <1>4
    <3>2. p[i + m] = extra[i]
      BY <1>4, <3>1
    <3> QED
      BY <1>3, <3>1, <3>2
  <2> QED
    BY <1>3, <1>4, <2>1, <2>2, <2>3
<1>6. \A n, k1 : ~Enters(CancelMessage(n), k1) /\ Cancels(CancelMessage(n), n)
  BY DEF Enters, Cancels, CancelMessage
<1>7. \A n : Entered(n)' <=> Entered(n)
  <2>1. \A n : (\E i \in DOMAIN p : Enters(p[i], n)) <=> \E i \in DOMAIN q : Enters(q[i], n)
    BY <1>5, <1>6
  <2> QED
    BY <1>1, <2>1 DEF Entered, p, q
<1>8. /\ \A i \in DOMAIN q : \E n \in DOMAIN my_orders :
            q[i] = NewOrderMessage(n) \/ q[i] = CancelMessage(n)
      /\ \A n \in DOMAIN my_orders : \A i, j \in DOMAIN q :
            Enters(q[i], n) => /\ Enters(q[j], n) => i = j
                               /\ Cancels(q[j], n) => i < j
  BY <1>1 DEF CommandsMatch, q
<1>9. CommandsMatch'
  <2>1. \A n : NewOrderMessage(n)' = NewOrderMessage(n)
    BY <1>1 DEF NewOrderMessage
  <2>2. \A i \in DOMAIN p : \E n \in DOMAIN my_orders :
            p[i] = NewOrderMessage(n) \/ p[i] = CancelMessage(n)
    BY <1>5, <1>8
  <2>3. ASSUME NEW n \in DOMAIN my_orders, NEW i \in DOMAIN p, NEW j \in DOMAIN p,
               Enters(p[i], n)
        PROVE  /\ Enters(p[j], n) => i = j
               /\ Cancels(p[j], n) => i < j
    <3>1. i \in DOMAIN q /\ Enters(q[i], n)
      BY <1>5, <1>6, <2>3
    <3>2. CASE j \in DOMAIN q
      BY <1>5, <1>8, <3>1, <3>2
    <3>3. CASE j \notin DOMAIN q
      <4>1. j > m /\ i <= m /\ ~Enters(p[j], n) /\ i \in Nat /\ j \in Nat
        BY <1>5, <1>6, <3>1, <3>3
      <4> QED
        BY <1>4, <4>1
    <3> QED
      BY <3>2, <3>3
  <2> QED
    BY <1>1, <2>1, <2>2, <2>3 DEF CommandsMatch, p
<1>10. cancelling' \subseteq DOMAIN my_orders
  BY <1>1, <1>3 DEF ToSet
<1>11. \A n \in cancelling' : n \in cancelling \/ \E i \in DOMAIN p : Cancels(p[i], n)
  BY <1>5, <1>6 DEF ToSet
<1>12. \A n : \A i \in DOMAIN q : Cancels(q[i], n) => \E j \in DOMAIN p : Cancels(p[j], n)
  BY <1>5
<1> QED
  BY <1>1, <1>4, <1>7, <1>9, <1>10, <1>11, <1>12, UserActKeeps DEF p, q

LEMMA CancelKeysKeep ==
    ASSUME TradingInv,
           (\E n \in DOMAIN my_orders : CancelSelectedOrder(n)) \/ CancelAllOrders
    PROVE  TradingInv'
<1>1. to_network \in Seq(Commands) /\ my_orders \in Seq(MyOrders)
  BY DEF TradingInv, AppTypeOK
<1>2. ASSUME NEW n \in DOMAIN my_orders, CancelSelectedOrder(n)
      PROVE  TradingInv'
  <2> DEFINE picked == <<n>>
             cancels == [i \in DOMAIN picked |-> CancelMessage(picked[i])]
  <2>1. picked \in Seq(DOMAIN my_orders) /\ ToSet(picked) = {n}
    BY DEF ToSet
  <2>2. cancels = <<CancelMessage(n)>>
    <3>1. DOMAIN picked = 1..1 /\ picked[1] = n
      OBVIOUS
    <3> HIDE DEF picked
    <3> QED
      BY <3>1
  <2>3. Append(to_network, CancelMessage(n)) = to_network \o <<CancelMessage(n)>>
    <3>1. /\ to_network \in Seq(Commands \cup {CancelMessage(n)})
          /\ CancelMessage(n) \in Commands \cup {CancelMessage(n)}
      BY <1>1
    <3> QED
      BY <3>1, AppendIsConcat
  <2>4. /\ UNCHANGED <<vars, to_app, my_orders, shown>>
        /\ to_network' = to_network \o cancels /\ cancelling' = cancelling \cup ToSet(picked)
    BY <1>2, <2>1, <2>2, <2>3 DEF CancelSelectedOrder
  <2> HIDE DEF picked
  <2> QED
    BY <2>1, <2>4, CancelsSent
<1>3. ASSUME CancelAllOrders
      PROVE  TradingInv'
  <2>1. OpenOrders \in Seq(DOMAIN my_orders)
    <3> DEFINE all == [n \in DOMAIN my_orders |-> n]
    <3>1. all \in Seq(DOMAIN my_orders)
      BY <1>1
    <3> HIDE DEF all
    <3> QED
      BY <3>1, OnlyRange DEF OpenOrders, all
  <2>2. /\ UNCHANGED <<vars, to_app, my_orders, shown>>
        /\ to_network' = to_network \o [i \in DOMAIN OpenOrders |-> CancelMessage(OpenOrders[i])]
        /\ cancelling' = cancelling \cup ToSet(OpenOrders)
    BY <1>3 DEF CancelAllOrders
  <2>3. PICK picked : picked = OpenOrders
    OBVIOUS
  <2> QED
    BY <2>1, <2>2, <2>3, CancelsSent
<1> QED
  BY <1>2, <1>3

LEMMA SubmitKeeps ==
    ASSUME TradingInv, NEW side \in Sides, NEW price \in {DefaultPrice, Market},
           NEW quantity \in MyQuantities, SubmitInput(side, price, quantity)
    PROVE  TradingInv'
<1>. PICK next : next = Len(my_orders) + 1
  OBVIOUS
<1>. PICK m : m = Len(to_network)
  OBVIOUS
<1>. PICK order : order = [side |-> side, price |-> price, quantity |-> quantity,
                           filled_qty |-> 0, status |-> "Pending"]
  OBVIOUS
<1>. PICK command : command = [type |-> "NewOrder",
                         order |-> [key |-> MyKeys[next], side |-> side,
                                    price |-> price, quantity |-> quantity]]
  OBVIOUS
<1>1. /\ CommandsMatch /\ to_network \in Seq(Commands) /\ my_orders \in Seq(MyOrders)
      /\ cancelling \subseteq DOMAIN my_orders
      /\ \A n \in DOMAIN MyKeys : Tracks(n)
  BY DEF TradingInv, AppTypeOK
<1>2. /\ next <= Len(MyKeys) /\ my_orders' = Append(my_orders, order)
      /\ to_network' = Append(to_network, command)
      /\ UNCHANGED <<vars, to_app, shown>> /\ cancelling' = cancelling
  BY DEF SubmitInput
<1>3. order \in MyOrders /\ order.status = "Pending" /\ order.filled_qty = 0
  <2>1. quantity \in Nat \ {0}
    BY TradingAppAssumption, BookAssumption
  <2> QED
    BY <2>1 DEF MyOrders, Statuses
<1>4. next \in DOMAIN MyKeys /\ next \notin DOMAIN my_orders /\ Len(my_orders) \in Nat
  BY <1>1, <1>2, MyKeysFacts
<1>5. command \in Commands /\ command.type = "NewOrder" /\ command.order.key = MyKeys[next]
  <2>1. MyKeys[next] \in Keys /\ price \in Prices \cup {Market} /\ quantity \in Quantities
    BY <1>4, MyKeysFacts, TradingAppAssumption
  <2> QED
    BY <2>1 DEF Commands, NewOrders
<1>6. /\ my_orders' \in Seq(MyOrders) /\ Len(my_orders') = next
      /\ DOMAIN my_orders' = DOMAIN my_orders \cup {next}
      /\ my_orders'[next] = order
      /\ \A n \in DOMAIN my_orders : my_orders'[n] = my_orders[n]
  <2> QED
    BY <1>1, <1>2, <1>3
<1>7. command = NewOrderMessage(next)'
  BY <1>6 DEF NewOrderMessage
<1>8. \A n \in DOMAIN my_orders : NewOrderMessage(n)' = NewOrderMessage(n)
  BY <1>6 DEF NewOrderMessage
<1>9. /\ to_network' \in Seq(Commands) /\ m \in Nat
      /\ DOMAIN to_network = 1..m /\ DOMAIN to_network' = 1..(m + 1)
      /\ to_network'[m + 1] = command
      /\ \A i \in 1..m : to_network'[i] = to_network[i]
  BY <1>1, <1>2, <1>5
<1>10. /\ \A i \in DOMAIN to_network : i \in DOMAIN to_network' /\ to_network'[i] = to_network[i]
       /\ \A i \in DOMAIN to_network' : i \in DOMAIN to_network \/ to_network'[i] = command
       /\ m + 1 \in DOMAIN to_network' /\ \A i \in DOMAIN to_network' : i \notin DOMAIN to_network => i = m + 1
  BY <1>9
<1>11. /\ \A i \in DOMAIN to_network : \E n \in DOMAIN my_orders :
            to_network[i] = NewOrderMessage(n) \/ to_network[i] = CancelMessage(n)
       /\ \A n \in DOMAIN my_orders : \A i, j \in DOMAIN to_network :
            Enters(to_network[i], n) => /\ Enters(to_network[j], n) => i = j
                                        /\ Cancels(to_network[j], n) => i < j
  BY <1>1 DEF CommandsMatch
<1>12. \A n \in DOMAIN my_orders : n \in DOMAIN MyKeys
  BY <1>1, <1>2, <1>4, MyKeysFacts
<1>13. /\ \A n \in DOMAIN MyKeys : Enters(command, n) <=> n = next
       /\ \A n : ~Cancels(command, n)
  BY <1>4, <1>5, MyKeysFacts DEF Enters, Cancels
<1>14. \A i \in DOMAIN to_network : ~Enters(to_network[i], next) /\ ~Cancels(to_network[i], next)
  <2>1. ASSUME NEW i \in DOMAIN to_network
        PROVE  ~Enters(to_network[i], next) /\ ~Cancels(to_network[i], next)
    <3>1. PICK n \in DOMAIN my_orders :
             to_network[i] = NewOrderMessage(n) \/ to_network[i] = CancelMessage(n)
      BY <1>11
    <3>2. MyKeys[n] # MyKeys[next]
      BY <1>4, <1>12, MyKeysFacts
    <3> QED
      BY <3>1, <3>2 DEF Enters, Cancels, NewOrderMessage, CancelMessage
  <2> QED
    BY <2>1
<1>15. CommandsMatch'
  <2>1. \A i \in DOMAIN to_network' : \E n \in DOMAIN my_orders' :
            to_network'[i] = NewOrderMessage(n)' \/ to_network'[i] = CancelMessage(n)
    <3>1. ASSUME NEW i \in DOMAIN to_network', i \in DOMAIN to_network
          PROVE  \E n \in DOMAIN my_orders' :
                    to_network'[i] = NewOrderMessage(n)' \/ to_network'[i] = CancelMessage(n)
      <4>1. PICK n \in DOMAIN my_orders :
               to_network[i] = NewOrderMessage(n) \/ to_network[i] = CancelMessage(n)
        BY <1>11, <3>1
      <4> QED
        BY <1>6, <1>8, <1>10, <3>1, <4>1
    <3> QED
      BY <1>6, <1>7, <1>10, <3>1
  <2>2. ASSUME NEW n \in DOMAIN my_orders', NEW i \in DOMAIN to_network',
               NEW j \in DOMAIN to_network', Enters(to_network'[i], n)
        PROVE  /\ Enters(to_network'[j], n) => i = j
               /\ Cancels(to_network'[j], n) => i < j
    <3>1. CASE n = next
      BY <1>10, <1>13, <1>14, <2>2, <3>1
    <3>2. CASE n # next
      <4>1. n \in DOMAIN my_orders /\ n \in DOMAIN MyKeys
        BY <1>6, <1>12, <3>2
      <4>2. i \in DOMAIN to_network /\ Enters(to_network[i], n)
        BY <1>10, <1>13, <2>2, <3>2, <4>1
      <4>3. ASSUME Enters(to_network'[j], n) \/ Cancels(to_network'[j], n)
            PROVE  j \in DOMAIN to_network /\ to_network'[j] = to_network[j]
        BY <1>10, <1>13, <3>2, <4>1, <4>3
      <4> QED
        BY <1>11, <4>1, <4>2, <4>3
    <3> QED
      BY <3>1, <3>2
  <2> QED
    BY <2>1, <2>2 DEF CommandsMatch
<1>16. ASSUME NEW n \in DOMAIN MyKeys
       PROVE  \/ /\ Entered(n)' <=> Entered(n)
                 /\ n \in DOMAIN my_orders' <=> n \in DOMAIN my_orders
                 /\ n \in DOMAIN my_orders => my_orders'[n] = my_orders[n]
              \/ /\ ~Entered(n) /\ ~Entered(n)'
                 /\ my_orders'[n].status = "Pending" /\ my_orders'[n].filled_qty = 0
  <2>1. CASE n = next
    <3>1. ~Entered(n) /\ ~Entered(n)'
      BY <1>4, <1>6, <1>9, <1>10, <1>13, <2>1 DEF Entered
    <3> QED
      BY <1>3, <1>6, <2>1, <3>1
  <2>2. CASE n # next
    <3>1. n \in DOMAIN my_orders' <=> n \in DOMAIN my_orders
      BY <1>6, <2>2
    <3>2. (\E i \in DOMAIN to_network' : Enters(to_network'[i], n)) <=>
             \E i \in DOMAIN to_network : Enters(to_network[i], n)
      BY <1>10, <1>13, <2>2
    <3>3. Entered(n)' <=> Entered(n)
      BY <3>1, <3>2 DEF Entered
    <3> QED
      BY <1>6, <3>1, <3>3
  <2> QED
    BY <2>1, <2>2
<1>17. cancelling' \subseteq DOMAIN my_orders'
  BY <1>1, <1>2, <1>6
<1>18. /\ \A n \in cancelling' : n \in cancelling
       /\ \A n : \A i \in DOMAIN to_network : Cancels(to_network[i], n) =>
              \E j \in DOMAIN to_network' : Cancels(to_network'[j], n)
  BY <1>2, <1>10
<1>19. Len(my_orders') <= Len(MyKeys)
  BY <1>2, <1>6
<1> QED
  BY <1>2, <1>6, <1>9, <1>15, <1>16, <1>17, <1>18, <1>19, UserActKeeps

-----------------------------------------------------------------------------
(* The messages the App receives.                                          *)

\* The messages under way are about no order of the user more than once.
LEMMA HeadFacts ==
    ASSUME TradingInv, to_app # <<>>, NEW n \in DOMAIN my_orders
    PROVE  /\ n \in DOMAIN MyKeys /\ my_orders[n] \in MyOrders
           /\ Readable(Head(to_app)) /\ TradesOnce(Head(to_app), MyKeys[n])
<1>1. /\ my_orders \in Seq(MyOrders) /\ Len(my_orders) <= Len(MyKeys) /\ IsNews(to_app)
  BY DEF TradingInv, AppTypeOK
<1>2. n \in DOMAIN MyKeys /\ my_orders[n] \in MyOrders
  BY <1>1, MyKeysFacts
<1>3. Tracks(n)
  BY <1>2 DEF TradingInv
<1>4. PICK M : to_app \in Seq(M)
  BY <1>1 DEF IsNews
<1>5. CASE Entered(n)
  <2>1. Reaches(my_orders[n], to_app, MyLevels, MyKeys[n])
    BY <1>3, <1>5 DEF Tracks
  <2> QED
    BY <1>1, <1>2, <1>4, <2>1, ReachesTail, NewsTail
<1>6. CASE ~Entered(n)
  <2>1. ~Concerns(Head(to_app), MyKeys[n])
    BY <1>1, <1>3, <1>6, NewsTail DEF Tracks
  <2>2. TradesOnce(Head(to_app), MyKeys[n])
    BY <2>1 DEF TradesOnce, Concerns, Names
  <2> QED
    BY <1>1, <1>2, <2>2, NewsTail
<1> QED
  BY <1>5, <1>6

\* Every handler does to each order what Handled says.
LEMMA HandlersHandle ==
    ASSUME TradingInv, HandleEngineMessage
    PROVE  /\ to_app # <<>> /\ to_app' = Tail(to_app)
           /\ UNCHANGED <<vars, to_network, cancelling>>
           /\ my_orders' = [n \in DOMAIN my_orders |->
                              Handled(my_orders[n], Head(to_app), MyKeys[n])]
           /\ shown' = IF /\ Head(to_app).type = "TopOfBook"
                          /\ Head(to_app).symbol = Symbol
                       THEN [shown EXCEPT ![Head(to_app).side] = Told(Head(to_app))]
                       ELSE shown
<1>. PICK m : m = Head(to_app)
  OBVIOUS
<1>1. my_orders = [n \in DOMAIN my_orders |-> my_orders[n]]
  BY DEF TradingInv, AppTypeOK
<1>2. CASE HandleAck
  <2>1. m.type = "Ack" /\ shown' = shown
    BY <1>2 DEF HandleAck, Receive
  <2>2. \A n \in DOMAIN my_orders : Handled(my_orders[n], m, MyKeys[n]) =
           IF MyKeys[n] = m.key THEN [my_orders[n] EXCEPT !.status = "Open"] ELSE my_orders[n]
    BY <2>1 DEF Handled
  <2>3. my_orders' = [n \in DOMAIN my_orders |-> Handled(my_orders[n], m, MyKeys[n])]
    BY <1>2, <2>2 DEF HandleAck, WithStatus
  <2> QED
    BY <1>2, <2>1, <2>3 DEF HandleAck, Receive
<1>3. CASE HandleCancelAck
  <2>1. m.type = "CancelAck" /\ shown' = shown
    BY <1>3 DEF HandleCancelAck, Receive
  <2>2. \A n \in DOMAIN my_orders : Handled(my_orders[n], m, MyKeys[n]) =
           IF MyKeys[n] = m.key THEN [my_orders[n] EXCEPT !.status = "Cancelled"]
           ELSE my_orders[n]
    BY <2>1 DEF Handled
  <2>3. my_orders' = [n \in DOMAIN my_orders |-> Handled(my_orders[n], m, MyKeys[n])]
    BY <1>3, <2>2 DEF HandleCancelAck, WithStatus
  <2> QED
    BY <1>3, <2>1, <2>3 DEF HandleCancelAck, Receive
<1>4. CASE HandleTrade
  <2>1. m.type = "Trade" /\ shown' = shown /\ to_app # <<>>
    BY <1>4 DEF HandleTrade, Receive
  <2>2. my_orders' = WithFill(WithFill(my_orders, m.buy, m.quantity), m.sell, m.quantity)
    BY <1>4 DEF HandleTrade
  <2>. PICK once : once = WithFill(my_orders, m.buy, m.quantity)
    OBVIOUS
  <2>3. /\ DOMAIN once = DOMAIN my_orders
        /\ \A n \in DOMAIN my_orders : once[n] =
             IF MyKeys[n] = m.buy THEN FilledBy(my_orders[n], m.quantity) ELSE my_orders[n]
    BY DEF WithFill
  <2>4. my_orders' = [n \in DOMAIN my_orders |->
           IF MyKeys[n] = m.sell THEN FilledBy(once[n], m.quantity) ELSE once[n]]
    BY <2>2, <2>3 DEF WithFill
  <2>5. \A n \in DOMAIN my_orders : ~(MyKeys[n] = m.buy /\ MyKeys[n] = m.sell)
    BY <2>1, HeadFacts DEF TradesOnce
  <2>6. \A n \in DOMAIN my_orders : Handled(my_orders[n], m, MyKeys[n]) =
           IF MyKeys[n] \in {m.buy, m.sell} THEN FilledBy(my_orders[n], m.quantity)
           ELSE my_orders[n]
    BY <2>1 DEF Handled
  <2>7. ASSUME NEW n \in DOMAIN my_orders
        PROVE  Handled(my_orders[n], m, MyKeys[n]) =
                 IF MyKeys[n] = m.sell THEN FilledBy(once[n], m.quantity) ELSE once[n]
    BY <2>3, <2>5, <2>6
  <2>8. my_orders' = [n \in DOMAIN my_orders |-> Handled(my_orders[n], m, MyKeys[n])]
    BY <2>4, <2>7
  <2> QED
    BY <1>4, <2>1, <2>8 DEF HandleTrade, Receive
<1>5. CASE HandleTopOfBook
  <2>1. m.type = "TopOfBook" /\ my_orders' = my_orders
    BY <1>5 DEF HandleTopOfBook, Receive
  <2>2. \A n \in DOMAIN my_orders : Handled(my_orders[n], m, MyKeys[n]) = my_orders[n]
    BY <2>1 DEF Handled
  <2>3. my_orders' = [n \in DOMAIN my_orders |-> Handled(my_orders[n], m, MyKeys[n])]
    BY <1>1, <2>1, <2>2
  <2> QED
    BY <1>5, <2>1, <2>3 DEF HandleTopOfBook, Receive
<1> QED
  BY <1>2, <1>3, <1>4, <1>5 DEF HandleEngineMessage

LEMMA ShownHandled ==
    ASSUME TradingInv, HandleEngineMessage
    PROVE  shown' = [side \in Sides |-> shown'[side]] /\ DisplayCoherent'
<1>. PICK m : m = Head(to_app)
  OBVIOUS
<1>1. /\ to_app # <<>> /\ to_app' = Tail(to_app) /\ UNCHANGED vars
      /\ shown' = IF m.type = "TopOfBook" /\ m.symbol = Symbol
                  THEN [shown EXCEPT ![m.side] = Told(m)] ELSE shown
  BY HandlersHandle
<1>2. /\ IsNews(to_app) /\ DisplayCoherent
      /\ shown = [side \in Sides |-> shown[side]]
  BY DEF TradingInv, AppTypeOK
<1>3. Readable(m)
  BY <1>1, <1>2, NewsTail
<1>4. PICK M : to_app \in Seq(M)
  BY <1>2 DEF IsNews
<1>. PICK rest : rest = OfSymbol(Symbol, Tail(to_app))
  OBVIOUS
<1>5. /\ rest \in Seq(M)
      /\ OfSymbol(Symbol, to_app) = IF m.symbol = Symbol THEN <<m>> \o rest ELSE rest
  BY <1>1, <1>4, OfSymbolHead
<1>6. m \in M
  BY <1>1, <1>4
<1>7. m.type = "TopOfBook" => /\ m.side \in Sides
                              /\ Told(m) = [price |-> m.price, quantity |-> m.quantity]
  BY <1>3 DEF Readable, Told
<1>. PICK one : one = <<m>>
  OBVIOUS
<1>8. m.symbol = Symbol => shown' = Observe(shown, one)
  <2>1. CASE m.symbol = Symbol /\ m.type = "TopOfBook"
    <3>1. shown' = [shown EXCEPT ![m.side] = [price |-> m.price, quantity |-> m.quantity]]
      BY <1>1, <1>7, <2>1
    <3>2. Observe(shown, <<m>>) =
            [shown EXCEPT ![m.side] = [price |-> m.price, quantity |-> m.quantity]]
      BY <1>2, <1>7, <2>1, ObserveOne
    <3> QED
      BY <3>1, <3>2
  <2>2. CASE m.type # "TopOfBook"
    <3>1. Observe(shown, <<m>>) = shown
      BY <1>2, <2>2, ObserveOne
    <3> QED
      BY <1>1, <2>2, <3>1
  <2> QED
    BY <2>1, <2>2
<1>9. m.symbol = Symbol => Observe(shown, one \o rest) = Observe(shown', rest)
  <2>1. one \in Seq(M)
    BY <1>6
  <2>2. rest \in Seq(M)
    BY <1>5
  <2>3. Observe(shown, one \o rest) = Observe(Observe(shown, one), rest)
    BY ONLY <2>1, <2>2, ObserveConcat
  <2> QED
    BY <1>8, <2>3
<1>10. Observe(shown', rest) = Observe(shown, OfSymbol(Symbol, to_app))
  BY <1>1, <1>5, <1>9
<1>11. MyLevels' = MyLevels
  BY <1>1 DEF MyLevels, BookOf, vars
<1>12. DisplayCoherent'
  BY <1>1, <1>2, <1>10, <1>11 DEF DisplayCoherent, MyLevels
<1> QED
  BY <1>1, <1>2, <1>7, <1>12

LEMMA HandlersKeep ==
    ASSUME TradingInv, HandleEngineMessage
    PROVE  TradingInv'
<1>. PICK m : m = Head(to_app)
  OBVIOUS
<1>1. /\ to_app # <<>> /\ to_app' = Tail(to_app)
      /\ UNCHANGED <<vars, to_network, cancelling>>
      /\ my_orders' = [n \in DOMAIN my_orders |-> Handled(my_orders[n], m, MyKeys[n])]
  BY HandlersHandle
<1>2. /\ EngineInv /\ BooksPositive /\ AppTypeOK /\ CommandsMatch /\ CancelsKept
      /\ \A n \in DOMAIN MyKeys : Private(MyKeys[n]) /\ Tracks(n)
      /\ UNCHANGED <<order_books, order_to_symbol, uses, alive, to_network, cancelling>>
  BY <1>1 DEF TradingInv, vars
<1>3. EngineInv'
  BY <1>1, <1>2, EngineStutters
<1>4. MyLevels' = MyLevels /\ BooksPositive'
  BY <1>2 DEF MyLevels, BookOf, BooksPositive
<1>5. \A n \in DOMAIN MyKeys : Private(MyKeys[n])'
  BY <1>2 DEF Private
<1>6. /\ alive /\ my_orders \in Seq(MyOrders) /\ Len(my_orders) <= Len(MyKeys)
      /\ to_network \in Seq(Commands) /\ IsNews(to_app) /\ cancelling \subseteq DOMAIN my_orders
  BY <1>2 DEF AppTypeOK
<1>7. ASSUME NEW n \in DOMAIN my_orders
      PROVE  /\ my_orders'[n] \in MyOrders /\ my_orders'[n] = Handled(my_orders[n], m, MyKeys[n])
             /\ my_orders'[n].side = my_orders[n].side
             /\ my_orders'[n].price = my_orders[n].price
             /\ my_orders'[n].quantity = my_orders[n].quantity
  <2>1. my_orders[n] \in MyOrders /\ Readable(m)
    BY <1>1, HeadFacts
  <2>2. my_orders'[n] = Handled(my_orders[n], m, MyKeys[n])
    BY <1>1
  <2> QED
    BY <2>1, <2>2, HandledType
<1>8. DOMAIN my_orders' = DOMAIN my_orders
  BY <1>1
<1>9. my_orders' \in Seq(MyOrders) /\ Len(my_orders') = Len(my_orders)
  <2>1. DOMAIN my_orders = 1..Len(my_orders) /\ Len(my_orders) \in Nat
    BY <1>6
  <2>2. my_orders' = [n \in 1..Len(my_orders) |-> my_orders'[n]]
    BY <1>1, <2>1
  <2>3. \A n \in 1..Len(my_orders) : my_orders'[n] \in MyOrders
    BY <1>7, <2>1
  <2> QED
    BY <2>1, <2>2, <2>3
<1>10. AppTypeOK'
  BY <1>1, <1>2, <1>6, <1>8, <1>9, NewsTail, ShownHandled DEF AppTypeOK
<1>11. CommandsMatch'
  <2>1. \A n \in DOMAIN my_orders : NewOrderMessage(n)' = NewOrderMessage(n)
    BY <1>7 DEF NewOrderMessage
  <2> QED
    BY <1>2, <1>8, <2>1 DEF CommandsMatch
<1>12. \A n : Entered(n)' <=> Entered(n)
  BY <1>2, <1>8 DEF Entered
<1>13. CancelsKept'
  BY <1>2, <1>4, <1>12 DEF CancelsKept
<1>14. PICK M : to_app \in Seq(M)
  BY <1>6 DEF IsNews
<1>15. ASSUME NEW n \in DOMAIN MyKeys
       PROVE  Tracks(n)'
  <2>1. CASE Entered(n)
    <3>1. n \in DOMAIN my_orders /\ Reaches(my_orders[n], to_app, MyLevels, MyKeys[n])
      BY <1>2, <2>1 DEF Entered, Tracks
    <3>2. Reaches(Handled(my_orders[n], m, MyKeys[n]), Tail(to_app), MyLevels, MyKeys[n])
      BY <1>1, <1>14, <3>1, ReachesTail
    <3>3. Reaches(my_orders'[n], to_app', MyLevels', MyKeys[n])
      BY <1>1, <1>4, <1>7, <3>1, <3>2
    <3> QED
      BY <1>12, <2>1, <3>3 DEF Tracks
  <2>2. CASE ~Entered(n)
    <3>1. /\ uses[MyKeys[n]] = 0 /\ Spares(MyKeys[n], to_app)
          /\ n \in DOMAIN my_orders =>
               my_orders[n].status = "Pending" /\ my_orders[n].filled_qty = 0
      BY <1>2, <2>2 DEF Tracks
    <3>2. Spares(MyKeys[n], to_app') /\ ~Concerns(m, MyKeys[n])
      BY <1>1, <1>6, <3>1, NewsTail
    <3>3. n \in DOMAIN my_orders => my_orders'[n] = my_orders[n]
      BY <1>7, <3>2, SparedHandled
    <3> QED
      BY <1>2, <1>8, <1>12, <2>2, <3>1, <3>2, <3>3 DEF Tracks
  <2> QED
    BY <2>1, <2>2
<1> QED
  BY <1>3, <1>4, <1>5, <1>10, <1>11, <1>13, <1>15, ShownHandled DEF TradingInv

LEMMA TradingInvStep ==
    ASSUME TradingInv, [NextApp]_allVars
    PROVE  TradingInv'
<1>1. CASE NextApp
  BY <1>1, SubmitKeeps, CancelKeysKeep, EngineReceivesKeeps, OtherUserKeeps, HandlersKeep
     DEF NextApp
<1>2. CASE UNCHANGED allVars
  <2>1. UNCHANGED <<vars, to_network, to_app, my_orders, shown, cancelling>>
    BY <1>2 DEF allVars, appVars
  <2>2. /\ my_orders \in Seq(MyOrders) /\ Len(my_orders) <= Len(MyKeys)
        /\ to_network \in Seq(Commands) /\ CommandsMatch
        /\ cancelling \subseteq DOMAIN my_orders
    BY DEF TradingInv, AppTypeOK
  <2>3. CommandsMatch'
    BY <2>1, <2>2 DEF CommandsMatch, NewOrderMessage
  <2>4. \A n : Entered(n)' <=> Entered(n)
    BY <2>1 DEF Entered
  <2> QED
    BY <2>1, <2>2, <2>3, <2>4, UserActKeeps
<1> QED
  BY <1>1, <1>2

LEMMA TradingInvInv == SpecApp => []TradingInv
  BY InitTradingInv, TradingInvStep, PTL DEF SpecApp

-----------------------------------------------------------------------------
(* What the invariant means for the user.                                  *)

\* What the messages under way will make of an order, and what that says.
LEMMA OrderWillBe ==
    ASSUME TradingInv, NEW n \in DOMAIN my_orders
    PROVE  \E last \in MyOrders :
             /\ my_orders[n] \in MyOrders /\ FillsUnderWay(n) \in Nat
             /\ last.filled_qty = my_orders[n].filled_qty + FillsUnderWay(n)
             /\ last.quantity = my_orders[n].quantity
             /\ to_app = <<>> => last = my_orders[n]
             /\ Entered(n) => /\ Agrees(last, MyLevels, MyKeys[n])
                              /\ my_orders[n].status \in Allowed(MyLevels, MyKeys[n])
             /\ ~Entered(n) => /\ last.filled_qty = 0 /\ ~KeyRests(MyLevels, MyKeys[n])
                               /\ my_orders[n].status = "Pending"
<1> DEFINE key == MyKeys[n]
<1>1. /\ my_orders \in Seq(MyOrders) /\ Len(my_orders) <= Len(MyKeys) /\ IsNews(to_app)
      /\ EngineInv /\ BooksPositive
  BY DEF TradingInv, AppTypeOK
<1>2. n \in DOMAIN MyKeys /\ my_orders[n] \in MyOrders
  BY <1>1, MyKeysFacts
<1>3. Private(key) /\ Tracks(n)
  BY <1>2 DEF TradingInv
<1>4. FillsUnderWay(n) = SumBy(FillOf(to_app, key), to_app)
  BY DEF FillsUnderWay, FillOf
<1>5. PICK M : to_app \in Seq(M)
  BY <1>1 DEF IsNews
<1> HIDE DEF key
<1>6. CASE Entered(n)
  <2>1. Reaches(my_orders[n], to_app, MyLevels, key)
    BY <1>3, <1>6 DEF Tracks, key
  <2>2. PICK last \in MyOrders :
          /\ Leads(key, my_orders[n], to_app, last, Allowed(MyLevels, key))
          /\ Agrees(last, MyLevels, key)
    BY <2>1 DEF Reaches
  <2>3. my_orders[n].status \in Allowed(MyLevels, key)
    <3>1. 0 \in 0..Len(to_app)
      BY <1>5
    <3> QED
      BY <2>2, <3>1 DEF Leads
  <2>4. /\ SumBy(FillOf(to_app, key), to_app) \in Nat
        /\ last.filled_qty = my_orders[n].filled_qty + SumBy(FillOf(to_app, key), to_app)
        /\ last.quantity = my_orders[n].quantity
        /\ to_app = <<>> => last = my_orders[n]
    BY <1>1, <2>2, LeadsFills
  <2> QED
    BY <1>2, <1>4, <1>6, <2>2, <2>3, <2>4 DEF key
<1>7. CASE ~Entered(n)
  <2>1. /\ uses[key] = 0 /\ Spares(key, to_app)
        /\ my_orders[n].status = "Pending" /\ my_orders[n].filled_qty = 0
    BY <1>3, <1>7 DEF Tracks, key
  <2>2. ~KeyRests(MyLevels, key)
    BY <1>1, <1>3, <2>1, PrivateFacts
  <2>3. Leads(key, my_orders[n], to_app, my_orders[n], {"Pending"})
    BY <1>2, <1>5, <2>1, LeadsSpared
  <2>4. /\ SumBy(FillOf(to_app, key), to_app) \in Nat
        /\ my_orders[n].filled_qty =
             my_orders[n].filled_qty + SumBy(FillOf(to_app, key), to_app)
    BY <1>1, <2>3, LeadsFills
  <2> QED
    BY <1>2, <1>4, <1>7, <2>1, <2>2, <2>4 DEF key
<1> QED
  BY <1>6, <1>7

\* What rests is typed, and has a rest.
LEMMA RestsPositive ==
    ASSUME TradingInv, NEW n \in DOMAIN my_orders
    PROVE  /\ InEngine(n) # {} <=> KeyRests(MyLevels, MyKeys[n])
           /\ \A order \in InEngine(n) :
                /\ order \in Resting(MyLevels) /\ order.key = MyKeys[n]
                /\ order.remaining_qty \in Nat \ {0}
<1>1. Private(MyKeys[n]) /\ EngineInv /\ BooksPositive
  <2>1. n \in DOMAIN MyKeys
    BY MyKeysFacts DEF TradingInv, AppTypeOK
  <2> QED
    BY <2>1 DEF TradingInv
<1>2. IsBook(BookOf(Symbol)) /\ Positive(MyLevels)
  BY <1>1, PrivateFacts DEF MyLevels
<1>3. Resting(MyLevels) \subseteq Orders
  BY <1>2, RestingFinite DEF IsBook, MyLevels
<1>4. \A order \in Resting(MyLevels) : order.remaining_qty \in Nat /\ order.remaining_qty > 0
  BY <1>2, <1>3, BookAssumption DEF Orders, Positive
<1> QED
  BY <1>4 DEF InEngine, KeyRests, MyLevels

LEMMA InvFillsAccounted == TradingInv => FillsAccounted
<1> SUFFICES ASSUME TradingInv, NEW n \in DOMAIN my_orders
             PROVE  /\ my_orders[n].filled_qty + FillsUnderWay(n) <= my_orders[n].quantity
                    /\ \A order \in InEngine(n) :
                         my_orders[n].filled_qty + FillsUnderWay(n) + order.remaining_qty
                           = my_orders[n].quantity
  BY DEF FillsAccounted
<1>1. PICK last \in MyOrders :
        /\ last.filled_qty = my_orders[n].filled_qty + FillsUnderWay(n)
        /\ last.quantity = my_orders[n].quantity
        /\ Entered(n) => Agrees(last, MyLevels, MyKeys[n])
        /\ ~Entered(n) => last.filled_qty = 0 /\ ~KeyRests(MyLevels, MyKeys[n])
  BY OrderWillBe
<1>2. last.filled_qty \in Nat /\ last.quantity \in Nat
  BY DEF MyOrders
<1>3. ASSUME NEW order \in InEngine(n)
      PROVE  /\ last.filled_qty + order.remaining_qty = last.quantity
             /\ order.remaining_qty \in Nat
  <2>1. /\ order \in Resting(MyLevels) /\ order.key = MyKeys[n]
        /\ order.remaining_qty \in Nat /\ KeyRests(MyLevels, MyKeys[n])
    BY <1>3, RestsPositive
  <2> QED
    BY <1>1, <2>1 DEF Agrees, Working
<1>4. last.filled_qty <= last.quantity
  <2>1. CASE InEngine(n) # {}
    BY <1>2, <1>3, <2>1
  <2>2. CASE InEngine(n) = {}
    BY <1>1, <1>2, <2>2, RestsPositive DEF Agrees, Over
  <2> QED
    BY <2>1, <2>2
<1> QED
  BY <1>1, <1>3, <1>4

LEMMA InvRestingIsShown == TradingInv => RestingIsShown
<1> SUFFICES ASSUME TradingInv, NEW n \in DOMAIN my_orders, InEngine(n) # {}
             PROVE  my_orders[n].status \in {"Pending", "Open", "PartiallyFilled"}
  BY DEF RestingIsShown
<1>1. KeyRests(MyLevels, MyKeys[n])
  BY RestsPositive
<1> QED
  BY <1>1, OrderWillBe DEF Allowed, Live

LEMMA QuietAgrees ==
    ASSUME TradingInv, Quiet, NEW n \in DOMAIN my_orders
    PROVE  my_orders[n] \in MyOrders /\ Agrees(my_orders[n], MyLevels, MyKeys[n])
<1>1. Entered(n)
  BY DEF Quiet, Entered
<1> QED
  BY <1>1, OrderWillBe DEF Quiet

LEMMA InvStatusSettled == TradingInv => StatusSettled
<1> SUFFICES ASSUME TradingInv, Quiet, NEW n \in DOMAIN my_orders
             PROVE  LET order == my_orders[n]
                    IN  /\ order.status # "Pending"
                        /\ order.price # Market =>
                             (order.status \in {"Open", "PartiallyFilled"} <=> InEngine(n) # {})
                        /\ order.status = "Open" => order.filled_qty = 0
                        /\ order.status = "PartiallyFilled" =>
                             order.filled_qty \in 1..(order.quantity - 1)
                        /\ order.status = "Filled" => order.filled_qty = order.quantity
  BY DEF StatusSettled
<1>. PICK order : order = my_orders[n]
  OBVIOUS
<1>1. order \in MyOrders /\ Agrees(order, MyLevels, MyKeys[n])
  BY QuietAgrees
<1>2. CASE InEngine(n) # {}
  <2>1. PICK o \in Resting(MyLevels) : o.key = MyKeys[n] /\ o.remaining_qty \in Nat \ {0}
    BY <1>2, RestsPositive
  <2>2. Working(order, o.remaining_qty)
    BY <1>1, <2>1 DEF Agrees
  <2>3. order.filled_qty \in Nat /\ order.quantity \in Nat
    BY <1>1 DEF MyOrders
  <2>4. order.filled_qty + o.remaining_qty = order.quantity
    BY <2>2 DEF Working
  <2>5. order.filled_qty # 0 => order.filled_qty \in 1..(order.quantity - 1)
    BY <2>1, <2>3, <2>4
  <2>6. order.status = IF order.filled_qty = 0 THEN "Open" ELSE "PartiallyFilled"
    BY <2>2 DEF Working
  <2> QED
    BY <1>2, <2>5, <2>6
<1>3. CASE InEngine(n) = {}
  <2>1. Over(order)
    BY <1>1, <1>3, RestsPositive DEF Agrees
  <2> QED
    BY <1>3, <2>1 DEF Over
<1> QED
  BY <1>2, <1>3

LEMMA InvCancelSettles == TradingInv => CancelSettles
<1> SUFFICES ASSUME TradingInv, Quiet, NEW n \in cancelling
             PROVE  InEngine(n) = {}
  BY DEF CancelSettles
<1>1. n \in DOMAIN my_orders
  BY DEF TradingInv, AppTypeOK
<1>2. ~KeyRests(MyLevels, MyKeys[n])
  BY DEF TradingInv, CancelsKept, Quiet
<1> QED
  BY <1>1, <1>2, RestsPositive

\* At every moment, and for every number of orders, users and symbols: what the
\* App has counted as filled and the fills on their way to it are what the
\* engine has taken from the order, and never more than its quantity.
THEOREM FillsAddUp == SpecApp => []FillsAccounted
  BY TradingInvInv, InvFillsAccounted, PTL

\* An order that rests in the engine is never shown as filled or cancelled.
THEOREM RestingStaysShown == SpecApp => []RestingIsShown
  BY TradingInvInv, InvRestingIsShown, PTL

\* Once every message has arrived, the statuses are those of the book.
THEOREM StatusesSettle == SpecApp => []StatusSettled
  BY TradingInvInv, InvStatusSettled, PTL

\* Once every message has arrived, an order for which a Cancel was sent does
\* not rest.
THEOREM CancelsSettle == SpecApp => []CancelSettles
  BY TradingInvInv, InvCancelSettles, PTL

\* The tops on the screen and the changes under way make the engine's tops.
THEOREM DisplayStaysCoherent == SpecApp => []DisplayCoherent
<1>1. TradingInv => DisplayCoherent
  BY DEF TradingInv
<1> QED
  BY <1>1, TradingInvInv, PTL

-----------------------------------------------------------------------------
(* The App's engine is an engine.                                          *)

LEMMA EngineActs ==
    ASSUME TradingInv, [NextApp]_allVars
    PROVE  [Next]_vars
<1>1. CASE EngineReceives
  <2>. PICK message : message = Head(to_network)
    OBVIOUS
  <2>1. to_network \in Seq(Commands) /\ to_network # <<>> /\ Symbol \in Symbols
    BY <1>1, TradingAppAssumption DEF EngineReceives, TradingInv, AppTypeOK
  <2>2. message \in Commands
    BY <2>1
  <2>3. CASE message.type = "NewOrder" /\ ProcessNewOrder(Symbol, message.order)
    <3>1. message.order \in NewOrders
      BY <2>2, <2>3 DEF Commands
    <3> QED
      BY <2>1, <2>3, <3>1 DEF Next
  <2>4. CASE /\ message.type = "Cancel"
             /\ ProcessCancel(message.key) \/ ProcessCancelUnknown(message.key)
    <3>1. message.key \in Keys
      BY <2>2, <2>4 DEF Commands
    <3> QED
      BY <2>4, <3>1 DEF Next
  <2> QED
    BY <1>1, <2>3, <2>4 DEF EngineReceives
<1>2. CASE OtherUserActs
  BY <1>2, TradingAppAssumption DEF OtherUserActs, Next
<1>3. CASE HandleEngineMessage
  BY <1>3, HandlersHandle
<1>4. ASSUME NEW side, NEW price, NEW quantity, SubmitInput(side, price, quantity)
      PROVE  UNCHANGED vars
  BY <1>4 DEF SubmitInput
<1>5. ASSUME NEW n, CancelSelectedOrder(n)
      PROVE  UNCHANGED vars
  BY <1>5 DEF CancelSelectedOrder
<1>6. CASE CancelAllOrders
  BY <1>6 DEF CancelAllOrders
<1>7. CASE UNCHANGED allVars
  BY <1>7 DEF allVars
<1> QED
  BY <1>1, <1>2, <1>3, <1>4, <1>5, <1>6, <1>7 DEF NextApp

\* Whatever its users send, the engine behind the App takes only the steps of
\* MatchingEngine: its theorems (Routed, FeedCoherent, Isolated, ...) hold here.
THEOREM AppsEngineIsAnEngine == SpecApp => Spec
<1>1. InitApp => Init
  BY DEF InitApp
<1> QED
  BY <1>1, EngineActs, TradingInvInv, PTL DEF SpecApp, Spec

-----------------------------------------------------------------------------
(* The keyboard.                                                           *)

\* Characters of one byte, but for the last.
Narrow(text) == \A i \in 1..(Len(text) - 1) : text[i] # "wide"

EndsWide(text) == text # <<>> /\ text[Len(text)] = "wide"

-----------------------------------------------------------------------------
(* Strings.                                                                *)

\* As long as only the last character may be wide, bytes are counted like
\* characters up to it.
LEMMA OffsetOfNarrow ==
    ASSUME NEW text \in Seq(Chars), Narrow(text), NEW n \in 0..Len(text)
    PROVE  Offset(text, n) = IF n = Len(text) /\ EndsWide(text) THEN n + 1 ELSE n
<1> DEFINE N == Len(text)
           byte(k) == IF k = N /\ EndsWide(text) THEN k + 1 ELSE k
           T == {k \in 0..N : Offset(text, k) = byte(k)}
<1>1. N \in Nat /\ \A k \in 1..N : text[k] \in Chars
  OBVIOUS
<1>2. Width \in [Chars -> Nat] /\ \A c \in Chars : Width[c] = IF c = "wide" THEN 2 ELSE 1
  BY DEF Width
<1>3. 0 \in T
  <2>1. SubSeq(text, 1, 0) = <<>>
    BY EmptySeq
  <2>2. Offset(text, 0) = 0
    <3>1. PICK c : c \in Chars
      BY DEF Chars, Digits
    <3>2. <<>> \in Seq(Chars)
      OBVIOUS
    <3> QED
      BY <1>2, <2>1, <3>1, <3>2, SumAppend DEF Offset
  <2>3. N = 0 => ~EndsWide(text)
    BY DEF EndsWide
  <2> QED
    BY <1>1, <2>2, <2>3
<1>4. ASSUME NEW k \in 0..(N - 1), k \in T
      PROVE  k + 1 \in T
  <2> DEFINE s == SubSeq(text, 1, k)
  <2>1. /\ s \in Seq(Chars) /\ SubSeq(text, 1, k + 1) = Append(s, text[k + 1])
        /\ text[k + 1] \in Chars /\ k + 1 \in 1..N
    <3>1. k \in Nat /\ k + 1 \in 1..Len(text)
      BY <1>1
    <3>2. s \in Seq(Chars) /\ Len(s) = k /\ \A i \in 1..k : s[i] = text[i]
      BY <3>1, SubSeqProperties
    <3>3. /\ SubSeq(text, 1, k + 1) \in Seq(Chars)
          /\ Len(SubSeq(text, 1, k + 1)) = k + 1
          /\ \A i \in 1..(k + 1) : SubSeq(text, 1, k + 1)[i] = text[i]
      BY <3>1, SubSeqProperties
    <3> DEFINE longer == SubSeq(text, 1, k + 1)
               more   == Append(s, text[k + 1])
    <3> HIDE DEF s, longer
    <3>4. /\ more \in Seq(Chars) /\ Len(more) = k + 1
          /\ \A i \in 1..(k + 1) : more[i] = text[i]
      BY <3>1, <3>2
    <3> HIDE DEF more
    <3>5. longer = more
      BY <3>3, <3>4, SeqEqual DEF longer
    <3> QED
      BY <3>1, <3>2, <3>5 DEF more, longer
  <2>2. Offset(text, k + 1) = Offset(text, k) + Width[text[k + 1]]
    <3> DEFINE x == text[k + 1]
    <3>1. s \in Seq(Chars) /\ x \in Chars /\ Width \in [Chars -> Nat]
      BY <1>2, <2>1
    <3> HIDE DEF s, x
    <3>2. SumBy(Width, Append(s, x)) = SumBy(Width, s) + Width[x]
      BY ONLY <3>1, SumAppend
    <3> QED
      BY <2>1, <3>2 DEF Offset, s, x
  <2>3. Offset(text, k) = k
    BY <1>1, <1>4
  <2>4. k + 1 = N \/ text[k + 1] # "wide"
    BY <1>1, <2>1 DEF Narrow
  <2>5. text # <<>> /\ text[N] \in Chars
    BY <1>1, <2>1
  <2>6. Width[text[k + 1]] = IF text[k + 1] = "wide" THEN 2 ELSE 1
    BY <1>2, <2>1
  <2>7. Offset(text, k + 1) = byte(k + 1)
    BY <1>1, <2>2, <2>3, <2>4, <2>5, <2>6 DEF EndsWide
  <2> QED
    BY <2>1, <2>7
<1>5. 0..N \subseteq T
  <2> HIDE DEF T, N
  <2> QED
    BY <1>1, <1>3, <1>4, UpTo
<1> QED
  BY <1>5

\* Where enter_char and delete_char look.
LEMMA BeforeOfNarrow ==
    ASSUME NEW text \in Seq(Chars), Narrow(text)
    PROVE  /\ Before(text, Len(text)) = IF EndsWide(text) THEN {} ELSE {Len(text)}
           /\ text # <<>> => Before(text, Len(text) - 1) = {Len(text) - 1}
<1> DEFINE N == Len(text)
<1>1. N \in Nat /\ (text # <<>> => N # 0)
  OBVIOUS
<1>2. \A n \in 0..N : Offset(text, n) = IF n = N /\ EndsWide(text) THEN n + 1 ELSE n
  BY OffsetOfNarrow
<1> HIDE DEF N
<1>3. Before(text, N) = IF EndsWide(text) THEN {} ELSE {N}
  BY <1>1, <1>2 DEF Before, N
<1>4. ASSUME text # <<>> PROVE Before(text, N - 1) = {N - 1}
  <2>1. N - 1 \in 0..N /\ N - 1 # N
    BY <1>1, <1>4
  <2> QED
    BY <1>1, <1>2, <2>1 DEF Before, N
<1> QED
  BY <1>3, <1>4 DEF N

\* What u32::parse makes of a text fits.
LEMMA QuantityFits ==
    ASSUME NEW text \in Seq(Chars)
    PROVE  Quantity(text) \in 0..(ParseLimit - 1)
<1> DEFINE digits == IF Len(text) > 1 /\ text[1] = "+" THEN Tail(text) ELSE text
<1>1. ParseLimit \in Nat \ {0}
  BY OrderEntryAssumption
<1>2. digits \in Seq(Chars)
  OBVIOUS
<1> HIDE DEF digits
<1>3. ASSUME ToSet(digits) \subseteq Digits
      PROVE  Value(digits) \in Nat
  <2>1. digits \in Seq(Digits)
    <3>1. \A i \in 1..Len(digits) : digits[i] \in Digits
      BY <1>2, <1>3 DEF ToSet
    <3> QED
      BY <1>2, <3>1
  <2> DEFINE step == [t \in Nat \X Digits |-> 10 * t[1] + Digit[t[2]]]
  <2>2. step \in [Nat \X Digits -> Nat]
    <3>1. \A d \in Digits : Digit[d] \in Nat
      BY DEF Digit, Digits
    <3> QED
      BY <3>1
  <2>3. Value(digits) = FoldBy(step, 0, digits)
    BY DEF Value
  <2> HIDE DEF step
  <2>4. PICK f : Walks(f, Nat, step, 0, digits)
    <3>1. 0 \in Nat
      OBVIOUS
    <3> QED
      BY <2>1, <2>2, <3>1, FoldByFacts
  <2>5. Len(digits) \in 0..Len(digits)
    BY <1>2
  <2> QED
    BY <2>3, <2>4, <2>5 DEF Walks
<1> QED
  BY <1>1, <1>3 DEF Quantity, digits

-----------------------------------------------------------------------------
(* The invariant.                                                          *)

EntryTypes ==
    /\ typed \in Seq(Chars) /\ input_buffer \in Seq(Chars)
    /\ input_mode \in {"Normal", "Editing"}

\* While text is edited only its last character may be wide: a key after such
\* a one is the last that the program takes.
TextInv ==
    /\ EntryTypes
    /\ TextAsTyped
    /\ program # "panicked" /\ input_mode = "Editing" => Narrow(typed)

\* The side is that of the entry or of the one that Escape has ended.
SideInv == order_side = IF entry # None THEN entry ELSE abandoned

EntryInv == TextInv /\ SideInv

LEMMA EnterCharKeeps ==
    ASSUME EntryInv, NEW char \in Chars, EnterChar(char)
    PROVE  EntryInv'
<1> DEFINE N == Len(typed)
<1>1. /\ program = "runs" /\ input_mode = "Editing" /\ input_mode' = "Editing"
      /\ typed' = Append(typed, char) /\ UNCHANGED orderVars
  BY DEF EnterChar, Key
<1>2. /\ typed \in Seq(Chars) /\ input_buffer = typed /\ input_cursor = N
      /\ Narrow(typed)
  BY <1>1 DEF EntryInv, TextInv, EntryTypes, TextAsTyped
<1>3. /\ N \in Nat /\ typed' \in Seq(Chars) /\ Len(typed') = N + 1
      /\ \A i \in 1..N : typed'[i] = typed[i]
  BY <1>1, <1>2
<1>4. CASE EndsWide(typed)
  <2>1. program' = "panicked" /\ input_buffer' = typed
    BY <1>2, <1>4, BeforeOfNarrow DEF EnterChar
  <2>2. N \in 1..N /\ typed[N] = "wide" /\ N > 0
    BY <1>2, <1>4 DEF EndsWide
  <2>3. Len(typed') > 1 /\ typed'[Len(typed') - 1] = "wide"
    BY <1>3, <2>2
  <2>4. Width["wide"] > 1
    BY DEF Width, Chars
  <2> QED
    BY <1>1, <1>2, <1>3, <2>1, <2>3, <2>4
       DEF EntryInv, TextInv, EntryTypes, TextAsTyped, SideInv, orderVars
<1>5. CASE ~EndsWide(typed)
  <2>1. Before(input_buffer, input_cursor) = {N}
    BY <1>2, <1>5, BeforeOfNarrow
  <2>2. /\ input_buffer' = InsertAt(typed, N + 1, char)
        /\ input_cursor' = N + 1 /\ program' = "runs"
    BY <1>1, <1>2, <2>1 DEF EnterChar
  <2>3. InsertAt(typed, N + 1, char) = Append(typed, char)
    <3>1. SubSeq(typed, 1, (N + 1) - 1) = typed
      BY <1>2, <1>3
    <3>2. SubSeq(typed, N + 1, N) = <<>>
      BY <1>2, <1>3, EmptySeq
    <3>3. InsertAt(typed, N + 1, char) = (typed \o <<char>>) \o <<>>
      BY <3>1, <3>2 DEF InsertAt
    <3> QED
      BY <1>2, <3>3
  <2>4. ASSUME NEW i \in 1..(Len(typed') - 1) PROVE typed'[i] # "wide"
    <3>1. i \in 1..N /\ typed'[i] = typed[i]
      BY <1>3
    <3>2. i \in 1..(N - 1) \/ (i = N /\ typed # <<>>)
      BY <1>2, <1>3, <3>1
    <3> QED
      BY <1>2, <1>5, <3>1, <3>2 DEF Narrow, EndsWide
  <2> QED
    BY <1>1, <1>3, <2>2, <2>3, <2>4
       DEF EntryInv, TextInv, EntryTypes, TextAsTyped, SideInv, orderVars, Narrow
<1> QED
  BY <1>4, <1>5

LEMMA DeleteCharKeeps ==
    ASSUME EntryInv, DeleteChar
    PROVE  EntryInv'
<1> DEFINE N == Len(typed)
<1>1. /\ program = "runs" /\ input_mode = "Editing" /\ input_mode' = "Editing"
      /\ UNCHANGED orderVars
  BY DEF DeleteChar, Key
<1>2. /\ typed \in Seq(Chars) /\ input_buffer = typed /\ input_cursor = N
      /\ Narrow(typed) /\ N \in Nat
  BY <1>1 DEF EntryInv, TextInv, EntryTypes, TextAsTyped
<1>3. CASE typed = <<>>
  <2>1. typed' = <<>> /\ input_buffer' = <<>> /\ input_cursor' = 0 /\ program' = "runs"
    BY <1>1, <1>2, <1>3 DEF DeleteChar
  <2> QED
    BY <1>1, <2>1
       DEF EntryInv, TextInv, EntryTypes, TextAsTyped, SideInv, orderVars, Narrow
<1>4. CASE typed # <<>>
  <2>1. N # 0 /\ typed' = Front(typed)
    BY <1>2, <1>4 DEF DeleteChar
  <2>2. Before(input_buffer, input_cursor - 1) \ {Len(input_buffer)} = {N - 1}
    BY <1>2, <1>4, BeforeOfNarrow
  <2>3. /\ input_cursor' = N - 1 /\ program' = "runs"
        /\ input_buffer' = RemoveAt(typed, 1 + (N - 1))
    BY <1>2, <2>1, <2>2 DEF DeleteChar
  <2>4. /\ Front(typed) \in Seq(Chars) /\ Len(Front(typed)) = N - 1
        /\ \A i \in 1..(N - 1) : Front(typed)[i] = typed[i]
    BY <1>2, <2>1 DEF Front
  <2>5. RemoveAt(typed, N) = Front(typed)
    <3>1. SubSeq(typed, N + 1, N) = <<>>
      BY <1>2, EmptySeq
    <3>2. RemoveAt(typed, N) = Front(typed) \o <<>>
      BY <3>1 DEF RemoveAt, Front
    <3> QED
      BY <2>4, <3>2
  <2>6. input_buffer' = Front(typed) /\ input_cursor' = Len(typed')
    BY <1>2, <2>1, <2>3, <2>4, <2>5
  <2>7. Narrow(typed')
    BY <1>2, <2>1, <2>4 DEF Narrow
  <2> QED
    BY <1>1, <2>1, <2>3, <2>4, <2>6, <2>7
       DEF EntryInv, TextInv, EntryTypes, TextAsTyped, SideInv, orderVars
<1> QED
  BY <1>3, <1>4

LEMMA InitEntryInv == EntryInit => EntryInv
BY DEF EntryInit, EntryInv, TextInv, EntryTypes, TextAsTyped, SideInv

LEMMA NextEntryInv == EntryInv /\ [EntryNext]_entryVars => EntryInv'
<1> SUFFICES ASSUME EntryInv, [EntryNext]_entryVars PROVE EntryInv'
  OBVIOUS
<1> USE DEF EntryInv, TextInv, EntryTypes, TextAsTyped, SideInv
<1>1. ASSUME NEW side \in EntrySides, StartOrderEntry(side) PROVE EntryInv'
  BY <1>1 DEF StartOrderEntry, Key, ClearText, Narrow, EntrySides, None
<1>2. CASE StartSymbolSearch
  BY <1>2 DEF StartSymbolSearch, Key, ClearText, Narrow, orderVars
<1>3. CASE ToggleMarketOrder
  BY <1>3 DEF ToggleMarketOrder, Key, textVars, orderVars
<1>4. CASE Quit
  BY <1>4 DEF Quit, Key, textVars, orderVars
<1>5. ASSUME NEW char \in Chars, EnterChar(char) PROVE EntryInv'
  BY <1>5, EnterCharKeeps
<1>6. CASE DeleteChar
  BY <1>6, DeleteCharKeeps
<1>7. CASE CancelInput
  BY <1>7 DEF CancelInput, Key, ClearText
<1>8. CASE SubmitEntry
  BY <1>8 DEF SubmitEntry, Key
<1>9. CASE SubmitNothing
  BY <1>9 DEF SubmitNothing, Key, textVars, orderVars
<1>10. CASE UNCHANGED entryVars
  BY <1>10 DEF entryVars, textVars, orderVars, Narrow
<1> QED
  BY <1>1, <1>2, <1>3, <1>4, <1>5, <1>6, <1>7, <1>8, <1>9, <1>10 DEF EntryNext

LEMMA EntryInvHolds == EntrySpec => []EntryInv
BY InitEntryInv, NextEntryInv, PTL DEF EntrySpec

\* The text is what was typed since the entry, the search or the submission
\* that began it, with the cursor at its end, and only a key after a
\* character of two bytes panics (enter_char, delete_char).
THEOREM TextStaysAsTyped == EntrySpec => []TextAsTyped
<1>1. EntryInv => TextAsTyped
  BY DEF EntryInv, TextInv
<1> QED
  BY <1>1, EntryInvHolds, PTL

\* The order that Enter sends has the side of the entry that is going on, the
\* quantity that was typed in it, from 1 to the largest u32, and the type that
\* was chosen; a search after an Escape is the one exception (submit_input).
THEOREM SentAsEntered == EntrySpec => OrderAsEntered
<1> DEFINE A == \A n \in DOMAIN sent' :
                  /\ sent'[n].side = IF entry # None THEN entry ELSE abandoned
                  /\ sent'[n].quantity = Quantity(typed)
                  /\ sent'[n].quantity \in 1..(ParseLimit - 1)
                  /\ sent'[n].market = is_market_order
<1>1. ASSUME EntryInv, EntryNext PROVE A
  <2>1. CASE SubmitEntry
    <3>1. sent' = <<EnteredOrder>> /\ Quantity(input_buffer) # 0 /\ input_buffer = typed
      BY <1>1, <2>1 DEF SubmitEntry, Key, EntryInv, TextInv, TextAsTyped
    <3>2. Quantity(typed) \in 0..(ParseLimit - 1)
      BY <1>1, QuantityFits DEF EntryInv, TextInv, EntryTypes
    <3>3. Quantity(typed) \in 1..(ParseLimit - 1)
      BY <3>1, <3>2, OrderEntryAssumption
    <3>4. order_side = IF entry # None THEN entry ELSE abandoned
      BY <1>1 DEF EntryInv, SideInv
    <3> QED
      BY <3>1, <3>3, <3>4 DEF EnteredOrder
  <2>2. CASE ~SubmitEntry
    <3>1. sent' = <<>>
      BY <1>1, <2>2
         DEF EntryNext, StartOrderEntry, StartSymbolSearch, ToggleMarketOrder, Quit,
             EnterChar, DeleteChar, CancelInput, SubmitNothing
    <3> QED
      BY <3>1
  <2> QED
    BY <2>1, <2>2
<1>2. OrderAsEntered <=> [][A]_entryVars
  BY DEF OrderAsEntered
<1> HIDE DEF A
<1>3. EntryInv /\ [EntryNext]_entryVars => [A]_entryVars
  BY <1>1
<1> QED
  BY <1>2, <1>3, EntryInvHolds, PTL DEF EntrySpec
=============================================================================
