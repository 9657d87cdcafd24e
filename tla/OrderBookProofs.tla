--------------------------- MODULE OrderBookProofs ---------------------------
(***************************************************************************)
(* What OrderBook satisfies for every set of keys, prices and quantities,  *)
(* every width of the integers and every number of orders.                 *)
(***************************************************************************)
EXTENDS OrderBook, BookProofs

\* What an iteration of the loop of match_order works on.
TheSide    == Opposite(active.side)
ThePrice   == BestPrice(levels, TheSide)
TheQueue   == levels[TheSide][ThePrice]
ThePassive == Head(TheQueue)
TheQty     == TradeQuantity(active, ThePassive)

-----------------------------------------------------------------------------
(* What the actions do, in a form that does not mention MatchStep.         *)

\* While an order is matched, it is an order and the loop looks at one of the
\* levels of the other side.
LEMMA MatchingContext ==
    ASSUME TypeOK, pc = "match"
    PROVE  /\ active \in Orders
           /\ active.side \in Sides /\ TheSide \in Sides
           /\ active.side # TheSide
           /\ outputs \in Seq(Acks \cup Trades)
           /\ Matching(levels, active) =>
                /\ ThePrice \in DOMAIN levels[TheSide]
                /\ ThePrice \in Prices
                /\ TheQueue \in Seq(Orders)
<1>1. active \in Orders /\ active.side \in Sides
  BY DEF TypeOK, Orders
<1>2. TheSide \in Sides /\ active.side # TheSide
  BY <1>1, OppositeSide DEF TheSide
<1>3. IsLevels(levels) /\ outputs \in Seq(Acks \cup Trades)
  BY DEF TypeOK
<1>4. ASSUME Matching(levels, active)
      PROVE  ThePrice \in DOMAIN levels[TheSide] /\ ThePrice \in Prices
  <2>1. DOMAIN levels[TheSide] # {}
    BY <1>4 DEF Matching, TheSide
  <2> QED
    BY <2>1, <1>2, <1>3, BestPriceIsBest DEF ThePrice
<1>5. ASSUME Matching(levels, active)
      PROVE  TheQueue \in Seq(Orders)
  BY <1>2, <1>3, <1>4, <1>5 DEF IsLevels, TheQueue
<1> QED
  BY <1>1, <1>2, <1>3, <1>4, <1>5

\* A fill: both orders give the same quantity and the trade is reported.
LEMMA MatchFillEffect ==
    ASSUME TypeOK, MatchFill
    PROVE  /\ pc = "match" /\ pc' = "match" /\ Matching(levels, active)
           /\ TheQueue # <<>> /\ ThePassive \in Orders
           /\ ThePassive = TheQueue[1]
           /\ TheQty \in Nat
           /\ levels' = TakeFromFront(levels, TheSide, TheQty)
           /\ active' = Fill(active, TheQty) /\ active' \in Orders
           /\ outputs' =
                Append(outputs, TradeOutput(active, ThePassive, ThePrice, TheQty))
           /\ outputs' \in Seq(Acks \cup Trades)
           /\ traded' = [n \in DOMAIN traded |->
                           IF n \in {active.arrival, ThePassive.arrival}
                           THEN traded[n] + TheQty ELSE traded[n]]
           /\ UNCHANGED <<prev, pc, arrivals, view>>
<1>1. /\ pc = "match" /\ Matching(levels, active)
      /\ UNCHANGED <<prev, pc, arrivals, view>>
  BY DEF MatchFill
<1>2. TheQueue # <<>>
  BY DEF MatchFill, BestQueue, TheQueue, ThePrice, TheSide
<1>3. active \in Orders /\ TheQueue \in Seq(Orders) /\ ThePrice \in Prices
      /\ outputs \in Seq(Acks \cup Trades)
  BY <1>1, MatchingContext
<1>4. ThePassive \in Orders /\ ThePassive = TheQueue[1]
  BY <1>2, <1>3 DEF ThePassive
<1>5. TheQty \in 0..(U32 - 1) /\ active.remaining_qty - TheQty \in 0..(U32 - 1)
  BY <1>3, <1>4, TradeQuantityBound DEF TheQty
<1>6. TheQty \in Nat
  BY <1>5, BookAssumption
<1>7. /\ levels' = TakeFromFront(levels, TheSide, TheQty)
      /\ active' = Fill(active, TheQty)
      /\ outputs' =
           Append(outputs, TradeOutput(active, ThePassive, ThePrice, TheQty))
  BY <1>2 DEF MatchFill, Step, MatchStep, Loop, TheQueue, ThePrice, TheSide,
              ThePassive, TheQty
<1>8. active' \in Orders
  BY <1>3, <1>5, <1>6, <1>7, FillEffect
<1>9. TradeOutput(active, ThePassive, ThePrice, TheQty) \in Acks \cup Trades
  BY <1>3, <1>4, <1>5 DEF TradeOutput, Trades, Orders
<1> DEFINE report == TradeOutput(active, ThePassive, ThePrice, TheQty)
<1>10. outputs' \in Seq(Acks \cup Trades) /\ Last(outputs') = report
  <2> HIDE DEF report
  <2>1. report \in Acks \cup Trades
    BY <1>9 DEF report
  <2>2. outputs' = Append(outputs, report)
    BY <1>7 DEF report
  <2> QED
    BY <2>1, <2>2, <1>3 DEF Last
<1>11. Last(outputs').quantity = TheQty
  BY <1>10 DEF TradeOutput
<1>12. traded' = [n \in DOMAIN traded |->
                    IF n \in {active.arrival, ThePassive.arrival}
                    THEN traded[n] + TheQty ELSE traded[n]]
  BY <1>11 DEF MatchFill, BestQueue, ThePassive, TheQueue, ThePrice, TheSide
<1> QED
  BY <1>1, <1>2, <1>3, <1>4, <1>6, <1>7, <1>8, <1>10, <1>12

\* A level without orders is dropped and nothing else happens.
LEMMA MatchEmptyLevelEffect ==
    ASSUME TypeOK, MatchEmptyLevel
    PROVE  /\ pc = "match" /\ TheQueue = <<>>
           /\ levels' = DropLevel(levels, TheSide, ThePrice)
           /\ UNCHANGED <<prev, active, outputs, pc, arrivals, traded, view>>
<1>1. /\ pc = "match" /\ TheQueue = <<>>
      /\ UNCHANGED <<prev, pc, arrivals, traded, view>>
  BY DEF MatchEmptyLevel, BestQueue, TheQueue, ThePrice, TheSide
<1>2. Step([Loop EXCEPT !.levels = DropLevel(@, TheSide, ThePrice)])
  BY <1>1 DEF MatchEmptyLevel, MatchStep, Loop, TheQueue, ThePrice, TheSide
<1>3. /\ levels' = DropLevel(levels, TheSide, ThePrice)
      /\ active' = active /\ outputs' = outputs
  BY <1>2 DEF Step, Loop
<1> QED
  BY <1>1, <1>3

\* The end of a call stores the book it was given and leaves no order active.
LEMMA ReportTopEffect ==
    ASSUME NEW after, NEW messages, ReportTop(after, messages)
    PROVE  /\ levels' = after
           /\ active' = NoOrder
           /\ pc' \in {"idle", "panicked"}
           /\ \/ pc' = "panicked" /\ UNCHANGED <<prev, view>>
              \/ /\ pc' = "idle"
                 /\ prev' = Snapshot(after)
                 /\ outputs' = messages \o TopEvents(prev, Snapshot(after))
                 /\ view' = Observe(view, outputs')
BY DEF ReportTop

\* The sides of the top of a book, and of a subscriber's view of it.
LEMMA TopDomains ==
    /\ \A lv : DOMAIN Snapshot(lv) = Sides
    /\ \A seen, messages : DOMAIN Observe(seen, messages) = Sides
    /\ DOMAIN NoTop = Sides
BY DEF Snapshot, Observe, NoTop

-----------------------------------------------------------------------------
(* Types.                                                                  *)

LEMMA InitTypeOK == Init => TypeOK
<1> SUFFICES ASSUME Init PROVE TypeOK
  OBVIOUS
<1>1. IsLevels(levels)
  BY DEF Init, IsLevels, EmptyLevels
<1>2. DOMAIN prev = Sides /\ DOMAIN view = Sides
  BY TopDomains DEF Init
<1>3. active = NoOrder /\ pc = "idle" /\ arrivals \in 0..MaxOrders
      /\ traded \in [1..MaxOrders -> Nat]
  BY OrderBookAssumption DEF Init
<1> QED
  BY <1>1, <1>2, <1>3 DEF TypeOK

\* Every call, and every iteration of the loop, keeps the types.
LEMMA NextTypeOK == TypeOK /\ [Next]_vars => TypeOK'
<1> SUFFICES ASSUME TypeOK, [Next]_vars PROVE TypeOK'
  OBVIOUS
<1>0. NoOrder \notin Orders /\ IsLevels(levels)
  BY OrderBookAssumption DEF TypeOK
<1>1. ASSUME NEW msg \in NewOrders, AddOrder(msg) PROVE TypeOK'
  <2>1. active' \in Orders
    <3>1. msg.quantity \in 0..(U32 - 1) /\ arrivals + 1 \in Nat
      <4>1. msg.quantity \in 0..(U32 - 1) /\ arrivals \in 0..MaxOrders
        BY BookAssumption DEF NewOrders, TypeOK
      <4> QED
        BY <4>1, BookAssumption, OrderBookAssumption
    <3> QED
      BY <1>1, <3>1 DEF AddOrder, FromNewOrder, NewOrders, Orders
  <2>2. outputs' \in Seq(Acks \cup Trades)
    BY <1>1 DEF AddOrder, AckOutput, Acks, NewOrders
  <2>3. arrivals' \in 0..MaxOrders
    BY <1>1, OrderBookAssumption DEF AddOrder, TypeOK
  <2> QED
    BY <1>0, <1>1, <2>1, <2>2, <2>3 DEF AddOrder, TypeOK
<1>2. CASE MatchFill
  <2>1. /\ pc = "match" /\ pc' = "match"
        /\ levels' = TakeFromFront(levels, TheSide, TheQty)
        /\ active' \in Orders
        /\ outputs' \in Seq(Acks \cup Trades)
        /\ UNCHANGED <<prev, arrivals, view>>
    BY <1>2, MatchFillEffect
  <2>2. IsLevels(levels')
    <3>1. /\ TheSide \in Sides
          /\ ThePrice \in Prices /\ TheQueue \in Seq(Orders) /\ TheQueue # <<>>
      BY <1>2, MatchFillEffect, MatchingContext
    <3> DEFINE front == Fill(ThePassive, TheQty)
    <3>2. front \in Orders
      <4>1. active \in Orders /\ ThePassive \in Orders /\ TheQty \in Nat
        BY <1>2, <2>1, MatchFillEffect, MatchingContext
      <4>2. ThePassive.remaining_qty - TheQty \in 0..(U32 - 1)
        BY <4>1, TradeQuantityBound DEF TheQty
      <4> QED
        BY <4>1, <4>2, FillEffect
    <3>3. \/ levels' = SetLevel(levels, TheSide, ThePrice, [TheQueue EXCEPT ![1] = front])
          \/ levels' = SetLevel(levels, TheSide, ThePrice, Tail(TheQueue))
          \/ levels' = DropLevel(levels, TheSide, ThePrice)
      BY <2>1, TakeFromFrontEffect DEF ThePrice, TheQueue, ThePassive
    <3> HIDE DEF front
    <3>4. [TheQueue EXCEPT ![1] = front] \in Seq(Orders)
          /\ Tail(TheQueue) \in Seq(Orders)
      BY <3>1, <3>2
    <3>5. \A queue \in Seq(Orders) :
            IsLevels(SetLevel(levels, TheSide, ThePrice, queue))
      BY <1>0, <3>1, SetLevelEffect
    <3>6. IsLevels(DropLevel(levels, TheSide, ThePrice))
      BY <1>0, <3>1, DropLevelEffect
    <3> QED
      BY <3>3, <3>4, <3>5, <3>6
  <2>3. traded' \in [1..MaxOrders -> Nat]
    <3>1. TheQty \in Nat
      BY <1>2, MatchFillEffect
    <3>2. traded' = [n \in DOMAIN traded |->
                       IF n \in {active.arrival, ThePassive.arrival}
                       THEN traded[n] + TheQty ELSE traded[n]]
      BY <1>2, MatchFillEffect
    <3>3. traded \in [1..MaxOrders -> Nat]
      BY DEF TypeOK
    <3> QED
      BY <3>1, <3>2, <3>3
  <2> QED
    BY <1>0, <2>1, <2>2, <2>3 DEF TypeOK
<1>3. CASE MatchEmptyLevel
  <2>1. /\ pc = "match"
        /\ levels' = DropLevel(levels, TheSide, ThePrice)
        /\ UNCHANGED <<prev, active, outputs, pc, arrivals, traded, view>>
    BY <1>3, MatchEmptyLevelEffect
  <2>2. TheSide \in Sides
    BY <2>1, MatchingContext
  <2>3. IsLevels(levels')
    BY <1>0, <2>1, <2>2, DropLevelEffect
  <2> QED
    BY <2>1, <2>3 DEF TypeOK
<1>4. CASE FinishAdd
  <2>1. pc = "match" /\ active \in Orders
    BY <1>4, MatchingContext DEF FinishAdd
  <2>2. IsLevels(Settle(levels, active))
    BY <1>0, <2>1, SettleType
  <2>3. ReportTop(Settle(levels, active), outputs) /\ UNCHANGED <<arrivals, traded>>
    BY <1>4 DEF FinishAdd
  <2> QED
    BY <1>0, <2>2, <2>3, ReportTopEffect, TopDomains DEF TypeOK
<1>5. ASSUME NEW key \in Keys, CancelOrder(key) PROVE TypeOK'
  <2>1. CASE InBook(levels, key)
    <3>1. ReportTop(RemoveOrder(levels, key), <<CancelAckOutput(key)>>)
          /\ UNCHANGED <<arrivals, traded>>
      BY <1>5, <2>1 DEF CancelOrder
    <3>2. IsLevels(RemoveOrder(levels, key))
      BY <1>0, <2>1, RemoveOrderType
    <3> QED
      BY <1>0, <3>1, <3>2, ReportTopEffect, TopDomains DEF TypeOK
  <2>2. CASE ~InBook(levels, key)
    BY <1>5, <2>2 DEF CancelOrder, TypeOK
  <2> QED
    BY <2>1, <2>2
<1>6. CASE Flush
  <2>1. IsLevels(levels')
    BY <1>6 DEF Flush, IsLevels, EmptyLevels
  <2> QED
    BY <1>6, <2>1, TopDomains DEF Flush, TypeOK
<1>7. CASE UNCHANGED vars
  BY <1>7 DEF vars, TypeOK
<1> QED
  BY <1>1, <1>2, <1>3, <1>4, <1>5, <1>6, <1>7 DEF Next

\* All variables have their types in every reachable state: what remains of an
\* order never leaves the range of a u32 and the loop never reads a level or a
\* queue position that is not there.
THEOREM TypeCorrect == Spec => []TypeOK
<1>1. Init => TypeOK
  BY InitTypeOK
<1>2. TypeOK /\ [Next]_vars => TypeOK'
  BY NextTypeOK
<1> QED
  BY <1>1, <1>2, PTL DEF Spec
-----------------------------------------------------------------------------
(* The queued orders.                                                      *)

\* Storing a consistent queue, or dropping a level, keeps a book consistent.
LEMMA SetLevelConsistent ==
    ASSUME NEW lv, IsLevels(lv), BookConsistent(lv), NEW side \in Sides,
           NEW price \in Prices, NEW queue \in Seq(Orders),
           QueueConsistent(side, price, queue)
    PROVE  BookConsistent(SetLevel(lv, side, price, queue))
<1> DEFINE new == SetLevel(lv, side, price, queue)
<1>1. /\ DOMAIN new[side] = DOMAIN lv[side] \cup {price}
      /\ new[side][price] = queue
      /\ \A p \in DOMAIN lv[side] : p # price => new[side][p] = lv[side][p]
      /\ \A s \in Sides : s # side => new[s] = lv[s]
  BY SetLevelEffect
<1> HIDE DEF new
<1>2. ASSUME NEW s \in Sides, NEW p \in DOMAIN new[s]
      PROVE  QueueConsistent(s, p, new[s][p])
  <2>1. CASE s = side /\ p = price
    BY <1>1, <2>1
  <2>2. CASE s = side /\ p # price
    BY <1>1, <1>2, <2>2 DEF BookConsistent
  <2>3. CASE s # side
    BY <1>1, <1>2, <2>3 DEF BookConsistent
  <2> QED
    BY <2>1, <2>2, <2>3
<1>3. BookConsistent(new)
  BY <1>2 DEF BookConsistent
<1> QED
  BY <1>3 DEF new

LEMMA DropLevelConsistent ==
    ASSUME NEW lv, IsLevels(lv), BookConsistent(lv), NEW side \in Sides, NEW price
    PROVE  BookConsistent(DropLevel(lv, side, price))
<1> DEFINE new == DropLevel(lv, side, price)
<1>1. /\ DOMAIN new[side] = DOMAIN lv[side] \ {price}
      /\ \A p \in DOMAIN new[side] : new[side][p] = lv[side][p]
      /\ \A s \in Sides : s # side => new[s] = lv[s]
  BY DropLevelEffect
<1> HIDE DEF new
<1>2. ASSUME NEW s \in Sides, NEW p \in DOMAIN new[s]
      PROVE  QueueConsistent(s, p, new[s][p])
  BY <1>1, <1>2 DEF BookConsistent
<1>3. BookConsistent(new)
  BY <1>2 DEF BookConsistent
<1> QED
  BY <1>3 DEF new

\* What is left of a limit order joins the queue of its own side and price.
LEMMA SettleConsistent ==
    ASSUME NEW lv, IsLevels(lv), BookConsistent(lv), NEW order \in Orders,
           order.remaining_qty <= order.quantity
    PROVE  BookConsistent(Settle(lv, order))
<1>1. CASE ~(order.remaining_qty > 0 /\ ~IsMarket(order))
  BY <1>1 DEF Settle
<1>2. CASE order.remaining_qty > 0 /\ ~IsMarket(order)
  <2>1. order.side \in Sides /\ order.price \in Prices
    BY <1>2 DEF Orders, IsMarket, Market
  <2> DEFINE queue == IF order.price \in DOMAIN lv[order.side]
                      THEN lv[order.side][order.price] ELSE <<>>
  <2>2. queue \in Seq(Orders) /\ QueueConsistent(order.side, order.price, queue)
    <3>1. CASE order.price \in DOMAIN lv[order.side]
      BY <2>1, <3>1 DEF IsLevels, BookConsistent
    <3>2. CASE order.price \notin DOMAIN lv[order.side]
      <4>1. queue = <<>>
        BY <3>2
      <4> HIDE DEF queue
      <4> QED
        BY <4>1 DEF QueueConsistent
    <3> QED
      BY <3>1, <3>2
  <2>3. Settle(lv, order) =
          SetLevel(lv, order.side, order.price, Append(queue, order))
    BY <1>2 DEF Settle, AddToBook
  <2> HIDE DEF queue
  <2>4. Append(queue, order) \in Seq(Orders)
    BY <2>2
  <2>5. QueueConsistent(order.side, order.price, Append(queue, order))
    <3> SUFFICES ASSUME NEW i \in DOMAIN Append(queue, order)
                 PROVE  LET o == Append(queue, order)[i] IN
                        /\ o.side = order.side /\ o.price = order.price
                        /\ 0 < o.remaining_qty /\ o.remaining_qty <= o.quantity
      BY DEF QueueConsistent
    <3>1. CASE i = Len(queue) + 1
      <4>1. Append(queue, order)[i] = order
        BY <2>2, <3>1
      <4>2. order.remaining_qty \in Int
        BY BookAssumption DEF Orders
      <4> QED
        BY <1>2, <4>1, <4>2
    <3>2. CASE i # Len(queue) + 1
      <4>1. i \in DOMAIN queue /\ Append(queue, order)[i] = queue[i]
        BY <2>2, <3>2
      <4> QED
        BY <2>2, <4>1 DEF QueueConsistent
    <3> QED
      BY <3>1, <3>2
  <2> QED
    BY <2>1, <2>3, <2>4, <2>5, SetLevelConsistent
<1> QED
  BY <1>1, <1>2

\* Taking an order out of its queue leaves the others as they are.
LEMMA RemoveOrderConsistent ==
    ASSUME NEW lv, IsLevels(lv), BookConsistent(lv), NEW key, InBook(lv, key)
    PROVE  BookConsistent(RemoveOrder(lv, key))
<1>1. PICK side \in Sides : \E price \in DOMAIN lv[side] :
        \E i \in 1..Len(lv[side][price]) :
          RemoveOrder(lv, key) =
            SetLevel(lv, side, price, RemoveAt(lv[side][price], i))
  BY RemoveOrderEffect
<1>2. PICK price \in DOMAIN lv[side] :
        \E i \in 1..Len(lv[side][price]) :
          RemoveOrder(lv, key) =
            SetLevel(lv, side, price, RemoveAt(lv[side][price], i))
  BY <1>1
<1> DEFINE queue == lv[side][price]
<1>3. PICK i \in 1..Len(queue) :
        RemoveOrder(lv, key) = SetLevel(lv, side, price, RemoveAt(queue, i))
  BY <1>2
<1>4. /\ queue \in Seq(Orders) /\ price \in Prices
      /\ QueueConsistent(side, price, queue)
  BY DEF IsLevels, BookConsistent
<1> HIDE DEF queue
<1>5. /\ RemoveAt(queue, i) \in Seq(Orders)
      /\ Len(RemoveAt(queue, i)) = Len(queue) - 1
      /\ \A j \in 1..(Len(queue) - 1) :
           RemoveAt(queue, i)[j] = IF j < i THEN queue[j] ELSE queue[j + 1]
  BY <1>4, RemoveAtEffect
<1>6. QueueConsistent(side, price, RemoveAt(queue, i))
  <2>1. ASSUME NEW j \in DOMAIN RemoveAt(queue, i)
        PROVE  \E k \in DOMAIN queue : RemoveAt(queue, i)[j] = queue[k]
    BY <1>4, <1>5
  <2> QED
    BY <1>4, <2>1 DEF QueueConsistent
<1> QED
  BY <1>3, <1>4, <1>5, <1>6, SetLevelConsistent

-----------------------------------------------------------------------------
(* A book that is consistent and not crossed.                              *)

\* What remains of the incoming order never exceeds what it asked for.
WithinQuantity == pc = "match" => active.remaining_qty <= active.quantity

\* The inductive invariant.  That an order joins a book that stays uncrossed
\* needs the types of the book and of the order; that what it leaves is
\* consistent needs WithinQuantity.
IInv == TypeOK /\ Consistent /\ NotCrossed /\ WithinQuantity

\* A book whose prices are among those of an uncrossed book is not crossed.
LEMMA FewerPrices ==
    ASSUME NEW lv, NEW new, BookNotCrossed(lv),
           \A s \in Sides : DOMAIN new[s] \subseteq DOMAIN lv[s]
    PROVE  BookNotCrossed(new)
BY DEF BookNotCrossed, Sides

\* An order that matches nothing is outside the prices of the other side.
LEMMA SettleNotCrossed ==
    ASSUME NEW lv, IsLevels(lv), BookNotCrossed(lv), NEW order \in Orders,
           ~Matching(lv, order)
    PROVE  BookNotCrossed(Settle(lv, order))
<1>1. CASE ~(order.remaining_qty > 0 /\ ~IsMarket(order))
  BY <1>1 DEF Settle
<1>2. CASE order.remaining_qty > 0 /\ ~IsMarket(order)
  <2>1. order.side \in Sides /\ order.price \in Prices
    BY <1>2 DEF Orders, IsMarket, Market
  <2> DEFINE other == Opposite(order.side)
             queue == IF order.price \in DOMAIN lv[order.side]
                      THEN lv[order.side][order.price] ELSE <<>>
             new   == SetLevel(lv, order.side, order.price, Append(queue, order))
  <2>2. Settle(lv, order) = new
    BY <1>2 DEF Settle, AddToBook
  <2>3. queue \in Seq(Orders)
    BY <2>1 DEF IsLevels
  <2>4. Append(queue, order) \in Seq(Orders)
    <3> HIDE DEF queue
    <3> QED
      BY <2>3
  <2>5. other \in Sides /\ other # order.side
        /\ \A s \in Sides : s # order.side => s = other
    BY <2>1, OppositeSide
  <2>6. /\ DOMAIN new[order.side] = DOMAIN lv[order.side] \cup {order.price}
        /\ new[other] = lv[other]
    <3>1. \A q \in Seq(Orders) :
            LET set == SetLevel(lv, order.side, order.price, q) IN
            /\ DOMAIN set[order.side] = DOMAIN lv[order.side] \cup {order.price}
            /\ \A s \in Sides : s # order.side => set[s] = lv[s]
      BY <2>1, SetLevelEffect
    <3> HIDE DEF queue, other
    <3> QED
      BY <2>4, <2>5, <3>1
  <2>7. ASSUME NEW p \in DOMAIN lv[other]
        PROVE  IF order.side = "Buy" THEN order.price < p ELSE p < order.price
    <3>1. ~CanMatch(order, BestPrice(lv, other))
      BY <1>2, <2>7 DEF Matching
    <3>2. /\ BestPrice(lv, other) \in Prices
          /\ other = "Buy"  => p <= BestPrice(lv, other)
          /\ other = "Sell" => BestPrice(lv, other) <= p
      <4> HIDE DEF other
      <4> QED
        BY <2>5, <2>7, BestPriceIsBest
    <3>3. p \in Prices
      BY <2>5, <2>7 DEF IsLevels
    <3>4. \A x \in Prices : x \in Nat
      BY BookAssumption
    <3>5. CASE order.side = "Buy"
      BY <2>1, <3>1, <3>2, <3>3, <3>4, <3>5 DEF CanMatch, Opposite
    <3>6. CASE order.side = "Sell"
      BY <2>1, <3>1, <3>2, <3>3, <3>4, <3>6 DEF CanMatch, Opposite
    <3> QED
      BY <2>1, <3>5, <3>6 DEF Sides
  <2> HIDE DEF new
  <2>8. ASSUME order.side = "Buy" PROVE BookNotCrossed(new)
    BY <2>6, <2>7, <2>8 DEF BookNotCrossed, Opposite
  <2>9. ASSUME order.side = "Sell" PROVE BookNotCrossed(new)
    BY <2>6, <2>7, <2>9 DEF BookNotCrossed, Opposite
  <2> QED
    BY <2>1, <2>2, <2>8, <2>9 DEF Sides
<1> QED
  BY <1>1, <1>2

\* A cancel adds no price to a book: the level it empties stays.
LEMMA RemoveOrderPrices ==
    ASSUME NEW lv, IsLevels(lv), NEW key, InBook(lv, key)
    PROVE  \A s \in Sides : DOMAIN RemoveOrder(lv, key)[s] = DOMAIN lv[s]
<1>1. PICK side \in Sides : \E price \in DOMAIN lv[side] :
        \E i \in 1..Len(lv[side][price]) :
          RemoveOrder(lv, key) =
            SetLevel(lv, side, price, RemoveAt(lv[side][price], i))
  BY RemoveOrderEffect
<1>2. PICK price \in DOMAIN lv[side] :
        \E i \in 1..Len(lv[side][price]) :
          RemoveOrder(lv, key) =
            SetLevel(lv, side, price, RemoveAt(lv[side][price], i))
  BY <1>1
<1>3. PICK queue : RemoveOrder(lv, key) = SetLevel(lv, side, price, queue)
  BY <1>2
<1> QED
  BY <1>3 DEF SetLevel, IsLevels

\* The quantities of an order are numbers.
LEMMA OrderNumbers ==
    ASSUME NEW order \in Orders
    PROVE  order.remaining_qty \in Nat /\ order.quantity \in Nat
<1>1. order.remaining_qty \in 0..(U32 - 1) /\ order.quantity \in 0..(U32 - 1)
  BY BookAssumption DEF Orders
<1> QED
  BY <1>1, BookAssumption

\* A fill leaves consistent queues, adds no price, and takes from the incoming
\* order no more than it has left.
LEMMA MatchFillIInv ==
    ASSUME IInv, MatchFill
    PROVE  Consistent' /\ NotCrossed' /\ WithinQuantity'
<1>1. TypeOK /\ BookConsistent(levels) /\ BookNotCrossed(levels)
      /\ WithinQuantity /\ IsLevels(levels)
  BY DEF IInv, Consistent, NotCrossed, TypeOK
<1>2. /\ pc = "match" /\ pc' = "match" /\ Matching(levels, active)
      /\ TheQueue # <<>> /\ ThePassive \in Orders /\ ThePassive = TheQueue[1]
      /\ TheQty \in Nat
      /\ levels' = TakeFromFront(levels, TheSide, TheQty)
      /\ active' = Fill(active, TheQty)
  BY <1>1, MatchFillEffect
<1>3. /\ active \in Orders /\ TheSide \in Sides
      /\ ThePrice \in DOMAIN levels[TheSide] /\ ThePrice \in Prices
      /\ TheQueue \in Seq(Orders)
  BY <1>1, <1>2, MatchingContext
<1> DEFINE front == Fill(ThePassive, TheQty)
<1>4. /\ ThePassive.remaining_qty - TheQty \in 0..(U32 - 1)
      /\ active.remaining_qty - TheQty \in 0..(U32 - 1)
  BY <1>2, <1>3, TradeQuantityBound DEF TheQty
<1>5. QueueConsistent(TheSide, ThePrice, TheQueue)
  BY <1>1, <1>3 DEF BookConsistent, TheQueue
<1>6. /\ front \in Orders
      /\ front.side = TheSide /\ front.price = ThePrice
      /\ 0 <= front.remaining_qty /\ front.remaining_qty <= front.quantity
  <2>1. /\ ThePassive.side = TheSide /\ ThePassive.price = ThePrice
        /\ ThePassive.remaining_qty <= ThePassive.quantity
    BY <1>2, <1>3, <1>5 DEF QueueConsistent
  <2>2. /\ front \in Orders /\ front.side = ThePassive.side
        /\ front.price = ThePassive.price
        /\ front.quantity = ThePassive.quantity
        /\ front.remaining_qty = ThePassive.remaining_qty - TheQty
    BY <1>2, <1>4, FillEffect
  <2>3. ThePassive.quantity \in Nat /\ ThePassive.remaining_qty \in Nat
        /\ 0 <= ThePassive.remaining_qty - TheQty
    BY <1>2, <1>4, OrderNumbers, BookAssumption
  <2> HIDE DEF front
  <2> QED
    BY <1>2, <2>1, <2>2, <2>3
<1>7. \/ front.remaining_qty # 0 /\
         levels' = SetLevel(levels, TheSide, ThePrice, [TheQueue EXCEPT ![1] = front])
      \/ levels' = SetLevel(levels, TheSide, ThePrice, Tail(TheQueue))
      \/ levels' = DropLevel(levels, TheSide, ThePrice)
  BY <1>2, TakeFromFrontEffect DEF ThePrice, TheQueue, ThePassive
<1> HIDE DEF front
<1>8. ASSUME NEW queue \in Seq(Orders), QueueConsistent(TheSide, ThePrice, queue),
             levels' = SetLevel(levels, TheSide, ThePrice, queue)
      PROVE  Consistent' /\ NotCrossed'
  <2>1. BookConsistent(levels')
    BY <1>1, <1>3, <1>8, SetLevelConsistent
  <2>2. \A s \in Sides : DOMAIN levels'[s] \subseteq DOMAIN levels[s]
    BY <1>1, <1>3, <1>8, SetLevelEffect
  <2>3. BookNotCrossed(levels')
    BY <1>1, <2>2, FewerPrices
  <2> QED
    BY <2>1, <2>3 DEF Consistent, NotCrossed, BookConsistent, BookNotCrossed,
                      QueueConsistent
<1>9. Consistent' /\ NotCrossed'
  <2>1. ASSUME front.remaining_qty # 0,
               levels' = SetLevel(levels, TheSide, ThePrice,
                                  [TheQueue EXCEPT ![1] = front])
        PROVE  Consistent' /\ NotCrossed'
    <3>1. [TheQueue EXCEPT ![1] = front] \in Seq(Orders)
      <4>1. TheQueue \in Seq(Orders) /\ TheQueue # <<>> /\ front \in Orders
        BY <1>2, <1>3, <1>6
      <4> QED
        BY <4>1
    <3>2. 0 < front.remaining_qty
      BY <1>6, <2>1, BookAssumption DEF Orders
    <3>3. QueueConsistent(TheSide, ThePrice, [TheQueue EXCEPT ![1] = front])
      BY <1>3, <1>5, <1>6, <3>2 DEF QueueConsistent
    <3> QED
      BY <1>8, <2>1, <3>1, <3>3
  <2>2. ASSUME levels' = SetLevel(levels, TheSide, ThePrice, Tail(TheQueue))
        PROVE  Consistent' /\ NotCrossed'
    <3>1. Tail(TheQueue) \in Seq(Orders)
      BY <1>2, <1>3
    <3>2. ASSUME NEW i \in DOMAIN Tail(TheQueue)
          PROVE  i + 1 \in DOMAIN TheQueue
                 /\ Tail(TheQueue)[i] = TheQueue[i + 1]
      BY <1>2, <1>3
    <3>3. QueueConsistent(TheSide, ThePrice, Tail(TheQueue))
      BY <1>5, <3>2 DEF QueueConsistent
    <3> QED
      BY <1>8, <2>2, <3>1, <3>3
  <2>3. ASSUME levels' = DropLevel(levels, TheSide, ThePrice)
        PROVE  Consistent' /\ NotCrossed'
    <3>1. BookConsistent(levels')
      BY <1>1, <1>3, <2>3, DropLevelConsistent
    <3>2. \A s \in Sides : DOMAIN levels'[s] \subseteq DOMAIN levels[s]
      BY <1>1, <1>3, <2>3, DropLevelEffect
    <3>3. BookNotCrossed(levels')
      BY <1>1, <3>2, FewerPrices
    <3> QED
      BY <3>1, <3>3 DEF Consistent, NotCrossed, BookConsistent, BookNotCrossed,
                        QueueConsistent
  <2> QED
    BY <1>7, <2>1, <2>2, <2>3
<1>10. WithinQuantity'
  <2>1. active'.remaining_qty = active.remaining_qty - TheQty
        /\ active'.quantity = active.quantity
    BY <1>2, <1>3, <1>4, FillEffect
  <2>2. active.remaining_qty \in Nat /\ active.quantity \in Nat
    BY <1>3, OrderNumbers
  <2> QED
    BY <1>1, <1>2, <2>1, <2>2 DEF WithinQuantity
<1> QED
  BY <1>9, <1>10

\* The two properties of the book in the next state are those of levels'.
LEMMA OfNextBook ==
    ASSUME BookConsistent(levels'), BookNotCrossed(levels')
    PROVE  Consistent' /\ NotCrossed'
BY DEF Consistent, NotCrossed, BookConsistent, BookNotCrossed, QueueConsistent

LEMMA InitIInv == Init => IInv
<1> SUFFICES ASSUME Init PROVE IInv
  OBVIOUS
<1>1. TypeOK
  BY InitTypeOK
<1>2. levels = EmptyLevels /\ pc = "idle"
  BY DEF Init
<1>3. Consistent
  BY <1>2 DEF Consistent, BookConsistent, EmptyLevels
<1>4. NotCrossed
  BY <1>2 DEF NotCrossed, BookNotCrossed, EmptyLevels, Sides
<1> QED
  BY <1>1, <1>2, <1>3, <1>4 DEF IInv, WithinQuantity

LEMMA NextIInv == IInv /\ [Next]_vars => IInv'
<1> SUFFICES ASSUME IInv, [Next]_vars PROVE IInv'
  OBVIOUS
<1>0. TypeOK /\ IsLevels(levels) /\ BookConsistent(levels)
      /\ BookNotCrossed(levels) /\ Consistent /\ NotCrossed /\ WithinQuantity
  BY DEF IInv, TypeOK, Consistent, NotCrossed
<1>t. TypeOK'
  BY <1>0, NextTypeOK
<1> SUFFICES Consistent' /\ NotCrossed' /\ WithinQuantity'
  BY <1>t DEF IInv
<1>1. ASSUME NEW msg \in NewOrders, AddOrder(msg)
      PROVE  Consistent' /\ NotCrossed' /\ WithinQuantity'
  <2>1. levels' = levels /\ active' = FromNewOrder(msg, arrivals + 1)
    BY <1>1 DEF AddOrder
  <2>2. active'.remaining_qty = active'.quantity /\ active'.quantity \in Nat
    <3>1. msg.quantity \in 0..(U32 - 1)
      BY BookAssumption DEF NewOrders
    <3> QED
      BY <2>1, <3>1, BookAssumption DEF FromNewOrder
  <2>3. WithinQuantity'
    BY <2>2 DEF WithinQuantity
  <2> QED
    BY <1>0, <2>1, <2>3, OfNextBook
<1>2. CASE MatchFill
  BY <1>2, MatchFillIInv
<1>3. CASE MatchEmptyLevel
  <2>1. /\ pc = "match" /\ levels' = DropLevel(levels, TheSide, ThePrice)
        /\ UNCHANGED <<active, pc>>
    BY <1>0, <1>3, MatchEmptyLevelEffect
  <2>2. TheSide \in Sides
    BY <1>0, <2>1, MatchingContext
  <2>3. BookConsistent(levels')
    BY <1>0, <2>1, <2>2, DropLevelConsistent
  <2>4. \A s \in Sides : DOMAIN levels'[s] \subseteq DOMAIN levels[s]
    BY <1>0, <2>1, <2>2, DropLevelEffect
  <2>5. BookNotCrossed(levels')
    BY <1>0, <2>4, FewerPrices
  <2>6. WithinQuantity'
    BY <1>0, <2>1 DEF WithinQuantity
  <2> QED
    BY <2>3, <2>5, <2>6, OfNextBook
<1>4. CASE FinishAdd
  <2>1. /\ pc = "match" /\ ~Matching(levels, active)
        /\ ReportTop(Settle(levels, active), outputs)
    BY <1>4 DEF FinishAdd
  <2>2. active \in Orders /\ active.remaining_qty <= active.quantity
    BY <1>0, <2>1, MatchingContext DEF WithinQuantity
  <2>3. levels' = Settle(levels, active) /\ pc' # "match"
    BY <2>1, ReportTopEffect
  <2>4. BookConsistent(levels') /\ BookNotCrossed(levels')
    BY <1>0, <2>1, <2>2, <2>3, SettleConsistent, SettleNotCrossed
  <2> QED
    BY <2>3, <2>4, OfNextBook DEF WithinQuantity
<1>5. ASSUME NEW key \in Keys, CancelOrder(key)
      PROVE  Consistent' /\ NotCrossed' /\ WithinQuantity'
  <2>1. CASE InBook(levels, key)
    <3>1. ReportTop(RemoveOrder(levels, key), <<CancelAckOutput(key)>>)
      BY <1>5, <2>1 DEF CancelOrder
    <3>2. levels' = RemoveOrder(levels, key) /\ pc' # "match"
      BY <3>1, ReportTopEffect
    <3>3. BookConsistent(levels')
      BY <1>0, <2>1, <3>2, RemoveOrderConsistent
    <3>4. \A s \in Sides : DOMAIN levels'[s] \subseteq DOMAIN levels[s]
      BY <1>0, <2>1, <3>2, RemoveOrderPrices
    <3>5. BookNotCrossed(levels')
      BY <1>0, <3>4, FewerPrices
    <3> QED
      BY <3>2, <3>3, <3>5, OfNextBook DEF WithinQuantity
  <2>2. CASE ~InBook(levels, key)
    <3>1. UNCHANGED <<levels, active, pc>>
      BY <1>5, <2>2 DEF CancelOrder
    <3> QED
      BY <1>0, <3>1, OfNextBook DEF WithinQuantity
  <2> QED
    BY <2>1, <2>2
<1>6. CASE Flush
  <2>1. levels' = EmptyLevels /\ pc' # "match"
    BY <1>6 DEF Flush
  <2>2. BookConsistent(levels') /\ BookNotCrossed(levels')
    BY <2>1 DEF BookConsistent, BookNotCrossed, EmptyLevels, Sides
  <2> QED
    BY <2>1, <2>2, OfNextBook DEF WithinQuantity
<1>7. CASE UNCHANGED vars
  <2>1. UNCHANGED <<levels, active, pc>>
    BY <1>7 DEF vars
  <2> QED
    BY <1>0, <2>1, OfNextBook DEF WithinQuantity
<1> QED
  BY <1>1, <1>2, <1>3, <1>4, <1>5, <1>6, <1>7 DEF Next

LEMMA IInvHolds == Spec => []IInv
<1>1. Init => IInv
  BY InitIInv
<1>2. IInv /\ [Next]_vars => IInv'
  BY NextIInv
<1> QED
  BY <1>1, <1>2, PTL DEF Spec

\* In every reachable state, in the middle of a match included, every queued
\* order sits in the level of its own side and price with something left and
\* no more than it asked for: match_order may trade at the level's price, and
\* no order that is filled, and no market order, ever rests.
THEOREM QueuesConsistent == Spec => []Consistent
<1>1. IInv => Consistent
  BY DEF IInv
<1> QED
  BY <1>1, IInvHolds, PTL

\* Whatever orders come and go, no bid level meets an ask level: the matching
\* loop never stops too early and add_to_book never stores a price that could
\* have traded, levels that a cancel left without orders included.
THEOREM NeverCrossed == Spec => []NotCrossed
<1>1. IInv => NotCrossed
  BY DEF IInv
<1> QED
  BY <1>1, IInvHolds, PTL

-----------------------------------------------------------------------------
(* The top of the book.                                                    *)

\* The state of the book that TopCoherent speaks of stays right.
CoherentInv == TypeOK /\ TopCoherent

LEMMA NextCoherent == CoherentInv /\ [Next]_vars => TopCoherent'
<1> SUFFICES ASSUME CoherentInv, [Next]_vars PROVE TopCoherent'
  OBVIOUS
<1>0. /\ IsLevels(levels) /\ view = prev
      /\ pc = "idle" => prev = Snapshot(levels)
  BY DEF CoherentInv, TypeOK, TopCoherent
<1>1. ASSUME NEW after, IsLevels(after), NEW messages \in Seq(Silent),
             ReportTop(after, messages)
      PROVE  TopCoherent'
  <2>1. CASE pc' = "panicked"
    <3>1. UNCHANGED <<prev, view>>
      BY <1>1, <2>1 DEF ReportTop
    <3> QED
      BY <1>0, <2>1, <3>1 DEF TopCoherent
  <2>2. CASE pc' # "panicked"
    <3>1. /\ levels' = after /\ prev' = Snapshot(after)
          /\ outputs' = messages \o TopEvents(prev, Snapshot(after))
          /\ view' = Observe(view, outputs')
      BY <1>1, <2>2, ReportTopEffect
    <3>2. view' = Snapshot(after)
      BY <1>0, <1>1, <3>1, CheckedTop
    <3> QED
      BY <3>1, <3>2 DEF TopCoherent
  <2> QED
    BY <2>1, <2>2
<1>2. ASSUME NEW msg \in NewOrders, AddOrder(msg) PROVE TopCoherent'
  BY <1>0, <1>2 DEF AddOrder, TopCoherent
<1>3. CASE MatchFill
  BY <1>0, <1>3 DEF MatchFill, TopCoherent
<1>4. CASE MatchEmptyLevel
  BY <1>0, <1>4 DEF MatchEmptyLevel, TopCoherent
<1>5. CASE FinishAdd
  <2>1. active \in Orders /\ outputs \in Seq(Acks \cup Trades)
    BY <1>5, MatchingContext DEF FinishAdd, CoherentInv
  <2>2. outputs \in Seq(Silent)
    BY <2>1 DEF Silent
  <2>3. IsLevels(Settle(levels, active))
    BY <1>0, <2>1, SettleType
  <2>4. ReportTop(Settle(levels, active), outputs)
    BY <1>5 DEF FinishAdd
  <2> QED
    BY <1>1, <2>2, <2>3, <2>4
<1>6. ASSUME NEW key \in Keys, CancelOrder(key) PROVE TopCoherent'
  <2>1. CASE InBook(levels, key)
    <3>1. ReportTop(RemoveOrder(levels, key), <<CancelAckOutput(key)>>)
      BY <1>6, <2>1 DEF CancelOrder
    <3>2. IsLevels(RemoveOrder(levels, key))
      BY <1>0, <2>1, RemoveOrderType
    <3> DEFINE ack == CancelAckOutput(key)
    <3>3. ack \in Silent
      BY SilentMessages
    <3> HIDE DEF ack
    <3>4. <<ack>> \in Seq(Silent)
      BY <3>3
    <3> QED
      BY <1>1, <3>1, <3>2, <3>4 DEF ack
  <2>2. CASE ~InBook(levels, key)
    BY <1>0, <1>6, <2>2 DEF CancelOrder, TopCoherent
  <2> QED
    BY <2>1, <2>2
<1>7. CASE Flush
  <2>1. /\ pc = "idle" /\ levels' = EmptyLevels /\ prev' = NoTop
        /\ view' = Observe(view, FlushOutputs(levels))
    BY <1>7 DEF Flush
  <2>2. view' = NoTop
    BY <1>0, <2>1, FlushedTop
  <2> QED
    BY <2>1, <2>2, EmptyBook DEF TopCoherent
<1>8. CASE UNCHANGED vars
  BY <1>0, <1>8 DEF vars, TopCoherent
<1> QED
  BY <1>2, <1>3, <1>4, <1>5, <1>6, <1>7, <1>8 DEF Next

\* Whatever calls come, the cached top is the top of the book between them,
\* and a subscriber who sees only the TopOfBook messages knows it too: no
\* fill, cancel, flush or wrapped sum changes the top without saying so.
THEOREM TopStaysCoherent == Spec => []TopCoherent
<1>1. Init => CoherentInv
  <2>1. Init => TopCoherent
    BY EmptyBook DEF Init, TopCoherent
  <2> QED
    BY <2>1, InitTypeOK DEF CoherentInv
<1>2. CoherentInv /\ [Next]_vars => CoherentInv'
  BY NextCoherent, NextTypeOK DEF CoherentInv
<1>3. CoherentInv => TopCoherent
  BY DEF CoherentInv
<1> QED
  BY <1>1, <1>2, <1>3, PTL DEF Spec

-----------------------------------------------------------------------------
(* Priority and conservation.  All of it rests on one fact about the book: *)
(* no two queued orders have the same arrival, and arrivals grow along     *)
(* every queue.                                                            *)


\* Arrivals grow along the queue and none is later than `last`.
QueueFifo(queue, last) ==
    /\ \A i, j \in DOMAIN queue : i < j => queue[i].arrival < queue[j].arrival
    /\ \A i \in DOMAIN queue : 1 <= queue[i].arrival /\ queue[i].arrival <= last

BookFifo(lv, last) ==
    \A side \in Sides : \A price \in DOMAIN lv[side] :
        QueueFifo(lv[side][price], last)

\* Orders of the same arrival are in the same queue.
OnePlace(lv) ==
    \A s, t \in Sides : \A p \in DOMAIN lv[s], q \in DOMAIN lv[t] :
        \A i \in DOMAIN lv[s][p], j \in DOMAIN lv[t][q] :
            lv[s][p][i].arrival = lv[t][q][j].arrival => s = t /\ p = q

\* The latest arrival that may be queued: the order in the loop is not yet.
LastQueued == IF pc = "match" THEN arrivals - 1 ELSE arrivals

PriorityInv ==
    /\ IInv
    /\ BookFifo(levels, LastQueued)
    /\ OnePlace(levels)
    /\ pc = "match" => active.arrival = arrivals /\ 1 <= arrivals

\* Every order of the queue has the arrival of one that was there before.
Thinned(queue, old) ==
    \A i \in DOMAIN queue : \E k \in DOMAIN old : queue[i].arrival = old[k].arrival

-----------------------------------------------------------------------------
(* Edits of the book.                                                      *)

\* A level may be replaced by a queue in order whose orders were in it, or are
\* later than all that are queued anywhere.
LEMMA SetLevelFifo ==
    ASSUME NEW lv, IsLevels(lv), NEW last \in Nat, NEW next \in Nat, last <= next,
           BookFifo(lv, last), OnePlace(lv),
           NEW side \in Sides, NEW price \in Prices, NEW queue \in Seq(Orders),
           QueueFifo(queue, next),
           \A i \in DOMAIN queue :
               \/ last < queue[i].arrival
               \/ /\ price \in DOMAIN lv[side]
                  /\ \E k \in DOMAIN lv[side][price] :
                       queue[i].arrival = lv[side][price][k].arrival
    PROVE  /\ BookFifo(SetLevel(lv, side, price, queue), next)
           /\ OnePlace(SetLevel(lv, side, price, queue))
<1> DEFINE new == SetLevel(lv, side, price, queue)
<1>1. /\ DOMAIN new[side] = DOMAIN lv[side] \cup {price}
      /\ new[side][price] = queue
      /\ \A p \in DOMAIN lv[side] : p # price => new[side][p] = lv[side][p]
      /\ \A s \in Sides : s # side => new[s] = lv[s]
  BY SetLevelEffect
<1> HIDE DEF new
<1>2. ASSUME NEW s \in Sides, NEW p \in DOMAIN new[s], ~(s = side /\ p = price)
      PROVE  p \in DOMAIN lv[s] /\ new[s][p] = lv[s][p]
  BY <1>1, <1>2
<1>3. ASSUME NEW s \in Sides, NEW p \in DOMAIN lv[s], NEW i \in DOMAIN lv[s][p]
      PROVE  1 <= lv[s][p][i].arrival /\ lv[s][p][i].arrival <= last
             /\ lv[s][p][i].arrival \in Nat
  <2>1. lv[s][p] \in Seq(Orders)
    BY DEF IsLevels
  <2>2. lv[s][p][i] \in Orders
    BY <2>1
  <2> QED
    BY <2>2 DEF BookFifo, QueueFifo, Orders
<1>4. ASSUME NEW i \in DOMAIN queue PROVE queue[i].arrival \in Nat
  <2>1. queue[i] \in Orders
    OBVIOUS
  <2> QED
    BY <2>1 DEF Orders
<1>5. BookFifo(new, next)
  <2> SUFFICES ASSUME NEW s \in Sides, NEW p \in DOMAIN new[s]
               PROVE  QueueFifo(new[s][p], next)
    BY DEF BookFifo
  <2>1. CASE s = side /\ p = price
    BY <1>1, <2>1
  <2>2. CASE ~(s = side /\ p = price)
    <3>1. p \in DOMAIN lv[s] /\ new[s][p] = lv[s][p]
      BY <1>2, <2>2
    <3>2. QueueFifo(lv[s][p], last)
      BY <3>1 DEF BookFifo
    <3> QED
      BY <1>3, <3>1, <3>2 DEF QueueFifo
  <2> QED
    BY <2>1, <2>2
<1>6. ASSUME NEW t \in Sides, NEW q \in DOMAIN new[t], ~(t = side /\ q = price),
             NEW i \in DOMAIN queue, NEW j \in DOMAIN new[t][q]
      PROVE  queue[i].arrival # new[t][q][j].arrival
  <2>1. q \in DOMAIN lv[t] /\ new[t][q] = lv[t][q]
    BY <1>2, <1>6
  <2>2. CASE last < queue[i].arrival
    BY <1>3, <1>4, <2>1, <2>2
  <2>3. CASE price \in DOMAIN lv[side] /\ \E k \in DOMAIN lv[side][price] :
                       queue[i].arrival = lv[side][price][k].arrival
    BY <1>6, <2>1, <2>3 DEF OnePlace
  <2> QED
    BY <2>2, <2>3
<1>7. OnePlace(new)
  <2> SUFFICES ASSUME NEW s \in Sides, NEW t \in Sides,
                      NEW p \in DOMAIN new[s], NEW q \in DOMAIN new[t],
                      NEW i \in DOMAIN new[s][p], NEW j \in DOMAIN new[t][q],
                      new[s][p][i].arrival = new[t][q][j].arrival
               PROVE  s = t /\ p = q
    BY DEF OnePlace
  <2>1. CASE s = side /\ p = price
    BY <1>1, <1>6, <2>1
  <2>2. CASE t = side /\ q = price
    BY <1>1, <1>6, <2>2
  <2>3. CASE ~(s = side /\ p = price) /\ ~(t = side /\ q = price)
    <3>1. /\ p \in DOMAIN lv[s] /\ new[s][p] = lv[s][p]
          /\ q \in DOMAIN lv[t] /\ new[t][q] = lv[t][q]
      BY <1>2, <2>3
    <3> QED
      BY <3>1 DEF OnePlace
  <2> QED
    BY <2>1, <2>2, <2>3
<1> QED
  BY <1>5, <1>7 DEF new

\* Dropping a level does not touch the others.
LEMMA DropLevelFifo ==
    ASSUME NEW lv, IsLevels(lv), NEW last, BookFifo(lv, last), OnePlace(lv),
           NEW side \in Sides, NEW price
    PROVE  /\ BookFifo(DropLevel(lv, side, price), last)
           /\ OnePlace(DropLevel(lv, side, price))
<1> DEFINE new == DropLevel(lv, side, price)
<1>1. /\ DOMAIN new[side] = DOMAIN lv[side] \ {price}
      /\ \A p \in DOMAIN new[side] : new[side][p] = lv[side][p]
      /\ \A s \in Sides : s # side => new[s] = lv[s]
  BY DropLevelEffect
<1> HIDE DEF new
<1>2. \A s \in Sides : \A p \in DOMAIN new[s] :
        p \in DOMAIN lv[s] /\ new[s][p] = lv[s][p]
  BY <1>1
<1>3. BookFifo(new, last)
  BY <1>2 DEF BookFifo
<1>4. OnePlace(new)
  BY <1>2 DEF OnePlace
<1> QED
  BY <1>3, <1>4 DEF new

\* The queues that an iteration or a cancel leaves: without the i-th order,
\* without the first, or with a first order of the same arrival.
LEMMA RemoveAtFifo ==
    ASSUME NEW queue \in Seq(Orders), NEW last, QueueFifo(queue, last),
           NEW i \in 1..Len(queue)
    PROVE  QueueFifo(RemoveAt(queue, i), last) /\ Thinned(RemoveAt(queue, i), queue)
<1> DEFINE new == RemoveAt(queue, i)
<1>1. /\ new \in Seq(Orders) /\ Len(new) = Len(queue) - 1
      /\ \A j \in 1..(Len(queue) - 1) :
           new[j] = IF j < i THEN queue[j] ELSE queue[j + 1]
  BY RemoveAtEffect
<1> HIDE DEF new
<1>2. DOMAIN new = 1..(Len(queue) - 1) /\ DOMAIN queue = 1..Len(queue)
  BY <1>1
<1> DEFINE at(j) == IF j < i THEN j ELSE j + 1
<1>3. ASSUME NEW j \in DOMAIN new
      PROVE  at(j) \in DOMAIN queue /\ new[j] = queue[at(j)]
  BY <1>1, <1>2
<1>4. \A j, k \in DOMAIN new : j < k => at(j) < at(k)
  BY <1>2
<1> HIDE DEF at
<1>5. QueueFifo(new, last)
  BY <1>3, <1>4 DEF QueueFifo
<1>6. Thinned(new, queue)
  BY <1>3 DEF Thinned
<1> QED
  BY <1>5, <1>6 DEF new

LEMMA TailFifo ==
    ASSUME NEW queue \in Seq(Orders), queue # <<>>, NEW last, QueueFifo(queue, last)
    PROVE  QueueFifo(Tail(queue), last) /\ Thinned(Tail(queue), queue)
<1>1. ASSUME NEW i \in DOMAIN Tail(queue)
      PROVE  i + 1 \in DOMAIN queue /\ Tail(queue)[i] = queue[i + 1] /\ i \in Nat
  OBVIOUS
<1>2. QueueFifo(Tail(queue), last)
  <2>1. ASSUME NEW i \in DOMAIN Tail(queue), NEW j \in DOMAIN Tail(queue), i < j
        PROVE  Tail(queue)[i].arrival < Tail(queue)[j].arrival
    <3>1. i + 1 < j + 1
      BY <1>1, <2>1
    <3> QED
      BY <1>1, <3>1 DEF QueueFifo
  <2> QED
    BY <1>1, <2>1 DEF QueueFifo
<1>3. Thinned(Tail(queue), queue)
  BY <1>1 DEF Thinned
<1> QED
  BY <1>2, <1>3

LEMMA FrontFifo ==
    ASSUME NEW queue \in Seq(Orders), queue # <<>>, NEW last, QueueFifo(queue, last),
           NEW front \in Orders, front.arrival = queue[1].arrival
    PROVE  /\ QueueFifo([queue EXCEPT ![1] = front], last)
           /\ Thinned([queue EXCEPT ![1] = front], queue)
<1> DEFINE new == [queue EXCEPT ![1] = front]
<1>1. DOMAIN new = DOMAIN queue
  OBVIOUS
<1>2. \A i \in DOMAIN queue : new[i].arrival = queue[i].arrival
  OBVIOUS
<1> HIDE DEF new
<1>3. QueueFifo(new, last) /\ Thinned(new, queue)
  BY <1>1, <1>2 DEF QueueFifo, Thinned
<1> QED
  BY <1>3 DEF new

-----------------------------------------------------------------------------
(* The actions.                                                            *)

\* The last order to be queued may be any later one.
LEMMA FifoLater ==
    ASSUME NEW lv, IsLevels(lv), NEW last \in Nat, NEW next \in Nat, last <= next,
           BookFifo(lv, last)
    PROVE  BookFifo(lv, next)
<1> SUFFICES ASSUME NEW side \in Sides, NEW price \in DOMAIN lv[side],
                    NEW i \in DOMAIN lv[side][price]
             PROVE  lv[side][price][i].arrival <= next
  BY DEF BookFifo, QueueFifo
<1>1. lv[side][price] \in Seq(Orders)
  BY DEF IsLevels
<1>2. lv[side][price][i] \in Orders
  BY <1>1
<1>3. lv[side][price][i].arrival \in Nat /\ lv[side][price][i].arrival <= last
  BY <1>2 DEF Orders, BookFifo, QueueFifo
<1> QED
  BY <1>3

\* What is left of the order that came last goes behind all others.
LEMMA SettleFifo ==
    ASSUME NEW lv, IsLevels(lv), NEW last \in Nat, BookFifo(lv, last),
           OnePlace(lv), NEW order \in Orders, order.arrival = last + 1
    PROVE  BookFifo(Settle(lv, order), last + 1) /\ OnePlace(Settle(lv, order))
<1>1. CASE ~(order.remaining_qty > 0 /\ ~IsMarket(order))
  <2>1. Settle(lv, order) = lv
    BY <1>1 DEF Settle
  <2> QED
    BY <2>1, FifoLater
<1>2. CASE order.remaining_qty > 0 /\ ~IsMarket(order)
  <2>1. order.side \in Sides /\ order.price \in Prices
    BY <1>2 DEF Orders, IsMarket, Market
  <2> DEFINE queue == IF order.price \in DOMAIN lv[order.side]
                      THEN lv[order.side][order.price] ELSE <<>>
  <2>2. queue \in Seq(Orders) /\ QueueFifo(queue, last)
    <3>1. CASE order.price \in DOMAIN lv[order.side]
      BY <2>1, <3>1 DEF IsLevels, BookFifo
    <3>2. CASE order.price \notin DOMAIN lv[order.side]
      <4>1. queue = <<>>
        BY <3>2
      <4> HIDE DEF queue
      <4> QED
        BY <4>1 DEF QueueFifo
    <3> QED
      BY <3>1, <3>2
  <2>3. Settle(lv, order) =
          SetLevel(lv, order.side, order.price, Append(queue, order))
    BY <1>2 DEF Settle, AddToBook
  <2>4. \A i \in DOMAIN queue :
           /\ order.price \in DOMAIN lv[order.side]
           /\ queue[i] = lv[order.side][order.price][i]
           /\ i \in DOMAIN lv[order.side][order.price]
    OBVIOUS
  <2> HIDE DEF queue
  <2>5. Append(queue, order) \in Seq(Orders)
    BY <2>2
  <2>6. ASSUME NEW i \in DOMAIN Append(queue, order)
        PROVE  \/ i = Len(queue) + 1 /\ Append(queue, order)[i] = order
               \/ /\ i \in DOMAIN queue /\ i < Len(queue) + 1
                  /\ Append(queue, order)[i] = queue[i]
    BY <2>2
  <2>7. ASSUME NEW i \in DOMAIN queue
        PROVE  queue[i].arrival \in Nat /\ 1 <= queue[i].arrival
               /\ queue[i].arrival <= last /\ i \in Nat
    <3>1. queue[i] \in Orders
      BY <2>2
    <3> QED
      BY <2>2, <3>1 DEF Orders, QueueFifo
  <2>8. QueueFifo(Append(queue, order), last + 1)
    <3>1. ASSUME NEW i \in DOMAIN Append(queue, order)
          PROVE  1 <= Append(queue, order)[i].arrival
                 /\ Append(queue, order)[i].arrival <= last + 1
      BY <2>6, <2>7
    <3>2. ASSUME NEW i \in DOMAIN Append(queue, order),
                 NEW j \in DOMAIN Append(queue, order), i < j
          PROVE  Append(queue, order)[i].arrival < Append(queue, order)[j].arrival
      <4>1. Len(queue) \in Nat
        BY <2>2
      <4>2. i \in DOMAIN queue /\ Append(queue, order)[i] = queue[i]
        BY <2>6, <2>7, <3>2, <4>1
      <4>3. CASE j \in DOMAIN queue /\ Append(queue, order)[j] = queue[j]
        BY <2>2, <3>2, <4>2, <4>3 DEF QueueFifo
      <4>4. CASE Append(queue, order)[j] = order
        BY <2>7, <4>2, <4>4
      <4> QED
        BY <2>6, <4>3, <4>4
    <3> QED
      BY <3>1, <3>2 DEF QueueFifo
  <2>9. ASSUME NEW i \in DOMAIN Append(queue, order)
        PROVE  \/ last < Append(queue, order)[i].arrival
               \/ /\ order.price \in DOMAIN lv[order.side]
                  /\ \E k \in DOMAIN lv[order.side][order.price] :
                       Append(queue, order)[i].arrival
                         = lv[order.side][order.price][k].arrival
    <3>1. CASE Append(queue, order)[i] = order
      BY <3>1
    <3>2. CASE i \in DOMAIN queue /\ Append(queue, order)[i] = queue[i]
      BY <2>4, <3>2
    <3> QED
      BY <2>6, <3>1, <3>2
  <2> DEFINE new == Append(queue, order)
  <2>10. new \in Seq(Orders) /\ QueueFifo(new, last + 1)
    BY <2>5, <2>8
  <2>11. \A i \in DOMAIN new :
           \/ last < new[i].arrival
           \/ /\ order.price \in DOMAIN lv[order.side]
              /\ \E k \in DOMAIN lv[order.side][order.price] :
                   new[i].arrival = lv[order.side][order.price][k].arrival
    BY <2>9
  <2>12. Settle(lv, order) = SetLevel(lv, order.side, order.price, new)
    BY <2>3
  <2> HIDE DEF new
  <2>13. last + 1 \in Nat /\ last <= last + 1
    OBVIOUS
  <2>14. /\ BookFifo(SetLevel(lv, order.side, order.price, new), last + 1)
         /\ OnePlace(SetLevel(lv, order.side, order.price, new))
    BY <2>1, <2>10, <2>11, <2>13, SetLevelFifo
  <2> QED
    BY <2>12, <2>14
<1> QED
  BY <1>1, <1>2

\* A cancel leaves the others where they are.
LEMMA RemoveOrderFifo ==
    ASSUME NEW lv, IsLevels(lv), NEW last \in Nat, BookFifo(lv, last),
           OnePlace(lv), NEW key, InBook(lv, key)
    PROVE  BookFifo(RemoveOrder(lv, key), last) /\ OnePlace(RemoveOrder(lv, key))
<1>1. PICK side \in Sides : \E price \in DOMAIN lv[side] :
        \E i \in 1..Len(lv[side][price]) :
          RemoveOrder(lv, key) =
            SetLevel(lv, side, price, RemoveAt(lv[side][price], i))
  BY RemoveOrderEffect
<1>2. PICK price \in DOMAIN lv[side] :
        \E i \in 1..Len(lv[side][price]) :
          RemoveOrder(lv, key) =
            SetLevel(lv, side, price, RemoveAt(lv[side][price], i))
  BY <1>1
<1>3. PICK i \in 1..Len(lv[side][price]) :
        RemoveOrder(lv, key) =
          SetLevel(lv, side, price, RemoveAt(lv[side][price], i))
  BY <1>2
<1> DEFINE queue == lv[side][price]
           new   == RemoveAt(queue, i)
<1>4. queue \in Seq(Orders) /\ price \in Prices /\ QueueFifo(queue, last)
  BY DEF IsLevels, BookFifo
<1>5. new \in Seq(Orders) /\ QueueFifo(new, last) /\ Thinned(new, queue)
  <2> HIDE DEF queue
  <2> QED
    BY <1>4, RemoveAtFifo, RemoveAtEffect DEF queue
<1>6. RemoveOrder(lv, key) = SetLevel(lv, side, price, new)
  BY <1>3
<1> HIDE DEF new
<1>7. \A j \in DOMAIN new : \E k \in DOMAIN lv[side][price] :
        new[j].arrival = lv[side][price][k].arrival
  BY <1>5 DEF Thinned
<1> QED
  BY <1>4, <1>5, <1>6, <1>7, SetLevelFifo

\* A fill keeps the front order in front, or removes it, alone or with its
\* level.
LEMMA MatchFillFifo ==
    ASSUME PriorityInv, MatchFill
    PROVE  BookFifo(levels', LastQueued) /\ OnePlace(levels')
<1>1. TypeOK /\ IsLevels(levels) /\ BookFifo(levels, LastQueued)
      /\ OnePlace(levels) /\ LastQueued \in Nat
  BY OrderBookAssumption DEF PriorityInv, IInv, TypeOK, LastQueued
<1>2. /\ pc = "match" /\ Matching(levels, active)
      /\ TheQueue # <<>> /\ ThePassive \in Orders /\ ThePassive = TheQueue[1]
      /\ TheQty \in Nat
      /\ levels' = TakeFromFront(levels, TheSide, TheQty)
  BY <1>1, MatchFillEffect
<1>3. /\ active \in Orders /\ TheSide \in Sides
      /\ ThePrice \in DOMAIN levels[TheSide] /\ ThePrice \in Prices
      /\ TheQueue \in Seq(Orders)
  BY <1>1, <1>2, MatchingContext
<1> DEFINE front == Fill(ThePassive, TheQty)
<1>4. front \in Orders /\ front.arrival = TheQueue[1].arrival
  BY <1>2, <1>3, TradeQuantityBound, FillEffect DEF TheQty
<1>5. \/ levels' = SetLevel(levels, TheSide, ThePrice, [TheQueue EXCEPT ![1] = front])
      \/ levels' = SetLevel(levels, TheSide, ThePrice, Tail(TheQueue))
      \/ levels' = DropLevel(levels, TheSide, ThePrice)
  BY <1>2, TakeFromFrontEffect DEF ThePrice, TheQueue, ThePassive
<1> HIDE DEF front
<1>6. QueueFifo(TheQueue, LastQueued)
  BY <1>1, <1>3 DEF BookFifo, TheQueue
<1>7. ASSUME NEW queue \in Seq(Orders), QueueFifo(queue, LastQueued),
             Thinned(queue, TheQueue)
      PROVE  /\ BookFifo(SetLevel(levels, TheSide, ThePrice, queue), LastQueued)
             /\ OnePlace(SetLevel(levels, TheSide, ThePrice, queue))
  <2>1. \A i \in DOMAIN queue : \E k \in DOMAIN levels[TheSide][ThePrice] :
          queue[i].arrival = levels[TheSide][ThePrice][k].arrival
    BY <1>7 DEF Thinned, TheQueue
  <2> QED
    BY <1>1, <1>3, <1>7, <2>1, SetLevelFifo
<1>8. /\ [TheQueue EXCEPT ![1] = front] \in Seq(Orders)
      /\ Tail(TheQueue) \in Seq(Orders)
  BY <1>2, <1>3, <1>4
<1>9. CASE levels' = SetLevel(levels, TheSide, ThePrice, [TheQueue EXCEPT ![1] = front])
  BY <1>2, <1>3, <1>4, <1>6, <1>7, <1>8, <1>9, FrontFifo
<1>10. CASE levels' = SetLevel(levels, TheSide, ThePrice, Tail(TheQueue))
  BY <1>2, <1>3, <1>6, <1>7, <1>8, <1>10, TailFifo
<1>11. CASE levels' = DropLevel(levels, TheSide, ThePrice)
  BY <1>1, <1>3, <1>11, DropLevelFifo
<1> QED
  BY <1>5, <1>9, <1>10, <1>11

LEMMA InitPriorityInv == Init => PriorityInv
<1> SUFFICES ASSUME Init PROVE PriorityInv
  OBVIOUS
<1>1. levels = EmptyLevels /\ pc = "idle"
  BY DEF Init
<1>2. BookFifo(levels, LastQueued) /\ OnePlace(levels)
  BY <1>1 DEF BookFifo, OnePlace, EmptyLevels
<1> QED
  BY <1>1, <1>2, InitIInv DEF PriorityInv

\* What the invariant says of the next state, in terms of its variables.
LEMMA OfNextState ==
    ASSUME NEW last, last = LastQueued',
           BookFifo(levels', last), OnePlace(levels')
    PROVE  BookFifo(levels, LastQueued)' /\ OnePlace(levels)'
BY DEF BookFifo, OnePlace, QueueFifo

LEMMA NextPriorityInv == PriorityInv /\ [Next]_vars => PriorityInv'
<1> SUFFICES ASSUME PriorityInv, [Next]_vars PROVE PriorityInv'
  OBVIOUS
<1>0. /\ TypeOK /\ IsLevels(levels) /\ arrivals \in Nat
      /\ BookFifo(levels, LastQueued) /\ OnePlace(levels) /\ LastQueued \in Nat
      /\ pc = "match" => active.arrival = arrivals /\ 1 <= arrivals
  BY OrderBookAssumption DEF PriorityInv, IInv, TypeOK, LastQueued
<1>i. IInv'
  BY NextIInv DEF PriorityInv
<1> SUFFICES /\ BookFifo(levels, LastQueued)' /\ OnePlace(levels)'
             /\ (pc = "match" => active.arrival = arrivals /\ 1 <= arrivals)'
  BY <1>i DEF PriorityInv
<1>1. ASSUME NEW msg \in NewOrders, AddOrder(msg)
      PROVE  /\ BookFifo(levels, LastQueued)' /\ OnePlace(levels)'
             /\ (pc = "match" => active.arrival = arrivals /\ 1 <= arrivals)'
  <2>1. /\ pc = "idle" /\ pc' = "match" /\ arrivals' = arrivals + 1
        /\ levels' = levels /\ active' = FromNewOrder(msg, arrivals + 1)
    BY <1>1 DEF AddOrder
  <2>2. LastQueued' = LastQueued
    BY <1>0, <2>1 DEF LastQueued
  <2>3. active'.arrival = arrivals'
    BY <2>1 DEF FromNewOrder
  <2> QED
    BY <1>0, <2>1, <2>2, <2>3, OfNextState
<1>2. CASE MatchFill
  <2>1. UNCHANGED <<pc, arrivals>> /\ pc = "match"
    BY <1>0, <1>2, MatchFillEffect
  <2>2. LastQueued' = LastQueued
    BY <2>1 DEF LastQueued
  <2>3. active'.arrival = active.arrival
    <3>1. active \in Orders /\ ThePassive \in Orders /\ TheQty \in Nat
          /\ active' = Fill(active, TheQty)
      BY <1>0, <1>2, MatchFillEffect, MatchingContext
    <3> QED
      BY <3>1, TradeQuantityBound, FillEffect DEF TheQty
  <2>4. BookFifo(levels', LastQueued) /\ OnePlace(levels')
    BY <1>2, MatchFillFifo
  <2> QED
    BY <1>0, <2>1, <2>2, <2>3, <2>4, OfNextState
<1>3. CASE MatchEmptyLevel
  <2>1. /\ pc = "match" /\ levels' = DropLevel(levels, TheSide, ThePrice)
        /\ UNCHANGED <<active, pc, arrivals>>
    BY <1>0, <1>3, MatchEmptyLevelEffect
  <2>2. TheSide \in Sides /\ LastQueued' = LastQueued
    BY <1>0, <2>1, MatchingContext DEF LastQueued
  <2>3. BookFifo(levels', LastQueued) /\ OnePlace(levels')
    BY <1>0, <2>1, <2>2, DropLevelFifo
  <2> QED
    BY <1>0, <2>1, <2>2, <2>3, OfNextState
<1>4. CASE FinishAdd
  <2>1. /\ pc = "match" /\ ReportTop(Settle(levels, active), outputs)
        /\ arrivals' = arrivals
    BY <1>4 DEF FinishAdd
  <2>2. levels' = Settle(levels, active) /\ pc' # "match"
    BY <2>1, ReportTopEffect
  <2>3. /\ active \in Orders /\ active.arrival = LastQueued + 1
        /\ LastQueued' = LastQueued + 1
    BY <1>0, <2>1, <2>2, MatchingContext DEF LastQueued
  <2>4. BookFifo(levels', LastQueued + 1) /\ OnePlace(levels')
    BY <1>0, <2>2, <2>3, SettleFifo
  <2> QED
    BY <2>2, <2>3, <2>4, OfNextState
<1>5. ASSUME NEW key \in Keys, CancelOrder(key)
      PROVE  /\ BookFifo(levels, LastQueued)' /\ OnePlace(levels)'
             /\ (pc = "match" => active.arrival = arrivals /\ 1 <= arrivals)'
  <2>1. CASE InBook(levels, key)
    <3>1. /\ ReportTop(RemoveOrder(levels, key), <<CancelAckOutput(key)>>)
          /\ pc = "idle" /\ arrivals' = arrivals
      BY <1>5, <2>1 DEF CancelOrder
    <3>2. /\ levels' = RemoveOrder(levels, key) /\ pc' # "match"
          /\ LastQueued' = LastQueued
      BY <3>1, ReportTopEffect DEF LastQueued
    <3>3. BookFifo(levels', LastQueued) /\ OnePlace(levels')
      BY <1>0, <2>1, <3>2, RemoveOrderFifo
    <3> QED
      BY <3>2, <3>3, OfNextState
  <2>2. CASE ~InBook(levels, key)
    <3>1. UNCHANGED <<levels, active, pc, arrivals>>
      BY <1>5, <2>2 DEF CancelOrder
    <3>2. LastQueued' = LastQueued
      BY <3>1 DEF LastQueued
    <3> QED
      BY <1>0, <3>1, <3>2, OfNextState
  <2> QED
    BY <2>1, <2>2
<1>6. CASE Flush
  <2>1. levels' = EmptyLevels /\ pc' # "match"
    BY <1>6 DEF Flush
  <2>2. BookFifo(levels', LastQueued') /\ OnePlace(levels')
    BY <2>1 DEF BookFifo, OnePlace, EmptyLevels
  <2> QED
    BY <2>1, <2>2, OfNextState
<1>7. CASE UNCHANGED vars
  <2>1. UNCHANGED <<levels, active, pc, arrivals>>
    BY <1>7 DEF vars
  <2>2. LastQueued' = LastQueued
    BY <2>1 DEF LastQueued
  <2> QED
    BY <1>0, <2>1, <2>2, OfNextState
<1> QED
  BY <1>1, <1>2, <1>3, <1>4, <1>5, <1>6, <1>7 DEF Next

LEMMA PriorityInvHolds == Spec => []PriorityInv
<1>1. Init => PriorityInv
  BY InitPriorityInv
<1>2. PriorityInv /\ [Next]_vars => PriorityInv'
  BY NextPriorityInv
<1> QED
  BY <1>1, <1>2, PTL DEF Spec

\* Time priority needs no time stamp: in every reachable state the position in
\* a queue is the order of the add_order calls, whatever has been filled in
\* part, cancelled from the middle, flushed or entered again.
THEOREM QueuesFifo == Spec => []Fifo
<1>1. ASSUME PriorityInv PROVE Fifo
  <2>1. BookFifo(levels, LastQueued)
    BY <1>1 DEF PriorityInv
  <2>2. \A side \in Sides : \A price \in DOMAIN levels[side] :
          LET queue == levels[side][price]
          IN  \A i, j \in DOMAIN queue :
                i < j => queue[i].arrival < queue[j].arrival
    BY <2>1 DEF BookFifo, QueueFifo
  <2>3. ASSUME NEW order \in Resting(levels)
        PROVE  order.arrival <= arrivals - (IF pc = "match" THEN 1 ELSE 0)
    <3>1. order.arrival <= LastQueued
      BY <2>1, <2>3, RestingIsQueued DEF BookFifo, QueueFifo
    <3>2. LastQueued = arrivals - (IF pc = "match" THEN 1 ELSE 0)
      BY <1>1, OrderBookAssumption DEF LastQueued, PriorityInv, IInv, TypeOK
    <3> QED
      BY <3>1, <3>2
  <2> QED
    BY <2>2, <2>3 DEF Fifo
<1> QED
  BY <1>1, PriorityInvHolds, PTL

-----------------------------------------------------------------------------
(* Conservation.                                                           *)

QueueConserved(queue, tr) ==
    \A i \in DOMAIN queue :
        queue[i].remaining_qty + tr[queue[i].arrival] = queue[i].quantity

BookConserved(lv, tr) ==
    \A side \in Sides : \A price \in DOMAIN lv[side] :
        QueueConserved(lv[side][price], tr)

\* With one place for each arrival, what a fill adds to `traded` concerns the
\* two orders of the fill alone.
ConservationInv ==
    /\ PriorityInv
    /\ BookConserved(levels, traded)
    /\ pc = "match" =>
         active.remaining_qty + traded[active.arrival] = active.quantity
    /\ \A n \in 1..MaxOrders : arrivals < n => traded[n] = 0

\* An edit of one level: all other queues are as before.
LEMMA SetLevelConserved ==
    ASSUME NEW lv, IsLevels(lv), NEW tr, NEW side \in Sides, NEW price \in Prices,
           NEW queue \in Seq(Orders), QueueConserved(queue, tr),
           \A s \in Sides : \A p \in DOMAIN lv[s] :
               ~(s = side /\ p = price) => QueueConserved(lv[s][p], tr)
    PROVE  BookConserved(SetLevel(lv, side, price, queue), tr)
<1> DEFINE new == SetLevel(lv, side, price, queue)
<1>1. /\ DOMAIN new[side] = DOMAIN lv[side] \cup {price}
      /\ new[side][price] = queue
      /\ \A p \in DOMAIN lv[side] : p # price => new[side][p] = lv[side][p]
      /\ \A s \in Sides : s # side => new[s] = lv[s]
  BY SetLevelEffect
<1> HIDE DEF new
<1>2. ASSUME NEW s \in Sides, NEW p \in DOMAIN new[s]
      PROVE  QueueConserved(new[s][p], tr)
  BY <1>1, <1>2
<1>3. BookConserved(new, tr)
  BY <1>2 DEF BookConserved
<1> QED
  BY <1>3 DEF new

LEMMA DropLevelConserved ==
    ASSUME NEW lv, IsLevels(lv), NEW tr, NEW side \in Sides, NEW price,
           \A s \in Sides : \A p \in DOMAIN lv[s] :
               ~(s = side /\ p = price) => QueueConserved(lv[s][p], tr)
    PROVE  BookConserved(DropLevel(lv, side, price), tr)
<1> DEFINE new == DropLevel(lv, side, price)
<1>1. /\ DOMAIN new[side] = DOMAIN lv[side] \ {price}
      /\ \A p \in DOMAIN new[side] : new[side][p] = lv[side][p]
      /\ \A s \in Sides : s # side => new[s] = lv[s]
  BY DropLevelEffect
<1> HIDE DEF new
<1>2. ASSUME NEW s \in Sides, NEW p \in DOMAIN new[s]
      PROVE  QueueConserved(new[s][p], tr)
  BY <1>1, <1>2
<1>3. BookConserved(new, tr)
  BY <1>2 DEF BookConserved
<1> QED
  BY <1>3 DEF new

LEMMA SettleConserved ==
    ASSUME NEW lv, IsLevels(lv), NEW tr, BookConserved(lv, tr), NEW order \in Orders,
           order.remaining_qty + tr[order.arrival] = order.quantity
    PROVE  BookConserved(Settle(lv, order), tr)
<1>1. CASE ~(order.remaining_qty > 0 /\ ~IsMarket(order))
  BY <1>1 DEF Settle
<1>2. CASE order.remaining_qty > 0 /\ ~IsMarket(order)
  <2>1. order.side \in Sides /\ order.price \in Prices
    BY <1>2 DEF Orders, IsMarket, Market
  <2> DEFINE queue == IF order.price \in DOMAIN lv[order.side]
                      THEN lv[order.side][order.price] ELSE <<>>
             new   == Append(queue, order)
  <2>2. queue \in Seq(Orders) /\ QueueConserved(queue, tr)
    <3>1. CASE order.price \in DOMAIN lv[order.side]
      BY <2>1, <3>1 DEF IsLevels, BookConserved
    <3>2. CASE order.price \notin DOMAIN lv[order.side]
      <4>1. queue = <<>>
        BY <3>2
      <4> HIDE DEF queue
      <4> QED
        BY <4>1 DEF QueueConserved
    <3> QED
      BY <3>1, <3>2
  <2>3. Settle(lv, order) = SetLevel(lv, order.side, order.price, new)
    BY <1>2 DEF Settle, AddToBook
  <2> HIDE DEF queue
  <2>4. new \in Seq(Orders)
    BY <2>2
  <2>5. \A i \in DOMAIN new :
           \/ new[i] = order
           \/ i \in DOMAIN queue /\ new[i] = queue[i]
    BY <2>2
  <2> HIDE DEF new
  <2>6. QueueConserved(new, tr)
    BY <2>2, <2>5 DEF QueueConserved
  <2> QED
    BY <2>1, <2>3, <2>4, <2>6, SetLevelConserved DEF BookConserved
<1> QED
  BY <1>1, <1>2

LEMMA RemoveOrderConserved ==
    ASSUME NEW lv, IsLevels(lv), NEW tr, BookConserved(lv, tr), NEW key,
           InBook(lv, key)
    PROVE  BookConserved(RemoveOrder(lv, key), tr)
<1>1. PICK side \in Sides : \E price \in DOMAIN lv[side] :
        \E i \in 1..Len(lv[side][price]) :
          RemoveOrder(lv, key) =
            SetLevel(lv, side, price, RemoveAt(lv[side][price], i))
  BY RemoveOrderEffect
<1>2. PICK price \in DOMAIN lv[side] :
        \E i \in 1..Len(lv[side][price]) :
          RemoveOrder(lv, key) =
            SetLevel(lv, side, price, RemoveAt(lv[side][price], i))
  BY <1>1
<1>3. PICK i \in 1..Len(lv[side][price]) :
        RemoveOrder(lv, key) =
          SetLevel(lv, side, price, RemoveAt(lv[side][price], i))
  BY <1>2
<1> DEFINE queue == lv[side][price]
           new   == RemoveAt(queue, i)
<1>4. queue \in Seq(Orders) /\ price \in Prices /\ QueueConserved(queue, tr)
  BY DEF IsLevels, BookConserved
<1>5. /\ new \in Seq(Orders) /\ Len(new) = Len(queue) - 1
      /\ \A j \in 1..(Len(queue) - 1) :
           new[j] = IF j < i THEN queue[j] ELSE queue[j + 1]
  <2> HIDE DEF queue
  <2> QED
    BY <1>4, RemoveAtEffect DEF queue
<1>6. RemoveOrder(lv, key) = SetLevel(lv, side, price, new)
  BY <1>3
<1> HIDE DEF new
<1>7. \A j \in DOMAIN new : \E k \in DOMAIN queue : new[j] = queue[k]
  <2> HIDE DEF queue
  <2> QED
    BY <1>4, <1>5
<1>8. QueueConserved(new, tr)
  BY <1>4, <1>7 DEF QueueConserved
<1> QED
  BY <1>4, <1>5, <1>6, <1>8, SetLevelConserved DEF BookConserved

\* What is queued came before the order in the loop, and orders in other
\* places than the front of the best queue have other arrivals.
LEMMA OtherArrivals ==
    ASSUME PriorityInv, pc = "match", Matching(levels, active), TheQueue # <<>>,
           NEW side \in Sides, NEW price \in DOMAIN levels[side],
           NEW i \in DOMAIN levels[side][price],
           ~(side = TheSide /\ price = ThePrice /\ i = 1)
    PROVE  /\ levels[side][price][i].arrival # active.arrival
           /\ levels[side][price][i].arrival # ThePassive.arrival
<1>1. /\ TypeOK /\ IsLevels(levels) /\ arrivals \in Nat
      /\ BookFifo(levels, LastQueued) /\ OnePlace(levels)
      /\ active.arrival = arrivals /\ LastQueued = arrivals - 1
  BY OrderBookAssumption DEF PriorityInv, IInv, TypeOK, LastQueued
<1>2. /\ TheSide \in Sides /\ ThePrice \in DOMAIN levels[TheSide]
      /\ TheQueue \in Seq(Orders)
  BY <1>1, MatchingContext
<1>3. levels[side][price] \in Seq(Orders)
  BY <1>1 DEF IsLevels
<1>4. levels[side][price][i] \in Orders
  BY <1>3
<1>5. levels[side][price][i].arrival \in Nat
      /\ levels[side][price][i].arrival <= arrivals - 1
  BY <1>1, <1>4 DEF Orders, BookFifo, QueueFifo
<1>6. ThePassive = TheQueue[1] /\ 1 \in DOMAIN TheQueue
  BY <1>2 DEF ThePassive
<1>7. CASE ~(side = TheSide /\ price = ThePrice)
  BY <1>1, <1>2, <1>5, <1>6, <1>7 DEF OnePlace, TheQueue
<1>8. CASE side = TheSide /\ price = ThePrice
  <2>1. i \in DOMAIN TheQueue /\ i # 1 /\ levels[side][price] = TheQueue
    BY <1>8 DEF TheQueue
  <2>2. 1 < i
    BY <1>2, <2>1
  <2>3. TheQueue[1].arrival < TheQueue[i].arrival
    BY <1>1, <1>2, <1>6, <2>1, <2>2 DEF BookFifo, QueueFifo, TheQueue
  <2>4. TheQueue[1] \in Orders
    BY <1>2, <1>6
  <2>5. TheQueue[1].arrival \in Nat
    BY <2>4 DEF Orders
  <2> QED
    BY <1>1, <1>5, <1>6, <2>1, <2>3, <2>5
<1> QED
  BY <1>7, <1>8

\* Both orders of a fill have come, and the fill is added to both.
LEMMA TradedEffect ==
    ASSUME PriorityInv, MatchFill
    PROVE  /\ active.arrival \in 1..arrivals /\ ThePassive.arrival \in 1..arrivals
           /\ active.arrival # ThePassive.arrival
           /\ arrivals \in 1..MaxOrders
           /\ traded \in [1..MaxOrders -> Nat] /\ TheQty \in Nat
           /\ traded'[active.arrival] = traded[active.arrival] + TheQty
           /\ traded'[ThePassive.arrival] = traded[ThePassive.arrival] + TheQty
           /\ DOMAIN traded' = DOMAIN traded
           /\ \A n \in DOMAIN traded : n \notin {active.arrival, ThePassive.arrival}
                => traded'[n] = traded[n]
<1>1. /\ TypeOK /\ BookFifo(levels, LastQueued)
      /\ traded \in [1..MaxOrders -> Nat]
  BY DEF PriorityInv, IInv, TypeOK
<1>2. /\ pc = "match" /\ Matching(levels, active)
      /\ TheQueue # <<>> /\ ThePassive \in Orders /\ ThePassive = TheQueue[1]
      /\ TheQty \in Nat
      /\ traded' = [n \in DOMAIN traded |->
                      IF n \in {active.arrival, ThePassive.arrival}
                      THEN traded[n] + TheQty ELSE traded[n]]
  BY <1>1, MatchFillEffect
<1>3. /\ TheSide \in Sides /\ ThePrice \in DOMAIN levels[TheSide]
      /\ TheQueue \in Seq(Orders)
  BY <1>1, <1>2, MatchingContext
<1>4. 1 \in DOMAIN TheQueue
  BY <1>2, <1>3
<1>5. /\ 1 <= ThePassive.arrival /\ ThePassive.arrival <= LastQueued
      /\ ThePassive.arrival \in Nat
  BY <1>1, <1>2, <1>3, <1>4 DEF BookFifo, QueueFifo, TheQueue, Orders
<1>6. /\ arrivals \in Nat /\ arrivals <= MaxOrders /\ MaxOrders \in Nat
      /\ LastQueued = arrivals - 1 /\ active.arrival = arrivals /\ 1 <= arrivals
  BY <1>2, OrderBookAssumption DEF PriorityInv, IInv, TypeOK, LastQueued
<1>7. /\ active.arrival \in 1..arrivals /\ ThePassive.arrival \in 1..arrivals
      /\ active.arrival # ThePassive.arrival /\ arrivals \in 1..MaxOrders
  BY <1>5, <1>6
<1>8. active.arrival \in DOMAIN traded /\ ThePassive.arrival \in DOMAIN traded
  BY <1>1, <1>6, <1>7
<1> QED
  BY <1>1, <1>2, <1>7, <1>8

\* A fill: what it takes from the front order and from the incoming one is what
\* it adds to their totals; it adds to no other's.
LEMMA MatchFillConserved ==
    ASSUME ConservationInv, MatchFill
    PROVE  /\ BookConserved(levels', traded')
           /\ active'.remaining_qty + traded'[active'.arrival] = active'.quantity
           /\ \A n \in 1..MaxOrders : arrivals < n => traded'[n] = 0
<1>1. PriorityInv /\ TypeOK /\ IsLevels(levels) /\ BookConserved(levels, traded)
  BY DEF ConservationInv, PriorityInv, IInv, TypeOK
<1>2. /\ pc = "match" /\ Matching(levels, active)
      /\ TheQueue # <<>> /\ ThePassive \in Orders /\ ThePassive = TheQueue[1]
      /\ levels' = TakeFromFront(levels, TheSide, TheQty)
      /\ active' = Fill(active, TheQty)
  BY <1>1, MatchFillEffect
<1>3. /\ active \in Orders /\ TheSide \in Sides
      /\ ThePrice \in DOMAIN levels[TheSide] /\ ThePrice \in Prices
      /\ TheQueue \in Seq(Orders)
  BY <1>1, <1>2, MatchingContext
<1>4. /\ active.arrival \in 1..arrivals /\ ThePassive.arrival \in 1..arrivals
      /\ active.arrival # ThePassive.arrival
      /\ arrivals \in 1..MaxOrders
      /\ traded \in [1..MaxOrders -> Nat] /\ TheQty \in Nat
      /\ traded'[active.arrival] = traded[active.arrival] + TheQty
      /\ traded'[ThePassive.arrival] = traded[ThePassive.arrival] + TheQty
      /\ DOMAIN traded' = DOMAIN traded
      /\ \A n \in DOMAIN traded : n \notin {active.arrival, ThePassive.arrival}
           => traded'[n] = traded[n]
  BY <1>1, TradedEffect
<1>5. /\ active.remaining_qty - TheQty \in 0..(U32 - 1)
      /\ ThePassive.remaining_qty - TheQty \in 0..(U32 - 1)
  BY <1>2, <1>3, TradeQuantityBound DEF TheQty
<1> DEFINE front == Fill(ThePassive, TheQty)
<1>6. /\ front \in Orders /\ front.arrival = ThePassive.arrival
      /\ front.quantity = ThePassive.quantity
      /\ front.remaining_qty = ThePassive.remaining_qty - TheQty
  BY <1>2, <1>4, <1>5, FillEffect
<1>7. /\ active'.arrival = active.arrival /\ active'.quantity = active.quantity
      /\ active'.remaining_qty = active.remaining_qty - TheQty
  BY <1>2, <1>3, <1>4, <1>5, FillEffect
<1>8. ASSUME NEW n \in 1..arrivals
      PROVE  n \in DOMAIN traded /\ traded[n] \in Nat
  <2>1. n \in 1..MaxOrders
    BY <1>4, OrderBookAssumption
  <2> QED
    BY <1>4, <2>1
<1>9. active'.remaining_qty + traded'[active'.arrival] = active'.quantity
  <2>1. active.remaining_qty + traded[active.arrival] = active.quantity
    BY <1>2 DEF ConservationInv
  <2>2. active.remaining_qty \in Nat /\ traded[active.arrival] \in Nat
    BY <1>3, <1>4, <1>8, OrderNumbers
  <2> QED
    BY <1>4, <1>7, <2>1, <2>2
<1>10. front.remaining_qty + traded'[front.arrival] = front.quantity
  <2>1. 1 \in DOMAIN TheQueue
    BY <1>2, <1>3
  <2>2. ThePassive.remaining_qty + traded[ThePassive.arrival] = ThePassive.quantity
    BY <1>1, <1>2, <1>3, <2>1 DEF BookConserved, QueueConserved, TheQueue
  <2>3. ThePassive.remaining_qty \in Nat /\ traded[ThePassive.arrival] \in Nat
    BY <1>2, <1>4, <1>8, OrderNumbers
  <2> QED
    BY <1>4, <1>6, <2>2, <2>3
<1>11. ASSUME NEW side \in Sides, NEW price \in DOMAIN levels[side],
              NEW i \in DOMAIN levels[side][price],
              ~(side = TheSide /\ price = ThePrice /\ i = 1)
       PROVE  levels[side][price][i].remaining_qty
                + traded'[levels[side][price][i].arrival]
                = levels[side][price][i].quantity
  <2> DEFINE o == levels[side][price][i]
  <2>1. o.arrival # active.arrival /\ o.arrival # ThePassive.arrival
    BY <1>1, <1>2, <1>11, OtherArrivals
  <2>2. o.remaining_qty + traded[o.arrival] = o.quantity
    BY <1>1 DEF BookConserved, QueueConserved
  <2>3. o.arrival \in DOMAIN traded
    <3>1. levels[side][price] \in Seq(Orders)
      BY <1>1 DEF IsLevels
    <3>2. o \in Orders
      BY <3>1
    <3>3. 1 <= o.arrival /\ o.arrival <= LastQueued /\ o.arrival \in Nat
      BY <1>1, <3>2 DEF PriorityInv, BookFifo, QueueFifo, Orders
    <3>4. LastQueued = arrivals - 1 /\ arrivals \in Nat
      BY <1>2, <1>4 DEF LastQueued
    <3>5. o.arrival \in 1..arrivals
      BY <3>3, <3>4
    <3> QED
      BY <1>8, <3>5
  <2> HIDE DEF o
  <2>4. traded'[o.arrival] = traded[o.arrival]
    BY <1>4, <2>1, <2>3
  <2>5. o.remaining_qty + traded'[o.arrival] = o.quantity
    BY <2>2, <2>4
  <2> QED
    BY <2>5 DEF o
<1>12. \A s \in Sides : \A p \in DOMAIN levels[s] :
         ~(s = TheSide /\ p = ThePrice) => QueueConserved(levels[s][p], traded')
  BY <1>11 DEF QueueConserved
<1>13. \A i \in DOMAIN TheQueue : i # 1 =>
         TheQueue[i].remaining_qty + traded'[TheQueue[i].arrival]
           = TheQueue[i].quantity
  BY <1>3, <1>11 DEF TheQueue
<1>14. \/ levels' = SetLevel(levels, TheSide, ThePrice, [TheQueue EXCEPT ![1] = front])
       \/ levels' = SetLevel(levels, TheSide, ThePrice, Tail(TheQueue))
       \/ levels' = DropLevel(levels, TheSide, ThePrice)
  BY <1>2, TakeFromFrontEffect DEF ThePrice, TheQueue, ThePassive
<1> HIDE DEF front
<1>15. BookConserved(levels', traded')
  <2>1. CASE levels' = SetLevel(levels, TheSide, ThePrice,
                                [TheQueue EXCEPT ![1] = front])
    <3> DEFINE new == [TheQueue EXCEPT ![1] = front]
    <3>1. new \in Seq(Orders) /\ DOMAIN new = DOMAIN TheQueue
          /\ \A i \in DOMAIN TheQueue : new[i] = IF i = 1 THEN front ELSE TheQueue[i]
      BY <1>2, <1>3, <1>6
    <3>2. levels' = SetLevel(levels, TheSide, ThePrice, new)
      BY <2>1
    <3> HIDE DEF new
    <3>3. QueueConserved(new, traded')
      BY <1>10, <1>13, <3>1 DEF QueueConserved
    <3> QED
      BY <1>1, <1>3, <1>12, <3>1, <3>2, <3>3, SetLevelConserved
  <2>2. CASE levels' = SetLevel(levels, TheSide, ThePrice, Tail(TheQueue))
    <3>1. Tail(TheQueue) \in Seq(Orders)
      BY <1>2, <1>3
    <3>2. ASSUME NEW i \in DOMAIN Tail(TheQueue)
          PROVE  i + 1 \in DOMAIN TheQueue /\ i + 1 # 1
                 /\ Tail(TheQueue)[i] = TheQueue[i + 1]
      BY <1>2, <1>3
    <3>3. QueueConserved(Tail(TheQueue), traded')
      BY <1>13, <3>2 DEF QueueConserved
    <3> QED
      BY <1>1, <1>3, <1>12, <2>2, <3>1, <3>3, SetLevelConserved
  <2>3. CASE levels' = DropLevel(levels, TheSide, ThePrice)
    BY <1>1, <1>3, <1>12, <2>3, DropLevelConserved
  <2> QED
    BY <1>14, <2>1, <2>2, <2>3
<1>16. ASSUME NEW n \in 1..MaxOrders, arrivals < n PROVE traded'[n] = 0
  <2>1. n \notin {active.arrival, ThePassive.arrival}
    BY <1>4, <1>16
  <2>2. traded'[n] = traded[n]
    BY <1>4, <2>1
  <2> QED
    BY <1>16, <2>2 DEF ConservationInv
<1> QED
  BY <1>9, <1>15, <1>16

LEMMA InitConservationInv == Init => ConservationInv
<1> SUFFICES ASSUME Init PROVE ConservationInv
  OBVIOUS
<1>1. /\ levels = EmptyLevels /\ pc = "idle"
      /\ \A n \in 1..MaxOrders : traded[n] = 0
  BY DEF Init
<1>2. BookConserved(levels, traded)
  BY <1>1 DEF BookConserved, EmptyLevels
<1> QED
  BY <1>1, <1>2, InitPriorityInv DEF ConservationInv

LEMMA OfNextTotals ==
    ASSUME BookConserved(levels', traded')
    PROVE  BookConserved(levels, traded)'
BY DEF BookConserved, QueueConserved

LEMMA NextConservationInv == ConservationInv /\ [Next]_vars => ConservationInv'
<1> SUFFICES ASSUME ConservationInv, [Next]_vars PROVE ConservationInv'
  OBVIOUS
<1>0. /\ PriorityInv /\ TypeOK /\ IsLevels(levels) /\ arrivals \in Nat
      /\ BookConserved(levels, traded)
      /\ pc = "match" =>
           active.remaining_qty + traded[active.arrival] = active.quantity
      /\ \A n \in 1..MaxOrders : arrivals < n => traded[n] = 0
  BY OrderBookAssumption DEF ConservationInv, PriorityInv, IInv, TypeOK
<1>i. PriorityInv'
  BY <1>0, NextPriorityInv
<1> SUFFICES /\ BookConserved(levels, traded)'
             /\ (pc = "match" =>
                   active.remaining_qty + traded[active.arrival] = active.quantity)'
             /\ (\A n \in 1..MaxOrders : arrivals < n => traded[n] = 0)'
  BY <1>i DEF ConservationInv
<1>1. ASSUME NEW msg \in NewOrders, AddOrder(msg)
      PROVE  /\ BookConserved(levels, traded)'
             /\ (pc = "match" =>
                   active.remaining_qty + traded[active.arrival] = active.quantity)'
             /\ (\A n \in 1..MaxOrders : arrivals < n => traded[n] = 0)'
  <2>1. /\ arrivals < MaxOrders /\ arrivals' = arrivals + 1
        /\ levels' = levels /\ traded' = traded
        /\ active' = FromNewOrder(msg, arrivals + 1)
    BY <1>1 DEF AddOrder
  <2>2. /\ active'.arrival = arrivals + 1
        /\ active'.remaining_qty = msg.quantity /\ active'.quantity = msg.quantity
    BY <2>1 DEF FromNewOrder
  <2>3. traded[arrivals + 1] = 0
    BY <1>0, <2>1, OrderBookAssumption
  <2>4. msg.quantity \in Nat
    <3>1. msg.quantity \in 0..(U32 - 1)
      BY BookAssumption DEF NewOrders
    <3> QED
      BY <3>1, BookAssumption
  <2>5. active'.remaining_qty + traded'[active'.arrival] = active'.quantity
    BY <2>1, <2>2, <2>3, <2>4
  <2>6. \A n \in 1..MaxOrders : arrivals' < n => traded'[n] = 0
    BY <1>0, <2>1
  <2> QED
    BY <1>0, <2>1, <2>5, <2>6, OfNextTotals
<1>2. CASE MatchFill
  <2>1. /\ BookConserved(levels', traded')
        /\ active'.remaining_qty + traded'[active'.arrival] = active'.quantity
        /\ \A n \in 1..MaxOrders : arrivals < n => traded'[n] = 0
    BY <1>2, MatchFillConserved
  <2>2. arrivals' = arrivals
    BY <1>0, <1>2, MatchFillEffect
  <2> QED
    BY <2>1, <2>2, OfNextTotals
<1>3. CASE MatchEmptyLevel
  <2>1. /\ pc = "match" /\ levels' = DropLevel(levels, TheSide, ThePrice)
        /\ UNCHANGED <<active, pc, arrivals, traded>>
    BY <1>0, <1>3, MatchEmptyLevelEffect
  <2>2. TheSide \in Sides
    BY <1>0, <2>1, MatchingContext
  <2>3. BookConserved(levels', traded)
    BY <1>0, <2>1, <2>2, DropLevelConserved DEF BookConserved
  <2> QED
    BY <1>0, <2>1, <2>3, OfNextTotals
<1>4. CASE FinishAdd
  <2>1. /\ pc = "match" /\ ReportTop(Settle(levels, active), outputs)
        /\ UNCHANGED <<arrivals, traded>>
    BY <1>4 DEF FinishAdd
  <2>2. levels' = Settle(levels, active) /\ pc' # "match" /\ active \in Orders
    BY <1>0, <2>1, ReportTopEffect, MatchingContext
  <2>3. BookConserved(levels', traded)
    BY <1>0, <2>1, <2>2, SettleConserved
  <2> QED
    BY <1>0, <2>1, <2>2, <2>3, OfNextTotals
<1>5. ASSUME NEW key \in Keys, CancelOrder(key)
      PROVE  /\ BookConserved(levels, traded)'
             /\ (pc = "match" =>
                   active.remaining_qty + traded[active.arrival] = active.quantity)'
             /\ (\A n \in 1..MaxOrders : arrivals < n => traded[n] = 0)'
  <2>1. CASE InBook(levels, key)
    <3>1. /\ ReportTop(RemoveOrder(levels, key), <<CancelAckOutput(key)>>)
          /\ UNCHANGED <<arrivals, traded>>
      BY <1>5, <2>1 DEF CancelOrder
    <3>2. levels' = RemoveOrder(levels, key) /\ pc' # "match"
      BY <3>1, ReportTopEffect
    <3>3. BookConserved(levels', traded)
      BY <1>0, <2>1, <3>2, RemoveOrderConserved
    <3> QED
      BY <1>0, <3>1, <3>2, <3>3, OfNextTotals
  <2>2. CASE ~InBook(levels, key)
    <3>1. UNCHANGED <<levels, active, pc, arrivals, traded>>
      BY <1>5, <2>2 DEF CancelOrder
    <3> QED
      BY <1>0, <3>1, OfNextTotals
  <2> QED
    BY <2>1, <2>2
<1>6. CASE Flush
  <2>1. levels' = EmptyLevels /\ pc' # "match" /\ UNCHANGED <<arrivals, traded>>
    BY <1>6 DEF Flush
  <2>2. BookConserved(levels', traded')
    BY <2>1 DEF BookConserved, EmptyLevels
  <2> QED
    BY <1>0, <2>1, <2>2, OfNextTotals
<1>7. CASE UNCHANGED vars
  <2>1. UNCHANGED <<levels, active, pc, arrivals, traded>>
    BY <1>7 DEF vars
  <2> QED
    BY <1>0, <2>1, OfNextTotals
<1> QED
  BY <1>1, <1>2, <1>3, <1>4, <1>5, <1>6, <1>7 DEF Next

\* No trade creates or loses quantity: what is left of every live order, in a
\* queue or in the loop, is what it asked for less what the Trade messages have
\* reported about it.
THEOREM QuantityConserved == Spec => []Conservation
<1>1. ASSUME ConservationInv PROVE Conservation
  <2>1. ASSUME NEW order \in Resting(levels)
        PROVE  order.remaining_qty + traded[order.arrival] = order.quantity
    BY <1>1, <2>1, RestingIsQueued DEF ConservationInv, BookConserved, QueueConserved
  <2>2. ASSUME active # NoOrder
        PROVE  active.remaining_qty + traded[active.arrival] = active.quantity
    BY <1>1, <2>2 DEF ConservationInv, PriorityInv, IInv, TypeOK
  <2> QED
    BY <2>1, <2>2 DEF Conservation
<1>2. Init => ConservationInv
  BY InitConservationInv
<1>3. ConservationInv /\ [Next]_vars => ConservationInv'
  BY NextConservationInv
<1> QED
  BY <1>1, <1>2, <1>3, PTL DEF Spec

-----------------------------------------------------------------------------
(* Price-time priority.                                                    *)

\* The order that the loop trades with is ahead of all others of its side: the
\* others of its queue came later, those of other levels have worse prices.
LEMMA FrontIsAhead ==
    ASSUME PriorityInv, pc = "match", Matching(levels, active), TheQueue # <<>>
    PROVE  /\ ThePassive \in Resting(levels) /\ ThePassive.side = TheSide
           /\ ThePassive.price = ThePrice /\ 0 < ThePassive.remaining_qty
           /\ \A o \in Resting(levels) : o.side = TheSide /\ o # ThePassive =>
                /\ o.arrival # ThePassive.arrival /\ o.arrival # active.arrival
                /\ \/ active.side = "Buy"  /\ ThePrice < o.price
                   \/ active.side = "Sell" /\ ThePrice > o.price
                   \/ ThePrice = o.price /\ ThePassive.arrival < o.arrival
<1>1. /\ TypeOK /\ IsLevels(levels) /\ BookConsistent(levels)
      /\ BookFifo(levels, LastQueued)
  BY DEF PriorityInv, IInv, TypeOK, Consistent
<1>2. /\ active.side \in Sides /\ TheSide \in Sides
      /\ ThePrice \in DOMAIN levels[TheSide] /\ ThePrice \in Prices
      /\ TheQueue \in Seq(Orders)
  BY <1>1, MatchingContext
<1>3. 1 \in DOMAIN TheQueue /\ ThePassive = TheQueue[1]
  BY <1>2 DEF ThePassive
<1>4. /\ ThePassive.side = TheSide /\ ThePassive.price = ThePrice
      /\ 0 < ThePassive.remaining_qty
  BY <1>1, <1>2, <1>3 DEF BookConsistent, QueueConsistent, TheQueue
<1>5. ThePassive \in Resting(levels)
  BY <1>2, <1>3, RestingIsQueued DEF TheQueue
<1>6. ASSUME NEW o \in Resting(levels), o.side = TheSide, o # ThePassive
      PROVE  /\ o.arrival # ThePassive.arrival /\ o.arrival # active.arrival
             /\ \/ active.side = "Buy"  /\ ThePrice < o.price
                \/ active.side = "Sell" /\ ThePrice > o.price
                \/ ThePrice = o.price /\ ThePassive.arrival < o.arrival
  <2>1. PICK s \in Sides : \E p \in DOMAIN levels[s] :
               \E i \in DOMAIN levels[s][p] : levels[s][p][i] = o
    BY RestingIsQueued
  <2>2. PICK p \in DOMAIN levels[s] :
               \E i \in DOMAIN levels[s][p] : levels[s][p][i] = o
    BY <2>1
  <2>3. PICK i \in DOMAIN levels[s][p] : levels[s][p][i] = o
    BY <2>2
  <2>4. o.side = s /\ o.price = p
    BY <1>1, <2>3 DEF BookConsistent, QueueConsistent
  <2>5. s = TheSide
    BY <1>6, <2>4
  <2>6. ~(p = ThePrice /\ i = 1)
    BY <1>3, <1>6, <2>3, <2>5 DEF TheQueue
  <2>7. o.arrival # ThePassive.arrival /\ o.arrival # active.arrival
    BY <2>3, <2>6, OtherArrivals
  <2>8. CASE p = ThePrice
    <3>1. i \in DOMAIN TheQueue /\ TheQueue[i] = o /\ i # 1
      BY <2>3, <2>5, <2>6, <2>8 DEF TheQueue
    <3>2. 1 < i
      BY <1>2, <3>1
    <3>3. QueueFifo(TheQueue, LastQueued)
      BY <1>1, <1>2 DEF BookFifo, TheQueue
    <3>4. ThePassive.arrival < o.arrival
      BY <1>3, <3>1, <3>2, <3>3 DEF QueueFifo
    <3> QED
      BY <2>4, <2>7, <2>8, <3>4
  <2>9. CASE p # ThePrice
    <3>1. p \in DOMAIN levels[TheSide] /\ p \in Prices
      BY <1>1, <2>5 DEF IsLevels
    <3>2. /\ TheSide = "Buy"  => p <= ThePrice
          /\ TheSide = "Sell" => ThePrice <= p
      BY <1>1, <1>2, <3>1, BestPriceIsBest DEF ThePrice
    <3>3. p \in Nat /\ ThePrice \in Nat
      BY <1>2, <3>1, BookAssumption
    <3>4. /\ active.side = "Buy"  => TheSide = "Sell"
          /\ active.side = "Sell" => TheSide = "Buy"
      BY DEF TheSide, Opposite
    <3> QED
      BY <1>2, <2>4, <2>7, <2>9, <3>2, <3>3, <3>4 DEF Sides
  <2> QED
    BY <2>8, <2>9
<1> QED
  BY <1>4, <1>5, <1>6

\* Only a fill changes what has been traded.
LEMMA OthersTradeNothing ==
    ASSUME TypeOK, [Next]_vars, ~MatchFill
    PROVE  traded' = traded
<1>1. ASSUME NEW msg \in NewOrders, AddOrder(msg) PROVE traded' = traded
  BY <1>1 DEF AddOrder
<1>2. CASE MatchEmptyLevel
  BY <1>2, MatchEmptyLevelEffect
<1>3. CASE FinishAdd
  BY <1>3 DEF FinishAdd
<1>4. ASSUME NEW key \in Keys, CancelOrder(key) PROVE traded' = traded
  BY <1>4 DEF CancelOrder
<1>5. CASE Flush
  BY <1>5 DEF Flush
<1>6. CASE UNCHANGED vars
  BY <1>6 DEF vars
<1> QED
  BY <1>1, <1>2, <1>3, <1>4, <1>5, <1>6 DEF Next

\* What is queued has come: its arrival has a total.
LEMMA RestingArrival ==
    ASSUME PriorityInv, NEW o \in Resting(levels)
    PROVE  o.arrival \in DOMAIN traded
<1>1. /\ IsLevels(levels) /\ BookFifo(levels, LastQueued)
      /\ DOMAIN traded = 1..MaxOrders
      /\ LastQueued <= MaxOrders /\ LastQueued \in Int /\ MaxOrders \in Nat
  BY OrderBookAssumption DEF PriorityInv, IInv, TypeOK, LastQueued
<1>2. PICK s \in Sides : \E p \in DOMAIN levels[s] :
             \E i \in DOMAIN levels[s][p] : levels[s][p][i] = o
  BY RestingIsQueued
<1>3. PICK p \in DOMAIN levels[s] : \E i \in DOMAIN levels[s][p] : levels[s][p][i] = o
  BY <1>2
<1>4. PICK i \in DOMAIN levels[s][p] : levels[s][p][i] = o
  BY <1>3
<1>5. levels[s][p] \in Seq(Orders)
  BY <1>1 DEF IsLevels
<1>6. o \in Orders
  BY <1>4, <1>5
<1>7. o.arrival \in Nat /\ 1 <= o.arrival /\ o.arrival <= LastQueued
  BY <1>1, <1>4, <1>6 DEF Orders, BookFifo, QueueFifo
<1> QED
  BY <1>1, <1>7

\* Every fill, with any number of levels and orders in the book and however it
\* came about, is with the order ahead of all others on the other side, at that
\* order's price and within the limit of the incoming one, and charges both the
\* quantity that the Trade message reports.
THEOREM FillsByPriority == Spec => PriceTimePriority
<1> DEFINE Fair ==
      traded' # traded =>
         LET against == {o \in Resting(levels) : o.side = Opposite(active.side)}
             hit     == {o \in against : traded'[o.arrival] # traded[o.arrival]}
             report  == Last(outputs')
         IN  \E p \in hit :
               /\ hit = {p}
               /\ CanMatch(active, p.price)
               /\ \A o \in against \ {p} :
                    \/ active.side = "Buy"  /\ p.price < o.price
                    \/ active.side = "Sell" /\ p.price > o.price
                    \/ p.price = o.price /\ p.arrival < o.arrival
               /\ report.price = p.price
               /\ traded'[p.arrival] - traded[p.arrival] = report.quantity
               /\ traded'[active.arrival] - traded[active.arrival]
                    = report.quantity
<1>1. ASSUME PriorityInv, [Next]_vars PROVE Fair
  <2> SUFFICES ASSUME MatchFill PROVE Fair
    <3>1. TypeOK
      BY <1>1 DEF PriorityInv, IInv
    <3> QED
      BY <1>1, <3>1, OthersTradeNothing
  <2>1. TypeOK
    BY <1>1 DEF PriorityInv, IInv
  <2>2. /\ pc = "match" /\ Matching(levels, active) /\ TheQueue # <<>>
        /\ ThePassive \in Orders
        /\ outputs' =
             Append(outputs, TradeOutput(active, ThePassive, ThePrice, TheQty))
    BY <2>1, MatchFillEffect
  <2>3. active \in Orders /\ outputs \in Seq(Acks \cup Trades)
    BY <2>1, <2>2, MatchingContext
  <2>4. /\ active.arrival \in 1..arrivals /\ ThePassive.arrival \in 1..arrivals
        /\ arrivals \in 1..MaxOrders
        /\ traded \in [1..MaxOrders -> Nat] /\ TheQty \in Nat
        /\ traded'[active.arrival] = traded[active.arrival] + TheQty
        /\ traded'[ThePassive.arrival] = traded[ThePassive.arrival] + TheQty
        /\ \A n \in DOMAIN traded : n \notin {active.arrival, ThePassive.arrival}
             => traded'[n] = traded[n]
    BY <1>1, TradedEffect
  <2>5. /\ ThePassive \in Resting(levels) /\ ThePassive.side = TheSide
        /\ ThePassive.price = ThePrice /\ 0 < ThePassive.remaining_qty
        /\ \A o \in Resting(levels) : o.side = TheSide /\ o # ThePassive =>
             /\ o.arrival # ThePassive.arrival /\ o.arrival # active.arrival
             /\ \/ active.side = "Buy"  /\ ThePrice < o.price
                \/ active.side = "Sell" /\ ThePrice > o.price
                \/ ThePrice = o.price /\ ThePassive.arrival < o.arrival
    BY <1>1, <2>2, FrontIsAhead
  <2>6. TheQty > 0
    BY <2>2, <2>3, <2>5, TradeQuantityBound DEF TheQty, Matching
  <2>7. Last(outputs').price = ThePrice /\ Last(outputs').quantity = TheQty
    <3> DEFINE report == TradeOutput(active, ThePassive, ThePrice, TheQty)
    <3>1. report.price = ThePrice /\ report.quantity = TheQty
      BY DEF TradeOutput
    <3>2. outputs' = Append(outputs, report)
      BY <2>2
    <3> HIDE DEF report
    <3>3. Last(outputs') = report
      <4>1. Len(Append(outputs, report)) = Len(outputs) + 1
            /\ Append(outputs, report)[Len(outputs) + 1] = report
        BY <2>3
      <4> QED
        BY <3>2, <4>1 DEF Last
    <3> QED
      BY <3>1, <3>3
  <2>8. CanMatch(active, ThePrice)
    BY <2>2 DEF Matching, ThePrice, TheSide
  <2>9. /\ traded[active.arrival] \in Nat /\ traded[ThePassive.arrival] \in Nat
    <3>1. active.arrival \in 1..MaxOrders /\ ThePassive.arrival \in 1..MaxOrders
      BY <2>4, OrderBookAssumption
    <3> QED
      BY <2>4, <3>1
  <2>10. ASSUME NEW o \in Resting(levels), o.side = TheSide, o # ThePassive
         PROVE  traded'[o.arrival] = traded[o.arrival]
    <3>1. o.arrival # ThePassive.arrival /\ o.arrival # active.arrival
      BY <2>5, <2>10
    <3>2. o.arrival \in DOMAIN traded
      BY <1>1, <2>10, RestingArrival
    <3> QED
      BY <2>4, <3>1, <3>2
  <2> DEFINE against == {o \in Resting(levels) : o.side = Opposite(active.side)}
             hit     == {o \in against : traded'[o.arrival] # traded[o.arrival]}
  <2>11. hit = {ThePassive}
    <3>1. traded'[ThePassive.arrival] # traded[ThePassive.arrival]
      BY <2>4, <2>6, <2>9
    <3> QED
      BY <2>5, <2>10, <3>1 DEF TheSide
  <2>12. \A o \in against \ {ThePassive} :
            \/ active.side = "Buy"  /\ ThePassive.price < o.price
            \/ active.side = "Sell" /\ ThePassive.price > o.price
            \/ ThePassive.price = o.price /\ ThePassive.arrival < o.arrival
    BY <2>5 DEF TheSide
  <2>13. /\ traded'[ThePassive.arrival] - traded[ThePassive.arrival] = TheQty
         /\ traded'[active.arrival] - traded[active.arrival] = TheQty
    BY <2>4, <2>9
  <2> HIDE DEF hit, against
  <2>14. \E p \in hit :
               /\ hit = {p}
               /\ CanMatch(active, p.price)
               /\ \A o \in against \ {p} :
                    \/ active.side = "Buy"  /\ p.price < o.price
                    \/ active.side = "Sell" /\ p.price > o.price
                    \/ p.price = o.price /\ p.arrival < o.arrival
               /\ Last(outputs').price = p.price
               /\ traded'[p.arrival] - traded[p.arrival] = Last(outputs').quantity
               /\ traded'[active.arrival] - traded[active.arrival]
                    = Last(outputs').quantity
    <3>1. ThePassive \in hit
      BY <2>11
    <3> QED
      BY <2>5, <2>7, <2>8, <2>11, <2>12, <2>13, <3>1
  <2> QED
    BY <2>14 DEF hit, against
<1>2. PriorityInv /\ [Next]_vars => [Fair]_vars
  BY <1>1
<1> QED
  BY <1>2, PriorityInvHolds, PTL DEF Spec, PriceTimePriority

-----------------------------------------------------------------------------
(* OrderBook implements LimitOrderBook, but for liveness: the queues, the  *)
(* order of the levels and the emptied levels cannot be told from a plain  *)
(* set of orders.  First: what edits of the book do to that set.           *)

\* An order is queued once.
LEMMA QueuedOnce ==
    ASSUME NEW lv, IsLevels(lv), NEW last, BookFifo(lv, last), OnePlace(lv),
           NEW side \in Sides, NEW price \in DOMAIN lv[side],
           NEW i \in DOMAIN lv[side][price]
    PROVE  /\ ~Elsewhere(lv, side, price, lv[side][price][i])
           /\ \A j \in DOMAIN lv[side][price] :
                lv[side][price][j] = lv[side][price][i] => j = i
<1> DEFINE queue == lv[side][price]
<1>1. queue \in Seq(Orders) /\ QueueFifo(queue, last)
  BY DEF IsLevels, BookFifo
<1>2. ~Elsewhere(lv, side, price, queue[i])
  BY DEF Elsewhere, OnePlace
<1>3. ASSUME NEW j \in DOMAIN queue, queue[j] = queue[i] PROVE j = i
  <2> HIDE DEF queue
  <2>1. i \in DOMAIN queue
    BY DEF queue
  <2>2. queue[i] \in Orders /\ i \in Nat /\ j \in Nat
    BY <1>1, <2>1
  <2>3. queue[i].arrival \in Nat
    BY <2>2 DEF Orders
  <2>4. ~(i < j) /\ ~(j < i)
    BY <1>1, <1>3, <2>1, <2>3 DEF QueueFifo
  <2> QED
    BY <2>2, <2>4
<1> QED
  BY <1>2, <1>3

\* A cancel takes one order off the set.
LEMMA RemoveOrderResting ==
    ASSUME NEW lv, IsLevels(lv), NEW last, BookFifo(lv, last), OnePlace(lv),
           NEW key, InBook(lv, key)
    PROVE  \E o \in Resting(lv) :
             o.key = key /\ Resting(RemoveOrder(lv, key)) = Resting(lv) \ {o}
<1>1. PICK side \in Sides : \E price \in DOMAIN lv[side] :
        \E i \in 1..Len(lv[side][price]) :
          /\ lv[side][price][i].key = key
          /\ RemoveOrder(lv, key) =
               SetLevel(lv, side, price, RemoveAt(lv[side][price], i))
  BY RemoveOrderEffect
<1>2. PICK price \in DOMAIN lv[side] :
        \E i \in 1..Len(lv[side][price]) :
          /\ lv[side][price][i].key = key
          /\ RemoveOrder(lv, key) =
               SetLevel(lv, side, price, RemoveAt(lv[side][price], i))
  BY <1>1
<1>3. PICK i \in 1..Len(lv[side][price]) :
        /\ lv[side][price][i].key = key
        /\ RemoveOrder(lv, key) =
             SetLevel(lv, side, price, RemoveAt(lv[side][price], i))
  BY <1>2
<1> DEFINE queue == lv[side][price]
           new   == RemoveAt(queue, i)
           gone  == queue[i]
<1>4. queue \in Seq(Orders) /\ price \in Prices
  BY DEF IsLevels
<1>5. i \in DOMAIN queue
  <2> HIDE DEF queue
  <2>1. i \in 1..Len(queue)
    BY DEF queue
  <2> QED
    BY <1>4, <2>1
<1>6. /\ ~Elsewhere(lv, side, price, gone)
      /\ \A j \in DOMAIN queue : queue[j] = gone => j = i
  BY <1>5, QueuedOnce
<1>7. /\ new \in Seq(Orders) /\ Len(new) = Len(queue) - 1
      /\ \A j \in 1..(Len(queue) - 1) :
           new[j] = IF j < i THEN queue[j] ELSE queue[j + 1]
  <2> HIDE DEF queue
  <2>1. i \in 1..Len(queue)
    BY DEF queue
  <2> QED
    BY <1>4, <2>1, RemoveAtEffect
<1>8. RemoveOrder(lv, key) = SetLevel(lv, side, price, new)
  BY <1>3
<1>9. gone \in Resting(lv) /\ gone.key = key
  BY <1>3, <1>5, RestingSplit
<1>10. ASSUME NEW o
       PROVE  o \in Resting(lv) <=>
                Elsewhere(lv, side, price, o) \/ \E j \in DOMAIN queue : queue[j] = o
  BY RestingSplit
<1> HIDE DEF new
<1>11. ASSUME NEW o
       PROVE  o \in Resting(RemoveOrder(lv, key)) <=>
                Elsewhere(lv, side, price, o) \/ \E j \in DOMAIN new : new[j] = o
  BY <1>4, <1>7, <1>8, SetLevelResting
<1> HIDE DEF queue
<1>12. /\ Len(queue) \in Nat /\ i \in 1..Len(queue)
       /\ DOMAIN queue = 1..Len(queue) /\ DOMAIN new = 1..(Len(queue) - 1)
  BY <1>4, <1>5, <1>7
<1>13. \A j \in 1..(Len(queue) - 1) : new[j] = IF j < i THEN queue[j] ELSE queue[j + 1]
  BY <1>7
<1>14. ASSUME NEW j \in DOMAIN new
       PROVE  \E k \in DOMAIN queue : k # i /\ new[j] = queue[k]
  <2> DEFINE k == IF j < i THEN j ELSE j + 1
  <2>1. j \in 1..(Len(queue) - 1)
    BY <1>12
  <2>2. k \in DOMAIN queue /\ k # i
    BY ONLY <1>12, <2>1
  <2>3. new[j] = queue[k]
    BY <1>13, <2>1
  <2> QED
    BY <2>2, <2>3
<1>15. ASSUME NEW k \in DOMAIN queue, k # i
       PROVE  \E j \in DOMAIN new : new[j] = queue[k]
  <2>1. CASE k < i
    <3>1. k \in DOMAIN new /\ k \in 1..(Len(queue) - 1)
      BY ONLY <1>12, <1>15, <2>1
    <3> QED
      BY <1>13, <2>1, <3>1
  <2>2. CASE ~(k < i)
    <3>1. /\ k - 1 \in DOMAIN new /\ ~(k - 1 < i) /\ (k - 1) + 1 = k
          /\ k - 1 \in 1..(Len(queue) - 1)
      BY ONLY <1>12, <1>15, <2>2
    <3>2. new[k - 1] = queue[(k - 1) + 1]
      BY <1>13, <3>1
    <3> QED
      BY <3>1, <3>2
  <2> QED
    BY <2>1, <2>2
<1>16. ASSUME NEW o
       PROVE  o \in Resting(RemoveOrder(lv, key)) <=> o \in Resting(lv) /\ o # gone
  <2>1. (\E j \in DOMAIN new : new[j] = o) <=>
          (\E k \in DOMAIN queue : queue[k] = o) /\ o # gone
    BY <1>5, <1>6, <1>14, <1>15
  <2> HIDE DEF gone
  <2> QED
    BY <1>6, <1>10, <1>11, <2>1
<1>17. Resting(RemoveOrder(lv, key)) = Resting(lv) \ {gone}
  BY <1>16
<1> HIDE DEF gone
<1> QED
  BY <1>9, <1>17

\* A fill replaces the front order by what is left of it, if anything is.
LEMMA MatchFillResting ==
    ASSUME PriorityInv, MatchFill
    PROVE  LET left == Fill(ThePassive, TheQty) IN
           Resting(levels') = (Resting(levels) \ {ThePassive}) \cup
                                (IF left.remaining_qty > 0 THEN {left} ELSE {})
<1>1. /\ TypeOK /\ IsLevels(levels) /\ BookFifo(levels, LastQueued)
      /\ OnePlace(levels)
  BY DEF PriorityInv, IInv, TypeOK
<1>2. /\ pc = "match" /\ Matching(levels, active)
      /\ TheQueue # <<>> /\ ThePassive \in Orders /\ ThePassive = TheQueue[1]
      /\ TheQty \in Nat
      /\ levels' = TakeFromFront(levels, TheSide, TheQty)
  BY <1>1, MatchFillEffect
<1>3. /\ active \in Orders /\ TheSide \in Sides
      /\ ThePrice \in DOMAIN levels[TheSide] /\ ThePrice \in Prices
      /\ TheQueue \in Seq(Orders)
  BY <1>1, <1>2, MatchingContext
<1> DEFINE left == Fill(ThePassive, TheQty)
<1>4. left \in Orders
  BY <1>2, <1>3, TradeQuantityBound, FillEffect DEF TheQty
<1>5. left.remaining_qty \in Nat
  BY <1>4, OrderNumbers
<1>6. 1 \in DOMAIN TheQueue /\ DOMAIN TheQueue = 1..Len(TheQueue) /\ Len(TheQueue) \in Nat
  BY <1>2, <1>3
<1>7. /\ ~Elsewhere(levels, TheSide, ThePrice, ThePassive)
      /\ \A j \in DOMAIN TheQueue : TheQueue[j] = ThePassive => j = 1
  BY <1>1, <1>2, <1>3, <1>6, QueuedOnce DEF TheQueue
<1>8. ASSUME NEW o
      PROVE  o \in Resting(levels) <=>
               \/ Elsewhere(levels, TheSide, ThePrice, o)
               \/ \E j \in DOMAIN TheQueue : TheQueue[j] = o
  BY <1>3, RestingSplit DEF TheQueue
<1>9. \/ /\ left.remaining_qty # 0
         /\ levels' = SetLevel(levels, TheSide, ThePrice, [TheQueue EXCEPT ![1] = left])
      \/ /\ left.remaining_qty = 0 /\ Tail(TheQueue) # <<>>
         /\ levels' = SetLevel(levels, TheSide, ThePrice, Tail(TheQueue))
      \/ /\ left.remaining_qty = 0 /\ Tail(TheQueue) = <<>>
         /\ levels' = DropLevel(levels, TheSide, ThePrice)
  BY <1>2, TakeFromFrontEffect DEF ThePrice, TheQueue, ThePassive
<1> HIDE DEF left
<1>10. ASSUME left.remaining_qty # 0,
              levels' = SetLevel(levels, TheSide, ThePrice, [TheQueue EXCEPT ![1] = left])
       PROVE  Resting(levels') = (Resting(levels) \ {ThePassive}) \cup {left}
  <2> DEFINE new == [TheQueue EXCEPT ![1] = left]
  <2>1. /\ new \in Seq(Orders) /\ DOMAIN new = DOMAIN TheQueue
        /\ \A j \in DOMAIN new : new[j] = IF j = 1 THEN left ELSE TheQueue[j]
    BY <1>2, <1>3, <1>4
  <2>2. levels' = SetLevel(levels, TheSide, ThePrice, new)
    BY <1>10
  <2> HIDE DEF new
  <2>3. ASSUME NEW o
        PROVE  o \in Resting(levels') <=>
                 \/ Elsewhere(levels, TheSide, ThePrice, o)
                 \/ \E j \in DOMAIN new : new[j] = o
    BY <1>1, <1>3, <2>1, <2>2, SetLevelResting
  <2>4. ASSUME NEW o
        PROVE  (\E j \in DOMAIN new : new[j] = o) <=>
                 \/ o = left
                 \/ (\E j \in DOMAIN TheQueue : TheQueue[j] = o) /\ o # ThePassive
    BY <1>2, <1>6, <1>7, <2>1
  <2>5. \A o : o \in Resting(levels') <=>
                 o = left \/ (o \in Resting(levels) /\ o # ThePassive)
    BY <1>7, <1>8, <2>3, <2>4
  <2> QED
    BY <2>5
<1>11. ASSUME levels' = SetLevel(levels, TheSide, ThePrice, Tail(TheQueue))
       PROVE  Resting(levels') = Resting(levels) \ {ThePassive}
  <2> DEFINE new == Tail(TheQueue)
  <2>1. /\ new \in Seq(Orders)
        /\ \A j \in DOMAIN new :
             j + 1 \in DOMAIN TheQueue /\ j + 1 # 1 /\ new[j] = TheQueue[j + 1]
        /\ \A k \in DOMAIN TheQueue : k # 1 =>
             k - 1 \in DOMAIN new /\ new[k - 1] = TheQueue[k]
    BY <1>2, <1>3
  <2>2. levels' = SetLevel(levels, TheSide, ThePrice, new)
    BY <1>11
  <2> HIDE DEF new
  <2>3. ASSUME NEW o
        PROVE  o \in Resting(levels') <=>
                 \/ Elsewhere(levels, TheSide, ThePrice, o)
                 \/ \E j \in DOMAIN new : new[j] = o
    BY <1>1, <1>3, <2>1, <2>2, SetLevelResting
  <2>4. ASSUME NEW o
        PROVE  (\E j \in DOMAIN new : new[j] = o) <=>
                 (\E j \in DOMAIN TheQueue : TheQueue[j] = o) /\ o # ThePassive
    BY <1>2, <1>6, <1>7, <2>1
  <2>5. \A o : o \in Resting(levels') <=> o \in Resting(levels) /\ o # ThePassive
    BY <1>7, <1>8, <2>3, <2>4
  <2> QED
    BY <2>5
<1>12. ASSUME Tail(TheQueue) = <<>>, levels' = DropLevel(levels, TheSide, ThePrice)
       PROVE  Resting(levels') = Resting(levels) \ {ThePassive}
  <2>1. DOMAIN TheQueue = {1}
    <3>1. Len(Tail(TheQueue)) = Len(TheQueue) - 1
      BY <1>2, <1>3
    <3>2. Len(Tail(TheQueue)) = 0
      BY <1>12
    <3> QED
      BY <1>6, <3>1, <3>2
  <2>2. ASSUME NEW o
        PROVE  o \in Resting(levels') <=> Elsewhere(levels, TheSide, ThePrice, o)
    BY <1>1, <1>3, <1>12, DropLevelResting
  <2>3. \A o : o \in Resting(levels') <=> o \in Resting(levels) /\ o # ThePassive
    BY <1>2, <1>7, <1>8, <2>1, <2>2
  <2> QED
    BY <2>3
<1> QED
  BY <1>5, <1>9, <1>10, <1>11, <1>12 DEF left

\* A level without orders may go.
LEMMA MatchEmptyLevelResting ==
    ASSUME TypeOK, MatchEmptyLevel
    PROVE  Resting(levels') = Resting(levels) /\ UNCHANGED <<active, arrivals>>
<1>1. /\ pc = "match" /\ TheQueue = <<>>
      /\ levels' = DropLevel(levels, TheSide, ThePrice)
      /\ UNCHANGED <<active, arrivals>>
  BY MatchEmptyLevelEffect
<1>2. Matching(levels, active)
  BY DEF MatchEmptyLevel
<1>3. IsLevels(levels) /\ TheSide \in Sides /\ ThePrice \in DOMAIN levels[TheSide]
  BY <1>1, <1>2, MatchingContext DEF TypeOK
<1>4. \A o : o \in Resting(levels') <=> Elsewhere(levels, TheSide, ThePrice, o)
  BY <1>1, <1>3, DropLevelResting
<1>5. \A o : o \in Resting(levels) <=> Elsewhere(levels, TheSide, ThePrice, o)
  BY <1>1, <1>3, RestingSplit DEF TheQueue
<1> QED
  BY <1>1, <1>4, <1>5

\* The loop stops only when the set has nothing to trade with either: the best
\* price of the map is at least as good as that of any order.
LEMMA NothingTradable ==
    ASSUME IInv, pc = "match", ~Matching(levels, active)
    PROVE  \A o \in Resting(levels) :
             o.side = Opposite(active.side) =>
               ~(active.remaining_qty > 0 /\ CanMatch(active, o.price))
<1>1. TypeOK /\ IsLevels(levels) /\ BookConsistent(levels)
  BY DEF IInv, TypeOK, Consistent
<1>2. active \in Orders /\ active.side \in Sides /\ TheSide \in Sides
  BY <1>1, MatchingContext
<1> SUFFICES ASSUME NEW o \in Resting(levels), o.side = TheSide,
                    active.remaining_qty > 0, CanMatch(active, o.price)
             PROVE  FALSE
  BY DEF TheSide
<1>3. PICK s \in Sides : \E p \in DOMAIN levels[s] :
             \E i \in DOMAIN levels[s][p] : levels[s][p][i] = o
  BY RestingIsQueued
<1>4. PICK p \in DOMAIN levels[s] : \E i \in DOMAIN levels[s][p] : levels[s][p][i] = o
  BY <1>3
<1>5. o.side = s /\ o.price = p
  BY <1>1, <1>4 DEF BookConsistent, QueueConsistent
<1>6. p \in DOMAIN levels[TheSide] /\ p \in Prices
  BY <1>1, <1>5 DEF IsLevels
<1>7. /\ ThePrice \in Prices
      /\ TheSide = "Buy"  => p <= ThePrice
      /\ TheSide = "Sell" => ThePrice <= p
  BY <1>1, <1>2, <1>6, BestPriceIsBest DEF ThePrice
<1>8. ~CanMatch(active, ThePrice)
  BY <1>6 DEF Matching, ThePrice, TheSide
<1>9. p \in Nat /\ ThePrice \in Nat /\ active.price \in Nat
  <2>1. \A x \in Prices \cup {Market} : x \in Nat
    BY BookAssumption DEF Market
  <2> QED
    BY <1>2, <1>6, <1>7, <2>1 DEF Orders
<1>10. CASE active.side = "Buy"
  BY <1>5, <1>7, <1>8, <1>9, <1>10 DEF CanMatch, TheSide, Opposite
<1>11. CASE active.side = "Sell"
  BY <1>5, <1>7, <1>8, <1>9, <1>11 DEF CanMatch, TheSide, Opposite
<1> QED
  BY <1>2, <1>10, <1>11 DEF Sides

-----------------------------------------------------------------------------
(* Steps.                                                                  *)

\* LimitOrderBook has its own instance of Book, with the same constants.
LEMMA SameBook ==
    /\ Promise!NewOrders = NewOrders
    /\ \A side : Promise!Opposite(side) = Opposite(side)
    /\ \A order : Promise!IsMarket(order) = IsMarket(order)
    /\ \A order, price : Promise!CanMatch(order, price) = CanMatch(order, price)
    /\ \A order, qty : Promise!Fill(order, qty) = Fill(order, qty)
    /\ \A order, p : Promise!TradeQuantity(order, p) = TradeQuantity(order, p)
    /\ \A msg, n : Promise!FromNewOrder(msg, n) = FromNewOrder(msg, n)
<1>1. Promise!NewOrders = NewOrders
  BY DEF Promise!NewOrders, NewOrders, Promise!Sides, Sides, Promise!Market, Market
<1>2. \A side : Promise!Opposite(side) = Opposite(side)
  BY DEF Promise!Opposite, Opposite
<1>3. \A order : Promise!IsMarket(order) = IsMarket(order)
  BY DEF Promise!IsMarket, IsMarket, Promise!Market, Market
<1>4. \A order, price : Promise!CanMatch(order, price) = CanMatch(order, price)
  BY <1>3 DEF Promise!CanMatch, CanMatch
<1>5. \A order, qty : Promise!Fill(order, qty) = Fill(order, qty)
  BY DEF Promise!Fill, Fill
<1>6. \A order, p : Promise!TradeQuantity(order, p) = TradeQuantity(order, p)
  BY DEF Promise!TradeQuantity, TradeQuantity
<1>7. \A msg, n : Promise!FromNewOrder(msg, n) = FromNewOrder(msg, n)
  BY DEF Promise!FromNewOrder, FromNewOrder
<1> QED
  BY <1>1, <1>2, <1>3, <1>4, <1>5, <1>6, <1>7

LEMMA InitImplements == Init => Promise!Init
<1> SUFFICES ASSUME Init PROVE Promise!Init
  OBVIOUS
<1>1. Resting(levels) = {}
  BY RestingIsQueued DEF Init, EmptyLevels
<1> QED
  BY <1>1 DEF Init, Promise!Init

\* The orders that rest are orders.
LEMMA RestingTyped ==
    ASSUME PriorityInv, NEW o \in Resting(levels)
    PROVE  o \in Orders /\ o.arrival \in Nat
<1>1. IsLevels(levels)
  BY DEF PriorityInv, IInv, TypeOK
<1>2. PICK s \in Sides : \E p \in DOMAIN levels[s] :
             \E i \in DOMAIN levels[s][p] : levels[s][p][i] = o
  BY RestingIsQueued
<1>3. PICK p \in DOMAIN levels[s] : \E i \in DOMAIN levels[s][p] : levels[s][p][i] = o
  BY <1>2
<1>4. levels[s][p] \in Seq(Orders)
  BY <1>1 DEF IsLevels
<1>5. o \in Orders
  BY <1>3, <1>4
<1> QED
  BY <1>5 DEF Orders

\* A fill is a trade of the set with the order that is ahead.
LEMMA MatchFillTrades ==
    ASSUME PriorityInv, MatchFill
    PROVE  Promise!Trade
<1> DEFINE left == Fill(ThePassive, TheQty)
<1>1. TypeOK /\ IInv
  BY DEF PriorityInv, IInv
<1>2. /\ pc = "match" /\ Matching(levels, active) /\ TheQueue # <<>>
      /\ active' = Fill(active, TheQty)
      /\ arrivals' = arrivals
  BY <1>1, MatchFillEffect
<1>3. active # NoOrder
  BY <1>1, <1>2 DEF TypeOK
<1>4. Resting(levels') = (Resting(levels) \ {ThePassive}) \cup
                           (IF left.remaining_qty > 0 THEN {left} ELSE {})
  BY MatchFillResting
<1>5. /\ ThePassive \in Resting(levels) /\ ThePassive.side = TheSide
      /\ ThePassive.price = ThePrice
      /\ \A o \in Resting(levels) : o.side = TheSide /\ o # ThePassive =>
           \/ active.side = "Buy"  /\ ThePrice < o.price
           \/ active.side = "Sell" /\ ThePrice > o.price
           \/ ThePrice = o.price /\ ThePassive.arrival < o.arrival
  BY <1>2, FrontIsAhead
<1>6. active.remaining_qty > 0 /\ CanMatch(active, ThePassive.price)
  BY <1>2, <1>5 DEF Matching, ThePrice, TheSide
<1>7. ThePassive \in Promise!Tradable(active)
  BY <1>5, <1>6, SameBook DEF Promise!Tradable, Promise!Against, TheSide
<1>8. \A o \in Promise!Against(active) : Promise!Ahead(ThePassive, o)
  <2> SUFFICES ASSUME NEW o \in Resting(levels), o.side = TheSide
               PROVE  Promise!Ahead(ThePassive, o)
    BY SameBook DEF Promise!Against, TheSide
  <2>1. /\ active.side = "Buy"  => TheSide = "Sell"
        /\ active.side = "Sell" => TheSide = "Buy"
    BY DEF TheSide, Opposite
  <2>2. ThePassive.arrival \in Nat /\ o.arrival \in Nat
    BY <1>5, RestingTyped
  <2>3. CASE o = ThePassive
    BY <2>2, <2>3 DEF Promise!Ahead
  <2>4. CASE o # ThePassive
    BY <1>5, <2>1, <2>2, <2>4 DEF Promise!Ahead
  <2> QED
    BY <2>3, <2>4
<1>9. TheQty = TradeQuantity(active, ThePassive)
  BY DEF TheQty
<1> HIDE DEF left
<1> QED
  BY <1>2, <1>3, <1>4, <1>7, <1>8, <1>9, SameBook DEF Promise!Trade, left

\* Every step of the book is one of the set, or none.
LEMMA NextImplements ==
    PriorityInv /\ [Next]_vars => [Promise!Next]_(Promise!vars)
<1> SUFFICES ASSUME PriorityInv, [Next]_vars
             PROVE  \/ Promise!Next
                    \/ UNCHANGED <<Resting(levels), active, arrivals>>
  BY DEF Promise!vars
<1>0. /\ IInv /\ TypeOK /\ IsLevels(levels) /\ BookFifo(levels, LastQueued)
      /\ OnePlace(levels) /\ (pc = "match") = (active # NoOrder)
  BY DEF PriorityInv, IInv, TypeOK
<1>1. ASSUME NEW msg \in NewOrders, AddOrder(msg) PROVE Promise!Submit
  <2>1. /\ pc = "idle" /\ arrivals < MaxOrders /\ arrivals' = arrivals + 1
        /\ active' = FromNewOrder(msg, arrivals + 1) /\ levels' = levels
    BY <1>1 DEF AddOrder
  <2>2. Resting(levels)' = Resting(levels)
    BY <2>1
  <2> QED
    BY <1>0, <2>1, <2>2, SameBook DEF Promise!Submit
<1>2. CASE MatchFill
  BY <1>2, MatchFillTrades DEF Promise!Next
<1>3. CASE MatchEmptyLevel
  BY <1>0, <1>3, MatchEmptyLevelResting
<1>4. ASSUME FinishAdd PROVE Promise!Finish
  <2>1. /\ pc = "match" /\ ~Matching(levels, active)
        /\ ReportTop(Settle(levels, active), outputs) /\ arrivals' = arrivals
    BY <1>4 DEF FinishAdd
  <2>2. levels' = Settle(levels, active) /\ active' = NoOrder
    BY <2>1, ReportTopEffect
  <2>3. active \in Orders /\ active # NoOrder
    BY <1>0, <2>1, MatchingContext
  <2>4. Resting(levels') =
          Resting(levels) \cup (IF active.remaining_qty > 0 /\ ~IsMarket(active)
                                THEN {active} ELSE {})
    BY <1>0, <2>2, <2>3, SettleResting
  <2>5. Promise!Tradable(active) = {}
    BY <1>0, <2>1, NothingTradable, SameBook DEF Promise!Tradable, Promise!Against
  <2> QED
    BY <2>1, <2>2, <2>3, <2>4, <2>5, SameBook DEF Promise!Finish
<1>5. ASSUME NEW key \in Keys, CancelOrder(key), InBook(levels, key)
      PROVE  Promise!Cancel
  <2>1. /\ pc = "idle" /\ arrivals' = arrivals
        /\ ReportTop(RemoveOrder(levels, key), <<CancelAckOutput(key)>>)
    BY <1>5 DEF CancelOrder
  <2>2. levels' = RemoveOrder(levels, key) /\ active' = NoOrder /\ active = NoOrder
    BY <1>0, <2>1, ReportTopEffect
  <2>3. \E o \in Resting(levels) : Resting(levels') = Resting(levels) \ {o}
    BY <1>0, <1>5, <2>2, RemoveOrderResting
  <2> QED
    BY <2>1, <2>2, <2>3 DEF Promise!Cancel
<1>6. ASSUME NEW key \in Keys, CancelOrder(key), ~InBook(levels, key)
      PROVE  UNCHANGED <<Resting(levels), active, arrivals>>
  <2>1. UNCHANGED <<levels, active, arrivals>>
    BY <1>6 DEF CancelOrder
  <2> QED
    BY <2>1
<1>7. ASSUME Flush PROVE Promise!Flush
  <2>1. /\ pc = "idle" /\ levels' = EmptyLevels
        /\ active' = active /\ arrivals' = arrivals
    BY <1>7 DEF Flush
  <2>2. Resting(levels') = {}
    <3>1. Resting(EmptyLevels) = {}
      BY RestingIsQueued DEF EmptyLevels
    <3> QED
      BY <2>1, <3>1
  <2> QED
    BY <1>0, <2>1, <2>2 DEF Promise!Flush
<1>8. CASE UNCHANGED vars
  <2>1. UNCHANGED <<levels, active, arrivals>>
    BY <1>8 DEF vars
  <2> QED
    BY <2>1
<1> QED
  BY <1>1, <1>2, <1>3, <1>4, <1>5, <1>6, <1>7, <1>8 DEF Next, Promise!Next

\* Seen through the set of its resting orders, the book of the code does
\* nothing that a plain book with price-time priority does not do: the queues,
\* the levels that cancels leave empty and the cache are an implementation and
\* cannot be observed.  (That it does not stop in the loop is liveness, and
\* left to the run that checks Implements.)
THEOREM StepsImplement == Spec => Promise!Init /\ [][Promise!Next]_(Promise!vars)
<1>1. Init => Promise!Init
  BY InitImplements
<1>2. PriorityInv /\ [Next]_vars => [Promise!Next]_(Promise!vars)
  BY NextImplements
<1> QED
  BY <1>1, <1>2, PriorityInvHolds, PTL DEF Spec

-----------------------------------------------------------------------------
(* Removals.                                                               *)

\* Flush acknowledges the orders of a key one by one.
LEMMA FlushAcksEach ==
    ASSUME NEW lv, IsLevels(lv), NEW key
    PROVE  Cardinality({o \in Resting(lv) : o.key = key}) <=
             Cardinality({i \in DOMAIN FlushOutputs(lv) :
                            FlushOutputs(lv)[i] = CancelAckOutput(key)})
<1> DEFINE out  == FlushOutputs(lv)
           gone == {o \in Resting(lv) : o.key = key}
           acks == {i \in DOMAIN out : out[i] = CancelAckOutput(key)}
           M    == CancelAcks \cup {Eliminated(side) : side \in Sides}
<1>1. PICK all \in Seq(Orders) :
        /\ ToSet(all) = Resting(lv)
        /\ \A i \in DOMAIN all :
             i \in DOMAIN out /\ out[i] = CancelAckOutput(all[i].key)
  BY FlushAckPositions
<1> DEFINE f == [o \in gone |-> CHOOSE i \in DOMAIN all : all[i] = o]
<1>2. ASSUME NEW o \in gone
      PROVE  f[o] \in DOMAIN all /\ all[f[o]] = o
  <2>1. \E i \in DOMAIN all : all[i] = o
    BY <1>1 DEF ToSet
  <2> QED
    BY <2>1
<1>3. f \in [gone -> acks]
  <2>1. ASSUME NEW o \in gone
        PROVE  f[o] \in acks
    <3>1. f[o] \in DOMAIN all /\ all[f[o]] = o /\ o.key = key
      BY <1>2
    <3> HIDE DEF f, out
    <3> QED
      BY <3>1, <1>1
  <2> HIDE DEF acks, gone
  <2>2. \A o \in gone : f[o] \in acks
    BY <2>1
  <2> QED
    BY <2>2
<1>4. f \in Injection(gone, acks)
  <2>1. \A a, b \in gone : f[a] = f[b] => a = b
    <3> HIDE DEF f, gone
    <3> QED
      BY <1>2
  <2>2. DOMAIN f = gone
    OBVIOUS
  <2> HIDE DEF f, gone, acks
  <2> QED
    BY <1>3, <2>1, <2>2 DEF Injection, IsInjective
<1>5. IsFiniteSet(acks)
  <2>1. out \in Seq(M)
    BY FlushOutputsFacts
  <2> HIDE DEF out, M
  <2>2. Len(out) \in Nat /\ acks \in SUBSET (1..Len(out))
    BY <2>1
  <2> HIDE DEF acks
  <2>3. IsFiniteSet(1..Len(out))
    BY <2>2, FS_Interval
  <2> QED
    BY <2>2, <2>3, FS_Subset
<1>6. Cardinality(gone) <= Cardinality(acks)
  <2> HIDE DEF f, gone, acks
  <2> QED
    BY <1>4, <1>5, FS_Injection
<1> QED
  BY <1>6

\* Outside the loop nothing leaves the book without an acknowledgement of its
\* own: a cancel takes one order off and acknowledges it, a flush has a
\* CancelAck for each order, several of one key included.
THEOREM RemovalsAreAcked == Spec => RemovalsAcked
<1>1. ASSUME PriorityInv, Next, pc = "idle", pc' = "idle", NEW key \in Keys
      PROVE  Cardinality({o \in Resting(levels) \ Resting(levels)' : o.key = key}) <=
               Cardinality({i \in DOMAIN outputs' : outputs'[i] = CancelAckOutput(key)})
  <2> DEFINE gone == {o \in Resting(levels) \ Resting(levels)' : o.key = key}
             acks == {i \in DOMAIN outputs' : outputs'[i] = CancelAckOutput(key)}
  <2>0. /\ TypeOK /\ IsLevels(levels) /\ BookFifo(levels, LastQueued)
        /\ OnePlace(levels)
    BY <1>1 DEF PriorityInv, IInv, TypeOK
  <2>1. ASSUME gone = {}, IsFiniteSet(acks)
        PROVE  Cardinality(gone) <= Cardinality(acks)
    <3> HIDE DEF acks, gone
    <3>1. Cardinality(acks) \in Nat
      BY <2>1, FS_CardinalityType
    <3> QED
      BY <2>1, <3>1, FS_EmptySet
  <2>2. ASSUME NEW k \in Keys, CancelOrder(k)
        PROVE  Cardinality(gone) <= Cardinality(acks)
    <3> DEFINE ack == CancelAckOutput(k)
    <3>1. PICK events : outputs' = <<ack>> \o events /\ \E S : events \in Seq(S)
      <4>1. CASE InBook(levels, k)
        <5>1. outputs' = <<ack>> \o TopEvents(prev, Snapshot(levels'))
          BY <1>1, <2>2, <4>1, ReportTopEffect DEF CancelOrder
        <5>2. \E S : TopEvents(prev, Snapshot(levels')) \in Seq(S)
          BY TopEventsFacts
        <5> QED
          BY <5>1, <5>2
      <4>2. CASE ~InBook(levels, k)
        <5>1. outputs' = <<ack>>
          BY <2>2, <4>2 DEF CancelOrder
        <5>2. <<ack>> \o <<>> = <<ack>> /\ <<>> \in Seq({})
          OBVIOUS
        <5> QED
          BY <5>1, <5>2
      <4> QED
        BY <4>1, <4>2
    <3>2. PICK S : events \in Seq(S)
      BY <3>1
    <3>3. 1 \in DOMAIN outputs' /\ outputs'[1] = ack /\ IsFiniteSet(DOMAIN outputs')
      <4> DEFINE T == S \cup {ack}
      <4>1. <<ack>> \in Seq(T) /\ events \in Seq(T) /\ Len(<<ack>>) = 1 /\ <<ack>>[1] = ack
        BY <3>2
      <4> DEFINE head == <<ack>>
      <4> HIDE DEF T, head
      <4>2. /\ head \o events \in Seq(T) /\ Len(head \o events) = Len(head) + Len(events)
            /\ \A i \in 1..(Len(head) + Len(events)) :
                 (head \o events)[i] = IF i <= Len(head) THEN head[i]
                                        ELSE events[i - Len(head)]
        BY <4>1, ConcatProperties DEF head
      <4>3. Len(events) \in Nat /\ Len(head) = 1 /\ head[1] = ack
        BY <4>1 DEF head
      <4>4. outputs' = head \o events
        BY <3>1 DEF head
      <4>5. DOMAIN outputs' = 1..(1 + Len(events)) /\ outputs'[1] = ack
        BY <4>2, <4>3, <4>4
      <4>6. IsFiniteSet(1..(1 + Len(events)))
        BY <4>3, FS_Interval
      <4> QED
        BY <4>3, <4>5, <4>6
    <3>4. IsFiniteSet(acks) /\ (k = key => 1 \in acks)
      <4>1. acks \in SUBSET (DOMAIN outputs')
        OBVIOUS
      <4>2. k = key => 1 \in acks
        BY <3>3
      <4> HIDE DEF acks
      <4> QED
        BY <3>3, <4>1, <4>2, FS_Subset
    <3>5. gone = {} \/ (k = key /\ \E o : gone \subseteq {o})
      <4>1. CASE InBook(levels, k)
        <5>1. levels' = RemoveOrder(levels, k)
          BY <2>2, <4>1, ReportTopEffect DEF CancelOrder
        <5>2. PICK o \in Resting(levels) :
                o.key = k /\ Resting(levels') = Resting(levels) \ {o}
          BY <2>0, <4>1, <5>1, RemoveOrderResting
        <5> QED
          BY <5>2
      <4>2. CASE ~InBook(levels, k)
        BY <2>2, <4>2 DEF CancelOrder
      <4> QED
        BY <4>1, <4>2
    <3>6. CASE gone = {}
      BY <2>1, <3>4, <3>6
    <3>7. CASE gone # {}
      <4>1. PICK o : gone \subseteq {o}
        BY <3>5, <3>7
      <4>2. {1} \subseteq acks /\ gone = {o}
        BY <3>4, <3>5, <3>7, <4>1
      <4> HIDE DEF gone, acks
      <4>3. Cardinality({1}) = 1 /\ Cardinality({o}) = 1
        BY FS_Singleton
      <4>4. Cardinality({1}) <= Cardinality(acks)
        BY <3>4, <4>2, FS_Subset
      <4> QED
        BY <4>2, <4>3, <4>4
    <3> QED
      BY <3>6, <3>7
  <2>3. CASE Flush
    <3>1. outputs' = FlushOutputs(levels) /\ levels' = EmptyLevels
      BY <2>3 DEF Flush
    <3>2. Resting(levels)' = {}
      BY <3>1, EmptyBook
    <3>3. gone = {o \in Resting(levels) : o.key = key}
      BY <3>2
    <3>4. acks = {i \in DOMAIN FlushOutputs(levels) :
                    FlushOutputs(levels)[i] = CancelAckOutput(key)}
      BY <3>1
    <3>5. Cardinality({o \in Resting(levels) : o.key = key}) <=
            Cardinality({i \in DOMAIN FlushOutputs(levels) :
                           FlushOutputs(levels)[i] = CancelAckOutput(key)})
      BY <2>0, FlushAcksEach
    <3>6. Cardinality(gone) = Cardinality({o \in Resting(levels) : o.key = key})
      BY ONLY <3>3
    <3>7. Cardinality(acks) =
            Cardinality({i \in DOMAIN FlushOutputs(levels) :
                           FlushOutputs(levels)[i] = CancelAckOutput(key)})
      BY ONLY <3>4
    <3> QED
      BY ONLY <3>5, <3>6, <3>7
  <2>4. ~(\E msg \in NewOrders : AddOrder(msg)) /\ ~MatchFill
        /\ ~MatchEmptyLevel /\ ~FinishAdd
    BY <1>1 DEF AddOrder, MatchFill, MatchEmptyLevel, FinishAdd
  <2> QED
    BY <2>2, <2>3, <2>4, <1>1 DEF Next
<1>2. PriorityInv /\ [Next]_vars =>
        [pc = "idle" /\ pc' = "idle" =>
           \A key \in Keys :
             LET gone == {o \in Resting(levels) \ Resting(levels)' : o.key = key}
                 acks == {i \in DOMAIN outputs' : outputs'[i] = CancelAckOutput(key)}
             IN  Cardinality(gone) <= Cardinality(acks)]_vars
  BY <1>1
<1> QED
  BY <1>2, PriorityInvHolds, PTL DEF Spec, RemovalsAcked

-----------------------------------------------------------------------------
(* The loop as a whole.                                                    *)

\* A trade with the front order leaves every queue in the order of arrival.
LEMMA TradedFifo ==
    ASSUME NEW lv, IsLevels(lv), NEW last \in Nat, BookFifo(lv, last), OnePlace(lv),
           NEW new, NEW side \in Sides, NEW price, NEW queue, NEW front,
           Traded(lv, new, side, price, queue, front)
    PROVE  BookFifo(new, last) /\ OnePlace(new)
<1>1. /\ price \in DOMAIN lv[side] /\ price \in Prices
      /\ queue \in Seq(Orders) /\ queue = lv[side][price] /\ queue # <<>>
      /\ front \in Orders /\ front.arrival = queue[1].arrival
      /\ \/ new = SetLevel(lv, side, price, [queue EXCEPT ![1] = front])
         \/ new = SetLevel(lv, side, price, Tail(queue))
         \/ new = DropLevel(lv, side, price)
  BY DEF Traded
<1>2. QueueFifo(queue, last)
  BY <1>1 DEF BookFifo
<1>3. ASSUME NEW q \in Seq(Orders), QueueFifo(q, last), Thinned(q, queue)
      PROVE  /\ BookFifo(SetLevel(lv, side, price, q), last)
             /\ OnePlace(SetLevel(lv, side, price, q))
  <2>1. \A i \in DOMAIN q : \E k \in DOMAIN lv[side][price] :
          q[i].arrival = lv[side][price][k].arrival
    BY <1>1, <1>3 DEF Thinned
  <2> QED
    BY <1>1, <1>3, <2>1, SetLevelFifo
<1>4. [queue EXCEPT ![1] = front] \in Seq(Orders) /\ Tail(queue) \in Seq(Orders)
  BY <1>1
<1>5. CASE new = SetLevel(lv, side, price, [queue EXCEPT ![1] = front])
  BY <1>1, <1>2, <1>3, <1>4, <1>5, FrontFifo
<1>6. CASE new = SetLevel(lv, side, price, Tail(queue))
  BY <1>1, <1>2, <1>3, <1>4, <1>6, TailFifo
<1>7. CASE new = DropLevel(lv, side, price)
  BY <1>7, DropLevelFifo
<1> QED
  BY <1>1, <1>5, <1>6, <1>7

\* Fewer orders or fewer levels to match, and the loop needs fewer turns.
LEMMA FuelDecreases ==
    ASSUME NEW lv, IsLevels(lv), NEW new, IsLevels(new), NEW side \in Sides,
           RestingOn(new, side) \subseteq RestingOn(lv, side),
           DOMAIN new[side] \subseteq DOMAIN lv[side],
           RestingOn(new, side) # RestingOn(lv, side) \/ DOMAIN new[side] # DOMAIN lv[side]
    PROVE  Cardinality(RestingOn(new, side)) + Cardinality(DOMAIN new[side]) <
             Cardinality(RestingOn(lv, side)) + Cardinality(DOMAIN lv[side])
<1> DEFINE A == RestingOn(lv, side)
           B == DOMAIN lv[side]
           a == RestingOn(new, side)
           b == DOMAIN new[side]
<1>1. IsFiniteSet(A) /\ IsFiniteSet(B)
  BY RestingFinite, PricesBounded
<1>2. a \in SUBSET A /\ b \in SUBSET B /\ (a # A \/ b # B)
  OBVIOUS
<1> HIDE DEF A, B, a, b
<1>3. /\ IsFiniteSet(a) /\ Cardinality(a) <= Cardinality(A)
      /\ Cardinality(A) = Cardinality(a) => A = a
  BY <1>1, <1>2, FS_Subset
<1>4. /\ IsFiniteSet(b) /\ Cardinality(b) <= Cardinality(B)
      /\ Cardinality(B) = Cardinality(b) => B = b
  BY <1>1, <1>2, FS_Subset
<1>5. /\ Cardinality(A) \in Nat /\ Cardinality(B) \in Nat
      /\ Cardinality(a) \in Nat /\ Cardinality(b) \in Nat
  BY <1>1, <1>3, <1>4, FS_CardinalityType
<1>6. Cardinality(a) + Cardinality(b) < Cardinality(A) + Cardinality(B)
  BY <1>2, <1>3, <1>4, <1>5
<1> QED
  BY <1>6 DEF A, B, a, b

\* A level that is dropped, and a front order that is popped.
LEMMA DropShrinks ==
    ASSUME NEW lv, IsLevels(lv), NEW side \in Sides, NEW price \in DOMAIN lv[side]
    PROVE  LET new == DropLevel(lv, side, price) IN
           /\ IsLevels(new)
           /\ RestingOn(new, side) \subseteq RestingOn(lv, side)
           /\ DOMAIN new[side] \subseteq DOMAIN lv[side]
           /\ DOMAIN new[side] # DOMAIN lv[side]
<1> DEFINE new == DropLevel(lv, side, price)
<1>1. /\ IsLevels(new)
      /\ DOMAIN new[side] = DOMAIN lv[side] \ {price}
      /\ \A p \in DOMAIN new[side] : new[side][p] = lv[side][p]
  BY DropLevelEffect
<1> HIDE DEF new
<1>2. RestingOn(new, side) \subseteq RestingOn(lv, side)
  BY <1>1 DEF RestingOn
<1> QED
  BY <1>1, <1>2 DEF new

LEMMA PopShrinks ==
    ASSUME NEW lv, IsLevels(lv), NEW last, BookFifo(lv, last), OnePlace(lv),
           NEW side \in Sides, NEW price \in DOMAIN lv[side], price \in Prices,
           NEW queue \in Seq(Orders), queue = lv[side][price], queue # <<>>
    PROVE  LET new == SetLevel(lv, side, price, Tail(queue)) IN
           /\ IsLevels(new)
           /\ RestingOn(new, side) \subseteq RestingOn(lv, side)
           /\ DOMAIN new[side] \subseteq DOMAIN lv[side]
           /\ RestingOn(new, side) # RestingOn(lv, side)
<1> DEFINE rest == Tail(queue)
           new == SetLevel(lv, side, price, rest)
<1>1. /\ rest \in Seq(Orders) /\ Len(queue) \in Nat /\ DOMAIN queue = 1..Len(queue)
      /\ DOMAIN rest = 1..(Len(queue) - 1) /\ 1 \in DOMAIN queue
      /\ \A i \in DOMAIN rest : i + 1 \in DOMAIN queue /\ rest[i] = queue[i + 1]
  OBVIOUS
<1> HIDE DEF rest
<1>2. /\ IsLevels(new) /\ DOMAIN new[side] = DOMAIN lv[side]
      /\ new[side][price] = rest
      /\ \A p \in DOMAIN lv[side] : p # price => new[side][p] = lv[side][p]
  <2>1. /\ IsLevels(new) /\ DOMAIN new[side] = DOMAIN lv[side] \cup {price}
        /\ new[side][price] = rest
        /\ \A p \in DOMAIN lv[side] : p # price => new[side][p] = lv[side][p]
    BY <1>1, SetLevelEffect
  <2> HIDE DEF new
  <2> QED
    BY <2>1
<1> HIDE DEF new
<1>3. \A o : o \in RestingOn(new, side) <=>
             \E p \in DOMAIN new[side] : \E i \in DOMAIN new[side][p] : new[side][p][i] = o
  BY DEF RestingOn, ToSet
<1>4. \A o : o \in RestingOn(lv, side) <=>
             \E p \in DOMAIN lv[side] : \E i \in DOMAIN lv[side][p] : lv[side][p][i] = o
  BY DEF RestingOn, ToSet
<1>5. ASSUME NEW o \in RestingOn(new, side)
      PROVE  o \in RestingOn(lv, side) /\ o # queue[1]
  <2>1. PICK p \in DOMAIN new[side] : \E i \in DOMAIN new[side][p] : new[side][p][i] = o
    BY <1>3
  <2>2. PICK i \in DOMAIN new[side][p] : new[side][p][i] = o
    BY <2>1
  <2>3. CASE p = price
    <3>1. i \in DOMAIN rest /\ o = queue[i + 1] /\ i + 1 \in DOMAIN queue
      BY <1>1, <1>2, <2>2, <2>3
    <3>2. 1 < i + 1
      BY <1>1, <3>1
    <3>3. queue[1].arrival < queue[i + 1].arrival
      BY <1>1, <3>1, <3>2 DEF BookFifo, QueueFifo
    <3>4. queue[1].arrival \in Nat
      <4>1. queue[1] \in Orders
        BY <1>1
      <4> QED
        BY <4>1 DEF Orders
    <3>5. o # queue[1]
      BY <3>1, <3>3, <3>4
    <3> QED
      BY <1>4, <3>1, <3>5
  <2>4. CASE p # price
    <3>1. p \in DOMAIN lv[side] /\ i \in DOMAIN lv[side][p] /\ lv[side][p][i] = o
      BY <1>2, <2>1, <2>2, <2>4
    <3>2. o.arrival # queue[1].arrival
      BY <1>1, <2>4, <3>1 DEF OnePlace
    <3> QED
      BY <1>4, <3>1, <3>2
  <2> QED
    BY <2>3, <2>4
<1>6. queue[1] \in RestingOn(lv, side)
  BY <1>1, <1>4
<1> QED
  BY <1>2, <1>5, <1>6 DEF new, rest

\* A turn of the loop either finishes the incoming order or leaves less to
\* match it with, and keeps the queues in the order of arrival.
LEMMA TurnShrinks ==
    ASSUME NEW last \in Nat, NEW t \in MatchStates, Matching(t.levels, t.order),
           BookFifo(t.levels, last), OnePlace(t.levels)
    PROVE  /\ MatchStep(t) \in MatchStates
           /\ BookFifo(MatchStep(t).levels, last) /\ OnePlace(MatchStep(t).levels)
           /\ MatchStep(t).order.remaining_qty = 0 \/ Fuel(MatchStep(t)) < Fuel(t)
<1> DEFINE lv    == t.levels
           order == t.order
           side  == Opposite(order.side)
           price == BestPrice(lv, side)
           queue == lv[side][price]
           first == queue[1]
           qty   == TradeQuantity(order, first)
           next  == MatchStep(t)
           new   == next.levels
<1>1. /\ IsLevels(lv) /\ side \in Sides /\ price \in DOMAIN lv[side]
      /\ next \in MatchStates
      /\ \/ /\ queue = <<>>
            /\ new = DropLevel(lv, side, price)
            /\ next.order = order
         \/ /\ Traded(lv, new, side, price, queue, Fill(first, qty))
            /\ next.order = Fill(order, qty)
  BY MatchStepEffect
<1>2. order \in Orders /\ BookFifo(lv, last) /\ OnePlace(lv)
  BY DEF MatchStates
<1>3. next.order.side = order.side /\ IsLevels(new)
  <2>1. next.order = order \/ next.order = Fill(order, qty)
    BY <1>1
  <2>2. next.levels \in AllLevels
    BY <1>1 DEF MatchStates
  <2> HIDE DEF next, order
  <2> QED
    BY <1>2, <2>1, <2>2, AllLevelsTyped DEF Fill, Orders
<1> DEFINE less == Cardinality(RestingOn(new, side)) + Cardinality(DOMAIN new[side])
           more == Cardinality(RestingOn(lv, side)) + Cardinality(DOMAIN lv[side])
<1>4. Fuel(next) = less + 1 /\ Fuel(t) = more + 1
  BY <1>3 DEF Fuel
<1>5. less \in Nat /\ more \in Nat
  <2> HIDE DEF lv, new, side
  <2>1. /\ IsFiniteSet(RestingOn(new, side)) /\ IsFiniteSet(DOMAIN new[side])
        /\ IsFiniteSet(RestingOn(lv, side)) /\ IsFiniteSet(DOMAIN lv[side])
    BY <1>1, <1>3, RestingFinite, PricesBounded
  <2> QED
    BY <2>1, FS_CardinalityType
<1> HIDE DEF lv, order, side, price, queue, next, new
<1>6. CASE new = DropLevel(lv, side, price)
  <2>1. less < more
    <3>1. /\ RestingOn(new, side) \subseteq RestingOn(lv, side)
          /\ DOMAIN new[side] \subseteq DOMAIN lv[side]
          /\ DOMAIN new[side] # DOMAIN lv[side]
      BY <1>1, <1>6, DropShrinks
    <3> QED
      BY <1>1, <1>3, <3>1, FuelDecreases
  <2>2. BookFifo(new, last) /\ OnePlace(new)
    BY <1>1, <1>2, <1>6, DropLevelFifo
  <2> HIDE DEF less, more
  <2>3. less + 1 < more + 1
    BY <1>5, <2>1
  <2> QED
    BY <1>1, <1>4, <2>2, <2>3 DEF next, new
<1>7. CASE Traded(lv, new, side, price, queue, Fill(first, qty))
           /\ next.order = Fill(order, qty) /\ new # DropLevel(lv, side, price)
  <2> DEFINE front == Fill(first, qty)
  <2>1. BookFifo(new, last) /\ OnePlace(new)
    BY <1>1, <1>2, <1>7, TradedFifo
  <2>2. /\ price \in Prices /\ queue \in Seq(Orders) /\ queue = lv[side][price]
        /\ queue # <<>> /\ first \in Orders
        /\ \/ front.remaining_qty # 0
           \/ new = SetLevel(lv, side, price, Tail(queue))
    BY <1>7 DEF Traded
  <2>3. CASE new = SetLevel(lv, side, price, Tail(queue))
    <3>1. less < more
      <4>1. /\ RestingOn(new, side) \subseteq RestingOn(lv, side)
            /\ DOMAIN new[side] \subseteq DOMAIN lv[side]
            /\ RestingOn(new, side) # RestingOn(lv, side)
        BY <1>1, <1>2, <2>2, <2>3, PopShrinks
      <4> QED
        BY <1>1, <1>3, <4>1, FuelDecreases
    <3> HIDE DEF less, more
    <3>2. less + 1 < more + 1
      BY <1>5, <3>1
    <3> QED
      BY <1>1, <1>4, <2>1, <3>2 DEF next, new
  <2>4. CASE front.remaining_qty # 0
    <3> HIDE DEF first
    <3>1. /\ qty \in 0..(U32 - 1)
          /\ order.remaining_qty - qty \in 0..(U32 - 1)
          /\ first.remaining_qty - qty \in 0..(U32 - 1)
          /\ order.remaining_qty - qty = 0 \/ first.remaining_qty - qty = 0
      BY <1>2, <2>2, TradeQuantityBound
    <3> HIDE DEF qty
    <3>2. qty \in Nat
      BY <3>1, BookAssumption
    <3>3. /\ Fill(first, qty).remaining_qty = first.remaining_qty - qty
          /\ Fill(order, qty).remaining_qty = order.remaining_qty - qty
      BY <1>2, <2>2, <3>1, <3>2, FillEffect
    <3>4. next.order.remaining_qty = 0
      BY <1>7, <2>4, <3>1, <3>3
    <3> QED
      BY <1>1, <2>1, <3>4 DEF next, new
  <2> QED
    BY <2>2, <2>3, <2>4
<1> QED
  BY <1>1, <1>6, <1>7

\* The loop run for ever: it stands still once its condition fails.
Turn(t) == IF Matching(t.levels, t.order) THEN MatchStep(t) ELSE t

Runs(run, s) == run[0] = s /\ \A k \in Nat : run[k + 1] = Turn(run[k])

TurnStates(last) ==
    {t \in MatchStates : BookFifo(t.levels, last) /\ OnePlace(t.levels)}

\* MatchOrder allows for enough turns: after them the loop has ended.
LEMMA LoopEnds ==
    ASSUME NEW last \in Nat, NEW s \in TurnStates(last)
    PROVE  \E run : /\ Runs(run, s)
                    /\ \A k \in Nat : Fuel(s) <= k => run[k] = MatchOrder(s)
<1> DEFINE V == TurnStates(last)
           N == Fuel(s)
<1>1. ASSUME NEW t \in V
      PROVE  /\ IsLevels(t.levels) /\ t.order \in Orders
             /\ Fuel(t) \in Nat /\ 1 <= Fuel(t)
             /\ Matching(t.levels, t.order) =>
                  /\ MatchStep(t) \in V
                  /\ MatchStep(t).order.remaining_qty = 0 \/ Fuel(MatchStep(t)) < Fuel(t)
  <2>1. t \in MatchStates /\ BookFifo(t.levels, last) /\ OnePlace(t.levels)
    BY DEF TurnStates
  <2>2. t.levels \in AllLevels /\ t.order \in Orders
    BY <2>1 DEF MatchStates
  <2>3. IsLevels(t.levels)
    BY <2>2, AllLevelsTyped
  <2>4. Fuel(t) \in Nat /\ 1 <= Fuel(t)
    BY <2>2, <2>3, FuelIsNatural
  <2>5. ASSUME Matching(t.levels, t.order)
        PROVE  /\ MatchStep(t) \in V
               /\ MatchStep(t).order.remaining_qty = 0 \/ Fuel(MatchStep(t)) < Fuel(t)
    BY <2>1, <2>5, TurnShrinks DEF TurnStates
  <2> QED
    BY <2>2, <2>3, <2>4, <2>5
<1>2. PICK h : Turns(h, N, V, s)
  <2>1. IsLevels(s.levels) /\ s.order \in Orders
    BY <1>1
  <2>2. \A t \in V : Matching(t.levels, t.order) => MatchStep(t) \in V
    BY <1>1
  <2> HIDE DEF V, N
  <2>3. s \in V
    BY DEF V
  <2> QED
    BY <2>1, <2>2, <2>3, MatchOrderTurns DEF N
<1>3. /\ N \in Nat /\ 1 <= N /\ h \in [0..N -> V] /\ h[0] = s /\ MatchOrder(s) = h[N]
      /\ \A k \in 1..N : h[k] = Turn(h[k - 1])
  <2>1. N \in Nat /\ 1 <= N
    BY <1>1
  <2> HIDE DEF N, V
  <2> QED
    BY <1>2, <2>1 DEF Turns, Turn
<1> HIDE DEF V
<1> DEFINE Good == {k \in Nat : k \in 0..N =>
                      (Matching(h[k].levels, h[k].order) => Fuel(h[k]) + k <= N)}
<1>4. Nat \subseteq Good
  <2>1. 0 \in Good
    BY <1>3
  <2>2. ASSUME NEW k \in Nat, k \in Good
        PROVE  k + 1 \in Good
    <3>0. k + 1 \in Nat
      OBVIOUS
    <3> SUFFICES ASSUME k + 1 \in 0..N, Matching(h[k + 1].levels, h[k + 1].order)
                 PROVE  Fuel(h[k + 1]) + (k + 1) <= N
      BY <3>0
    <3>1. k \in 0..N /\ k + 1 \in 1..N /\ (k + 1) - 1 = k
      BY <1>3
    <3> DEFINE t == h[k]
               u == h[k + 1]
    <3>2. t \in V /\ u \in V /\ u = Turn(t)
      BY <1>3, <3>1
    <3>3. Matching(u.levels, u.order)
      OBVIOUS
    <3>4. Matching(t.levels, t.order) => Fuel(t) + k <= N
      BY <3>1, <2>2
    <3> HIDE DEF t, u, N, Good
    <3>5. Matching(t.levels, t.order) /\ u = MatchStep(t)
      BY <3>2, <3>3 DEF Turn
    <3>6. u.order.remaining_qty # 0
      BY <3>3 DEF Matching
    <3>7. Fuel(u) < Fuel(t) /\ Fuel(u) \in Nat /\ Fuel(t) \in Nat
      BY <1>1, <3>2, <3>5, <3>6
    <3>8. Fuel(u) + (k + 1) <= N
      BY <1>3, <3>4, <3>5, <3>7
    <3> QED
      BY <3>8 DEF u
  <2> HIDE DEF Good
  <2> QED
    BY <2>1, <2>2, Induct
<1>5. Turn(h[N]) = h[N]
  <2> DEFINE t == h[N]
  <2>1. t \in V /\ N \in 0..N
    BY <1>3
  <2>2. Matching(t.levels, t.order) => Fuel(t) + N <= N
    BY <1>3, <1>4, <2>1
  <2>3. Fuel(t) \in Nat /\ 1 <= Fuel(t)
    BY <1>1, <2>1
  <2> HIDE DEF t, N
  <2>4. ~Matching(t.levels, t.order)
    BY <1>3, <2>2, <2>3
  <2> QED
    BY <2>4 DEF t, Turn
<1> HIDE DEF Good, N
<1> DEFINE run == [k \in Nat |-> IF k <= N THEN h[k] ELSE h[N]]
<1>6. run[0] = s
  BY <1>3
<1>7. ASSUME NEW k \in Nat
      PROVE  run[k + 1] = Turn(run[k])
  <2>0. k + 1 \in Nat
    OBVIOUS
  <2>1. CASE k + 1 <= N
    <3>1. k + 1 \in 1..N /\ k <= N /\ (k + 1) - 1 = k
      BY <1>3, <2>1
    <3>2. h[k + 1] = Turn(h[k])
      BY <1>3, <3>1
    <3>3. run[k + 1] = h[k + 1] /\ run[k] = h[k]
      BY <2>0, <2>1, <3>1
    <3> QED
      BY <3>2, <3>3
  <2>2. CASE ~(k + 1 <= N)
    <3>1. k = N \/ ~(k <= N)
      BY <1>3, <2>2
    <3>2. run[k] = h[N] /\ run[k + 1] = h[N]
      BY <2>0, <2>2, <3>1
    <3> QED
      BY <3>2, <1>5
  <2> QED
    BY <2>1, <2>2
<1>8. \A k \in Nat : N <= k => run[k] = MatchOrder(s)
  BY <1>3
<1> HIDE DEF run
<1> QED
  BY <1>6, <1>7, <1>8 DEF Runs, N

\* match_order from the next turn on ends in the same state.
LEMMA MatchOrderOfTurn ==
    ASSUME NEW last \in Nat, NEW s \in TurnStates(last), Matching(s.levels, s.order)
    PROVE  MatchOrder(MatchStep(s)) = MatchOrder(s)
<1> DEFINE t == MatchStep(s)
<1>1. t \in TurnStates(last)
  BY TurnShrinks DEF TurnStates
<1> HIDE DEF t
<1>2. PICK a : Runs(a, s) /\ \A k \in Nat : Fuel(s) <= k => a[k] = MatchOrder(s)
  BY LoopEnds
<1>3. PICK b : Runs(b, t) /\ \A k \in Nat : Fuel(t) <= k => b[k] = MatchOrder(t)
  BY <1>1, LoopEnds
<1> DEFINE Good == {k \in Nat : a[k + 1] = b[k]}
<1>4. Nat \subseteq Good
  <2>1. 0 \in Good
    <3>1. a[0 + 1] = Turn(a[0]) /\ a[0] = s /\ b[0] = t
      BY <1>2, <1>3 DEF Runs
    <3>2. Turn(s) = t
      BY DEF Turn, t
    <3> QED
      BY <3>1, <3>2
  <2>2. ASSUME NEW k \in Nat, k \in Good
        PROVE  k + 1 \in Good
    <3>1. k + 1 \in Nat
      OBVIOUS
    <3>2. a[(k + 1) + 1] = Turn(a[k + 1]) /\ b[k + 1] = Turn(b[k])
      BY <3>1, <1>2, <1>3 DEF Runs
    <3> QED
      BY <2>2, <3>1, <3>2
  <2> HIDE DEF Good
  <2> QED
    BY <2>1, <2>2, Induct
<1>5. Fuel(s) \in Nat /\ Fuel(t) \in Nat
  <2>1. ASSUME NEW u \in TurnStates(last)
        PROVE  Fuel(u) \in Nat
    <3>1. u.levels \in AllLevels /\ u.order \in Orders
      BY DEF TurnStates, MatchStates
    <3> QED
      BY <3>1, AllLevelsTyped, FuelIsNatural
  <2> QED
    BY <1>1, <2>1
<1> DEFINE K == Fuel(s) + Fuel(t)
<1>6. K \in Nat /\ K + 1 \in Nat /\ Fuel(s) <= K + 1 /\ Fuel(t) <= K
  BY <1>5
<1>7. a[K + 1] = b[K]
  BY <1>4, <1>6
<1> QED
  BY <1>2, <1>3, <1>6, <1>7 DEF t

\* The loop of the state machine and MatchOrder, which MatchingEngine uses for
\* the same call in one step, are the same: every turn of the loop leaves the
\* outcome of MatchOrder as it was, and the loop ends with that outcome.
THEOREM LoopAddsUp == Spec => LoopIsMatchOrder
<1>1. ASSUME PriorityInv, Next, pc = "match"
      PROVE  IF pc' = "match" THEN MatchOrder(Loop) = MatchOrder(Loop')
             ELSE MatchOrder(Loop) = Loop
  <2>1. /\ TypeOK /\ IsLevels(levels) /\ active \in Orders
        /\ outputs \in Seq(Acks \cup Trades)
        /\ BookFifo(levels, LastQueued) /\ OnePlace(levels) /\ LastQueued \in Nat
    BY <1>1, MatchingContext, OrderBookAssumption
       DEF PriorityInv, IInv, TypeOK, LastQueued
  <2>2. /\ Loop \in TurnStates(LastQueued)
        /\ Loop.levels = levels /\ Loop.order = active
    <3>1. levels \in AllLevels
      BY <2>1, AllLevelsTyped
    <3> QED
      BY <2>1, <3>1 DEF Loop, TurnStates, MatchStates
  <2>3. CASE MatchFill \/ MatchEmptyLevel
    <3>1. /\ pc' = "match" /\ Matching(levels, active)
          /\ Step(MatchStep(Loop))
      BY <1>1, <2>3 DEF MatchFill, MatchEmptyLevel
    <3>2. MatchStep(Loop) \in MatchStates
      BY <2>1, <2>2, <3>1, TurnShrinks DEF TurnStates
    <3>3. Loop' = MatchStep(Loop)
      BY <3>1, <3>2 DEF Loop, Step, MatchStates
    <3> QED
      BY <2>1, <2>2, <3>1, <3>3, MatchOrderOfTurn
  <2>4. CASE FinishAdd
    <3>1. ~Matching(levels, active) /\ pc' # "match"
      BY <2>4, ReportTopEffect DEF FinishAdd
    <3>2. Loop \in {Loop} /\ IsLevels(Loop.levels) /\ Loop.order \in Orders
          /\ \A t \in {Loop} : ~Matching(t.levels, t.order)
      BY <2>1, <2>2, <3>1
    <3>3. MatchOrder(Loop) \in {Loop}
      BY <3>2, MatchOrderKeeps
    <3> QED
      BY <3>1, <3>3
  <2> QED
    BY <1>1, <2>3, <2>4 DEF Next, AddOrder, CancelOrder, Flush
<1>2. PriorityInv /\ [Next]_vars =>
        [pc = "match" =>
           IF pc' = "match" THEN MatchOrder(Loop) = MatchOrder(Loop')
           ELSE MatchOrder(Loop) = Loop]_vars
  BY <1>1
<1> QED
  BY <1>2, PriorityInvHolds, PTL DEF Spec, LoopIsMatchOrder
=============================================================================
