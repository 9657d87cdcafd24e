------------------------------ MODULE OrderBook ------------------------------
(***************************************************************************)
(* One OrderBook of engine-core, driven by an arbitrary sequence of        *)
(* add_order, cancel_order and flush calls.  A book is owned by one thread *)
(* and calls do not overlap, but add_order runs the matching loop: each    *)
(* iteration is a step here, so that the properties see every state the    *)
(* loop goes through.                                                      *)
(***************************************************************************)
EXTENDS Book

CONSTANTS
    NoOrder,           \* no order is being processed
    MaxOrders,         \* bound on the number of add_order calls
    OverflowOutcomes   \* what a u32 sum that overflows may do: a build with
                       \* overflow checks panics, one without wraps

ASSUME OrderBookAssumption ==
    /\ MaxOrders \in Nat
    /\ OverflowOutcomes \subseteq {"panic", "wrap"}
    /\ OverflowOutcomes # {}
    /\ NoOrder \notin Orders

VARIABLES
    levels,     \* bids and asks
    prev,       \* prev_best_{bid,ask}_{price,qty}
    active,     \* the local `order` of add_order, or NoOrder between calls
    outputs,    \* the local `outputs`, then the returned Vec
    pc,         \* "idle": between calls; "match": in match_order;
                \* "panicked": the thread that owned the book is gone
    arrivals,   \* add_order calls so far
    \* History, read by no action:
    traded,     \* per order, the quantity of all Trade messages about it
    view        \* the top of book as rebuilt from TopOfBook messages alone

vars == <<levels, prev, active, outputs, pc, arrivals, traded, view>>

-----------------------------------------------------------------------------

Init ==
    /\ levels = EmptyLevels
    /\ prev = NoTop
    /\ active = NoOrder
    /\ outputs = <<>>
    /\ pc = "idle"
    /\ arrivals = 0
    /\ traded = [n \in 1..MaxOrders |-> 0]
    /\ view = NoTop

\* add_order up to the call of match_order.
AddOrder(msg) ==
    /\ pc = "idle"
    /\ arrivals < MaxOrders
    /\ arrivals' = arrivals + 1
    /\ active' = FromNewOrder(msg, arrivals + 1)
    /\ outputs' = <<AckOutput(msg.key)>>
    /\ pc' = "match"
    /\ UNCHANGED <<levels, prev, traded, view>>

Loop == [levels |-> levels, order |-> active, outputs |-> outputs]

Step(s) == levels' = s.levels /\ active' = s.order /\ outputs' = s.outputs

\* The loop trades with the front order of the best opposite level.
MatchFill ==
    /\ pc = "match"
    /\ Matching(levels, active)
    /\ BestQueue(levels, Opposite(active.side)) # <<>>
    /\ Step(MatchStep(Loop))
    /\ LET passive == Head(BestQueue(levels, Opposite(active.side)))
           qty     == Last(outputs').quantity
       IN  traded' = [n \in DOMAIN traded |->
                        IF n \in {active.arrival, passive.arrival}
                        THEN traded[n] + qty ELSE traded[n]]
    /\ UNCHANGED <<prev, pc, arrivals, view>>

\* The loop meets a best level that a cancel has left without orders.
MatchEmptyLevel ==
    /\ pc = "match"
    /\ Matching(levels, active)
    /\ BestQueue(levels, Opposite(active.side)) = <<>>
    /\ Step(MatchStep(Loop))
    /\ UNCHANGED <<prev, pc, arrivals, traded, view>>

\* The call ends with check_top_of_book_changes on the book `after`.
ReportTop(after, messages) ==
    /\ levels' = after
    /\ active' = NoOrder
    /\ \/ /\ SumOverflows(after) => "wrap" \in OverflowOutcomes
          /\ pc' = "idle"
          /\ prev' = Snapshot(after)
          /\ outputs' = messages \o TopEvents(prev, Snapshot(after))
          /\ view' = Observe(view, outputs')
       \/ /\ SumOverflows(after) /\ "panic" \in OverflowOutcomes
          /\ pc' = "panicked"
          /\ outputs' = <<>>
          /\ UNCHANGED <<prev, view>>

\* The loop ends; the rest of a limit order is queued.
FinishAdd ==
    /\ pc = "match"
    /\ ~Matching(levels, active)
    /\ ReportTop(Settle(levels, active), outputs)
    /\ UNCHANGED <<arrivals, traded>>

CancelOrder(key) ==
    /\ pc = "idle"
    /\ IF InBook(levels, key)
       THEN ReportTop(RemoveOrder(levels, key), <<CancelAckOutput(key)>>)
       ELSE /\ outputs' = <<CancelAckOutput(key)>>
            /\ UNCHANGED <<levels, prev, active, pc, view>>
    /\ UNCHANGED <<arrivals, traded>>

Flush ==
    /\ pc = "idle"
    /\ outputs' = FlushOutputs(levels)
    /\ levels' = EmptyLevels
    /\ prev' = NoTop
    /\ view' = Observe(view, outputs')
    /\ UNCHANGED <<active, pc, arrivals, traded>>

Next ==
    \/ \E msg \in NewOrders : AddOrder(msg)
    \/ MatchFill
    \/ MatchEmptyLevel
    \/ FinishAdd
    \/ \E key \in Keys : CancelOrder(key)
    \/ Flush

\* A call that has begun runs on: the thread is scheduled.  Nothing says that
\* another call comes.
Fairness == WF_vars(MatchFill \/ MatchEmptyLevel \/ FinishAdd)

Spec == Init /\ [][Next]_vars /\ Fairness

-----------------------------------------------------------------------------
(* Properties.                                                             *)

\* Every variable has its type.  What prev, view and the returned outputs say
\* of the top of the book is left to TopCoherent.
TypeOK ==
    /\ IsLevels(levels)
    /\ DOMAIN prev = Sides
    /\ DOMAIN view = Sides
    /\ pc = "match" => outputs \in Seq(Acks \cup Trades)
    /\ active \in Orders \cup {NoOrder}
    /\ pc \in {"idle", "match", "panicked"}
    /\ (pc = "match") = (active # NoOrder)
    /\ arrivals \in 0..MaxOrders
    /\ traded \in [1..MaxOrders -> Nat]

QueueConsistent(side, price, queue) ==
    \A i \in DOMAIN queue :
        /\ queue[i].side = side /\ queue[i].price = price
        /\ 0 < queue[i].remaining_qty
        /\ queue[i].remaining_qty <= queue[i].quantity

\* Every queued order is a limit order with something left, in the level of
\* its own side and price: what match_order takes for granted when it trades
\* at the level's price and pops orders that reach zero.
BookConsistent(book) ==
    \A side \in Sides : \A price \in DOMAIN book[side] :
        QueueConsistent(side, price, book[side][price])

Consistent == BookConsistent(levels)

BookNotCrossed(book) ==
    \A bid \in DOMAIN book["Buy"], ask \in DOMAIN book["Sell"] : bid < ask

\* The book is never crossed or locked, not even while an order is being
\* matched, and levels that a cancel has emptied count: every bid level is
\* below every ask level.
NotCrossed == BookNotCrossed(levels)

\* Time priority is nothing but queue position: along every queue the orders
\* are in the order in which add_order was called, partial fills and cancels
\* from the middle included, and the order being matched came after them all.
Fifo ==
    /\ \A side \in Sides : \A price \in DOMAIN levels[side] :
         LET queue == levels[side][price]
         IN  \A i, j \in DOMAIN queue :
               i < j => queue[i].arrival < queue[j].arrival
    /\ \A order \in Resting(levels) :
         order.arrival <= arrivals - (IF pc = "match" THEN 1 ELSE 0)

\* Quantity is conserved between the book and the Trade messages: what is
\* left of a live order is what it asked for less what was reported traded.
Conservation ==
    \A order \in Resting(levels) \cup ({active} \ {NoOrder}) :
        order.remaining_qty + traded[order.arrival] = order.quantity

\* Between calls the cache agrees with the book, and so does a subscriber who
\* sees only the TopOfBook messages of this book: no change of the top, by a
\* trade, a cancel, a flush or a wrapped sum, goes unreported.
TopCoherent ==
    /\ pc = "idle" => prev = Snapshot(levels)
    /\ view = prev

\* Every fill is with the order that is ahead of all others on the other side
\* by price and then by arrival, at that order's price, within the limit of
\* the incoming order, and both sides are charged the same quantity.
PriceTimePriority ==
    [][traded' # traded =>
         LET against == {o \in Resting(levels) : o.side = Opposite(active.side)}
             hit     == {o \in against : traded'[o.arrival] # traded[o.arrival]}
             report  == Last(outputs')
         IN  \E p \in hit :
               /\ hit = {p}
               /\ CanMatch(active, p.price)
               /\ \A o \in against \ {p} :
                    \/ active.side = "Buy"  /\ p.price < o.price
                    \/ active.side = "Sell" /\ p.price > o.price
                    \/ p.price = o.price /\ p.arrival < o.arrival
               /\ report.price = p.price
               /\ traded'[p.arrival] - traded[p.arrival] = report.quantity
               /\ traded'[active.arrival] - traded[active.arrival]
                    = report.quantity
      ]_vars

\* Outside matching an order leaves the book only if the same call returns a
\* CancelAck for its key, one for each order that leaves.
RemovalsAcked ==
    [][pc = "idle" /\ pc' = "idle" =>
         \A key \in Keys :
             LET gone == {o \in Resting(levels) \ Resting(levels)' : o.key = key}
                 acks == {i \in DOMAIN outputs' :
                            outputs'[i] = CancelAckOutput(key)}
             IN  Cardinality(gone) <= Cardinality(acks)
      ]_vars

\* The iterations of the loop add up to MatchOrder, the single step with which
\* MatchingEngine models the same call.
LoopIsMatchOrder ==
    [][pc = "match" =>
         IF pc' = "match" THEN MatchOrder(Loop) = MatchOrder(Loop')
         ELSE MatchOrder(Loop) = Loop
      ]_vars

\* The matching loop ends: an accepted order is dealt with.
AddReturns == []<>(pc # "match")

\* The detailed book implements the set-based one: the queues, the empty
\* levels and the cached top are invisible, trades happen with the order that
\* is ahead, a market order never rests, a cancel takes at most one order.
Promise == INSTANCE LimitOrderBook WITH
    resting <- Resting(levels), incoming <- active, clock <- arrivals

Implements == Promise!Spec

-----------------------------------------------------------------------------
(* What the documents say and the code does not do.                        *)

\* messages.rs: a total_quantity of 0 "implies eliminated", and eliminated
\* means there are no orders on that side; a TopOfBook message that is not
\* eliminated has something to trade at its price.
TopIsLive ==
    \A i \in DOMAIN outputs :
        outputs[i].type = "TopOfBook" =>
            (outputs[i].quantity = 0) = outputs[i].eliminated
=============================================================================
