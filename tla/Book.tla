-------------------------------- MODULE Book --------------------------------
(***************************************************************************)
(* The data structure behind engine-core's OrderBook: two BTreeMaps from   *)
(* price to a VecDeque of orders, and the pure steps the handlers are made *)
(* of.  The state machines OrderBook (one book, step by step) and          *)
(* MatchingEngine (many books, one handler per step) are both built from   *)
(* these operators.                                                        *)
(*                                                                         *)
(* levels["Buy"] is the field bids and levels["Sell"] the field asks.  A   *)
(* price is in DOMAIN levels[side] exactly when the BTreeMap has the key,  *)
(* whether or not any order is queued at it.                               *)
(***************************************************************************)
EXTENDS Integers, SequencesExt

CONSTANTS
    Keys,         \* the pairs (user_id, user_order_id) clients use
    Prices,       \* the limit prices clients use
    Quantities,   \* the quantities clients use; both codecs refuse 0
    U32           \* 2^32 in the code: the number of values of a u32

ASSUME BookAssumption ==
    /\ U32 \in Nat \ {0}
    /\ Prices \subseteq 1..(U32 - 1)
    /\ Quantities \subseteq 0..(U32 - 1)

Sides == {"Buy", "Sell"}

Opposite(side) == IF side = "Buy" THEN "Sell" ELSE "Buy"

\* Price 0 of a NewOrder: a market order.
Market == 0

NewOrders == [key : Keys, side : Sides, price : Prices \cup {Market},
              quantity : Quantities]

\* `arrival` stands for timestamp_ns.  No operator of this module reads it:
\* time priority is the position in the queue, as in the code.
Orders == [key : Keys, side : Sides, price : Prices \cup {Market},
           quantity : Quantities, remaining_qty : 0..(U32 - 1), arrival : Nat]

\* A BTreeMap<u32, VecDeque<Order>>: a function on the prices it has.
IsLevels(levels) ==
    /\ levels = [side \in Sides |-> levels[side]]
    /\ \A side \in Sides :
         /\ DOMAIN levels[side] \subseteq Prices
         /\ levels[side] \in [DOMAIN levels[side] -> Seq(Orders)]

EmptyLevels == [side \in Sides |-> <<>>]

FromNewOrder(msg, arrival) ==
    [key |-> msg.key, side |-> msg.side, price |-> msg.price,
     quantity |-> msg.quantity, remaining_qty |-> msg.quantity,
     arrival |-> arrival]

-----------------------------------------------------------------------------
(* Reading the book.                                                       *)

IsMarket(order) == order.price = Market

\* Mutant: the best ask is taken from the far end of the map.
BestPriceLastKey(levels, side) ==
    LET prices == DOMAIN levels[side] IN IF prices = {} THEN 0 ELSE Max(prices)

\* best_bid_price, best_ask_price: the last key of bids, the first of asks.
BestPrice(levels, side) ==
    LET prices == DOMAIN levels[side]
    IN  IF prices = {} THEN 0
        ELSE IF side = "Buy" THEN Max(prices) ELSE Min(prices)

\* The mathematical sum; the code's .sum() is this sum as a u32.
TotalQuantity(queue) ==
    FoldLeft(LAMBDA sum, order : sum + order.remaining_qty, 0, queue)

BestTotal(levels, side) ==
    IF DOMAIN levels[side] = {} THEN 0
    ELSE TotalQuantity(levels[side][BestPrice(levels, side)])

\* best_bid_quantity, best_ask_quantity in a build that wraps.
BestQuantity(levels, side) == BestTotal(levels, side) % U32

Snapshot(levels) ==
    [side \in Sides |-> [price    |-> BestPrice(levels, side),
                         quantity |-> BestQuantity(levels, side)]]

NoTop == [side \in Sides |-> [price |-> 0, quantity |-> 0]]

\* A build with overflow checks panics when the sum at a best level does not
\* fit a u32.  Both sides' sums are evaluated on every check of the top.
SumOverflows(levels) == \E side \in Sides : BestTotal(levels, side) >= U32

RestingOn(levels, side) ==
    UNION {ToSet(levels[side][price]) : price \in DOMAIN levels[side]}

Resting(levels) == RestingOn(levels, "Buy") \cup RestingOn(levels, "Sell")

-----------------------------------------------------------------------------
(* Writing the book.                                                       *)

SetLevel(levels, side, price, queue) ==
    [levels EXCEPT ![side] = [p \in DOMAIN levels[side] \cup {price} |->
                                IF p = price THEN queue ELSE levels[side][p]]]

DropLevel(levels, side, price) ==
    [levels EXCEPT ![side] = Restrict(@, DOMAIN @ \ {price})]

\* Mutant: push_front for push_back.
AddToBookFront(levels, order) ==
    LET side  == order.side
        queue == IF order.price \in DOMAIN levels[side]
                 THEN levels[side][order.price] ELSE <<>>
    IN  SetLevel(levels, side, order.price, <<order>> \o queue)

\* add_to_book: entry(price).or_insert_with(VecDeque::new).push_back(order).
AddToBook(levels, order) ==
    LET side  == order.side
        queue == IF order.price \in DOMAIN levels[side]
                 THEN levels[side][order.price] ELSE <<>>
    IN  SetLevel(levels, side, order.price, Append(queue, order))

Fill(order, qty) == [order EXCEPT !.remaining_qty = @ - qty]

HasKey(queue, key) == \E i \in DOMAIN queue : queue[i].key = key

PricesWithKey(levels, side, key) ==
    {p \in DOMAIN levels[side] : HasKey(levels[side][p], key)}

\* Mutant: retain() for the removal of the first match.
RemoveFromSideAll(levels, side, key) ==
    LET price == Min(PricesWithKey(levels, side, key))
    IN  SetLevel(levels, side, price,
                 SelectSeq(levels[side][price], LAMBDA o : o.key # key))

\* remove_from_side on a side that has the key: levels are visited by
\* ascending price, each from its front; the order is removed and the
\* function returns at once, so a level it empties stays in the map.
RemoveFromSide(levels, side, key) ==
    LET price == Min(PricesWithKey(levels, side, key))
        queue == levels[side][price]
        first == Min({i \in DOMAIN queue : queue[i].key = key})
    IN  SetLevel(levels, side, price, RemoveAt(queue, first))

OnSide(levels, side, key) == PricesWithKey(levels, side, key) # {}

InBook(levels, key) == OnSide(levels, "Buy", key) \/ OnSide(levels, "Sell", key)

\* Mutant: the asks are searched even when a bid was found.
RemoveOrderBoth(levels, key) ==
    LET bids == IF OnSide(levels, "Buy", key)
                THEN RemoveFromSide(levels, "Buy", key) ELSE levels
    IN  IF OnSide(levels, "Sell", key)
        THEN RemoveFromSide(bids, "Sell", key) ELSE bids

\* Mutant: the asks are never searched.
RemoveOrderBids(levels, key) ==
    IF OnSide(levels, "Buy", key) THEN RemoveFromSide(levels, "Buy", key)
    ELSE levels

\* Bids first, asks only when no bid has the key.
RemoveOrder(levels, key) ==
    IF OnSide(levels, "Buy", key) THEN RemoveFromSide(levels, "Buy", key)
    ELSE IF OnSide(levels, "Sell", key)
         THEN RemoveFromSide(levels, "Sell", key)
         ELSE levels

-----------------------------------------------------------------------------
(* Matching, one iteration at a time.                                      *)

\* Mutant: strict comparison.
CanMatchStrict(order, price) ==
    \/ IsMarket(order)
    \/ order.side = "Buy"  /\ order.price > price
    \/ order.side = "Sell" /\ order.price < price

\* can_match: a limit buy takes prices up to its own, a limit sell down to it.
CanMatch(order, price) ==
    \/ IsMarket(order)
    \/ order.side = "Buy"  /\ order.price >= price
    \/ order.side = "Sell" /\ order.price <= price

\* The loop of match_order goes on.
Matching(levels, order) ==
    LET side == Opposite(order.side)
    IN  /\ order.remaining_qty > 0
        /\ DOMAIN levels[side] # {}
        /\ CanMatch(order, BestPrice(levels, side))

BestQueue(levels, side) == levels[side][BestPrice(levels, side)]

TradeQuantity(order, passive) ==
    IF order.remaining_qty <= passive.remaining_qty
    THEN order.remaining_qty ELSE passive.remaining_qty

\* Mutant: the message carries what the incoming order still wanted.
TradeOutputWanted(order, passive, price, qty) ==
    [type |-> "Trade",
     buy  |-> IF order.side = "Buy" THEN order.key ELSE passive.key,
     sell |-> IF order.side = "Buy" THEN passive.key ELSE order.key,
     price |-> price, quantity |-> order.remaining_qty]

TradeOutput(order, passive, price, qty) ==
    [type |-> "Trade",
     buy  |-> IF order.side = "Buy" THEN order.key ELSE passive.key,
     sell |-> IF order.side = "Buy" THEN passive.key ELSE order.key,
     price |-> price, quantity |-> qty]

\* The book after the incoming order has traded qty with the front order of
\* the best opposite level: a filled order is popped and a level that this
\* empties is removed.
TakeFromFront(levels, side, qty) ==
    LET price == BestPrice(levels, side)
        queue == levels[side][price]
        front == Fill(Head(queue), qty)
    IN  IF front.remaining_qty # 0
        THEN SetLevel(levels, side, price, [queue EXCEPT ![1] = front])
        ELSE IF Tail(queue) # <<>>
             THEN SetLevel(levels, side, price, Tail(queue))
             ELSE DropLevel(levels, side, price)

\* Mutant: a level without orders is skipped but not removed.
MatchStepKeepsLevel(s) ==
    LET side  == Opposite(s.order.side)
        price == BestPrice(s.levels, side)
        queue == s.levels[side][price]
        qty   == TradeQuantity(s.order, Head(queue))
    IN  IF queue = <<>> THEN s
        ELSE [levels  |-> TakeFromFront(s.levels, side, qty),
              order   |-> Fill(s.order, qty),
              outputs |-> Append(s.outputs,
                                 TradeOutput(s.order, Head(queue), price, qty))]

\* One iteration on the state of match_order: the book, the incoming order,
\* the outputs so far.  A level without orders is removed without a trade.
MatchStep(s) ==
    LET side  == Opposite(s.order.side)
        price == BestPrice(s.levels, side)
        queue == s.levels[side][price]
        qty   == TradeQuantity(s.order, Head(queue))
    IN  IF queue = <<>>
        THEN [s EXCEPT !.levels = DropLevel(@, side, price)]
        ELSE [levels  |-> TakeFromFront(s.levels, side, qty),
              order   |-> Fill(s.order, qty),
              outputs |-> Append(s.outputs,
                                 TradeOutput(s.order, Head(queue), price, qty))]

\* Mutants: the rest of a market order is queued; a filled order is queued.
SettleMarket(levels, order) ==
    IF order.remaining_qty > 0 THEN AddToBook(levels, order) ELSE levels

SettleFilled(levels, order) ==
    IF ~IsMarket(order) THEN AddToBook(levels, order) ELSE levels

\* What add_order does with the incoming order once the loop has ended.
Settle(levels, order) ==
    IF order.remaining_qty > 0 /\ ~IsMarket(order)
    THEN AddToBook(levels, order) ELSE levels

\* Mutant: the outer loop is missing, only the first level is matched.
MatchOrderOneLevel(s) ==
    LET side  == Opposite(s.order.side)
        first == BestPrice(s.levels, side)
        fuel  == Cardinality(RestingOn(s.levels, side)) + 1
        again(t, n) ==
            IF Matching(t.levels, t.order) /\ BestPrice(t.levels, side) = first
            THEN MatchStep(t) ELSE t
    IN  FoldLeft(again, s, [n \in 1..fuel |-> n])

\* match_order as a whole: the loop runs until its condition fails.  Every
\* iteration but the last removes an order or a level of the other side.
MatchOrder(s) ==
    LET side  == Opposite(s.order.side)
        fuel  == Cardinality(RestingOn(s.levels, side))
                   + Cardinality(DOMAIN s.levels[side]) + 1
        again(t, n) == IF Matching(t.levels, t.order) THEN MatchStep(t) ELSE t
    IN  FoldLeft(again, s, [n \in 1..fuel |-> n])

-----------------------------------------------------------------------------
(* Output messages.  The book's own symbol, which every message carries,   *)
(* is added by the module that owns several books.                         *)

Acks == [type : {"Ack"}, key : Keys]

Trades == [type : {"Trade"}, buy : Keys, sell : Keys, price : Prices,
           quantity : 0..(U32 - 1)]

AckOutput(key) == [type |-> "Ack", key |-> key]

CancelAckOutput(key) == [type |-> "CancelAck", key |-> key]

Eliminated(side) == [type |-> "TopOfBook", side |-> side, price |-> 0,
                     quantity |-> 0, eliminated |-> TRUE]

TopOfBook(side, best) ==
    [type |-> "TopOfBook", side |-> side, price |-> best.price,
     quantity |-> best.quantity, eliminated |-> FALSE]

TopEvent(side, best) ==
    IF best.price = 0 THEN Eliminated(side) ELSE TopOfBook(side, best)

\* Mutant: only the prices are compared.
TopEventsPrice(prev, top) ==
    LET event(side) == IF top[side].price # prev[side].price
                       THEN <<TopEvent(side, top[side])>> ELSE <<>>
    IN  event("Buy") \o event("Sell")

\* check_top_of_book_changes: one event per side that differs from the cache.
TopEvents(prev, top) ==
    LET event(side) == IF top[side] # prev[side]
                       THEN <<TopEvent(side, top[side])>> ELSE <<>>
    IN  event("Buy") \o event("Sell")

\* The keys of a BTreeMap as its iterator visits them.
Ascending(keys) ==
    CHOOSE s \in SetToSeqs(keys) : \A i, j \in DOMAIN s : i < j => s[i] < s[j]

\* The orders of one side as flush visits them: ascending price, FIFO.
QueueOrder(levels, side) ==
    LET prices == Ascending(DOMAIN levels[side])
    IN  FlattenSeq([i \in DOMAIN prices |-> levels[side][prices[i]]])

\* Mutants: no message for the sides that vanish; no CancelAck for the asks.
FlushOutputsAcks(levels) ==
    LET acks(side) == LET orders == QueueOrder(levels, side)
                      IN  [i \in DOMAIN orders |-> CancelAckOutput(orders[i].key)]
    IN  acks("Buy") \o acks("Sell")

FlushOutputsBids(levels) ==
    LET bids == QueueOrder(levels, "Buy")
        gone(side) == IF DOMAIN levels[side] = {} THEN <<>>
                      ELSE <<Eliminated(side)>>
    IN  [i \in DOMAIN bids |-> CancelAckOutput(bids[i].key)]
          \o gone("Buy") \o gone("Sell")

FlushOutputs(levels) ==
    LET acks(side) == LET orders == QueueOrder(levels, side)
                      IN  [i \in DOMAIN orders |-> CancelAckOutput(orders[i].key)]
        gone(side) == IF DOMAIN levels[side] = {} THEN <<>>
                      ELSE <<Eliminated(side)>>
    IN  acks("Buy") \o acks("Sell") \o gone("Buy") \o gone("Sell")

-----------------------------------------------------------------------------
(* Observers.                                                              *)

\* A subscriber that keeps the last TopOfBook message of each side.
Observe(seen, messages) ==
    LET of(side) == {i \in DOMAIN messages :
                       messages[i].type = "TopOfBook" /\ messages[i].side = side}
    IN  [side \in Sides |->
            IF of(side) = {} THEN seen[side]
            ELSE LET last == messages[Max(of(side))]
                 IN  [price |-> last.price, quantity |-> last.quantity]]
=============================================================================
