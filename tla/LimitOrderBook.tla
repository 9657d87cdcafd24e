--------------------------- MODULE LimitOrderBook ---------------------------
(***************************************************************************)
(* What a price-time priority book promises, without price levels, queues  *)
(* or caches: a set of resting orders and at most one incoming order.      *)
(* OrderBook implements this specification: see OrderBook!Promise.         *)
(***************************************************************************)
EXTENDS Book

CONSTANTS
    NoOrder,      \* no order is being processed
    MaxOrders     \* bound on the number of orders submitted

VARIABLES
    resting,      \* the orders on the book
    incoming,     \* the order being matched, or NoOrder
    clock         \* the number of orders submitted so far

vars == <<resting, incoming, clock>>

Init ==
    /\ resting = {}
    /\ incoming = NoOrder
    /\ clock = 0

\* p is ahead of o on their common side.
Ahead(p, o) ==
    \/ p.side = "Buy"  /\ p.price > o.price
    \/ p.side = "Sell" /\ p.price < o.price
    \/ p.price = o.price /\ p.arrival <= o.arrival

Against(order) == {o \in resting : o.side = Opposite(order.side)}

Tradable(order) ==
    {o \in Against(order) : order.remaining_qty > 0 /\ CanMatch(order, o.price)}

Submit ==
    /\ incoming = NoOrder
    /\ clock < MaxOrders
    /\ \E msg \in NewOrders : incoming' = FromNewOrder(msg, clock + 1)
    /\ clock' = clock + 1
    /\ UNCHANGED resting

\* Trade with the order that is ahead of all others on the other side.
Trade ==
    /\ incoming # NoOrder
    /\ \E p \in Tradable(incoming) :
         LET qty  == TradeQuantity(incoming, p)
             left == Fill(p, qty)
         IN  /\ \A o \in Against(incoming) : Ahead(p, o)
             /\ incoming' = Fill(incoming, qty)
             /\ resting' = (resting \ {p}) \cup
                             (IF left.remaining_qty > 0 THEN {left} ELSE {})
    /\ UNCHANGED clock

\* Only an order with nothing left to trade with is taken off the matcher:
\* the rest of a limit order joins the book, that of a market order is gone.
Finish ==
    /\ incoming # NoOrder
    /\ Tradable(incoming) = {}
    /\ resting' = resting \cup
                    (IF incoming.remaining_qty > 0 /\ ~IsMarket(incoming)
                     THEN {incoming} ELSE {})
    /\ incoming' = NoOrder
    /\ UNCHANGED clock

\* A cancel takes off exactly one order of that key.
Cancel ==
    /\ incoming = NoOrder
    /\ \E o \in resting : resting' = resting \ {o}
    /\ UNCHANGED <<incoming, clock>>

Flush ==
    /\ incoming = NoOrder
    /\ resting' = {}
    /\ UNCHANGED <<incoming, clock>>

Next == Submit \/ Trade \/ Finish \/ Cancel \/ Flush

\* An order handed to the book is eventually dealt with.
Spec == Init /\ [][Next]_vars /\ WF_vars(Trade \/ Finish)
=============================================================================
