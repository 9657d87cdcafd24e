------------------------------ MODULE TradingApp ------------------------------
(***************************************************************************)
(* The App of engine-trading-client (app.rs and the key dispatch of        *)
(* main.rs), trading one symbol on a MatchingEngine that others use too.   *)
(*                                                                         *)
(* The App talks through two unbounded channels.  Everything between their *)
(* other ends and the engine (the connection task, the socket, the server) *)
(* is taken to deliver in order: to_network ends in the engine, to_app     *)
(* begins in it.                                                           *)
(***************************************************************************)
EXTENDS MatchingEngine

CONSTANTS
    Symbol,            \* current_symbol, which nothing changes
    MyKeys,            \* the keys (user_id, 1000), (user_id, 1001), ...
    DefaultPrice,      \* 100 in the code: the price of every limit order
    MyQuantities,      \* the quantities the user types; 0 is refused
    OtherOrders,       \* what other users enter: [symbol, order]
    MaxToNetwork,      \* bound on the length of the App's channel
    MaxToApp           \* the engine acts only when fewer messages wait

ASSUME TradingAppAssumption ==
    /\ Symbol \in Symbols
    /\ MyKeys \in Seq(Keys) /\ MyKeys # <<>>
    /\ IsInjective(MyKeys)
    /\ DefaultPrice \in Prices
    /\ MyQuantities \subseteq Quantities \ {0}
    /\ OtherOrders \subseteq [symbol : Symbols, order : NewOrders]
    /\ \A entered \in OtherOrders : entered.order.key \notin Range(MyKeys)
    /\ Len(MyKeys) <= MaxOrders
    /\ MaxToNetwork \in Nat \ {0}
    /\ MaxToApp \in Nat \ {0}

VARIABLES
    \* The channels:
    to_network, to_app,
    \* The App:
    my_orders,         \* an IndexMap; the n-th order has the n-th of MyKeys and
                       \* [side, price, quantity, filled_qty, status]
    shown,             \* the tops of order_books[current_symbol]
    \* History, read by no action:
    cancelling         \* the orders for which a Cancel was sent

appVars == <<my_orders, shown, cancelling>>
allVars == <<vars, to_network, to_app, appVars>>

InitApp ==
    /\ Init
    /\ to_network = <<>>
    /\ to_app = <<>>
    /\ my_orders = <<>>
    /\ shown = NoTop
    /\ cancelling = {}

-----------------------------------------------------------------------------
(* The user's commands.                                                    *)

\* Mutant: the index is taken one too high.
CancelMessageNext(n) ==
    [type |-> "Cancel", key |-> MyKeys[IF n = Len(MyKeys) THEN n ELSE n + 1]]

CancelMessage(n) == [type |-> "Cancel", key |-> MyKeys[n]]

\* submit_input with a side and a quantity: the order is stored as pending
\* and sent.  Nothing fills order_price_input, so an order that is not a
\* market order gets the default price.
SubmitInput(side, price, quantity) ==
    LET next == Len(my_orders) + 1
    IN  /\ next <= Len(MyKeys)
        /\ Len(to_network) < MaxToNetwork
        /\ my_orders' = Append(my_orders,
             [side |-> side, price |-> price, quantity |-> quantity,
              filled_qty |-> 0, status |-> "Pending"])
        /\ to_network' = Append(to_network,
             [type |-> "NewOrder",
              order |-> [key |-> MyKeys[next], side |-> side,
                         price |-> price, quantity |-> quantity]])
        /\ UNCHANGED <<vars, to_app, shown, cancelling>>

\* Any order can be selected, and its status is not asked for.
CancelSelectedOrder(n) ==
    /\ Len(to_network) < MaxToNetwork
    /\ to_network' = Append(to_network, CancelMessage(n))
    /\ cancelling' = cancelling \cup {n}
    /\ UNCHANGED <<vars, to_app, my_orders, shown>>

OpenOrders ==
    Only([n \in DOMAIN my_orders |-> n],
         {n \in DOMAIN my_orders : my_orders[n].status \in {"Open", "PartiallyFilled"}})

\* Orders that are still pending are passed over.
CancelAllOrders ==
    /\ Len(to_network) + Len(OpenOrders) <= MaxToNetwork
    /\ to_network' = to_network \o [i \in DOMAIN OpenOrders |->
                                      CancelMessage(OpenOrders[i])]
    /\ cancelling' = cancelling \cup ToSet(OpenOrders)
    /\ UNCHANGED <<vars, to_app, my_orders, shown>>

-----------------------------------------------------------------------------
(* The engine and its other users.                                         *)

\* The server sends what a message caused to every client, in order.
Broadcast == to_app' = to_app \o outputs'

EngineReceives ==
    LET message == Head(to_network)
    IN  /\ to_network # <<>>
        /\ Len(to_app) < MaxToApp
        /\ \/ /\ message.type = "NewOrder"
              /\ ProcessNewOrder(Symbol, message.order)
           \/ /\ message.type = "Cancel"
              /\ \/ ProcessCancel(message.key)
                 \/ ProcessCancelUnknown(message.key)
        /\ to_network' = Tail(to_network)
        /\ Broadcast
        /\ UNCHANGED appVars

\* The user's orders that the engine has not seen: MaxOrders leaves room for
\* them, so that the bound never keeps one of them waiting.
Unseen == Len(MyKeys) - Len(my_orders)
            + Len(SelectSeq(to_network, LAMBDA m : m.type = "NewOrder"))

OtherUserActs ==
    /\ Len(to_app) < MaxToApp
    /\ \/ \E entered \in OtherOrders :
            /\ arrivals + Unseen < MaxOrders
            /\ ProcessNewOrder(entered.symbol, entered.order)
       \/ \E key \in Keys \ Range(MyKeys) : ProcessCancel(key)
       \/ ProcessFlush
       \/ \E symbol \in Symbols : ProcessQueryTopOfBook(symbol)
    /\ Broadcast
    /\ UNCHANGED <<to_network, appVars>>

-----------------------------------------------------------------------------
(* handle_engine_message.                                                  *)

\* order.status = status, on my_orders.get_mut(key), when there is such an order.
WithStatus(orders, key, status) ==
    [n \in DOMAIN orders |->
       IF MyKeys[n] = key THEN [orders[n] EXCEPT !.status = status] ELSE orders[n]]

\* Mutant: every trade fills.
FilledByAny(order, quantity) ==
    [order EXCEPT !.filled_qty = @ + quantity, !.status = "Filled"]

\* Mutant: > for >=.
FilledByStrict(order, quantity) ==
    [order EXCEPT !.filled_qty = @ + quantity,
                  !.status = IF order.filled_qty + quantity > order.quantity
                             THEN "Filled" ELSE "PartiallyFilled"]

FilledBy(order, quantity) ==
    [order EXCEPT !.filled_qty = @ + quantity,
                  !.status = IF order.filled_qty + quantity >= order.quantity
                             THEN "Filled" ELSE "PartiallyFilled"]

\* A trade's effect on my_orders.get_mut(key), when there is such an order.
WithFill(orders, key, quantity) ==
    [n \in DOMAIN orders |->
       IF MyKeys[n] = key THEN FilledBy(orders[n], quantity) ELSE orders[n]]

\* Take the next message from the channel.
Receive(type) ==
    /\ to_app # <<>>
    /\ Head(to_app).type = type
    /\ to_app' = Tail(to_app)
    /\ UNCHANGED <<vars, to_network, cancelling>>

\* Mutant: an Ack is taken for that of the last order.
HandleAckLast ==
    /\ Receive("Ack")
    /\ my_orders' = IF my_orders # <<>> /\ Head(to_app).key = MyKeys[Len(my_orders)]
                    THEN WithStatus(my_orders, Head(to_app).key, "Open")
                    ELSE my_orders
    /\ UNCHANGED shown

HandleAck ==
    /\ Receive("Ack")
    /\ my_orders' = WithStatus(my_orders, Head(to_app).key, "Open")
    /\ UNCHANGED shown

\* Mutant: a trade with oneself fills the buy only.
HandleTradeBuyOnly ==
    LET trade == Head(to_app)
    IN  /\ Receive("Trade")
        /\ my_orders' = IF trade.buy \in Range(MyKeys)
                        THEN WithFill(my_orders, trade.buy, trade.quantity)
                        ELSE WithFill(my_orders, trade.sell, trade.quantity)
        /\ UNCHANGED shown

\* The buyer's order and the seller's, which may both be the user's.
HandleTrade ==
    LET trade == Head(to_app)
    IN  /\ Receive("Trade")
        /\ my_orders' = WithFill(WithFill(my_orders, trade.buy, trade.quantity),
                                 trade.sell, trade.quantity)
        /\ UNCHANGED shown

HandleCancelAck ==
    /\ Receive("CancelAck")
    /\ my_orders' = WithStatus(my_orders, Head(to_app).key, "Cancelled")
    /\ UNCHANGED shown

\* The best level that a TopOfBook message leaves on its side.
Told(tob) == IF tob.eliminated THEN [price |-> 0, quantity |-> 0]
             ELSE [price |-> tob.price, quantity |-> tob.quantity]

\* Mutant: the tops of another symbol are shown as the current one's.
HandleTopOfBookAny ==
    LET tob == Head(to_app)
    IN  /\ Receive("TopOfBook")
        /\ shown' = [shown EXCEPT ![tob.side] = Told(tob)]
        /\ UNCHANGED my_orders

\* The entry of the message's symbol: an eliminated side is emptied, otherwise
\* its first level is replaced.
HandleTopOfBook ==
    LET tob == Head(to_app)
    IN  /\ Receive("TopOfBook")
        /\ shown' = IF tob.symbol = Symbol
                    THEN [shown EXCEPT ![tob.side] = Told(tob)] ELSE shown
        /\ UNCHANGED my_orders

HandleEngineMessage == HandleAck \/ HandleTrade \/ HandleCancelAck \/ HandleTopOfBook

NextApp ==
    \/ \E side \in Sides, price \in {DefaultPrice, Market}, quantity \in MyQuantities :
          SubmitInput(side, price, quantity)
    \/ \E n \in DOMAIN my_orders : CancelSelectedOrder(n)
    \/ CancelAllOrders
    \/ EngineReceives
    \/ OtherUserActs
    \/ HandleEngineMessage

\* The engine task and the UI loop go on receiving; nobody has to press a key.
\* Only EngineReceives and HandleEngineMessage make a channel shorter.  The
\* engine serves all users from one queue, so that others cannot keep a message
\* waiting: strong fairness, because MaxToApp may disable it now and then.
Fairness ==
    /\ SF_to_network(/\ to_network # <<>>
                     /\ Len(to_app) < MaxToApp
                     /\ to_network' = Tail(to_network))
    /\ WF_to_app(to_app # <<>> /\ to_app' = Tail(to_app))

SpecApp == InitApp /\ [][NextApp]_allVars /\ Fairness

-----------------------------------------------------------------------------
(* Properties.                                                             *)

\* The user's n-th order where it rests in the engine: one order, or none.
InEngine(n) ==
    {order \in Resting(BookOf(Symbol).levels) : order.key = MyKeys[n]}

\* What the messages on their way to the App still add to the n-th order.
FillsUnderWay(n) ==
    SumBy([m \in ToSet(to_app) |->
             IF m.type = "Trade" /\ MyKeys[n] \in {m.buy, m.sell}
             THEN m.quantity ELSE 0], to_app)

\* The fills the App has counted and those on their way are what the engine
\* has taken from a resting order, at every moment and also when the user
\* trades with himself; no order is ever filled beyond its quantity.
FillsAccounted ==
    \A n \in DOMAIN my_orders :
        /\ my_orders[n].filled_qty + FillsUnderWay(n) <= my_orders[n].quantity
        /\ \A order \in InEngine(n) :
             my_orders[n].filled_qty + FillsUnderWay(n) + order.remaining_qty
               = my_orders[n].quantity

\* An order that rests in the engine is never shown as over: Cancel All leaves
\* out an order that may still trade only while its Ack is under way.
RestingIsShown ==
    \A n \in DOMAIN my_orders :
        InEngine(n) # {} =>
            my_orders[n].status \in {"Pending", "Open", "PartiallyFilled"}

Quiet == to_network = <<>> /\ to_app = <<>>

\* Once every message has arrived, a limit order is shown as working exactly
\* when it rests in the engine, untouched exactly when it has no fill, and as
\* filled only when all of it has traded.  (A market order whose rest was
\* dropped stays Open or PartiallyFilled: no message tells.)
StatusSettled ==
    Quiet => \A n \in DOMAIN my_orders :
        LET order == my_orders[n]
        IN  /\ order.status # "Pending"
            /\ order.price # Market =>
                 (order.status \in {"Open", "PartiallyFilled"} <=> InEngine(n) # {})
            /\ order.status = "Open" => order.filled_qty = 0
            /\ order.status = "PartiallyFilled" => order.filled_qty \in 1..(order.quantity - 1)
            /\ order.status = "Filled" => order.filled_qty = order.quantity

\* A Cancel is not lost to a race with the order, its Ack or its fills: once
\* every message has arrived, an order for which one was sent does not rest.
CancelSettles == Quiet => \A n \in cancelling : InEngine(n) = {}

\* The tops on the screen and the changes under way make the engine's tops.
DisplayCoherent ==
    Observe(shown, OfSymbol(Symbol, to_app)) = Snapshot(BookOf(Symbol).levels)

Pending(n) == n \in DOMAIN my_orders /\ my_orders[n].status = "Pending"

\* Every order leaves Pending.
Acknowledged == \A n \in DOMAIN MyKeys : Pending(n) ~> ~Pending(n)
=============================================================================
