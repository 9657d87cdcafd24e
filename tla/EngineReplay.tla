----------------------------- MODULE EngineReplay -----------------------------
(***************************************************************************)
(* A MatchingEngine and its replay: a second one that processes the same   *)
(* messages.  What is a function of the input and what is not?             *)
(***************************************************************************)
EXTENDS MatchingEngine

VARIABLES books2, map2, out2, alive2, arrivals2, uses2, feed2

Replay == INSTANCE MatchingEngine WITH
    order_books <- books2, order_to_symbol <- map2, outputs <- out2,
    alive <- alive2, arrivals <- arrivals2, uses <- uses2, feed <- feed2

bothVars == <<vars, Replay!vars>>

InitBoth == Init /\ Replay!Init

NewOrder ==
    \E symbol \in Symbols, msg \in NewOrders :
        ProcessNewOrder(symbol, msg) /\ Replay!ProcessNewOrder(symbol, msg)

Cancel ==
    \E key \in Keys :
        /\ ProcessCancel(key) \/ ProcessCancelUnknown(key)
        /\ Replay!ProcessCancel(key) \/ Replay!ProcessCancelUnknown(key)

Flush == ProcessFlush /\ Replay!ProcessFlush

Query ==
    \E symbol \in Symbols :
        ProcessQueryTopOfBook(symbol) /\ Replay!ProcessQueryTopOfBook(symbol)

\* Both are the same build: either a sum that overflows panics or it wraps.
BothPanic == Panic /\ Replay!Panic

NextBoth == NewOrder \/ Cancel \/ Flush \/ Query \/ BothPanic

SpecBoth == InitBoth /\ [][NextBoth]_bothVars

-----------------------------------------------------------------------------

\* The books, the tracked keys and, symbol by symbol, the outputs are the same
\* in every replay of the same messages (the HashMap of books has an order of
\* its own in each).
SameBySymbol ==
    /\ books2 = order_books
    /\ map2 = order_to_symbol
    /\ \A symbol \in Symbols \cup {Unknown} :
         OfSymbol(symbol, out2) = OfSymbol(symbol, outputs)
=============================================================================
