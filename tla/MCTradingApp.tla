----------------------------- MODULE MCTradingApp -----------------------------
(* Small instances of TradingApp for TLC. *)
EXTENDS TradingApp

CONSTANTS mine1, mine2, other, Another

MCKeys == {mine1, mine2, other}
MCSymbols == {Symbol, Another}
MCMyKeys == <<mine1, mine2>>

\* Another user buys or sells one at the price of the user's orders, or buys
\* another symbol.
Limit(symbol, side) ==
    [symbol |-> symbol,
     order  |-> [key |-> other, side |-> side, price |-> DefaultPrice, quantity |-> 1]]
MCOtherOrders == {Limit(Symbol, "Buy"), Limit(Symbol, "Sell"), Limit(Another, "Buy")}
=============================================================================
