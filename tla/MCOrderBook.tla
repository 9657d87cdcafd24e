----------------------------- MODULE MCOrderBook -----------------------------
(* Small instances of OrderBook for TLC. *)
EXTENDS OrderBook

\* Two clients' orders that may reuse each other's keys: no operator compares
\* keys but for equality.
KeySymmetry == Permutations(Keys)
=============================================================================
