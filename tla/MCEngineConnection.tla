-------------------------- MODULE MCEngineConnection --------------------------
(* A small instance of EngineConnection for TLC.                           *)
EXTENDS EngineConnection

A == <<65>>
MCSymbols == {A}
MCNumbers == {1}
MCReplies == {[type |-> "Ack", user_id |-> 1, user_order_id |-> 1,
               symbol |-> A]}
=============================================================================
