----------------------------- MODULE EngineServer -----------------------------
(***************************************************************************)
(* engine-server: the tokio tasks around one MatchingEngine.  The main     *)
(* task accepts connections; every connection has a reader task that       *)
(* forwards its messages to the engine task over one shared channel and a  *)
(* writer task that drains the connection's own outbound channel; the      *)
(* engine task sends the outputs of every message to all registered        *)
(* clients.  The registry is shared under an RwLock.                       *)
(*                                                                         *)
(* The engine is abstracted to one reply per message, named by the message *)
(* it answers: MatchingEngine says what the reply is.                      *)
(***************************************************************************)
EXTENDS Integers, Filters

CONSTANTS
    Clients,       \* TCP connections; each gets a ClientId of its own
    MaxClients,    \* Config.max_clients
    MaxMessages,   \* bound on the messages all clients send together
    PatientExit,   \* TRUE: the 200 ms before the process exits are enough for
                   \* every task that is ready; FALSE: they may be too short
    Nobody         \* no connection

ASSUME EngineServerAssumption ==
    /\ MaxClients \in Nat
    /\ MaxMessages \in Nat
    /\ PatientExit \in BOOLEAN
    /\ Nobody \notin Clients

Protocols == {"csv", "binary"}

VARIABLES
    peer,       \* per connection, the remote end: "new", "connected",
                \* "half" (closed its sending side), "gone" (closed or reset)
    wire,       \* per connection, bytes sent and not yet read by the server
    sent,       \* per connection, all messages sent: [client, n, valid], where
                \* an invalid one does not parse or decode
    main,       \* the main task: "accept", "register", "retry" (asleep after an
                \* error of accept), "drain", "sleep", "exit"
    accepting,  \* the connection main is about to register, or Nobody
    registry,   \* ClientRegistry: the connections that have an outbound sender
    protocol,   \* per connection, what the first byte made the server assume
    reader,     \* per connection: "none", "run", "leave", "done"
    writer,     \* per connection: "none", "run", "done"
    requests,   \* the channel to the engine task
    engine,     \* the engine task: "recv", "reply", "done", "dead"
    current,    \* the message the engine has processed and not yet answered
    outbound,   \* per connection, its outbound channel
    received,   \* per connection, what the writer has put on the socket
    \* History, read by no action:
    log,        \* the replies the engine has broadcast, in order
    joined      \* per connection, the length of log when it was registered

clientVars == <<peer, wire, sent>>
mainVars   == <<main, accepting, joined>>
taskVars   == <<protocol, reader, writer>>
engineVars == <<engine, current, log>>
vars == <<clientVars, mainVars, registry, taskVars, requests, engineVars,
          outbound, received>>

NoMessage == <<>>

Init ==
    /\ peer = [c \in Clients |-> "new"]
    /\ wire = [c \in Clients |-> <<>>]
    /\ sent = [c \in Clients |-> <<>>]
    /\ main = "accept"
    /\ accepting = Nobody
    /\ registry = {}
    /\ protocol = [c \in Clients |-> "csv"]
    /\ reader = [c \in Clients |-> "none"]
    /\ writer = [c \in Clients |-> "none"]
    /\ requests = <<>>
    /\ engine = "recv"
    /\ current = NoMessage
    /\ outbound = [c \in Clients |-> <<>>]
    /\ received = [c \in Clients |-> <<>>]
    /\ log = <<>>
    /\ joined = [c \in Clients |-> 0]

Running == main # "exit"

\* The accept loop goes on.
Serving == main \in {"accept", "register", "retry"}

-----------------------------------------------------------------------------
(* The remote ends.                                                        *)

Connect(c) ==
    /\ peer[c] = "new"
    /\ peer' = [peer EXCEPT ![c] = "connected"]
    /\ UNCHANGED <<wire, sent, mainVars, registry, taskVars, requests,
                   engineVars, outbound, received>>

Send(c, valid) ==
    /\ peer[c] = "connected"
    /\ MapThenSumSet(LAMBDA d : Len(sent[d]), Clients) < MaxMessages
    /\ LET message == [client |-> c, n |-> Len(sent[c]) + 1, valid |-> valid]
       IN  /\ sent' = [sent EXCEPT ![c] = Append(@, message)]
           /\ wire' = [wire EXCEPT ![c] = Append(@, message)]
    /\ UNCHANGED <<peer, mainVars, registry, taskVars, requests, engineVars,
                   outbound, received>>

\* The client has nothing more to say but still reads, as nc does at the end
\* of its input.
CloseSending(c) ==
    /\ peer[c] = "connected"
    /\ peer' = [peer EXCEPT ![c] = "half"]
    /\ UNCHANGED <<wire, sent, mainVars, registry, taskVars, requests,
                   engineVars, outbound, received>>

\* The client is gone; what it has sent may or may not still be read.
Disconnect(c) ==
    /\ peer[c] \in {"connected", "half"}
    /\ peer' = [peer EXCEPT ![c] = "gone"]
    /\ UNCHANGED <<wire, sent, mainVars, registry, taskVars, requests,
                   engineVars, outbound, received>>

-----------------------------------------------------------------------------
(* The main task.                                                          *)

Backlog == {c \in Clients : peer[c] # "new" /\ reader[c] = "none"
                              /\ c # accepting}

\* Mutant: the registry's size is not checked.
AcceptAll(c) ==
    /\ main = "accept"
    /\ c \in Backlog
    /\ main' = "register"
    /\ accepting' = c
    /\ UNCHANGED <<clientVars, registry, taskVars, requests, engineVars, outbound,
                   received, joined>>

\* accept() and the check of the registry's size under the read lock.  A
\* refused stream is dropped, which closes the connection.
Accept(c) ==
    /\ main = "accept"
    /\ c \in Backlog
    /\ IF Cardinality(registry) >= MaxClients
       THEN /\ reader' = [reader EXCEPT ![c] = "done"]
            /\ UNCHANGED <<main, accepting>>
       ELSE /\ main' = "register"
            /\ accepting' = c
            /\ UNCHANGED reader
    /\ UNCHANGED <<clientVars, registry, protocol, writer, requests, engineVars,
                   outbound, received, joined>>

\* accept() fails, for want of file descriptors say: a sleep of 50 ms, in which
\* Ctrl+C is not polled either.
AcceptError ==
    /\ main = "accept"
    /\ main' = "retry"
    /\ UNCHANGED <<clientVars, accepting, registry, taskVars, requests,
                   engineVars, outbound, received, joined>>

AcceptAgain ==
    /\ main = "retry"
    /\ main' = "accept"
    /\ UNCHANGED <<clientVars, accepting, registry, taskVars, requests,
                   engineVars, outbound, received, joined>>

\* The insertion under the write lock, then the spawn of the client's tasks.
\* The first byte the client sends decides the protocol.
Register(p) ==
    LET c == accepting
    IN  /\ main = "register"
        /\ registry' = registry \cup {c}
        /\ protocol' = [protocol EXCEPT ![c] = p]
        /\ reader' = [reader EXCEPT ![c] = "run"]
        /\ writer' = [writer EXCEPT ![c] = "run"]
        /\ main' = "accept"
        /\ accepting' = Nobody
        /\ joined' = [joined EXCEPT ![c] = Len(log)]
        /\ UNCHANGED <<clientVars, requests, engineVars, outbound, received>>

\* Ctrl+C is polled only beside accept(); the main task's engine_tx is dropped.
CtrlC ==
    /\ main = "accept"
    /\ main' = "drain"
    /\ UNCHANGED <<clientVars, accepting, registry, taskVars, requests,
                   engineVars, outbound, received, joined>>

ClearRegistry ==
    /\ main = "drain"
    /\ registry' = {}
    /\ main' = "sleep"
    /\ UNCHANGED <<clientVars, accepting, taskVars, requests, engineVars,
                   outbound, received, joined>>

\* Mutant: main never drops its engine_tx.
SenderLeftMain == main # "exit" \/ \E c \in Clients : reader[c] \in {"run", "leave"}

\* Somebody holds a sender of the shared channel: main, or a client's task.
SenderLeft == Serving \/ \E c \in Clients : reader[c] \in {"run", "leave"}

\* A task is ready to run.
Ready ==
    \/ engine = "reply"
    \/ engine = "recv" /\ (requests # <<>> \/ ~SenderLeft)
    \/ \E c \in Clients :
         \/ reader[c] = "leave"
         \/ reader[c] = "run" /\ (wire[c] # <<>> \/ peer[c] # "connected")
         \/ writer[c] = "run" /\ (outbound[c] # <<>> \/ c \notin registry)

\* The sleep is over: run() returns and the process takes all tasks with it.
Exit ==
    /\ main = "sleep"
    /\ PatientExit => ~Ready
    /\ main' = "exit"
    /\ UNCHANGED <<clientVars, accepting, registry, taskVars, requests,
                   engineVars, outbound, received, joined>>

-----------------------------------------------------------------------------
(* The reader task of a connection.                                        *)

\* The receiver of the shared channel exists.
ChannelOpen == engine \in {"recv", "reply"}

\* Mutant: a line that does not parse discards what was read with it.
ReadMessageClears(c) ==
    LET message == Head(wire[c])
        passes  == message.valid /\ ChannelOpen
    IN  /\ Running
        /\ reader[c] = "run"
        /\ wire[c] # <<>>
        /\ wire' = [wire EXCEPT ![c] = IF message.valid THEN Tail(@) ELSE <<>>]
        /\ requests' = IF passes THEN Append(requests, message) ELSE requests
        /\ UNCHANGED <<peer, sent, mainVars, registry, taskVars, engineVars,
                       outbound, received>>

\* A message is taken off the socket.  A valid one goes to the engine.  A line
\* that does not parse is skipped, as is one that finds the channel closed:
\* that break leaves the loop over lines, not the loop over reads.  A frame
\* that does not decode, or finds the channel closed, ends the reader.
ReadMessage(c) ==
    LET message == Head(wire[c])
        passes  == message.valid /\ ChannelOpen
    IN  /\ Running
        /\ reader[c] = "run"
        /\ wire[c] # <<>>
        /\ wire' = [wire EXCEPT ![c] = Tail(@)]
        /\ requests' = IF passes THEN Append(requests, message) ELSE requests
        /\ reader' = IF passes \/ protocol[c] = "csv" THEN reader
                     ELSE [reader EXCEPT ![c] = "leave"]
        /\ UNCHANGED <<peer, sent, mainVars, registry, protocol, writer,
                       engineVars, outbound, received>>

\* End of stream, or a read error on a connection that is gone.
ReadEnd(c) ==
    /\ Running
    /\ reader[c] = "run"
    /\ peer[c] = "gone" \/ (peer[c] = "half" /\ wire[c] = <<>>)
    /\ reader' = [reader EXCEPT ![c] = "leave"]
    /\ UNCHANGED <<clientVars, mainVars, registry, protocol, writer, requests,
                   engineVars, outbound, received>>

\* Mutant: the task ends without the removal.
LeaveRegistered(c) ==
    /\ Running
    /\ reader[c] = "leave"
    /\ reader' = [reader EXCEPT ![c] = "done"]
    /\ UNCHANGED <<clientVars, mainVars, registry, protocol, writer, requests,
                   engineVars, outbound, received>>

\* The write lock, the removal, and the end of the task with its engine_tx.
Leave(c) ==
    /\ Running
    /\ reader[c] = "leave"
    /\ registry' = registry \ {c}
    /\ reader' = [reader EXCEPT ![c] = "done"]
    /\ UNCHANGED <<clientVars, mainVars, protocol, writer, requests, engineVars,
                   outbound, received>>

-----------------------------------------------------------------------------
(* The engine task.                                                        *)

Process ==
    /\ Running
    /\ engine = "recv"
    /\ requests # <<>>
    /\ current' = Head(requests)
    /\ requests' = Tail(requests)
    /\ engine' = "reply"
    /\ UNCHANGED <<clientVars, mainVars, registry, taskVars, outbound, received,
                   log>>

\* process_message panics: the task is gone and with it the channel's receiver.
Panic ==
    /\ Running
    /\ engine = "recv"
    /\ requests # <<>>
    /\ engine' = "dead"
    /\ requests' = <<>>
    /\ UNCHANGED <<clientVars, mainVars, registry, taskVars, outbound, received,
                   current, log>>

\* Mutant: the client that asked is left out.
BroadcastOthers ==
    /\ Running
    /\ engine = "reply"
    /\ outbound' = [c \in Clients |->
                      IF c \in registry \ {current.client} /\ writer[c] = "run"
                      THEN Append(outbound[c], current) ELSE outbound[c]]
    /\ log' = Append(log, current)
    /\ current' = NoMessage
    /\ engine' = "recv"
    /\ UNCHANGED <<clientVars, mainVars, registry, taskVars, requests, received>>

\* The loop over the registry under the read lock.  A connection whose writer
\* has ended has dropped its receiver: the send fails and is only logged.
Broadcast ==
    /\ Running
    /\ engine = "reply"
    /\ outbound' = [c \in Clients |->
                      IF c \in registry /\ writer[c] = "run"
                      THEN Append(outbound[c], current) ELSE outbound[c]]
    /\ log' = Append(log, current)
    /\ current' = NoMessage
    /\ engine' = "recv"
    /\ UNCHANGED <<clientVars, mainVars, registry, taskVars, requests, received>>

\* recv() returns None.
EngineFinish ==
    /\ Running
    /\ engine = "recv"
    /\ requests = <<>>
    /\ ~SenderLeft
    /\ engine' = "done"
    /\ UNCHANGED <<clientVars, mainVars, registry, taskVars, requests, outbound,
                   received, current, log>>

-----------------------------------------------------------------------------
(* The writer task of a connection.                                        *)

Write(c) ==
    /\ Running
    /\ writer[c] = "run"
    /\ outbound[c] # <<>>
    /\ outbound' = [outbound EXCEPT ![c] = Tail(@)]
    /\ received' = IF peer[c] = "gone" THEN received
                   ELSE [received EXCEPT ![c] = Append(@, Head(outbound[c]))]
    /\ UNCHANGED <<clientVars, mainVars, registry, taskVars, requests, engineVars>>

\* A write to a connection that is gone fails, sooner or later.
WriteError(c) ==
    /\ Running
    /\ writer[c] = "run"
    /\ outbound[c] # <<>>
    /\ peer[c] = "gone"
    /\ outbound' = [outbound EXCEPT ![c] = <<>>]
    /\ writer' = [writer EXCEPT ![c] = "done"]
    /\ UNCHANGED <<clientVars, mainVars, registry, protocol, reader, requests,
                   engineVars, received>>

\* Mutant: try_recv for recv, the task ends when there is nothing to write.
WriterFinishIdle(c) ==
    /\ Running
    /\ writer[c] = "run"
    /\ outbound[c] = <<>>
    /\ writer' = [writer EXCEPT ![c] = "done"]
    /\ UNCHANGED <<clientVars, mainVars, registry, protocol, reader, requests,
                   engineVars, outbound, received>>

\* The registry's sender is gone and the channel is drained.
WriterFinish(c) ==
    /\ Running
    /\ writer[c] = "run"
    /\ outbound[c] = <<>>
    /\ c \notin registry
    /\ writer' = [writer EXCEPT ![c] = "done"]
    /\ UNCHANGED <<clientVars, mainVars, registry, protocol, reader, requests,
                   engineVars, outbound, received>>

-----------------------------------------------------------------------------

ClientNext(c) ==
    \/ Connect(c)
    \/ \E valid \in BOOLEAN : Send(c, valid)
    \/ CloseSending(c)
    \/ Disconnect(c)

ReaderNext(c) == ReadMessage(c) \/ ReadEnd(c) \/ Leave(c)

WriterNext(c) == Write(c) \/ WriteError(c) \/ WriterFinish(c)

EngineNext == Process \/ Broadcast \/ EngineFinish

MainNext ==
    \/ \E c \in Clients : Accept(c)
    \/ \E p \in Protocols : Register(p)
    \/ AcceptAgain
    \/ ClearRegistry
    \/ Exit

Next ==
    \/ \E c \in Clients : ClientNext(c) \/ ReaderNext(c) \/ WriterNext(c)
    \/ EngineNext
    \/ Panic
    \/ MainNext
    \/ AcceptError
    \/ CtrlC

\* tokio runs every task that is ready.  Clients owe nothing, the operator need
\* not press Ctrl+C and the engine need not panic.
Fairness ==
    /\ \A c \in Clients : WF_vars(ReaderNext(c)) /\ WF_vars(WriterNext(c))
    /\ WF_vars(EngineNext)
    /\ WF_vars(MainNext)

Spec == Init /\ [][Next]_vars /\ Fairness

-----------------------------------------------------------------------------
(* Properties.                                                             *)

\* max_clients bounds the registry although it is checked under one lock and
\* the insertion happens under another.
RegistryBounded == Cardinality(registry) <= MaxClients

\* Until shutdown the registry holds exactly the connections whose reader is
\* alive: no connection that still talks to the engine is left out of the
\* broadcasts, and none stays after its task has ended.
RegistryIsReaders ==
    Serving =>
        registry = {c \in Clients : reader[c] \in {"run", "leave"}}

Pending(c) == received[c] \o outbound[c]

\* Every client sees one and the same stream: from the moment it is registered
\* it gets the engine's outputs in order, with no gap and no repetition, and
\* as long as it is registered it is owed every one of them.
OneStream ==
    \A c \in Clients :
        LET seen == Len(Pending(c))
        IN  peer[c] # "gone" =>
              /\ joined[c] + seen <= Len(log)
              /\ Pending(c) = SubSeq(log, joined[c] + 1, joined[c] + seen)
              /\ c \in registry => joined[c] + seen = Len(log)

From(c, messages) == Only(messages, {m \in ToSet(messages) : m.client = c})

Current == IF current = NoMessage THEN <<>> ELSE <<current>>

Valid(messages) == Only(messages, {m \in ToSet(messages) : m.valid})

\* What the reader of a connection has passed on, oldest first.
Forwarded(c) == From(c, log \o Current \o requests)

\* The valid messages of one client reach the engine exactly once and in the
\* order in which it sent them, whatever the other clients and the engine do
\* meanwhile; once the engine is dead they are lost from the end only.
ExactlyOnceInOrder ==
    \A c \in Clients :
        /\ IsPrefix(Forwarded(c), Valid(sent[c]))
        /\ ChannelOpen => Forwarded(c) \o Valid(wire[c]) = Valid(sent[c])

\* A client that stays connected and whose reader is alive gets the answer to
\* a message the server has read, unless the engine or the server goes down.
Answered ==
    \A c \in Clients : \A n \in 1..MaxMessages :
        LET asked    == \E i \in DOMAIN requests :
                           requests[i].client = c /\ requests[i].n = n
            answered == \E i \in DOMAIN received[c] :
                           received[c][i].client = c /\ received[c][i].n = n
        IN  asked ~> \/ answered
                     \/ peer[c] # "connected"
                     \/ reader[c] = "done"
                     \/ engine = "dead"
                     \/ ~Serving

\* A shutdown is graceful once no client is left: when every connection's task
\* has ended before Ctrl+C, or ends during the sleep, the engine task answers
\* what is queued and ends, if the sleep is long enough.
StopsWhenAlone ==
    PatientExit =>
        ((main \in {"drain", "sleep"} /\ \A c \in Clients : reader[c] \in {"none", "done"})
            ~> engine \in {"done", "dead"})

-----------------------------------------------------------------------------
(* What the documents say and the code does not do.                        *)

\* README.md: after Ctrl+C the engine task ends and prints its statistics;
\* server.rs: "Drop engine_tx so engine loop can finish and print stats."
StatsPrinted == main = "drain" ~> engine \in {"done", "dead"}
=============================================================================
