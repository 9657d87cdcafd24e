-------------------------- MODULE EngineServerProofs --------------------------
(***************************************************************************)
(* What EngineServer satisfies for every set of connections, every         *)
(* max_clients, every number of messages and both answers to PatientExit.  *)
(***************************************************************************)
EXTENDS EngineServer, FoldProofs

Alive == {c \in Clients : reader[c] \in {"run", "leave"}}

\* The main task is about to insert a connection that it has counted, and
\* that no other task knows of.
Reserved ==
    main = "register" =>
        /\ accepting \in Clients
        /\ reader[accepting] = "none"
        /\ Cardinality(registry) < MaxClients

\* What makes the two claims about the registry inductive.  The tasks of a
\* connection are spawned by the main task and by nobody else, and a reader
\* is the only one to remove its connection.
RegistryInv ==
    /\ reader \in [Clients -> {"none", "run", "leave", "done"}]
    /\ registry \subseteq Alive
    /\ IsFiniteSet(registry)
    /\ Cardinality(registry) <= MaxClients
    /\ Serving => registry = Alive
    /\ Reserved

\* A step of the main task that leaves the registry and the readers alone and
\* does not go to "register".
MainMoves ==
    /\ UNCHANGED <<registry, reader>>
    /\ main' # "register"
    /\ Serving' => Serving

LEMMA InitRegistryInv == Init => RegistryInv
<1> SUFFICES ASSUME Init PROVE RegistryInv
  OBVIOUS
<1>1. IsFiniteSet({}) /\ Cardinality({}) = 0
  BY FS_EmptySet
<1> QED
  BY <1>1, EngineServerAssumption DEF Init, RegistryInv, Reserved, Serving, Alive

\* Steps of the other tasks that concern neither the registry nor a reader.
LEMMA OthersKeepRegistryInv ==
    ASSUME RegistryInv, UNCHANGED <<registry, reader, main, accepting>>
    PROVE  RegistryInv'
BY DEF RegistryInv, Reserved, Serving, Alive

LEMMA MainMovesKeepsRegistryInv ==
    ASSUME RegistryInv, MainMoves
    PROVE  RegistryInv'
BY DEF RegistryInv, MainMoves, Reserved, Serving, Alive

LEMMA AcceptKeepsRegistryInv ==
    ASSUME RegistryInv, NEW c \in Clients, Accept(c)
    PROVE  RegistryInv'
<1>1. main = "accept" /\ reader[c] = "none" /\ c # accepting
  BY DEF Accept, Backlog
<1>2. Cardinality(registry) \in Nat
  BY FS_CardinalityType DEF RegistryInv
<1>3. CASE Cardinality(registry) >= MaxClients
  <2>1. reader' = [reader EXCEPT ![c] = "done"] /\ UNCHANGED <<registry, main>>
    BY <1>3 DEF Accept
  <2>2. Alive' = Alive
    BY <1>1, <2>1 DEF Alive, RegistryInv
  <2> QED
    BY <1>1, <2>1, <2>2 DEF RegistryInv, Reserved, Serving
<1>4. CASE ~(Cardinality(registry) >= MaxClients)
  <2>1. /\ main' = "register" /\ accepting' = c
        /\ UNCHANGED <<registry, reader>>
    BY <1>4 DEF Accept
  <2>2. Cardinality(registry) < MaxClients
    BY <1>2, <1>4, EngineServerAssumption
  <2> QED
    BY <1>1, <2>1, <2>2 DEF RegistryInv, Reserved, Serving, Alive
<1> QED
  BY <1>3, <1>4

LEMMA RegisterKeepsRegistryInv ==
    ASSUME RegistryInv, NEW p \in Protocols, Register(p)
    PROVE  RegistryInv'
<1>1. /\ accepting \in Clients /\ reader[accepting] = "none"
      /\ Cardinality(registry) < MaxClients
      /\ registry = Alive
  BY DEF Register, RegistryInv, Reserved, Serving
<1>2. /\ registry' = registry \cup {accepting}
      /\ reader' = [reader EXCEPT ![accepting] = "run"]
      /\ main' = "accept"
  BY DEF Register
<1>3. accepting \notin registry
  BY <1>1 DEF Alive
<1>4. /\ IsFiniteSet(registry') /\ Cardinality(registry') = Cardinality(registry) + 1
  BY <1>2, <1>3, FS_AddElement DEF RegistryInv
<1>5. Cardinality(registry') <= MaxClients
  BY <1>1, <1>4, FS_CardinalityType, EngineServerAssumption DEF RegistryInv
<1>6. Alive' = Alive \cup {accepting}
  BY <1>1, <1>2 DEF Alive, RegistryInv
<1> QED
  BY <1>1, <1>2, <1>4, <1>5, <1>6 DEF RegistryInv, Reserved

LEMMA LeaveKeepsRegistryInv ==
    ASSUME RegistryInv, NEW c \in Clients, Leave(c)
    PROVE  RegistryInv'
<1>1. /\ reader[c] = "leave"
      /\ registry' = registry \ {c}
      /\ reader' = [reader EXCEPT ![c] = "done"]
      /\ UNCHANGED <<main, accepting>>
  BY DEF Leave, mainVars
<1>2. IsFiniteSet(registry') /\ Cardinality(registry') <= Cardinality(registry)
  BY <1>1, FS_Subset DEF RegistryInv
<1>3. Cardinality(registry) \in Nat /\ Cardinality(registry') \in Nat
  BY <1>2, FS_CardinalityType DEF RegistryInv
<1>4. Cardinality(registry') <= MaxClients
  BY <1>2, <1>3, EngineServerAssumption DEF RegistryInv
<1>5. Alive' = Alive \ {c}
  BY <1>1 DEF Alive, RegistryInv
<1>6. Reserved'
  BY <1>1, <1>2, <1>3, EngineServerAssumption DEF RegistryInv, Reserved
<1> QED
  BY <1>1, <1>2, <1>4, <1>5, <1>6 DEF RegistryInv, Serving

LEMMA ClearKeepsRegistryInv ==
    ASSUME RegistryInv, ClearRegistry
    PROVE  RegistryInv'
<1>1. registry' = {} /\ main' = "sleep" /\ UNCHANGED reader
  BY DEF ClearRegistry, taskVars
<1>2. IsFiniteSet({}) /\ Cardinality({}) = 0
  BY FS_EmptySet
<1> QED
  BY <1>1, <1>2, EngineServerAssumption DEF RegistryInv, Reserved, Serving

LEMMA ReaderKeepsRegistryInv ==
    ASSUME RegistryInv, NEW c \in Clients, ReadMessage(c) \/ ReadEnd(c)
    PROVE  RegistryInv'
<1>1. /\ reader[c] = "run"
      /\ reader' = reader \/ reader' = [reader EXCEPT ![c] = "leave"]
      /\ UNCHANGED <<registry, main, accepting>>
  BY DEF ReadMessage, ReadEnd, mainVars
<1>2. Alive' = Alive
  BY <1>1 DEF Alive, RegistryInv
<1> QED
  BY <1>1, <1>2 DEF RegistryInv, Reserved, Serving

LEMMA NextRegistryInv == RegistryInv /\ [Next]_vars => RegistryInv'
<1> SUFFICES ASSUME RegistryInv, [Next]_vars PROVE RegistryInv'
  OBVIOUS
<1>1. ASSUME NEW c \in Clients, ClientNext(c) PROVE RegistryInv'
  BY <1>1, OthersKeepRegistryInv
     DEF ClientNext, Connect, Send, CloseSending, Disconnect, mainVars, taskVars
<1>2. ASSUME NEW c \in Clients, ReaderNext(c) PROVE RegistryInv'
  BY <1>2, ReaderKeepsRegistryInv, LeaveKeepsRegistryInv DEF ReaderNext
<1>3. ASSUME NEW c \in Clients, WriterNext(c) PROVE RegistryInv'
  BY <1>3, OthersKeepRegistryInv
     DEF WriterNext, Write, WriteError, WriterFinish, mainVars, taskVars
<1>4. CASE EngineNext \/ Panic
  BY <1>4, OthersKeepRegistryInv
     DEF EngineNext, Process, Broadcast, EngineFinish, Panic, mainVars, taskVars
<1>5. CASE MainNext
  <2>1. ASSUME NEW c \in Clients, Accept(c) PROVE RegistryInv'
    BY <2>1, AcceptKeepsRegistryInv
  <2>2. ASSUME NEW p \in Protocols, Register(p) PROVE RegistryInv'
    BY <2>2, RegisterKeepsRegistryInv
  <2>3. CASE ClearRegistry
    BY <2>3, ClearKeepsRegistryInv
  <2>4. CASE AcceptAgain \/ Exit
    BY <2>4, MainMovesKeepsRegistryInv
       DEF AcceptAgain, Exit, MainMoves, Serving, taskVars
  <2> QED
    BY <1>5, <2>1, <2>2, <2>3, <2>4 DEF MainNext
<1>6. CASE AcceptError \/ CtrlC
  BY <1>6, MainMovesKeepsRegistryInv
     DEF AcceptError, CtrlC, MainMoves, Serving, taskVars
<1>7. CASE UNCHANGED vars
  BY <1>7, OthersKeepRegistryInv DEF vars, mainVars, taskVars
<1> QED
  BY <1>1, <1>2, <1>3, <1>4, <1>5, <1>6, <1>7 DEF Next

LEMMA RegistryInvHolds == Spec => []RegistryInv
BY InitRegistryInv, NextRegistryInv, PTL DEF Spec

\* However many connections come, go, and break off while another is between
\* the check under the read lock and the insertion under the write lock,
\* max_clients is never exceeded.
THEOREM LimitKept == Spec => []RegistryBounded
<1>1. RegistryInv => RegistryBounded
  BY DEF RegistryInv, RegistryBounded
<1> QED
  BY <1>1, RegistryInvHolds, PTL

\* Until shutdown the engine broadcasts to the connections whose reader is
\* alive and to no others.
THEOREM RegistryExact == Spec => []RegistryIsReaders
<1>1. RegistryInv => RegistryIsReaders
  BY DEF RegistryInv, RegistryIsReaders, Alive
<1> QED
  BY <1>1, RegistryInvHolds, PTL

-----------------------------------------------------------------------------
(* A part of a sequence in two pieces.                                     *)

\* got and queue together are what stands in all behind the first from replies,
\* one reply at a time.
IsStream(from, got, queue, all) ==
    /\ from + Len(got) + Len(queue) <= Len(all)
    /\ \A i \in 1..Len(got) : got[i] = all[from + i]
    /\ \A i \in 1..Len(queue) : queue[i] = all[from + Len(got) + i]

\* A reply that goes from the head of queue to the end of got.
LEMMA StreamMovesBy ==
    ASSUME NEW from \in Nat, NEW got, NEW queue, NEW all, NEW got2, NEW queue2,
           IsStream(from, got, queue, all),
           Len(got) \in Nat, Len(queue) \in Nat \ {0}, Len(all) \in Nat,
           Len(got2) = Len(got) + 1, Len(queue2) = Len(queue) - 1,
           \A i \in 1..Len(got) : got2[i] = got[i],
           got2[Len(got) + 1] = queue[1],
           \A i \in 1..(Len(queue) - 1) : queue2[i] = queue[i + 1]
    PROVE  IsStream(from, got2, queue2, all)
<1>1. \A i \in 1..Len(got2) : got2[i] = all[from + i]
  <2> SUFFICES ASSUME NEW i \in 1..Len(got2) PROVE got2[i] = all[from + i]
    OBVIOUS
  <2>1. CASE i \in 1..Len(got)
    BY <2>1 DEF IsStream
  <2>2. CASE i = Len(got) + 1
    <3>1. queue[1] = all[from + Len(got) + 1]
      BY DEF IsStream
    <3>2. from + Len(got) + 1 = from + i
      BY <2>2
    <3> QED
      BY <2>2, <3>1, <3>2
  <2> QED
    BY <2>1, <2>2
<1>2. \A i \in 1..Len(queue2) : queue2[i] = all[from + Len(got2) + i]
  BY DEF IsStream
<1>3. from + Len(got2) + Len(queue2) <= Len(all)
  BY DEF IsStream
<1> QED
  BY <1>1, <1>2, <1>3 DEF IsStream

LEMMA StreamMoves ==
    ASSUME NEW M, NEW from \in Nat, NEW got \in Seq(M), NEW queue \in Seq(M),
           NEW all \in Seq(M), IsStream(from, got, queue, all), queue # <<>>
    PROVE  /\ IsStream(from, Append(got, Head(queue)), Tail(queue), all)
           /\ Len(Append(got, Head(queue))) + Len(Tail(queue)) = Len(got) + Len(queue)
<1> DEFINE got2 == Append(got, Head(queue))
           queue2 == Tail(queue)
<1>1. /\ Len(got) \in Nat /\ Len(queue) \in Nat \ {0} /\ Len(all) \in Nat
      /\ Len(got2) = Len(got) + 1 /\ Len(queue2) = Len(queue) - 1
      /\ \A i \in 1..Len(got) : got2[i] = got[i]
      /\ got2[Len(got) + 1] = queue[1]
      /\ \A i \in 1..(Len(queue) - 1) : queue2[i] = queue[i + 1]
  OBVIOUS
<1> HIDE DEF got2, queue2
<1>2. IsStream(from, got2, queue2, all)
  BY <1>1, StreamMovesBy
<1>3. Len(got2) + Len(queue2) = Len(got) + Len(queue)
  BY <1>1
<1> QED
  BY <1>2, <1>3 DEF got2, queue2

LEMMA StreamGrowsBy ==
    ASSUME NEW from \in Nat, NEW got, NEW queue, NEW all, NEW reply, NEW all2, NEW queue2,
           IsStream(from, got, queue, all),
           Len(got) \in Nat, Len(queue) \in Nat, Len(all) \in Nat,
           Len(all2) = Len(all) + 1, Len(queue2) = Len(queue) + 1,
           \A i \in 1..Len(all) : all2[i] = all[i],
           \A i \in 1..Len(queue) : queue2[i] = queue[i],
           all2[Len(all) + 1] = reply, queue2[Len(queue) + 1] = reply
    PROVE  /\ IsStream(from, got, queue, all2)
           /\ from + Len(got) + Len(queue) = Len(all) =>
                IsStream(from, got, queue2, all2)
<1>1. from + Len(got) + Len(queue) <= Len(all)
  BY DEF IsStream
<1>2. ASSUME NEW i \in 1..Len(got) PROVE got[i] = all2[from + i]
  <2>1. got[i] = all[from + i] /\ from + i \in 1..Len(all)
    BY <1>1 DEF IsStream
  <2> QED
    BY <2>1
<1>3. ASSUME NEW i \in 1..Len(queue)
      PROVE  queue[i] = all2[from + Len(got) + i]
  <2>1. queue[i] = all[from + Len(got) + i] /\ from + Len(got) + i \in 1..Len(all)
    BY <1>1 DEF IsStream
  <2> QED
    BY <2>1
<1>4. IsStream(from, got, queue, all2)
  BY <1>1, <1>2, <1>3 DEF IsStream
<1>5. ASSUME from + Len(got) + Len(queue) = Len(all),
             NEW i \in 1..Len(queue2)
      PROVE  queue2[i] = all2[from + Len(got) + i]
  <2>1. CASE i \in 1..Len(queue)
    BY <2>1, <1>3
  <2>2. CASE i = Len(queue) + 1
    <3>1. from + Len(got) + i = Len(all) + 1
      BY <1>5, <2>2
    <3> QED
      BY <2>2, <3>1
  <2> QED
    BY <2>1, <2>2
<1>6. from + Len(got) + Len(queue) = Len(all) =>
         from + Len(got) + Len(queue2) <= Len(all2)
  OBVIOUS
<1> QED
  BY <1>2, <1>4, <1>5, <1>6 DEF IsStream

\* A reply that comes to the end of all, and of queue if that was there.
LEMMA StreamGrows ==
    ASSUME NEW M, NEW from \in Nat, NEW got \in Seq(M), NEW queue \in Seq(M),
           NEW all \in Seq(M), NEW reply \in M, IsStream(from, got, queue, all)
    PROVE  /\ IsStream(from, got, queue, Append(all, reply))
           /\ from + (Len(got) + Len(queue)) = Len(all) =>
                /\ IsStream(from, got, Append(queue, reply), Append(all, reply))
                /\ from + (Len(got) + Len(Append(queue, reply)))
                     = Len(Append(all, reply))
<1> DEFINE all2 == Append(all, reply)
           queue2 == Append(queue, reply)
<1>1. /\ Len(got) \in Nat /\ Len(queue) \in Nat /\ Len(all) \in Nat
      /\ Len(all2) = Len(all) + 1 /\ Len(queue2) = Len(queue) + 1
      /\ \A i \in 1..Len(all) : all2[i] = all[i]
      /\ \A i \in 1..Len(queue) : queue2[i] = queue[i]
      /\ all2[Len(all) + 1] = reply /\ queue2[Len(queue) + 1] = reply
  OBVIOUS
<1> HIDE DEF all2, queue2
<1>2. ASSUME from + (Len(got) + Len(queue)) = Len(all)
      PROVE  /\ from + Len(got) + Len(queue) = Len(all)
             /\ from + (Len(got) + Len(queue2)) = Len(all2)
  BY <1>1, <1>2
<1>3. /\ IsStream(from, got, queue, all2)
      /\ from + Len(got) + Len(queue) = Len(all) => IsStream(from, got, queue2, all2)
  BY <1>1, StreamGrowsBy
<1> QED
  BY <1>2, <1>3 DEF all2, queue2

LEMMA StreamElement ==
    ASSUME NEW from \in Nat, NEW got, NEW queue, NEW all,
           IsStream(from, got, queue, all), Len(got) \in Nat, Len(queue) \in Nat,
           NEW i \in 1..(Len(got) + Len(queue))
    PROVE  (IF i <= Len(got) THEN got[i] ELSE queue[i - Len(got)]) = all[from + i]
<1>1. CASE i <= Len(got)
  <2>1. i \in 1..Len(got)
    BY <1>1
  <2>2. got[i] = all[from + i]
    BY <2>1 DEF IsStream
  <2> QED
    BY <1>1, <2>2
<1>2. CASE ~(i <= Len(got))
  <2>1. i - Len(got) \in 1..Len(queue)
        /\ from + Len(got) + (i - Len(got)) = from + i
    BY <1>2
  <2> DEFINE k == i - Len(got)
  <2>2. queue[k] = all[from + Len(got) + k]
    BY <2>1 DEF IsStream
  <2> QED
    BY <1>2, <2>1, <2>2
<1> QED
  BY <1>1, <1>2

\* The definition reply by reply and the one in OneStream agree.
LEMMA StreamIsSubSeq ==
    ASSUME NEW M, NEW from \in Nat, NEW got \in Seq(M), NEW queue \in Seq(M),
           NEW all \in Seq(M), IsStream(from, got, queue, all)
    PROVE  LET seen == Len(got \o queue)
           IN  /\ seen = Len(got) + Len(queue)
               /\ from + seen <= Len(all)
               /\ got \o queue = SubSeq(all, from + 1, from + seen)
<1> DEFINE both == got \o queue
           n == Len(got) + Len(queue)
           part == SubSeq(all, from + 1, from + n)
<1>1. Len(got) \in Nat /\ Len(queue) \in Nat /\ Len(all) \in Nat /\ n \in Nat
  OBVIOUS
<1>2. /\ both \in Seq(M) /\ Len(both) = n
      /\ \A i \in 1..n :
           both[i] = IF i <= Len(got) THEN got[i] ELSE queue[i - Len(got)]
  BY ConcatProperties
<1>3. from + n <= Len(all)
  BY <1>1 DEF IsStream
<1>4. \A i \in (from + 1)..(from + n) : all[i] \in M
  BY <1>1, <1>3
<1>5. /\ part \in Seq(M) /\ Len(part) = IF from + 1 <= from + n THEN n ELSE 0
      /\ \A i \in 1..n : part[i] = all[from + 1 + i - 1]
  BY <1>1, <1>4, SubSeqProperties
<1>6. Len(part) = n
  BY <1>1, <1>5
<1>7. ASSUME NEW i \in 1..n PROVE both[i] = part[i]
  <2>1. both[i] = all[from + i]
    BY <1>1, <1>2, StreamElement
  <2>2. from + 1 + i - 1 = from + i
    BY <1>1
  <2> QED
    BY <1>5, <2>1, <2>2
<1> HIDE DEF both, part, n
<1>8. both = part
  BY <1>2, <1>5, <1>6, <1>7, SeqEqual
<1> QED
  BY <1>2, <1>3, <1>8 DEF both, part, n

-----------------------------------------------------------------------------
(* One stream for all clients.                                             *)

MessageType == [client : Clients, n : Nat, valid : BOOLEAN]

StreamTypes ==
    /\ wire \in [Clients -> Seq(MessageType)]
    /\ sent \in [Clients -> Seq(MessageType)]
    /\ requests \in Seq(MessageType)
    /\ log \in Seq(MessageType)
    /\ engine = "reply" => current \in MessageType
    /\ outbound \in [Clients -> Seq(MessageType)]
    /\ received \in [Clients -> Seq(MessageType)]
    /\ joined \in [Clients -> Nat]
    /\ peer \in [Clients -> {"new", "connected", "half", "gone"}]
    /\ writer \in [Clients -> {"none", "run", "done"}]

\* What OneStream says of a connection.  Nothing waits for a connection without
\* tasks, and a connection that is registered has a writer as long as its
\* client is there.
StreamOf(c) ==
    /\ joined[c] <= Len(log)
    /\ reader[c] = "none" => received[c] = <<>> /\ outbound[c] = <<>>
    /\ peer[c] # "gone" =>
         /\ IsStream(joined[c], received[c], outbound[c], log)
         /\ c \in registry =>
              /\ writer[c] = "run"
              /\ joined[c] + (Len(received[c]) + Len(outbound[c])) = Len(log)

StreamInv == RegistryInv /\ StreamTypes /\ \A c \in Clients : StreamOf(c)

LEMMA InitStreamInv == Init => StreamInv
<1> SUFFICES ASSUME Init PROVE StreamInv
  OBVIOUS
<1>1. RegistryInv
  BY InitRegistryInv
<1>2. StreamTypes
  BY DEF Init, StreamTypes, NoMessage
<1>3. ASSUME NEW c \in Clients PROVE StreamOf(c)
  <2>1. /\ joined[c] = 0 /\ log = <<>> /\ received[c] = <<>> /\ outbound[c] = <<>>
        /\ registry = {}
    BY DEF Init
  <2>2. IsStream(0, <<>>, <<>>, <<>>)
    BY DEF IsStream
  <2> QED
    BY <2>1, <2>2 DEF StreamOf
<1> QED
  BY <1>1, <1>2, <1>3 DEF StreamInv

LEMMA QueueUpdate ==
    ASSUME NEW queue \in [Clients -> Seq(MessageType)],
           NEW c, NEW value \in Seq(MessageType)
    PROVE  [queue EXCEPT ![c] = value] \in [Clients -> Seq(MessageType)]
OBVIOUS

LEMMA NextStreamTypes ==
    ASSUME StreamTypes, [Next]_vars
    PROVE  StreamTypes'
<1>1. ASSUME NEW c \in Clients, Connect(c) \/ CloseSending(c) \/ Disconnect(c)
      PROVE  StreamTypes'
  BY <1>1 DEF StreamTypes, Connect, CloseSending, Disconnect, mainVars,
              taskVars, engineVars
<1>2. ASSUME NEW c \in Clients, NEW valid \in BOOLEAN, Send(c, valid)
      PROVE  StreamTypes'
  <2> DEFINE message == [client |-> c, n |-> Len(sent[c]) + 1, valid |-> valid]
  <2>1. message \in MessageType
    BY DEF MessageType, StreamTypes
  <2>2. /\ sent' = [sent EXCEPT ![c] = Append(@, message)]
        /\ wire' = [wire EXCEPT ![c] = Append(@, message)]
        /\ UNCHANGED <<requests, engine, current, log, outbound, received,
                       joined, peer, writer>>
    BY <1>2 DEF Send, mainVars, taskVars, engineVars
  <2> HIDE DEF message
  <2> QED
    BY <2>1, <2>2 DEF StreamTypes
<1>3. ASSUME NEW c \in Clients, ReadMessage(c) PROVE StreamTypes'
  <2>0. requests' = Append(requests, Head(wire[c])) \/ requests' = requests
    BY <1>3 DEF ReadMessage
  <2>1. /\ wire' = [wire EXCEPT ![c] = Tail(@)]
        /\ wire[c] # <<>>
        /\ UNCHANGED <<sent, engine, current, log, outbound, received, joined,
                       peer, writer>>
    BY <1>3 DEF ReadMessage, mainVars, engineVars
  <2>2. Head(wire[c]) \in MessageType /\ Tail(wire[c]) \in Seq(MessageType)
    BY <2>1 DEF StreamTypes
  <2>3. wire' \in [Clients -> Seq(MessageType)]
    BY <2>1, <2>2, QueueUpdate DEF StreamTypes
  <2>4. requests \in Seq(MessageType)
    BY DEF StreamTypes
  <2>5. Append(requests, Head(wire[c])) \in Seq(MessageType)
    BY <2>2, <2>4
  <2>6. requests' \in Seq(MessageType)
    BY <2>0, <2>4, <2>5
  <2> QED
    BY <2>1, <2>3, <2>6 DEF StreamTypes
<1>4. ASSUME NEW c \in Clients, ReadEnd(c) \/ Leave(c) PROVE StreamTypes'
  BY <1>4 DEF StreamTypes, ReadEnd, Leave, clientVars, mainVars, engineVars
<1>5. ASSUME NEW c \in Clients, Write(c) PROVE StreamTypes'
  <2>1. /\ outbound' = [outbound EXCEPT ![c] = Tail(@)]
        /\ \/ received' = received
           \/ received' = [received EXCEPT ![c] = Append(@, Head(outbound[c]))]
        /\ outbound[c] # <<>>
        /\ UNCHANGED <<clientVars, mainVars, taskVars, engineVars, requests>>
    BY <1>5 DEF Write
  <2>2. Head(outbound[c]) \in MessageType /\ Tail(outbound[c]) \in Seq(MessageType)
    BY <2>1 DEF StreamTypes
  <2>3. outbound' \in [Clients -> Seq(MessageType)]
    BY <2>1, <2>2, QueueUpdate DEF StreamTypes
  <2>4. Append(received[c], Head(outbound[c])) \in Seq(MessageType)
    BY <2>2 DEF StreamTypes
  <2>5. received' \in [Clients -> Seq(MessageType)]
    BY <2>1, <2>4, QueueUpdate DEF StreamTypes
  <2> QED
    BY <2>1, <2>3, <2>5 DEF StreamTypes, clientVars, mainVars, taskVars, engineVars
<1>6. ASSUME NEW c \in Clients, WriteError(c) \/ WriterFinish(c)
      PROVE  StreamTypes'
  <2>1. /\ outbound' = outbound \/ outbound' = [outbound EXCEPT ![c] = <<>>]
        /\ writer' = [writer EXCEPT ![c] = "done"]
        /\ UNCHANGED <<wire, sent, requests, engine, current, log, received,
                       joined, peer>>
    BY <1>6 DEF WriteError, WriterFinish, clientVars, mainVars, engineVars
  <2>2. <<>> \in Seq(MessageType)
    OBVIOUS
  <2>3. outbound' \in [Clients -> Seq(MessageType)]
    BY <2>1, <2>2, QueueUpdate DEF StreamTypes
  <2> QED
    BY <2>1, <2>3 DEF StreamTypes
<1>7. CASE Process
  <2>1. /\ requests # <<>> /\ current' = Head(requests)
        /\ requests' = Tail(requests)
        /\ UNCHANGED <<clientVars, mainVars, taskVars, outbound, received, log>>
    BY <1>7 DEF Process
  <2>2. Head(requests) \in MessageType /\ Tail(requests) \in Seq(MessageType)
    BY <2>1 DEF StreamTypes
  <2> QED
    BY <2>1, <2>2 DEF StreamTypes, clientVars, mainVars, taskVars
<1>8. CASE Broadcast
  <2>1. /\ current \in MessageType /\ engine' = "recv"
        /\ log' = Append(log, current)
        /\ outbound' = [c \in Clients |->
                          IF c \in registry /\ writer[c] = "run"
                          THEN Append(outbound[c], current) ELSE outbound[c]]
        /\ UNCHANGED <<clientVars, mainVars, taskVars, requests, received>>
    BY <1>8 DEF Broadcast, StreamTypes
  <2> QED
    BY <2>1 DEF StreamTypes, clientVars, mainVars, taskVars
<1>9. CASE Panic \/ EngineFinish
  <2>1. /\ requests' = requests \/ requests' = <<>>
        /\ engine' # "reply"
        /\ UNCHANGED <<wire, sent, log, outbound, received, joined, peer, writer>>
    BY <1>9 DEF Panic, EngineFinish, clientVars, mainVars, taskVars
  <2>2. <<>> \in Seq(MessageType)
    OBVIOUS
  <2>3. requests' \in Seq(MessageType)
    BY <2>1, <2>2 DEF StreamTypes
  <2> QED
    BY <2>1, <2>3 DEF StreamTypes
<1>10. ASSUME NEW c \in Clients, Accept(c) PROVE StreamTypes'
  BY <1>10 DEF StreamTypes, Accept, clientVars, engineVars
<1>11. ASSUME NEW p \in Protocols, Register(p) PROVE StreamTypes'
  <2>1. /\ writer' = [writer EXCEPT ![accepting] = "run"]
        /\ joined' = [joined EXCEPT ![accepting] = Len(log)]
        /\ UNCHANGED <<wire, sent, requests, engine, current, log, outbound,
                       received, peer>>
    BY <1>11 DEF Register, clientVars, engineVars
  <2>2. Len(log) \in Nat
    BY DEF StreamTypes
  <2>3. joined' \in [Clients -> Nat]
    BY <2>1, <2>2 DEF StreamTypes
  <2> QED
    BY <2>1, <2>3 DEF StreamTypes
<1>12. CASE \/ AcceptAgain \/ ClearRegistry \/ Exit \/ AcceptError \/ CtrlC
           \/ UNCHANGED vars
  BY <1>12 DEF StreamTypes, AcceptAgain, ClearRegistry, Exit, AcceptError, CtrlC,
               vars, clientVars, mainVars, taskVars, engineVars
<1> QED
  BY <1>1, <1>2, <1>3, <1>4, <1>5, <1>6, <1>7, <1>8, <1>9, <1>10, <1>11, <1>12
     DEF Next, ClientNext, ReaderNext, WriterNext, EngineNext, MainNext

\* A step that leaves the stream of a connection alone.  Its client may be
\* gone by it, and it may leave the registry.
StreamUntouched(c) ==
    /\ log' = log /\ joined'[c] = joined[c]
    /\ received'[c] = received[c] /\ outbound'[c] = outbound[c]
    /\ reader'[c] = "none" => reader[c] = "none"
    /\ peer[c] = "gone" => peer'[c] = "gone"
    /\ c \in registry' => c \in registry /\ writer'[c] = writer[c]

LEMMA UntouchedKeepsStream ==
    ASSUME NEW c \in Clients, StreamOf(c), StreamUntouched(c)
    PROVE  StreamOf(c)'
BY DEF StreamOf, StreamUntouched

LEMMA WriteKeepsStream ==
    ASSUME StreamInv, NEW c \in Clients, Write(c)
    PROVE  StreamOf(c)'
<1>1. /\ StreamOf(c) /\ joined[c] \in Nat /\ log \in Seq(MessageType)
      /\ received[c] \in Seq(MessageType) /\ outbound[c] \in Seq(MessageType)
  BY DEF StreamInv, StreamTypes
<1>2. /\ outbound[c] # <<>> /\ outbound'[c] = Tail(outbound[c])
      /\ peer[c] # "gone" => received'[c] = Append(received[c], Head(outbound[c]))
      /\ UNCHANGED <<log, joined, reader, writer, peer, registry>>
  BY DEF Write, StreamInv, StreamTypes, clientVars, mainVars, taskVars, engineVars
<1>3. reader[c] # "none"
  BY <1>1, <1>2 DEF StreamOf
<1>4. ASSUME peer[c] # "gone"
      PROVE  /\ IsStream(joined[c], received'[c], outbound'[c], log)
             /\ Len(received'[c]) + Len(outbound'[c])
                  = Len(received[c]) + Len(outbound[c])
  <2>1. IsStream(joined[c], received[c], outbound[c], log)
    BY <1>1, <1>4 DEF StreamOf
  <2> QED
    BY <1>1, <1>2, <1>4, <2>1, StreamMoves
<1>5. /\ Len(received'[c]) \in Nat /\ Len(outbound'[c]) \in Nat
      /\ Len(received[c]) \in Nat /\ Len(outbound[c]) \in Nat
  <2>1. StreamTypes /\ [Next]_vars
    BY DEF StreamInv, Next, WriterNext
  <2>2. StreamTypes'
    BY <2>1, NextStreamTypes
  <2>3. received'[c] \in Seq(MessageType) /\ outbound'[c] \in Seq(MessageType)
    BY <2>2 DEF StreamTypes
  <2> QED
    BY <1>1, <2>3
<1>6. /\ joined'[c] = joined[c] /\ log' = log /\ peer'[c] = peer[c]
      /\ registry' = registry /\ reader'[c] = reader[c]
      /\ c \in registry => writer'[c] = writer[c]
  BY <1>2
<1>7. /\ joined[c] <= Len(log)
      /\ peer[c] # "gone" /\ c \in registry =>
           /\ writer[c] = "run"
           /\ joined[c] + (Len(received[c]) + Len(outbound[c])) = Len(log)
  BY <1>1 DEF StreamOf
<1> QED
  BY <1>3, <1>4, <1>6, <1>7 DEF StreamOf

LEMMA BroadcastKeepsStream ==
    ASSUME StreamInv, NEW c \in Clients, Broadcast
    PROVE  StreamOf(c)'
<1>1. /\ StreamOf(c) /\ joined[c] \in Nat /\ log \in Seq(MessageType)
      /\ received[c] \in Seq(MessageType) /\ outbound[c] \in Seq(MessageType)
      /\ current \in MessageType
  BY DEF StreamInv, StreamTypes, Broadcast
<1>2. /\ outbound'[c] = IF c \in registry /\ writer[c] = "run"
                        THEN Append(outbound[c], current) ELSE outbound[c]
      /\ log' = Append(log, current)
      /\ UNCHANGED <<received, joined, reader, writer, peer, registry>>
  BY DEF Broadcast, clientVars, mainVars, taskVars
<1>3. /\ Len(log) \in Nat /\ Len(log') = Len(log) + 1
      /\ Len(received[c]) \in Nat /\ Len(outbound[c]) \in Nat
      /\ Len(Append(outbound[c], current)) = Len(outbound[c]) + 1
  BY <1>1, <1>2
<1>4. c \in registry => reader[c] # "none"
  BY DEF StreamInv, RegistryInv, Alive
<1>5. reader'[c] = "none" => received'[c] = <<>> /\ outbound'[c] = <<>>
  BY <1>1, <1>2, <1>4 DEF StreamOf
<1>6. ASSUME peer[c] # "gone", c \in registry
      PROVE  /\ IsStream(joined[c], received[c], outbound'[c], log')
             /\ joined[c] + (Len(received[c]) + Len(outbound'[c])) = Len(log')
  <2>1. /\ IsStream(joined[c], received[c], outbound[c], log)
        /\ writer[c] = "run"
        /\ joined[c] + (Len(received[c]) + Len(outbound[c])) = Len(log)
    BY <1>1, <1>6 DEF StreamOf
  <2>2. outbound'[c] = Append(outbound[c], current)
    BY <1>2, <1>6, <2>1
  <2>3. /\ IsStream(joined[c], received[c], Append(outbound[c], current),
                    Append(log, current))
        /\ joined[c] + (Len(received[c]) + Len(Append(outbound[c], current)))
             = Len(Append(log, current))
    <3> DEFINE from == joined[c]
               got == received[c]
               queue == outbound[c]
    <3>1. /\ from \in Nat /\ got \in Seq(MessageType) /\ queue \in Seq(MessageType)
          /\ log \in Seq(MessageType) /\ current \in MessageType
          /\ IsStream(from, got, queue, log)
          /\ from + (Len(got) + Len(queue)) = Len(log)
      BY <1>1, <2>1
    <3> HIDE DEF from, got, queue
    <3>2. /\ IsStream(from, got, Append(queue, current), Append(log, current))
          /\ from + (Len(got) + Len(Append(queue, current))) = Len(Append(log, current))
      BY <3>1, StreamGrows
    <3> QED
      BY <3>2 DEF from, got, queue
  <2> QED
    BY <1>2, <2>2, <2>3
<1>7. ASSUME peer[c] # "gone", c \notin registry
      PROVE  IsStream(joined[c], received[c], outbound'[c], log')
  <2>1. IsStream(joined[c], received[c], outbound[c], log)
    BY <1>1, <1>7 DEF StreamOf
  <2>2. outbound'[c] = outbound[c]
    BY <1>2, <1>7
  <2> QED
    BY <1>1, <1>2, <2>1, <2>2, StreamGrows
<1>8. joined[c] <= Len(log')
  BY <1>1, <1>3 DEF StreamOf
<1>9. c \in registry /\ peer[c] # "gone" => writer[c] = "run"
  BY <1>1 DEF StreamOf
<1> QED
  BY <1>2, <1>5, <1>6, <1>7, <1>8, <1>9 DEF StreamOf

\* The main task hands a connection its tasks and a place in the registry: its
\* stream begins with the next reply.
LEMMA RegisterKeepsStream ==
    ASSUME StreamInv, NEW c \in Clients, NEW p \in Protocols, Register(p)
    PROVE  StreamOf(c)'
<1>1. /\ StreamOf(c) /\ joined \in [Clients -> Nat] /\ Len(log) \in Nat
      /\ reader \in [Clients -> {"none", "run", "leave", "done"}]
      /\ writer \in [Clients -> {"none", "run", "done"}]
      /\ reader[accepting] = "none" /\ accepting \in Clients
  BY DEF StreamInv, StreamTypes, RegistryInv, Reserved, Register
<1>2. /\ registry' = registry \cup {accepting}
      /\ reader' = [reader EXCEPT ![accepting] = "run"]
      /\ writer' = [writer EXCEPT ![accepting] = "run"]
      /\ joined' = [joined EXCEPT ![accepting] = Len(log)]
      /\ UNCHANGED <<log, received, outbound, peer>>
  BY DEF Register, clientVars, engineVars
<1>3. CASE c = accepting
  <2>1. received[c] = <<>> /\ outbound[c] = <<>>
    BY <1>1, <1>3 DEF StreamOf
  <2>2. joined'[c] = Len(log) /\ reader'[c] = "run" /\ writer'[c] = "run"
    BY <1>1, <1>2, <1>3
  <2>3. IsStream(Len(log), <<>>, <<>>, log) /\ Len(log) + (0 + 0) = Len(log)
    BY <1>1 DEF IsStream
  <2> QED
    BY <1>1, <1>2, <2>1, <2>2, <2>3 DEF StreamOf
<1>4. CASE c # accepting
  <2>1. StreamUntouched(c)
    BY <1>1, <1>2, <1>4 DEF StreamUntouched
  <2> QED
    BY <1>1, <2>1, UntouchedKeepsStream
<1> QED
  BY <1>3, <1>4

LEMMA NextStreamInv == StreamInv /\ [Next]_vars => StreamInv'
<1> SUFFICES ASSUME StreamInv, [Next]_vars PROVE StreamInv'
  OBVIOUS
<1>1. RegistryInv' /\ StreamTypes'
  BY NextRegistryInv, NextStreamTypes DEF StreamInv
<1>2. ASSUME NEW c \in Clients PROVE StreamOf(c)'
  <2>1. StreamOf(c) /\ StreamTypes /\ RegistryInv
    BY DEF StreamInv
  <2>2. ASSUME StreamUntouched(c) PROVE StreamOf(c)'
    BY <2>1, <2>2, UntouchedKeepsStream
  <2>3. ASSUME NEW d \in Clients, ClientNext(d) PROVE StreamUntouched(c)
    BY <2>1, <2>3
       DEF StreamUntouched, StreamTypes, ClientNext, Connect, Send, CloseSending,
           Disconnect, mainVars, taskVars, engineVars
  <2>4. ASSUME NEW d \in Clients, ReaderNext(d) PROVE StreamUntouched(c)
    BY <2>1, <2>4
       DEF StreamUntouched, RegistryInv, ReaderNext, ReadMessage, ReadEnd, Leave,
           clientVars, mainVars, engineVars
  <2>5. ASSUME NEW d \in Clients, WriterNext(d) PROVE StreamOf(c)'
    <3>1. CASE Write(d) /\ c = d
      BY <3>1, WriteKeepsStream
    <3>2. CASE Write(d) /\ c # d
      <4>1. StreamUntouched(c)
        BY <2>1, <3>2 DEF StreamUntouched, StreamTypes, Write, clientVars,
                          mainVars, taskVars, engineVars
      <4> QED
        BY <2>2, <4>1
    <3>3. CASE WriteError(d) /\ c = d
      BY <2>1, <3>3 DEF StreamOf, StreamTypes, RegistryInv, WriteError,
                        clientVars, mainVars, engineVars
    <3>4. CASE WriteError(d) /\ c # d
      <4>1. StreamUntouched(c)
        BY <2>1, <3>4 DEF StreamUntouched, StreamTypes, WriteError, clientVars,
                          mainVars, engineVars
      <4> QED
        BY <2>2, <4>1
    <3>5. CASE WriterFinish(d)
      <4>1. StreamUntouched(c)
        BY <2>1, <3>5 DEF StreamUntouched, StreamTypes, WriterFinish, clientVars,
                          mainVars, engineVars
      <4> QED
        BY <2>2, <4>1
    <3> QED
      BY <2>5, <3>1, <3>2, <3>3, <3>4, <3>5 DEF WriterNext
  <2>6. CASE Broadcast
    BY <2>6, BroadcastKeepsStream
  <2>7. ASSUME Process \/ EngineFinish \/ Panic PROVE StreamUntouched(c)
    BY <2>7 DEF StreamUntouched, Process, EngineFinish, Panic, clientVars,
                mainVars, taskVars
  <2>8. ASSUME NEW d \in Clients, Accept(d) PROVE StreamUntouched(c)
    BY <2>1, <2>8 DEF StreamUntouched, RegistryInv, Accept, clientVars, engineVars
  <2>9. ASSUME NEW p \in Protocols, Register(p) PROVE StreamOf(c)'
    BY <2>9, RegisterKeepsStream
  <2>10. ASSUME \/ AcceptAgain \/ ClearRegistry \/ Exit \/ AcceptError \/ CtrlC
                \/ UNCHANGED vars
         PROVE  StreamUntouched(c)
    BY <2>10 DEF StreamUntouched, AcceptAgain, ClearRegistry, Exit, AcceptError,
                 CtrlC, vars, clientVars, mainVars, taskVars, engineVars
  <2> QED
    BY <2>2, <2>3, <2>4, <2>5, <2>6, <2>7, <2>8, <2>9, <2>10
       DEF Next, EngineNext, MainNext
<1> QED
  BY <1>1, <1>2 DEF StreamInv

\* Every client gets one and the same stream of replies, with no gap and no
\* repetition from the moment it is registered, however its registration, its
\* end, the writer's pace and the broadcasts are interleaved; and what is
\* registered is owed every reply up to the last.
THEOREM StreamShared == Spec => []OneStream
<1>1. ASSUME StreamInv PROVE OneStream
  <2> SUFFICES ASSUME NEW c \in Clients, peer[c] # "gone"
               PROVE  LET seen == Len(Pending(c))
                      IN  /\ joined[c] + seen <= Len(log)
                          /\ Pending(c) = SubSeq(log, joined[c] + 1, joined[c] + seen)
                          /\ c \in registry => joined[c] + seen = Len(log)
    BY DEF OneStream
  <2>1. /\ IsStream(joined[c], received[c], outbound[c], log)
        /\ c \in registry =>
             joined[c] + (Len(received[c]) + Len(outbound[c])) = Len(log)
    BY <1>1 DEF StreamInv, StreamOf
  <2>2. /\ joined[c] \in Nat /\ log \in Seq(MessageType)
        /\ received[c] \in Seq(MessageType) /\ outbound[c] \in Seq(MessageType)
    BY <1>1 DEF StreamInv, StreamTypes
  <2> DEFINE seen == Len(received[c] \o outbound[c])
  <2>3. /\ seen = Len(received[c]) + Len(outbound[c])
        /\ joined[c] + seen <= Len(log)
        /\ received[c] \o outbound[c] = SubSeq(log, joined[c] + 1, joined[c] + seen)
    BY <2>1, <2>2, StreamIsSubSeq
  <2> HIDE DEF seen
  <2>4. c \in registry => joined[c] + seen = Len(log)
    BY <2>1, <2>3
  <2> QED
    BY <2>3, <2>4 DEF Pending, seen
<1>2. Spec => []StreamInv
  BY InitStreamInv, NextStreamInv, PTL DEF Spec
<1> QED
  BY <1>1, <1>2, PTL
-----------------------------------------------------------------------------
(* Exactly once and in order.                                              *)

MessagesOf(c) == {m \in MessageType : m.client = c}
ValidMessages == {m \in MessageType : m.valid}

\* What has been passed on to the engine, by whom ever; of it, what one client
\* has sent; and what of its messages is still to be passed on, and is in all.
All == log \o Current \o requests
Passed(c) == Only(All, MessagesOf(c))
Left(c)   == Only(wire[c], ValidMessages)
Total(c)  == Only(sent[c], ValidMessages)

\* A connection carries its own client's messages, and the engine task holds a
\* message only between the handler and the broadcast.
RequestTypes ==
    /\ StreamTypes
    /\ engine # "reply" => current = NoMessage
    /\ \A c \in Clients : wire[c] \in Seq(MessagesOf(c))

Exact(c) ==
    /\ \E rest \in Seq(MessageType) : Passed(c) \o rest = Total(c)
    /\ ChannelOpen => Passed(c) \o Left(c) = Total(c)

RequestInv == RequestTypes /\ \A c \in Clients : Exact(c)

LEMMA FilterSets ==
    ASSUME NEW q \in Seq(MessageType)
    PROVE  /\ Valid(q) = Only(q, ValidMessages)
           /\ \A c : From(c, q) = Only(q, MessagesOf(c))
<1>1. \A x \in ToSet(q) : x \in MessageType
  BY DEF ToSet
<1>2. Valid(q) = Only(q, ValidMessages)
  <2> DEFINE K == {m \in ToSet(q) : m.valid}
  <2>1. \A x \in ToSet(q) : x \in K <=> x \in ValidMessages
    BY <1>1 DEF ValidMessages
  <2> HIDE DEF K
  <2>2. Only(q, K) = Only(q, ValidMessages)
    BY <2>1, OnlySame, SMT
  <2> QED
    BY <2>2 DEF Valid, K
<1>3. ASSUME NEW c PROVE From(c, q) = Only(q, MessagesOf(c))
  <2> DEFINE K == {m \in ToSet(q) : m.client = c}
             L == MessagesOf(c)
  <2>1. \A x \in ToSet(q) : x \in K <=> x \in L
    BY <1>1 DEF MessagesOf
  <2> HIDE DEF K, L
  <2>2. Only(q, K) = Only(q, L)
    BY <2>1, OnlySame, SMT
  <2> QED
    BY <2>2 DEF From, K, L
<1> QED
  BY <1>2, <1>3

\* A message is not the empty tuple.
LEMMA MessageIsNone == NoMessage \notin MessageType
<1>1. \A m \in MessageType : "n" \in DOMAIN m
  BY DEF MessageType
<1>2. "n" \notin DOMAIN NoMessage
  BY DEF NoMessage
<1> QED
  BY <1>1, <1>2

\* What the engine task holds.
Holds ==
    /\ engine = "reply" => current \in MessageType /\ Current = <<current>>
    /\ engine # "reply" => Current = <<>>
    /\ Current \in Seq(MessageType)

LEMMA CurrentIs == RequestTypes => Holds
<1> SUFFICES ASSUME RequestTypes PROVE Holds
  OBVIOUS
<1>1. CASE engine = "reply"
  <2>1. current \in MessageType
    BY <1>1 DEF RequestTypes, StreamTypes
  <2>2. Current = <<current>>
    BY <2>1, MessageIsNone DEF Current
  <2> QED
    BY <1>1, <2>1, <2>2 DEF Holds
<1>2. CASE engine # "reply"
  <2>1. Current = <<>>
    BY <1>2 DEF RequestTypes, Current
  <2>2. <<>> \in Seq(MessageType)
    OBVIOUS
  <2> QED
    BY <1>2, <2>1, <2>2 DEF Holds
<1> QED
  BY <1>1, <1>2

LEMMA RequestsTyped ==
    RequestTypes =>
       /\ All \in Seq(MessageType)
       /\ \A c \in Clients : /\ Passed(c) \in Seq(MessageType)
                             /\ Left(c) \in Seq(MessageType)
                             /\ Total(c) \in Seq(MessageType)
<1> SUFFICES ASSUME RequestTypes
             PROVE  /\ All \in Seq(MessageType)
                    /\ \A c \in Clients : /\ Passed(c) \in Seq(MessageType)
                                          /\ Left(c) \in Seq(MessageType)
                                          /\ Total(c) \in Seq(MessageType)
  OBVIOUS
<1>1. /\ log \in Seq(MessageType) /\ requests \in Seq(MessageType)
      /\ Current \in Seq(MessageType)
      /\ \A c \in Clients : wire[c] \in Seq(MessageType) /\ sent[c] \in Seq(MessageType)
  BY CurrentIs DEF Holds, RequestTypes, StreamTypes
<1>2. All \in Seq(MessageType)
  BY <1>1 DEF All
<1>3. ASSUME NEW q \in Seq(MessageType), NEW K PROVE Only(q, K) \in Seq(MessageType)
  BY OnlyRange
<1> QED
  BY <1>1, <1>2, <1>3 DEF Passed, Left, Total

LEMMA InitRequestInv == Init => RequestInv
<1> SUFFICES ASSUME Init PROVE RequestInv
  OBVIOUS
<1> DEFINE e == <<>>
<1>1. e \in Seq(MessageType) /\ ToSet(e) = {} /\ e \o e = e
      /\ \A c : e \in Seq(MessagesOf(c))
  BY DEF ToSet
<1>2. /\ log = e /\ requests = e /\ Current = e
      /\ \A c \in Clients : wire[c] = e /\ sent[c] = e
  BY DEF Init, Current, NoMessage
<1>3. engine = "recv" /\ current = NoMessage /\ StreamTypes
  BY InitStreamInv DEF Init, StreamInv
<1> HIDE DEF e
<1>4. RequestTypes
  BY <1>1, <1>2, <1>3 DEF RequestTypes
<1>5. \A K : Only(e, K) = e
  <2>1. \A K : ToSet(e) \subseteq K
    BY <1>1
  <2> QED
    BY <1>1, <2>1, OnlyAll
<1>6. All = e
  BY <1>1, <1>2 DEF All
<1>7. ASSUME NEW c \in Clients PROVE Exact(c)
  BY <1>1, <1>2, <1>5, <1>6, <1>7 DEF Exact, Passed, Left, Total
<1> QED
  BY <1>4, <1>7 DEF RequestInv

LEMMA NextRequestTypes ==
    ASSUME RequestTypes, [Next]_vars
    PROVE  RequestTypes'
<1>1. StreamTypes /\ StreamTypes'
  BY NextStreamTypes DEF RequestTypes
<1>2. engine' # "reply" => current' = NoMessage
  <2>1. engine # "reply" => current = NoMessage
    BY DEF RequestTypes
  <2>2. CASE EngineNext \/ Panic
    BY <2>1, <2>2 DEF EngineNext, Process, Broadcast, EngineFinish, Panic
  <2>3. CASE ~(EngineNext \/ Panic)
    <3>1. UNCHANGED <<engine, current>>
      BY <2>3 DEF Next, ClientNext, ReaderNext, WriterNext, MainNext, Connect, Send,
          CloseSending, Disconnect, ReadMessage, ReadEnd, Leave, Write, WriteError,
          WriterFinish, Accept, Register, AcceptAgain, ClearRegistry, Exit, AcceptError,
          CtrlC, vars, engineVars
    <3> QED
      BY <2>1, <3>1
  <2> QED
    BY <2>2, <2>3
<1>3. ASSUME NEW c \in Clients PROVE wire'[c] \in Seq(MessagesOf(c))
  <2>1. wire[c] \in Seq(MessagesOf(c)) /\ wire \in [Clients -> Seq(MessageType)]
    BY <1>1 DEF RequestTypes, StreamTypes
  <2>2. ASSUME NEW d \in Clients, NEW valid \in BOOLEAN, Send(d, valid)
        PROVE  wire'[c] \in Seq(MessagesOf(c))
    <3> DEFINE message == [client |-> d, n |-> Len(sent[d]) + 1, valid |-> valid]
    <3>1. message \in MessagesOf(d)
      BY <1>1 DEF MessagesOf, MessageType, StreamTypes
    <3>2. wire' = [wire EXCEPT ![d] = Append(@, message)]
      BY <2>2 DEF Send
    <3> HIDE DEF message
    <3> QED
      BY <2>1, <3>1, <3>2
  <2>3. ASSUME NEW d \in Clients, ReadMessage(d)
        PROVE  wire'[c] \in Seq(MessagesOf(c))
    <3>1. wire' = [wire EXCEPT ![d] = Tail(@)] /\ wire[d] # <<>>
      BY <2>3 DEF ReadMessage
    <3> QED
      BY <2>1, <3>1
  <2>4. CASE wire' = wire
    BY <2>1, <2>4
  <2>5. \/ wire' = wire
        \/ \E d \in Clients, valid \in BOOLEAN : Send(d, valid)
        \/ \E d \in Clients : ReadMessage(d)
    BY DEF Next, ClientNext, ReaderNext, WriterNext, EngineNext, MainNext, Connect,
        CloseSending, Disconnect, ReadEnd, Leave, Process, Broadcast, EngineFinish, Panic,
        Write, WriteError, WriterFinish, Accept, Register, AcceptAgain, ClearRegistry,
        Exit, AcceptError, CtrlC, vars, clientVars
  <2> QED
    BY <2>2, <2>3, <2>4, <2>5
<1> QED
  BY <1>1, <1>2, <1>3 DEF RequestTypes

\* A step that passes nothing on and takes nothing away.
NothingPassed(c) ==
    /\ All' = All /\ wire'[c] = wire[c] /\ sent'[c] = sent[c]
    /\ ChannelOpen' => ChannelOpen

LEMMA NothingPassedKeepsExact ==
    ASSUME NEW c \in Clients, Exact(c), NothingPassed(c)
    PROVE  Exact(c)'
<1>1. Passed(c)' = Passed(c) /\ Left(c)' = Left(c) /\ Total(c)' = Total(c)
  BY DEF NothingPassed, Passed, Left, Total
<1> HIDE DEF Exact
<1> QED
  BY <1>1 DEF Exact, NothingPassed

\* The client sends one message more: it stands at the end of what is left and
\* of what is in all.
LEMMA SendKeepsExact ==
    ASSUME RequestTypes, NEW c \in Clients, Exact(c), NEW valid \in BOOLEAN, Send(c, valid)
    PROVE  Exact(c)'
<1> DEFINE m == [client |-> c, n |-> Len(sent[c]) + 1, valid |-> valid]
           p == Passed(c)
           w == Left(c)
           t == Total(c)
           more == IF m \in ValidMessages THEN <<m>> ELSE <<>>
<1>1. m \in MessageType
  BY DEF MessageType, RequestTypes, StreamTypes
<1>2. /\ wire'[c] = Append(wire[c], m) /\ sent'[c] = Append(sent[c], m)
      /\ UNCHANGED <<log, requests, engine, current>>
  BY DEF Send, RequestTypes, StreamTypes, engineVars
<1>3. p \in Seq(MessageType) /\ w \in Seq(MessageType) /\ t \in Seq(MessageType)
  BY RequestsTyped
<1>4. wire[c] \in Seq(MessageType) /\ sent[c] \in Seq(MessageType)
  BY DEF RequestTypes, StreamTypes
<1>5. Passed(c)' = p /\ (ChannelOpen' <=> ChannelOpen)
  BY <1>2 DEF Passed, All, Current, ChannelOpen
<1> HIDE DEF m
<1>6. more \in Seq(MessageType)
  BY <1>1
<1>7. ASSUME NEW q \in Seq(MessageType)
      PROVE  Only(Append(q, m), ValidMessages) = Only(q, ValidMessages) \o more
  <2> DEFINE a == Only(q, ValidMessages)
  <2>1. a \in Seq(MessageType)
    BY OnlyRange
  <2>2. Only(Append(q, m), ValidMessages) = IF m \in ValidMessages THEN Append(a, m) ELSE a
    BY <1>1, OnlyAppend, SMT
  <2> HIDE DEF a
  <2>3. a \o <<>> = a /\ a \o <<m>> = Append(a, m)
    BY <1>1, <2>1, ConcatEmptySeq
  <2> QED
    BY <2>2, <2>3 DEF a
<1>8. Left(c)' = w \o more /\ Total(c)' = t \o more
  BY <1>2, <1>4, <1>7 DEF Left, Total
<1>9. PICK rest \in Seq(MessageType) : p \o rest = t
  BY DEF Exact
<1>10. ChannelOpen => p \o w = t
  BY DEF Exact
<1> HIDE DEF p, w, t, more
<1>11. rest \o more \in Seq(MessageType) /\ p \o (rest \o more) = t \o more
  <2>1. Associates(p, rest, more) /\ rest \o more \in Seq(MessageType)
    BY <1>3, <1>6, ConcatAssociates
  <2> QED
    BY <1>9, <2>1 DEF Associates
<1>12. ChannelOpen => p \o (w \o more) = t \o more
  <2>1. Associates(p, w, more)
    BY <1>3, <1>6, ConcatAssociates
  <2> QED
    BY <1>10, <2>1 DEF Associates
<1> QED
  BY <1>5, <1>8, <1>11, <1>12 DEF Exact, p, w, t

\* The first of what is left is passed on, dropped as invalid, or lost because
\* the engine task is gone.
LEMMA ReadKeepsExact ==
    ASSUME RequestTypes, NEW c \in Clients, Exact(c), NEW d \in Clients, ReadMessage(d)
    PROVE  Exact(c)'
<1> DEFINE m == Head(wire[d])
           p == Passed(c)
           t == Total(c)
           passes == m.valid /\ ChannelOpen
           K == MessagesOf(c)
<1>1. /\ m \in MessagesOf(d) /\ m \in MessageType /\ m.client = d
      /\ wire[d] # <<>> /\ wire[d] \in Seq(MessageType) /\ wire[c] \in Seq(MessageType)
  <2>1. wire[d] # <<>> /\ wire[d] \in Seq(MessagesOf(d))
    BY DEF ReadMessage, RequestTypes
  <2>2. m \in MessagesOf(d)
    BY <2>1
  <2> QED
    BY <2>1, <2>2 DEF MessagesOf, RequestTypes, StreamTypes
<1>2. /\ wire' = [wire EXCEPT ![d] = Tail(@)]
      /\ requests' = IF passes THEN Append(requests, m) ELSE requests
      /\ UNCHANGED <<sent, log, engine, current>>
  BY DEF ReadMessage, engineVars
<1>3. wire'[d] = Tail(wire[d]) /\ (c # d => wire'[c] = wire[c])
  BY <1>2 DEF RequestTypes, StreamTypes
<1>4. Total(c)' = t /\ (ChannelOpen' <=> ChannelOpen)
  BY <1>2 DEF Total, ChannelOpen
<1>5. /\ All \in Seq(MessageType) /\ p \in Seq(MessageType) /\ t \in Seq(MessageType)
      /\ Left(c) \in Seq(MessageType)
  BY RequestsTyped
<1> HIDE DEF m
<1>6. All' = IF passes THEN Append(All, m) ELSE All
  <2> DEFINE b == log \o Current
  <2>1. b \in Seq(MessageType) /\ requests \in Seq(MessageType) /\ Current' = Current
    BY <1>2, CurrentIs DEF Holds, RequestTypes, StreamTypes, Current
  <2>2. All = b \o requests /\ All' = b \o requests'
    BY <1>2, <2>1 DEF All
  <2> HIDE DEF b
  <2>3. Append(b \o requests, m) = b \o Append(requests, m)
    <3>1. Extends(b, requests, m)
      BY <1>1, <2>1, AppendConcat
    <3> QED
      BY <3>1 DEF Extends
  <2> QED
    BY <1>2, <2>2, <2>3
<1>7. Passed(c)' = IF passes /\ m \in K THEN Append(p, m) ELSE p
  <2> DEFINE a == All
  <2>1. a \in Seq(MessageType)
    BY <1>5
  <2> HIDE DEF a, K
  <2>2. Only(Append(a, m), K) = IF m \in K THEN Append(Only(a, K), m) ELSE Only(a, K)
    BY <1>1, <2>1, OnlyAppend, SMT
  <2> QED
    BY <1>6, <2>2 DEF Passed, a, K
<1>8. m \in K <=> c = d
  BY <1>1 DEF MessagesOf
<1>9. m \in ValidMessages <=> m.valid
  BY <1>1 DEF ValidMessages
<1>10. PICK rest \in Seq(MessageType) : p \o rest = t
  BY DEF Exact
<1>11. ChannelOpen => p \o Left(c) = t
  BY DEF Exact
<1>12. CASE c # d \/ ~ChannelOpen
  <2>1. Passed(c)' = p
    BY <1>7, <1>8, <1>12
  <2>2. ChannelOpen' => Left(c)' = Left(c)
    BY <1>3, <1>4, <1>12 DEF Left
  <2> QED
    BY <1>4, <1>10, <1>11, <2>1, <2>2 DEF Exact
<1>13. CASE c = d /\ ChannelOpen
  <2> DEFINE w == Left(c)'
  <2>1. w = Only(Tail(wire[c]), ValidMessages)
    BY <1>3, <1>13 DEF Left
  <2>2. w \in Seq(MessageType)
    <3> DEFINE q == Tail(wire[c])
    <3>1. q \in Seq(MessageType)
      BY <1>1, <1>13
    <3> HIDE DEF q, w
    <3> QED
      BY <2>1, <3>1, OnlyRange DEF q
  <2>3. Left(c) = IF m.valid THEN <<m>> \o w ELSE w
    <3> DEFINE q == wire[c]
    <3>1. q \in Seq(MessageType) /\ q # <<>> /\ Head(q) = m
      BY <1>1, <1>13 DEF m
    <3> HIDE DEF q
    <3>2. Only(q, ValidMessages) = IF Head(q) \in ValidMessages
            THEN <<Head(q)>> \o Only(Tail(q), ValidMessages)
            ELSE Only(Tail(q), ValidMessages)
      BY <3>1, OnlyHead, SMT
    <3> QED
      BY <1>9, <2>1, <3>1, <3>2 DEF Left, q
  <2>4. Passed(c)' = IF m.valid THEN Append(p, m) ELSE p
    BY <1>7, <1>8, <1>13
  <2>5. p \o Left(c) = t
    BY <1>11, <1>13
  <2> HIDE DEF p, t, w
  <2>6. Append(p, m) \o w = p \o (<<m>> \o w)
    <3> DEFINE e == <<m>>
    <3>1. e \in Seq(MessageType) /\ p \in Seq(MessageType)
      BY <1>1, <1>5 DEF p
    <3>2. Append(p, m) = p \o e
      BY <1>1, <3>1
    <3> HIDE DEF e
    <3>3. Associates(p, e, w)
      BY <2>2, <3>1, ConcatAssociates DEF w
    <3> QED
      BY <3>2, <3>3 DEF Associates, e
  <2>7. Passed(c)' \o w = t
    BY <2>3, <2>4, <2>5, <2>6
  <2> QED
    BY <1>4, <2>2, <2>7 DEF Exact, w
<1> QED
  BY <1>12, <1>13

\* The engine task moves messages from one place to the next; when it dies,
\* what it had not yet taken is lost.
LEMMA ProcessKeepsAll ==
    ASSUME RequestTypes, RequestTypes', Process
    PROVE  All' = All
<1> DEFINE h == Head(requests)
           e == <<h>>
           t == Tail(requests)
<1>1. /\ engine = "recv" /\ requests # <<>> /\ engine' = "reply"
      /\ current' = h /\ requests' = t /\ log' = log
  BY DEF Process
<1>2. log \in Seq(MessageType) /\ requests \in Seq(MessageType)
  BY DEF RequestTypes, StreamTypes
<1>3. e \in Seq(MessageType) /\ t \in Seq(MessageType) /\ e \o t = requests
  <2>1. e \in Seq(MessageType) /\ t \in Seq(MessageType)
    BY <1>1, <1>2
  <2>2. /\ e \o t \in Seq(MessageType) /\ Len(e \o t) = Len(requests)
        /\ \A i \in 1..Len(requests) : (e \o t)[i] = requests[i]
    BY <1>1, <1>2
  <2> HIDE DEF e, t
  <2> QED
    BY <1>2, <2>1, <2>2, SeqEqual
<1>4. Current = <<>>
  BY <1>1, CurrentIs DEF Holds
<1>5. Current' = e
  <2>1. RequestTypes' => Holds'
    BY CurrentIs, PTL
  <2> QED
    BY <1>1, <2>1 DEF Holds
<1>6. log \o <<>> = log
  BY <1>2, ConcatEmptySeq
<1>7. All = log \o requests /\ All' = (log \o e) \o t
  BY <1>1, <1>4, <1>5, <1>6 DEF All
<1> HIDE DEF e, t
<1>8. Associates(log, e, t)
  BY <1>2, <1>3, ConcatAssociates
<1> QED
  BY <1>3, <1>7, <1>8 DEF Associates

LEMMA BroadcastKeepsAll ==
    ASSUME RequestTypes, RequestTypes', Broadcast
    PROVE  All' = All
<1>1. /\ engine = "reply" /\ engine' = "recv" /\ log' = Append(log, current)
      /\ requests' = requests
  BY DEF Broadcast
<1>2. log \in Seq(MessageType) /\ current \in MessageType /\ Current = <<current>>
  BY <1>1, CurrentIs DEF Holds, RequestTypes, StreamTypes
<1>3. Current' = <<>>
  <2>1. RequestTypes' => Holds'
    BY CurrentIs, PTL
  <2> QED
    BY <1>1, <2>1 DEF Holds
<1> DEFINE a == Append(log, current)
<1>4. a \in Seq(MessageType) /\ a = log \o <<current>>
  BY <1>2
<1> HIDE DEF a
<1>5. a \o <<>> = a
  BY <1>4, ConcatEmptySeq
<1> QED
  BY <1>1, <1>2, <1>3, <1>4, <1>5 DEF All, a

LEMMA PanicKeepsExact ==
    ASSUME RequestTypes, RequestTypes', NEW c \in Clients, Exact(c), Panic
    PROVE  Exact(c)'
<1> DEFINE K == MessagesOf(c)
           a == Only(log, K)
           b == Only(requests, K)
<1>1. /\ engine = "recv" /\ engine' = "dead" /\ requests' = <<>> /\ log' = log
      /\ UNCHANGED <<wire, sent, current>>
  BY DEF Panic, clientVars
<1>2. log \in Seq(MessageType) /\ requests \in Seq(MessageType)
  BY DEF RequestTypes, StreamTypes
<1>3. Current = <<>> /\ Current' = <<>>
  BY <1>1, CurrentIs DEF Holds, Current
<1>4. log \o <<>> = log
  BY <1>2, ConcatEmptySeq
<1>5. All = log \o requests /\ All' = log
  BY <1>1, <1>3, <1>4 DEF All
<1>6. a \in Seq(MessageType) /\ b \in Seq(MessageType)
  BY <1>2, OnlyRange
<1>7. Passed(c) = a \o b /\ Passed(c)' = a
  <2>1. Only(log \o requests, K) = Only(log, K) \o Only(requests, K)
    <3> HIDE DEF K
    <3> QED
      BY <1>2, OnlyConcat, SMT
  <2> QED
    BY <1>5, <2>1 DEF Passed
<1>8. PICK rest \in Seq(MessageType) : Passed(c) \o rest = Total(c)
  BY DEF Exact
<1> HIDE DEF a, b
<1>9. b \o rest \in Seq(MessageType) /\ a \o (b \o rest) = Total(c)
  <2>1. Associates(a, b, rest) /\ b \o rest \in Seq(MessageType)
    BY <1>6, ConcatAssociates
  <2> QED
    BY <1>7, <1>8, <2>1 DEF Associates
<1>10. Total(c)' = Total(c) /\ ~ChannelOpen'
  BY <1>1 DEF Total, ChannelOpen
<1> QED
  BY <1>7, <1>9, <1>10 DEF Exact

LEMMA NextRequestInv == RequestInv /\ [Next]_vars => RequestInv'
<1> SUFFICES ASSUME RequestInv, [Next]_vars PROVE RequestInv'
  OBVIOUS
<1>1. RequestTypes /\ RequestTypes'
  BY NextRequestTypes DEF RequestInv
<1>2. ASSUME NEW c \in Clients PROVE Exact(c)'
  <2>1. Exact(c)
    BY DEF RequestInv
  <2>2. ASSUME NothingPassed(c) PROVE Exact(c)'
    BY <2>1, <2>2, NothingPassedKeepsExact
  <2>3. ASSUME NEW d \in Clients, NEW valid \in BOOLEAN, Send(d, valid) PROVE Exact(c)'
    <3>1. CASE c = d
      BY <1>1, <2>1, <2>3, <3>1, SendKeepsExact
    <3>2. CASE c # d
      <4>1. NothingPassed(c)
        BY <1>1, <2>3, <3>2
           DEF NothingPassed, Send, RequestTypes, StreamTypes, All, Current,
               ChannelOpen, engineVars
      <4> QED
        BY <2>2, <4>1
    <3> QED
      BY <3>1, <3>2
  <2>4. ASSUME NEW d \in Clients, ReadMessage(d) PROVE Exact(c)'
    BY <1>1, <2>1, <2>4, ReadKeepsExact
  <2>5. CASE Process
    <3>1. NothingPassed(c)
      BY <1>1, <2>5, ProcessKeepsAll DEF NothingPassed, Process, ChannelOpen, clientVars
    <3> QED
      BY <2>2, <3>1
  <2>6. CASE Broadcast
    <3>1. NothingPassed(c)
      BY <1>1, <2>6, BroadcastKeepsAll DEF NothingPassed, Broadcast, ChannelOpen, clientVars
    <3> QED
      BY <2>2, <3>1
  <2>7. CASE Panic
    BY <1>1, <2>1, <2>7, PanicKeepsExact
  <2>8. CASE EngineFinish
    <3>1. NothingPassed(c)
      BY <2>8 DEF NothingPassed, EngineFinish, All, Current, ChannelOpen, clientVars
    <3> QED
      BY <2>2, <3>1
  <2>9. CASE UNCHANGED <<wire, sent, requests, engine, current, log>>
    <3>1. NothingPassed(c)
      BY <2>9 DEF NothingPassed, All, Current, ChannelOpen
    <3> QED
      BY <2>2, <3>1
  <2>10. \/ \E d \in Clients, valid \in BOOLEAN : Send(d, valid)
         \/ \E d \in Clients : ReadMessage(d)
         \/ EngineNext \/ Panic
         \/ UNCHANGED <<wire, sent, requests, engine, current, log>>
    BY DEF Next, ClientNext, ReaderNext, WriterNext, MainNext, Connect,
        CloseSending, Disconnect, ReadEnd, Leave, Write, WriteError, WriterFinish,
        Accept, Register, AcceptAgain, ClearRegistry, Exit, AcceptError, CtrlC,
        vars, clientVars, engineVars
  <2> QED
    BY <2>3, <2>4, <2>5, <2>6, <2>7, <2>8, <2>9, <2>10 DEF EngineNext
<1> QED
  BY <1>1, <1>2 DEF RequestInv

\* The valid messages of a client reach the engine exactly once and in order
\* for every number of clients and of messages, however their readers, the
\* engine task and the shutdown are interleaved; a panic of the engine loses
\* only messages at the end.
THEOREM DeliveredExactlyOnce == Spec => []ExactlyOnceInOrder
<1>1. ASSUME RequestInv PROVE ExactlyOnceInOrder
  <2> SUFFICES ASSUME NEW c \in Clients
               PROVE  /\ IsPrefix(Forwarded(c), Valid(sent[c]))
                      /\ ChannelOpen => Forwarded(c) \o Valid(wire[c]) = Valid(sent[c])
    BY DEF ExactlyOnceInOrder
  <2>1. RequestTypes /\ Exact(c)
    BY <1>1 DEF RequestInv
  <2>2. /\ All \in Seq(MessageType) /\ Passed(c) \in Seq(MessageType)
        /\ wire[c] \in Seq(MessageType) /\ sent[c] \in Seq(MessageType)
    BY <2>1, RequestsTyped DEF RequestTypes, StreamTypes
  <2>3. /\ Forwarded(c) = Passed(c) /\ Valid(wire[c]) = Left(c)
        /\ Valid(sent[c]) = Total(c)
    BY <2>2, FilterSets DEF Forwarded, All, Passed, Left, Total
  <2>4. PICK rest \in Seq(MessageType) : Passed(c) \o rest = Total(c)
    BY <2>1 DEF Exact
  <2>5. IsPrefix(Passed(c), Total(c))
    BY <2>2, <2>4, PrefixOf
  <2> QED
    BY <2>1, <2>3, <2>5 DEF Exact
<1> QED
  BY <1>1, InitRequestInv, NextRequestInv, PTL DEF Spec
=============================================================================
