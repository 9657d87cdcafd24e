--------------------------- MODULE EngineConnection ---------------------------
(***************************************************************************)
(* engine-trading-client's network.rs: the task that carries the App's     *)
(* messages to the server and the server's to the App, over a connection   *)
(* that breaks and that it makes again.                                    *)
(*                                                                         *)
(* run is a loop around select!, which drops the branches that lose: what  *)
(* read_message has read by then is in read_buffer, the rest in the        *)
(* socket.  A step is one branch that completes, or a poll of read_message *)
(* that ends at an await, for one read.  A read gets a part of the bytes,  *)
(* and the connection breaks between any two reads.                        *)
(*                                                                         *)
(* The other end speaks one of two dialects: "frames", the frames that     *)
(* read_message decodes, or "csv", the lines that engine-server writes.    *)
(***************************************************************************)
EXTENDS BinaryCodec, CsvCodec

CONSTANTS
    Dialects,      \* the dialects of the servers there are
    Replies,       \* what a server says
    MaxReplies,    \* bound on what it says on one connection
    MaxCommands,   \* bound on the messages of the App
    MaxBreaks,     \* bound on the connections that break by themselves
    Chunks,        \* the sizes of a read that leaves something for the next;
                   \* all in the code
    MaxExponent    \* reconnect_attempts is read as its minimum with 5

ASSUME EngineConnectionAssumption ==
    /\ Dialects \subseteq {"frames", "csv"}
    /\ Replies \subseteq OutputMessages
    /\ \A msg \in Replies : Encodable(msg)
    /\ Chunks \subseteq Nat \ {0}
    /\ {MaxReplies, MaxCommands, MaxBreaks, MaxExponent} \subseteq Nat

VARIABLES
    \* The server and the network:
    dialect,
    up,            \* a connect would succeed
    link,          \* "open"; "closed": the server has closed its end;
                   \* "reset"; "none": stream is None
    inbound,       \* bytes on the way to the client
    \* The task:
    task,          \* "select"; "backoff": asleep in handle_disconnect;
                   \* "aborted"
    read_buffer,
    reconnect_attempts,
    rx,            \* the App's messages: [number, encodes]
    \* History, read by no action but for the bounds:
    submitted,     \* how many messages the App has sent
    written,       \* the numbers of those written to a socket, in order
    dropped,       \* the numbers of those taken from rx and not written
    told,          \* what the server has said on this connection,
    heard,         \* and what the App was given since it was made
    leftover,      \* it was made with bytes in read_buffer
    breaks

networkVars == <<dialect, up, breaks>>
streamVars  == <<link, inbound, reconnect_attempts>>
queueVars   == <<rx, submitted, written, dropped>>
replyVars   == <<told, heard, leftover>>
vars == <<networkVars, streamVars, task, read_buffer, queueVars, replyVars>>

\* run_app spawns the task once it has connected.
Init ==
    /\ dialect \in Dialects
    /\ up = TRUE
    /\ link = "open"
    /\ inbound = <<>>
    /\ task = "select"
    /\ read_buffer = <<>>
    /\ reconnect_attempts = 0
    /\ rx = <<>>
    /\ submitted = 0
    /\ written = <<>>
    /\ dropped = {}
    /\ told = <<>>
    /\ heard = <<>>
    /\ leftover = FALSE
    /\ breaks = 0

-----------------------------------------------------------------------------
(* The server and the network.                                             *)

Line(msg) == Append(FormatOutputLegacy(msg), Newline)

Frame(msg) == FramedLittleEndian(EncodeOutput(msg)[1])

ServerSays(msg) ==
    /\ link = "open"
    /\ Len(told) < MaxReplies
    /\ told' = Append(told, msg)
    /\ inbound' = inbound \o (IF dialect = "csv" THEN Line(msg) ELSE Frame(msg))
    /\ UNCHANGED <<networkVars, link, reconnect_attempts, task, read_buffer,
                  queueVars, heard, leftover>>

\* The server closes the connection or dies, or the network fails.  What has
\* not been read may be lost; that a part of it still comes is the same as that
\* it came before.
Break ==
    /\ task # "aborted"
    /\ \/ /\ link = "open"
          /\ breaks < MaxBreaks
          /\ breaks' = breaks + 1
          /\ link' \in {"closed", "reset"}
       \/ /\ link = "closed"
          /\ link' = "reset"
          /\ UNCHANGED breaks
    /\ inbound' \in {inbound, <<>>}
    /\ UNCHANGED <<dialect, up, reconnect_attempts, task, read_buffer,
                  queueVars, replyVars>>

\* It matters only when the client is about to connect.
ServerGoesOrComes ==
    /\ task = "backoff"
    /\ up' = ~up
    /\ UNCHANGED <<dialect, breaks, streamVars, task, read_buffer, queueVars,
                  replyVars>>

-----------------------------------------------------------------------------
(* The App, and the end of the client.                                     *)

\* network_tx.send: a symbol of the wrong length makes a message that does
\* not encode.
AppSends(encodes) ==
    /\ task # "aborted"
    /\ submitted < MaxCommands
    /\ submitted' = submitted + 1
    /\ rx' = Append(rx, [number |-> submitted + 1, encodes |-> encodes])
    /\ UNCHANGED <<networkVars, streamVars, task, read_buffer, written,
                  dropped, replyVars>>

\* The user quits: network_handle.abort().
Abort ==
    /\ task # "aborted"
    /\ task' = "aborted"
    /\ link' = "none"
    /\ inbound' = <<>>
    /\ UNCHANGED <<networkVars, reconnect_attempts, read_buffer, queueVars,
                  replyVars>>

-----------------------------------------------------------------------------
(* handle_disconnect.                                                      *)

\* Up to the sleep: read_buffer keeps what it has.
HandleDisconnect ==
    /\ task' = "backoff"
    /\ link' = "none"
    /\ inbound' = <<>>
    /\ reconnect_attempts' = Min({reconnect_attempts + 1, MaxExponent})

KeepConnection == UNCHANGED <<streamVars, task>>

Connect ==
    IF up
    THEN /\ link' = "open"
         /\ reconnect_attempts' = 0
         /\ told' = <<>>
         /\ heard' = <<>>
         /\ leftover' = (read_buffer # <<>>)
    ELSE UNCHANGED <<link, reconnect_attempts, replyVars>>

\* Mutant: after the longest sleep there is no other attempt.
ReconnectGivesUp ==
    /\ task = "backoff"
    /\ reconnect_attempts < MaxExponent
    /\ task' = "select"
    /\ Connect
    /\ UNCHANGED <<networkVars, inbound, read_buffer, queueVars>>

\* The sleep ends: connect, once, and back to the loop whether it worked or not.
Reconnect ==
    /\ task = "backoff"
    /\ task' = "select"
    /\ Connect
    /\ UNCHANGED <<networkVars, inbound, read_buffer, queueVars>>

-----------------------------------------------------------------------------
(* The branches that send.                                                 *)

\* A write to a connection that the server has closed still works, until the
\* answer to it is a reset.
Writable == link \in {"open", "closed"}

\* A message that cannot be sent is lost, and so is the connection, whatever
\* the reason.
SendOrDrop(msg) ==
    IF Writable /\ msg.encodes
    THEN /\ written' = Append(written, msg.number)
         /\ KeepConnection
         /\ UNCHANGED dropped
    ELSE /\ dropped' = dropped \cup {msg.number}
         /\ HandleDisconnect
         /\ UNCHANGED written

\* Mutant: read_message keeps what it has read in a local variable, which is
\* lost when select! takes another branch.
SendForgets ==
    /\ task = "select"
    /\ rx # <<>>
    /\ rx' = Tail(rx)
    /\ SendOrDrop(rx[1])
    /\ read_buffer' = <<>>
    /\ UNCHANGED <<networkVars, submitted, replyVars>>

\* Mutant: a message that fails is tried again after those behind it.
SendRetries ==
    /\ task = "select"
    /\ rx # <<>>
    /\ SendOrDrop(rx[1])
    /\ rx' = IF dropped' = dropped THEN Tail(rx) ELSE Append(Tail(rx), rx[1])
    /\ UNCHANGED <<networkVars, read_buffer, submitted, replyVars>>

\* Mutant: the branch waits for a connection.
SendWhenConnected ==
    /\ task = "select"
    /\ link = "open"
    /\ rx # <<>>
    /\ rx' = Tail(rx)
    /\ SendOrDrop(rx[1])
    /\ UNCHANGED <<networkVars, read_buffer, submitted, replyVars>>

\* The branch of rx.recv().
Send ==
    /\ task = "select"
    /\ rx # <<>>
    /\ rx' = Tail(rx)
    /\ SendOrDrop(rx[1])
    /\ UNCHANGED <<networkVars, read_buffer, submitted, replyVars>>

\* send_heartbeat fails.  When it works it changes nothing here.
HeartbeatFails ==
    /\ task = "select"
    /\ ~Writable
    /\ HandleDisconnect
    /\ UNCHANGED <<networkVars, read_buffer, queueVars, replyVars>>

-----------------------------------------------------------------------------
(* read_message.                                                           *)

\* The length in the first four bytes (from_le_bytes).
FrameLen(buf) == U32At(Reverse(SubSeq(buf, 1, 4)), 0)

Complete(buf) == Len(buf) >= 4 /\ Len(buf) >= 4 + FrameLen(buf)

\* split_to, decode_output and the arm of select!, once buf has a frame and the
\* rest is still in the socket: a frame that does not decode is gone from the
\* buffer, and the connection is dropped.
Take(buf, rest) ==
    LET end == 4 + FrameLen(buf)
        msg == DecodeOutput(SubSeq(buf, 5, end))
    IN  /\ read_buffer' = SubSeq(buf, end + 1, Len(buf))
        /\ heard' = heard \o msg
        /\ IF msg = <<>>
           THEN HandleDisconnect
           ELSE /\ inbound' = rest
                /\ UNCHANGED <<link, reconnect_attempts, task>>

\* What one read may return.
ReadSizes ==
    {k \in Chunks : k < Len(inbound)} \cup ({Len(inbound)} \ {0})

\* One read of k bytes, and the frame if that completes it.
Read(k) ==
    /\ task = "select"
    /\ link # "none"
    /\ ~Complete(read_buffer)
    /\ LET buf  == read_buffer \o SubSeq(inbound, 1, k)
           rest == SubSeq(inbound, k + 1, Len(inbound))
       IN  IF Complete(buf)
           THEN Take(buf, rest)
           ELSE /\ read_buffer' = buf
                /\ inbound' = rest
                /\ UNCHANGED <<link, reconnect_attempts, task, heard>>
    /\ UNCHANGED <<networkVars, queueVars, told, leftover>>

\* Mutant: a read comes first, though a frame may be there already.
TakeBufferedLate ==
    /\ task = "select"
    /\ link # "none"
    /\ inbound # <<>>
    /\ Complete(read_buffer)
    /\ Take(read_buffer, inbound)
    /\ UNCHANGED <<networkVars, queueVars, told, leftover>>

\* A whole frame came with an earlier one: there is no read.
TakeBuffered ==
    /\ task = "select"
    /\ link # "none"
    /\ Complete(read_buffer)
    /\ Take(read_buffer, inbound)
    /\ UNCHANGED <<networkVars, queueVars, told, leftover>>

\* There is no stream, the stream ends, or read fails.
ReadFails ==
    /\ task = "select"
    /\ \/ link = "none"
       \/ ~Complete(read_buffer) /\ link = "closed" /\ inbound = <<>>
       \/ ~Complete(read_buffer) /\ link = "reset"
    /\ HandleDisconnect
    /\ UNCHANGED <<networkVars, read_buffer, queueVars, replyVars>>

ReadMessage == (\E k \in ReadSizes : Read(k)) \/ TakeBuffered \/ ReadFails

-----------------------------------------------------------------------------

Next ==
    \/ \E msg \in Replies : ServerSays(msg)
    \/ Break
    \/ ServerGoesOrComes
    \/ \E encodes \in BOOLEAN : AppSends(encodes)
    \/ Abort
    \/ Reconnect
    \/ Send
    \/ HeartbeatFails
    \/ ReadMessage

\* select! takes one of the branches that are ready at random, so that one
\* which is ready again and again is taken; and the sleep ends.
Fairness ==
    /\ SF_vars(Send)
    /\ SF_vars(ReadMessage)
    /\ WF_vars(Reconnect)

Spec == Init /\ [][Next]_vars /\ Fairness

-----------------------------------------------------------------------------
(* What should hold.                                                       *)

Aborted == task = "aborted"

\* Read on a connection that was made with an empty read_buffer, the server's
\* frames come out whole, in order and each once, whatever branches of select!
\* come between the reads: what has been told and not heard is in read_buffer
\* and in the socket.  Nothing that engine-server writes comes out at all: the
\* first four characters of a line make a length of hundreds of megabytes
\* (read_message, run).
FramesSurvive ==
    IF dialect = "csv"
    THEN heard = <<>>
    ELSE ~leftover =>
           /\ IsPrefix(heard, told)
           /\ link = "open" =>
                read_buffer \o inbound =
                  FlattenSeq([n \in 1..(Len(told) - Len(heard)) |->
                                Frame(told[Len(heard) + n])])

\* Whatever fails, a message of the App is written at most once and never after
\* a later one: it is in the queue, written, or dropped, and only one of these
\* (run, send, handle_disconnect).
EachOnce ==
    LET taken == submitted - Len(rx) IN
    /\ \A n \in DOMAIN rx : rx[n].number = taken + n
    /\ \A m, n \in DOMAIN written : m < n => written[m] < written[n]
    /\ Range(written) \cup dropped = 1..taken
    /\ Range(written) \cap dropped = {}

\* No message waits forever, not even while the server is away: it is written
\* or dropped, unless the client ends (run).
Taken ==
    \A m \in 1..MaxCommands :
      []<>((\A n \in DOMAIN rx : rx[n].number # m) \/ Aborted)

\* If the server comes back for good, the client is connected again and again,
\* however long it was away and whatever ended the connection
\* (handle_disconnect, connect).
Reconnects == <>[]up => []<>(link = "open" \/ Aborted)

\* What a server says in frames is heard, unless the connection ends first or
\* was made with a piece of the last one in read_buffer (read_message).
Heard ==
    \A n \in 1..MaxReplies :
      []<>(\/ Len(told) < n
           \/ Len(heard) >= n
           \/ link # "open"
           \/ leftover
           \/ dialect = "csv")
=============================================================================
