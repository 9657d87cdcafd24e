--------------------------- MODULE ConnectionProofs ---------------------------
(***************************************************************************)
(* Both ends of a connection, for every set of messages, of lines and of   *)
(* replies, every size of a read and every number of broken connections.   *)
(*                                                                         *)
(* The trading client's end (EngineConnection): what the App sends is      *)
(* written in order and at most once (WrittenOnce), and what it hears are  *)
(* the frames of the server, whole and in order (FramesStayWhole), because *)
(* the binary codec inverts itself (DecodingInverts, in CodecProofs).      *)
(*                                                                         *)
(* The server's end (Wire): the engine gets the messages that the user     *)
(* meant, in order (MessagesInOrder), nothing of what was sent stays       *)
(* behind when the reader waits (NothingStuck), and no codec loses a       *)
(* message or what a client needs of a reply (NothingLostInTheCodecs).     *)
(* The first two rest on what is on the way being whole lines or frames,   *)
(* and a lost rest (StreamIsWhole).                                        *)
(***************************************************************************)
EXTENDS EngineConnection, Wire, CodecProofs

Message == [number : Nat, encodes : BOOLEAN]

\* How many messages the task has taken from rx.
TakenSoFar == submitted - Len(rx)

QueueTypes ==
    /\ submitted \in Nat
    /\ rx \in Seq(Message)
    /\ written \in Seq(Nat)
    /\ Len(rx) <= submitted

QueueInv == QueueTypes /\ EachOnce

LEMMA InitQueueInv == Init => QueueInv
BY DEF Init, QueueInv, QueueTypes, EachOnce, Range

\* The App adds the next number at the end, and nothing has been taken by it.
LEMMA AppSendsKeepsQueueInv ==
    ASSUME QueueInv, NEW encodes \in BOOLEAN, AppSends(encodes)
    PROVE  QueueInv'
<1> DEFINE message == [number |-> submitted + 1, encodes |-> encodes]
<1>1. /\ submitted \in Nat /\ rx \in Seq(Message) /\ Len(rx) <= submitted
      /\ \A n \in 1..Len(rx) : rx[n].number = TakenSoFar + n
  BY DEF QueueInv, QueueTypes, EachOnce, TakenSoFar
<1>2. /\ submitted' = submitted + 1 /\ rx' = Append(rx, message)
      /\ UNCHANGED <<written, dropped>>
  BY DEF AppSends
<1>3. message \in Message /\ message.number = submitted + 1
  BY <1>1 DEF Message
<1> HIDE DEF message
<1>4. /\ rx' \in Seq(Message) /\ Len(rx') = Len(rx) + 1 /\ Len(rx) \in Nat
      /\ \A n \in 1..Len(rx) : rx'[n] = rx[n]
      /\ rx'[Len(rx) + 1] = message
  BY <1>1, <1>2, <1>3
<1>5. TakenSoFar' = TakenSoFar
  BY <1>1, <1>2, <1>4 DEF TakenSoFar
<1>6. ASSUME NEW n \in 1..Len(rx') PROVE rx'[n].number = TakenSoFar + n
  <2>1. CASE n \in 1..Len(rx)
    BY <1>1, <1>4, <2>1
  <2>2. CASE n = Len(rx) + 1
    <3>1. TakenSoFar + n = submitted + 1
      BY <1>1, <1>4, <2>2 DEF TakenSoFar
    <3> QED
      BY <1>3, <1>4, <2>2, <3>1
  <2> QED
    BY <1>4, <2>1, <2>2
<1>7. EachOnce'
  <2>1. \A n \in DOMAIN rx' : rx'[n].number = TakenSoFar + n
    BY <1>4, <1>6
  <2> QED
    BY <1>2, <1>5, <2>1 DEF QueueInv, EachOnce, TakenSoFar
<1>8. QueueTypes'
  BY <1>1, <1>2, <1>4 DEF QueueInv, QueueTypes
<1> QED
  BY <1>7, <1>8 DEF QueueInv

\* Numbers that increase up to last, and one that is larger.
LEMMA IncreasingAppend ==
    ASSUME NEW s \in Seq(Nat), NEW last \in Nat,
           \A m, n \in DOMAIN s : m < n => s[m] < s[n],
           Range(s) \subseteq 1..last
    PROVE  LET t == Append(s, last + 1) IN
           /\ t \in Seq(Nat)
           /\ \A m, n \in DOMAIN t : m < n => t[m] < t[n]
           /\ Range(t) = Range(s) \cup {last + 1}
<1> DEFINE t == Append(s, last + 1)
<1>1. /\ t \in Seq(Nat) /\ Len(t) = Len(s) + 1 /\ Len(s) \in Nat
      /\ DOMAIN t = 1..(Len(s) + 1) /\ DOMAIN s = 1..Len(s)
      /\ \A n \in 1..Len(s) : t[n] = s[n]
      /\ t[Len(s) + 1] = last + 1
  OBVIOUS
<1> HIDE DEF t
<1>2. \A n \in 1..Len(s) : s[n] \in 1..last
  BY <1>1 DEF Range
<1>3. ASSUME NEW m \in DOMAIN t, NEW n \in DOMAIN t, m < n PROVE t[m] < t[n]
  <2>1. m \in 1..Len(s) /\ t[m] = s[m]
    BY <1>1, <1>3
  <2>2. CASE n \in 1..Len(s)
    BY <1>1, <1>3, <2>1, <2>2
  <2>3. CASE n = Len(s) + 1
    <3>1. s[m] \in 1..last
      BY <1>2, <2>1
    <3> QED
      BY <1>1, <2>1, <2>3, <3>1
  <2> QED
    BY <1>1, <2>2, <2>3
<1>4. Range(t) = Range(s) \cup {last + 1}
  <2>1. DOMAIN t = DOMAIN s \cup {Len(s) + 1}
    BY <1>1
  <2> QED
    BY <1>1, <2>1 DEF Range
<1> QED
  BY <1>1, <1>3, <1>4 DEF t

\* The task takes the message with the next number, and writes it or drops it.
LEMMA SendKeepsQueueInv ==
    ASSUME QueueInv, Send
    PROVE  QueueInv'
<1>1. /\ submitted \in Nat /\ rx \in Seq(Message) /\ written \in Seq(Nat)
      /\ Len(rx) <= submitted /\ rx # <<>>
      /\ \A n \in 1..Len(rx) : rx[n].number = TakenSoFar + n
      /\ \A m, n \in DOMAIN written : m < n => written[m] < written[n]
      /\ Range(written) \cup dropped = 1..TakenSoFar
      /\ Range(written) \cap dropped = {}
  BY DEF QueueInv, QueueTypes, EachOnce, TakenSoFar, Send
<1>2. /\ rx' = Tail(rx) /\ UNCHANGED submitted
      /\ \/ written' = Append(written, rx[1].number) /\ UNCHANGED dropped
         \/ dropped' = dropped \cup {rx[1].number} /\ UNCHANGED written
  BY DEF Send, SendOrDrop
<1>3. /\ rx' \in Seq(Message) /\ Len(rx') = Len(rx) - 1 /\ Len(rx) \in Nat \ {0}
      /\ \A n \in 1..(Len(rx) - 1) : rx'[n] = rx[n + 1]
  BY <1>1, <1>2
<1>4. TakenSoFar \in Nat /\ TakenSoFar' = TakenSoFar + 1
  BY <1>1, <1>2, <1>3 DEF TakenSoFar
<1>5. rx[1].number = TakenSoFar + 1
  BY <1>1, <1>3
<1>6. ASSUME NEW n \in 1..Len(rx') PROVE rx'[n].number = TakenSoFar' + n
  <2>1. n + 1 \in 1..Len(rx) /\ rx'[n] = rx[n + 1]
    BY <1>3
  <2>2. rx[n + 1].number = TakenSoFar + (n + 1)
    BY <1>1, <2>1
  <2>3. TakenSoFar + (n + 1) = TakenSoFar' + n
    BY <1>4
  <2> QED
    BY <2>1, <2>2, <2>3
<1>7. 1..(TakenSoFar + 1) = (1..TakenSoFar) \cup {TakenSoFar + 1}
  BY <1>4
<1>8. /\ written' \in Seq(Nat)
      /\ \A m, n \in DOMAIN written' : m < n => written'[m] < written'[n]
      /\ Range(written') \cup dropped' = 1..TakenSoFar'
      /\ Range(written') \cap dropped' = {}
  <2>0. TakenSoFar + 1 \notin 1..TakenSoFar /\ Range(written) \subseteq 1..TakenSoFar
    BY <1>1, <1>4
  <2>1. CASE written' = Append(written, rx[1].number) /\ UNCHANGED dropped
    <3>1. /\ written' \in Seq(Nat)
          /\ \A m, n \in DOMAIN written' : m < n => written'[m] < written'[n]
          /\ Range(written') = Range(written) \cup {TakenSoFar + 1}
      BY <1>1, <1>4, <1>5, <2>0, <2>1, IncreasingAppend
    <3> QED
      BY <1>1, <1>4, <1>7, <2>0, <2>1, <3>1
  <2>2. CASE dropped' = dropped \cup {rx[1].number} /\ UNCHANGED written
    BY <1>1, <1>4, <1>5, <1>7, <2>0, <2>2
  <2> QED
    BY <1>2, <2>1, <2>2
<1>9. EachOnce'
  <2>1. \A n \in DOMAIN rx' : rx'[n].number = TakenSoFar' + n
    BY <1>3, <1>6
  <2> QED
    BY <1>8, <2>1 DEF EachOnce, TakenSoFar
<1>10. QueueTypes'
  BY <1>1, <1>2, <1>3, <1>8 DEF QueueTypes
<1> QED
  BY <1>9, <1>10 DEF QueueInv

LEMMA NextQueueInv == QueueInv /\ [Next]_vars => QueueInv'
<1> SUFFICES ASSUME QueueInv, [Next]_vars PROVE QueueInv'
  OBVIOUS
<1>1. ASSUME UNCHANGED queueVars PROVE QueueInv'
  BY <1>1 DEF QueueInv, QueueTypes, EachOnce, queueVars
<1>2. ASSUME NEW msg \in Replies, ServerSays(msg) PROVE UNCHANGED queueVars
  BY <1>2 DEF ServerSays
<1>3. ASSUME Break \/ ServerGoesOrComes \/ Abort PROVE UNCHANGED queueVars
  BY <1>3 DEF Break, ServerGoesOrComes, Abort
<1>4. ASSUME Reconnect \/ HeartbeatFails \/ ReadFails \/ TakeBuffered
      PROVE  UNCHANGED queueVars
  BY <1>4 DEF Reconnect, HeartbeatFails, ReadFails, TakeBuffered
<1>5. ASSUME NEW k \in ReadSizes, Read(k) PROVE UNCHANGED queueVars
  BY <1>5 DEF Read
<1>6. ASSUME UNCHANGED vars PROVE UNCHANGED queueVars
  BY <1>6 DEF vars
<1>7. ASSUME NEW encodes \in BOOLEAN, AppSends(encodes) PROVE QueueInv'
  BY <1>7, AppSendsKeepsQueueInv
<1>8. CASE Send
  BY <1>8, SendKeepsQueueInv
<1> QED
  BY <1>1, <1>2, <1>3, <1>4, <1>5, <1>6, <1>7, <1>8 DEF Next, ReadMessage

\* Whatever breaks and however often, the user's messages are written in the
\* order in which they were given, each at most once, and those taken from the
\* queue and not written are the dropped ones.
THEOREM WrittenOnce == Spec => []EachOnce
<1>1. QueueInv => EachOnce
  BY DEF QueueInv
<1>2. Spec => []QueueInv
  BY InitQueueInv, NextQueueInv, PTL DEF Spec
<1> QED
  BY <1>1, <1>2, PTL

-----------------------------------------------------------------------------
(* What the server says.                                                   *)

\* A line has no byte of value 1, which is what the version of a frame is.
LEMMA LineText ==
    ASSUME NEW msg \in OutputMessages
    PROVE  Line(msg) \in Seq(Text)
<1>. PICK fields : fields = Fields(msg)
  OBVIOUS
<1>1. fields \in Seq(Seq(Text)) /\ OutputLetter[msg.type] \in Text
  BY FieldsText
<1>. PICK parts : parts = [n \in DOMAIN fields |-> <<Comma, 32>> \o fields[n]]
  OBVIOUS
<1>2. DOMAIN fields = 1..Len(fields) /\ Len(fields) \in Nat
  BY <1>1
<1>3. <<Comma, 32>> \in Seq(Text)
  BY ONLY TextFacts
<1>4. ASSUME NEW n \in 1..Len(fields)
      PROVE  <<Comma, 32>> \o fields[n] \in Seq(Text)
  <2>1. fields[n] \in Seq(Text)
    BY ONLY <1>1, n \in 1..Len(fields)
  <2> QED
    BY ONLY <1>3, <2>1, ConcatProperties
<1>5. parts \in Seq(Seq(Text))
  BY <1>2, <1>4
<1>6. FlattenSeq(parts) \in Seq(Text)
  <2>1. PICK f : Flattens(f, Text, parts)
    BY ONLY <1>5, FlattenFacts
  <2>2. Len(parts) \in Nat
    BY ONLY <1>5
  <2> QED
    BY ONLY <2>1, <2>2 DEF Flattens
<1>7. <<OutputLetter[msg.type]>> \in Seq(Text)
  BY ONLY <1>1
<1>8. FormatOutputLegacy(msg) = <<OutputLetter[msg.type]>> \o FlattenSeq(parts)
  BY DEF FormatOutputLegacy, Formatted
<1>9. FormatOutputLegacy(msg) \in Seq(Text)
  BY ONLY <1>6, <1>7, <1>8, ConcatProperties
<1> QED
  BY ONLY <1>9, TextFacts, AppendProperties DEF Line

-----------------------------------------------------------------------------
(* What read_message takes from the front of the buffer.                   *)

\* Any four bytes make a length.
LEMMA FrameLenType ==
    ASSUME NEW buf \in Seq(Bytes), Len(buf) >= 4
    PROVE  FrameLen(buf) \in Nat
<1>. PICK t : t = SubSeq(buf, 1, 4)
  OBVIOUS
<1>. PICK r : r = Reverse(t)
  OBVIOUS
<1>1. Len(buf) \in Nat /\ \A i \in 1..4 : buf[i] \in Bytes
  OBVIOUS
<1>2. Len(t) = 4 /\ \A i \in 1..4 : t[i] \in Bytes
  <2>1. 1 \in Int /\ 4 \in Int /\ 4 - 1 + 1 = 4 /\ 1 <= 4
    OBVIOUS
  <2>2. /\ Len(t) = 4 /\ \A i \in 1..4 : t[i] = buf[1 + i - 1]
    BY <1>1, <2>1, SubSeqProperties
  <2>3. \A i \in 1..4 : 1 + i - 1 = i
    OBVIOUS
  <2> QED
    BY <1>1, <2>2, <2>3
<1>3. \A i \in 1..4 : r[i] \in Bytes
  <2>1. r = [i \in 1..4 |-> t[(4 - i) + 1]]
    BY <1>2 DEF Reverse
  <2>2. \A i \in 1..4 : (4 - i) + 1 \in 1..4
    OBVIOUS
  <2> QED
    BY <1>2, <2>1, <2>2
<1>4. r[1] \in Nat /\ r[2] \in Nat /\ r[3] \in Nat /\ r[4] \in Nat
  <2>1. r[1] \in Bytes /\ r[2] \in Bytes /\ r[3] \in Bytes /\ r[4] \in Bytes
    BY ONLY <1>3
  <2>2. Bytes \subseteq Nat
    BY DEF Bytes
  <2> QED
    BY ONLY <2>1, <2>2
<1>5. U32At(r, 0) = ((r[1] * 256 + r[2]) * 256 + r[3]) * 256 + r[4]
  <2>1. 0 + 1 = 1 /\ 1 + 1 = 2 /\ 2 + 1 = 3 /\ 3 + 1 = 4
    OBVIOUS
  <2> QED
    BY <2>1 DEF U32At, ByteAt
<1>6. U32At(r, 0) \in Nat
  <2>1. r[1] * 256 + r[2] \in Nat
    BY ONLY <1>4
  <2>2. (r[1] * 256 + r[2]) * 256 + r[3] \in Nat
    BY ONLY <1>4, <2>1, SMTT(20)
  <2>3. ((r[1] * 256 + r[2]) * 256 + r[3]) * 256 + r[4] \in Nat
    BY ONLY <1>4, <2>2, SMTT(20)
  <2> QED
    BY ONLY <1>5, <2>3
<1> QED
  BY <1>6 DEF FrameLen

\* A frame: four bytes that give the length of the payload, and the payload,
\* which decodes to the message.
Frames(F, payload, msg) ==
    /\ F \in Seq(Bytes) /\ payload \in Seq(Bytes) /\ Len(payload) \in Nat
    /\ Len(F) = 4 + Len(payload)
    /\ \A i \in 1..Len(payload) : F[4 + i] = payload[i]
    /\ DecodeOutput(payload) = <<msg>>
    /\ \A buf \in Seq(Bytes) :
         Len(buf) >= 4 /\ (\A i \in 1..4 : buf[i] = F[i]) => FrameLen(buf) = Len(payload)

LEMMA SmallFits ==
    ASSUME NEW n \in 4..400
    PROVE  Fits(n)
<1>1. n \in Nat /\ n \div 256 \in 0..1
  OBVIOUS
<1>. PICK m : m = n \div 256
  OBVIOUS
<1>2. m \div 256 = 0
  BY <1>1
<1>3. 0 \div 256 = 0
  OBVIOUS
<1>4. U32(n)[1] = 0
  BY <1>2, <1>3 DEF U32
<1> QED
  BY <1>1, <1>4 DEF Fits, Bytes

LEMMA FrameFacts ==
    ASSUME NEW msg \in Replies
    PROVE  \E payload : Frames(Frame(msg), payload, msg)
<1>1. msg \in OutputMessages /\ Encodable(msg)
  BY EngineConnectionAssumption
<1>2. PICK p : EncodeOutput(msg) = <<p>> /\ CarriesOutput(p, msg)
  BY <1>1, OutputCarried
<1>3. p \in Seq(Bytes) /\ Len(p) \in 4..400 /\ DecodeOutput(p) = <<msg>>
  BY <1>2 DEF CarriesOutput
<1>. PICK n : n = Len(p)
  OBVIOUS
<1>. PICK u : u = U32(n)
  OBVIOUS
<1>. PICK r : r = Reverse(u)
  OBVIOUS
<1>. PICK F : F = r \o p
  OBVIOUS
<1>4. n \in Nat
  <2>1. n \in 4..400
    BY ONLY <1>3, n = Len(p)
  <2>2. \A k \in 4..400 : k \in Nat
    OBVIOUS
  <2> QED
    BY ONLY <2>1, <2>2
<1>5. u \in Seq(Bytes) /\ Len(u) = 4 /\ U32At(u, 0) = n
  <2>1. Fits(n)
    BY ONLY <1>3, n = Len(p), SmallFits
  <2>2. u \in Seq(Bytes) /\ Len(u) = 4
    BY ONLY <2>1, u = U32(n), U32Inverse
  <2>3. Has(u, 0, u)
    BY ONLY <2>2, HasSelf
  <2> QED
    BY ONLY <2>1, <2>2, <2>3, u = U32(n), U32Inverse
<1>6. r \in Seq(Bytes) /\ Len(r) = 4 /\ \A i \in 1..4 : r[i] = u[(4 - i) + 1]
  <2>1. r = [i \in 1..4 |-> u[(4 - i) + 1]]
    BY <1>5 DEF Reverse
  <2>2. \A i \in 1..4 : (4 - i) + 1 \in 1..4
    OBVIOUS
  <2>3. \A i \in 1..4 : u[(4 - i) + 1] \in Bytes
    <3>1. \A i \in 1..4 : u[i] \in Bytes
      BY ONLY <1>5, SMTT(20)
    <3> QED
      BY ONLY <2>2, <3>1
  <2> QED
    BY ONLY <2>1, <2>3
<1>7. Frame(msg) = F
  BY <1>2 DEF Frame, FramedLittleEndian
<1>8. /\ F \in Seq(Bytes) /\ Len(F) = 4 + n
      /\ \A i \in 1..(4 + n) : F[i] = IF i <= 4 THEN r[i] ELSE p[i - 4]
  <2>1. /\ F \in Seq(Bytes) /\ Len(F) = Len(r) + Len(p)
        /\ \A i \in 1..(Len(r) + Len(p)) : F[i] = IF i <= Len(r) THEN r[i] ELSE p[i - Len(r)]
    BY ONLY <1>3, <1>6, F = r \o p, ConcatProperties
  <2> QED
    BY <1>6, <2>1
<1>9. ASSUME NEW i \in 1..n PROVE F[4 + i] = p[i]
  <2>1. 4 + i \in 1..(4 + n) /\ ~(4 + i <= 4) /\ (4 + i) - 4 = i
    BY ONLY <1>4, i \in 1..n
  <2> QED
    BY ONLY <1>8, <2>1
<1>10. \A i \in 1..4 : F[i] = r[i]
  <2>1. \A i \in 1..4 : i \in 1..(4 + n) /\ i <= 4
    BY ONLY <1>4
  <2> QED
    BY ONLY <1>8, <2>1
<1>11. ASSUME NEW buf \in Seq(Bytes), Len(buf) >= 4, \A i \in 1..4 : buf[i] = F[i]
       PROVE  FrameLen(buf) = n
  <2>. PICK t : t = SubSeq(buf, 1, 4)
    OBVIOUS
  <2>. PICK v : v = Reverse(t)
    OBVIOUS
  <2>1. Len(t) = 4 /\ \A i \in 1..4 : t[i] = r[i]
    <3>1. 1 \in Int /\ 4 \in Int /\ 4 - 1 + 1 = 4 /\ 1 <= 4
      OBVIOUS
    <3>2. \A i \in 1..4 : buf[i] \in Bytes
      BY ONLY <1>11
    <3>3. /\ Len(t) = 4 /\ \A i \in 1..4 : t[i] = buf[1 + i - 1]
      BY <3>1, <3>2, SubSeqProperties
    <3>4. \A i \in 1..4 : 1 + i - 1 = i
      OBVIOUS
    <3> QED
      BY ONLY <1>10, <1>11, <3>3, <3>4
  <2>2. \A i \in 1..4 : v[i] = t[(4 - i) + 1]
    BY <2>1 DEF Reverse
  <2>3. \A i \in 1..4 : (4 - i) + 1 \in 1..4 /\ (4 - ((4 - i) + 1)) + 1 = i
    OBVIOUS
  <2>4. \A i \in 1..4 : v[i] = u[i]
    BY ONLY <1>6, <2>1, <2>2, <2>3
  <2>5. v[1] = u[1] /\ v[2] = u[2] /\ v[3] = u[3] /\ v[4] = u[4]
    BY ONLY <2>4
  <2>6. U32At(v, 0) = U32At(u, 0)
    <3>1. 0 + 1 = 1 /\ 1 + 1 = 2 /\ 2 + 1 = 3 /\ 3 + 1 = 4
      OBVIOUS
    <3> QED
      BY ONLY <2>5, <3>1 DEF U32At, ByteAt
  <2> QED
    BY <1>5, <2>6 DEF FrameLen
<1>12. Frames(F, p, msg)
  BY <1>3, <1>4, <1>8, <1>9, <1>11 DEF Frames
<1> QED
  BY <1>7, <1>12

-----------------------------------------------------------------------------
(* What is on the way.                                                     *)

\* The frames of what has been said and not been given to the App.
Remaining(said, given) ==
    [n \in 1..(Len(said) - Len(given)) |-> Frame(said[Len(given) + n])]

Leads(given, said) ==
    /\ said \in Seq(Replies) /\ given \in Seq(Replies)
    /\ Len(given) <= Len(said)
    /\ \A i \in 1..Len(given) : given[i] = said[i]

\* The buffer, the socket and what was lost behind them make up those frames.
OnTheWay(buf, rest, lost, said, given) ==
    /\ buf \in Seq(Bytes) /\ rest \in Seq(Bytes) /\ lost \in Seq(Bytes)
    /\ (buf \o rest) \o lost = FlattenSeq(Remaining(said, given))

LEMMA FrameType ==
    ASSUME NEW msg \in Replies
    PROVE  Frame(msg) \in Seq(Bytes)
  BY FrameFacts DEF Frames

LEMMA RemainingFacts ==
    ASSUME NEW said, NEW given, Leads(given, said)
    PROVE  /\ Remaining(said, given) \in Seq(Seq(Bytes))
           /\ Len(Remaining(said, given)) = Len(said) - Len(given)
           /\ \A n \in 1..(Len(said) - Len(given)) :
                /\ Len(given) + n \in 1..Len(said)
                /\ Remaining(said, given)[n] = Frame(said[Len(given) + n])
           /\ Len(said) \in Nat /\ Len(given) \in Nat /\ Len(given) <= Len(said)
<1>. PICK a : a = Len(said)
  OBVIOUS
<1>. PICK b : b = Len(given)
  OBVIOUS
<1>1. a \in Nat /\ b \in Nat /\ b <= a
  BY DEF Leads
<1>2. ASSUME NEW n \in 1..(a - b)
      PROVE  b + n \in 1..a /\ Frame(said[b + n]) \in Seq(Bytes)
  <2>1. b + n \in 1..a
    BY ONLY <1>1, n \in 1..(a - b)
  <2>2. said[b + n] \in Replies
    BY <2>1 DEF Leads
  <2> QED
    BY <2>1, <2>2, FrameType
<1>3. a - b \in Nat
  BY ONLY <1>1
<1>4. Remaining(said, given) = [n \in 1..(a - b) |-> Frame(said[b + n])]
  BY DEF Remaining
<1>5. /\ Remaining(said, given) \in Seq(Seq(Bytes))
      /\ Len(Remaining(said, given)) = a - b
      /\ \A n \in 1..(a - b) : Remaining(said, given)[n] = Frame(said[b + n])
  BY ONLY <1>2, <1>3, <1>4
<1> QED
  BY <1>1, <1>2, <1>5

\* The server says one thing more.
LEMMA RemainingMore ==
    ASSUME NEW said, NEW given, Leads(given, said), NEW msg \in Replies
    PROVE  /\ Leads(given, Append(said, msg))
           /\ FlattenSeq(Remaining(said, given)) \in Seq(Bytes)
           /\ FlattenSeq(Remaining(Append(said, msg), given)) =
                FlattenSeq(Remaining(said, given)) \o Frame(msg)
<1>. PICK more : more = Append(said, msg)
  OBVIOUS
<1>. PICK a : a = Len(said)
  OBVIOUS
<1>. PICK b : b = Len(given)
  OBVIOUS
<1>1. said \in Seq(Replies) /\ given \in Seq(Replies)
  BY DEF Leads
<1>2. /\ more \in Seq(Replies) /\ Len(more) = a + 1
      /\ \A i \in 1..a : more[i] = said[i]
      /\ more[a + 1] = msg
  BY <1>1, AppendProperties
<1>3. a \in Nat /\ b \in Nat /\ b <= a
  BY DEF Leads
<1>4. Leads(given, more)
  <2>1. \A i \in 1..b : given[i] = said[i] /\ i \in 1..a
    BY <1>3 DEF Leads
  <2>2. \A i \in 1..b : given[i] = more[i]
    BY ONLY <1>2, <2>1
  <2>3. b <= a + 1
    BY ONLY <1>3
  <2> QED
    BY <1>1, <1>2, <2>2, <2>3 DEF Leads
<1>. PICK r : r = Remaining(said, given)
  OBVIOUS
<1>. PICK t : t = Remaining(more, given)
  OBVIOUS
<1>5. /\ r \in Seq(Seq(Bytes)) /\ Len(r) = a - b
      /\ \A n \in 1..(a - b) : b + n \in 1..a /\ r[n] = Frame(said[b + n])
  BY RemainingFacts
<1>6. /\ t \in Seq(Seq(Bytes)) /\ Len(t) = (a + 1) - b
      /\ \A n \in 1..((a + 1) - b) : t[n] = Frame(more[b + n])
  <2>1. /\ t \in Seq(Seq(Bytes)) /\ Len(t) = Len(more) - Len(given)
        /\ \A n \in 1..(Len(more) - Len(given)) : t[n] = Frame(more[Len(given) + n])
    BY <1>4, RemainingFacts
  <2> QED
    BY <1>2, <2>1
<1>. PICK x : x = Append(r, Frame(msg))
  OBVIOUS
<1>7. /\ x \in Seq(Seq(Bytes)) /\ Len(x) = (a - b) + 1
      /\ \A n \in 1..(a - b) : x[n] = r[n]
      /\ x[(a - b) + 1] = Frame(msg)
  <2>1. Frame(msg) \in Seq(Bytes)
    BY FrameType
  <2>2. /\ x \in Seq(Seq(Bytes)) /\ Len(x) = Len(r) + 1
        /\ \A n \in 1..Len(r) : x[n] = r[n]
        /\ x[Len(r) + 1] = Frame(msg)
    BY <1>5, <2>1, AppendProperties
  <2> QED
    BY <1>5, <2>2
<1>8. ASSUME NEW n \in 1..((a - b) + 1) PROVE x[n] = t[n]
  <2>1. n \in 1..((a + 1) - b) /\ (n \in 1..(a - b) \/ n = (a - b) + 1)
    BY ONLY <1>3, n \in 1..((a - b) + 1)
  <2>2. CASE n \in 1..(a - b)
    <3>1. x[n] = r[n]
      BY ONLY <1>7, <2>2
    <3>2. b + n \in 1..a /\ r[n] = Frame(said[b + n])
      BY ONLY <1>5, <2>2
    <3>3. more[b + n] = said[b + n]
      BY ONLY <1>2, <3>2
    <3>4. t[n] = Frame(more[b + n])
      BY ONLY <1>6, <2>1
    <3> QED
      BY ONLY <3>1, <3>2, <3>3, <3>4
  <2>3. CASE n = (a - b) + 1
    <3>1. b + n = a + 1
      BY ONLY <1>3, <2>3
    <3> QED
      BY ONLY <1>2, <1>6, <1>7, <2>1, <2>3, <3>1
  <2> QED
    BY <2>1, <2>2, <2>3
<1>9. x = t
  <2>1. (a - b) + 1 = (a + 1) - b
    BY ONLY <1>3
  <2> QED
    BY ONLY <1>6, <1>7, <1>8, <2>1, SeqEqual
<1>10. FlattenSeq(r) \in Seq(Bytes) /\ FlattenSeq(x) = FlattenSeq(r) \o Frame(msg)
  BY <1>5, FrameType, FlattenAppend
<1> QED
  BY <1>4, <1>9, <1>10

\* The App is given the first of it.
LEMMA RemainingLess ==
    ASSUME NEW said, NEW given, Leads(given, said), Len(given) < Len(said),
           NEW msg, msg = said[Len(given) + 1]
    PROVE  /\ msg \in Replies
           /\ Leads(Append(given, msg), said)
           /\ FlattenSeq(Remaining(said, Append(given, msg))) \in Seq(Bytes)
           /\ FlattenSeq(Remaining(said, given)) =
                Frame(msg) \o FlattenSeq(Remaining(said, Append(given, msg)))
<1>. PICK more : more = Append(given, msg)
  OBVIOUS
<1>. PICK a : a = Len(said)
  OBVIOUS
<1>. PICK b : b = Len(given)
  OBVIOUS
<1>1. said \in Seq(Replies) /\ given \in Seq(Replies)
  BY DEF Leads
<1>2. a \in Nat /\ b \in Nat /\ b < a /\ b + 1 \in 1..a
  <2>1. a \in Nat /\ b \in Nat /\ b < a
    BY <1>1
  <2> QED
    BY ONLY <2>1
<1>3. msg \in Replies /\ msg = said[b + 1]
  BY <1>1, <1>2
<1>4. /\ more \in Seq(Replies) /\ Len(more) = b + 1
      /\ \A i \in 1..b : more[i] = given[i]
      /\ more[b + 1] = msg
  BY <1>1, <1>3, AppendProperties
<1>5. Leads(more, said)
  <2>1. \A i \in 1..b : given[i] = said[i]
    BY DEF Leads
  <2>2. \A i \in 1..(b + 1) : more[i] = said[i]
    <3>1. \A i \in 1..(b + 1) : i \in 1..b \/ i = b + 1
      BY ONLY <1>2
    <3> QED
      BY ONLY <1>3, <1>4, <2>1, <3>1
  <2>3. b + 1 <= a
    BY ONLY <1>2
  <2> QED
    BY <1>1, <1>4, <2>2, <2>3 DEF Leads
<1>. PICK r : r = Remaining(said, given)
  OBVIOUS
<1>. PICK t : t = Remaining(said, more)
  OBVIOUS
<1>6. /\ r \in Seq(Seq(Bytes)) /\ Len(r) = a - b
      /\ \A n \in 1..(a - b) : r[n] = Frame(said[b + n])
  BY RemainingFacts
<1>7. /\ t \in Seq(Seq(Bytes)) /\ Len(t) = a - (b + 1)
      /\ \A n \in 1..(a - (b + 1)) : t[n] = Frame(said[(b + 1) + n])
  <2>1. /\ t \in Seq(Seq(Bytes)) /\ Len(t) = Len(said) - Len(more)
        /\ \A n \in 1..(Len(said) - Len(more)) : t[n] = Frame(said[Len(more) + n])
    BY ONLY <1>5, t = Remaining(said, more), RemainingFacts
  <2> QED
    BY <1>4, <2>1
<1>8. r[1] = Frame(msg) /\ Len(r) = Len(t) + 1
  <2>1. 1 \in 1..(a - b) /\ (a - b) = (a - (b + 1)) + 1
    BY ONLY <1>2
  <2> QED
    BY ONLY <1>3, <1>6, <1>7, <2>1
<1>9. ASSUME NEW n \in 1..Len(t) PROVE r[n + 1] = t[n]
  <2>1. n \in 1..(a - (b + 1))
    BY <1>7
  <2>2. n + 1 \in 1..(a - b) /\ b + (n + 1) = (b + 1) + n
    BY ONLY <1>2, <2>1
  <2> QED
    BY ONLY <1>6, <1>7, <2>1, <2>2
<1>10. FlattenSeq(t) \in Seq(Bytes)
  <2>1. PICK f : Flattens(f, Bytes, t)
    BY ONLY <1>7, FlattenFacts
  <2>2. Len(t) \in Nat
    BY ONLY <1>7
  <2> QED
    BY ONLY <2>1, <2>2 DEF Flattens
<1>11. FlattenSeq(r) = Frame(msg) \o FlattenSeq(t)
  <2>1. Frame(msg) \in Seq(Bytes)
    BY <1>3, FrameType
  <2> QED
    BY ONLY <1>6, <1>7, <1>8, <1>9, <2>1, FlattenCons
<1> QED
  BY <1>3, <1>5, <1>10, <1>11

Makes(buf, rest, lost, F, R) ==
    /\ buf \in Seq(Bytes) /\ rest \in Seq(Bytes) /\ lost \in Seq(Bytes)
    /\ F \in Seq(Bytes) /\ R \in Seq(Bytes)
    /\ (buf \o rest) \o lost = F \o R

\* What a sequence starts with, if it is known in two ways.
LEMMA SameFront ==
    ASSUME NEW buf, NEW rest, NEW lost, NEW F, NEW R, Makes(buf, rest, lost, F, R)
    PROVE  \A i \in 1..Len(buf) : i <= Len(F) => buf[i] = F[i]
<1>0. /\ buf \in Seq(Bytes) /\ rest \in Seq(Bytes) /\ lost \in Seq(Bytes)
      /\ F \in Seq(Bytes) /\ R \in Seq(Bytes)
      /\ (buf \o rest) \o lost = F \o R
  BY DEF Makes
<1>. PICK w : w = buf \o rest
  OBVIOUS
<1>. PICK z : z = F \o R
  OBVIOUS
<1>. PICK b : b = Len(buf)
  OBVIOUS
<1>. PICK k : k = Len(F)
  OBVIOUS
<1>1. b \in Nat /\ k \in Nat /\ Len(rest) \in Nat /\ Len(lost) \in Nat /\ Len(R) \in Nat
  BY <1>0
<1>2. /\ w \in Seq(Bytes) /\ Len(w) = b + Len(rest)
      /\ \A i \in 1..(b + Len(rest)) : w[i] = IF i <= b THEN buf[i] ELSE rest[i - b]
  BY <1>0, ConcatProperties
<1>3. \A i \in 1..(Len(w) + Len(lost)) : z[i] = IF i <= Len(w) THEN w[i] ELSE lost[i - Len(w)]
  <2>1. z = w \o lost
    BY <1>0
  <2>2. w \in Seq(Bytes) /\ lost \in Seq(Bytes)
    BY <1>0, <1>2
  <2> QED
    BY ONLY <2>1, <2>2, ConcatProperties
<1>4. \A i \in 1..(k + Len(R)) : z[i] = IF i <= k THEN F[i] ELSE R[i - k]
  BY <1>0, ConcatProperties
<1>5. ASSUME NEW i \in 1..b, i <= k
      PROVE  buf[i] = F[i]
  <2>1. /\ i \in 1..(b + Len(rest)) /\ i <= b /\ i \in 1..(k + Len(R))
        /\ i \in 1..((b + Len(rest)) + Len(lost)) /\ i <= b + Len(rest)
    BY ONLY <1>1, <1>5, i \in 1..b
  <2>2. w[i] = buf[i]
    BY ONLY <1>2, <2>1
  <2>3. z[i] = w[i]
    BY ONLY <1>2, <1>3, <2>1
  <2>4. z[i] = F[i]
    BY ONLY <1>4, <1>5, <2>1
  <2> QED
    BY ONLY <2>2, <2>3, <2>4
<1> QED
  BY <1>5

Joins(buf, rest, lost, R) ==
    buf \in Seq(Bytes) /\ (buf \o rest) \o lost = R

\* A whole frame at the front of the buffer: the rest follows it.
LEMMA SplitFrame ==
    ASSUME NEW buf, NEW rest, NEW lost, NEW F, NEW R, Makes(buf, rest, lost, F, R),
           Len(F) <= Len(buf), NEW after,
           after = SubSeq(buf, Len(F) + 1, Len(buf))
    PROVE  Joins(after, rest, lost, R)
<1>0. /\ buf \in Seq(Bytes) /\ rest \in Seq(Bytes) /\ lost \in Seq(Bytes)
      /\ F \in Seq(Bytes) /\ R \in Seq(Bytes)
      /\ (buf \o rest) \o lost = F \o R
  BY DEF Makes
<1>. PICK k : k = Len(F)
  OBVIOUS
<1>. PICK b : b = Len(buf)
  OBVIOUS
<1>. PICK x : x = SubSeq(buf, 1, k)
  OBVIOUS
<1>1. k \in Nat /\ b \in Nat /\ k <= b
  BY <1>0
<1>2. \A i \in 1..b : buf[i] \in Bytes
  BY <1>0, ElementOfSeq
<1>3. x \in Seq(Bytes) /\ Len(x) = k /\ \A i \in 1..k : x[i] = buf[i]
  <2>1. \A i \in 1..k : i \in 1..b
    BY ONLY <1>1
  <2>2. /\ 1 \in Int /\ k \in Int /\ (k - 1) + 1 = k
        /\ (IF 1 <= k THEN (k - 1) + 1 ELSE 0) = k
    BY ONLY <1>1
  <2>3. \A i \in 1..k : (1 + i) - 1 = i
    BY ONLY <1>1
  <2>4. /\ SubSeq(buf, 1, k) \in Seq(Bytes)
        /\ Len(SubSeq(buf, 1, k)) = IF 1 <= k THEN (k - 1) + 1 ELSE 0
        /\ \A i \in 1..((k - 1) + 1) : SubSeq(buf, 1, k)[i] = buf[(1 + i) - 1]
    BY ONLY <1>2, <2>1, <2>2, SubSeqProperties
  <2> QED
    BY ONLY <2>2, <2>3, <2>4, x = SubSeq(buf, 1, k)
<1>4. after \in Seq(Bytes)
  <2>1. \A i \in (k + 1)..b : i \in 1..b
    BY ONLY <1>1
  <2>2. k + 1 \in Int /\ b \in Int
    BY ONLY <1>1
  <2>3. SubSeq(buf, k + 1, b) \in Seq(Bytes)
    BY ONLY <1>2, <2>1, <2>2, SubSeqProperties
  <2> QED
    BY <2>3
<1>5. buf = x \o after
  <2>1. 1 \in 1..(b + 1) /\ k \in (1 - 1)..b /\ b \in k..b
    BY ONLY <1>1
  <2>2. SubSeq(buf, 1, k) \o SubSeq(buf, k + 1, b) = SubSeq(buf, 1, b)
    BY ONLY <1>0, <2>1, b = Len(buf), ConcatAdjacentSubSeq
  <2>3. SubSeq(buf, 1, b) = buf
    BY <1>0, SubSeqFull
  <2> QED
    BY <2>2, <2>3
<1>6. x = F
  <2>1. \A i \in 1..k : i \in 1..b /\ i <= k
    BY ONLY <1>1
  <2>2. \A i \in 1..k : buf[i] = F[i]
    BY <2>1, SameFront
  <2>3. \A i \in 1..Len(x) : x[i] = F[i]
    BY ONLY <1>3, <2>2
  <2> QED
    BY ONLY <1>0, <1>3, <2>3, k = Len(F), SeqEqual
<1>. PICK t : t = after \o rest
  OBVIOUS
<1>7. t \in Seq(Bytes)
  BY ONLY <1>0, <1>4, t = after \o rest, ConcatProperties
<1>8. (buf \o rest) \o lost = F \o (t \o lost)
  <2>1. (F \o after) \o rest = F \o t
    <3>1. Associates(F, after, rest)
      BY ONLY <1>0, <1>4, ConcatAssociates
    <3> QED
      BY ONLY <3>1, t = after \o rest DEF Associates
  <2>2. (F \o t) \o lost = F \o (t \o lost)
    <3>1. Associates(F, t, lost)
      BY ONLY <1>0, <1>7, ConcatAssociates
    <3> QED
      BY ONLY <3>1 DEF Associates
  <2>3. buf \o rest = F \o t
    BY ONLY <1>5, <1>6, <2>1
  <2> QED
    BY ONLY <2>2, <2>3
<1>9. t \o lost \in Seq(Bytes)
  BY ONLY <1>0, <1>7, ConcatProperties
<1>10. F \o (t \o lost) = F \o R
  BY ONLY <1>0, <1>8
<1>11. t \o lost = R
  BY ONLY <1>0, <1>9, <1>10, ConcatSimplifications
<1> QED
  BY <1>4, <1>11 DEF Joins

\* A frame that is taken from the buffer is the next one, whole.
LEMMA TakeFrame ==
    ASSUME NEW buf, NEW rest, NEW lost, NEW said, NEW given,
           Leads(given, said), OnTheWay(buf, rest, lost, said, given),
           Complete(buf), NEW end, end = 4 + FrameLen(buf)
    PROVE  \E msg \in Replies :
             /\ DecodeOutput(SubSeq(buf, 5, end)) = <<msg>>
             /\ Leads(Append(given, msg), said)
             /\ OnTheWay(SubSeq(buf, end + 1, Len(buf)), rest, lost, said,
                         Append(given, msg))
<1>1. /\ buf \in Seq(Bytes) /\ rest \in Seq(Bytes) /\ lost \in Seq(Bytes)
      /\ (buf \o rest) \o lost = FlattenSeq(Remaining(said, given))
  BY DEF OnTheWay
<1>2. Len(buf) >= 4 /\ Len(buf) >= end /\ Len(buf) \in Nat
  BY <1>1 DEF Complete
<1>3. Len(given) < Len(said)
  <2>1. SUFFICES ASSUME ~(Len(given) < Len(said)) PROVE FALSE
    OBVIOUS
  <2>2. /\ Remaining(said, given) \in Seq(Seq(Bytes))
        /\ Len(Remaining(said, given)) = Len(said) - Len(given)
        /\ Len(said) \in Nat /\ Len(given) \in Nat /\ Len(given) <= Len(said)
    BY RemainingFacts
  <2>3. Len(Remaining(said, given)) = 0
    BY ONLY <2>1, <2>2
  <2>4. Remaining(said, given) = <<>>
    BY ONLY <2>2, <2>3, EmptySeq
  <2>5. FlattenSeq(Remaining(said, given)) = <<>>
    BY <2>4 DEF FlattenSeq
  <2>6. /\ Len(buf \o rest) = Len(buf) + Len(rest)
        /\ Len((buf \o rest) \o lost) = Len(buf \o rest) + Len(lost)
        /\ Len(rest) \in Nat /\ Len(lost) \in Nat
    <3>1. buf \o rest \in Seq(Bytes) /\ Len(buf \o rest) = Len(buf) + Len(rest)
      BY ONLY <1>1, ConcatProperties
    <3>2. Len((buf \o rest) \o lost) = Len(buf \o rest) + Len(lost)
      BY ONLY <1>1, <3>1, ConcatProperties
    <3>3. Len(rest) \in Nat /\ Len(lost) \in Nat
      BY ONLY <1>1, LenProperties
    <3> QED
      BY ONLY <3>1, <3>2, <3>3
  <2>7. Len(FlattenSeq(Remaining(said, given))) = 0
    BY ONLY <2>5, EmptySeq
  <2> QED
    BY ONLY <1>1, <1>2, <2>6, <2>7
<1>. PICK msg : msg = said[Len(given) + 1]
  OBVIOUS
<1>20. /\ msg \in Replies
       /\ Leads(Append(given, msg), said)
       /\ FlattenSeq(Remaining(said, Append(given, msg))) \in Seq(Bytes)
       /\ FlattenSeq(Remaining(said, given)) =
            Frame(msg) \o FlattenSeq(Remaining(said, Append(given, msg)))
  BY ONLY Leads(given, said), <1>3, msg = said[Len(given) + 1], RemainingLess
<1>. PICK more : more = Append(given, msg)
  OBVIOUS
<1>. PICK R : R = FlattenSeq(Remaining(said, more))
  OBVIOUS
<1>. PICK F : F = Frame(msg)
  OBVIOUS
<1>4. /\ msg \in Replies /\ Leads(more, said) /\ R \in Seq(Bytes)
      /\ FlattenSeq(Remaining(said, given)) = F \o R
  BY ONLY <1>20, more = Append(given, msg),
          R = FlattenSeq(Remaining(said, more)), F = Frame(msg)
<1>5. PICK payload : Frames(F, payload, msg)
  BY <1>4, FrameFacts
<1>6. /\ F \in Seq(Bytes) /\ payload \in Seq(Bytes) /\ Len(payload) \in Nat
      /\ Len(F) = 4 + Len(payload)
      /\ \A i \in 1..Len(payload) : F[4 + i] = payload[i]
      /\ DecodeOutput(payload) = <<msg>>
      /\ Len(buf) >= 4 /\ (\A i \in 1..4 : buf[i] = F[i]) => FrameLen(buf) = Len(payload)
  BY ONLY <1>1, <1>5 DEF Frames
<1>7. Makes(buf, rest, lost, F, R)
  BY ONLY <1>1, <1>4, <1>6 DEF Makes
<1>8. \A i \in 1..Len(buf) : i <= Len(F) => buf[i] = F[i]
  BY ONLY <1>7, SameFront
<1>9. \A i \in 1..4 : buf[i] = F[i]
  <2>1. \A i \in 1..4 : i \in 1..Len(buf) /\ i <= Len(F)
    BY ONLY <1>2, <1>6
  <2> QED
    BY ONLY <1>8, <2>1
<1>10. FrameLen(buf) = Len(payload) /\ end = Len(F) /\ end = 4 + Len(payload)
  BY <1>2, <1>6, <1>9
<1>11. SubSeq(buf, 5, end) = payload
  <2>. PICK n : n = Len(payload)
    OBVIOUS
  <2>. PICK t : t = SubSeq(buf, 5, end)
    OBVIOUS
  <2>1. n \in Nat /\ end = 4 + n
    BY <1>6, <1>10
  <2>2. \A i \in 5..end : i \in 1..Len(buf)
    BY ONLY <1>2, <2>1
  <2>3. \A i \in 5..end : buf[i] \in Bytes
    BY ONLY <1>1, <2>2, ElementOfSeq
  <2>4. /\ 5 \in Int /\ end \in Int /\ (end - 5) + 1 = n
        /\ (IF 5 <= end THEN (end - 5) + 1 ELSE 0) = n
    BY ONLY <2>1
  <2>5. /\ t \in Seq(Bytes) /\ Len(t) = n
        /\ \A i \in 1..n : t[i] = buf[(5 + i) - 1]
    BY ONLY <2>3, <2>4, t = SubSeq(buf, 5, end), SubSeqProperties
  <2>6. ASSUME NEW i \in 1..n PROVE t[i] = payload[i]
    <3>1. (5 + i) - 1 = 4 + i /\ 4 + i \in 1..Len(buf) /\ 4 + i <= Len(F)
      BY ONLY <1>2, <1>6, <2>1, i \in 1..n, n = Len(payload)
    <3> QED
      BY ONLY <1>6, <1>8, <2>5, <3>1, i \in 1..n, n = Len(payload)
  <2> QED
    BY ONLY <1>6, <2>5, <2>6, n = Len(payload), t = SubSeq(buf, 5, end), SeqEqual
<1>. PICK after : after = SubSeq(buf, Len(F) + 1, Len(buf))
  OBVIOUS
<1>12. Joins(after, rest, lost, R)
  <2>1. Len(F) <= Len(buf)
    BY ONLY <1>2, <1>10
  <2> QED
    BY ONLY <1>7, <2>1, after = SubSeq(buf, Len(F) + 1, Len(buf)), SplitFrame
<1>13. OnTheWay(after, rest, lost, said, more)
  BY <1>1, <1>12 DEF OnTheWay, Joins
<1>14. SubSeq(buf, end + 1, Len(buf)) = after
  BY <1>10
<1> QED
  BY <1>4, <1>6, <1>11, <1>13, <1>14

-----------------------------------------------------------------------------
(* The invariant of the connection.                                        *)

ConnectionTypes ==
    /\ dialect \in {"frames", "csv"}
    /\ link \in {"open", "closed", "reset", "none"}
    /\ leftover \in BOOLEAN
    /\ read_buffer \in Seq(Bytes) /\ inbound \in Seq(Bytes)
    /\ told \in Seq(Replies)
    /\ task = "backoff" => link = "none"
    /\ link = "none" => inbound = <<>>

\* What an open connection has not lost, and a closing one may have.
Arriving(buf, rest) ==
    \E lost : /\ OnTheWay(buf, rest, lost, told, heard)
              /\ link = "open" => lost = <<>>

FramesArrive ==
    dialect = "frames" /\ ~leftover =>
      /\ Leads(heard, told)
      /\ link # "none" => Arriving(read_buffer, inbound)

LinesOnly ==
    dialect = "csv" =>
      heard = <<>> /\ read_buffer \in Seq(Text) /\ inbound \in Seq(Text)

ConnectionInv == ConnectionTypes /\ FramesArrive /\ LinesOnly

LEMMA NothingSaid ==
    /\ Leads(<<>>, <<>>)
    /\ OnTheWay(<<>>, <<>>, <<>>, <<>>, <<>>)
<1>1. <<>> \in Seq(Replies) /\ <<>> \in Seq(Bytes) /\ Len(<<>>) = 0
  BY EmptySeq
<1>2. Leads(<<>>, <<>>)
  <2>1. 0 <= 0 /\ \A i \in 1..0 : FALSE
    OBVIOUS
  <2> QED
    BY ONLY <1>1, <2>1 DEF Leads
<1>3. Remaining(<<>>, <<>>) = <<>>
  <2>1. /\ Remaining(<<>>, <<>>) \in Seq(Seq(Bytes))
        /\ Len(Remaining(<<>>, <<>>)) = Len(<<>>) - Len(<<>>)
    BY ONLY <1>2, RemainingFacts
  <2>2. Len(Remaining(<<>>, <<>>)) = 0
    BY ONLY <1>1, <2>1
  <2> QED
    BY ONLY <2>1, <2>2, EmptySeq
<1>4. FlattenSeq(<<>>) = <<>>
  BY <1>1 DEF FlattenSeq
<1>5. (<<>> \o <<>>) \o <<>> = <<>>
  BY ONLY <1>1, ConcatEmptySeq
<1> QED
  BY <1>1, <1>2, <1>3, <1>4, <1>5 DEF OnTheWay

LEMMA InitConnectionInv == Init => ConnectionInv
<1>1. SUFFICES ASSUME Init PROVE ConnectionInv
  OBVIOUS
<1>2. /\ dialect \in {"frames", "csv"} /\ link = "open" /\ leftover = FALSE
      /\ read_buffer = <<>> /\ inbound = <<>> /\ told = <<>> /\ heard = <<>>
      /\ task = "select"
  BY <1>1, EngineConnectionAssumption DEF Init
<1>3. <<>> \in Seq(Bytes) /\ <<>> \in Seq(Text) /\ <<>> \in Seq(Replies)
  BY EmptySeq
<1>4. ConnectionTypes
  BY <1>2, <1>3 DEF ConnectionTypes
<1>5. Leads(heard, told) /\ Arriving(read_buffer, inbound)
  BY <1>2, NothingSaid DEF Arriving
<1> QED
  BY <1>2, <1>3, <1>4, <1>5 DEF ConnectionInv, FramesArrive, LinesOnly

\* The steps that leave the connection alone.
LEMMA UnchangedConnection ==
    ASSUME ConnectionInv,
           UNCHANGED <<dialect, link, inbound, task, read_buffer, told, heard,
                       leftover>>
    PROVE  ConnectionInv'
  BY DEF ConnectionInv, ConnectionTypes, FramesArrive, LinesOnly, Arriving

LEMMA DisconnectKeepsInv ==
    ASSUME ConnectionInv, link' = "none", inbound' = <<>>,
           UNCHANGED <<dialect, read_buffer, told, heard, leftover>>
    PROVE  ConnectionInv'
<1>1. <<>> \in Seq(Bytes) /\ <<>> \in Seq(Text)
  BY EmptySeq
<1>2. ConnectionTypes'
  BY <1>1 DEF ConnectionInv, ConnectionTypes
<1>3. FramesArrive'
  BY DEF ConnectionInv, FramesArrive
<1>4. LinesOnly'
  BY <1>1 DEF ConnectionInv, LinesOnly
<1> QED
  BY <1>2, <1>3, <1>4 DEF ConnectionInv

\* Another frame joins those on the way.
LEMMA SayMore ==
    ASSUME NEW buf, NEW rest, NEW said, NEW given, Leads(given, said),
           OnTheWay(buf, rest, <<>>, said, given), NEW msg \in Replies
    PROVE  OnTheWay(buf, rest \o Frame(msg), <<>>, Append(said, msg), given)
<1>. PICK F : F = Frame(msg)
  OBVIOUS
<1>. PICK R : R = FlattenSeq(Remaining(said, given))
  OBVIOUS
<1>1. F \in Seq(Bytes)
  BY FrameType
<1>2. /\ buf \in Seq(Bytes) /\ rest \in Seq(Bytes) /\ <<>> \in Seq(Bytes)
      /\ (buf \o rest) \o <<>> = R
  BY DEF OnTheWay
<1>3. buf \o rest \in Seq(Bytes) /\ rest \o F \in Seq(Bytes)
  BY ONLY <1>1, <1>2, ConcatProperties
<1>4. buf \o rest = R
  BY ONLY <1>2, <1>3, ConcatEmptySeq
<1>5. (buf \o rest) \o F = buf \o (rest \o F)
  <2>1. Associates(buf, rest, F)
    BY ONLY <1>1, <1>2, ConcatAssociates
  <2> QED
    BY ONLY <2>1 DEF Associates
<1>6. FlattenSeq(Remaining(Append(said, msg), given)) = R \o F
  BY RemainingMore
<1>7. buf \o (rest \o F) \in Seq(Bytes)
  BY ONLY <1>2, <1>3, ConcatProperties
<1>8. (buf \o (rest \o F)) \o <<>> = buf \o (rest \o F)
  BY ONLY <1>7, ConcatEmptySeq
<1>9. (buf \o (rest \o F)) \o <<>> = FlattenSeq(Remaining(Append(said, msg), given))
  BY ONLY <1>4, <1>5, <1>6, <1>8
<1> QED
  BY <1>2, <1>3, <1>9 DEF OnTheWay

LEMMA ServerSaysKeepsInv ==
    ASSUME ConnectionInv, NEW msg \in Replies, ServerSays(msg)
    PROVE  ConnectionInv'
<1>1. /\ link = "open" /\ told' = Append(told, msg)
      /\ inbound' = inbound \o (IF dialect = "csv" THEN Line(msg) ELSE Frame(msg))
      /\ UNCHANGED <<dialect, link, task, read_buffer, heard, leftover>>
  BY DEF ServerSays, networkVars
<1>2. /\ read_buffer \in Seq(Bytes) /\ inbound \in Seq(Bytes) /\ told \in Seq(Replies)
      /\ dialect \in {"frames", "csv"}
  BY DEF ConnectionInv, ConnectionTypes
<1>3. told' \in Seq(Replies)
  BY ONLY <1>1, <1>2, msg \in Replies, AppendProperties
<1>4. CASE dialect = "csv"
  <2>1. inbound' = inbound \o Line(msg)
    BY <1>1, <1>4
  <2>2. Line(msg) \in Seq(Text)
    BY EngineConnectionAssumption, LineText
  <2>3. heard = <<>> /\ read_buffer \in Seq(Text) /\ inbound \in Seq(Text)
    BY <1>4 DEF ConnectionInv, LinesOnly
  <2>4. inbound' \in Seq(Text)
    BY ONLY <2>1, <2>2, <2>3, ConcatProperties
  <2>5. inbound' \in Seq(Bytes)
    BY ONLY <2>4, TextFacts, SeqMonotonic
  <2>6. ConnectionTypes'
    BY <1>1, <1>3, <2>5 DEF ConnectionInv, ConnectionTypes
  <2> QED
    BY <1>1, <1>4, <2>3, <2>4, <2>6 DEF ConnectionInv, FramesArrive, LinesOnly
<1>5. CASE dialect = "frames"
  <2>1. inbound' = inbound \o Frame(msg)
    BY <1>1, <1>5
  <2>2. inbound' \in Seq(Bytes)
    <3>1. Frame(msg) \in Seq(Bytes)
      BY FrameType
    <3> QED
      BY ONLY <1>2, <2>1, <3>1, ConcatProperties
  <2>3. ConnectionTypes'
    BY <1>1, <1>3, <2>2 DEF ConnectionInv, ConnectionTypes
  <2>4. FramesArrive'
    <3>1. SUFFICES ASSUME ~leftover
                   PROVE  Leads(heard', told') /\ Arriving(read_buffer, inbound)'
      BY <1>1 DEF FramesArrive
    <3>2. Leads(heard, told) /\ Arriving(read_buffer, inbound)
      BY <1>1, <1>5, <3>1 DEF ConnectionInv, FramesArrive
    <3>3. OnTheWay(read_buffer, inbound, <<>>, told, heard)
      BY <1>1, <3>2 DEF Arriving
    <3>4. OnTheWay(read_buffer, inbound \o Frame(msg), <<>>, Append(told, msg), heard)
      BY <3>2, <3>3, SayMore
    <3>5. OnTheWay(read_buffer', inbound', <<>>, told', heard')
      BY ONLY <1>1, <2>1, <3>4
    <3>6. Arriving(read_buffer, inbound)'
      BY ONLY <3>5 DEF Arriving
    <3>7. Leads(heard, Append(told, msg))
      BY <3>2, RemainingMore
    <3> QED
      BY ONLY <1>1, <3>6, <3>7
  <2> QED
    BY <1>1, <1>5, <2>3, <2>4 DEF ConnectionInv, LinesOnly
<1> QED
  BY <1>2, <1>4, <1>5

\* What has not been read may be lost.
LEMMA LoseUnread ==
    ASSUME NEW buf, NEW rest, NEW lost, NEW said, NEW given,
           OnTheWay(buf, rest, lost, said, given)
    PROVE  OnTheWay(buf, <<>>, rest \o lost, said, given)
<1>. PICK R : R = FlattenSeq(Remaining(said, given))
  OBVIOUS
<1>1. /\ buf \in Seq(Bytes) /\ rest \in Seq(Bytes) /\ lost \in Seq(Bytes)
      /\ (buf \o rest) \o lost = R
  BY DEF OnTheWay
<1>2. <<>> \in Seq(Bytes) /\ buf \o <<>> = buf
  BY ONLY <1>1, EmptySeq, ConcatEmptySeq
<1>3. rest \o lost \in Seq(Bytes)
  BY ONLY <1>1, ConcatProperties
<1>4. buf \o (rest \o lost) = (buf \o rest) \o lost
  <2>1. Associates(buf, rest, lost)
    BY ONLY <1>1, ConcatAssociates
  <2> QED
    BY ONLY <2>1 DEF Associates
<1>5. (buf \o <<>>) \o (rest \o lost) = FlattenSeq(Remaining(said, given))
  BY ONLY <1>1, <1>2, <1>4, R = FlattenSeq(Remaining(said, given))
<1> QED
  BY <1>1, <1>2, <1>3, <1>5 DEF OnTheWay

LEMMA BreakKeepsInv ==
    ASSUME ConnectionInv, Break
    PROVE  ConnectionInv'
<1>1. /\ link # "none" /\ link' \in {"closed", "reset"}
      /\ inbound' \in {inbound, <<>>}
      /\ UNCHANGED <<dialect, task, read_buffer, told, heard, leftover>>
  BY DEF Break, queueVars, replyVars
<1>2. <<>> \in Seq(Bytes) /\ <<>> \in Seq(Text)
  BY EmptySeq
<1>3. ConnectionTypes'
  BY <1>1, <1>2 DEF ConnectionInv, ConnectionTypes
<1>4. LinesOnly'
  BY <1>1, <1>2 DEF ConnectionInv, LinesOnly
<1>5. FramesArrive'
  <2>1. SUFFICES ASSUME dialect = "frames", ~leftover
                 PROVE  Leads(heard', told') /\ Arriving(read_buffer, inbound)'
    BY <1>1 DEF FramesArrive
  <2>2. Leads(heard, told) /\ Arriving(read_buffer, inbound)
    BY <1>1, <2>1 DEF ConnectionInv, FramesArrive
  <2>3. PICK lost : OnTheWay(read_buffer, inbound, lost, told, heard)
    BY <2>2 DEF Arriving
  <2>4. PICK gone : OnTheWay(read_buffer, inbound', gone, told, heard)
    <3>1. CASE inbound' = inbound
      BY ONLY <2>3, <3>1
    <3>2. CASE inbound' = <<>>
      <4>1. OnTheWay(read_buffer, <<>>, inbound \o lost, told, heard)
        BY <2>3, LoseUnread
      <4> QED
        BY ONLY <3>2, <4>1
    <3> QED
      BY <1>1, <3>1, <3>2
  <2>5. OnTheWay(read_buffer', inbound', gone, told', heard') /\ link' # "open"
    BY ONLY <1>1, <2>4
  <2>6. Arriving(read_buffer, inbound)'
    BY ONLY <2>5 DEF Arriving
  <2> QED
    BY ONLY <1>1, <2>2, <2>6
<1> QED
  BY <1>3, <1>4, <1>5 DEF ConnectionInv

LEMMA ReconnectKeepsInv ==
    ASSUME ConnectionInv, Reconnect
    PROVE  ConnectionInv'
<1>1. /\ task = "backoff" /\ task' = "select"
      /\ Connect
      /\ UNCHANGED <<dialect, inbound, read_buffer>>
  BY DEF Reconnect, networkVars
<1>2. link = "none" /\ inbound = <<>>
  BY <1>1 DEF ConnectionInv, ConnectionTypes
<1>3. CASE up
  <2>1. /\ link' = "open" /\ told' = <<>> /\ heard' = <<>>
        /\ leftover' = (read_buffer # <<>>)
    BY <1>1, <1>3 DEF Connect
  <2>2. <<>> \in Seq(Replies)
    BY EmptySeq
  <2>3. ConnectionTypes'
    BY <1>1, <2>1, <2>2 DEF ConnectionInv, ConnectionTypes
  <2>4. LinesOnly'
    BY <1>1, <2>1 DEF ConnectionInv, LinesOnly
  <2>5. FramesArrive'
    <3>1. SUFFICES ASSUME ~leftover'
                   PROVE  Leads(heard', told') /\ Arriving(read_buffer, inbound)'
      BY DEF FramesArrive
    <3>2. read_buffer' = <<>> /\ inbound' = <<>>
      BY <1>1, <1>2, <2>1, <3>1
    <3>3. OnTheWay(read_buffer', inbound', <<>>, told', heard')
      BY ONLY <2>1, <3>2, NothingSaid
    <3>4. Arriving(read_buffer, inbound)'
      BY ONLY <3>3 DEF Arriving
    <3> QED
      BY <2>1, <3>4, NothingSaid
  <2> QED
    BY <2>3, <2>4, <2>5 DEF ConnectionInv
<1>4. CASE ~up
  <2>1. UNCHANGED <<link, told, heard, leftover>>
    BY <1>1, <1>4 DEF Connect, replyVars
  <2> QED
    BY <1>1, <1>2, <2>1, DisconnectKeepsInv
<1> QED
  BY <1>3, <1>4

\* What one frame leaves, and what it was.
LEMMA TakeKeepsInv ==
    ASSUME ConnectionInv, NEW buf \in Seq(Bytes), NEW rest \in Seq(Bytes),
           link # "none", Complete(buf), Take(buf, rest),
           UNCHANGED <<dialect, told, leftover>>,
           dialect = "csv" => buf \in Seq(Text) /\ rest \in Seq(Text),
           dialect = "frames" /\ ~leftover => Arriving(buf, rest)
    PROVE  ConnectionInv'
<1>. PICK end : end = 4 + FrameLen(buf)
  OBVIOUS
<1>. PICK payload : payload = SubSeq(buf, 5, end)
  OBVIOUS
<1>. PICK after : after = SubSeq(buf, end + 1, Len(buf))
  OBVIOUS
<1>1. /\ read_buffer' = after
      /\ heard' = heard \o DecodeOutput(payload)
      /\ \/ DecodeOutput(payload) = <<>> /\ HandleDisconnect
         \/ DecodeOutput(payload) # <<>> /\ inbound' = rest /\ UNCHANGED <<link, task>>
  BY DEF Take
<1>2. Len(buf) >= 4 /\ Len(buf) >= end /\ Len(buf) \in Nat /\ end \in Nat /\ end >= 4
  <2>1. Len(buf) >= 4 /\ Len(buf) >= end
    BY DEF Complete
  <2>2. FrameLen(buf) \in Nat
    BY <2>1, FrameLenType
  <2> QED
    BY <2>1, <2>2
<1>3. \A S : buf \in Seq(S) =>
        /\ after \in Seq(S)
        /\ payload \in Seq(S)
  <2>1. SUFFICES ASSUME NEW S, buf \in Seq(S)
                 PROVE  after \in Seq(S) /\ payload \in Seq(S)
    OBVIOUS
  <2>2. \A i \in 1..Len(buf) : buf[i] \in S
    BY ONLY <2>1, ElementOfSeq
  <2>3. \A i \in (end + 1)..Len(buf) : i \in 1..Len(buf)
    BY ONLY <1>2
  <2>4. \A i \in 5..end : i \in 1..Len(buf)
    BY ONLY <1>2
  <2>5. /\ end + 1 \in Int /\ Len(buf) \in Int /\ 5 \in Int /\ end \in Int
    BY ONLY <1>2
  <2>6. SubSeq(buf, end + 1, Len(buf)) \in Seq(S)
    BY ONLY <2>2, <2>3, <2>5, SubSeqProperties
  <2>7. SubSeq(buf, 5, end) \in Seq(S)
    BY ONLY <2>2, <2>4, <2>5, SubSeqProperties
  <2> QED
    BY <2>6, <2>7
<1>4. after \in Seq(Bytes)
  BY <1>3
<1>5. /\ <<>> \in Seq(Bytes) /\ <<>> \in Seq(Text)
  BY EmptySeq
<1>6. ConnectionTypes'
  <2>1. CASE HandleDisconnect
    <3>1. link' = "none" /\ inbound' = <<>>
      BY <2>1 DEF HandleDisconnect
    <3> QED
      BY <1>1, <1>4, <1>5, <3>1 DEF ConnectionInv, ConnectionTypes
  <2>2. CASE inbound' = rest /\ UNCHANGED <<link, task>>
    BY <1>1, <1>4, <2>2 DEF ConnectionInv, ConnectionTypes
  <2> QED
    BY <1>1, <2>1, <2>2
<1>7. LinesOnly'
  <2>1. SUFFICES ASSUME dialect = "csv"
                 PROVE  heard' = <<>> /\ read_buffer' \in Seq(Text)
                        /\ inbound' \in Seq(Text)
    BY DEF LinesOnly
  <2>2. payload \in Seq(Text) /\ after \in Seq(Text)
    BY <1>3, <2>1
  <2>3. Len(payload) \in Nat
    BY ONLY <2>2
  <2>4. Len(payload) < 4 \/ ByteAt(payload, 1) # 1
    <3>1. SUFFICES ASSUME Len(payload) >= 4 PROVE ByteAt(payload, 1) # 1
      BY <2>3
    <3>2. 2 \in 1..Len(payload)
      BY ONLY <2>3, <3>1
    <3>3. payload[2] \in Text
      BY ONLY <2>2, <3>2, ElementOfSeq
    <3>4. ByteAt(payload, 1) = payload[2]
      <4>1. 1 + 1 = 2
        OBVIOUS
      <4> QED
        BY ONLY <4>1 DEF ByteAt
    <3> QED
      BY ONLY <3>3, <3>4, TextFacts
  <2>5. DecodeOutput(payload) = <<>>
    BY ONLY <2>3, <2>4, NoHeader
  <2>6. inbound' = <<>>
    BY <1>1, <2>5 DEF HandleDisconnect
  <2>7. heard' = <<>>
    <3>1. heard = <<>>
      BY <2>1 DEF ConnectionInv, LinesOnly
    <3>2. heard' = <<>> \o <<>>
      BY ONLY <1>1, <2>5, <3>1
    <3> QED
      BY ONLY <1>5, <3>2, ConcatEmptySeq
  <2> QED
    BY ONLY <1>1, <1>5, <2>2, <2>6, <2>7
<1>8. FramesArrive'
  <2>1. SUFFICES ASSUME dialect = "frames", ~leftover
                 PROVE  Leads(heard', told') /\ (link' # "none" => Arriving(read_buffer, inbound)')
    BY DEF FramesArrive
  <2>2. Leads(heard, told) /\ Arriving(buf, rest)
    BY <2>1 DEF ConnectionInv, FramesArrive
  <2>3. PICK lost : OnTheWay(buf, rest, lost, told, heard) /\ (link = "open" => lost = <<>>)
    BY <2>2 DEF Arriving
  <2>4. PICK msg \in Replies :
          /\ DecodeOutput(payload) = <<msg>>
          /\ Leads(Append(heard, msg), told)
          /\ OnTheWay(after, rest, lost, told, Append(heard, msg))
    <3>1. \E msg \in Replies :
             /\ DecodeOutput(SubSeq(buf, 5, end)) = <<msg>>
             /\ Leads(Append(heard, msg), told)
             /\ OnTheWay(SubSeq(buf, end + 1, Len(buf)), rest, lost, told, Append(heard, msg))
      BY <2>2, <2>3, TakeFrame
    <3> QED
      BY <3>1
  <2>5. <<msg>> # <<>>
    OBVIOUS
  <2>6. inbound' = rest /\ UNCHANGED <<link, task>>
    BY ONLY <1>1, <2>4, <2>5
  <2>7. heard' = Append(heard, msg)
    <3>1. heard \in Seq(Replies)
      BY <2>2 DEF Leads
    <3>2. heard' = heard \o <<msg>>
      BY ONLY <1>1, <2>4
    <3> QED
      BY ONLY <3>1, <3>2, msg \in Replies, AppendIsConcat
  <2>8. Leads(heard', told')
    BY ONLY <2>4, <2>7, UNCHANGED <<dialect, told, leftover>>
  <2>9. OnTheWay(read_buffer', inbound', lost, told', heard')
    BY ONLY <1>1, <2>4, <2>6, <2>7, UNCHANGED <<dialect, told, leftover>>
  <2>10. Arriving(read_buffer, inbound)'
    BY ONLY <2>3, <2>6, <2>9 DEF Arriving
  <2> QED
    BY ONLY <2>8, <2>10
<1> QED
  BY <1>6, <1>7, <1>8 DEF ConnectionInv

\* A read moves bytes from the socket to the buffer.
LEMMA CutInbound ==
    ASSUME NEW S, NEW buf \in Seq(S), NEW rest \in Seq(S), NEW k \in 0..Len(rest)
    PROVE  /\ buf \o SubSeq(rest, 1, k) \in Seq(S)
           /\ SubSeq(rest, k + 1, Len(rest)) \in Seq(S)
           /\ (buf \o SubSeq(rest, 1, k)) \o SubSeq(rest, k + 1, Len(rest)) = buf \o rest
<1>. PICK n : n = Len(rest)
  OBVIOUS
<1>1. n \in Nat /\ k \in Nat /\ k <= n
  OBVIOUS
<1>2. \A i \in 1..n : rest[i] \in S
  BY ElementOfSeq
<1>. PICK x : x = SubSeq(rest, 1, k)
  OBVIOUS
<1>. PICK y : y = SubSeq(rest, k + 1, n)
  OBVIOUS
<1>3. x \in Seq(S)
  <2>1. \A i \in 1..k : i \in 1..n
    BY ONLY <1>1
  <2>2. 1 \in Int /\ k \in Int
    BY ONLY <1>1
  <2> QED
    BY ONLY <1>2, <2>1, <2>2, x = SubSeq(rest, 1, k), SubSeqProperties
<1>4. y \in Seq(S)
  <2>1. \A i \in (k + 1)..n : i \in 1..n
    BY ONLY <1>1
  <2>2. k + 1 \in Int /\ n \in Int
    BY ONLY <1>1
  <2> QED
    BY ONLY <1>2, <2>1, <2>2, y = SubSeq(rest, k + 1, n), SubSeqProperties
<1>5. x \o y = rest
  <2>1. 1 \in 1..(n + 1) /\ k \in (1 - 1)..n /\ n \in k..n
    BY ONLY <1>1
  <2>2. SubSeq(rest, 1, k) \o SubSeq(rest, k + 1, n) = SubSeq(rest, 1, n)
    BY ONLY <2>1, n = Len(rest), rest \in Seq(S), ConcatAdjacentSubSeq
  <2>3. SubSeq(rest, 1, n) = rest
    BY ONLY n = Len(rest), rest \in Seq(S), SubSeqFull
  <2> QED
    BY ONLY <2>2, <2>3, x = SubSeq(rest, 1, k), y = SubSeq(rest, k + 1, n)
<1>6. (buf \o x) \o y = buf \o rest
  <2>1. Associates(buf, x, y)
    BY ONLY <1>3, <1>4, buf \in Seq(S), ConcatAssociates
  <2> QED
    BY ONLY <1>5, <2>1 DEF Associates
<1>7. buf \o x \in Seq(S)
  BY ONLY <1>3, buf \in Seq(S), ConcatProperties
<1> QED
  BY <1>4, <1>6, <1>7

\* What a read may bring lies between nothing and everything there is.
LEMMA SomeOrAll ==
    ASSUME NEW n \in Nat, NEW C, C \subseteq Nat,
           NEW k, (k \in C /\ k < n) \/ k = n
    PROVE  k \in 0..n
<1>1. CASE k = n
  BY <1>1
<1>2. CASE k \in C /\ k < n
  <2>1. k \in Nat
    BY <1>2
  <2> QED
    BY <1>2, <2>1
<1> QED
  BY <1>1, <1>2

LEMMA ReadKeepsInv ==
    ASSUME ConnectionInv, NEW k \in ReadSizes, Read(k)
    PROVE  ConnectionInv'
<1>. PICK n : n = Len(inbound)
  OBVIOUS
<1>. PICK buf : buf = read_buffer \o SubSeq(inbound, 1, k)
  OBVIOUS
<1>. PICK rest : rest = SubSeq(inbound, k + 1, n)
  OBVIOUS
<1>1. read_buffer \in Seq(Bytes) /\ inbound \in Seq(Bytes) /\ n \in Nat
  BY DEF ConnectionInv, ConnectionTypes
<1>2. k \in 0..Len(inbound)
  <2>1. (k \in Chunks /\ k < n) \/ k = n
    <3>1. k \in {i \in Chunks : i < n} \cup ({n} \ {0})
      BY DEF ReadSizes
    <3> QED
      BY ONLY <3>1
  <2>2. Chunks \subseteq Nat
    BY ONLY EngineConnectionAssumption
  <2>3. k \in 0..n
    BY ONLY <1>1, <2>1, <2>2, SomeOrAll
  <2> QED
    BY <2>3
<1>3. buf \in Seq(Bytes) /\ rest \in Seq(Bytes) /\ buf \o rest = read_buffer \o inbound
  BY <1>1, <1>2, CutInbound, ZenonT(30)
<1>4. dialect = "csv" => buf \in Seq(Text) /\ rest \in Seq(Text)
  <2>1. SUFFICES ASSUME dialect = "csv" PROVE buf \in Seq(Text) /\ rest \in Seq(Text)
    OBVIOUS
  <2>2. read_buffer \in Seq(Text) /\ inbound \in Seq(Text)
    BY <2>1 DEF ConnectionInv, LinesOnly
  <2> QED
    BY <1>2, <2>2, CutInbound
<1>5. /\ link # "none" /\ UNCHANGED <<dialect, told, leftover>>
      /\ \/ Complete(buf) /\ Take(buf, rest)
         \/ /\ read_buffer' = buf /\ inbound' = rest
            /\ UNCHANGED <<link, task, heard>>
  BY DEF Read, networkVars
<1>6. dialect = "frames" /\ ~leftover => Arriving(buf, rest)
  <2>1. SUFFICES ASSUME dialect = "frames", ~leftover PROVE Arriving(buf, rest)
    OBVIOUS
  <2>2. Arriving(read_buffer, inbound)
    BY <1>5, <2>1 DEF ConnectionInv, FramesArrive
  <2>3. PICK lost : /\ OnTheWay(read_buffer, inbound, lost, told, heard)
                    /\ link = "open" => lost = <<>>
    BY <2>2 DEF Arriving
  <2>4. OnTheWay(buf, rest, lost, told, heard)
    BY ONLY <1>3, <2>3 DEF OnTheWay
  <2> QED
    BY ONLY <2>3, <2>4 DEF Arriving
<1>7. CASE Complete(buf) /\ Take(buf, rest)
  BY ONLY ConnectionInv, <1>3, <1>4, <1>5, <1>6, <1>7, TakeKeepsInv
<1>8. CASE /\ read_buffer' = buf /\ inbound' = rest
           /\ UNCHANGED <<link, task, heard>>
  <2>1. ConnectionTypes'
    BY ONLY ConnectionInv, <1>3, <1>5, <1>8 DEF ConnectionInv, ConnectionTypes
  <2>2. LinesOnly'
    BY ONLY ConnectionInv, <1>4, <1>5, <1>8 DEF ConnectionInv, LinesOnly
  <2>3. Arriving(read_buffer, inbound)' <=> Arriving(buf, rest)
    BY ONLY <1>5, <1>8 DEF Arriving
  <2>4. FramesArrive'
    BY ONLY ConnectionInv, <1>5, <1>6, <1>8, <2>3 DEF ConnectionInv, FramesArrive
  <2> QED
    BY <2>1, <2>2, <2>4 DEF ConnectionInv
<1> QED
  BY <1>5, <1>7, <1>8

LEMMA TakeBufferedKeepsInv ==
    ASSUME ConnectionInv, TakeBuffered
    PROVE  ConnectionInv'
<1>. PICK buf : buf = read_buffer
  OBVIOUS
<1>. PICK rest : rest = inbound
  OBVIOUS
<1>1. buf \in Seq(Bytes) /\ rest \in Seq(Bytes)
  BY DEF ConnectionInv, ConnectionTypes
<1>2. /\ link # "none" /\ Complete(buf) /\ Take(buf, rest)
      /\ UNCHANGED <<dialect, told, leftover>>
  BY DEF TakeBuffered, networkVars
<1>3. dialect = "csv" => buf \in Seq(Text) /\ rest \in Seq(Text)
  BY DEF ConnectionInv, LinesOnly
<1>4. dialect = "frames" /\ ~leftover => Arriving(buf, rest)
  BY <1>2 DEF ConnectionInv, FramesArrive
<1> QED
  BY ONLY ConnectionInv, <1>1, <1>2, <1>3, <1>4, TakeKeepsInv

LEMMA NextConnectionInv == ConnectionInv /\ [Next]_vars => ConnectionInv'
<1>1. SUFFICES ASSUME ConnectionInv, [Next]_vars
               PROVE  ConnectionInv'
  OBVIOUS
<1>2. ASSUME NEW msg \in Replies, ServerSays(msg) PROVE ConnectionInv'
  BY <1>1, <1>2, ServerSaysKeepsInv
<1>3. CASE Break
  BY <1>1, <1>3, BreakKeepsInv
<1>4. CASE ServerGoesOrComes
  <2>1. UNCHANGED <<dialect, link, inbound, task, read_buffer, told, heard, leftover>>
    BY <1>4 DEF ServerGoesOrComes, streamVars, replyVars
  <2> QED
    BY <1>1, <2>1, UnchangedConnection
<1>5. ASSUME NEW encodes \in BOOLEAN, AppSends(encodes) PROVE ConnectionInv'
  <2>1. UNCHANGED <<dialect, link, inbound, task, read_buffer, told, heard, leftover>>
    BY <1>5 DEF AppSends, networkVars, streamVars, replyVars
  <2> QED
    BY <1>1, <2>1, UnchangedConnection
<1>6. CASE Abort
  <2>1. /\ link' = "none" /\ inbound' = <<>>
        /\ UNCHANGED <<dialect, read_buffer, told, heard, leftover>>
    BY <1>6 DEF Abort, networkVars, replyVars
  <2> QED
    BY <1>1, <2>1, DisconnectKeepsInv
<1>7. CASE Reconnect
  BY <1>1, <1>7, ReconnectKeepsInv
<1>8. CASE Send
  <2>1. UNCHANGED <<dialect, read_buffer, told, heard, leftover>>
    BY <1>8 DEF Send, networkVars, replyVars
  <2>2. CASE KeepConnection
    BY <1>1, <2>1, <2>2, UnchangedConnection DEF KeepConnection, streamVars
  <2>3. CASE HandleDisconnect
    BY <1>1, <2>1, <2>3, DisconnectKeepsInv DEF HandleDisconnect
  <2> QED
    BY <1>8, <2>2, <2>3 DEF Send, SendOrDrop
<1>9. CASE HeartbeatFails
  <2>1. /\ link' = "none" /\ inbound' = <<>>
        /\ UNCHANGED <<dialect, read_buffer, told, heard, leftover>>
    BY <1>9 DEF HeartbeatFails, HandleDisconnect, networkVars, replyVars
  <2> QED
    BY <1>1, <2>1, DisconnectKeepsInv
<1>10. ASSUME NEW k \in ReadSizes, Read(k) PROVE ConnectionInv'
  BY <1>1, <1>10, ReadKeepsInv
<1>11. CASE TakeBuffered
  BY <1>1, <1>11, TakeBufferedKeepsInv
<1>12. CASE ReadFails
  <2>1. /\ link' = "none" /\ inbound' = <<>>
        /\ UNCHANGED <<dialect, read_buffer, told, heard, leftover>>
    BY <1>12 DEF ReadFails, HandleDisconnect, networkVars, replyVars
  <2> QED
    BY <1>1, <2>1, DisconnectKeepsInv
<1>13. CASE UNCHANGED vars
  <2>1. UNCHANGED <<dialect, link, inbound, task, read_buffer, told, heard, leftover>>
    BY <1>13 DEF vars, networkVars, streamVars, replyVars
  <2> QED
    BY <1>1, <2>1, UnchangedConnection
<1>14. Next => \/ \E msg \in Replies : ServerSays(msg)
               \/ Break \/ ServerGoesOrComes
               \/ \E encodes \in BOOLEAN : AppSends(encodes)
               \/ Abort \/ Reconnect \/ Send \/ HeartbeatFails
               \/ \E k \in ReadSizes : Read(k)
               \/ TakeBuffered \/ ReadFails
  BY DEF Next, ReadMessage
<1> QED
  BY <1>1, <1>2, <1>3, <1>4, <1>5, <1>6, <1>7, <1>8, <1>9, <1>10, <1>11, <1>12,
     <1>13, <1>14

LEMMA ConnectionInvMeans == ConnectionInv => FramesSurvive
<1>1. SUFFICES ASSUME ConnectionInv PROVE FramesSurvive
  OBVIOUS
<1>2. CASE dialect = "csv"
  BY <1>1, <1>2 DEF ConnectionInv, LinesOnly, FramesSurvive
<1>3. CASE dialect = "frames"
  <2>1. SUFFICES ASSUME ~leftover
                 PROVE  /\ IsPrefix(heard, told)
                        /\ link = "open" =>
                             read_buffer \o inbound = FlattenSeq(Remaining(told, heard))
    BY <1>3 DEF FramesSurvive, Remaining
  <2>2. Leads(heard, told) /\ (link # "none" => Arriving(read_buffer, inbound))
    BY <1>1, <1>3, <2>1 DEF ConnectionInv, FramesArrive
  <2>3. IsPrefix(heard, told)
    <3>. PICK h : h = heard
      OBVIOUS
    <3>. PICK t : t = told
      OBVIOUS
    <3>. PICK n : n = Len(h)
      OBVIOUS
    <3>1. /\ h \in Seq(Replies) /\ t \in Seq(Replies) /\ n <= Len(t)
          /\ \A i \in 1..n : h[i] = t[i]
      BY <2>2 DEF Leads
    <3>2. SubSeq(h, 1, n) = SubSeq(t, 1, n)
      <4>1. n \in Nat /\ \A i \in 1..n : h[i] \in Replies /\ t[i] \in Replies
        BY <3>1, ElementOfSeq
      <4>2. /\ 1 \in Int /\ n \in Int /\ (n - 1) + 1 = n
            /\ \A i \in 1..n : (1 + i) - 1 = i
        BY ONLY <4>1
      <4>3. /\ SubSeq(h, 1, n) \in Seq(Replies)
            /\ Len(SubSeq(h, 1, n)) = IF 1 <= n THEN (n - 1) + 1 ELSE 0
            /\ \A i \in 1..((n - 1) + 1) : SubSeq(h, 1, n)[i] = h[(1 + i) - 1]
        BY ONLY <4>1, <4>2, SubSeqProperties
      <4>4. /\ SubSeq(t, 1, n) \in Seq(Replies)
            /\ Len(SubSeq(t, 1, n)) = IF 1 <= n THEN (n - 1) + 1 ELSE 0
            /\ \A i \in 1..((n - 1) + 1) : SubSeq(t, 1, n)[i] = t[(1 + i) - 1]
        BY ONLY <4>1, <4>2, SubSeqProperties
      <4>5. (IF 1 <= n THEN (n - 1) + 1 ELSE 0) = n
        BY ONLY <4>1
      <4>6. \A i \in 1..Len(SubSeq(h, 1, n)) : SubSeq(h, 1, n)[i] = SubSeq(t, 1, n)[i]
        BY ONLY <3>1, <4>2, <4>3, <4>4, <4>5
      <4> QED
        BY ONLY <4>3, <4>4, <4>6, SeqEqual
    <3> QED
      BY <3>1, <3>2 DEF IsPrefix
  <2>4. ASSUME link = "open"
        PROVE  read_buffer \o inbound = FlattenSeq(Remaining(told, heard))
    <3>1. Arriving(read_buffer, inbound)
      BY <2>2, <2>4
    <3>2. OnTheWay(read_buffer, inbound, <<>>, told, heard)
      BY <2>4, <3>1 DEF Arriving
    <3>3. /\ read_buffer \in Seq(Bytes) /\ inbound \in Seq(Bytes)
          /\ (read_buffer \o inbound) \o <<>> = FlattenSeq(Remaining(told, heard))
      BY ONLY <3>2 DEF OnTheWay
    <3>4. read_buffer \o inbound \in Seq(Bytes)
      BY ONLY <3>3, ConcatProperties
    <3> QED
      BY ONLY <3>3, <3>4, ConcatEmptySeq
  <2> QED
    BY <2>3, <2>4
<1> QED
  BY <1>1, <1>2, <1>3 DEF ConnectionInv, ConnectionTypes

\* Whatever sizes the reads have and whichever branches of select! come between
\* them, what is heard on a connection made with an empty buffer are the first
\* of the server's frames, whole and in order; while it is open the rest of them
\* is in the buffer and the socket; and of a server that writes lines nothing
\* is heard (read_message, run, handle_disconnect).
THEOREM FramesStayWhole == Spec => []FramesSurvive
<1>1. Spec => []ConnectionInv
  BY InitConnectionInv, NextConnectionInv, PTL DEF Spec
<1> QED
  BY <1>1, ConnectionInvMeans, PTL

-----------------------------------------------------------------------------
(* The server's end.                                                       *)

\* What carries the meaning of a line over the connection: bytes that the
\* server's reader turns into one message, or into none.
Units == [bytes : Seq(Bytes), means : Seq(InputMessages)]

\* For the CSV reader, a line.
LineUnits ==
    {unit \in Units :
       \E body \in Seq(Bytes \ {Newline}) :
         /\ unit.bytes = Append(body, Newline)
         /\ unit.means = ParseInputLine(body)}

\* For the binary reader, a frame.
FrameUnits ==
    {unit \in Units :
       \E payload \in Seq(Bytes) :
         /\ Len(payload) \in 4..(22 + MaxSymbolLen)
         /\ unit.bytes = U32(Len(payload)) \o payload
         /\ unit.means = DecodeInput(payload)
         /\ unit.means # <<>>}

BytesOf(units) == AllParts([unit \in Units |-> unit.bytes], units)
Says(units) == AllParts([unit \in Units |-> unit.means], units)

LEMMA UnitsGive ==
    /\ GivesParts([unit \in Units |-> unit.bytes], Units, Bytes)
    /\ GivesParts([unit \in Units |-> unit.means], Units, InputMessages)
BY DEF GivesParts, Units

\* A unit more at the end, and the first unit.
LEMMA UnitsAppend ==
    ASSUME NEW units \in Seq(Units), NEW unit \in Units
    PROVE  /\ BytesOf(units) \in Seq(Bytes) /\ Says(units) \in Seq(InputMessages)
           /\ BytesOf(Append(units, unit)) = BytesOf(units) \o unit.bytes
           /\ Says(Append(units, unit)) = Says(units) \o unit.means
           /\ unit.bytes \in Seq(Bytes) /\ unit.means \in Seq(InputMessages)
<1> DEFINE b == [u \in Units |-> u.bytes]
           m == [u \in Units |-> u.means]
<1>1. b[unit] = unit.bytes /\ m[unit] = unit.means
  OBVIOUS
<1>2. GivesParts(b, Units, Bytes) /\ GivesParts(m, Units, InputMessages)
  BY UnitsGive
<1>3. \A us : BytesOf(us) = AllParts(b, us) /\ Says(us) = AllParts(m, us)
  BY DEF BytesOf, Says
<1> HIDE DEF b, m
<1>4. /\ AllParts(b, units) \in Seq(Bytes)
      /\ AllParts(b, Append(units, unit)) = AllParts(b, units) \o b[unit]
  BY <1>2, PartsAppend
<1>5. /\ AllParts(m, units) \in Seq(InputMessages)
      /\ AllParts(m, Append(units, unit)) = AllParts(m, units) \o m[unit]
  BY <1>2, PartsAppend
<1>6. unit.bytes \in Seq(Bytes) /\ unit.means \in Seq(InputMessages)
  BY DEF Units
<1> QED
  BY <1>1, <1>3, <1>4, <1>5, <1>6

LEMMA UnitsHead ==
    ASSUME NEW units \in Seq(Units), units # <<>>
    PROVE  /\ Head(units) \in Units /\ Tail(units) \in Seq(Units)
           /\ BytesOf(Tail(units)) \in Seq(Bytes) /\ Says(Tail(units)) \in Seq(InputMessages)
           /\ BytesOf(units) = Head(units).bytes \o BytesOf(Tail(units))
           /\ Says(units) = Head(units).means \o Says(Tail(units))
<1> DEFINE b == [u \in Units |-> u.bytes]
           m == [u \in Units |-> u.means]
<1>1. Head(units) \in Units
  OBVIOUS
<1>2. b[Head(units)] = Head(units).bytes /\ m[Head(units)] = Head(units).means
  BY <1>1
<1>3. GivesParts(b, Units, Bytes) /\ GivesParts(m, Units, InputMessages)
  BY UnitsGive
<1>4. \A us : BytesOf(us) = AllParts(b, us) /\ Says(us) = AllParts(m, us)
  BY DEF BytesOf, Says
<1> HIDE DEF b, m
<1>5. /\ Tail(units) \in Seq(Units) /\ AllParts(b, Tail(units)) \in Seq(Bytes)
      /\ AllParts(b, units) = b[Head(units)] \o AllParts(b, Tail(units))
  BY <1>3, PartsHead
<1>6. /\ AllParts(m, Tail(units)) \in Seq(InputMessages)
      /\ AllParts(m, units) = m[Head(units)] \o AllParts(m, Tail(units))
  BY <1>3, PartsHead
<1> QED
  BY <1>1, <1>2, <1>4, <1>5, <1>6

LEMMA UnitsNone ==
    /\ BytesOf(<<>>) = <<>> /\ Says(<<>>) = <<>>
    /\ \A S : <<>> \in Seq(S)
BY NoParts DEF BytesOf, Says

LEMMA UnitsBytes ==
    ASSUME NEW units \in Seq(Units)
    PROVE  BytesOf(units) \in Seq(Bytes) /\ Says(units) \in Seq(InputMessages)
<1>1. CASE units = <<>>
  BY <1>1, UnitsNone
<1>2. CASE units # <<>>
  BY <1>2, UnitsHead, UnitsAppend
<1> QED
  BY <1>1, <1>2

-----------------------------------------------------------------------------
(* How the CSV reader cuts a text into lines.                              *)

\* The newlines behind a place in the text, and the recurrence of LinesOf.
NewlinesAfter(text, start) ==
    {i \in {j \in DOMAIN text : text[j] = Newline} : i > start}

WithLine(text, f, start) ==
    IF NewlinesAfter(text, start) = {} THEN <<>>
    ELSE <<SubSeq(text, start + 1, Min(NewlinesAfter(text, start)) - 1)>>
           \o f[Min(NewlinesAfter(text, start))]

LinesFrom(f, text, low) ==
    /\ f = [start \in low..Len(text) |-> f[start]]
    /\ \A start \in low..Len(text) : f[start] = WithLine(text, f, start)

\* The next newline, and the line that it ends.
LEMMA NextNewline ==
    ASSUME NEW text \in Seq(Bytes), NEW start \in 0..Len(text),
           NewlinesAfter(text, start) # {},
           NEW p, p = Min(NewlinesAfter(text, start))
    PROVE  /\ p \in Nat /\ start < p /\ p <= Len(text) /\ text[p] = Newline
           /\ SubSeq(text, start + 1, p - 1) \in Seq(Bytes \ {Newline})
           /\ Len(SubSeq(text, start + 1, p - 1)) = p - 1 - start
           /\ \A i \in 1..(p - 1 - start) :
                SubSeq(text, start + 1, p - 1)[i] = text[start + i]
<1>. PICK k \in Nat : k = Len(text) /\ DOMAIN text = 1..k
  OBVIOUS
<1>. PICK ends : ends = NewlinesAfter(text, start)
  OBVIOUS
<1>1. /\ ends \subseteq Nat /\ ends # {}
      /\ \A i \in ends : i \in 1..k /\ text[i] = Newline /\ i > start
      /\ \A i \in 1..k : text[i] = Newline /\ i > start => i \in ends
  BY DEF NewlinesAfter
<1>2. p \in ends /\ \A i \in ends : p <= i
  BY <1>1, MinIsLeast
<1>3. p \in 1..k /\ text[p] = Newline /\ p > start /\ start \in Nat
  BY <1>1, <1>2
<1>. PICK line : line = SubSeq(text, start + 1, p - 1)
  OBVIOUS
<1>4. Len(line) = p - 1 - start /\ \A i \in 1..(p - 1 - start) : line[i] = text[start + i]
  BY <1>3, SubSeqProperties
<1>5. \A i \in 1..(p - 1 - start) : text[start + i] \in Bytes \ {Newline}
  <2>1. \A i \in 1..(p - 1 - start) : start + i \in 1..k /\ start + i < p /\ start + i > start
    BY <1>3
  <2> QED
    BY <1>1, <1>2, <1>3, <2>1
<1>6. line \in Seq(Bytes \ {Newline})
  <2>. PICK m \in Nat : m = p - 1 - start
    BY <1>3
  <2>1. line \in Seq(Bytes) /\ Len(line) = m
    BY <1>3, <1>4, SubSeqProperties
  <2>2. \A i \in 1..m : line[i] \in Bytes \ {Newline}
    BY <1>4, <1>5
  <2> QED
    BY ONLY <2>1, <2>2, m \in Nat
<1> QED
  BY <1>3, <1>4, <1>6

LEMMA WithLineSame ==
    ASSUME NEW text \in Seq(Bytes), NEW start \in 0..Len(text), NEW f, NEW g,
           \A i \in 0..Len(text) : i > start => f[i] = g[i]
    PROVE  WithLine(text, f, start) = WithLine(text, g, start)
<1>1. CASE NewlinesAfter(text, start) = {}
  BY <1>1 DEF WithLine
<1>2. CASE NewlinesAfter(text, start) # {}
  <2>. PICK p : p = Min(NewlinesAfter(text, start))
    OBVIOUS
  <2>1. p \in Nat /\ start < p /\ p <= Len(text)
    BY <1>2, NextNewline
  <2>2. f[p] = g[p]
    BY <2>1
  <2> QED
    BY <1>2, <2>2 DEF WithLine
<1> QED
  BY <1>1, <1>2

LEMMA LinesExist ==
    ASSUME NEW text \in Seq(Bytes)
    PROVE  \E f : LinesFrom(f, text, 0)
<1>. PICK k \in Nat : k = Len(text)
  OBVIOUS
<1> DEFINE Good == {n \in Nat : n <= k => \E f : LinesFrom(f, text, k - n)}
<1>1. 0 \in Good
  <2> DEFINE f == [start \in k..k |-> <<>>]
  <2>1. NewlinesAfter(text, k) = {}
    BY DEF NewlinesAfter
  <2>2. \A start \in k..k : f[start] = WithLine(text, f, start)
    BY <2>1 DEF WithLine
  <2>3. LinesFrom(f, text, k - 0)
    <3>1. k - 0 = k /\ f = [start \in k..k |-> f[start]]
      OBVIOUS
    <3> HIDE DEF f
    <3> QED
      BY <2>2, <3>1 DEF LinesFrom
  <2> HIDE DEF f
  <2> QED
    BY <2>3
<1>2. ASSUME NEW n \in Nat, n \in Good
      PROVE  n + 1 \in Good
  <2>1. SUFFICES ASSUME n + 1 <= k
                 PROVE  \E f : LinesFrom(f, text, k - (n + 1))
    OBVIOUS
  <2>2. PICK g : LinesFrom(g, text, k - n)
    BY <1>2, <2>1
  <2>. PICK low \in Nat : low = k - (n + 1) /\ low + 1 = k - n /\ low < k
    BY <2>1
  <2>3. \A start \in (low + 1)..k : g[start] = WithLine(text, g, start)
    BY <2>2 DEF LinesFrom
  <2> DEFINE h == [start \in low..k |-> IF start = low THEN WithLine(text, g, low)
                                        ELSE g[start]]
  <2>4. /\ \A start \in (low + 1)..k : h[start] = g[start]
        /\ h[low] = WithLine(text, g, low)
        /\ h = [start \in low..k |-> h[start]]
    OBVIOUS
  <2> HIDE DEF h
  <2>5. ASSUME NEW start \in low..k
        PROVE  h[start] = WithLine(text, h, start)
    <3>1. start \in 0..Len(text) /\ start \in Nat
      OBVIOUS
    <3>2. \A i \in 0..Len(text) : i > start => h[i] = g[i]
      <4>1. \A i \in 0..k : i > start => i \in (low + 1)..k
        OBVIOUS
      <4> QED
        BY <2>4, <4>1
    <3>3. WithLine(text, h, start) = WithLine(text, g, start)
      BY <3>1, <3>2, WithLineSame
    <3>4. start = low \/ start \in (low + 1)..k
      OBVIOUS
    <3> QED
      BY <2>3, <2>4, <3>3, <3>4
  <2>6. LinesFrom(h, text, low)
    BY <2>4, <2>5 DEF LinesFrom
  <2> QED
    BY <2>6
<1> HIDE DEF Good
<1>3. k \in Good
  BY <1>1, <1>2, Induct
<1> QED
  BY <1>3 DEF Good

LEMMA LinesRecur ==
    ASSUME NEW text \in Seq(Bytes)
    PROVE  \E f : LinesFrom(f, text, 0) /\ LinesOf(text) = f[0]
<1> DEFINE Rec(f) == f = [start \in 0..Len(text) |->
                            IF NewlinesAfter(text, start) = {} THEN <<>>
                            ELSE <<SubSeq(text, start + 1, Min(NewlinesAfter(text, start)) - 1)>>
                                   \o f[Min(NewlinesAfter(text, start))]]
<1>1. PICK g : LinesFrom(g, text, 0)
  BY LinesExist
<1>2. Rec(g)
  BY <1>1 DEF LinesFrom, WithLine
<1>. PICK f : f = CHOOSE h : Rec(h)
  OBVIOUS
<1>3. LinesOf(text) = f[0]
  BY DEF LinesOf, NewlinesAfter
<1>4. Rec(f)
  <2> HIDE DEF Rec
  <2> QED
    BY <1>2
<1>5. LinesFrom(f, text, 0)
  <2>1. \A start \in 0..Len(text) : f[start] = WithLine(text, f, start)
    BY <1>4 DEF WithLine
  <2>2. f = [start \in 0..Len(text) |-> f[start]]
    BY <1>4
  <2> QED
    BY <2>1, <2>2 DEF LinesFrom
<1> QED
  BY <1>3, <1>5

\* Lines that the parser makes a message of, or nothing; and their length with
\* their newlines.
Parsable == {line \in Seq(Bytes) : ParseInputLine(line) \in Seq(InputMessages)}
LengthOf(lines) == Len(FlattenSeq(lines)) + Len(lines)

LEMMA NoLines == Parsed(<<>>) = <<>> /\ LengthOf(<<>>) = 0
<1>1. [n \in DOMAIN <<>> |-> ParseInputLine(<<>>[n])] = <<>>
  OBVIOUS
<1>2. FlattenSeq(<<>>) = <<>>
  <2>1. <<>> \in Seq(Seq({})) /\ Len(<<>>) = 0
    OBVIOUS
  <2>2. PICK f : Flattens(f, {}, <<>>)
    BY <2>1, FlattenFacts
  <2> QED
    BY <2>1, <2>2 DEF Flattens
<1> QED
  BY <1>1, <1>2 DEF Parsed, LengthOf

LEMMA LinesCons ==
    ASSUME NEW line \in Parsable, NEW lines \in Seq(Parsable)
    PROVE  /\ <<line>> \o lines \in Seq(Parsable)
           /\ Parsed(lines) \in Seq(InputMessages)
           /\ ParseInputLine(line) \in Seq(InputMessages)
           /\ Parsed(<<line>> \o lines) = ParseInputLine(line) \o Parsed(lines)
           /\ LengthOf(lines) \in Nat
           /\ LengthOf(<<line>> \o lines) = Len(line) + 1 + LengthOf(lines)
<1>. PICK more : more = <<line>> \o lines
  OBVIOUS
<1>1. /\ more \in Seq(Parsable) /\ more # <<>> /\ Len(more) = Len(lines) + 1
      /\ more[1] = line /\ \A i \in 1..Len(lines) : more[i + 1] = lines[i]
      /\ Head(more) = line /\ Tail(more) = lines
  OBVIOUS
<1>2. Parsable \subseteq Seq(Bytes)
  BY DEF Parsable
<1>3. more \in Seq(Seq(Bytes)) /\ lines \in Seq(Seq(Bytes)) /\ line \in Seq(Bytes)
  BY <1>1, <1>2, SeqMonotonic
<1>4. /\ FlattenSeq(more) = line \o FlattenSeq(lines)
      /\ FlattenSeq(lines) \in Seq(Bytes)
  <2>1. FlattenSeq(lines) \in Seq(Bytes)
    BY ONLY <1>3, FlattenAppend
  <2>2. FlattenSeq(more) = line \o FlattenSeq(lines)
    BY ONLY <1>1, <1>3, FlattenCons
  <2> QED
    BY <2>1, <2>2
<1>5. /\ Len(line) \in Nat /\ Len(FlattenSeq(lines)) \in Nat /\ Len(lines) \in Nat
      /\ Len(FlattenSeq(more)) = Len(line) + Len(FlattenSeq(lines))
  BY <1>3, <1>4
<1>6. LengthOf(lines) \in Nat /\ LengthOf(more) = Len(line) + 1 + LengthOf(lines)
  <2>. PICK a : a = FlattenSeq(lines)
    OBVIOUS
  <2>1. /\ Len(line) \in Nat /\ Len(a) \in Nat /\ Len(lines) \in Nat
        /\ Len(FlattenSeq(more)) = Len(line) + Len(a) /\ Len(more) = Len(lines) + 1
    BY <1>1, <1>5
  <2>2. Len(FlattenSeq(more)) + Len(more) = Len(line) + 1 + (Len(a) + Len(lines))
    BY ONLY <2>1
  <2> QED
    BY <2>1, <2>2 DEF LengthOf
<1> DEFINE v == [l \in Parsable |-> ParseInputLine(l)]
<1>7. GivesParts(v, Parsable, InputMessages) /\ v[line] = ParseInputLine(line)
  BY DEF Parsable, GivesParts
<1>8. ASSUME NEW s \in Seq(Parsable)
      PROVE  Parsed(s) = AllParts(v, s)
  <2>1. \A n \in DOMAIN s : v[s[n]] = ParseInputLine(s[n])
    OBVIOUS
  <2> HIDE DEF v
  <2>2. Parts(v, s) = [n \in DOMAIN s |-> ParseInputLine(s[n])]
    BY <2>1 DEF Parts
  <2> QED
    BY <2>2 DEF Parsed, AllParts
<1> HIDE DEF v
<1>9. /\ v[line] \in Seq(InputMessages) /\ AllParts(v, lines) \in Seq(InputMessages)
      /\ AllParts(v, more) = v[line] \o AllParts(v, lines)
  <2>1. more \in Seq(Parsable) /\ more # <<>>
    BY <1>1
  <2>2. /\ v[Head(more)] \in Seq(InputMessages)
        /\ AllParts(v, Tail(more)) \in Seq(InputMessages)
        /\ AllParts(v, more) = v[Head(more)] \o AllParts(v, Tail(more))
    BY ONLY <1>7, <2>1, PartsHead
  <2>3. Head(more) = line /\ Tail(more) = lines
    BY <1>1
  <2> QED
    BY <2>2, <2>3
<1> QED
  BY <1>1, <1>6, <1>7, <1>8, <1>9

\* What was read before, what has not been read and what is lost are, one after
\* the other, the bytes of the units.
Carries(front, rest, lost, units) ==
    /\ front \in Seq(Bytes) /\ rest \in Seq(Bytes) /\ lost \in Seq(Bytes)
    /\ (front \o rest) \o lost = BytesOf(units)

\* What the text has left behind a place.
Behind(text, start) == SubSeq(text, start + 1, Len(text))

LEMMA BehindFacts ==
    ASSUME NEW text \in Seq(Bytes), NEW start \in 0..Len(text)
    PROVE  /\ Behind(text, start) \in Seq(Bytes)
           /\ Len(Behind(text, start)) = Len(text) - start
           /\ \A i \in 1..(Len(text) - start) : Behind(text, start)[i] = text[start + i]
BY SubSeqProperties DEF Behind

\* A line at the front of some bytes is the line that they begin with.
LEMMA SameLine ==
    ASSUME NEW z \in Seq(Bytes), NEW n \in Nat, n < Len(z), z[n + 1] = Newline,
           \A i \in 1..n : z[i] # Newline,
           NEW body \in Seq(Bytes \ {Newline}), NEW rest, NEW lost, NEW R,
           Makes(z, rest, lost, Append(body, Newline), R)
    PROVE  Len(body) = n /\ \A i \in 1..n : body[i] = z[i]
<1>. PICK F : F = Append(body, Newline)
  OBVIOUS
<1>1. /\ F \in Seq(Bytes) /\ Len(F) = Len(body) + 1 /\ F[Len(body) + 1] = Newline
      /\ \A i \in 1..Len(body) : F[i] = body[i] /\ body[i] # Newline
  <2>1. Newline \in Bytes /\ Bytes \ {Newline} \subseteq Bytes
    BY DEF Newline, Bytes
  <2>2. body \in Seq(Bytes)
    BY <2>1, SeqMonotonic
  <2>3. \A i \in 1..Len(body) : body[i] \in Bytes \ {Newline}
    OBVIOUS
  <2> QED
    BY <2>1, <2>2, <2>3, AppendProperties
<1>2. Makes(z, rest, lost, F, R)
  OBVIOUS
<1>3. \A i \in 1..Len(z) : i <= Len(F) => z[i] = F[i]
  BY ONLY <1>2, SameFront
<1>4. Len(body) \in Nat /\ Len(z) \in Nat
  OBVIOUS
<1>5. ~(Len(body) < n)
  <2>1. SUFFICES ASSUME Len(body) < n PROVE FALSE
    OBVIOUS
  <2>2. Len(body) + 1 \in 1..n /\ Len(body) + 1 \in 1..Len(z) /\ Len(body) + 1 <= Len(F)
    BY ONLY <1>1, <1>4, <2>1, n \in Nat, n < Len(z)
  <2> QED
    BY ONLY <1>1, <1>3, <2>2, \A i \in 1..n : z[i] # Newline
<1>6. ~(n < Len(body))
  <2>1. SUFFICES ASSUME n < Len(body) PROVE FALSE
    OBVIOUS
  <2>2. n + 1 \in 1..Len(body) /\ n + 1 \in 1..Len(z) /\ n + 1 <= Len(F)
    BY ONLY <1>1, <1>4, <2>1, n \in Nat, n < Len(z)
  <2> QED
    BY ONLY <1>1, <1>3, <2>2, z[n + 1] = Newline
<1>7. Len(body) = n
  BY ONLY <1>4, <1>5, <1>6, n \in Nat
<1>8. \A i \in 1..n : i \in 1..Len(z) /\ i <= Len(F) /\ i \in 1..Len(body)
  BY ONLY <1>1, <1>4, <1>7, n \in Nat, n < Len(z)
<1>9. \A i \in 1..n : body[i] = z[i]
  BY ONLY <1>1, <1>3, <1>8
<1> QED
  BY <1>7, <1>9

LEMMA BehindBehind ==
    ASSUME NEW text \in Seq(Bytes), NEW start \in 0..Len(text), NEW p \in 0..Len(text),
           start <= p
    PROVE  SubSeq(Behind(text, start), (p - start) + 1, Len(Behind(text, start)))
             = Behind(text, p)
<1> DEFINE z == Behind(text, start)
           w == Behind(text, p)
           after == SubSeq(z, (p - start) + 1, Len(z))
           k == Len(text)
           d == p - start
<1>1. k \in Nat /\ start \in Nat /\ p \in Nat /\ d \in Nat /\ k - start \in Nat
      /\ k - p \in Nat /\ d <= k - start /\ start + d = p
  OBVIOUS
<1>2. z \in Seq(Bytes) /\ Len(z) = k - start
      /\ \A i \in 1..(k - start) : z[i] = text[start + i]
  BY BehindFacts
<1>3. w \in Seq(Bytes) /\ Len(w) = k - p /\ \A i \in 1..(k - p) : w[i] = text[p + i]
  BY BehindFacts
<1> HIDE DEF z, w, k
<1>4. /\ d + 1 \in 1..(Len(z) + 1) /\ Len(z) \in 0..Len(z)
      /\ Len(z) - (d + 1) + 1 = k - p
      /\ \A i \in 1..(k - p) : /\ d + i \in 1..(k - start)
                               /\ (d + 1) + i - 1 = d + i
                               /\ start + (d + i) = p + i
  <2> HIDE DEF d
  <2>1. k - p = (k - start) - d
    BY <1>1
  <2> QED
    BY ONLY <1>1, <1>2, <2>1
<1> HIDE DEF d
<1>5. /\ after \in Seq(Bytes) /\ Len(after) = k - p
      /\ \A i \in 1..(k - p) : after[i] = z[d + i]
  <2>1. after = SubSeq(z, d + 1, Len(z))
    BY DEF d
  <2>2. after \in Seq(Bytes) /\ Len(after) = k - p
        /\ \A i \in 1..(k - p) : after[i] = z[(d + 1) + i - 1]
    <3> HIDE DEF after
    <3>1. Len(z) - (d + 1) + 1 \in Nat
      BY <1>1, <1>4
    <3>2. /\ after \in Seq(Bytes) /\ Len(after) = Len(z) - (d + 1) + 1
          /\ \A i \in 1..(Len(z) - (d + 1) + 1) : after[i] = z[(d + 1) + i - 1]
      <4>1. z \in Seq(Bytes)
        BY <1>2
      <4>2. /\ d + 1 \in Int /\ Len(z) \in Int /\ d + 1 <= Len(z) + 1
            /\ \A i \in (d + 1)..Len(z) : z[i] \in Bytes
        BY ONLY <1>4, <4>1
      <4> QED
        BY ONLY <2>1, <3>1, <4>2, SubSeqProperties
    <3> QED
      BY ONLY <1>4, <3>2
  <2> HIDE DEF after
  <2> QED
    BY <1>4, <2>2
<1> HIDE DEF after
<1>6. \A i \in 1..(k - p) : after[i] = w[i]
  BY <1>2, <1>3, <1>4, <1>5
<1>7. after = w
  BY <1>3, <1>5, <1>6, SeqEqual
<1> QED
  BY <1>7 DEF after, w, z, d

\* The line is the first of the units, and the text carries the others.
BeginsWith(units, line, text, rest, lost) ==
    /\ units # <<>> /\ Tail(units) \in Seq(LineUnits)
    /\ line \in Parsable /\ Head(units).means = ParseInputLine(line)
    /\ Carries(text, rest, lost, Tail(units))

LEMMA FirstLine ==
    ASSUME NEW text \in Seq(Bytes), NEW start \in 0..Len(text), NEW rest, NEW lost,
           NEW units \in Seq(LineUnits),
           Carries(Behind(text, start), rest, lost, units),
           NewlinesAfter(text, start) # {}
    PROVE  BeginsWith(units, SubSeq(text, start + 1, Min(NewlinesAfter(text, start)) - 1),
                      Behind(text, Min(NewlinesAfter(text, start))), rest, lost)
<1>. PICK p, line : /\ p = Min(NewlinesAfter(text, start))
                    /\ line = SubSeq(text, start + 1, p - 1)
  OBVIOUS
<1> DEFINE z == Behind(text, start)
           n == p - 1 - start
           unit == Head(units)
           R == BytesOf(Tail(units))
<1>1. /\ p \in Nat /\ start < p /\ p <= Len(text) /\ text[p] = Newline
      /\ line \in Seq(Bytes \ {Newline}) /\ Len(line) = p - 1 - start
      /\ \A i \in 1..(p - 1 - start) : line[i] = text[start + i]
  BY NextNewline
<1>2. z \in Seq(Bytes) /\ Len(z) = Len(text) - start
      /\ \A i \in 1..(Len(text) - start) : z[i] = text[start + i]
  BY BehindFacts
<1>3. z \in Seq(Bytes) /\ rest \in Seq(Bytes) /\ lost \in Seq(Bytes)
      /\ (z \o rest) \o lost = BytesOf(units)
  BY DEF Carries
<1> HIDE DEF z
<1>. PICK k \in Nat : k = Len(text) /\ start \in 0..k
  OBVIOUS
<1>4. n \in Nat /\ n < Len(z) /\ n + 1 = p - start
  <2>1. p \in Nat /\ start < p /\ p <= k /\ Len(z) = k - start
    BY <1>1, <1>2
  <2> QED
    BY ONLY <2>1, k \in Nat, start \in 0..k DEF n
<1>5. z[n + 1] = Newline /\ \A i \in 1..n : z[i] = line[i] /\ z[i] # Newline
  <2>1. n + 1 \in 1..(Len(text) - start) /\ start + (n + 1) = p
        /\ \A i \in 1..n : i \in 1..(Len(text) - start)
    <3>1. p \in Nat /\ start < p /\ p <= k /\ k = Len(text)
      BY <1>1
    <3> QED
      BY ONLY <3>1, k \in Nat, start \in 0..k DEF n
  <2>2. \A i \in 1..n : line[i] \in Bytes \ {Newline}
    BY <1>1
  <2> HIDE DEF n
  <2>3. \A i \in 1..n : line[i] = text[start + i]
    BY <1>1 DEF n
  <2> QED
    BY <1>1, <1>2, <2>1, <2>2, <2>3
<1>6. units # <<>>
  <2>1. Len((z \o rest) \o lost) = (Len(z) + Len(rest)) + Len(lost)
        /\ Len(rest) \in Nat /\ Len(lost) \in Nat
    BY <1>3, HasConcat
  <2>2. Len(z) # 0 /\ Len(z) \in Nat
    BY <1>3, <1>4
  <2>3. Len(BytesOf(units)) # 0
    BY ONLY <1>3, <2>1, <2>2
  <2> QED
    BY <2>3, UnitsNone
<1>7. LineUnits \subseteq Units
  BY DEF LineUnits
<1>8. units \in Seq(Units) /\ unit \in LineUnits /\ Tail(units) \in Seq(LineUnits)
  BY <1>6, <1>7, SeqMonotonic, HeadTailProperties
<1>9. R \in Seq(Bytes) /\ (z \o rest) \o lost = unit.bytes \o R
      /\ unit.means \in Seq(InputMessages)
  <2>1. unit.means \in Seq(InputMessages)
    BY <1>7, <1>8 DEF Units
  <2> QED
    BY <1>3, <1>6, <1>8, <2>1, UnitsHead
<1> HIDE DEF unit, R
<1>10. PICK body \in Seq(Bytes \ {Newline}) :
         unit.bytes = Append(body, Newline) /\ unit.means = ParseInputLine(body)
  BY <1>8 DEF LineUnits
<1>11. Append(body, Newline) \in Seq(Bytes) /\ Len(Append(body, Newline)) = Len(body) + 1
  <2>1. Newline \in Bytes /\ Bytes \ {Newline} \subseteq Bytes
    BY DEF Newline, Bytes
  <2>2. body \in Seq(Bytes)
    BY <2>1, SeqMonotonic
  <2> QED
    BY <2>1, <2>2
<1>12. Makes(z, rest, lost, Append(body, Newline), R)
  BY <1>3, <1>9, <1>10, <1>11 DEF Makes
<1> HIDE DEF n
<1>13. Len(body) = n /\ \A i \in 1..n : body[i] = z[i]
  BY ONLY <1>3, <1>4, <1>5, <1>12, body \in Seq(Bytes \ {Newline}), SameLine
<1>14. body = line
  <2>1. Len(line) = n
    BY <1>1 DEF n
  <2>2. \A i \in 1..n : body[i] = line[i]
    BY <1>5, <1>13
  <2> QED
    BY <1>1, <1>13, <2>1, <2>2, SeqEqual
<1>15. line \in Parsable
  <2>1. Bytes \ {Newline} \subseteq Bytes
    OBVIOUS
  <2>2. line \in Seq(Bytes)
    BY <1>1, <2>1, SeqMonotonic
  <2> QED
    BY <1>9, <1>10, <1>14, <2>2 DEF Parsable
<1>16. Carries(Behind(text, p), rest, lost, Tail(units))
  <2>. PICK after : after = SubSeq(z, Len(Append(body, Newline)) + 1, Len(z))
    OBVIOUS
  <2>1. Len(Append(body, Newline)) <= Len(z) /\ Len(Append(body, Newline)) = p - start
    BY <1>3, <1>4, <1>11, <1>13
  <2>2. Joins(after, rest, lost, R)
    BY <1>12, <2>1, SplitFrame
  <2>3. after = Behind(text, p)
    <3>1. p \in 0..Len(text) /\ start <= p
      BY <1>1
    <3> QED
      BY <2>1, <3>1, BehindBehind DEF z
  <2> QED
    BY <1>3, <2>2, <2>3 DEF Joins, Carries, R
<1> QED
  BY <1>6, <1>8, <1>10, <1>14, <1>15, <1>16 DEF unit, BeginsWith

\* What the lines from a place on make of the units.
TakesLines(lines, text, start, rest, lost, units) ==
    \E more \in Seq(LineUnits) : \E at \in start..Len(text) :
      /\ lines \in Seq(Parsable)
      /\ Parsed(lines) \o Says(more) = Says(units)
      /\ at = start + LengthOf(lines)
      /\ NewlinesAfter(text, at) = {}
      /\ Carries(Behind(text, at), rest, lost, more)

LEMMA LinesAreUnits ==
    ASSUME NEW text \in Seq(Bytes), NEW f, LinesFrom(f, text, 0), NEW rest, NEW lost
    PROVE  \A start \in 0..Len(text) : \A units \in Seq(LineUnits) :
             Carries(Behind(text, start), rest, lost, units) =>
               TakesLines(f[start], text, start, rest, lost, units)
<1> DEFINE Fails(start, units) ==
             /\ Carries(Behind(text, start), rest, lost, units)
             /\ ~TakesLines(f[start], text, start, rest, lost, units)
           Bad == {n \in Nat : \E start \in 0..Len(text) : \E units \in Seq(LineUnits) :
                                 n = Len(text) - start /\ Fails(start, units)}
<1>1. SUFFICES ASSUME Bad # {} PROVE FALSE
  <2>1. \A start \in 0..Len(text) : Len(text) - start \in Nat
    OBVIOUS
  <2> HIDE DEF TakesLines
  <2> QED
    BY <2>1
<1>2. PICK least \in Bad : \A n \in Bad : least <= n
  <2>1. Bad \subseteq Nat
    OBVIOUS
  <2> HIDE DEF Bad
  <2> QED
    BY <1>1, <2>1, LeastExists
<1>3. PICK start \in 0..Len(text), units \in Seq(LineUnits) :
        least = Len(text) - start /\ Fails(start, units)
  OBVIOUS
<1>4. \A s \in 0..Len(text) : \A us \in Seq(LineUnits) :
        s > start => ~Fails(s, us)
  <2>1. \A s \in 0..Len(text) : s > start => Len(text) - s \in Nat /\ ~(least <= Len(text) - s)
    BY <1>3
  <2> HIDE DEF Fails
  <2> QED
    BY <1>2, <2>1
<1>5. f[start] = WithLine(text, f, start)
  BY DEF LinesFrom
<1>6. LineUnits \subseteq Units
  BY DEF LineUnits
<1>7. units \in Seq(Units)
  BY <1>6, SeqMonotonic
<1> HIDE DEF Bad
<1>8. CASE NewlinesAfter(text, start) = {}
  <2>1. f[start] = <<>>
    BY <1>5, <1>8 DEF WithLine
  <2>2. <<>> \o Says(units) = Says(units)
    BY <1>7, UnitsBytes, ConcatEmptySeq
  <2>3. start \in start..Len(text) /\ start = start + 0 /\ <<>> \in Seq(Parsable)
    OBVIOUS
  <2>4. TakesLines(<<>>, text, start, rest, lost, units)
    BY <1>3, <1>8, <2>2, <2>3, NoLines DEF TakesLines
  <2> QED
    BY <1>3, <2>1, <2>4
<1>9. CASE NewlinesAfter(text, start) # {}
  <2>. PICK p, line : /\ p = Min(NewlinesAfter(text, start))
                      /\ line = SubSeq(text, start + 1, p - 1)
    OBVIOUS
  <2>1. f[start] = <<line>> \o f[p]
    BY <1>5, <1>9 DEF WithLine
  <2>2. p \in Nat /\ start < p /\ p <= Len(text) /\ Len(line) = p - 1 - start
    BY <1>9, NextNewline
  <2>3. /\ units # <<>> /\ Tail(units) \in Seq(LineUnits)
        /\ line \in Parsable /\ Head(units).means = ParseInputLine(line)
        /\ Carries(Behind(text, p), rest, lost, Tail(units))
    <3>1. Carries(Behind(text, start), rest, lost, units)
      BY <1>3
    <3> HIDE DEF Fails
    <3> QED
      BY <1>9, <3>1, FirstLine DEF BeginsWith
  <2>4. p \in 0..Len(text) /\ p > start
    BY <2>2
  <2>5. TakesLines(f[p], text, p, rest, lost, Tail(units))
    BY <1>4, <2>3, <2>4
  <2>6. PICK more \in Seq(LineUnits), at \in p..Len(text) :
          /\ f[p] \in Seq(Parsable)
          /\ Parsed(f[p]) \o Says(more) = Says(Tail(units))
          /\ at = p + LengthOf(f[p])
          /\ NewlinesAfter(text, at) = {}
          /\ Carries(Behind(text, at), rest, lost, more)
    BY <2>5 DEF TakesLines
  <2>7. /\ <<line>> \o f[p] \in Seq(Parsable)
        /\ Parsed(f[p]) \in Seq(InputMessages)
        /\ ParseInputLine(line) \in Seq(InputMessages)
        /\ Parsed(<<line>> \o f[p]) = ParseInputLine(line) \o Parsed(f[p])
        /\ LengthOf(f[p]) \in Nat
        /\ LengthOf(<<line>> \o f[p]) = Len(line) + 1 + LengthOf(f[p])
    BY <2>3, <2>6, LinesCons
  <2>8. Says(units) = ParseInputLine(line) \o (Parsed(f[p]) \o Says(more))
    BY <1>7, <2>3, <2>6, UnitsHead
  <2>9. Parsed(<<line>> \o f[p]) \o Says(more) = Says(units)
    <3>1. more \in Seq(Units)
      BY <1>6, SeqMonotonic
    <3>2. Says(more) \in Seq(InputMessages)
      BY <3>1, UnitsBytes
    <3>3. Associates(ParseInputLine(line), Parsed(f[p]), Says(more))
      BY <2>7, <3>2, ConcatAssociates
    <3> QED
      BY <2>7, <2>8, <3>3 DEF Associates
  <2>10. at = start + LengthOf(<<line>> \o f[p]) /\ at \in start..Len(text)
    <3>. PICK k \in Nat : k = Len(text) /\ start \in 0..k /\ at \in p..k
      OBVIOUS
    <3>. PICK a, b : a = LengthOf(<<line>> \o f[p]) /\ b = LengthOf(f[p])
      OBVIOUS
    <3>1. /\ p \in Nat /\ start < p /\ Len(line) = p - 1 - start /\ b \in Nat
          /\ a = Len(line) + 1 + b /\ at = p + b
      BY <2>2, <2>6, <2>7
    <3>2. at = start + a /\ at \in start..k
      BY ONLY <3>1, k \in Nat, start \in 0..k, at \in p..k
    <3> QED
      BY ONLY <3>2, k = Len(text), a = LengthOf(<<line>> \o f[p])
  <2>11. TakesLines(<<line>> \o f[p], text, start, rest, lost, units)
    BY <2>6, <2>7, <2>9, <2>10 DEF TakesLines
  <2> QED
    BY <1>3, <2>1, <2>11
<1> QED
  BY <1>8, <1>9

-----------------------------------------------------------------------------
(* What the clients send.                                                  *)

\* The newline at the end of a line is trimmed away, so that the parser makes
\* the same of the line with it and without.
LEMMA TrimLine ==
    ASSUME NEW body \in Seq(Bytes)
    PROVE  Trim(Append(body, Newline)) = Trim(body)
<1> DEFINE text == Append(body, Newline)
           dark(s) == {i \in DOMAIN s : s[i] \notin Blank}
<1>. PICK k \in Nat : k = Len(body) /\ DOMAIN body = 1..k
  OBVIOUS
<1>1. /\ text \in Seq(Bytes) /\ Len(text) = k + 1 /\ DOMAIN text = 1..(k + 1)
      /\ \A i \in 1..k : text[i] = body[i]
      /\ text[k + 1] = Newline
  BY DEF Bytes, Newline
<1>2. Newline \in Blank
  BY DEF Newline, Blank
<1> HIDE DEF text
<1>3. dark(text) = dark(body)
  BY <1>1, <1>2
<1>4. \A s : Trim(s) = IF dark(s) = {} THEN <<>>
                      ELSE SubSeq(s, Min(dark(s)), Max(dark(s)))
  BY DEF Trim
<1>5. CASE dark(body) = {}
  <2> HIDE DEF dark
  <2> QED
    BY <1>3, <1>4, <1>5 DEF text
<1>6. CASE dark(body) # {}
  <2>. PICK D, lo, hi : D = dark(body) /\ lo = Min(D) /\ hi = Max(D)
    OBVIOUS
  <2>1. D \subseteq 1..k /\ D # {} /\ D \subseteq Nat /\ \A i \in D : i <= k
    BY <1>6
  <2>2. lo \in 1..k /\ hi \in 1..k
    BY <2>1, MinIsLeast, MaxIsGreatest
  <2>3. SubSeq(text, lo, hi) = SubSeq(body, lo, hi)
    BY ONLY <1>1, <2>2, k \in Nat, k = Len(body), body \in Seq(Bytes)
  <2> HIDE DEF dark
  <2>4. Trim(body) = SubSeq(body, lo, hi)
    BY <1>4, <1>6
  <2>5. Trim(text) = SubSeq(text, lo, hi)
    BY <1>3, <1>4, <1>6
  <2> QED
    BY <2>3, <2>4, <2>5 DEF text
<1> QED
  BY <1>5, <1>6

\* What is typed is a unit of the CSV reader.
LEMMA TypedLine ==
    ASSUME NEW line \in Lines
    PROVE  /\ [bytes |-> line.text, means |-> line.means] \in LineUnits
           /\ line.text \in Seq(Bytes) /\ line.text # <<>>
           /\ line.means \in Seq(InputMessages)
           /\ line.means = <<>> \/ \E msg \in InputMessages : line.means = <<msg>>
           /\ line.means = ParseInputLine(line.text)
<1>. PICK text : text = line.text
  OBVIOUS
<1>1. /\ text \in Seq(Bytes) /\ text # <<>>
      /\ \A i \in DOMAIN text : text[i] = Newline <=> i = Len(text)
      /\ line.means = ParseInputLine(text)
      /\ line.means = <<>> \/ \E msg \in InputMessages : line.means = <<msg>>
  BY LinesAssumption
<1>2. line.means \in Seq(InputMessages)
  <2>1. <<>> \in Seq(InputMessages) /\ \A msg \in InputMessages : <<msg>> \in Seq(InputMessages)
    OBVIOUS
  <2> QED
    BY <1>1, <2>1
<1>. PICK k \in Nat : Len(text) = k + 1 /\ DOMAIN text = 1..(k + 1)
  <2>1. Len(text) \in Nat /\ Len(text) # 0 /\ DOMAIN text = 1..Len(text)
    BY <1>1
  <2>2. Len(text) - 1 \in Nat /\ Len(text) = (Len(text) - 1) + 1
    BY <2>1
  <2> QED
    BY <2>1, <2>2
<1>. PICK body : body = SubSeq(text, 1, k)
  OBVIOUS
<1>3. Len(body) = k /\ \A i \in 1..k : body[i] = text[i]
  BY <1>1, SubSeqProperties
<1>4. body \in Seq(Bytes)
  BY <1>1, SubSeqProperties
<1>5. body \in Seq(Bytes \ {Newline})
  <2>1. \A i \in 1..k : body[i] \in Bytes \ {Newline}
    <3>1. \A i \in 1..k : i \in DOMAIN text /\ i # Len(text) /\ body[i] \in Bytes
      BY <1>3, <1>4
    <3> QED
      BY <1>1, <1>3, <3>1
  <2> QED
    BY ONLY <1>3, <1>4, <2>1, k \in Nat
<1>6. Append(body, Newline) = text
  <2>1. Newline \in Bytes
    BY DEF Newline, Bytes
  <2>2. text[k + 1] = Newline
    BY <1>1
  <2> QED
    BY ONLY <1>1, <1>3, <1>4, <2>1, <2>2, k \in Nat, Len(text) = k + 1
<1>7. ParseInputLine(body) = ParseInputLine(text)
  BY <1>4, <1>6, TrimLine DEF ParseInputLine
<1>8. [bytes |-> text, means |-> line.means] \in LineUnits
  BY <1>1, <1>2, <1>5, <1>6, <1>7 DEF LineUnits, Units
<1> QED
  BY <1>1, <1>2, <1>8

\* What an encodable message is encoded as is a unit of the binary reader.
LEMMA EncodedFrame ==
    ASSUME NEW msg \in InputMessages, Encodable(msg)
    PROVE  \E payload \in Seq(Bytes) :
             /\ EncodeInput(msg) = <<payload>>
             /\ [bytes |-> Framed(payload), means |-> <<msg>>] \in FrameUnits
<1>. PICK payload : EncodeInput(msg) = <<payload>> /\ CarriesInput(payload, msg)
  BY InputCarried
<1>1. /\ payload \in Seq(Bytes) /\ Len(payload) \in 4..400
      /\ Len(payload) <= 22 + MaxSymbolLen /\ DecodeInput(payload) = <<msg>>
  BY DEF CarriesInput
<1>2. Len(payload) \in 4..(22 + MaxSymbolLen)
  <2>. PICK n : n = Len(payload)
    OBVIOUS
  <2>. PICK m : m = MaxSymbolLen
    OBVIOUS
  <2>1. m \in Nat /\ n \in 4..400 /\ n <= 22 + m
    <3>1. m \in Nat
      BY ONLY m = MaxSymbolLen, BinaryCodecAssumption
    <3> QED
      BY ONLY <1>1, <3>1, n = Len(payload), m = MaxSymbolLen
  <2>2. n \in 4..(22 + m)
    BY ONLY <2>1
  <2> QED
    BY <2>2
<1>3. Framed(payload) \in Seq(Bytes) /\ Framed(payload) = U32(Len(payload)) \o payload
  <2>1. Fits(Len(payload))
    <3>1. Len(payload) \in 4..400
      BY ONLY <1>1
    <3> QED
      BY ONLY <3>1, SmallFits
  <2>2. U32(Len(payload)) \in Seq(Bytes)
    BY ONLY <2>1, U32Inverse
  <2> QED
    BY ONLY <1>1, <2>2 DEF Framed
<1>4. <<msg>> \in Seq(InputMessages) /\ <<msg>> # <<>>
  OBVIOUS
<1>. PICK unit : unit = [bytes |-> Framed(payload), means |-> <<msg>>]
  OBVIOUS
<1>5. unit \in Units
  BY <1>3, <1>4 DEF Units
<1>6. /\ unit.bytes = U32(Len(payload)) \o payload /\ unit.means = DecodeInput(payload)
      /\ unit.means # <<>>
  BY <1>1, <1>3, <1>4
<1>7. unit \in FrameUnits
  BY ONLY <1>1, <1>2, <1>5, <1>6 DEF FrameUnits
<1> QED
  BY <1>1, <1>7

\* What the engine is meant to get of one line, and of several.
ShareOf(kind, line) ==
    IF kind # "nc" /\ line.means # <<>> /\ ~Encodable(line.means[1])
    THEN <<>> ELSE line.means

MeantBy(kind, lines) ==
    FlattenSeq([n \in DOMAIN lines |-> ShareOf(kind, lines[n])])

LEMMA MeantIsBy ==
    ASSUME NEW lines
    PROVE  Meant(lines) = MeantBy(client, lines)
BY DEF Meant, MeantBy, ShareOf

LEMMA MeantAppend ==
    ASSUME NEW kind, NEW lines \in Seq(Lines), NEW line \in Lines
    PROVE  /\ ShareOf(kind, line) \in Seq(InputMessages)
           /\ MeantBy(kind, lines) \in Seq(InputMessages)
           /\ MeantBy(kind, Append(lines, line)) = MeantBy(kind, lines) \o ShareOf(kind, line)
           /\ MeantBy(kind, <<>>) = <<>>
<1> DEFINE v == [l \in Lines |-> ShareOf(kind, l)]
<1>1. \A l \in Lines : l.means \in Seq(InputMessages)
  BY TypedLine
<1>2. \A l \in Lines : ShareOf(kind, l) \in Seq(InputMessages)
  BY <1>1 DEF ShareOf
<1>3. GivesParts(v, Lines, InputMessages) /\ v[line] = ShareOf(kind, line)
  BY <1>2 DEF GivesParts
<1>4. ASSUME NEW s \in Seq(Lines)
      PROVE  MeantBy(kind, s) = AllParts(v, s)
  <2>1. \A n \in DOMAIN s : v[s[n]] = ShareOf(kind, s[n])
    OBVIOUS
  <2> HIDE DEF v
  <2>2. Parts(v, s) = [n \in DOMAIN s |-> ShareOf(kind, s[n])]
    BY <2>1 DEF Parts
  <2> QED
    BY <2>2 DEF MeantBy, AllParts
<1> HIDE DEF v
<1>5. /\ AllParts(v, lines) \in Seq(InputMessages)
      /\ AllParts(v, Append(lines, line)) = AllParts(v, lines) \o v[line]
  <2>1. GivesParts(v, Lines, InputMessages)
    BY <1>3
  <2> QED
    BY ONLY <2>1, lines \in Seq(Lines), line \in Lines, PartsAppend
<1>6. Append(lines, line) \in Seq(Lines) /\ <<>> \in Seq(Lines)
  OBVIOUS
<1>7. MeantBy(kind, <<>>) = <<>>
  BY <1>4, <1>6, NoParts
<1> QED
  BY <1>2, <1>3, <1>4, <1>5, <1>6, <1>7

LEMMA FlattenOne ==
    ASSUME NEW S, NEW p \in Seq(S)
    PROVE  FlattenSeq(<<p>>) = p /\ FlattenSeq(<<>>) = <<>>
<1>1. FlattenSeq(<<>>) = <<>>
  <2>1. <<>> \in Seq(Seq({})) /\ Len(<<>>) = 0
    OBVIOUS
  <2>2. PICK f : Flattens(f, {}, <<>>)
    BY <2>1, FlattenFacts
  <2> QED
    BY <2>1, <2>2 DEF Flattens
<1>2. <<>> \in Seq(Seq(S)) /\ <<p>> = Append(<<>>, p)
  OBVIOUS
<1>3. FlattenSeq(<<p>>) = <<>> \o p
  BY <1>1, <1>2, FlattenAppend
<1> QED
  BY <1>1, <1>3, ConcatEmptySeq

\* The bytes of the frames that tcp_client makes of a line.
FramesOf(line) ==
    LET payloads == FlattenSeq([n \in DOMAIN ParseInputLine(line.text) |->
                                  EncodeInput(ParseInputLine(line.text)[n])])
    IN  FlattenSeq([n \in DOMAIN payloads |-> Framed(payloads[n])])

LEMMA ParsedFrames ==
    ASSUME NEW line \in Lines, NEW kind, kind # "nc"
    PROVE  \/ FramesOf(line) = <<>> /\ ShareOf(kind, line) = <<>>
           \/ [bytes |-> FramesOf(line), means |-> ShareOf(kind, line)] \in FrameUnits
<1>1. line.means = <<>> \/ \E msg \in InputMessages : line.means = <<msg>>
  BY TypedLine
<1>2. line.means = ParseInputLine(line.text)
  BY TypedLine
<1> DEFINE payloads == FlattenSeq([n \in DOMAIN ParseInputLine(line.text) |->
                                     EncodeInput(ParseInputLine(line.text)[n])])
<1>3. FramesOf(line) = FlattenSeq([n \in DOMAIN payloads |-> Framed(payloads[n])])
  BY DEF FramesOf
<1>4. FlattenSeq(<<>>) = <<>>
  <2>1. <<>> \in Seq({})
    OBVIOUS
  <2> QED
    BY <2>1, FlattenOne
<1>5. [n \in DOMAIN <<>> |-> EncodeInput(<<>>[n])] = <<>>
      /\ [n \in DOMAIN <<>> |-> Framed(<<>>[n])] = <<>>
  OBVIOUS
<1>6. CASE line.means = <<>>
  <2>1. payloads = <<>>
    BY <1>2, <1>4, <1>5, <1>6
  <2> HIDE DEF payloads
  <2>2. FramesOf(line) = <<>>
    BY <1>3, <1>4, <1>5, <2>1
  <2>3. ShareOf(kind, line) = <<>>
    BY <1>6 DEF ShareOf
  <2> QED
    BY <2>2, <2>3
<1>7. CASE line.means # <<>>
  <2>1. PICK msg \in InputMessages : line.means = <<msg>>
    BY <1>1, <1>7
  <2>2. [n \in DOMAIN <<msg>> |-> EncodeInput(<<msg>>[n])] = <<EncodeInput(msg)>>
    OBVIOUS
  <2>3. payloads = FlattenSeq(<<EncodeInput(msg)>>)
    BY <1>2, <2>1, <2>2
  <2>4. <<msg>>[1] = msg
    OBVIOUS
  <2> HIDE DEF payloads
  <2>5. CASE Encodable(msg)
    <3>1. PICK payload \in Seq(Bytes) :
            /\ EncodeInput(msg) = <<payload>>
            /\ [bytes |-> Framed(payload), means |-> <<msg>>] \in FrameUnits
      BY <2>5, EncodedFrame
    <3>2. payloads = <<payload>>
      <4>1. <<payload>> \in Seq(Seq(Bytes))
        OBVIOUS
      <4> QED
        BY <2>3, <3>1, <4>1, FlattenOne
    <3>3. [n \in DOMAIN <<payload>> |-> Framed(<<payload>>[n])] = <<Framed(payload)>>
      OBVIOUS
    <3>. PICK unit : unit = [bytes |-> Framed(payload), means |-> <<msg>>]
      OBVIOUS
    <3>4. unit.bytes = Framed(payload) /\ unit.bytes \in Seq(Bytes)
      BY <3>1 DEF FrameUnits, Units
    <3>5. FramesOf(line) = Framed(payload)
      BY <1>3, <3>2, <3>3, <3>4, FlattenOne
    <3>6. ShareOf(kind, line) = <<msg>>
      BY <2>1, <2>4, <2>5 DEF ShareOf
    <3> QED
      BY <3>1, <3>5, <3>6
  <2>6. CASE ~Encodable(msg)
    <3>1. EncodeInput(msg) = <<>>
      BY <2>6 DEF EncodeInput
    <3>2. payloads = <<>>
      <4>1. <<>> \in Seq({})
        OBVIOUS
      <4> QED
        BY <2>3, <3>1, <4>1, FlattenOne
    <3>3. FramesOf(line) = <<>>
      BY <1>3, <1>4, <1>5, <3>2
    <3>4. ShareOf(kind, line) = <<>>
      BY <1>7, <2>1, <2>4, <2>6 DEF ShareOf
    <3> QED
      BY <3>3, <3>4
  <2> QED
    BY <2>5, <2>6
<1> QED
  BY <1>6, <1>7

\* What has been typed and the engine has not been given is in what the reader
\* holds, in what it has not read and in what is lost.
Carried(kind) == IF kind = "nc" THEN LineUnits ELSE FrameUnits

OnTheLine(kind, lines, given, held, rest, end) ==
    \E units \in Seq(Carried(kind)), lost \in Seq(Bytes) :
      /\ Carries(held, rest, lost, units)
      /\ given \o Says(units) = MeantBy(kind, lines)
      /\ end # "cut" => lost = <<>>

LEMMA CarriedUnits ==
    ASSUME NEW kind
    PROVE  /\ Carried(kind) \subseteq Units
           /\ \A units \in Seq(Carried(kind)) : units \in Seq(Units)
<1>1. Carried(kind) \subseteq Units
  BY DEF Carried, LineUnits, FrameUnits
<1> QED
  BY <1>1, SeqMonotonic

\* One unit more is sent.
LEMMA CarryMore ==
    ASSUME NEW held, NEW rest, NEW units \in Seq(Units), NEW unit \in Units,
           Carries(held, rest, <<>>, units)
    PROVE  Carries(held, rest \o unit.bytes, <<>>, Append(units, unit))
<1>. PICK F : F = unit.bytes
  OBVIOUS
<1>. PICK R : R = BytesOf(units)
  OBVIOUS
<1>1. F \in Seq(Bytes) /\ BytesOf(Append(units, unit)) = R \o F
  BY UnitsAppend
<1>2. /\ held \in Seq(Bytes) /\ rest \in Seq(Bytes) /\ <<>> \in Seq(Bytes)
      /\ (held \o rest) \o <<>> = R
  BY DEF Carries
<1>3. held \o rest \in Seq(Bytes) /\ rest \o F \in Seq(Bytes)
  BY ONLY <1>1, <1>2, ConcatProperties
<1>4. held \o rest = R
  BY ONLY <1>2, <1>3, ConcatEmptySeq
<1>5. (held \o rest) \o F = held \o (rest \o F)
  <2>1. Associates(held, rest, F)
    BY ONLY <1>1, <1>2, ConcatAssociates
  <2> QED
    BY ONLY <2>1 DEF Associates
<1>6. held \o (rest \o F) \in Seq(Bytes)
  BY ONLY <1>2, <1>3, ConcatProperties
<1>7. (held \o (rest \o F)) \o <<>> = held \o (rest \o F)
  BY ONLY <1>6, ConcatEmptySeq
<1>8. (held \o (rest \o F)) \o <<>> = BytesOf(Append(units, unit))
  BY ONLY <1>1, <1>4, <1>5, <1>7
<1> QED
  BY <1>2, <1>3, <1>8 DEF Carries

LEMMA SendUnit ==
    ASSUME NEW kind, NEW lines \in Seq(Lines), NEW line \in Lines,
           NEW given \in Seq(InputMessages), NEW held, NEW rest, NEW end,
           OnTheLine(kind, lines, given, held, rest, "open"),
           NEW unit \in Carried(kind), unit.means = ShareOf(kind, line)
    PROVE  OnTheLine(kind, Append(lines, line), given, held, rest \o unit.bytes, end)
<1>1. PICK units \in Seq(Carried(kind)), lost \in Seq(Bytes) :
        /\ Carries(held, rest, lost, units)
        /\ given \o Says(units) = MeantBy(kind, lines)
        /\ lost = <<>>
  BY DEF OnTheLine
<1>2. units \in Seq(Units) /\ unit \in Units /\ Append(units, unit) \in Seq(Carried(kind))
  BY CarriedUnits
<1>3. Carries(held, rest, <<>>, units)
  BY <1>1
<1>4. Carries(held, rest \o unit.bytes, <<>>, Append(units, unit))
  BY ONLY <1>2, <1>3, CarryMore
<1>5. given \o Says(Append(units, unit)) = MeantBy(kind, Append(lines, line))
  <2>1. /\ Says(units) \in Seq(InputMessages) /\ unit.means \in Seq(InputMessages)
        /\ Says(Append(units, unit)) = Says(units) \o unit.means
    BY ONLY <1>2, UnitsAppend
  <2>2. Associates(given, Says(units), unit.means)
    BY ONLY <2>1, given \in Seq(InputMessages), ConcatAssociates
  <2>3. MeantBy(kind, Append(lines, line)) = MeantBy(kind, lines) \o ShareOf(kind, line)
    BY MeantAppend
  <2> QED
    BY <1>1, <2>1, <2>2, <2>3 DEF Associates
<1> QED
  BY <1>2, <1>4, <1>5 DEF OnTheLine

LEMMA SendNothing ==
    ASSUME NEW kind, NEW lines \in Seq(Lines), NEW line \in Lines,
           NEW given, NEW held, NEW rest, NEW end,
           OnTheLine(kind, lines, given, held, rest, "open"),
           ShareOf(kind, line) = <<>>
    PROVE  OnTheLine(kind, Append(lines, line), given, held, rest, end)
<1>1. MeantBy(kind, Append(lines, line)) = MeantBy(kind, lines)
  <2>1. MeantBy(kind, lines) \in Seq(InputMessages)
    BY MeantAppend
  <2>2. MeantBy(kind, Append(lines, line)) = MeantBy(kind, lines) \o <<>>
    BY MeantAppend
  <2> QED
    BY <2>1, <2>2, ConcatEmptySeq
<1> QED
  BY <1>1 DEF OnTheLine

\* The connection breaks: what is behind a place is lost.
LEMMA CutOff ==
    ASSUME NEW kind, NEW lines, NEW given, NEW held, NEW rest, NEW end,
           OnTheLine(kind, lines, given, held, rest, end), NEW k \in 0..Len(rest)
    PROVE  OnTheLine(kind, lines, given, held, SubSeq(rest, 1, k), "cut")
<1>1. PICK units \in Seq(Carried(kind)), lost \in Seq(Bytes) :
        /\ Carries(held, rest, lost, units)
        /\ given \o Says(units) = MeantBy(kind, lines)
  BY DEF OnTheLine
<1>2. /\ held \in Seq(Bytes) /\ rest \in Seq(Bytes) /\ lost \in Seq(Bytes)
      /\ (held \o rest) \o lost = BytesOf(units)
  BY <1>1 DEF Carries
<1>. PICK front : front = SubSeq(rest, 1, k)
  OBVIOUS
<1>. PICK back : back = SubSeq(rest, k + 1, Len(rest))
  OBVIOUS
<1>3. front \in Seq(Bytes) /\ held \o front \in Seq(Bytes) /\ back \in Seq(Bytes)
      /\ (held \o front) \o back = held \o rest
  <2>1. /\ held \o front \in Seq(Bytes) /\ back \in Seq(Bytes)
        /\ (held \o front) \o back = held \o rest
    <3>1. held \in Seq(Bytes) /\ rest \in Seq(Bytes) /\ k \in 0..Len(rest)
      BY <1>2
    <3> QED
      BY ONLY <3>1, CutInbound, front = SubSeq(rest, 1, k),
              back = SubSeq(rest, k + 1, Len(rest))
  <2>2. front \in Seq(Bytes)
    BY <1>2, SubSeqProperties
  <2> QED
    BY <2>1, <2>2
<1>4. /\ ((held \o front) \o back) \o lost = (held \o front) \o (back \o lost)
      /\ back \o lost \in Seq(Bytes)
  <2>1. Associates(held \o front, back, lost) /\ back \o lost \in Seq(Bytes)
    BY ONLY <1>2, <1>3, ConcatAssociates
  <2> QED
    BY ONLY <2>1 DEF Associates
<1>5. Carries(held, front, back \o lost, units)
  BY <1>2, <1>3, <1>4 DEF Carries
<1>6. front = SubSeq(rest, 1, k) /\ back \o lost \in Seq(Bytes)
  BY <1>4
<1> QED
  BY <1>1, <1>5, <1>6 DEF OnTheLine

-----------------------------------------------------------------------------
(* What the readers take.                                                  *)

\* The frame that the units begin with, its payload and the units behind it.
Opens(units, payload, others) ==
    /\ payload \in Seq(Bytes)
    /\ Len(payload) \in 4..(22 + MaxSymbolLen) /\ Len(payload) \in 4..400
    /\ U32(Len(payload)) \in Seq(Bytes) /\ Len(U32(Len(payload))) = 4
    /\ BytesOf(others) \in Seq(Bytes)
    /\ BytesOf(units) = U32(Len(payload)) \o (payload \o BytesOf(others))
    /\ DecodeInput(payload) # <<>> /\ DecodeInput(payload) \in Seq(InputMessages)
    /\ Says(others) \in Seq(InputMessages)
    /\ Says(units) = DecodeInput(payload) \o Says(others)

LEMMA FirstFrame ==
    ASSUME NEW units \in Seq(FrameUnits), units # <<>>
    PROVE  /\ Tail(units) \in Seq(FrameUnits)
           /\ \E payload : Opens(units, payload, Tail(units))
<1>. PICK others : others = Tail(units)
  OBVIOUS
<1>. PICK unit : unit = Head(units)
  OBVIOUS
<1>1. FrameUnits \subseteq Units
  BY DEF FrameUnits
<1>2. units \in Seq(Units) /\ others \in Seq(FrameUnits) /\ unit \in FrameUnits
  BY <1>1, SeqMonotonic
<1>3. /\ BytesOf(others) \in Seq(Bytes) /\ Says(others) \in Seq(InputMessages)
      /\ BytesOf(units) = unit.bytes \o BytesOf(others)
      /\ Says(units) = unit.means \o Says(others)
  BY <1>2, UnitsHead
<1>4. PICK payload \in Seq(Bytes) :
        /\ Len(payload) \in 4..(22 + MaxSymbolLen)
        /\ unit.bytes = U32(Len(payload)) \o payload
        /\ unit.means = DecodeInput(payload)
        /\ unit.means # <<>>
  BY <1>2 DEF FrameUnits
<1>5. unit.means \in Seq(InputMessages)
  BY <1>1, <1>2 DEF Units
<1>. PICK n : n = Len(payload)
  OBVIOUS
<1>6. n \in 4..400
  <2>. PICK m : m = MaxSymbolLen
    OBVIOUS
  <2>1. m \in 1..255
    BY ONLY m = MaxSymbolLen, BinaryCodecAssumption
  <2>2. n \in 4..(22 + m)
    BY <1>4
  <2> QED
    BY ONLY <2>1, <2>2
<1>7. U32(n) \in Seq(Bytes) /\ Len(U32(n)) = 4
  BY ONLY <1>6, SmallFits, U32Inverse
<1>8. BytesOf(units) = U32(n) \o (payload \o BytesOf(others))
  <2>1. Associates(U32(n), payload, BytesOf(others))
    BY <1>3, <1>7, ConcatAssociates
  <2> QED
    BY <1>3, <1>4, <2>1 DEF Associates
<1>9. Opens(units, payload, others)
  BY <1>3, <1>4, <1>5, <1>6, <1>7, <1>8 DEF Opens
<1> QED
  BY <1>2, <1>9

\* Bytes with nothing in front of them, as parts of a longer sequence.
LEMMA Fronts ==
    ASSUME NEW w \in Seq(Bytes), NEW lost \in Seq(Bytes)
    PROVE  /\ (w \o <<>>) \o lost = w \o lost /\ (<<>> \o w) \o lost = w \o lost
           /\ w \o lost \in Seq(Bytes) /\ Len(w \o lost) = Len(w) + Len(lost)
           /\ <<>> \in Seq(Bytes) /\ Len(<<>>) = 0
<1>1. w \o <<>> = w /\ <<>> \o w = w
  BY ConcatEmptySeq
<1>2. w \o lost \in Seq(Bytes) /\ Len(w \o lost) = Len(w) + Len(lost)
  BY ConcatProperties
<1> QED
  BY <1>1, <1>2

\* ReadLength: the four bytes are the length of the frame that comes first.
LEMMA LengthIsRead ==
    ASSUME NEW w, NEW lost, NEW units \in Seq(FrameUnits),
           Carries(<<>>, w, lost, units), units # <<>>
    PROVE  /\ w # <<>> => w[1] = 0
           /\ Len(w) >= 4 =>
                /\ U32At(w, 0) \in 4..(22 + MaxSymbolLen) /\ U32At(w, 0) \in 4..400
                /\ Carries(U32(U32At(w, 0)), SubSeq(w, 5, Len(w)), lost, units)
<1>1. PICK payload : Opens(units, payload, Tail(units))
  BY FirstFrame
<1>. PICK n : n = Len(payload)
  OBVIOUS
<1>. PICK F : F = U32(n)
  OBVIOUS
<1>. PICK R : R = payload \o BytesOf(Tail(units))
  OBVIOUS
<1>2. /\ w \in Seq(Bytes) /\ lost \in Seq(Bytes)
      /\ (<<>> \o w) \o lost = BytesOf(units)
  BY DEF Carries
<1>3. /\ n \in 4..(22 + MaxSymbolLen) /\ n \in 4..400
      /\ F \in Seq(Bytes) /\ Len(F) = 4 /\ BytesOf(units) = F \o R
      /\ payload \in Seq(Bytes) /\ BytesOf(Tail(units)) \in Seq(Bytes)
  BY <1>1 DEF Opens
<1>4. R \in Seq(Bytes)
  BY ONLY <1>3, R = payload \o BytesOf(Tail(units)), ConcatProperties
<1>5. Makes(w, <<>>, lost, F, R)
  <2>1. (w \o <<>>) \o lost = (<<>> \o w) \o lost /\ <<>> \in Seq(Bytes)
    <3>1. /\ (w \o <<>>) \o lost = w \o lost /\ (<<>> \o w) \o lost = w \o lost
          /\ <<>> \in Seq(Bytes)
      BY <1>2, Fronts
    <3> QED
      BY ONLY <3>1
  <2> QED
    BY ONLY <1>2, <1>3, <1>4, <2>1 DEF Makes
<1>6. \A i \in 1..Len(w) : i <= 4 => w[i] = F[i]
  <2>1. \A i \in 1..Len(w) : i <= Len(F) => w[i] = F[i]
    BY ONLY <1>5, SameFront
  <2> QED
    BY ONLY <1>3, <2>1
<1>7. ASSUME w # <<>> PROVE w[1] = 0
  <2>1. 1 \in 1..Len(w) /\ 1 <= 4
    BY <1>2, <1>7
  <2>2. F[1] = 0
    <3>1. F[1] = ((n \div 256) \div 256) \div 256
      BY DEF U32
    <3>2. n \div 256 \in 0..1
      BY ONLY <1>3
    <3>3. \A d \in 0..1 : (d \div 256) \div 256 = 0
      OBVIOUS
    <3> QED
      BY ONLY <3>1, <3>2, <3>3
  <2> QED
    BY <1>6, <2>1, <2>2
<1>8. ASSUME Len(w) >= 4
      PROVE  U32At(w, 0) = n /\ Carries(U32(n), SubSeq(w, 5, Len(w)), lost, units)
  <2>. PICK k \in Nat : k = Len(w)
    BY <1>2
  <2>1. Has(w, 0, F)
    <3>1. \A i \in 1..4 : 0 + i = i /\ i \in 1..Len(w) /\ i <= 4
      BY ONLY <1>8, k = Len(w), k \in Nat
    <3>2. 0 + Len(F) <= Len(w)
      BY ONLY <1>3, <1>8
    <3> QED
      BY ONLY <1>3, <1>6, <3>1, <3>2 DEF Has
  <2>2. U32At(w, 0) = n
    <3>1. Fits(n)
      BY ONLY <1>3, SmallFits
    <3> QED
      BY ONLY <2>1, <3>1, F = U32(n), U32Inverse, 0 \in Nat
  <2>. PICK after : after = SubSeq(w, 5, Len(w))
    OBVIOUS
  <2>3. Joins(after, <<>>, lost, R)
    <3>1. Len(F) <= Len(w) /\ after = SubSeq(w, Len(F) + 1, Len(w))
      <4>1. Len(F) + 1 = 5
        BY ONLY <1>3
      <4> QED
        BY ONLY <1>3, <1>8, <4>1, after = SubSeq(w, 5, Len(w))
    <3> QED
      BY ONLY <1>5, <3>1, SplitFrame
  <2>4. after \in Seq(Bytes) /\ (after \o <<>>) \o lost = R
    BY ONLY <2>3 DEF Joins
  <2>5. after \o lost = R
    BY ONLY <1>2, <2>4, Fronts
  <2>6. (F \o after) \o lost = F \o R
    <3>1. F \in Seq(Bytes) /\ after \in Seq(Bytes) /\ lost \in Seq(Bytes)
      BY ONLY <1>2, <1>3, <2>4
    <3>2. Associates(F, after, lost)
      BY ONLY <3>1, ConcatAssociates
    <3> QED
      BY ONLY <2>5, <3>2 DEF Associates
  <2>7. Carries(F, after, lost, units)
    BY ONLY <1>2, <1>3, <2>4, <2>6 DEF Carries
  <2> QED
    BY <2>2, <2>7
<1> QED
  BY <1>3, <1>7, <1>8

\* After the length, the payload.
LEMMA AfterLength ==
    ASSUME NEW n \in 4..400, NEW w, NEW lost, NEW units \in Seq(FrameUnits),
           Carries(U32(n), w, lost, units)
    PROVE  /\ units # <<>> /\ w \in Seq(Bytes) /\ lost \in Seq(Bytes)
           /\ \E payload : /\ Opens(units, payload, Tail(units)) /\ Len(payload) = n
                           /\ Makes(w, <<>>, lost, payload, BytesOf(Tail(units)))
<1>. PICK G : G = U32(n)
  OBVIOUS
<1>1. G \in Seq(Bytes) /\ Len(G) = 4 /\ Fits(n)
  BY ONLY n \in 4..400, G = U32(n), SmallFits, U32Inverse
<1>2. /\ w \in Seq(Bytes) /\ lost \in Seq(Bytes)
      /\ (G \o w) \o lost = BytesOf(units)
  BY DEF Carries
<1>3. (G \o w) \o lost = G \o (w \o lost) /\ w \o lost \in Seq(Bytes)
  <2>1. Associates(G, w, lost) /\ w \o lost \in Seq(Bytes)
    BY ONLY <1>1, <1>2, ConcatAssociates
  <2> QED
    BY <2>1 DEF Associates
<1>4. units # <<>>
  <2>1. Len(G \o (w \o lost)) = 4 + Len(w \o lost) /\ Len(w \o lost) \in Nat
    <3>1. Len(G \o (w \o lost)) = Len(G) + Len(w \o lost) /\ Len(w \o lost) \in Nat
      BY ONLY <1>1, <1>3, ConcatLength
    <3> QED
      BY ONLY <1>1, <3>1
  <2>2. BytesOf(units) # <<>>
    <3>1. Len(<<>>) = 0
      OBVIOUS
    <3> QED
      BY ONLY <1>2, <1>3, <2>1, <3>1
  <2> QED
    BY <2>2, UnitsNone
<1>5. PICK payload : Opens(units, payload, Tail(units))
  BY <1>4, FirstFrame
<1>. PICK m : m = Len(payload)
  OBVIOUS
<1>. PICK F : F = U32(m)
  OBVIOUS
<1>. PICK R : R = payload \o BytesOf(Tail(units))
  OBVIOUS
<1>6. /\ m \in 4..400 /\ F \in Seq(Bytes) /\ Len(F) = 4 /\ BytesOf(units) = F \o R
      /\ payload \in Seq(Bytes) /\ BytesOf(Tail(units)) \in Seq(Bytes)
  BY <1>5 DEF Opens
<1>7. R \in Seq(Bytes)
  BY ONLY <1>6, R = payload \o BytesOf(Tail(units)), ConcatProperties
<1>8. Makes(G, w, lost, F, R)
  BY ONLY <1>1, <1>2, <1>6, <1>7 DEF Makes
<1>9. \A i \in 1..4 : G[i] = F[i]
  <2>1. \A i \in 1..Len(G) : i <= Len(F) => G[i] = F[i]
    BY ONLY <1>8, SameFront
  <2> QED
    BY ONLY <1>1, <1>6, <2>1
<1>10. m = n
  <2>1. Has(G, 0, G)
    BY ONLY <1>1, HasSelf
  <2>2. Has(G, 0, F)
    <3>1. \A i \in 1..4 : 0 + i = i
      OBVIOUS
    <3>2. 0 + 4 <= 4
      OBVIOUS
    <3> QED
      BY ONLY <1>1, <1>6, <1>9, <3>1, <3>2 DEF Has
  <2>3. U32At(G, 0) = n
    BY ONLY <1>1, <2>1, G = U32(n), U32Inverse, 0 \in Nat
  <2>4. U32At(G, 0) = m
    <3>1. Fits(m)
      BY ONLY <1>6, SmallFits
    <3> QED
      BY ONLY <2>2, <3>1, F = U32(m), U32Inverse, 0 \in Nat
  <2> QED
    BY ONLY <2>3, <2>4
<1>11. w \o lost = R
  <2>. PICK after : after = SubSeq(G, Len(F) + 1, Len(G))
    OBVIOUS
  <2>1. after = <<>>
    <3>1. Len(F) + 1 > Len(G) /\ Len(F) + 1 \in Int /\ Len(G) \in Int
      BY ONLY <1>1, <1>6
    <3> QED
      BY <1>1, <3>1, SubSeqProperties
  <2>2. Joins(after, w, lost, R)
    <3>1. Len(F) <= Len(G)
      BY ONLY <1>1, <1>6
    <3> QED
      BY ONLY <1>8, <3>1, after = SubSeq(G, Len(F) + 1, Len(G)), SplitFrame
  <2>3. (<<>> \o w) \o lost = R
    BY ONLY <2>1, <2>2 DEF Joins
  <2> QED
    BY ONLY <1>2, <2>3, Fronts
<1>12. Makes(w, <<>>, lost, payload, BytesOf(Tail(units)))
  <2>1. (w \o <<>>) \o lost = w \o lost /\ <<>> \in Seq(Bytes)
    BY ONLY <1>2, Fronts
  <2> QED
    BY ONLY <1>2, <1>6, <1>11, <2>1, R = payload \o BytesOf(Tail(units)) DEF Makes
<1> QED
  BY <1>2, <1>4, <1>5, <1>10, <1>12

\* ReadFrame: the bytes that the length announces are the payload.
LEMMA FrameIsRead ==
    ASSUME NEW n \in 4..400, NEW w, NEW lost, NEW units \in Seq(FrameUnits),
           Carries(U32(n), w, lost, units), Len(w) >= n
    PROVE  \E more \in Seq(FrameUnits) :
             /\ Carries(<<>>, SubSeq(w, n + 1, Len(w)), lost, more)
             /\ DecodeInput(SubSeq(w, 1, n)) # <<>>
             /\ DecodeInput(SubSeq(w, 1, n)) \in Seq(InputMessages)
             /\ Says(more) \in Seq(InputMessages)
             /\ Says(units) = DecodeInput(SubSeq(w, 1, n)) \o Says(more)
<1>. PICK more : more = Tail(units)
  OBVIOUS
<1>1. units # <<>> /\ w \in Seq(Bytes) /\ lost \in Seq(Bytes)
  BY AfterLength
<1>2. more \in Seq(FrameUnits)
  BY <1>1, FirstFrame
<1>3. PICK payload : /\ Opens(units, payload, more) /\ Len(payload) = n
                     /\ Makes(w, <<>>, lost, payload, BytesOf(more))
  BY AfterLength
<1>4. payload \in Seq(Bytes) /\ BytesOf(more) \in Seq(Bytes)
  BY <1>3 DEF Opens
<1>5. SubSeq(w, 1, n) = payload
  <2>. PICK k \in Nat : k = Len(w)
    BY <1>1
  <2>. PICK cut : cut = SubSeq(w, 1, n)
    OBVIOUS
  <2>1. \A i \in 1..k : i <= n => w[i] = payload[i]
    <3>1. \A i \in 1..Len(w) : i <= Len(payload) => w[i] = payload[i]
      BY ONLY <1>3, SameFront
    <3> QED
      BY ONLY <1>3, <3>1, k = Len(w)
  <2>2. \A i \in 1..n : i \in 1..k /\ i <= n
    BY ONLY n \in 4..400, k \in Nat, Len(w) >= n, k = Len(w)
  <2>3. cut \in Seq(Bytes) /\ Len(cut) = n /\ \A i \in 1..n : cut[i] = w[i]
    <3>1. n \in 0..Len(w)
      BY ONLY n \in 4..400, k \in Nat, Len(w) >= n, k = Len(w)
    <3>2. n - 1 + 1 = n /\ \A i \in 1..n : 1 + i - 1 = i
      OBVIOUS
    <3> QED
      BY ONLY <1>1, <3>1, cut = SubSeq(w, 1, n), n \in 4..400
  <2>4. \A i \in 1..n : cut[i] = payload[i]
    BY ONLY <2>1, <2>2, <2>3
  <2> QED
    BY <1>3, <1>4, <2>3, <2>4, SeqEqual
<1>6. Carries(<<>>, SubSeq(w, n + 1, Len(w)), lost, more)
  <2>. PICK after : after = SubSeq(w, n + 1, Len(w))
    OBVIOUS
  <2>1. Joins(after, <<>>, lost, BytesOf(more))
    BY ONLY <1>3, Len(w) >= n, after = SubSeq(w, n + 1, Len(w)), SplitFrame, n \in 4..400
  <2>2. after \in Seq(Bytes) /\ (after \o <<>>) \o lost = BytesOf(more)
    BY ONLY <2>1 DEF Joins
  <2>3. (<<>> \o after) \o lost = BytesOf(more) /\ <<>> \in Seq(Bytes)
    <3>1. /\ (after \o <<>>) \o lost = after \o lost /\ (<<>> \o after) \o lost = after \o lost
          /\ <<>> \in Seq(Bytes)
      BY ONLY <1>1, <2>2, Fronts
    <3> QED
      BY ONLY <2>2, <3>1
  <2> QED
    BY <1>1, <2>2, <2>3 DEF Carries
<1> QED
  BY <1>2, <1>3, <1>5, <1>6 DEF Opens

\* With too little for a length, or for the frame, nothing is on its way, if
\* nothing was lost.
LEMMA NoFrameLeft ==
    ASSUME NEW n, n = 0 \/ n \in 4..400, NEW w, NEW units \in Seq(FrameUnits),
           Carries(IF n = 0 THEN <<>> ELSE U32(n), w, <<>>, units),
           Len(w) < IF n = 0 THEN 4 ELSE n
    PROVE  units = <<>>
<1>1. CASE n = 0
  <2>1. SUFFICES ASSUME units # <<>> PROVE FALSE
    OBVIOUS
  <2>2. PICK payload : Opens(units, payload, Tail(units))
    BY <2>1, FirstFrame
  <2>. PICK F : F = U32(Len(payload))
    OBVIOUS
  <2>. PICK R : R = payload \o BytesOf(Tail(units))
    OBVIOUS
  <2>3. /\ F \in Seq(Bytes) /\ Len(F) = 4 /\ BytesOf(units) = F \o R
        /\ payload \in Seq(Bytes) /\ BytesOf(Tail(units)) \in Seq(Bytes)
    BY <2>2 DEF Opens
  <2>4. R \in Seq(Bytes)
    BY ONLY <2>3, R = payload \o BytesOf(Tail(units)), ConcatProperties
  <2>5. Len(F \o R) = 4 + Len(R) /\ Len(R) \in Nat
    <3>1. Len(F \o R) = Len(F) + Len(R) /\ Len(R) \in Nat
      BY ONLY <2>3, <2>4, ConcatLength
    <3> QED
      BY ONLY <2>3, <3>1
  <2>6. w \in Seq(Bytes) /\ (<<>> \o w) \o <<>> = F \o R
    BY <1>1, <2>3 DEF Carries
  <2>7. (<<>> \o w) \o <<>> = w
    BY ONLY <2>6, ConcatEmptySeq
  <2>8. Len(w) = 4 + Len(R) /\ Len(w) < 4
    <3>1. Len(w) < 4
      BY <1>1
    <3> QED
      BY ONLY <2>5, <2>6, <2>7, <3>1
  <2> QED
    BY ONLY <2>5, <2>8
<1>2. CASE n # 0
  <2>1. n \in 4..400 /\ Carries(U32(n), w, <<>>, units) /\ Len(w) < n
    BY <1>2
  <2>2. PICK payload : /\ Opens(units, payload, Tail(units)) /\ Len(payload) = n
                       /\ Makes(w, <<>>, <<>>, payload, BytesOf(Tail(units)))
    BY ONLY <2>1, AfterLength, units \in Seq(FrameUnits)
  <2>. PICK R : R = BytesOf(Tail(units))
    OBVIOUS
  <2>3. /\ w \in Seq(Bytes) /\ payload \in Seq(Bytes) /\ R \in Seq(Bytes)
        /\ (w \o <<>>) \o <<>> = payload \o R
    BY ONLY <2>2, R = BytesOf(Tail(units)) DEF Makes
  <2>4. (w \o <<>>) \o <<>> = w
    BY ONLY <2>3, ConcatEmptySeq
  <2>5. Len(payload \o R) = n + Len(R) /\ Len(R) \in Nat
    <3>1. Len(payload \o R) = Len(payload) + Len(R) /\ Len(R) \in Nat
      BY ONLY <2>3, ConcatLength
    <3> QED
      BY ONLY <2>2, <3>1
  <2>6. Len(w) = n + Len(R)
    BY ONLY <2>3, <2>4, <2>5
  <2> QED
    BY ONLY <2>1, <2>5, <2>6
<1> QED
  BY <1>1, <1>2

\* ReadCsv while the engine is there: the complete lines are the first units,
\* and there is no newline in what stays in the buffer.
LEMMA LinesAreRead ==
    ASSUME NEW text, NEW rest, NEW lost, NEW units \in Seq(LineUnits),
           Carries(text, rest, lost, units)
    PROVE  /\ LinesOf(text) \in Seq(Parsable)
           /\ SubSeq(LinesOf(text), 1, Len(LinesOf(text))) = LinesOf(text)
           /\ Parsed(LinesOf(text)) \in Seq(InputMessages)
           /\ \E more \in Seq(LineUnits) :
                /\ Says(more) \in Seq(InputMessages)
                /\ Parsed(LinesOf(text)) \o Says(more) = Says(units)
                /\ NewlinesAfter(text, LengthOf(LinesOf(text))) = {}
                /\ LengthOf(LinesOf(text)) \in 0..Len(text)
                /\ Carries(Behind(text, LengthOf(LinesOf(text))), rest, lost, more)
<1>1. text \in Seq(Bytes)
  BY DEF Carries
<1>2. PICK f : LinesFrom(f, text, 0) /\ LinesOf(text) = f[0]
  BY <1>1, LinesRecur
<1>3. Behind(text, 0) = text /\ 0 \in 0..Len(text)
  <2>. PICK k \in Nat : k = Len(text)
    BY <1>1
  <2>. PICK z : z = Behind(text, 0)
    OBVIOUS
  <2>1. 0 \in 0..Len(text)
    BY ONLY k \in Nat, k = Len(text)
  <2>2. /\ z \in Seq(Bytes) /\ Len(z) = Len(text) - 0
        /\ \A i \in 1..(Len(text) - 0) : z[i] = text[0 + i]
    BY ONLY <1>1, <2>1, z = Behind(text, 0), BehindFacts
  <2>3. k - 0 = k /\ \A i \in 1..k : 0 + i = i
    OBVIOUS
  <2>4. Len(z) = Len(text) /\ \A i \in 1..Len(z) : z[i] = text[i]
    BY ONLY <2>2, <2>3, k = Len(text)
  <2>5. z = text
    BY ONLY <1>1, <2>2, <2>4, SeqEqual
  <2> QED
    BY <2>1, <2>5
<1>4. TakesLines(f[0], text, 0, rest, lost, units)
  <2>1. Carries(Behind(text, 0), rest, lost, units)
    BY <1>3
  <2> QED
    BY <1>1, <1>2, <1>3, <2>1, LinesAreUnits
<1>. PICK lines : lines = LinesOf(text)
  OBVIOUS
<1>5. PICK more \in Seq(LineUnits), at \in 0..Len(text) :
        /\ lines \in Seq(Parsable)
        /\ Parsed(lines) \o Says(more) = Says(units)
        /\ at = 0 + LengthOf(lines)
        /\ NewlinesAfter(text, at) = {}
        /\ Carries(Behind(text, at), rest, lost, more)
  BY <1>2, <1>4 DEF TakesLines
<1>6. LengthOf(lines) \in Nat /\ Parsed(lines) \in Seq(InputMessages)
  <2>1. CASE lines = <<>>
    <3>1. <<>> \in Seq(InputMessages) /\ 0 \in Nat
      OBVIOUS
    <3> QED
      BY ONLY <2>1, <3>1, NoLines
  <2>2. CASE lines # <<>>
    <3>1. Head(lines) \in Parsable /\ Tail(lines) \in Seq(Parsable)
          /\ lines = <<Head(lines)>> \o Tail(lines)
      BY <1>5, <2>2, HeadTailProperties
    <3>2. /\ Parsed(Tail(lines)) \in Seq(InputMessages)
          /\ ParseInputLine(Head(lines)) \in Seq(InputMessages)
          /\ Parsed(lines) = ParseInputLine(Head(lines)) \o Parsed(Tail(lines))
          /\ LengthOf(Tail(lines)) \in Nat
          /\ LengthOf(lines) = Len(Head(lines)) + 1 + LengthOf(Tail(lines))
      BY <3>1, LinesCons
    <3>3. Len(Head(lines)) \in Nat
      BY <3>1 DEF Parsable
    <3>4. Parsed(lines) \in Seq(InputMessages)
      BY ONLY <3>2, ConcatProperties
    <3>5. LengthOf(lines) \in Nat
      BY ONLY <3>2, <3>3
    <3> QED
      BY <3>4, <3>5
  <2> QED
    BY <2>1, <2>2
<1>7. at = LengthOf(lines)
  BY ONLY <1>5, <1>6
<1>8. SubSeq(lines, 1, Len(lines)) = lines
  BY ONLY <1>5
<1>9. Says(more) \in Seq(InputMessages)
  <2>1. LineUnits \subseteq Units
    BY DEF LineUnits
  <2>2. more \in Seq(Units)
    BY <2>1, SeqMonotonic
  <2> QED
    BY <2>2, UnitsBytes
<1> QED
  BY <1>5, <1>6, <1>7, <1>8, <1>9

NoNewline(text) == \A i \in DOMAIN text : text[i] # Newline

LEMMA NoNewlineBehind ==
    ASSUME NEW text \in Seq(Bytes), NEW at \in 0..Len(text), NewlinesAfter(text, at) = {}
    PROVE  NoNewline(Behind(text, at))
<1>. PICK k \in Nat : k = Len(text) /\ DOMAIN text = 1..k
  OBVIOUS
<1>. PICK z : z = Behind(text, at)
  OBVIOUS
<1>1. /\ z \in Seq(Bytes) /\ Len(z) = Len(text) - at
      /\ \A i \in 1..(Len(text) - at) : z[i] = text[at + i]
  BY ONLY at \in 0..Len(text), text \in Seq(Bytes), z = Behind(text, at), BehindFacts
<1>2. DOMAIN z = 1..(k - at)
  BY <1>1
<1>3. ASSUME NEW i \in DOMAIN z PROVE z[i] # Newline
  <2>1. i \in 1..(k - at) /\ at + i \in 1..k /\ at + i > at
    BY ONLY <1>2, i \in DOMAIN z, k \in Nat, at \in 0..Len(text), k = Len(text)
  <2>2. text[at + i] # Newline
    BY ONLY <2>1, NewlinesAfter(text, at) = {}, DOMAIN text = 1..k DEF NewlinesAfter
  <2>3. z[i] = text[at + i]
    BY ONLY <1>1, <2>1, k = Len(text)
  <2> QED
    BY ONLY <2>2, <2>3
<1> QED
  BY <1>3 DEF NoNewline

\* Without a newline there is no whole unit, if nothing was lost.
LEMMA NoLineLeft ==
    ASSUME NEW text, NoNewline(text), NEW units \in Seq(LineUnits),
           Carries(text, <<>>, <<>>, units)
    PROVE  units = <<>>
<1>1. SUFFICES ASSUME units # <<>> PROVE FALSE
  OBVIOUS
<1>2. LineUnits \subseteq Units
  BY DEF LineUnits
<1>3. units \in Seq(Units) /\ Head(units) \in LineUnits
  BY <1>1, <1>2, SeqMonotonic
<1>. PICK R : R = BytesOf(Tail(units))
  OBVIOUS
<1>4. R \in Seq(Bytes) /\ BytesOf(units) = Head(units).bytes \o R
  BY <1>1, <1>3, UnitsHead
<1>5. PICK body \in Seq(Bytes \ {Newline}) : Head(units).bytes = Append(body, Newline)
  BY <1>3 DEF LineUnits
<1>. PICK F : F = Append(body, Newline)
  OBVIOUS
<1>6. F \in Seq(Bytes) /\ Len(F) = Len(body) + 1 /\ F[Len(body) + 1] = Newline
      /\ Len(body) \in Nat
  <2>1. Newline \in Bytes /\ Bytes \ {Newline} \subseteq Bytes
    BY DEF Newline, Bytes
  <2>2. body \in Seq(Bytes)
    BY <2>1, SeqMonotonic
  <2> QED
    BY <2>1, <2>2, AppendProperties
<1>7. text = F \o R /\ text \in Seq(Bytes)
  <2>1. text \in Seq(Bytes) /\ (text \o <<>>) \o <<>> = F \o R
    BY <1>4, <1>5 DEF Carries
  <2> QED
    BY ONLY <2>1, ConcatEmptySeq
<1>. PICK n : n = Len(body) + 1
  OBVIOUS
<1>8. n \in 1..Len(F) /\ n \in 1..(Len(F) + Len(R)) /\ n <= Len(F) /\ Len(R) \in Nat
  <2>1. Len(R) \in Nat
    BY <1>4
  <2> QED
    BY ONLY <1>6, <2>1, n = Len(body) + 1
<1>9. text[n] = F[n] /\ Len(text) = Len(F) + Len(R)
  BY ONLY <1>4, <1>6, <1>7, <1>8, ConcatProperties
<1>10. n \in DOMAIN text
  <2>1. DOMAIN text = 1..Len(text)
    BY <1>7
  <2> QED
    BY ONLY <1>8, <1>9, <2>1
<1>11. text[n] = Newline
  BY ONLY <1>6, <1>9, n = Len(body) + 1
<1> QED
  BY <1>10, <1>11 DEF NoNewline

-----------------------------------------------------------------------------
(* The stream's invariant.                                                 *)

\* What the binary reader has taken of a frame is its length.
Held == IF frame_len = 0 THEN buffer ELSE U32(frame_len)

WireTypes ==
    /\ client \in ClientKinds
    /\ typed \in Seq(Lines)
    /\ sending \in {"open", "ended", "cut"}
    /\ reader \in {"detect", "csv", "binary", "done"}
    /\ frame_len = 0 \/ (frame_len \in 4..400 /\ frame_len <= 22 + MaxSymbolLen)
    /\ received \in Seq(InputMessages)

\* What the reader has been chosen for is what the client sends, unless
\* nothing is left to read.
ReaderKnows ==
    /\ reader \in {"detect", "binary"} => buffer = <<>>
    /\ reader \in {"detect", "csv"} => frame_len = 0
    /\ client = "nc" /\ reader = "detect" =>
         /\ wire # <<>> => LooksLikeCsv(wire[1])
         /\ sending = "open" /\ wire = <<>> => typed = <<>>
    /\ client = "nc" /\ reader = "csv" /\ engine_open => NoNewline(buffer)
    /\ client = "nc" /\ reader = "binary" =>
         wire = <<>> /\ sending # "open" /\ frame_len = 0
    /\ client # "nc" /\ reader = "csv" => wire = <<>> /\ sending = "cut"

\* While what is read still counts, the messages that the engine has not been
\* given are on their way.
StreamWhole ==
    engine_open \/ reader \in {"detect", "binary"} =>
      OnTheLine(client, typed, received, Held, wire, sending)

GivenFirst(kind, lines, given) ==
    \E more \in Seq(InputMessages) : given \o more = MeantBy(kind, lines)

\* A reader that has come to the end has given the engine everything.
AllGiven ==
    reader = "done" /\ sending # "cut" /\ engine_open =>
      received = MeantBy(client, typed) /\ sending = "ended"

WireInv ==
    /\ WireTypes
    /\ ReaderKnows
    /\ StreamWhole
    /\ GivenFirst(client, typed, received)
    /\ AllGiven

LEMMA LineParts ==
    ASSUME NEW kind, NEW lines, NEW given, NEW held, NEW rest, NEW end,
           OnTheLine(kind, lines, given, held, rest, end)
    PROVE  /\ held \in Seq(Bytes) /\ rest \in Seq(Bytes)
           /\ given \in Seq(InputMessages) => GivenFirst(kind, lines, given)
           /\ end # "cut" => \A e : OnTheLine(kind, lines, given, held, rest, e)
<1>1. PICK units \in Seq(Carried(kind)), lost \in Seq(Bytes) :
        /\ Carries(held, rest, lost, units)
        /\ given \o Says(units) = MeantBy(kind, lines)
        /\ end # "cut" => lost = <<>>
  BY DEF OnTheLine
<1>2. held \in Seq(Bytes) /\ rest \in Seq(Bytes)
  BY <1>1 DEF Carries
<1>3. Says(units) \in Seq(InputMessages)
  BY CarriedUnits, UnitsBytes
<1>4. GivenFirst(kind, lines, given)
  BY <1>1, <1>3 DEF GivenFirst
<1>5. ASSUME end # "cut" PROVE \A e : OnTheLine(kind, lines, given, held, rest, e)
  BY <1>1, <1>5 DEF OnTheLine
<1> QED
  BY <1>2, <1>4, <1>5

\* What comes first stays first when more is typed.
LEMMA MoreTyped ==
    ASSUME NEW kind, NEW lines \in Seq(Lines), NEW line \in Lines,
           NEW given \in Seq(InputMessages), GivenFirst(kind, lines, given)
    PROVE  GivenFirst(kind, Append(lines, line), given)
<1>1. PICK more \in Seq(InputMessages) : given \o more = MeantBy(kind, lines)
  BY DEF GivenFirst
<1>. PICK share : share = ShareOf(kind, line)
  OBVIOUS
<1>2. share \in Seq(InputMessages)
      /\ MeantBy(kind, Append(lines, line)) = MeantBy(kind, lines) \o share
  BY MeantAppend
<1>3. Associates(given, more, share) /\ more \o share \in Seq(InputMessages)
  BY <1>2, ConcatAssociates
<1>4. given \o (more \o share) = MeantBy(kind, Append(lines, line))
  BY <1>1, <1>2, <1>3 DEF Associates
<1> QED
  BY <1>3, <1>4 DEF GivenFirst

\* With nothing left to read and nothing lost, the engine has been given all.
LEMMA NothingLeft ==
    ASSUME NEW kind, NEW lines, NEW given \in Seq(InputMessages), NEW held, NEW rest,
           NEW end, OnTheLine(kind, lines, given, held, rest, end), end # "cut",
           \A units \in Seq(Carried(kind)) :
             Carries(held, rest, <<>>, units) => units = <<>>
    PROVE  given = MeantBy(kind, lines)
<1>1. PICK units \in Seq(Carried(kind)), lost \in Seq(Bytes) :
        /\ Carries(held, rest, lost, units)
        /\ given \o Says(units) = MeantBy(kind, lines)
        /\ lost = <<>>
  BY DEF OnTheLine
<1>2. Carries(held, rest, <<>>, units)
  BY <1>1
<1>3. units = <<>>
  BY <1>2
<1>4. given \o <<>> = MeantBy(kind, lines)
  BY <1>1, <1>3, UnitsNone
<1> QED
  BY <1>4, ConcatEmptySeq

\* The same for a reader of frames that waits for more, and for one of lines.
LEMMA BinaryGivesAll ==
    ASSUME WireInv, reader = "binary", sending # "cut", Len(wire) < Wanted
    PROVE  received = MeantBy(client, typed)
<1>1. /\ OnTheLine(client, typed, received, Held, wire, sending)
      /\ received \in Seq(InputMessages) /\ buffer = <<>>
      /\ frame_len = 0 \/ frame_len \in 4..400
  BY DEF WireInv, WireTypes, StreamWhole, ReaderKnows
<1>2. ASSUME NEW units \in Seq(Carried(client)), Carries(Held, wire, <<>>, units)
      PROVE  units = <<>>
  <2>1. CASE client = "nc"
    <3>1. wire = <<>> /\ Held = <<>>
      BY <1>1, <2>1 DEF WireInv, ReaderKnows, Held
    <3>2. NoNewline(<<>>)
      BY DEF NoNewline
    <3>3. units \in Seq(LineUnits) /\ Carries(<<>>, <<>>, <<>>, units)
      BY <1>2, <2>1, <3>1 DEF Carried
    <3> QED
      BY ONLY <3>2, <3>3, NoLineLeft
  <2>2. CASE client # "nc"
    <3>1. units \in Seq(FrameUnits)
      BY <2>2 DEF Carried
    <3>2. Held = IF frame_len = 0 THEN <<>> ELSE U32(frame_len)
      BY <1>1 DEF Held
    <3>3. Carries(IF frame_len = 0 THEN <<>> ELSE U32(frame_len), wire, <<>>, units)
      BY <1>2, <3>2
    <3>4. Len(wire) < IF frame_len = 0 THEN 4 ELSE frame_len
      BY DEF Wanted
    <3> QED
      BY ONLY <1>1, <3>1, <3>3, <3>4, NoFrameLeft
  <2> QED
    BY <2>1, <2>2
<1> QED
  BY <1>1, <1>2, NothingLeft

LEMMA CsvGivesAll ==
    ASSUME WireInv, reader \in {"detect", "csv"}, sending # "cut", wire = <<>>, engine_open
    PROVE  received = MeantBy(client, typed)
<1>1. /\ OnTheLine(client, typed, received, Held, wire, sending)
      /\ received \in Seq(InputMessages) /\ Held = buffer /\ frame_len = 0
  BY DEF WireInv, WireTypes, StreamWhole, ReaderKnows, Held
<1>2. ASSUME NEW units \in Seq(Carried(client)), Carries(Held, wire, <<>>, units)
      PROVE  units = <<>>
  <2>1. CASE client = "nc"
    <3>1. NoNewline(<<>>)
      BY DEF NoNewline
    <3>2. NoNewline(buffer)
      BY <2>1, <3>1 DEF WireInv, ReaderKnows
    <3>3. units \in Seq(LineUnits) /\ Carries(buffer, <<>>, <<>>, units)
      BY <1>1, <1>2, <2>1 DEF Carried
    <3> QED
      BY ONLY <3>2, <3>3, NoLineLeft
  <2>2. CASE client # "nc"
    <3>1. buffer = <<>> /\ units \in Seq(FrameUnits)
      BY <2>2 DEF WireInv, ReaderKnows, Carried
    <3>2. Carries(<<>>, <<>>, <<>>, units)
      BY <1>1, <1>2, <3>1
    <3>. PICK n : n = 0
      OBVIOUS
    <3>3. Len(<<>>) < 4
      OBVIOUS
    <3>4. /\ Carries(IF n = 0 THEN <<>> ELSE U32(n), <<>>, <<>>, units)
          /\ Len(<<>>) < IF n = 0 THEN 4 ELSE n
      BY ONLY <3>2, <3>3, n = 0
    <3> QED
      BY ONLY <3>1, <3>4, n = 0, NoFrameLeft
  <2> QED
    BY <2>1, <2>2
<1> QED
  BY <1>1, <1>2, NothingLeft

LEMMA InitWireInv == WireInit => WireInv
<1>1. SUFFICES ASSUME WireInit PROVE WireInv
  OBVIOUS
<1>2. /\ client \in ClientKinds
      /\ typed = <<>> /\ sending = "open" /\ wire = <<>> /\ reader = "detect"
      /\ buffer = <<>> /\ frame_len = 0 /\ received = <<>> /\ engine_open = TRUE
  BY <1>1 DEF WireInit
<1>3. \A S : <<>> \in Seq(S)
  BY UnitsNone
<1>4. Held = <<>>
  BY <1>2 DEF Held
<1>5. MeantBy(client, <<>>) = <<>>
  <2>1. DOMAIN <<>> = {}
    OBVIOUS
  <2>2. [n \in DOMAIN <<>> |-> ShareOf(client, <<>>[n])] = <<>>
    BY <2>1
  <2>3. <<>> \in Seq({})
    OBVIOUS
  <2> QED
    BY <2>2, <2>3, FlattenOne DEF MeantBy
<1>6. <<>> \o <<>> = <<>>
  BY <1>3, ConcatEmptySeq
<1>7. Carries(<<>>, <<>>, <<>>, <<>>)
  BY <1>3, <1>6, UnitsNone DEF Carries
<1>8. OnTheLine(client, <<>>, <<>>, <<>>, <<>>, "open")
  <2>1. <<>> \in Seq(Carried(client)) /\ <<>> \in Seq(Bytes)
    BY <1>3
  <2>2. <<>> \o Says(<<>>) = MeantBy(client, <<>>)
    BY <1>5, <1>6, UnitsNone
  <2> QED
    BY <1>7, <2>1, <2>2 DEF OnTheLine
<1>9. GivenFirst(client, <<>>, <<>>)
  BY <1>3, <1>5, <1>6 DEF GivenFirst
<1>10. WireTypes
  BY <1>2, <1>3 DEF WireTypes
<1>11. ReaderKnows /\ AllGiven
  BY <1>2 DEF ReaderKnows, AllGiven
<1>12. StreamWhole
  BY <1>2, <1>4, <1>8 DEF StreamWhole
<1> QED
  BY <1>2, <1>9, <1>10, <1>11, <1>12 DEF WireInv

\* What the theorems below take for granted of nc: a connection begins with a
\* line whose first byte tells run_client that it is CSV.
FirstLooksLikeCsv ==
    "nc" \in ClientKinds => \A line \in FirstLines : LooksLikeCsv(line.text[1])

\* What is sent first.
LEMMA FirstOfMore ==
    ASSUME NEW w \in Seq(Bytes), NEW x \in Seq(Bytes), x # <<>>
    PROVE  /\ w \o x # <<>>
           /\ (w \o x)[1] = IF w = <<>> THEN x[1] ELSE w[1]
<1>1. Len(x) \in Nat /\ Len(x) > 0 /\ Len(w) \in Nat /\ (w # <<>> => Len(w) > 0)
  OBVIOUS
<1>2. /\ Len(w \o x) = Len(w) + Len(x)
      /\ \A i \in 1..(Len(w) + Len(x)) :
           (w \o x)[i] = IF i <= Len(w) THEN w[i] ELSE x[i - Len(w)]
  BY ConcatProperties
<1>3. 1 \in 1..(Len(w) + Len(x))
  BY <1>1
<1>4. Len(w \o x) # 0 /\ Len(<<>>) = 0
  BY <1>1, <1>2
<1>5. CASE w = <<>>
  BY <1>5, ConcatEmptySeq, x # <<>>
<1>6. CASE w # <<>>
  <2>1. 1 <= Len(w)
    BY <1>1, <1>6
  <2>2. (w \o x)[1] = w[1]
    BY <1>2, <1>3, <2>1
  <2> QED
    BY <1>4, <1>6, <2>2
<1> QED
  BY <1>5, <1>6

LEMMA SendLineKeepsInv ==
    ASSUME WireInv, FirstLooksLikeCsv, NEW line \in Lines,
           SendLine(line)
    PROVE  WireInv'
<1>1. /\ client = "nc" /\ sending = "open" /\ line \in Lines
      /\ line \in (IF typed = <<>> THEN FirstLines ELSE Lines)
      /\ typed' = Append(typed, line) /\ wire' = wire \o line.text
      /\ client' = client /\ sending' = sending /\ reader' = reader
      /\ buffer' = buffer /\ frame_len' = frame_len /\ received' = received
      /\ engine_open' = engine_open
  BY DEF SendLine, MayType, readerVars
<1>2. /\ typed \in Seq(Lines) /\ received \in Seq(InputMessages)
      /\ "nc" \in ClientKinds
  BY <1>1 DEF WireInv, WireTypes
<1>. PICK unit : unit = [bytes |-> line.text, means |-> line.means]
  OBVIOUS
<1>3. /\ unit \in LineUnits /\ unit.bytes = line.text /\ unit.means = line.means
      /\ line.text \in Seq(Bytes) /\ line.text # <<>>
  BY TypedLine
<1>4. unit \in Carried(client) /\ unit.means = ShareOf(client, line)
  BY <1>1, <1>3 DEF Carried, ShareOf
<1>5. Held' = Held
  BY <1>1 DEF Held
<1>6. WireTypes'
  BY <1>1, <1>2 DEF WireInv, WireTypes
<1>7. StreamWhole'
  <2>1. SUFFICES ASSUME engine_open \/ reader \in {"detect", "binary"}
                 PROVE  OnTheLine(client, Append(typed, line), received, Held,
                                  wire \o line.text, sending)
    BY <1>1, <1>5 DEF StreamWhole
  <2>2. OnTheLine(client, typed, received, Held, wire, "open")
    BY <1>1, <2>1 DEF WireInv, StreamWhole
  <2> QED
    BY ONLY <1>2, <1>3, <1>4, <2>2, line \in Lines, SendUnit
<1>8. GivenFirst(client, typed, received)'
  <2>1. GivenFirst(client, Append(typed, line), received)
    BY <1>2, MoreTyped DEF WireInv
  <2> QED
    BY <1>1, <2>1
<1>9. ReaderKnows'
  <2>1. ASSUME reader = "detect"
        PROVE  wire \o line.text # <<>> /\ LooksLikeCsv((wire \o line.text)[1])
    <3>1. wire \in Seq(Bytes)
      BY <2>1, LineParts DEF WireInv, StreamWhole
    <3>2. wire = <<>> => LooksLikeCsv(line.text[1])
      BY <1>1, <1>2, <2>1 DEF WireInv, ReaderKnows, FirstLooksLikeCsv
    <3>3. wire # <<>> => LooksLikeCsv(wire[1])
      BY <1>1, <2>1 DEF WireInv, ReaderKnows
    <3>4. /\ wire \o line.text # <<>>
          /\ (wire \o line.text)[1] = IF wire = <<>> THEN line.text[1] ELSE wire[1]
      BY <1>3, <3>1, FirstOfMore
    <3> QED
      BY <3>2, <3>3, <3>4
  <2>2. reader # "binary"
    BY <1>1 DEF WireInv, ReaderKnows
  <2> HIDE DEF FirstLooksLikeCsv
  <2> QED
    BY <1>1, <2>1, <2>2 DEF WireInv, ReaderKnows
<1>10. AllGiven'
  BY <1>1 DEF WireInv, AllGiven
<1> QED
  BY <1>6, <1>7, <1>8, <1>9, <1>10 DEF WireInv

LEMMA SendParsedKeepsInv ==
    ASSUME WireInv, NEW line \in Lines, SendParsed(line)
    PROVE  WireInv'
<1>1. /\ client = "tcp_client" /\ sending = "open"
      /\ typed' = Append(typed, line) /\ wire' = wire \o FramesOf(line)
      /\ sending' \in {"ended", "open"}
      /\ client' = client /\ reader' = reader
      /\ buffer' = buffer /\ frame_len' = frame_len /\ received' = received
      /\ engine_open' = engine_open
  BY DEF SendParsed, MayType, readerVars, FramesOf
<1>2. /\ typed \in Seq(Lines) /\ received \in Seq(InputMessages)
  BY DEF WireInv, WireTypes
<1>3. Held' = Held
  BY <1>1 DEF Held
<1>4. WireTypes'
  BY <1>1, <1>2 DEF WireInv, WireTypes
<1>5. StreamWhole'
  <2>1. SUFFICES ASSUME engine_open \/ reader \in {"detect", "binary"}
                 PROVE  OnTheLine(client, Append(typed, line), received, Held,
                                  wire \o FramesOf(line), sending')
    BY <1>1, <1>3 DEF StreamWhole
  <2>2. OnTheLine(client, typed, received, Held, wire, "open")
    BY <1>1, <2>1 DEF WireInv, StreamWhole
  <2>3. client # "nc"
    BY <1>1
  <2>4. CASE FramesOf(line) = <<>> /\ ShareOf(client, line) = <<>>
    <3>1. wire \o FramesOf(line) = wire
      BY <2>2, <2>4, LineParts, ConcatEmptySeq
    <3>2. OnTheLine(client, Append(typed, line), received, Held, wire, sending')
      BY ONLY <1>2, <2>2, <2>4, line \in Lines, SendNothing
    <3> QED
      BY <3>1, <3>2
  <2>5. CASE [bytes |-> FramesOf(line), means |-> ShareOf(client, line)] \in FrameUnits
    <3>. PICK unit : unit = [bytes |-> FramesOf(line), means |-> ShareOf(client, line)]
      OBVIOUS
    <3>1. unit \in Carried(client) /\ unit.means = ShareOf(client, line)
          /\ unit.bytes = FramesOf(line)
      BY <2>3, <2>5 DEF Carried
    <3>2. OnTheLine(client, Append(typed, line), received, Held, wire \o unit.bytes,
                    sending')
      BY ONLY <1>2, <2>2, <3>1, line \in Lines, SendUnit
    <3> QED
      BY <3>1, <3>2
  <2> QED
    BY ONLY <2>3, <2>4, <2>5, line \in Lines, ParsedFrames
<1>6. GivenFirst(client, typed, received)'
  <2>1. GivenFirst(client, Append(typed, line), received)
    BY <1>2, MoreTyped DEF WireInv
  <2> QED
    BY <1>1, <2>1
<1>7. ReaderKnows'
  BY <1>1 DEF WireInv, ReaderKnows
<1>8. AllGiven'
  BY <1>1 DEF WireInv, AllGiven
<1> QED
  BY <1>4, <1>5, <1>6, <1>7, <1>8 DEF WireInv

LEMMA EndSendingKeepsInv ==
    ASSUME WireInv, EndSending
    PROVE  WireInv'
<1>1. /\ sending = "open" /\ sending' = "ended"
      /\ client' = client /\ typed' = typed /\ wire' = wire /\ reader' = reader
      /\ buffer' = buffer /\ frame_len' = frame_len /\ received' = received
      /\ engine_open' = engine_open /\ Held' = Held
  BY DEF EndSending, readerVars, Held
<1>2. WireTypes' /\ ReaderKnows' /\ AllGiven'
  BY <1>1 DEF WireInv, WireTypes, ReaderKnows, AllGiven
<1>3. StreamWhole'
  <2>1. SUFFICES ASSUME engine_open \/ reader \in {"detect", "binary"}
                 PROVE  OnTheLine(client, typed, received, Held, wire, "ended")
    BY <1>1 DEF StreamWhole
  <2>2. OnTheLine(client, typed, received, Held, wire, "open")
    BY <1>1, <2>1 DEF WireInv, StreamWhole
  <2>3. "open" # "cut"
    OBVIOUS
  <2> QED
    BY ONLY <2>2, <2>3, LineParts
<1> QED
  BY <1>1, <1>2, <1>3 DEF WireInv

LEMMA CutKeepsInv ==
    ASSUME WireInv, Cut
    PROVE  WireInv'
<1>1. PICK k \in 0..Len(wire) : wire' = SubSeq(wire, 1, k)
  BY DEF Cut
<1>2. /\ sending' = "cut"
      /\ client' = client /\ typed' = typed /\ reader' = reader
      /\ buffer' = buffer /\ frame_len' = frame_len /\ received' = received
      /\ engine_open' = engine_open /\ Held' = Held
  BY DEF Cut, readerVars, Held
<1>3. WireTypes' /\ AllGiven'
  BY <1>2 DEF WireInv, WireTypes, AllGiven
<1>4. StreamWhole'
  <2>1. SUFFICES ASSUME engine_open \/ reader \in {"detect", "binary"}
                 PROVE  OnTheLine(client, typed, received, Held, SubSeq(wire, 1, k), "cut")
    BY <1>1, <1>2 DEF StreamWhole
  <2>2. OnTheLine(client, typed, received, Held, wire, sending)
    BY <2>1 DEF WireInv, StreamWhole
  <2> QED
    BY ONLY <2>2, k \in 0..Len(wire), CutOff
<1>5. ASSUME wire = <<>> PROVE wire' = <<>>
  <2>1. k = 0
    BY <1>5
  <2>2. SubSeq(<<>>, 1, 0) = <<>>
    OBVIOUS
  <2> QED
    BY <1>1, <1>5, <2>1, <2>2
<1>6. ASSUME reader = "detect", wire' # <<>>
      PROVE  wire # <<>> /\ wire'[1] = wire[1]
  <2>1. wire \in Seq(Bytes)
    BY <1>6, LineParts DEF WireInv, StreamWhole
  <2>2. k # 0
    <3>1. SubSeq(wire, 1, 0) = <<>>
      BY <2>1, SubSeqProperties
    <3> QED
      BY <1>1, <1>6, <3>1
  <2>. PICK w, z : w = wire /\ z = SubSeq(w, 1, k)
    OBVIOUS
  <2>3. z[1] = w[1]
    <3>1. /\ 1 \in 1..(Len(w) + 1) /\ k \in 0..Len(w) /\ 1 \in 1..k
          /\ w \in Seq(Bytes)
      BY <2>1, <2>2
    <3> QED
      BY ONLY <3>1, z = SubSeq(w, 1, k)
  <2> QED
    BY <1>1, <1>5, <1>6, <2>3
<1>7. ReaderKnows'
  BY <1>2, <1>5, <1>6 DEF WireInv, ReaderKnows
<1> QED
  BY <1>2, <1>3, <1>4, <1>7 DEF WireInv

LEMMA EngineStopsKeepsInv ==
    ASSUME WireInv, EngineStops
    PROVE  WireInv'
<1>1. /\ sending' = sending /\ engine_open' = FALSE
      /\ client' = client /\ typed' = typed /\ wire' = wire /\ reader' = reader
      /\ buffer' = buffer /\ frame_len' = frame_len /\ received' = received
      /\ Held' = Held
  BY DEF EngineStops, clientVars, readerVars, Held
<1>2. WireTypes'
  BY <1>1 DEF WireInv, WireTypes
<1>3. ReaderKnows'
  BY <1>1 DEF WireInv, ReaderKnows
<1>4. AllGiven'
  BY <1>1 DEF AllGiven
<1>5. StreamWhole'
  BY <1>1 DEF WireInv, StreamWhole
<1> QED
  BY <1>1, <1>2, <1>3, <1>4, <1>5 DEF WireInv

LEMMA DetectKeepsInv ==
    ASSUME WireInv, Detect
    PROVE  WireInv'
<1>1. /\ sending' = sending /\ engine_open' = engine_open
      /\ client' = client /\ typed' = typed /\ wire' = wire
      /\ buffer' = buffer /\ frame_len' = frame_len /\ received' = received
      /\ Held' = Held /\ reader = "detect" /\ reader' \in {"csv", "binary"}
  BY DEF Detect, clientVars, Held
<1>2. \/ wire # <<>> /\ reader' = IF LooksLikeCsv(wire[1]) THEN "csv" ELSE "binary"
      \/ wire = <<>> /\ (\/ sending # "open" /\ reader' = "binary"
                         \/ sending = "cut" /\ reader' = "csv")
  BY DEF Detect
<1>3. WireTypes'
  BY <1>1 DEF WireInv, WireTypes
<1>4. OnTheLine(client, typed, received, Held, wire, sending)
  BY <1>1 DEF WireInv, StreamWhole
<1>5. StreamWhole' /\ AllGiven'
  BY <1>1, <1>4 DEF StreamWhole, AllGiven
<1>6. buffer = <<>> /\ frame_len = 0 /\ Held = <<>>
  BY <1>1 DEF WireInv, ReaderKnows, Held
<1>7. NoNewline(<<>>)
  BY DEF NoNewline
<1>8. ASSUME client # "nc", wire # <<>> PROVE ~LooksLikeCsv(wire[1])
  <2>1. PICK units \in Seq(Carried(client)), lost \in Seq(Bytes) :
          Carries(Held, wire, lost, units)
    BY <1>4 DEF OnTheLine
  <2>2. units \in Seq(FrameUnits) /\ Carries(<<>>, wire, lost, units)
    BY <1>6, <1>8, <2>1 DEF Carried
  <2>3. units # <<>>
    <3>1. wire \in Seq(Bytes) /\ (<<>> \o wire) \o lost = BytesOf(units)
      BY <2>2 DEF Carries
    <3>. PICK w : w = wire
      OBVIOUS
    <3>2. Len(w \o lost) = Len(w) + Len(lost) /\ Len(w) \in Nat /\ Len(lost) \in Nat
          /\ w \o lost = BytesOf(units)
      BY <2>1, <3>1, ConcatLength, Fronts
    <3>3. Len(w) # 0
      BY <1>8, <3>1
    <3>4. BytesOf(units) # <<>>
      <4>1. Len(<<>>) = 0
        OBVIOUS
      <4> QED
        BY ONLY <3>2, <3>3, <4>1
    <3> QED
      BY <3>4, UnitsNone
  <2>4. wire[1] = 0
    BY ONLY <1>8, <2>2, <2>3, LengthIsRead
  <2> QED
    BY <2>4 DEF LooksLikeCsv, Letter
<1>9. ReaderKnows'
  <2>1. CASE client = "nc"
    <3>1. wire # <<>> => LooksLikeCsv(wire[1])
      BY <1>1, <2>1 DEF WireInv, ReaderKnows
    <3>2. reader' = "binary" => wire = <<>> /\ sending # "open"
      BY <1>2, <3>1
    <3> QED
      BY <1>1, <1>6, <1>7, <2>1, <3>2 DEF ReaderKnows
  <2>2. CASE client # "nc"
    <3>1. reader' = "csv" => wire = <<>> /\ sending = "cut"
      BY <1>2, <1>8, <2>2
    <3> QED
      BY <1>1, <1>6, <2>2, <3>1 DEF ReaderKnows
  <2> QED
    BY <2>1, <2>2
<1> QED
  BY <1>1, <1>3, <1>5, <1>9 DEF WireInv

LEMMA ReadCsvKeepsInv ==
    ASSUME WireInv, NEW k \in BytesRead, ReadCsv(k)
    PROVE  WireInv'
<1>1. /\ sending' = sending /\ engine_open' = engine_open
      /\ client' = client /\ typed' = typed /\ reader = "csv" /\ reader' = reader
      /\ frame_len' = frame_len /\ frame_len = 0 /\ Held = buffer
      /\ received \in Seq(InputMessages)
  BY DEF ReadCsv, clientVars, WireInv, WireTypes, ReaderKnows, Held
<1>2. Held' = buffer'
  BY <1>1 DEF Held
<1>3. client = "nc"
  <2>1. SUFFICES ASSUME client # "nc" PROVE FALSE
    OBVIOUS
  <2>2. wire = <<>>
    BY <1>1, <2>1 DEF WireInv, ReaderKnows
  <2>3. Len(wire) = 0
    BY <2>2
  <2>4. \A i \in PartialReads : ~(i < 0)
    BY WireAssumption
  <2> QED
    BY <2>3, <2>4 DEF BytesRead
<1>4. AllGiven'
  BY <1>1 DEF AllGiven
<1>5. CASE ~engine_open
  <2>1. received' = received
    BY <1>5 DEF ReadCsv
  <2>2. WireTypes'
    BY <1>1, <2>1 DEF WireInv, WireTypes
  <2>3. ReaderKnows'
    BY <1>1, <1>3, <1>5 DEF ReaderKnows
  <2>4. StreamWhole'
    BY <1>1, <1>5 DEF StreamWhole
  <2> QED
    BY <1>1, <1>4, <2>1, <2>2, <2>3, <2>4 DEF WireInv
<1>6. CASE engine_open
  <2>1. OnTheLine(client, typed, received, buffer, wire, sending)
    BY <1>1, <1>6 DEF WireInv, StreamWhole
  <2>2. PICK units \in Seq(Carried(client)), lost \in Seq(Bytes) :
          /\ Carries(buffer, wire, lost, units)
          /\ received \o Says(units) = MeantBy(client, typed)
          /\ sending # "cut" => lost = <<>>
    BY <2>1 DEF OnTheLine
  <2>3. units \in Seq(LineUnits)
    BY <1>3 DEF Carried
  <2>4. buffer \in Seq(Bytes) /\ wire \in Seq(Bytes)
        /\ (buffer \o wire) \o lost = BytesOf(units)
    BY <2>2 DEF Carries
  <2>5. k \in 0..Len(wire)
    <3>1. Len(wire) \in Nat
      BY <2>4
    <3>2. (k \in PartialReads /\ k < Len(wire)) \/ k = Len(wire)
      BY DEF BytesRead
    <3>3. PartialReads \subseteq Nat
      BY WireAssumption
    <3> QED
      BY ONLY <3>1, <3>2, <3>3, SomeOrAll
  <2>. PICK text : text = buffer \o SubSeq(wire, 1, k)
    OBVIOUS
  <2>. PICK rest : rest = SubSeq(wire, k + 1, Len(wire))
    OBVIOUS
  <2>. PICK lines : lines = LinesOf(text)
    OBVIOUS
  <2>6. Carries(text, rest, lost, units)
    <3>1. text \in Seq(Bytes) /\ rest \in Seq(Bytes) /\ text \o rest = buffer \o wire
      <4>1. buffer \in Seq(Bytes) /\ wire \in Seq(Bytes) /\ k \in 0..Len(wire)
        BY ONLY <2>4, <2>5
      <4>2. /\ buffer \o SubSeq(wire, 1, k) \in Seq(Bytes)
            /\ SubSeq(wire, k + 1, Len(wire)) \in Seq(Bytes)
            /\ (buffer \o SubSeq(wire, 1, k)) \o SubSeq(wire, k + 1, Len(wire))
                 = buffer \o wire
        BY ONLY <4>1, CutInbound
      <4> QED
        BY ONLY <4>2, text = buffer \o SubSeq(wire, 1, k),
                rest = SubSeq(wire, k + 1, Len(wire))
    <3> QED
      BY ONLY <2>4, <3>1, lost \in Seq(Bytes) DEF Carries
  <2>7. /\ lines \in Seq(Parsable)
        /\ SubSeq(lines, 1, Len(lines)) = lines
        /\ Parsed(lines) \in Seq(InputMessages)
    BY ONLY <2>3, <2>6, lines = LinesOf(text), LinesAreRead
  <2>8. PICK more \in Seq(LineUnits) :
          /\ Says(more) \in Seq(InputMessages)
          /\ Parsed(lines) \o Says(more) = Says(units)
          /\ NewlinesAfter(text, LengthOf(lines)) = {}
          /\ LengthOf(lines) \in 0..Len(text)
          /\ Carries(Behind(text, LengthOf(lines)), rest, lost, more)
    BY ONLY <2>3, <2>6, lines = LinesOf(text), LinesAreRead
  <2>9. /\ buffer' = Behind(text, LengthOf(lines))
        /\ received' = received \o Parsed(lines)
        /\ wire' = rest
    <3>1. LinesTaken(LinesOf(text)) = Len(lines)
      BY <1>6 DEF LinesTaken
    <3>2. /\ buffer' = SubSeq(text, LengthOf(SubSeq(LinesOf(text), 1, LinesTaken(LinesOf(text)))) + 1,
                             Len(text))
          /\ received' = received \o Parsed(SubSeq(LinesOf(text), 1, LinesTaken(LinesOf(text))))
          /\ wire' = rest
      BY <1>6 DEF ReadCsv, LengthOf
    <3>3. SubSeq(LinesOf(text), 1, LinesTaken(LinesOf(text))) = lines
      BY <2>7, <3>1
    <3> QED
      BY ONLY <3>2, <3>3 DEF Behind
  <2>10. received' \in Seq(InputMessages)
         /\ received' \o Says(more) = MeantBy(client, typed)
    <3>1. received \o Parsed(lines) \in Seq(InputMessages)
          /\ Associates(received, Parsed(lines), Says(more))
      BY ONLY <1>1, <2>7, <2>8, ConcatAssociates
    <3> QED
      BY ONLY <2>2, <2>8, <2>9, <3>1 DEF Associates
  <2>11. OnTheLine(client, typed, received', buffer', rest, sending)
    <3>1. Carries(buffer', rest, lost, more)
      BY <2>8, <2>9
    <3>2. more \in Seq(Carried(client))
      BY <1>3 DEF Carried
    <3> QED
      BY ONLY <2>2, <2>10, <3>1, <3>2, lost \in Seq(Bytes) DEF OnTheLine
  <2>12. StreamWhole'
    BY <1>1, <1>2, <2>9, <2>11 DEF StreamWhole
  <2>13. WireTypes'
    BY <1>1, <2>10 DEF WireInv, WireTypes
  <2>14. ReaderKnows'
    <3>1. NoNewline(buffer')
      <4>1. text \in Seq(Bytes)
        BY <2>6 DEF Carries
      <4> QED
        BY ONLY <2>8, <2>9, <4>1, NoNewlineBehind
    <3> QED
      BY <1>1, <1>3, <3>1 DEF ReaderKnows
  <2>15. GivenFirst(client, typed, received)'
    <3>1. GivenFirst(client, typed, received')
      BY ONLY <2>10, <2>11, LineParts
    <3> QED
      BY <1>1, <3>1
  <2> QED
    BY <1>4, <2>12, <2>13, <2>14, <2>15 DEF WireInv
<1> QED
  BY <1>5, <1>6, <1>1 DEF WireInv, WireTypes

LEMMA CsvEofKeepsInv ==
    ASSUME WireInv, CsvEof
    PROVE  WireInv'
<1>1. /\ sending' = sending /\ engine_open' = engine_open
      /\ client' = client /\ typed' = typed /\ wire' = wire
      /\ buffer' = buffer /\ frame_len' = frame_len /\ received' = received
      /\ Held' = Held /\ reader = "csv" /\ reader' = "done" /\ wire = <<>>
      /\ sending # "open"
  BY DEF CsvEof, clientVars, Held
<1>2. WireTypes' /\ ReaderKnows'
  BY <1>1 DEF WireInv, WireTypes, ReaderKnows
<1>3. StreamWhole'
  BY <1>1 DEF WireInv, StreamWhole
<1>4. AllGiven'
  <2>1. SUFFICES ASSUME sending # "cut", engine_open
                 PROVE  received = MeantBy(client, typed) /\ sending = "ended"
    BY <1>1 DEF AllGiven
  <2>2. sending = "ended"
    BY <1>1, <2>1 DEF WireInv, WireTypes
  <2> QED
    BY <1>1, <2>1, <2>2, CsvGivesAll
<1> QED
  BY <1>1, <1>2, <1>3, <1>4 DEF WireInv

LEMMA ReadLengthKeepsInv ==
    ASSUME WireInv, ReadLength
    PROVE  WireInv'
<1>1. /\ sending' = sending /\ engine_open' = engine_open
      /\ client' = client /\ typed' = typed /\ reader' = reader
      /\ buffer' = buffer /\ received' = received
      /\ reader = "binary" /\ frame_len = 0 /\ Len(wire) >= 4
      /\ frame_len' = U32At(wire, 0) /\ wire' = SubSeq(wire, 5, Len(wire))
  BY DEF ReadLength, clientVars
<1>2. client # "nc"
  <2>1. SUFFICES ASSUME client = "nc" PROVE FALSE
    OBVIOUS
  <2>2. wire = <<>>
    BY <1>1, <2>1 DEF WireInv, ReaderKnows
  <2>3. Len(wire) = 0
    BY <2>2
  <2> QED
    BY <1>1, <2>3
<1>3. buffer = <<>> /\ Held = <<>>
  BY <1>1 DEF WireInv, ReaderKnows, Held
<1>4. PICK units \in Seq(Carried(client)), lost \in Seq(Bytes) :
        /\ Carries(<<>>, wire, lost, units)
        /\ received \o Says(units) = MeantBy(client, typed)
        /\ sending # "cut" => lost = <<>>
  BY <1>1, <1>3 DEF WireInv, StreamWhole, OnTheLine
<1>5. units \in Seq(FrameUnits)
  BY <1>2 DEF Carried
<1>6. CASE units # <<>>
  <2>1. /\ frame_len' \in 4..(22 + MaxSymbolLen) /\ frame_len' \in 4..400
        /\ Carries(U32(frame_len'), wire', lost, units)
    BY ONLY <1>1, <1>4, <1>5, <1>6, LengthIsRead
  <2>2. frame_len' # 0 /\ frame_len' <= 22 + MaxSymbolLen
    <3>. PICK n, m : n = frame_len' /\ m = MaxSymbolLen
      OBVIOUS
    <3>1. m \in Nat
      BY ONLY m = MaxSymbolLen, n = frame_len', BinaryCodecAssumption
    <3>2. n \in 4..(22 + m)
      BY <2>1
    <3>3. n # 0 /\ n <= 22 + m
      BY ONLY <3>1, <3>2
    <3> QED
      BY <3>3
  <2>3. Held' = U32(frame_len')
    BY <2>2 DEF Held
  <2>4. WireTypes'
    BY <1>1, <2>1, <2>2 DEF WireInv, WireTypes
  <2>5. StreamWhole'
    BY <1>1, <1>4, <2>1, <2>3 DEF StreamWhole, OnTheLine
  <2>6. ReaderKnows' /\ AllGiven'
    BY <1>1, <1>2, <1>3 DEF ReaderKnows, AllGiven
  <2> QED
    BY <1>1, <2>4, <2>5, <2>6 DEF WireInv
<1>7. CASE units = <<>>
  <2>1. wire \in Seq(Bytes) /\ (<<>> \o wire) \o lost = <<>>
    BY <1>4, <1>7, UnitsNone DEF Carries
  <2>. PICK w : w = wire
    OBVIOUS
  <2>2. Len(w \o lost) = Len(w) + Len(lost) /\ Len(w) \in Nat /\ Len(lost) \in Nat
        /\ w \o lost = <<>>
    BY <2>1, ConcatLength, Fronts
  <2>3. Len(<<>>) = 0 /\ Len(w) >= 4
    BY <1>1
  <2> QED
    BY ONLY <2>2, <2>3
<1> QED
  BY <1>6, <1>7

LEMMA ReadFrameKeepsInv ==
    ASSUME WireInv, ReadFrame
    PROVE  WireInv'
<1>. PICK msg : msg = DecodeInput(SubSeq(wire, 1, frame_len))
  OBVIOUS
<1>1. /\ sending' = sending /\ engine_open' = engine_open
      /\ client' = client /\ typed' = typed /\ buffer' = buffer
      /\ reader = "binary" /\ frame_len > 0 /\ Len(wire) >= frame_len
      /\ wire' = SubSeq(wire, frame_len + 1, Len(wire)) /\ frame_len' = 0
      /\ received' = IF engine_open THEN received \o msg ELSE received
      /\ reader' = IF msg = <<>> \/ ~engine_open THEN "done" ELSE "binary"
  BY DEF ReadFrame, clientVars
<1>2. buffer = <<>> /\ Held' = <<>> /\ frame_len \in 4..400 /\ Held = U32(frame_len)
      /\ received \in Seq(InputMessages) /\ client # "nc"
  BY <1>1 DEF WireInv, WireTypes, ReaderKnows, Held
<1>3. CASE ~engine_open
  <2>1. received' = received /\ reader' = "done"
    BY <1>1, <1>3
  <2>2. WireTypes'
    BY <1>1, <2>1 DEF WireInv, WireTypes
  <2>3. ReaderKnows' /\ AllGiven'
    BY <1>1, <1>3, <2>1 DEF ReaderKnows, AllGiven
  <2>4. StreamWhole'
    BY <1>1, <1>3, <2>1 DEF StreamWhole
  <2> QED
    BY <1>1, <2>1, <2>2, <2>3, <2>4 DEF WireInv
<1>4. CASE engine_open
  <2>1. PICK units \in Seq(Carried(client)), lost \in Seq(Bytes) :
          /\ Carries(U32(frame_len), wire, lost, units)
          /\ received \o Says(units) = MeantBy(client, typed)
          /\ sending # "cut" => lost = <<>>
    BY <1>1, <1>2 DEF WireInv, StreamWhole, OnTheLine
  <2>2. units \in Seq(FrameUnits)
    BY <1>2 DEF Carried
  <2>3. PICK more \in Seq(FrameUnits) :
          /\ Carries(<<>>, wire', lost, more)
          /\ msg # <<>> /\ msg \in Seq(InputMessages)
          /\ Says(more) \in Seq(InputMessages)
          /\ Says(units) = msg \o Says(more)
    <3>1. frame_len \in 4..400 /\ Len(wire) >= frame_len /\ units \in Seq(FrameUnits)
          /\ Carries(U32(frame_len), wire, lost, units)
      BY ONLY <1>1, <1>2, <2>1, <2>2
    <3>2. \E more \in Seq(FrameUnits) :
            /\ Carries(<<>>, SubSeq(wire, frame_len + 1, Len(wire)), lost, more)
            /\ DecodeInput(SubSeq(wire, 1, frame_len)) # <<>>
            /\ DecodeInput(SubSeq(wire, 1, frame_len)) \in Seq(InputMessages)
            /\ Says(more) \in Seq(InputMessages)
            /\ Says(units) = DecodeInput(SubSeq(wire, 1, frame_len)) \o Says(more)
      BY ONLY <3>1, FrameIsRead
    <3> QED
      BY ONLY <1>1, <3>2, msg = DecodeInput(SubSeq(wire, 1, frame_len))
  <2>4. received' = received \o msg /\ reader' = "binary"
    BY <1>1, <1>4, <2>3
  <2>5. received' \in Seq(InputMessages) /\ received' \o Says(more) = MeantBy(client, typed)
    <3>1. received \o msg \in Seq(InputMessages) /\ Associates(received, msg, Says(more))
      BY ONLY <1>2, <2>3, ConcatAssociates
    <3> QED
      BY ONLY <2>1, <2>3, <2>4, <3>1 DEF Associates
  <2>6. OnTheLine(client, typed, received', <<>>, wire', sending)
    <3>1. more \in Seq(Carried(client))
      BY <1>2 DEF Carried
    <3> QED
      BY ONLY <2>1, <2>3, <2>5, <3>1, lost \in Seq(Bytes) DEF OnTheLine
  <2>7. StreamWhole'
    BY <1>1, <1>2, <2>6 DEF StreamWhole
  <2>8. WireTypes'
    BY <1>1, <2>4, <2>5 DEF WireInv, WireTypes
  <2>9. ReaderKnows' /\ AllGiven'
    BY <1>1, <1>2, <2>4 DEF ReaderKnows, AllGiven
  <2>10. GivenFirst(client, typed, received)'
    <3>1. GivenFirst(client, typed, received')
      BY ONLY <2>5, <2>6, LineParts
    <3> QED
      BY <1>1, <3>1
  <2> QED
    BY <2>7, <2>8, <2>9, <2>10 DEF WireInv
<1> QED
  BY <1>3, <1>4

LEMMA BinaryEofKeepsInv ==
    ASSUME WireInv, BinaryEof
    PROVE  WireInv'
<1>1. /\ sending' = sending /\ engine_open' = engine_open
      /\ client' = client /\ typed' = typed /\ wire' = wire
      /\ buffer' = buffer /\ frame_len' = frame_len /\ received' = received
      /\ Held' = Held /\ reader = "binary" /\ reader' = "done"
      /\ sending # "open" /\ Len(wire) < Wanted
  BY DEF BinaryEof, clientVars, Held
<1>2. WireTypes' /\ ReaderKnows'
  BY <1>1 DEF WireInv, WireTypes, ReaderKnows
<1>3. StreamWhole'
  BY <1>1 DEF WireInv, StreamWhole
<1>4. AllGiven'
  <2>1. SUFFICES ASSUME sending # "cut", engine_open
                 PROVE  received = MeantBy(client, typed) /\ sending = "ended"
    BY <1>1 DEF AllGiven
  <2>2. sending = "ended"
    BY <1>1, <2>1 DEF WireInv, WireTypes
  <2> QED
    BY <1>1, <2>1, <2>2, BinaryGivesAll
<1> QED
  BY <1>1, <1>2, <1>3, <1>4 DEF WireInv

LEMMA ReadErrorKeepsInv ==
    ASSUME WireInv, ReadError
    PROVE  WireInv'
<1>1. /\ sending' = sending /\ engine_open' = engine_open
      /\ client' = client /\ typed' = typed /\ wire' = wire
      /\ buffer' = buffer /\ frame_len' = frame_len /\ received' = received
      /\ Held' = Held /\ reader' = "done" /\ sending = "cut"
  BY DEF ReadError, clientVars, Held
<1>2. WireTypes' /\ ReaderKnows' /\ AllGiven'
  BY <1>1 DEF WireInv, WireTypes, ReaderKnows, AllGiven
<1>3. StreamWhole'
  BY <1>1 DEF WireInv, StreamWhole
<1> QED
  BY <1>1, <1>2, <1>3 DEF WireInv

LEMMA UnchangedWire ==
    ASSUME WireInv, UNCHANGED wireVars
    PROVE  WireInv'
<1>1. /\ sending' = sending /\ engine_open' = engine_open
      /\ client' = client /\ typed' = typed /\ wire' = wire /\ reader' = reader
      /\ buffer' = buffer /\ frame_len' = frame_len /\ received' = received
      /\ Held' = Held
  BY DEF wireVars, clientVars, readerVars, Held
<1>2. WireTypes'
  BY <1>1 DEF WireInv, WireTypes
<1>3. ReaderKnows'
  BY <1>1 DEF WireInv, ReaderKnows
<1>4. StreamWhole' /\ AllGiven' /\ GivenFirst(client, typed, received)'
  BY <1>1 DEF WireInv, StreamWhole, AllGiven
<1> QED
  BY <1>2, <1>3, <1>4 DEF WireInv

LEMMA NextWireInv ==
    ASSUME FirstLooksLikeCsv
    PROVE  WireInv /\ [WireNext]_wireVars => WireInv'
<1>1. SUFFICES ASSUME WireInv, [WireNext]_wireVars PROVE WireInv'
  OBVIOUS
<1>2. CASE \E line \in Lines : SendLine(line)
  BY <1>1, <1>2, SendLineKeepsInv
<1>3. CASE \E line \in Lines : SendParsed(line)
  BY <1>1, <1>3, SendParsedKeepsInv
<1>4. CASE EndSending
  BY <1>1, <1>4, EndSendingKeepsInv
<1>5. CASE Cut
  BY <1>1, <1>5, CutKeepsInv
<1>6. CASE EngineStops
  BY <1>1, <1>6, EngineStopsKeepsInv
<1>7. CASE Detect
  BY <1>1, <1>7, DetectKeepsInv
<1>8. CASE \E k \in BytesRead : ReadCsv(k)
  BY <1>1, <1>8, ReadCsvKeepsInv
<1>9. CASE CsvEof
  BY <1>1, <1>9, CsvEofKeepsInv
<1>10. CASE ReadLength
  BY <1>1, <1>10, ReadLengthKeepsInv
<1>11. CASE ReadFrame
  BY <1>1, <1>11, ReadFrameKeepsInv
<1>12. CASE BinaryEof
  BY <1>1, <1>12, BinaryEofKeepsInv
<1>13. CASE ReadError
  BY <1>1, <1>13, ReadErrorKeepsInv
<1>14. CASE UNCHANGED wireVars
  BY <1>1, <1>14, UnchangedWire
<1> QED
  BY <1>1, <1>2, <1>3, <1>4, <1>5, <1>6, <1>7, <1>8, <1>9, <1>10, <1>11, <1>12, <1>13,
     <1>14 DEF WireNext, ClientNext, ReaderNext

LEMMA WireInvMeans == WireInv => InOrder /\ Understood
<1>1. SUFFICES ASSUME WireInv PROVE InOrder /\ Understood
  OBVIOUS
<1>2. Meant(typed) = MeantBy(client, typed)
  BY MeantIsBy
<1>3. InOrder
  <2>1. PICK more \in Seq(InputMessages) : received \o more = Meant(typed)
    BY <1>1, <1>2 DEF WireInv, GivenFirst
  <2>2. received \in Seq(InputMessages)
    BY <1>1 DEF WireInv, WireTypes
  <2> QED
    BY <2>1, <2>2, PrefixOf DEF InOrder
<1>4. frame_len <= 22 + MaxSymbolLen
  <2>1. MaxSymbolLen \in Nat
    BY BinaryCodecAssumption
  <2>2. frame_len = 0 \/ frame_len <= 22 + MaxSymbolLen
    BY <1>1 DEF WireInv, WireTypes
  <2>. PICK n, m : n = frame_len /\ m = MaxSymbolLen
    OBVIOUS
  <2>3. n <= 22 + m
    BY ONLY <2>1, <2>2, n = frame_len, m = MaxSymbolLen
  <2> QED
    BY <2>3
<1>5. ASSUME Starved, sending # "cut", engine_open
      PROVE  received = MeantBy(client, typed)
  <2>1. CASE reader \in {"detect", "csv"} /\ wire = <<>>
    BY <1>1, <1>5, <2>1, CsvGivesAll
  <2>2. CASE reader = "binary" /\ Len(wire) < Wanted
    BY <1>1, <1>5, <2>2, BinaryGivesAll
  <2>3. CASE reader = "done"
    BY <1>1, <1>5, <2>3 DEF WireInv, AllGiven
  <2> QED
    BY <1>5, <2>1, <2>2, <2>3 DEF Starved
<1> QED
  BY <1>2, <1>3, <1>4, <1>5 DEF Understood

\* The reader's invariant, which the two theorems below rest on.
THEOREM StreamIsWhole ==
    ASSUME FirstLooksLikeCsv
    PROVE  WireSpec => []WireInv
<1>1. WireInit => WireInv
  BY InitWireInv
<1>2. WireInv /\ [WireNext]_wireVars => WireInv'
  BY NextWireInv
<1> QED
  BY <1>1, <1>2, PTL DEF WireSpec

\* However the bytes are cut into reads, and wherever the connection breaks,
\* the engine gets messages that the user meant, in their order
\* (run_csv_reader, run_binary_reader), if every connection of nc begins with
\* what looks like CSV.
THEOREM MessagesInOrder ==
    ASSUME FirstLooksLikeCsv
    PROVE  WireSpec => []InOrder
<1>1. WireInv => InOrder
  BY WireInvMeans
<1>2. WireSpec => []WireInv
  BY StreamIsWhole
<1> QED
  BY <1>1, <1>2, PTL

\* When the server's reader waits for more, it has understood all that was
\* sent, and no length it waits for is longer than the longest message, if every
\* connection of nc begins with what looks like CSV: MCCommentFirst.cfg is an
\* instance where one does not.
THEOREM NothingStuck ==
    ASSUME FirstLooksLikeCsv
    PROVE  WireSpec => []Understood
<1>1. WireInv => Understood
  BY WireInvMeans
<1>2. WireSpec => []WireInv
  BY StreamIsWhole
<1> QED
  BY <1>1, <1>2, PTL

-----------------------------------------------------------------------------
(* What is formatted.                                                      *)

LEMMA CountedAlike ==
    ASSUME IsFiniteSet(OutputMessages)
    PROVE  FormatsTellApart
<1> DEFINE csv    == [m \in OutputMessages |-> FormatOutputCsv(m)]
           said   == [m \in OutputMessages |-> Said(m)]
           legacy == [m \in OutputMessages |-> FormatOutputLegacy(m)]
           rest   == [m \in OutputMessages |-> SaidLegacy(m)]
<1>1. /\ csv \in Surjection(OutputMessages, {FormatOutputCsv(m) : m \in OutputMessages})
      /\ said \in Surjection(OutputMessages, {Said(m) : m \in OutputMessages})
      /\ legacy \in Surjection(OutputMessages, {FormatOutputLegacy(m) : m \in OutputMessages})
      /\ rest \in Surjection(OutputMessages, {SaidLegacy(m) : m \in OutputMessages})
  BY DEF Surjection
<1>2. \A m \in OutputMessages : \A k \in OutputMessages :
        /\ csv[m] = csv[k] <=> said[m] = said[k]
        /\ legacy[m] = legacy[k] <=> rest[m] = rest[k]
  BY LinesTellApart
<1> HIDE DEF csv, said, legacy, rest
<1>3. Cardinality({FormatOutputCsv(m) : m \in OutputMessages})
        = Cardinality({Said(m) : m \in OutputMessages})
  BY ONLY <1>1, <1>2, IsFiniteSet(OutputMessages), SameNumber
<1>4. Cardinality({FormatOutputLegacy(m) : m \in OutputMessages})
        = Cardinality({SaidLegacy(m) : m \in OutputMessages})
  BY ONLY <1>1, <1>2, IsFiniteSet(OutputMessages), SameNumber
<1> QED
  BY <1>3, <1>4 DEF FormatsTellApart

\* Decoding inverts encoding and no two messages that say different things are
\* formatted alike, whatever the numbers, for any finite set of symbols, which
\* may hold any characters: commas, too (binary_codec, csv_codec).
THEOREM NothingLostInTheCodecs ==
    ASSUME IsFiniteSet(Symbols)
    PROVE  WireSpec => []RoundTrip
<1>1. IsFiniteSet(OutputMessages)
  BY OutputFinite
<1>2. CodecInverts /\ FormatsTellApart
  BY <1>1, DecodingInverts, CountedAlike
<1>3. RoundTrip
  BY <1>2 DEF RoundTrip
<1>4. RoundTrip'
  BY <1>2 DEF RoundTrip
<1> QED
  BY <1>3, <1>4, PTL
=============================================================================
