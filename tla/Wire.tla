-------------------------------- MODULE Wire --------------------------------
(***************************************************************************)
(* One connection to the server, byte by byte: what a client writes, how   *)
(* the server guesses the protocol from the first byte, and how the CSV    *)
(* reader and the binary reader cut the stream into messages for the       *)
(* engine.  EngineServer has the tasks around it and takes a message for a *)
(* unit; here a message is bytes, which arrive in chunks of any length.    *)
(*                                                                         *)
(* Three clients: "nc" sends the user's lines as they are, "tcp_client"    *)
(* (the example) parses them and sends frames, "trading_client" sends the  *)
(* frames of EngineConnection::send.                                       *)
(***************************************************************************)
EXTENDS BinaryCodec, CsvCodec

CONSTANTS
    ClientKinds,   \* which of the three clients there are
    Lines,         \* what users type: [text, means], where means is the
                   \* message that the documented format gives the text
    FirstLines,    \* the lines a session may begin with
    MaxLines,      \* bound on the lines typed on one connection
    PartialReads   \* how many bytes a read may return that leaves others
                   \* behind; in the code, any number

ASSUME WireAssumption ==
    /\ ClientKinds \subseteq {"nc", "tcp_client", "trading_client"}
    /\ FirstLines \subseteq Lines
    /\ MaxLines \in Nat
    /\ PartialReads \subseteq Nat \ {0}

\* A line ends in its only newline.  The parser makes of it what it means: an
\* assumption about these lines only, which says nothing of how a stream is cut
\* into lines.
ASSUME LinesAssumption == \A line \in Lines :
    /\ line.text \in Seq(Bytes) /\ line.text # <<>>
    /\ \A i \in DOMAIN line.text : line.text[i] = Newline <=> i = Len(line.text)
    /\ line.means = ParseInputLine(line.text)
    /\ line.means \in {<<>>} \cup {<<msg>> : msg \in InputMessages}

VARIABLES
    client,        \* the kind of client on this connection
    typed,         \* the lines its user has typed
    sending,       \* "open"; "ended": all is sent; "cut": the client or the
                   \* network failed, and bytes may be missing at the end
    wire,          \* bytes sent and not yet read
    reader,        \* the server: "detect", "csv", "binary", "done"
    buffer,        \* run_csv_reader's buffer
    frame_len,     \* run_binary_reader: 0 while it awaits a length prefix
    received,      \* the messages put into the engine's channel
    engine_open    \* the engine still has the receiving end of that channel

clientVars == <<client, typed, sending>>
readerVars == <<reader, buffer, frame_len, received>>
wireVars == <<clientVars, wire, readerVars, engine_open>>

WireInit ==
    /\ client \in ClientKinds
    /\ typed = <<>>
    /\ sending = "open"
    /\ wire = <<>>
    /\ reader = "detect"
    /\ buffer = <<>>
    /\ frame_len = 0
    /\ received = <<>>
    /\ engine_open = TRUE

-----------------------------------------------------------------------------
(* The clients.                                                            *)

MayType(line) ==
    /\ sending = "open"
    /\ Len(typed) < MaxLines
    /\ line \in (IF typed = <<>> THEN FirstLines ELSE Lines)

SendLine(line) ==
    /\ client = "nc"
    /\ MayType(line)
    /\ typed' = Append(typed, line)
    /\ wire' = wire \o line.text
    /\ UNCHANGED <<client, sending, readerVars, engine_open>>

\* The example's loop: a blank line ends it, a line that does not parse or
\* does not encode is passed over.
SendParsed(line) ==
    /\ client = "tcp_client"
    /\ MayType(line)
    /\ typed' = Append(typed, line)
    /\ sending' = IF Trim(line.text) = <<>> THEN "ended" ELSE "open"
    /\ LET payloads == FlattenSeq([n \in DOMAIN ParseInputLine(line.text) |->
                                     EncodeInput(ParseInputLine(line.text)[n])])
       IN  wire' = wire \o FlattenSeq([n \in DOMAIN payloads |->
                                         Framed(payloads[n])])
    /\ UNCHANGED <<client, readerVars, engine_open>>

\* EngineConnection::send of a message from the App.  If it does not encode,
\* handle_disconnect drops the stream.
SendMessage(line) ==
    /\ client = "trading_client"
    /\ MayType(line)
    /\ line.means # <<>>
    /\ typed' = Append(typed, line)
    /\ LET payloads == EncodeInput(line.means[1]) IN
       /\ sending' = IF payloads = <<>> THEN "ended" ELSE "open"
       /\ wire' = wire \o FlattenSeq([n \in DOMAIN payloads |->
                                        FramedLittleEndian(payloads[n])])
    /\ UNCHANGED <<client, readerVars, engine_open>>

\* The end of nc's input; the user leaves the client.
EndSending ==
    /\ sending = "open"
    /\ sending' = "ended"
    /\ UNCHANGED <<client, typed, wire, readerVars, engine_open>>

\* The connection breaks anywhere in what has not been read.
Cut ==
    /\ sending # "cut"
    /\ sending' = "cut"
    /\ \E k \in 0..Len(wire) : wire' = SubSeq(wire, 1, k)
    /\ UNCHANGED <<client, typed, readerVars, engine_open>>

\* The engine task ends: from now on engine_tx.send fails.
EngineStops ==
    /\ engine_open
    /\ engine_open' = FALSE
    /\ UNCHANGED <<clientVars, wire, readerVars>>

ClientNext ==
    \/ \E line \in Lines : SendLine(line) \/ SendParsed(line)
    \/ EndSending
    \/ Cut

-----------------------------------------------------------------------------
(* run_client: the protocol.                                               *)

LooksLikeCsv(byte) == byte \in {Letter.N, Letter.C, Letter.F, Letter.Q}

\* peek returns one byte, or none at the end of the stream, where the zero in
\* first_byte is looked at; if the connection was reset it fails, once nothing
\* is left to read.
Detect ==
    /\ reader = "detect"
    /\ \/ /\ wire # <<>>
          /\ reader' = IF LooksLikeCsv(wire[1]) THEN "csv" ELSE "binary"
       \/ /\ wire = <<>>
          /\ \/ sending # "open" /\ reader' = "binary"
             \/ sending = "cut" /\ reader' = "csv"
    /\ UNCHANGED <<clientVars, wire, buffer, frame_len, received, engine_open>>

-----------------------------------------------------------------------------
(* run_csv_reader.                                                         *)

\* The complete lines of the text, in order; what follows the last newline
\* is none.
LinesOf(text) ==
    LET newlines == {i \in DOMAIN text : text[i] = Newline}
        From[start \in 0..Len(text)] ==
          LET next == {i \in newlines : i > start} IN
          IF next = {} THEN <<>>
          ELSE <<SubSeq(text, start + 1, Min(next) - 1)>> \o From[Min(next)]
    IN  From[0]

Parsed(lines) ==
    FlattenSeq([n \in DOMAIN lines |-> ParseInputLine(lines[n])])

\* Mutant: one line for each read.
LinesTakenOne(lines) == IF lines = <<>> THEN 0 ELSE 1

\* How many lines the inner loop takes: all of them, but once the engine is
\* gone it breaks at the first that has a message.
LinesTaken(lines) ==
    LET stops == {n \in DOMAIN lines : Parsed(<<lines[n]>>) # <<>>}
    IN  IF engine_open \/ stops = {} THEN Len(lines) ELSE Min(stops)

\* What one read may return of the bytes that have arrived.
BytesRead ==
    {k \in PartialReads : k < Len(wire)} \cup ({Len(wire)} \ {0})

\* One read of k bytes.
ReadCsv(k) ==
    /\ reader = "csv"
    /\ LET text  == buffer \o SubSeq(wire, 1, k)
           lines == SubSeq(LinesOf(text), 1, LinesTaken(LinesOf(text)))
           taken == Len(FlattenSeq(lines)) + Len(lines)
       IN  /\ buffer' = SubSeq(text, taken + 1, Len(text))
           /\ received' = IF engine_open THEN received \o Parsed(lines)
                          ELSE received
    /\ wire' = SubSeq(wire, k + 1, Len(wire))
    /\ UNCHANGED <<clientVars, reader, frame_len, engine_open>>

\* Mutant: what is left without a newline is taken for a line.
CsvEofFlushes ==
    /\ reader = "csv"
    /\ wire = <<>>
    /\ sending # "open"
    /\ reader' = "done"
    /\ received' = received \o ParseInputLine(buffer)
    /\ UNCHANGED <<clientVars, wire, buffer, frame_len, engine_open>>

\* read returns 0: an unterminated last line is lost.
CsvEof ==
    /\ reader = "csv"
    /\ wire = <<>>
    /\ sending # "open"
    /\ reader' = "done"
    /\ UNCHANGED <<clientVars, wire, buffer, frame_len, received, engine_open>>

-----------------------------------------------------------------------------
(* run_binary_reader.                                                      *)

\* What the read_exact in progress waits for.
Wanted == IF frame_len = 0 THEN 4 ELSE frame_len

ReadLength ==
    /\ reader = "binary"
    /\ frame_len = 0
    /\ Len(wire) >= 4
    /\ frame_len' = U32At(wire, 0)
    /\ wire' = SubSeq(wire, 5, Len(wire))
    /\ UNCHANGED <<clientVars, reader, buffer, received, engine_open>>

\* A frame that does not decode ends the reader, and so does an engine that
\* is gone.
ReadFrame ==
    /\ reader = "binary"
    /\ frame_len > 0
    /\ Len(wire) >= frame_len
    /\ LET msg == DecodeInput(SubSeq(wire, 1, frame_len)) IN
       /\ received' = IF engine_open THEN received \o msg ELSE received
       /\ reader' = IF msg = <<>> \/ ~engine_open THEN "done" ELSE "binary"
    /\ wire' = SubSeq(wire, frame_len + 1, Len(wire))
    /\ frame_len' = 0
    /\ UNCHANGED <<clientVars, buffer, engine_open>>

\* read_exact meets the end of the stream.
BinaryEof ==
    /\ reader = "binary"
    /\ sending # "open"
    /\ Len(wire) < Wanted
    /\ reader' = "done"
    /\ UNCHANGED <<clientVars, wire, buffer, frame_len, received, engine_open>>

\* The connection was reset: read fails, whatever has arrived.
ReadError ==
    /\ reader \in {"csv", "binary"}
    /\ sending = "cut"
    /\ reader' = "done"
    /\ UNCHANGED <<clientVars, wire, buffer, frame_len, received, engine_open>>

ReaderNext ==
    \/ Detect
    \/ \E k \in BytesRead : ReadCsv(k)
    \/ CsvEof
    \/ ReadLength
    \/ ReadFrame
    \/ BinaryEof
    \/ ReadError

WireNext == ClientNext \/ EngineStops \/ ReaderNext

\* The tokio scheduler runs a reader whose socket has something to read: it
\* detects the protocol, and a read that can return does.
WireFairness ==
    /\ WF_reader(/\ reader = "detect"
                 /\ wire # <<>>
                 /\ reader' \in {"csv", "binary"})
    /\ WF_wire(/\ reader \in {"csv", "binary"}
               /\ wire # <<>>
               /\ reader = "binary" => Len(wire) >= Wanted
               /\ \E k \in 1..Len(wire) : wire' = SubSeq(wire, k + 1, Len(wire)))

WireSpec == WireInit /\ [][WireNext]_wireVars /\ WireFairness

\* With the trading client, whose frames the server does not read as such.
TradingSpec == WireInit /\ [][WireNext \/ \E line \in Lines : SendMessage(line)]_wireVars

-----------------------------------------------------------------------------
(* What should hold.                                                       *)

\* What the engine is meant to get for the lines: a client that speaks the
\* binary protocol cannot send a symbol that the protocol has no room for.
Meant(lines) ==
    FlattenSeq([n \in DOMAIN lines |->
      IF client # "nc" /\ lines[n].means # <<>>
           /\ ~Encodable(lines[n].means[1])
      THEN <<>> ELSE lines[n].means])

\* However the bytes are cut into reads, and wherever the connection breaks,
\* the engine gets messages the user meant, in that order, and never one put
\* together from a piece (run_csv_reader, run_binary_reader).
InOrder == IsPrefix(received, Meant(typed))

\* The reader can do nothing more with what has arrived.
Starved ==
    \/ reader \in {"detect", "csv"} /\ wire = <<>>
    \/ reader = "binary" /\ Len(wire) < Wanted
    \/ reader = "done"

\* Nothing that was typed is still in a buffer when the reader waits for
\* more: the server understands the whole of what a client has sent.  Nor does
\* it ever set memory aside for a frame longer than the longest message there
\* is, because it took something else for a length (vec![0u8; frame_len] in
\* run_binary_reader).
Understood ==
    /\ frame_len <= 22 + MaxSymbolLen
    /\ Starved /\ sending # "cut" /\ engine_open => received = Meant(typed)

\* What is typed reaches the engine, even if the client then stays silent,
\* unless the connection breaks or the engine stops.
Served ==
    \A n \in 1..MaxLines :
      Len(typed) >= n ~>
        \/ /\ Len(typed) >= n
           /\ Len(received) >= Len(Meant(SubSeq(typed, 1, n)))
        \/ sending = "cut"
        \/ ~engine_open

\* As many lines as things to say.
FormatsTellApart ==
    /\ Cardinality({FormatOutputCsv(msg) : msg \in OutputMessages})
         = Cardinality({Said(msg) : msg \in OutputMessages})
    /\ Cardinality({FormatOutputLegacy(msg) : msg \in OutputMessages})
         = Cardinality({SaidLegacy(msg) : msg \in OutputMessages})

\* Decoding inverts encoding in both directions, a frame that was cut short
\* decodes to nothing, and exactly the symbols of 1 to MAX_SYMBOL_LEN bytes
\* can be encoded (binary_codec); and no two messages that say different
\* things are formatted alike (csv_codec).  It depends on no variable: the
\* initial states are enough to ask it in.
RoundTrip == typed = <<>> => CodecInverts /\ FormatsTellApart
=============================================================================
