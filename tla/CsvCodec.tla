------------------------------ MODULE CsvCodec ------------------------------
(***************************************************************************)
(* engine-protocol's csv_codec: one line of text, as its ASCII codes, to   *)
(* the input message it stands for, or none (as a sequence of one or no    *)
(* message); and an output message to its line, in two formats.            *)
(***************************************************************************)
EXTENDS Integers, SequencesExt

Newline == 10
Blank == {10, 13, 32}
Comma == 44
Digit == 48..57

\* The letters that name a type of message or a side.
Letter == [B |-> 66, C |-> 67, F |-> 70, N |-> 78, Q |-> 81, S |-> 83]

-----------------------------------------------------------------------------
(* Text.                                                                   *)

\* str::trim
Trim(s) ==
    LET text == {i \in DOMAIN s : s[i] \notin Blank} IN
    IF text = {} THEN <<>> ELSE SubSeq(s, Min(text), Max(text))

\* str::split: always at least one part.
Split(s, delimiter) ==
    LET at   == SelectSeq([i \in DOMAIN s |-> i], LAMBDA i : s[i] = delimiter)
        ends == <<0>> \o at \o <<Len(s) + 1>>
    IN  [n \in 1..(Len(at) + 1) |-> SubSeq(s, ends[n] + 1, ends[n + 1] - 1)]

\* split_and_trim
Tokens(s) ==
    LET parts == Split(s, Comma) IN [n \in DOMAIN parts |-> Trim(parts[n])]

\* parse_u32 succeeds.  No line here has a number of more than 32 bits,
\* which the code refuses like any other token, nor one with a sign.
IsNumber(token) == token # <<>> /\ \A i \in DOMAIN token : token[i] \in Digit

Number(token) == FoldLeft(LAMBDA n, code : 10 * n + code - 48, 0, token)

\* The token starts with the letter; what follows is not looked at.
Starts(token, letter) == token # <<>> /\ token[1] = letter

-----------------------------------------------------------------------------
(* Lines.                                                                  *)

\* N, user, symbol, price, qty, side, userOrderId
IsNewOrder(tokens) ==
    /\ Len(tokens) = 7
    /\ \A n \in {2, 4, 5, 7} : IsNumber(tokens[n])
    /\ Number(tokens[5]) # 0
    /\ Starts(tokens[6], Letter.B) \/ Starts(tokens[6], Letter.S)

ParseNewOrder(tokens) ==
    IF IsNewOrder(tokens)
    THEN <<[type |-> "NewOrder", user_id |-> Number(tokens[2]),
            symbol |-> tokens[3], price |-> Number(tokens[4]),
            quantity |-> Number(tokens[5]),
            side |-> IF Starts(tokens[6], Letter.B) THEN "Buy" ELSE "Sell",
            user_order_id |-> Number(tokens[7])]>>
    ELSE <<>>

\* C, user, userOrderId
ParseCancel(tokens) ==
    IF Len(tokens) = 3 /\ IsNumber(tokens[2]) /\ IsNumber(tokens[3])
    THEN <<[type |-> "Cancel", user_id |-> Number(tokens[2]),
            user_order_id |-> Number(tokens[3])]>>
    ELSE <<>>

ParseFlush(tokens) == IF Len(tokens) = 1 THEN <<[type |-> "Flush"]>> ELSE <<>>

\* Q, symbol: the symbol may be empty.
ParseQuery(tokens) ==
    IF Len(tokens) = 2
    THEN <<[type |-> "QueryTopOfBook", symbol |-> tokens[2]]>>
    ELSE <<>>

\* parse_input_line: the message, or nothing for a blank line, a comment or
\* a line that is none of the four.
ParseInputLine(line) ==
    LET tokens == Tokens(Trim(line))
        first  == tokens[1]
    IN  CASE Starts(first, Letter.N) -> ParseNewOrder(tokens)
          [] Starts(first, Letter.C) -> ParseCancel(tokens)
          [] Starts(first, Letter.F) -> ParseFlush(tokens)
          [] Starts(first, Letter.Q) -> ParseQuery(tokens)
          [] OTHER                   -> <<>>

-----------------------------------------------------------------------------
(* Formatting.                                                             *)

OutputLetter == [Ack |-> 65, CancelAck |-> 67, Trade |-> 84, TopOfBook |-> 66]

SideLetter == [Buy |-> Letter.B, Sell |-> Letter.S]

\* A u32 as its decimal digits.
Decimal[n \in Nat] ==
    IF n < 10 THEN <<48 + n>> ELSE Append(Decimal[n \div 10], 48 + (n % 10))

\* "X, field, ..., field"
Formatted(msg, fields) ==
    <<OutputLetter[msg.type]>>
      \o FlattenSeq([n \in DOMAIN fields |-> <<Comma, 32>> \o fields[n]])

Dash == <<45>>

\* The fields of a message but for its symbol.
Fields(msg) ==
    CASE msg.type \in {"Ack", "CancelAck"} ->
           <<Decimal[msg.user_id], Decimal[msg.user_order_id]>>
      [] msg.type = "Trade" ->
           <<Decimal[msg.user_id_buy], Decimal[msg.user_order_id_buy],
             Decimal[msg.user_id_sell], Decimal[msg.user_order_id_sell],
             Decimal[msg.price], Decimal[msg.quantity]>>
      [] msg.type = "TopOfBook" ->
           <<<<SideLetter[msg.side]>>>>
             \o IF msg.eliminated THEN <<Dash, Dash>>
                ELSE <<Decimal[msg.price], Decimal[msg.total_quantity]>>

FormatOutputLegacy(msg) == Formatted(msg, Fields(msg))

\* The symbol comes last in an Ack or CancelAck and first in the others.
FormatOutputCsv(msg) ==
    Formatted(msg, IF msg.type \in {"Ack", "CancelAck"}
                   THEN Append(Fields(msg), msg.symbol)
                   ELSE <<msg.symbol>> \o Fields(msg))

-----------------------------------------------------------------------------
(* What a line should tell.                                                *)

\* What a message says: no price of a side that has been eliminated; and,
\* without its symbol, what is left in the legacy format.
Said(msg) ==
    IF msg.type = "TopOfBook" /\ msg.eliminated
    THEN [type |-> msg.type, symbol |-> msg.symbol, side |-> msg.side]
    ELSE msg

SaidLegacy(msg) == [f \in DOMAIN Said(msg) \ {"symbol"} |-> msg[f]]
=============================================================================
