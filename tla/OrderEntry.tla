------------------------------ MODULE OrderEntry ------------------------------
(***************************************************************************)
(* The keyboard of engine-trading-client: the keys as run_app hands them   *)
(* out by input_mode, and what the App does to the text and to the order   *)
(* that is being entered, up to the NewOrder that submit_input sends.      *)
(* TradingApp has what becomes of the order; there submit_input is a step  *)
(* that may always be taken.                                               *)
(*                                                                         *)
(* A character stands for those that the code does not tell apart: three   *)
(* digits, the plus sign that u32::parse takes, "other" for the rest of    *)
(* ASCII, the hotkeys included, and "wide" for what UTF-8 encodes in two   *)
(* bytes.                                                                  *)
(***************************************************************************)
EXTENDS Filters

CONSTANTS
    ParseLimit, \* 2^32 in the code
    MaxChars    \* bound on the characters typed in one text

ASSUME OrderEntryAssumption == ParseLimit \in Nat \ {0} /\ MaxChars \in Nat

EntrySides == {"Buy", "Sell"}
None == "None"

Digits == {"0", "1", "9"}
Chars == Digits \cup {"+", "other", "wide"}

VARIABLES
    input_mode,        \* "Normal" or "Editing"
    order_side,
    is_market_order,
    input_buffer,      \* the characters of the String
    input_cursor,
    program,           \* "runs", "quit" or "panicked"
    sent,              \* the order that the last key sent, if it did
    \* History, read by no action but for the bound:
    typed,             \* what a user expects in the buffer
    entry,             \* the side of the order entry that is going on
    abandoned          \* that of the last one, if Escape has ended it

textVars == <<input_buffer, input_cursor, typed>>
orderVars == <<order_side, entry, abandoned>>
entryVars == <<input_mode, is_market_order, program, sent, textVars, orderVars>>

EntryInit ==
    /\ input_mode = "Normal"
    /\ order_side = None
    /\ is_market_order = FALSE
    /\ input_buffer = <<>>
    /\ input_cursor = 0
    /\ program = "runs"
    /\ sent = <<>>
    /\ typed = <<>>
    /\ entry = None
    /\ abandoned = None

\* A key arrives in this mode.
Key(mode) == program = "runs" /\ input_mode = mode

-----------------------------------------------------------------------------
(* Strings.                                                                *)

Width == [char \in Chars |-> IF char = "wide" THEN 2 ELSE 1]

\* The byte at which the character after the first n begins.
Offset(text, n) == SumBy(Width, SubSeq(text, 1, n))

\* The numbers of characters before that byte; there is none if the byte is
\* inside a character or beyond the end.
Before(text, byte) == {n \in 0..Len(text) : Offset(text, n) = byte}

Digit == [char \in Digits |-> CASE char = "0" -> 0 [] char = "1" -> 1 [] char = "9" -> 9]

Value(digits) ==
    FoldBy([t \in Nat \X Digits |-> 10 * t[1] + Digit[t[2]]], 0, digits)

\* input_buffer.parse::<u32>().unwrap_or(0)
Quantity(text) ==
    LET digits == IF Len(text) > 1 /\ text[1] = "+" THEN Tail(text) ELSE text
    IN  IF digits # <<>> /\ ToSet(digits) \subseteq Digits /\ Value(digits) < ParseLimit
        THEN Value(digits) ELSE 0

-----------------------------------------------------------------------------
(* Normal mode.                                                            *)

ClearText ==
    /\ input_buffer' = <<>>
    /\ input_cursor' = 0
    /\ typed' = <<>>

\* Mutant: the cursor stays where the last text has left it.
StartOrderEntryCursor(side) ==
    /\ Key("Normal")
    /\ input_mode' = "Editing"
    /\ order_side' = side
    /\ entry' = side
    /\ abandoned' = None
    /\ input_buffer' = <<>>
    /\ typed' = <<>>
    /\ sent' = <<>>
    /\ UNCHANGED <<is_market_order, input_cursor, program>>

\* B and S.
StartOrderEntry(side) ==
    /\ Key("Normal")
    /\ input_mode' = "Editing"
    /\ order_side' = side
    /\ entry' = side
    /\ abandoned' = None
    /\ ClearText
    /\ sent' = <<>>
    /\ UNCHANGED <<is_market_order, program>>

\* The slash: the text is edited as in an order entry, and order_side stays.
StartSymbolSearch ==
    /\ Key("Normal")
    /\ input_mode' = "Editing"
    /\ ClearText
    /\ sent' = <<>>
    /\ UNCHANGED <<is_market_order, program, orderVars>>

\* M.  In Editing mode it is a character.
ToggleMarketOrder ==
    /\ Key("Normal")
    /\ is_market_order' = ~is_market_order
    /\ sent' = <<>>
    /\ UNCHANGED <<input_mode, program, textVars, orderVars>>

\* Q ends the loop of run_app.
Quit ==
    /\ Key("Normal")
    /\ program' = "quit"
    /\ sent' = <<>>
    /\ UNCHANGED <<input_mode, is_market_order, textVars, orderVars>>

-----------------------------------------------------------------------------
(* Editing mode.                                                           *)

\* The cursor counts characters and String::insert bytes: it panics unless a
\* character begins, or the string ends, at that byte.
EnterChar(char) ==
    /\ Key("Editing")
    /\ Len(typed) < MaxChars
    /\ typed' = Append(typed, char)
    /\ IF Before(input_buffer, input_cursor) = {}
       THEN /\ program' = "panicked"
            /\ UNCHANGED <<input_buffer, input_cursor>>
       ELSE /\ \E n \in Before(input_buffer, input_cursor) :
                 input_buffer' = InsertAt(input_buffer, n + 1, char)
            /\ input_cursor' = input_cursor + 1
            /\ UNCHANGED program
    /\ sent' = <<>>
    /\ UNCHANGED <<input_mode, is_market_order, orderVars>>

\* Backspace: String::remove of the character that begins at the byte before
\* the cursor, which panics if none does.
DeleteChar ==
    /\ Key("Editing")
    /\ typed' = IF typed = <<>> THEN <<>> ELSE Front(typed)
    /\ LET at == Before(input_buffer, input_cursor - 1) \ {Len(input_buffer)} IN
       IF input_cursor = 0
       THEN UNCHANGED <<input_buffer, input_cursor, program>>
       ELSE /\ input_cursor' = input_cursor - 1
            /\ program' = IF at = {} THEN "panicked" ELSE "runs"
            /\ input_buffer' = IF at = {} THEN input_buffer
                               ELSE RemoveAt(input_buffer, 1 + CHOOSE n \in at : TRUE)
    /\ sent' = <<>>
    /\ UNCHANGED <<input_mode, is_market_order, orderVars>>

\* Escape: the side stays.
CancelInput ==
    /\ Key("Editing")
    /\ input_mode' = "Normal"
    /\ ClearText
    /\ entry' = None
    /\ abandoned' = IF entry = None THEN abandoned ELSE entry
    /\ sent' = <<>>
    /\ UNCHANGED <<order_side, is_market_order, program>>

EnteredOrder ==
    [side |-> order_side, market |-> is_market_order,
     quantity |-> Quantity(input_buffer)]

\* Mutant: the side is not cleared.
SubmitEntryKeepsSide ==
    /\ Key("Editing")
    /\ order_side # None
    /\ Quantity(input_buffer) # 0
    /\ sent' = <<EnteredOrder>>
    /\ input_mode' = "Normal"
    /\ input_buffer' = <<>>
    /\ entry' = None
    /\ abandoned' = None
    /\ typed' = <<>>
    /\ UNCHANGED <<order_side, input_cursor, is_market_order, program>>

\* Enter, with a side and a quantity.  The cursor stays where it is.
SubmitEntry ==
    /\ Key("Editing")
    /\ order_side # None
    /\ Quantity(input_buffer) # 0
    /\ sent' = <<EnteredOrder>>
    /\ input_mode' = "Normal"
    /\ input_buffer' = <<>>
    /\ order_side' = None
    /\ entry' = None
    /\ abandoned' = None
    /\ typed' = <<>>
    /\ UNCHANGED <<input_cursor, is_market_order, program>>

\* Enter without one of them does nothing.
SubmitNothing ==
    /\ Key("Editing")
    /\ order_side = None \/ Quantity(input_buffer) = 0
    /\ sent' = <<>>
    /\ UNCHANGED <<input_mode, is_market_order, program, textVars, orderVars>>

-----------------------------------------------------------------------------

EntryNext ==
    \/ \E side \in EntrySides : StartOrderEntry(side)
    \/ StartSymbolSearch
    \/ ToggleMarketOrder
    \/ Quit
    \/ \E char \in Chars : EnterChar(char)
    \/ DeleteChar
    \/ CancelInput
    \/ SubmitEntry
    \/ SubmitNothing

EntrySpec == EntryInit /\ [][EntryNext]_entryVars

-----------------------------------------------------------------------------
(* What should hold.                                                       *)

\* An order is sent only by the entry that is going on, with its side, with
\* what was typed in it as the quantity, in 1..u32::MAX, and as the market or
\* limit order that was chosen before.  There is one exception: after an entry
\* that Escape has ended, a symbol search may send an order with the side of
\* that entry (submit_input, cancel_input, start_symbol_search).
OrderAsEntered ==
    [][\A n \in DOMAIN sent' :
         /\ sent'[n].side = IF entry # None THEN entry ELSE abandoned
         /\ sent'[n].quantity = Quantity(typed)
         /\ sent'[n].quantity \in 1..(ParseLimit - 1)
         /\ sent'[n].market = is_market_order
      ]_entryVars

\* Through any sequence of entries, searches, submissions and escapes the text
\* is what the user has typed in this one and the cursor is at its end; and the
\* program panics only at a key that follows a character of more than one byte
\* (enter_char, delete_char, start_order_entry).
TextAsTyped ==
    IF program = "panicked"
    THEN Len(typed) > 1 /\ Width[typed[Len(typed) - 1]] > 1
    ELSE input_mode = "Editing" =>
           input_buffer = typed /\ input_cursor = Len(typed)
=============================================================================
