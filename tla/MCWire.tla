-------------------------------- MODULE MCWire --------------------------------
(* Small instances of Wire for TLC: the lines that users type.             *)
EXTENDS Wire

A == <<65>>
AAA == <<65, 65, 65>>
Zero == <<48>>
Twelve == <<49, 50>>
TwoHundredFiftyEight == <<50, 53, 56>>

Typed(fields) ==
    FoldLeft(LAMBDA text, field : text \o <<Comma, 32>> \o field,
             fields[1], Tail(fields)) \o <<Newline>>

OrderLine ==
    [text |-> Typed(<<<<Letter.N>>, Twelve, A, Zero, Twelve, <<Letter.B>>,
                      TwoHundredFiftyEight>>),
     means |-> <<[type |-> "NewOrder", user_id |-> 12, user_order_id |-> 258,
                  price |-> 0, quantity |-> 12, side |-> "Buy",
                  symbol |-> A]>>]

CancelLine ==
    [text |-> Typed(<<<<Letter.C>>, Twelve, TwoHundredFiftyEight>>),
     means |-> <<[type |-> "Cancel", user_id |-> 12, user_order_id |-> 258]>>]

FlushLine ==
    [text |-> Typed(<<<<Letter.F>>>>), means |-> <<[type |-> "Flush"]>>]

QueryLine ==
    [text |-> Typed(<<<<Letter.Q>>, A>>),
     means |-> <<[type |-> "QueryTopOfBook", symbol |-> A]>>]

LongSymbolLine ==
    [text |-> Typed(<<<<Letter.Q>>, AAA>>),
     means |-> <<[type |-> "QueryTopOfBook", symbol |-> AAA]>>]

\* Lines that mean nothing: no quantity, too few fields, blank, a comment.
NoQuantityLine ==
    [text |-> Typed(<<<<Letter.N>>, Twelve, A, Zero, Zero, <<Letter.S>>,
                      Twelve>>),
     means |-> <<>>]
ShortLine == [text |-> Typed(<<<<Letter.C>>, Twelve>>), means |-> <<>>]
BlankLine == [text |-> <<Newline>>, means |-> <<>>]
CommentLine == [text |-> Typed(<<<<35, 32, Letter.F>>>>), means |-> <<>>]

CommandLines == {OrderLine, CancelLine, FlushLine, QueryLine, LongSymbolLine,
                 NoQuantityLine, ShortLine}
AllLines == CommandLines \cup {BlankLine, CommentLine}
CommentLines == {CommentLine}

MCSymbols == {<<>>, A, <<65, 66>>, AAA}
MCNumbers == {0, 12, 258}
=============================================================================
