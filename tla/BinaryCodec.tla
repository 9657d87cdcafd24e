---------------------------- MODULE BinaryCodec ----------------------------
(***************************************************************************)
(* engine-protocol's binary_codec: one message per buffer, in both         *)
(* directions.  A buffer is a sequence of bytes.  Encoding and decoding    *)
(* yield a sequence: the one result, or nothing where the code returns an  *)
(* Err (nothing depends on which).                                         *)
(*                                                                         *)
(* Offsets count from 0, as in the code.  A symbol is its bytes.           *)
(***************************************************************************)
EXTENDS Integers, SequencesExt

CONSTANTS
    MaxSymbolLen,   \* MAX_SYMBOL_LEN, 32 in the code
    Symbols,        \* the symbols clients use
    Numbers         \* the u32 values they use

Bytes == 0..255

ASSUME BinaryCodecAssumption ==
    /\ MaxSymbolLen \in 1..255
    /\ Symbols \subseteq Seq(Bytes)
    /\ Numbers \subseteq Nat

InputMessages ==
    [type : {"NewOrder"}, user_id : Numbers, user_order_id : Numbers,
     price : Numbers, quantity : Numbers \ {0}, side : {"Buy", "Sell"},
     symbol : Symbols]
    \cup [type : {"Cancel"}, user_id : Numbers, user_order_id : Numbers]
    \cup [type : {"Flush"}]
    \cup [type : {"QueryTopOfBook"}, symbol : Symbols]

OutputMessages ==
    [type : {"Ack", "CancelAck"}, user_id : Numbers, user_order_id : Numbers,
     symbol : Symbols]
    \cup [type : {"Trade"}, symbol : Symbols, user_id_buy : Numbers,
          user_order_id_buy : Numbers, user_id_sell : Numbers,
          user_order_id_sell : Numbers, price : Numbers, quantity : Numbers]
    \cup [type : {"TopOfBook"}, symbol : Symbols, side : {"Buy", "Sell"},
          eliminated : BOOLEAN, price : Numbers, total_quantity : Numbers]

Version == 1

\* The first byte of each type of message.
InputType == [NewOrder |-> 0, Cancel |-> 1, Flush |-> 2, QueryTopOfBook |-> 3]
OutputType == [Ack |-> 10, CancelAck |-> 11, Trade |-> 12, TopOfBook |-> 13]

SideByte == [Buy |-> 0, Sell |-> 1]

ValidSymbolLen(len) == len \in 1..MaxSymbolLen

-----------------------------------------------------------------------------
(* Encoding.                                                               *)

Header(type) == <<type, Version, 0, 0>>

\* u32::to_be_bytes
U32(n) ==
    LET m == n \div 256
        l == m \div 256
        k == l \div 256
    IN  <<k, l % 256, m % 256, n % 256>>

ASSUME NumbersAssumption == \A n \in Numbers : U32(n)[1] \in Bytes

Symbol(s) == <<Len(s)>> \o s

Encodable(msg) == "symbol" \in DOMAIN msg => ValidSymbolLen(Len(msg.symbol))

NewOrderBytes(n) ==
    Header(InputType.NewOrder)
      \o U32(n.user_id) \o U32(n.user_order_id) \o U32(n.price)
      \o U32(n.quantity) \o <<SideByte[n.side]>> \o Symbol(n.symbol)

CancelBytes(c) ==
    Header(InputType.Cancel) \o U32(c.user_id) \o U32(c.user_order_id)

QueryBytes(q) == Header(InputType.QueryTopOfBook) \o Symbol(q.symbol)

EncodeInput(msg) ==
    IF Encodable(msg)
    THEN <<CASE msg.type = "NewOrder"       -> NewOrderBytes(msg)
            [] msg.type = "Cancel"         -> CancelBytes(msg)
            [] msg.type = "Flush"          -> Header(InputType.Flush)
            [] msg.type = "QueryTopOfBook" -> QueryBytes(msg)>>
    ELSE <<>>

AckBytes(a) ==
    Header(OutputType[a.type])
      \o U32(a.user_id) \o U32(a.user_order_id) \o Symbol(a.symbol)

TradeBytes(t) ==
    Header(OutputType.Trade) \o Symbol(t.symbol)
      \o U32(t.user_id_buy) \o U32(t.user_order_id_buy)
      \o U32(t.user_id_sell) \o U32(t.user_order_id_sell)
      \o U32(t.price) \o U32(t.quantity)

TopOfBookBytes(t) ==
    Header(OutputType.TopOfBook) \o Symbol(t.symbol)
      \o <<SideByte[t.side], IF t.eliminated THEN 1 ELSE 0>>
      \o U32(t.price) \o U32(t.total_quantity)

EncodeOutput(msg) ==
    IF Encodable(msg)
    THEN <<CASE msg.type \in {"Ack", "CancelAck"} -> AckBytes(msg)
            [] msg.type = "Trade"                -> TradeBytes(msg)
            [] msg.type = "TopOfBook"            -> TopOfBookBytes(msg)>>
    ELSE <<>>

-----------------------------------------------------------------------------
(* Decoding.                                                               *)

ByteAt(buf, offset) == buf[offset + 1]

\* read_u32_be
U32At(buf, offset) ==
    ((ByteAt(buf, offset) * 256 + ByteAt(buf, offset + 1)) * 256
       + ByteAt(buf, offset + 2)) * 256 + ByteAt(buf, offset + 3)

\* A length byte, that many bytes of symbol and `rest` bytes more.  Symbols
\* here are ASCII, so from_utf8 does not fail.
HasSymbol(buf, offset, rest) ==
    /\ Len(buf) > offset
    /\ ValidSymbolLen(ByteAt(buf, offset))
    /\ Len(buf) >= offset + 1 + ByteAt(buf, offset) + rest

SymbolAt(buf, offset) ==
    SubSeq(buf, offset + 2, offset + 1 + ByteAt(buf, offset))

\* Mutant: the length byte is not counted.
AfterSymbolShort(buf, offset) == offset + ByteAt(buf, offset)

AfterSymbol(buf, offset) == offset + 1 + ByteAt(buf, offset)

SideOf(byte) == CHOOSE side \in DOMAIN SideByte : SideByte[side] = byte

IsSide(byte) == \E side \in DOMAIN SideByte : SideByte[side] = byte

DecodeNewOrder(buf) ==
    IF /\ HasSymbol(buf, 21, 0)
       /\ IsSide(ByteAt(buf, 20))
       /\ U32At(buf, 16) # 0
    THEN <<[type |-> "NewOrder", user_id |-> U32At(buf, 4),
            user_order_id |-> U32At(buf, 8), price |-> U32At(buf, 12),
            quantity |-> U32At(buf, 16), side |-> SideOf(ByteAt(buf, 20)),
            symbol |-> SymbolAt(buf, 21)]>>
    ELSE <<>>

DecodeCancel(buf) ==
    IF Len(buf) >= 12
    THEN <<[type |-> "Cancel", user_id |-> U32At(buf, 4),
            user_order_id |-> U32At(buf, 8)]>>
    ELSE <<>>

DecodeQuery(buf) ==
    IF HasSymbol(buf, 4, 0)
    THEN <<[type |-> "QueryTopOfBook", symbol |-> SymbolAt(buf, 4)]>>
    ELSE <<>>

HasHeader(buf) == Len(buf) >= 4 /\ ByteAt(buf, 1) = Version

DecodeInput(buf) ==
    IF ~HasHeader(buf) THEN <<>>
    ELSE CASE ByteAt(buf, 0) = InputType.NewOrder       -> DecodeNewOrder(buf)
           [] ByteAt(buf, 0) = InputType.Cancel         -> DecodeCancel(buf)
           [] ByteAt(buf, 0) = InputType.Flush          -> <<[type |-> "Flush"]>>
           [] ByteAt(buf, 0) = InputType.QueryTopOfBook -> DecodeQuery(buf)
           [] OTHER                                     -> <<>>

DecodeAck(buf, type) ==
    IF HasSymbol(buf, 12, 0)
    THEN <<[type |-> type, user_id |-> U32At(buf, 4),
            user_order_id |-> U32At(buf, 8), symbol |-> SymbolAt(buf, 12)]>>
    ELSE <<>>

DecodeTrade(buf) ==
    IF HasSymbol(buf, 4, 24)
    THEN LET at == AfterSymbol(buf, 4) IN
         <<[type |-> "Trade", symbol |-> SymbolAt(buf, 4),
            user_id_buy |-> U32At(buf, at),
            user_order_id_buy |-> U32At(buf, at + 4),
            user_id_sell |-> U32At(buf, at + 8),
            user_order_id_sell |-> U32At(buf, at + 12),
            price |-> U32At(buf, at + 16), quantity |-> U32At(buf, at + 20)]>>
    ELSE <<>>

DecodeTopOfBook(buf) ==
    IF HasSymbol(buf, 4, 10) /\ IsSide(ByteAt(buf, AfterSymbol(buf, 4)))
    THEN LET at == AfterSymbol(buf, 4) IN
         <<[type |-> "TopOfBook", symbol |-> SymbolAt(buf, 4),
            side |-> SideOf(ByteAt(buf, at)),
            eliminated |-> ByteAt(buf, at + 1) # 0,
            price |-> U32At(buf, at + 2),
            total_quantity |-> U32At(buf, at + 6)]>>
    ELSE <<>>

DecodeOutput(buf) ==
    IF ~HasHeader(buf) THEN <<>>
    ELSE CASE ByteAt(buf, 0) = OutputType.Ack       -> DecodeAck(buf, "Ack")
           [] ByteAt(buf, 0) = OutputType.CancelAck -> DecodeAck(buf, "CancelAck")
           [] ByteAt(buf, 0) = OutputType.Trade     -> DecodeTrade(buf)
           [] ByteAt(buf, 0) = OutputType.TopOfBook -> DecodeTopOfBook(buf)
           [] OTHER                                 -> <<>>

-----------------------------------------------------------------------------
(* Frames: a payload after its length, which EngineConnection::send writes *)
(* little-endian (put_u32_le) and everything else big-endian.              *)

FramedLittleEndian(payload) == Reverse(U32(Len(payload))) \o payload

Framed(payload) == U32(Len(payload)) \o payload

-----------------------------------------------------------------------------
(* What should hold.                                                       *)

\* A message is encoded exactly if its symbol has a valid length.  What it is
\* encoded as decodes to it, and to nothing when the end is cut off.
InputInverts(msg) ==
    LET frames == EncodeInput(msg) IN
    /\ frames = <<>> <=> ~Encodable(msg)
    /\ \A n \in DOMAIN frames :
         /\ DecodeInput(frames[n]) = <<msg>>
         /\ \A k \in 0..(Len(frames[n]) - 1) :
              DecodeInput(SubSeq(frames[n], 1, k)) = <<>>

OutputInverts(msg) ==
    LET frames == EncodeOutput(msg) IN
    /\ frames = <<>> <=> ~Encodable(msg)
    /\ \A n \in DOMAIN frames :
         /\ DecodeOutput(frames[n]) = <<msg>>
         /\ \A k \in 0..(Len(frames[n]) - 1) :
              DecodeOutput(SubSeq(frames[n], 1, k)) = <<>>

CodecInverts ==
    /\ \A msg \in InputMessages : InputInverts(msg)
    /\ \A msg \in OutputMessages : OutputInverts(msg)
=============================================================================
