------------------------------ MODULE CodecProofs ------------------------------
(***************************************************************************)
(* Theorems about the two codecs, for all messages, whatever the numbers   *)
(* and the symbols: decoding inverts encoding (DecodingInverts), and no    *)
(* two messages that say different things are formatted alike              *)
(* (LinesTellApart).                                                       *)
(***************************************************************************)
EXTENDS BinaryCodec, CsvCodec, FoldProofs

-----------------------------------------------------------------------------
(* The binary codec: pieces of a buffer.                                   *)

\* The piece stands in the buffer behind its first `offset` bytes.
Has(buf, offset, piece) ==
    /\ offset + Len(piece) <= Len(buf)
    /\ \A i \in 1..Len(piece) : buf[offset + i] = piece[i]

\* The number is 32 bits wide.
Fits(n) == n \in Nat /\ U32(n)[1] \in Bytes

\* What has been written stays when more is, and that follows it.
LEMMA HasConcat ==
    ASSUME NEW S, NEW x \in Seq(S), NEW y \in Seq(S)
    PROVE  /\ x \o y \in Seq(S) /\ Len(x \o y) = Len(x) + Len(y)
           /\ Has(x \o y, Len(x), y)
           /\ \A offset \in Nat : \A piece \in Seq(S) :
                Has(x, offset, piece) => Has(x \o y, offset, piece)
<1> DEFINE m == Len(x)
           n == Len(y)
           z == x \o y
<1>1. /\ m \in Nat /\ n \in Nat /\ z \in Seq(S) /\ Len(z) = m + n
      /\ \A i \in 1..(m + n) : z[i] = IF i <= m THEN x[i] ELSE y[i - m]
  BY ConcatProperties
<1> HIDE DEF m, n, z
<1>2. Has(z, m, y)
  <2>1. ASSUME NEW i \in 1..n
        PROVE  z[m + i] = y[i]
    <3>1. m + i \in 1..(m + n) /\ ~(m + i <= m) /\ (m + i) - m = i
      BY <1>1
    <3> QED
      BY <1>1, <3>1
  <2> QED
    BY <1>1, <2>1 DEF Has, n
<1>3. ASSUME NEW offset \in Nat, NEW piece \in Seq(S), Has(x, offset, piece)
      PROVE  Has(z, offset, piece)
  <2>1. /\ Len(piece) \in Nat /\ offset + Len(piece) <= m
        /\ \A i \in 1..Len(piece) : x[offset + i] = piece[i]
    BY <1>3 DEF Has, m
  <2>2. ASSUME NEW i \in 1..Len(piece)
        PROVE  z[offset + i] = piece[i]
    <3>1. offset + i \in 1..(m + n) /\ offset + i <= m
      BY <1>1, <2>1
    <3> QED
      BY <1>1, <2>1, <3>1
  <2>3. offset + Len(piece) <= m + n
    BY <1>1, <2>1
  <2> QED
    BY <1>1, <2>2, <2>3 DEF Has
<1> QED
  BY <1>1, <1>2, <1>3 DEF m, n, z

LEMMA LowByte ==
    ASSUME NEW n \in Nat
    PROVE  /\ n \div 256 \in Nat /\ n % 256 \in Bytes
           /\ n = (n \div 256) * 256 + (n % 256)
  BY DEF Bytes

\* from_be_bytes inverts to_be_bytes.
LEMMA U32Inverse ==
    ASSUME NEW n, Fits(n)
    PROVE  /\ U32(n) \in Seq(Bytes) /\ Len(U32(n)) = 4
           /\ \A buf : \A offset \in Nat : Has(buf, offset, U32(n)) => U32At(buf, offset) = n
<1>. PICK m : m = n \div 256
  OBVIOUS
<1>. PICK l : l = m \div 256
  OBVIOUS
<1>. PICK k : k = l \div 256
  OBVIOUS
<1>1. U32(n) = <<k, l % 256, m % 256, n % 256>>
  BY DEF U32
<1>2. n \in Nat /\ k \in Bytes
  BY <1>1 DEF Fits
<1>3. m \in Nat /\ n % 256 \in Bytes /\ n = m * 256 + (n % 256)
  BY <1>2, LowByte
<1>4. l \in Nat /\ m % 256 \in Bytes /\ m = l * 256 + (m % 256)
  BY <1>3, LowByte
<1>5. l % 256 \in Bytes /\ l = k * 256 + (l % 256)
  BY <1>4, LowByte
<1>6. U32(n) \in Seq(Bytes) /\ Len(U32(n)) = 4
  BY <1>1, <1>2, <1>3, <1>4, <1>5
<1>7. ASSUME NEW buf, NEW offset \in Nat, Has(buf, offset, U32(n))
      PROVE  U32At(buf, offset) = n
  <2>1. \A i \in 1..4 : buf[offset + i] = U32(n)[i]
    BY <1>6, <1>7 DEF Has
  <2>2. /\ U32(n)[1] = k /\ U32(n)[2] = l % 256
        /\ U32(n)[3] = m % 256 /\ U32(n)[4] = n % 256
    BY <1>1
  <2>3. /\ ByteAt(buf, offset) = k /\ ByteAt(buf, offset + 1) = l % 256
        /\ ByteAt(buf, offset + 2) = m % 256 /\ ByteAt(buf, offset + 3) = n % 256
    <3>1. offset + 1 + 1 = offset + 2 /\ offset + 2 + 1 = offset + 3 /\ offset + 3 + 1 = offset + 4
      OBVIOUS
    <3>2. 1 \in 1..4 /\ 2 \in 1..4 /\ 3 \in 1..4 /\ 4 \in 1..4
      OBVIOUS
    <3> QED
      BY <2>1, <2>2, <3>1, <3>2 DEF ByteAt
  <2>4. U32At(buf, offset) = ((k * 256 + (l % 256)) * 256 + (m % 256)) * 256 + (n % 256)
    BY <2>3 DEF U32At
  <2>5. k * 256 + (l % 256) = l /\ l * 256 + (m % 256) = m /\ m * 256 + (n % 256) = n
    BY <1>3, <1>4, <1>5
  <2> QED
    BY <2>4, <2>5
<1> QED
  BY <1>6, <1>7

LEMMA OneByte ==
    ASSUME NEW b \in Bytes
    PROVE  /\ <<b>> \in Seq(Bytes) /\ Len(<<b>>) = 1
           /\ \A buf : \A offset \in Nat : Has(buf, offset, <<b>>) => ByteAt(buf, offset) = b
<1>1. <<b>> \in Seq(Bytes) /\ Len(<<b>>) = 1 /\ <<b>>[1] = b
  OBVIOUS
<1>2. ASSUME NEW buf, NEW offset \in Nat, Has(buf, offset, <<b>>)
      PROVE  ByteAt(buf, offset) = b
  <2>1. \A i \in 1..1 : buf[offset + i] = <<b>>[i]
    BY <1>1, <1>2 DEF Has
  <2> QED
    BY <1>1, <2>1 DEF ByteAt
<1> QED
  BY <1>1, <1>2

\* The checks of a symbol pass where one of a valid length stands, with `rest`
\* bytes behind it.
LEMMA SymbolThere ==
    ASSUME NEW buf, NEW offset \in Nat, NEW rest \in Nat, NEW n, ValidSymbolLen(n),
           ByteAt(buf, offset) = n, Len(buf) \in Nat,
           Len(buf) >= offset + 1 + n + rest
    PROVE  HasSymbol(buf, offset, rest)
<1>1. n \in Nat
  BY BinaryCodecAssumption DEF ValidSymbolLen
<1>2. Len(buf) > offset
  BY <1>1
<1> QED
  BY <1>2 DEF HasSymbol

\* A symbol behind its length.
LEMMA SymbolFacts ==
    ASSUME NEW s \in Seq(Bytes), ValidSymbolLen(Len(s))
    PROVE  /\ Symbol(s) \in Seq(Bytes) /\ Len(Symbol(s)) = 1 + Len(s) /\ Len(s) \in 1..255
           /\ \A buf \in Seq(Bytes) : \A offset \in Nat : Has(buf, offset, Symbol(s)) =>
                /\ ByteAt(buf, offset) = Len(s) /\ SymbolAt(buf, offset) = s
                /\ AfterSymbol(buf, offset) = offset + 1 + Len(s)
<1>. PICK n : n = Len(s)
  OBVIOUS
<1>. PICK p : p = Symbol(s)
  OBVIOUS
<1>1. n \in 1..255 /\ n \in Bytes /\ ValidSymbolLen(n)
  <2>1. ValidSymbolLen(n)
    OBVIOUS
  <2>2. n \in 1..MaxSymbolLen /\ MaxSymbolLen \in 1..255
    BY <2>1, BinaryCodecAssumption DEF ValidSymbolLen
  <2>3. n \in Nat
    OBVIOUS
  <2>4. n \in 1..255
    BY ONLY <2>2, <2>3
  <2>5. n \in Bytes
    BY ONLY <2>4 DEF Bytes
  <2> QED
    BY ONLY <2>1, <2>4, <2>5
<1>2. /\ p \in Seq(Bytes) /\ Len(p) = 1 + n /\ p[1] = n
      /\ \A i \in 1..n : p[1 + i] = s[i]
  <2>1. p = <<n>> \o s /\ <<n>> \in Seq(Bytes) /\ Len(<<n>>) = 1
    <3>1. p = <<n>> \o s
      BY DEF Symbol
    <3>2. n \in Bytes
      BY <1>1
    <3>3. <<n>> \in Seq(Bytes) /\ Len(<<n>>) = 1
      BY ONLY <3>2
    <3> QED
      BY <3>1, <3>3
  <2>2. /\ p \in Seq(Bytes) /\ Len(p) = 1 + n
        /\ \A i \in 1..(1 + n) : p[i] = IF i <= 1 THEN <<n>>[i] ELSE s[i - 1]
    BY <2>1, ConcatProperties
  <2>3. ASSUME NEW i \in 1..n
        PROVE  p[1 + i] = s[i]
    <3>1. 1 + i \in 1..(1 + n) /\ ~(1 + i <= 1) /\ (1 + i) - 1 = i
      BY ONLY <1>1, i \in 1..n
    <3> QED
      BY ONLY <2>2, <3>1
  <2>4. p[1] = n
    <3>1. 1 \in 1..(1 + n)
      BY ONLY <1>1
    <3> QED
      BY ONLY <2>2, <3>1, <<n>>[1] = n
  <2> QED
    BY <2>2, <2>3, <2>4
<1>3. ASSUME NEW buf \in Seq(Bytes), NEW offset \in Nat, Has(buf, offset, p)
      PROVE  /\ ByteAt(buf, offset) = n /\ SymbolAt(buf, offset) = s
             /\ AfterSymbol(buf, offset) = offset + 1 + n
  <2>1. /\ offset + (1 + n) <= Len(buf)
        /\ \A i \in 1..(1 + n) : buf[offset + i] = p[i]
    BY <1>2, <1>3 DEF Has
  <2>2. ByteAt(buf, offset) = n
    <3>1. 1 \in 1..(1 + n)
      BY <1>1
    <3> QED
      BY <1>2, <2>1, <3>1 DEF ByteAt
  <2>. PICK t : t = SubSeq(buf, offset + 2, offset + 1 + n)
    OBVIOUS
  <2>3. /\ t \in Seq(Bytes) /\ Len(t) = n
        /\ \A i \in 1..n : t[i] = buf[offset + 2 + i - 1]
    <3>1. n \in Nat /\ n >= 1
      BY ONLY <1>1
    <3>2. /\ offset + 2 \in Int /\ offset + 1 + n \in Int
          /\ offset + 2 <= offset + 1 + n
          /\ (offset + 1 + n) - (offset + 2) + 1 = n
      BY ONLY <3>1, offset \in Nat
    <3>3. \A i \in (offset + 2)..(offset + 1 + n) : buf[i] \in Bytes
      BY ONLY <2>1, <3>1, offset \in Nat, buf \in Seq(Bytes)
    <3> QED
      BY ONLY <3>2, <3>3, t = SubSeq(buf, offset + 2, offset + 1 + n), SubSeqProperties
  <2>4. ASSUME NEW i \in 1..n
        PROVE  t[i] = s[i]
    <3>1. 1 + i \in 1..(1 + n) /\ offset + 2 + i - 1 = offset + (1 + i)
      BY ONLY <1>1, offset \in Nat, i \in 1..n
    <3> QED
      BY ONLY <1>2, <2>1, <2>3, <3>1, i \in 1..n
  <2>5. t = s
    BY <2>3, <2>4, SeqEqual
  <2> QED
    BY <2>2, <2>5 DEF SymbolAt, AfterSymbol
<1> QED
  BY <1>1, <1>2, <1>3

\* A buffer whose end is cut off.
LEMMA CutFacts ==
    ASSUME NEW buf \in Seq(Bytes), NEW k \in 0..(Len(buf) - 1)
    PROVE  LET cut == SubSeq(buf, 1, k) IN
           /\ Len(cut) = k /\ k \in Nat /\ k < Len(buf)
           /\ \A offset \in Nat : offset < k => ByteAt(cut, offset) = ByteAt(buf, offset)
<1>. PICK t : t = SubSeq(buf, 1, k)
  OBVIOUS
<1>1. k \in Nat /\ k < Len(buf) /\ Len(buf) \in Nat
  OBVIOUS
<1>2. Len(t) = k /\ \A i \in 1..k : t[i] = buf[1 + i - 1]
  BY <1>1, SubSeqProperties
<1>3. ASSUME NEW offset \in Nat, offset < k
      PROVE  ByteAt(t, offset) = ByteAt(buf, offset)
  <2>1. offset + 1 \in 1..k /\ 1 + (offset + 1) - 1 = offset + 1
    BY <1>1, <1>3
  <2> QED
    BY <1>2, <2>1 DEF ByteAt
<1> QED
  BY <1>1, <1>2, <1>3

LEMMA MessageFields ==
    /\ \A n \in Numbers : Fits(n)
    /\ \A s \in Symbols : s \in Seq(Bytes)
  BY BinaryCodecAssumption, NumbersAssumption DEF Fits

\* What a buffer begins with.
LEMMA HeaderFacts ==
    ASSUME NEW type \in Bytes
    PROVE  /\ Header(type) \in Seq(Bytes) /\ Len(Header(type)) = 4
           /\ \A buf : Has(buf, 0, Header(type)) => ByteAt(buf, 0) = type /\ ByteAt(buf, 1) = 1
<1>. PICK p : p = Header(type)
  OBVIOUS
<1>1. p \in Seq(Bytes) /\ Len(p) = 4 /\ p[1] = type /\ p[2] = 1
  BY DEF Header, Version, Bytes
<1>2. ASSUME NEW buf, Has(buf, 0, p)
      PROVE  ByteAt(buf, 0) = type /\ ByteAt(buf, 1) = 1
  <2>1. \A i \in 1..4 : buf[0 + i] = p[i]
    BY <1>1, <1>2 DEF Has
  <2>2. 1 \in 1..4 /\ 2 \in 1..4 /\ 0 + 1 = 1 /\ 0 + 2 = 2 /\ 1 + 1 = 2
    OBVIOUS
  <2>3. buf[1] = p[1] /\ buf[2] = p[2]
    BY <2>1, <2>2
  <2> QED
    BY <1>1, <2>2, <2>3 DEF ByteAt
<1> QED
  BY <1>1, <1>2

-----------------------------------------------------------------------------
(* How a buffer is laid out.                                               *)

\* Three pieces behind what has been written, which stays.
LaidOut(all, w, x, y, z) ==
    /\ all \in Seq(Bytes)
    /\ Len(all) = Len(w) + Len(x) + Len(y) + Len(z)
    /\ Has(all, Len(w), x)
    /\ Has(all, Len(w) + Len(x), y)
    /\ Has(all, Len(w) + Len(x) + Len(y), z)
    /\ \A offset \in Nat : \A piece \in Seq(Bytes) :
         Has(w, offset, piece) => Has(all, offset, piece)

LEMMA Layout ==
    ASSUME NEW w \in Seq(Bytes), NEW x \in Seq(Bytes), NEW y \in Seq(Bytes),
           NEW z \in Seq(Bytes)
    PROVE  LaidOut(w \o x \o y \o z, w, x, y, z)
<1>. PICK all : all = w \o x \o y \o z
  OBVIOUS
<1>. PICK wx : wx = w \o x
  OBVIOUS
<1>. PICK wxy : wxy = wx \o y
  OBVIOUS
<1>1. Len(w) \in Nat /\ Len(x) \in Nat /\ Len(y) \in Nat /\ Len(z) \in Nat
  OBVIOUS
<1>2. /\ wx \in Seq(Bytes) /\ Len(wx) = Len(w) + Len(x) /\ Has(wx, Len(w), x)
      /\ \A offset \in Nat : \A piece \in Seq(Bytes) :
           Has(w, offset, piece) => Has(wx, offset, piece)
  BY HasConcat
<1>3. /\ wxy \in Seq(Bytes) /\ Len(wxy) = Len(w) + Len(x) + Len(y)
      /\ Has(wxy, Len(w) + Len(x), y)
      /\ \A offset \in Nat : \A piece \in Seq(Bytes) :
           Has(wx, offset, piece) => Has(wxy, offset, piece)
  <2>1. /\ wxy \in Seq(Bytes) /\ Len(wxy) = Len(wx) + Len(y)
        /\ Has(wxy, Len(wx), y)
        /\ \A offset \in Nat : \A piece \in Seq(Bytes) :
             Has(wx, offset, piece) => Has(wxy, offset, piece)
    BY <1>2, HasConcat
  <2> QED
    BY ONLY <1>2, <2>1
<1>4. /\ all \in Seq(Bytes) /\ Len(all) = Len(w) + Len(x) + Len(y) + Len(z)
      /\ Has(all, Len(w) + Len(x) + Len(y), z)
      /\ \A offset \in Nat : \A piece \in Seq(Bytes) :
           Has(wxy, offset, piece) => Has(all, offset, piece)
  <2>1. /\ all \in Seq(Bytes) /\ Len(all) = Len(wxy) + Len(z)
        /\ Has(all, Len(wxy), z)
        /\ \A offset \in Nat : \A piece \in Seq(Bytes) :
             Has(wxy, offset, piece) => Has(all, offset, piece)
    BY <1>3, HasConcat
  <2> QED
    BY ONLY <1>3, <2>1
<1>5. Len(w) + Len(x) \in Nat
  BY <1>1
<1>6. Has(all, Len(w), x)
  BY ONLY <1>1, <1>2, <1>3, <1>4, x \in Seq(Bytes)
<1>7. Has(all, Len(w) + Len(x), y)
  BY ONLY <1>3, <1>4, <1>5, y \in Seq(Bytes)
<1>8. ASSUME NEW offset \in Nat, NEW piece \in Seq(Bytes), Has(w, offset, piece)
      PROVE  Has(all, offset, piece)
  BY ONLY <1>2, <1>3, <1>4, <1>8
<1>9. LaidOut(all, w, x, y, z)
  BY ONLY <1>4, <1>6, <1>7, <1>8 DEF LaidOut
<1> QED
  BY <1>9

\* What is written first, and what ends a buffer, are there.
LEMMA HasSelf ==
    ASSUME NEW w \in Seq(Bytes)
    PROVE  Has(w, 0, w)
<1>1. ASSUME NEW i \in 1..Len(w) PROVE w[0 + i] = w[i]
  <2>1. 0 + i = i
    OBVIOUS
  <2> QED
    BY <2>1
<1>2. 0 + Len(w) <= Len(w)
  OBVIOUS
<1> QED
  BY <1>1, <1>2 DEF Has

\* Two bytes of a buffer.
LEMMA TwoBytes ==
    ASSUME NEW b \in Bytes, NEW c \in Bytes
    PROVE  /\ <<b, c>> \in Seq(Bytes) /\ Len(<<b, c>>) = 2
           /\ \A buf : \A offset \in Nat : Has(buf, offset, <<b, c>>) =>
                ByteAt(buf, offset) = b /\ ByteAt(buf, offset + 1) = c
<1>1. /\ <<b, c>> \in Seq(Bytes) /\ Len(<<b, c>>) = 2
      /\ <<b, c>>[1] = b /\ <<b, c>>[2] = c
  OBVIOUS
<1>2. ASSUME NEW buf, NEW offset \in Nat, Has(buf, offset, <<b, c>>)
      PROVE  ByteAt(buf, offset) = b /\ ByteAt(buf, offset + 1) = c
  <2>1. \A i \in 1..2 : buf[offset + i] = <<b, c>>[i]
    BY <1>1, <1>2 DEF Has
  <2>2. 1 \in 1..2 /\ 2 \in 1..2 /\ offset + 1 + 1 = offset + 2
    OBVIOUS
  <2>3. buf[offset + 1] = b /\ buf[offset + 2] = c
    BY <1>1, <2>1, <2>2
  <2> QED
    BY <2>2, <2>3 DEF ByteAt
<1> QED
  BY <1>1, <1>2

\* The decoder that the first byte chooses.
LEMMA InputDispatch ==
    ASSUME NEW buf, Len(buf) >= 4, ByteAt(buf, 1) = 1
    PROVE  /\ ByteAt(buf, 0) = 0 => DecodeInput(buf) = DecodeNewOrder(buf)
           /\ ByteAt(buf, 0) = 1 => DecodeInput(buf) = DecodeCancel(buf)
           /\ ByteAt(buf, 0) = 2 => DecodeInput(buf) = <<[type |-> "Flush"]>>
           /\ ByteAt(buf, 0) = 3 => DecodeInput(buf) = DecodeQuery(buf)
<1>1. HasHeader(buf)
  BY DEF HasHeader, Version
<1>2. /\ InputType.NewOrder = 0 /\ InputType.Cancel = 1
      /\ InputType.Flush = 2 /\ InputType.QueryTopOfBook = 3
  BY DEF InputType
<1>. PICK first : first = ByteAt(buf, 0)
  OBVIOUS
<1>3. first = 0 => DecodeInput(buf) = DecodeNewOrder(buf)
  BY <1>1, <1>2 DEF DecodeInput
<1>4. first = 1 => DecodeInput(buf) = DecodeCancel(buf)
  BY <1>1, <1>2 DEF DecodeInput
<1>5. first = 2 => DecodeInput(buf) = <<[type |-> "Flush"]>>
  BY <1>1, <1>2 DEF DecodeInput
<1>6. first = 3 => DecodeInput(buf) = DecodeQuery(buf)
  BY <1>1, <1>2 DEF DecodeInput
<1> QED
  BY <1>3, <1>4, <1>5, <1>6

LEMMA OutputDispatch ==
    ASSUME NEW buf, Len(buf) >= 4, ByteAt(buf, 1) = 1
    PROVE  /\ ByteAt(buf, 0) = 10 => DecodeOutput(buf) = DecodeAck(buf, "Ack")
           /\ ByteAt(buf, 0) = 11 => DecodeOutput(buf) = DecodeAck(buf, "CancelAck")
           /\ ByteAt(buf, 0) = 12 => DecodeOutput(buf) = DecodeTrade(buf)
           /\ ByteAt(buf, 0) = 13 => DecodeOutput(buf) = DecodeTopOfBook(buf)
<1>1. HasHeader(buf)
  BY DEF HasHeader, Version
<1>2. /\ OutputType.Ack = 10 /\ OutputType.CancelAck = 11
      /\ OutputType.Trade = 12 /\ OutputType.TopOfBook = 13
  BY DEF OutputType
<1>. PICK first : first = ByteAt(buf, 0)
  OBVIOUS
<1>3. first = 10 => DecodeOutput(buf) = DecodeAck(buf, "Ack")
  BY <1>1, <1>2 DEF DecodeOutput
<1>4. first = 11 => DecodeOutput(buf) = DecodeAck(buf, "CancelAck")
  BY <1>1, <1>2 DEF DecodeOutput
<1>5. first = 12 => DecodeOutput(buf) = DecodeTrade(buf)
  BY <1>1, <1>2 DEF DecodeOutput
<1>6. first = 13 => DecodeOutput(buf) = DecodeTopOfBook(buf)
  BY <1>1, <1>2 DEF DecodeOutput
<1> QED
  BY <1>3, <1>4, <1>5, <1>6

\* A buffer shorter than a header, or with another version, is refused.
LEMMA NoHeader ==
    ASSUME NEW buf, Len(buf) < 4 \/ ByteAt(buf, 1) # 1, Len(buf) \in Nat
    PROVE  DecodeInput(buf) = <<>> /\ DecodeOutput(buf) = <<>>
<1>1. ~HasHeader(buf)
  BY DEF HasHeader, Version
<1> QED
  BY <1>1 DEF DecodeInput, DecodeOutput

-----------------------------------------------------------------------------
(* Each message.                                                           *)

\* A short buffer that decodes to the message, and to nothing when it is cut.
CarriesInput(buf, msg) ==
    /\ buf \in Seq(Bytes) /\ Len(buf) \in 4..400 /\ Len(buf) <= 22 + MaxSymbolLen
    /\ DecodeInput(buf) = <<msg>>
    /\ \A k \in 0..(Len(buf) - 1) : DecodeInput(SubSeq(buf, 1, k)) = <<>>

CarriesOutput(buf, msg) ==
    /\ buf \in Seq(Bytes) /\ Len(buf) \in 4..400
    /\ DecodeOutput(buf) = <<msg>>
    /\ \A k \in 0..(Len(buf) - 1) : DecodeOutput(SubSeq(buf, 1, k)) = <<>>

LEMMA Short ==
    ASSUME NEW n \in 1..255
    PROVE  /\ 5 + n \in 4..400 /\ 13 + n \in 4..400 /\ 15 + n \in 4..400
           /\ 22 + n \in 4..400 /\ 29 + n \in 4..400
  OBVIOUS

\* No input message is longer than an order with the longest symbol.
LEMMA LongestInput ==
    /\ 4 <= 22 + MaxSymbolLen /\ 12 <= 22 + MaxSymbolLen
    /\ \A n : ValidSymbolLen(n) => 5 + n <= 22 + MaxSymbolLen /\ 22 + n <= 22 + MaxSymbolLen
BY BinaryCodecAssumption DEF ValidSymbolLen

\* How long it is.
LEMMA LaidOutLength ==
    ASSUME NEW all, NEW w, NEW x, NEW y, NEW z, LaidOut(all, w, x, y, z)
    PROVE  Len(all) = Len(w) + Len(x) + Len(y) + Len(z)
  BY DEF LaidOut

LEMMA AckInverts ==
    ASSUME NEW msg \in [type : {"Ack", "CancelAck"}, user_id : Numbers,
                        user_order_id : Numbers, symbol : Symbols],
           ValidSymbolLen(Len(msg.symbol))
    PROVE  CarriesOutput(AckBytes(msg), msg)
<1> DEFINE s == msg.symbol
           u == msg.user_id
           o == msg.user_order_id
           t == OutputType[msg.type]
           b == Header(t) \o U32(u) \o U32(o) \o Symbol(s)
<1>1. s \in Seq(Bytes) /\ ValidSymbolLen(Len(s)) /\ Fits(u) /\ Fits(o)
  BY MessageFields
<1>2. /\ (msg.type = "Ack" /\ t = 10) \/ (msg.type = "CancelAck" /\ t = 11)
      /\ t \in Bytes
  BY DEF OutputType, Bytes
<1>3. b = AckBytes(msg)
  BY DEF AckBytes
<1>9. msg = [type |-> msg.type, user_id |-> u, user_order_id |-> o, symbol |-> s]
  OBVIOUS
<1>10. b = Header(t) \o U32(u) \o U32(o) \o Symbol(s)
  OBVIOUS
<1> HIDE DEF s, u, o, t, b
<1>4. /\ Header(t) \in Seq(Bytes) /\ Len(Header(t)) = 4
      /\ U32(u) \in Seq(Bytes) /\ Len(U32(u)) = 4
      /\ U32(o) \in Seq(Bytes) /\ Len(U32(o)) = 4
      /\ Symbol(s) \in Seq(Bytes) /\ Len(Symbol(s)) = 1 + Len(s) /\ Len(s) \in 1..255
  BY <1>1, <1>2, HeaderFacts, U32Inverse, SymbolFacts
<1>5. /\ b \in Seq(Bytes) /\ Len(b) = 13 + Len(s)
      /\ Has(b, 0, Header(t)) /\ Has(b, 4, U32(u)) /\ Has(b, 8, U32(o))
      /\ Has(b, 12, Symbol(s))
  <2>1. LaidOut(b, Header(t), U32(u), U32(o), Symbol(s))
    BY ONLY <1>4, <1>10, Layout
  <2>2. Has(b, 0, Header(t))
    BY ONLY <1>4, <2>1, HasSelf DEF LaidOut
  <2>3. 4 + 4 = 8 /\ 4 + 4 + 4 = 12 /\ 4 + 4 + 4 + (1 + Len(s)) = 13 + Len(s)
    BY ONLY <1>4
  <2> QED
    BY ONLY <1>4, <2>1, <2>2, <2>3 DEF LaidOut
<1>12. Len(s) \in 1..255 /\ Len(b) = 13 + Len(s) /\ Len(b) >= 4
  BY ONLY <1>4, <1>5, SMTT(20)
<1>6. /\ ByteAt(b, 0) = t /\ ByteAt(b, 1) = 1
      /\ U32At(b, 4) = u /\ U32At(b, 8) = o
      /\ ByteAt(b, 12) = Len(s) /\ SymbolAt(b, 12) = s
  <2>1. ByteAt(b, 0) = t /\ ByteAt(b, 1) = 1
    BY ONLY <1>2, <1>5, HeaderFacts
  <2>2. U32At(b, 4) = u /\ U32At(b, 8) = o
    BY <1>1, <1>5, U32Inverse
  <2>3. ByteAt(b, 12) = Len(s) /\ SymbolAt(b, 12) = s
    BY ONLY <1>1, <1>5, SymbolFacts, SMTT(20)
  <2> QED
    BY <2>1, <2>2, <2>3
<1>7. DecodeOutput(b) = <<msg>>
  <2>1. DecodeOutput(b) = DecodeAck(b, msg.type)
    BY ONLY <1>2, <1>12, <1>6, OutputDispatch
  <2>2. HasSymbol(b, 12, 0)
    <3>1. /\ 12 \in Nat /\ 0 \in Nat /\ Len(b) \in Nat
          /\ Len(b) >= 12 + 1 + Len(s) + 0
      BY ONLY <1>12
    <3>2. ValidSymbolLen(Len(s)) /\ ByteAt(b, 12) = Len(s)
      BY ONLY <1>1, <1>6
    <3> QED
      BY ONLY <3>1, <3>2, SymbolThere
  <2> QED
    BY <1>6, <1>9, <2>1, <2>2 DEF DecodeAck
<1>8. ASSUME NEW k \in 0..(Len(b) - 1)
      PROVE  DecodeOutput(SubSeq(b, 1, k)) = <<>>
  <2> DEFINE c == SubSeq(b, 1, k)
  <2>1. /\ Len(c) = k /\ k \in Nat /\ k < Len(b)
        /\ \A offset \in Nat : offset < k => ByteAt(c, offset) = ByteAt(b, offset)
    BY <1>5, CutFacts
  <2> HIDE DEF c
  <2>2. k < 4 => DecodeOutput(c) = <<>>
    BY <2>1, NoHeader
  <2>3. ASSUME k >= 4 PROVE DecodeOutput(c) = <<>>
    <3>1. ByteAt(c, 0) = t /\ ByteAt(c, 1) = 1
      BY ONLY <1>6, <2>1, <2>3
    <3>2. DecodeOutput(c) = DecodeAck(c, msg.type)
      BY <1>2, <2>1, <2>3, <3>1, OutputDispatch
    <3>3. ~HasSymbol(c, 12, 0)
      <4>1. k > 12 => ByteAt(c, 12) = Len(s)
        BY ONLY <1>6, <2>1
      <4> QED
        BY ONLY <1>12, <2>1, <4>1 DEF HasSymbol
    <3> QED
      BY <3>2, <3>3 DEF DecodeAck
  <2> QED
    BY <2>1, <2>2, <2>3 DEF c
<1>11. Len(b) \in 4..400
  <2>1. Len(s) \in 1..255
    BY <1>4
  <2>2. 13 + Len(s) \in 4..400
    BY ONLY <2>1, Short
  <2> QED
    BY <1>5, <2>2
<1> QED
  BY ONLY <1>3, <1>5, <1>7, <1>8, <1>11 DEF CarriesOutput

LEMMA TradeInverts ==
    ASSUME NEW msg \in [type : {"Trade"}, symbol : Symbols, user_id_buy : Numbers,
                        user_order_id_buy : Numbers, user_id_sell : Numbers,
                        user_order_id_sell : Numbers, price : Numbers,
                        quantity : Numbers],
           ValidSymbolLen(Len(msg.symbol))
    PROVE  CarriesOutput(TradeBytes(msg), msg)
<1> DEFINE s == msg.symbol
           n1 == msg.user_id_buy
           n2 == msg.user_order_id_buy
           n3 == msg.user_id_sell
           n4 == msg.user_order_id_sell
           n5 == msg.price
           n6 == msg.quantity
           h == Header(12)
           w == h \o Symbol(s) \o U32(n1) \o U32(n2)
           x == w \o U32(n3) \o U32(n4) \o U32(n5)
           b == x \o U32(n6)
           at == 5 + Len(s)
<1>1. /\ s \in Seq(Bytes) /\ ValidSymbolLen(Len(s))
      /\ Fits(n1) /\ Fits(n2) /\ Fits(n3) /\ Fits(n4) /\ Fits(n5) /\ Fits(n6)
  BY MessageFields
<1>2. b = TradeBytes(msg)
  BY DEF TradeBytes, OutputType
<1>3. msg = [type |-> "Trade", symbol |-> s, user_id_buy |-> n1,
             user_order_id_buy |-> n2, user_id_sell |-> n3,
             user_order_id_sell |-> n4, price |-> n5, quantity |-> n6]
  OBVIOUS
<1> HIDE DEF s, n1, n2, n3, n4, n5, n6
<1>4. /\ U32(n1) \in Seq(Bytes) /\ Len(U32(n1)) = 4
      /\ U32(n2) \in Seq(Bytes) /\ Len(U32(n2)) = 4
      /\ U32(n3) \in Seq(Bytes) /\ Len(U32(n3)) = 4
      /\ U32(n4) \in Seq(Bytes) /\ Len(U32(n4)) = 4
      /\ U32(n5) \in Seq(Bytes) /\ Len(U32(n5)) = 4
      /\ U32(n6) \in Seq(Bytes) /\ Len(U32(n6)) = 4
  BY <1>1, U32Inverse
<1>5. /\ Symbol(s) \in Seq(Bytes) /\ Len(Symbol(s)) = 1 + Len(s) /\ Len(s) \in 1..255
  BY <1>1, SymbolFacts
<1>6. 12 \in Bytes /\ h \in Seq(Bytes) /\ Len(h) = 4
  <2>1. 12 \in Bytes
    BY DEF Bytes
  <2> QED
    BY <2>1, HeaderFacts
<1>7. LaidOut(w, h, Symbol(s), U32(n1), U32(n2))
  BY <1>4, <1>5, <1>6, Layout
<1>8. w \in Seq(Bytes)
  BY <1>7 DEF LaidOut
<1>9. LaidOut(x, w, U32(n3), U32(n4), U32(n5))
  BY <1>4, <1>8, Layout
<1>10. x \in Seq(Bytes)
  BY <1>9 DEF LaidOut
<1>11. /\ b \in Seq(Bytes) /\ Len(b) = Len(x) + Len(U32(n6))
       /\ Has(b, Len(x), U32(n6))
       /\ \A offset \in Nat : \A piece \in Seq(Bytes) :
            Has(x, offset, piece) => Has(b, offset, piece)
  BY <1>4, <1>10, HasConcat
<1> HIDE DEF h, w, x, b
<1>12. at \in Nat /\ at + 4 \in Nat
  BY ONLY <1>5
<1>30. /\ Len(h) = 4 /\ Len(Symbol(s)) = 1 + Len(s) /\ Len(s) \in Nat
       /\ Len(U32(n1)) = 4 /\ Len(U32(n2)) = 4 /\ Len(U32(n3)) = 4
       /\ Len(U32(n4)) = 4 /\ Len(U32(n5)) = 4 /\ Len(U32(n6)) = 4
  BY ONLY <1>4, <1>5, <1>6
<1>13. Len(w) = at + 8 /\ Len(x) = at + 20 /\ Len(b) = at + 24
  <2>1. Len(w) = Len(h) + Len(Symbol(s)) + Len(U32(n1)) + Len(U32(n2))
    BY ONLY <1>7, LaidOutLength
  <2>2. Len(x) = Len(w) + Len(U32(n3)) + Len(U32(n4)) + Len(U32(n5))
    BY ONLY <1>9, LaidOutLength
  <2>3. Len(b) = Len(x) + Len(U32(n6))
    BY ONLY <1>11
  <2> QED
    BY ONLY <1>30, <2>1, <2>2, <2>3
<1>14. /\ Has(w, 0, h) /\ Has(w, 4, Symbol(s))
       /\ Has(w, at, U32(n1)) /\ Has(w, at + 4, U32(n2))
  <2>1. /\ Len(h) + Len(Symbol(s)) = at
        /\ Len(h) + Len(Symbol(s)) + Len(U32(n1)) = at + 4
    BY ONLY <1>30
  <2>2. Has(w, 0, h)
    BY ONLY <1>6, <1>7, HasSelf DEF LaidOut
  <2> QED
    BY ONLY <1>6, <1>7, <2>1, <2>2 DEF LaidOut
<1>15. /\ Has(x, at + 8, U32(n3)) /\ Has(x, at + 12, U32(n4))
       /\ Has(x, at + 16, U32(n5))
  <2>1. /\ Len(w) + Len(U32(n3)) = at + 12
        /\ Len(w) + Len(U32(n3)) + Len(U32(n4)) = at + 16
    BY ONLY <1>4, <1>12, <1>13
  <2> QED
    BY ONLY <1>9, <1>13, <2>1 DEF LaidOut
<1>16. \A offset \in Nat : \A piece \in Seq(Bytes) :
         Has(w, offset, piece) => Has(b, offset, piece)
  BY ONLY <1>9, <1>11 DEF LaidOut
<1>17. /\ Has(b, 0, h) /\ Has(b, 4, Symbol(s))
       /\ Has(b, at, U32(n1)) /\ Has(b, at + 4, U32(n2))
  BY ONLY <1>4, <1>5, <1>6, <1>12, <1>14, <1>16
<1>18. /\ Has(b, at + 8, U32(n3)) /\ Has(b, at + 12, U32(n4))
       /\ Has(b, at + 16, U32(n5)) /\ Has(b, at + 20, U32(n6))
  <2>1. at + 8 \in Nat /\ at + 12 \in Nat /\ at + 16 \in Nat
    BY ONLY <1>12
  <2> QED
    BY ONLY <1>4, <1>11, <1>13, <1>15, <2>1
<1>19. ByteAt(b, 0) = 12 /\ ByteAt(b, 1) = 1
  BY <1>6, <1>17, HeaderFacts DEF h
<1>20. ByteAt(b, 4) = Len(s) /\ SymbolAt(b, 4) = s /\ AfterSymbol(b, 4) = at
  <2>1. /\ ByteAt(b, 4) = Len(s) /\ SymbolAt(b, 4) = s
        /\ AfterSymbol(b, 4) = 4 + 1 + Len(s)
    BY <1>1, <1>11, <1>17, SymbolFacts
  <2>2. 4 + 1 + Len(s) = at
    BY ONLY <1>5
  <2> QED
    BY <2>1, <2>2
<1>21. U32At(b, at) = n1 /\ U32At(b, at + 4) = n2
  BY ONLY <1>1, <1>12, <1>17, U32Inverse
<1>22. /\ U32At(b, at + 8) = n3 /\ U32At(b, at + 12) = n4
       /\ U32At(b, at + 16) = n5 /\ U32At(b, at + 20) = n6
  <2>1. at + 8 \in Nat /\ at + 12 \in Nat /\ at + 16 \in Nat /\ at + 20 \in Nat
    BY ONLY <1>12
  <2> QED
    BY ONLY <1>1, <1>18, <2>1, U32Inverse
<1>23. Len(b) \in 4..400
  <2>1. 29 + Len(s) \in 4..400
    BY ONLY <1>5, Short
  <2>2. at + 24 = 29 + Len(s)
    BY ONLY <1>5
  <2> QED
    BY ONLY <1>13, <2>1, <2>2
<1>24. DecodeOutput(b) = <<msg>>
  <2>1. Len(b) >= 4
    BY ONLY <1>5, <1>13
  <2>2. DecodeOutput(b) = DecodeTrade(b)
    BY ONLY <1>19, <2>1, OutputDispatch
  <2>3. HasSymbol(b, 4, 24)
    <3>1. /\ 4 \in Nat /\ 24 \in Nat /\ Len(b) \in Nat
          /\ Len(b) >= 4 + 1 + Len(s) + 24
      BY ONLY <1>5, <1>13
    <3>2. ValidSymbolLen(Len(s)) /\ ByteAt(b, 4) = Len(s)
      BY ONLY <1>1, <1>20
    <3> QED
      BY ONLY <3>1, <3>2, SymbolThere
  <2> HIDE DEF at
  <2>4. DecodeTrade(b) = <<msg>>
    BY ONLY <1>3, <1>20, <1>21, <1>22, <2>3 DEF DecodeTrade
  <2> QED
    BY <2>2, <2>4
<1>25. ASSUME NEW k \in 0..(Len(b) - 1)
       PROVE  DecodeOutput(SubSeq(b, 1, k)) = <<>>
  <2> DEFINE c == SubSeq(b, 1, k)
  <2>1. /\ Len(c) = k /\ k \in Nat /\ k < Len(b)
        /\ \A offset \in Nat : offset < k => ByteAt(c, offset) = ByteAt(b, offset)
    BY <1>11, CutFacts
  <2> HIDE DEF c
  <2>2. k < 4 => DecodeOutput(c) = <<>>
    BY <2>1, NoHeader
  <2>3. ASSUME k >= 4 PROVE DecodeOutput(c) = <<>>
    <3>1. ByteAt(c, 0) = 12 /\ ByteAt(c, 1) = 1
      BY ONLY <1>19, <2>1, <2>3
    <3>2. DecodeOutput(c) = DecodeTrade(c)
      BY ONLY <2>1, <2>3, <3>1, OutputDispatch
    <3>3. ~HasSymbol(c, 4, 24)
      <4>1. k > 4 => ByteAt(c, 4) = Len(s)
        BY ONLY <1>20, <2>1
      <4> QED
        BY ONLY <1>5, <1>13, <2>1, <4>1, SMTT(20) DEF HasSymbol
    <3> QED
      BY <3>2, <3>3 DEF DecodeTrade
  <2> QED
    BY <2>1, <2>2, <2>3 DEF c
<1> QED
  BY ONLY <1>2, <1>11, <1>23, <1>24, <1>25 DEF CarriesOutput

LEMMA SideFacts ==
    ASSUME NEW side \in {"Buy", "Sell"}
    PROVE  /\ SideByte[side] \in Bytes /\ IsSide(SideByte[side])
           /\ SideOf(SideByte[side]) = side
<1>1. /\ DOMAIN SideByte = {"Buy", "Sell"}
      /\ SideByte["Buy"] = 0 /\ SideByte["Sell"] = 1
  BY DEF SideByte
<1>2. SideByte[side] \in Bytes
  BY <1>1 DEF Bytes
<1>3. \A other \in DOMAIN SideByte : SideByte[other] = SideByte[side] => other = side
  BY <1>1
<1> QED
  BY <1>1, <1>2, <1>3 DEF IsSide, SideOf

LEMMA TopOfBookInverts ==
    ASSUME NEW msg \in [type : {"TopOfBook"}, symbol : Symbols, side : {"Buy", "Sell"},
                        eliminated : BOOLEAN, price : Numbers,
                        total_quantity : Numbers],
           ValidSymbolLen(Len(msg.symbol))
    PROVE  CarriesOutput(TopOfBookBytes(msg), msg)
<1> DEFINE s == msg.symbol
           d == SideByte[msg.side]
           e == IF msg.eliminated THEN 1 ELSE 0
           p == msg.price
           q == msg.total_quantity
           h == Header(13)
           w == h \o Symbol(s) \o <<d, e>> \o U32(p)
           b == w \o U32(q)
           at == 5 + Len(s)
<1>1. /\ s \in Seq(Bytes) /\ ValidSymbolLen(Len(s)) /\ Fits(p) /\ Fits(q)
  BY MessageFields
<1>2. b = TopOfBookBytes(msg)
  BY DEF TopOfBookBytes, OutputType
<1>3. msg = [type |-> "TopOfBook", symbol |-> s, side |-> msg.side,
             eliminated |-> msg.eliminated, price |-> p, total_quantity |-> q]
  OBVIOUS
<1>4. d \in Bytes /\ IsSide(d) /\ SideOf(d) = msg.side
  BY SideFacts
<1>5. e \in Bytes /\ (e # 0) = msg.eliminated
  BY DEF Bytes
<1> HIDE DEF s, d, e, p, q
<1>6. /\ U32(p) \in Seq(Bytes) /\ Len(U32(p)) = 4
      /\ U32(q) \in Seq(Bytes) /\ Len(U32(q)) = 4
      /\ <<d, e>> \in Seq(Bytes) /\ Len(<<d, e>>) = 2
  BY <1>1, <1>4, <1>5, U32Inverse, TwoBytes
<1>7. /\ Symbol(s) \in Seq(Bytes) /\ Len(Symbol(s)) = 1 + Len(s) /\ Len(s) \in 1..255
  BY <1>1, SymbolFacts
<1>8. 13 \in Bytes /\ h \in Seq(Bytes) /\ Len(h) = 4
  <2>1. 13 \in Bytes
    BY DEF Bytes
  <2> QED
    BY <2>1, HeaderFacts
<1>9. LaidOut(w, h, Symbol(s), <<d, e>>, U32(p))
  BY <1>6, <1>7, <1>8, Layout
<1>10. w \in Seq(Bytes)
  BY <1>9 DEF LaidOut
<1>11. /\ b \in Seq(Bytes) /\ Len(b) = Len(w) + Len(U32(q))
       /\ Has(b, Len(w), U32(q))
       /\ \A offset \in Nat : \A piece \in Seq(Bytes) :
            Has(w, offset, piece) => Has(b, offset, piece)
  BY <1>6, <1>10, HasConcat
<1> HIDE DEF h, w, b
<1>12. at \in Nat /\ at + 2 \in Nat /\ at + 6 \in Nat
  BY ONLY <1>7
<1>30. /\ Len(h) = 4 /\ Len(Symbol(s)) = 1 + Len(s) /\ Len(s) \in Nat
       /\ Len(<<d, e>>) = 2 /\ Len(U32(p)) = 4 /\ Len(U32(q)) = 4
  BY ONLY <1>6, <1>7, <1>8
<1>13. Len(w) = at + 6 /\ Len(b) = at + 10
  <2>1. Len(w) = Len(h) + Len(Symbol(s)) + Len(<<d, e>>) + Len(U32(p))
    BY ONLY <1>9 DEF LaidOut
  <2>2. Len(b) = Len(w) + Len(U32(q))
    BY ONLY <1>11
  <2> QED
    BY ONLY <1>30, <2>1, <2>2
<1>14. /\ Has(w, 0, h) /\ Has(w, 4, Symbol(s))
       /\ Has(w, at, <<d, e>>) /\ Has(w, at + 2, U32(p))
  <2>1. /\ Len(h) + Len(Symbol(s)) = at
        /\ Len(h) + Len(Symbol(s)) + Len(<<d, e>>) = at + 2
    BY ONLY <1>30
  <2>2. Has(w, 0, h)
    BY ONLY <1>8, <1>9, HasSelf DEF LaidOut
  <2> QED
    BY ONLY <1>8, <1>9, <2>1, <2>2 DEF LaidOut
<1>15. /\ Has(b, 0, h) /\ Has(b, 4, Symbol(s)) /\ Has(b, at, <<d, e>>)
       /\ Has(b, at + 2, U32(p)) /\ Has(b, at + 6, U32(q))
  BY ONLY <1>6, <1>7, <1>8, <1>11, <1>12, <1>13, <1>14
<1>16. ByteAt(b, 0) = 13 /\ ByteAt(b, 1) = 1
  BY <1>8, <1>15, HeaderFacts DEF h
<1>17. ByteAt(b, 4) = Len(s) /\ SymbolAt(b, 4) = s /\ AfterSymbol(b, 4) = at
  <2>1. /\ ByteAt(b, 4) = Len(s) /\ SymbolAt(b, 4) = s
        /\ AfterSymbol(b, 4) = 4 + 1 + Len(s)
    BY <1>1, <1>11, <1>15, SymbolFacts
  <2>2. 4 + 1 + Len(s) = at
    BY ONLY <1>7
  <2> QED
    BY <2>1, <2>2
<1>18. ByteAt(b, at) = d /\ ByteAt(b, at + 1) = e
  BY ONLY <1>4, <1>5, <1>12, <1>15, TwoBytes
<1>19. U32At(b, at + 2) = p /\ U32At(b, at + 6) = q
  BY ONLY <1>1, <1>12, <1>15, U32Inverse
<1>20. Len(b) \in 4..400
  <2>1. 15 + Len(s) \in 4..400
    BY ONLY <1>7, Short
  <2>2. at + 10 = 15 + Len(s)
    BY ONLY <1>7
  <2> QED
    BY ONLY <1>13, <2>1, <2>2
<1>21. DecodeOutput(b) = <<msg>>
  <2>1. Len(b) >= 4
    BY ONLY <1>7, <1>13
  <2>2. DecodeOutput(b) = DecodeTopOfBook(b)
    BY ONLY <1>16, <2>1, OutputDispatch
  <2>3. HasSymbol(b, 4, 10)
    <3>1. /\ 4 \in Nat /\ 10 \in Nat /\ Len(b) \in Nat
          /\ Len(b) >= 4 + 1 + Len(s) + 10
      BY ONLY <1>7, <1>13
    <3>2. ValidSymbolLen(Len(s)) /\ ByteAt(b, 4) = Len(s)
      BY ONLY <1>1, <1>17
    <3> QED
      BY ONLY <3>1, <3>2, SymbolThere
  <2> HIDE DEF at
  <2>4. DecodeTopOfBook(b) =
          <<[type |-> "TopOfBook", symbol |-> s, side |-> msg.side,
             eliminated |-> e # 0, price |-> p, total_quantity |-> q]>>
    BY ONLY <1>4, <1>17, <1>18, <1>19, <2>3 DEF DecodeTopOfBook
  <2>5. DecodeTopOfBook(b) = <<msg>>
    BY ONLY <1>3, <1>5, <2>4
  <2> QED
    BY <2>2, <2>5
<1>22. ASSUME NEW k \in 0..(Len(b) - 1)
       PROVE  DecodeOutput(SubSeq(b, 1, k)) = <<>>
  <2> DEFINE c == SubSeq(b, 1, k)
  <2>1. /\ Len(c) = k /\ k \in Nat /\ k < Len(b)
        /\ \A offset \in Nat : offset < k => ByteAt(c, offset) = ByteAt(b, offset)
    BY <1>11, CutFacts
  <2> HIDE DEF c
  <2>2. k < 4 => DecodeOutput(c) = <<>>
    BY <2>1, NoHeader
  <2>3. ASSUME k >= 4 PROVE DecodeOutput(c) = <<>>
    <3>1. ByteAt(c, 0) = 13 /\ ByteAt(c, 1) = 1
      BY ONLY <1>16, <2>1, <2>3
    <3>2. DecodeOutput(c) = DecodeTopOfBook(c)
      BY ONLY <2>1, <2>3, <3>1, OutputDispatch
    <3>3. ~HasSymbol(c, 4, 10)
      <4>1. k > 4 => ByteAt(c, 4) = Len(s)
        BY ONLY <1>17, <2>1
      <4> QED
        BY ONLY <1>7, <1>13, <2>1, <4>1 DEF HasSymbol
    <3> QED
      BY <3>2, <3>3 DEF DecodeTopOfBook
  <2> QED
    BY <2>1, <2>2, <2>3 DEF c
<1> QED
  BY ONLY <1>2, <1>11, <1>20, <1>21, <1>22 DEF CarriesOutput

LEMMA NewOrderInverts ==
    ASSUME NEW msg \in [type : {"NewOrder"}, user_id : Numbers,
                        user_order_id : Numbers, price : Numbers,
                        quantity : Numbers \ {0}, side : {"Buy", "Sell"},
                        symbol : Symbols],
           ValidSymbolLen(Len(msg.symbol))
    PROVE  CarriesInput(NewOrderBytes(msg), msg)
<1> DEFINE s == msg.symbol
           d == SideByte[msg.side]
           u == msg.user_id
           o == msg.user_order_id
           p == msg.price
           q == msg.quantity
           h == Header(0)
           w == h \o U32(u) \o U32(o) \o U32(p)
           b == w \o U32(q) \o <<d>> \o Symbol(s)
<1>1. /\ s \in Seq(Bytes) /\ ValidSymbolLen(Len(s))
      /\ Fits(u) /\ Fits(o) /\ Fits(p) /\ Fits(q) /\ q # 0
  BY MessageFields
<1>2. b = NewOrderBytes(msg)
  BY DEF NewOrderBytes, InputType
<1>3. msg = [type |-> "NewOrder", user_id |-> u, user_order_id |-> o, price |-> p,
             quantity |-> q, side |-> msg.side, symbol |-> s]
  OBVIOUS
<1>4. d \in Bytes /\ IsSide(d) /\ SideOf(d) = msg.side
  BY SideFacts
<1> HIDE DEF s, d, u, o, p, q
<1>5. /\ U32(u) \in Seq(Bytes) /\ Len(U32(u)) = 4
      /\ U32(o) \in Seq(Bytes) /\ Len(U32(o)) = 4
      /\ U32(p) \in Seq(Bytes) /\ Len(U32(p)) = 4
      /\ U32(q) \in Seq(Bytes) /\ Len(U32(q)) = 4
      /\ <<d>> \in Seq(Bytes) /\ Len(<<d>>) = 1
  BY <1>1, <1>4, U32Inverse, OneByte
<1>6. /\ Symbol(s) \in Seq(Bytes) /\ Len(Symbol(s)) = 1 + Len(s) /\ Len(s) \in 1..255
  BY <1>1, SymbolFacts
<1>7. 0 \in Bytes /\ h \in Seq(Bytes) /\ Len(h) = 4
  <2>1. 0 \in Bytes
    BY DEF Bytes
  <2> QED
    BY <2>1, HeaderFacts
<1>8. LaidOut(w, h, U32(u), U32(o), U32(p))
  BY <1>5, <1>7, Layout
<1>9. w \in Seq(Bytes)
  BY <1>8 DEF LaidOut
<1>10. LaidOut(b, w, U32(q), <<d>>, Symbol(s))
  BY <1>5, <1>6, <1>9, Layout
<1>11. b \in Seq(Bytes)
  BY <1>10 DEF LaidOut
<1> HIDE DEF h, w, b
<1>12. Len(w) = 16 /\ Len(b) = 22 + Len(s)
  <2>1. Len(w) = Len(h) + Len(U32(u)) + Len(U32(o)) + Len(U32(p))
    BY ONLY <1>8, LaidOutLength
  <2>2. Len(b) = Len(w) + Len(U32(q)) + Len(<<d>>) + Len(Symbol(s))
    BY ONLY <1>10 DEF LaidOut
  <2>3. /\ Len(h) = 4 /\ Len(U32(u)) = 4 /\ Len(U32(o)) = 4 /\ Len(U32(p)) = 4
        /\ Len(U32(q)) = 4 /\ Len(<<d>>) = 1
        /\ Len(Symbol(s)) = 1 + Len(s) /\ Len(s) \in Nat
    BY ONLY <1>5, <1>6, <1>7
  <2> QED
    BY ONLY <2>1, <2>2, <2>3
<1>13. /\ Has(w, 0, h) /\ Has(w, 4, U32(u)) /\ Has(w, 8, U32(o)) /\ Has(w, 12, U32(p))
  <2>1. Len(h) + Len(U32(u)) = 8 /\ Len(h) + Len(U32(u)) + Len(U32(o)) = 12
    BY ONLY <1>5, <1>7
  <2>2. Has(w, 0, h)
    BY ONLY <1>7, <1>8, HasSelf DEF LaidOut
  <2> QED
    BY ONLY <1>7, <1>8, <2>1, <2>2 DEF LaidOut
<1>14. /\ Has(b, 16, U32(q)) /\ Has(b, 20, <<d>>) /\ Has(b, 21, Symbol(s))
  <2>1. Len(w) + Len(U32(q)) = 20 /\ Len(w) + Len(U32(q)) + Len(<<d>>) = 21
    BY ONLY <1>5, <1>12
  <2> QED
    BY ONLY <1>10, <1>12, <2>1 DEF LaidOut
<1>15. /\ Has(b, 0, h) /\ Has(b, 4, U32(u)) /\ Has(b, 8, U32(o)) /\ Has(b, 12, U32(p))
  <2>1. \A offset \in Nat : \A piece \in Seq(Bytes) :
          Has(w, offset, piece) => Has(b, offset, piece)
    BY ONLY <1>10 DEF LaidOut
  <2> QED
    BY ONLY <1>5, <1>7, <1>13, <2>1
<1>16. ByteAt(b, 0) = 0 /\ ByteAt(b, 1) = 1
  BY ONLY <1>7, <1>15, HeaderFacts DEF h
<1>17. ByteAt(b, 21) = Len(s) /\ SymbolAt(b, 21) = s
  BY <1>1, <1>11, <1>14, SymbolFacts, SMTT(20)
<1>18. ByteAt(b, 20) = d
  BY ONLY <1>4, <1>14, OneByte
<1>19. U32At(b, 4) = u /\ U32At(b, 8) = o /\ U32At(b, 12) = p /\ U32At(b, 16) = q
  BY ONLY <1>1, <1>14, <1>15, U32Inverse
<1>20. Len(b) \in 4..400 /\ Len(b) <= 22 + MaxSymbolLen
  <2>1. 22 + Len(s) \in 4..400 /\ 22 + Len(s) <= 22 + MaxSymbolLen
    BY ONLY <1>1, <1>6, Short, LongestInput
  <2> QED
    BY ONLY <1>12, <2>1
<1>21. DecodeInput(b) = <<msg>>
  <2>1. Len(b) >= 4
    BY ONLY <1>6, <1>12
  <2>2. DecodeInput(b) = DecodeNewOrder(b)
    BY ONLY <1>16, <2>1, InputDispatch
  <2>3. HasSymbol(b, 21, 0)
    <3>1. /\ 21 \in Nat /\ 0 \in Nat /\ Len(b) \in Nat
          /\ Len(b) >= 21 + 1 + Len(s) + 0
      BY ONLY <1>6, <1>12
    <3>2. ValidSymbolLen(Len(s)) /\ ByteAt(b, 21) = Len(s)
      BY ONLY <1>1, <1>17
    <3> QED
      BY ONLY <3>1, <3>2, SymbolThere
  <2>4. DecodeNewOrder(b) =
          <<[type |-> "NewOrder", user_id |-> u, user_order_id |-> o, price |-> p,
             quantity |-> q, side |-> msg.side, symbol |-> s]>>
    BY ONLY <1>1, <1>4, <1>17, <1>18, <1>19, <2>3 DEF DecodeNewOrder
  <2>5. DecodeNewOrder(b) = <<msg>>
    BY ONLY <1>3, <2>4
  <2> QED
    BY <2>2, <2>5
<1>22. ASSUME NEW k \in 0..(Len(b) - 1)
       PROVE  DecodeInput(SubSeq(b, 1, k)) = <<>>
  <2> DEFINE c == SubSeq(b, 1, k)
  <2>1. /\ Len(c) = k /\ k \in Nat /\ k < Len(b)
        /\ \A offset \in Nat : offset < k => ByteAt(c, offset) = ByteAt(b, offset)
    BY <1>11, CutFacts
  <2> HIDE DEF c
  <2>2. k < 4 => DecodeInput(c) = <<>>
    BY <2>1, NoHeader
  <2>3. ASSUME k >= 4 PROVE DecodeInput(c) = <<>>
    <3>1. ByteAt(c, 0) = 0 /\ ByteAt(c, 1) = 1
      BY ONLY <1>16, <2>1, <2>3
    <3>2. DecodeInput(c) = DecodeNewOrder(c)
      BY ONLY <2>1, <2>3, <3>1, InputDispatch
    <3>3. ~HasSymbol(c, 21, 0)
      <4>1. k > 21 => ByteAt(c, 21) = Len(s)
        BY ONLY <1>17, <2>1
      <4> QED
        BY ONLY <1>6, <1>12, <2>1, <4>1 DEF HasSymbol
    <3> QED
      BY <3>2, <3>3 DEF DecodeNewOrder
  <2> QED
    BY <2>1, <2>2, <2>3 DEF c
<1> QED
  BY ONLY <1>2, <1>11, <1>20, <1>21, <1>22 DEF CarriesInput

LEMMA CancelInverts ==
    ASSUME NEW msg \in [type : {"Cancel"}, user_id : Numbers, user_order_id : Numbers]
    PROVE  CarriesInput(CancelBytes(msg), msg)
<1> DEFINE u == msg.user_id
           o == msg.user_order_id
           h == Header(1)
           w == h \o U32(u)
           b == w \o U32(o)
<1>1. Fits(u) /\ Fits(o)
  BY MessageFields
<1>2. b = CancelBytes(msg)
  BY DEF CancelBytes, InputType
<1>3. msg = [type |-> "Cancel", user_id |-> u, user_order_id |-> o]
  OBVIOUS
<1> HIDE DEF u, o
<1>4. /\ U32(u) \in Seq(Bytes) /\ Len(U32(u)) = 4
      /\ U32(o) \in Seq(Bytes) /\ Len(U32(o)) = 4
  BY <1>1, U32Inverse
<1>5. 1 \in Bytes /\ h \in Seq(Bytes) /\ Len(h) = 4
  <2>1. 1 \in Bytes
    BY DEF Bytes
  <2> QED
    BY <2>1, HeaderFacts
<1>6. /\ w \in Seq(Bytes) /\ Len(w) = Len(h) + Len(U32(u))
      /\ Has(w, Len(h), U32(u))
      /\ \A offset \in Nat : \A piece \in Seq(Bytes) :
           Has(h, offset, piece) => Has(w, offset, piece)
  BY <1>4, <1>5, HasConcat
<1>7. /\ b \in Seq(Bytes) /\ Len(b) = Len(w) + Len(U32(o))
      /\ Has(b, Len(w), U32(o))
      /\ \A offset \in Nat : \A piece \in Seq(Bytes) :
           Has(w, offset, piece) => Has(b, offset, piece)
  BY <1>4, <1>6, HasConcat
<1> HIDE DEF h, w, b
<1>8. Len(w) = 8 /\ Len(b) = 12
  BY ONLY <1>4, <1>5, <1>6, <1>7
<1>9. Has(b, 0, h) /\ Has(b, 4, U32(u)) /\ Has(b, 8, U32(o))
  <2>1. Has(w, 0, h) /\ Has(w, 4, U32(u))
    BY ONLY <1>5, <1>6, HasSelf
  <2> QED
    BY ONLY <1>4, <1>5, <1>7, <1>8, <2>1
<1>10. ByteAt(b, 0) = 1 /\ ByteAt(b, 1) = 1
  BY <1>5, <1>9, HeaderFacts DEF h
<1>11. U32At(b, 4) = u /\ U32At(b, 8) = o
  BY ONLY <1>1, <1>9, U32Inverse
<1>12. DecodeInput(b) = <<msg>>
  <2>1. Len(b) >= 4 /\ Len(b) >= 12
    BY ONLY <1>8
  <2>2. DecodeInput(b) = DecodeCancel(b)
    BY ONLY <1>10, <2>1, InputDispatch
  <2> QED
    BY <1>3, <1>11, <2>1, <2>2 DEF DecodeCancel
<1>13. ASSUME NEW k \in 0..(Len(b) - 1)
       PROVE  DecodeInput(SubSeq(b, 1, k)) = <<>>
  <2> DEFINE c == SubSeq(b, 1, k)
  <2>1. /\ Len(c) = k /\ k \in Nat /\ k < Len(b)
        /\ \A offset \in Nat : offset < k => ByteAt(c, offset) = ByteAt(b, offset)
    BY <1>7, CutFacts
  <2> HIDE DEF c
  <2>2. k < 4 => DecodeInput(c) = <<>>
    BY <2>1, NoHeader
  <2>3. ASSUME k >= 4 PROVE DecodeInput(c) = <<>>
    <3>1. ByteAt(c, 0) = 1 /\ ByteAt(c, 1) = 1
      BY ONLY <1>10, <2>1, <2>3
    <3>2. DecodeInput(c) = DecodeCancel(c)
      BY ONLY <2>1, <2>3, <3>1, InputDispatch
    <3>3. ~(Len(c) >= 12)
      BY ONLY <1>8, <2>1
    <3> QED
      BY <3>2, <3>3 DEF DecodeCancel
  <2> QED
    BY <2>1, <2>2, <2>3 DEF c
<1>14. Len(b) \in 4..400 /\ Len(b) <= 22 + MaxSymbolLen
  <2>1. 12 \in 4..400 /\ 12 <= 22 + MaxSymbolLen
    BY LongestInput
  <2> QED
    BY ONLY <1>8, <2>1
<1> QED
  BY ONLY <1>2, <1>7, <1>12, <1>13, <1>14 DEF CarriesInput

LEMMA QueryInverts ==
    ASSUME NEW msg \in [type : {"QueryTopOfBook"}, symbol : Symbols],
           ValidSymbolLen(Len(msg.symbol))
    PROVE  CarriesInput(QueryBytes(msg), msg)
<1> DEFINE s == msg.symbol
           h == Header(3)
           b == h \o Symbol(s)
<1>1. s \in Seq(Bytes) /\ ValidSymbolLen(Len(s))
  BY MessageFields
<1>2. b = QueryBytes(msg)
  BY DEF QueryBytes, InputType
<1>3. msg = [type |-> "QueryTopOfBook", symbol |-> s]
  OBVIOUS
<1> HIDE DEF s
<1>4. /\ Symbol(s) \in Seq(Bytes) /\ Len(Symbol(s)) = 1 + Len(s) /\ Len(s) \in 1..255
  BY <1>1, SymbolFacts
<1>5. 3 \in Bytes /\ h \in Seq(Bytes) /\ Len(h) = 4
  <2>1. 3 \in Bytes
    BY DEF Bytes
  <2> QED
    BY <2>1, HeaderFacts
<1>6. /\ b \in Seq(Bytes) /\ Len(b) = Len(h) + Len(Symbol(s))
      /\ Has(b, Len(h), Symbol(s))
      /\ \A offset \in Nat : \A piece \in Seq(Bytes) :
           Has(h, offset, piece) => Has(b, offset, piece)
  BY <1>4, <1>5, HasConcat
<1> HIDE DEF h, b
<1>7. Len(b) = 5 + Len(s)
  BY ONLY <1>4, <1>5, <1>6
<1>8. Has(b, 0, h) /\ Has(b, 4, Symbol(s))
  BY ONLY <1>5, <1>6, HasSelf
<1>9. ByteAt(b, 0) = 3 /\ ByteAt(b, 1) = 1
  BY ONLY <1>5, <1>8, HeaderFacts DEF h
<1>10. ByteAt(b, 4) = Len(s) /\ SymbolAt(b, 4) = s
  BY ONLY <1>1, <1>6, <1>8, SymbolFacts
<1>11. DecodeInput(b) = <<msg>>
  <2>1. Len(b) >= 4
    BY ONLY <1>4, <1>7
  <2>2. DecodeInput(b) = DecodeQuery(b)
    BY ONLY <1>9, <2>1, InputDispatch
  <2>3. HasSymbol(b, 4, 0)
    <3>1. /\ 4 \in Nat /\ 0 \in Nat /\ Len(b) \in Nat
          /\ Len(b) >= 4 + 1 + Len(s) + 0
      BY ONLY <1>4, <1>7
    <3>2. ValidSymbolLen(Len(s)) /\ ByteAt(b, 4) = Len(s)
      BY ONLY <1>1, <1>10
    <3> QED
      BY ONLY <3>1, <3>2, SymbolThere
  <2> QED
    BY <1>3, <1>10, <2>2, <2>3 DEF DecodeQuery
<1>12. ASSUME NEW k \in 0..(Len(b) - 1)
       PROVE  DecodeInput(SubSeq(b, 1, k)) = <<>>
  <2> DEFINE c == SubSeq(b, 1, k)
  <2>1. /\ Len(c) = k /\ k \in Nat /\ k < Len(b)
        /\ \A offset \in Nat : offset < k => ByteAt(c, offset) = ByteAt(b, offset)
    BY <1>6, CutFacts
  <2> HIDE DEF c
  <2>2. k < 4 => DecodeInput(c) = <<>>
    BY <2>1, NoHeader
  <2>3. ASSUME k >= 4 PROVE DecodeInput(c) = <<>>
    <3>1. ByteAt(c, 0) = 3 /\ ByteAt(c, 1) = 1
      BY ONLY <1>9, <2>1, <2>3
    <3>2. DecodeInput(c) = DecodeQuery(c)
      BY ONLY <2>1, <2>3, <3>1, InputDispatch
    <3>3. ~HasSymbol(c, 4, 0)
      <4>1. k > 4 => ByteAt(c, 4) = Len(s)
        BY ONLY <1>10, <2>1
      <4>2. HasSymbol(c, 4, 0) => k > 4 /\ k >= 4 + 1 + ByteAt(c, 4) + 0
        BY ONLY <2>1 DEF HasSymbol
      <4> QED
        BY ONLY <1>4, <1>7, <2>1, <4>1, <4>2
    <3> QED
      BY <3>2, <3>3 DEF DecodeQuery
  <2> QED
    BY <2>1, <2>2, <2>3 DEF c
<1>13. Len(b) \in 4..400 /\ Len(b) <= 22 + MaxSymbolLen
  <2>1. 5 + Len(s) \in 4..400 /\ 5 + Len(s) <= 22 + MaxSymbolLen
    BY ONLY <1>1, <1>4, Short, LongestInput
  <2> QED
    BY ONLY <1>7, <2>1
<1> QED
  BY ONLY <1>2, <1>6, <1>11, <1>12, <1>13 DEF CarriesInput

LEMMA FlushInverts ==
    ASSUME NEW msg \in [type : {"Flush"}]
    PROVE  CarriesInput(Header(2), msg)
<1> DEFINE b == Header(2)
<1>1. 2 \in Bytes /\ b \in Seq(Bytes) /\ Len(b) = 4 /\ Has(b, 0, b)
  <2>1. 2 \in Bytes
    BY DEF Bytes
  <2>2. b \in Seq(Bytes) /\ Len(b) = 4
    BY <2>1, HeaderFacts
  <2> QED
    BY <2>1, <2>2, HasSelf
<1>2. ByteAt(b, 0) = 2 /\ ByteAt(b, 1) = 1
  BY <1>1, HeaderFacts
<1> HIDE DEF b
<1>3. DecodeInput(b) = <<msg>>
  <2>1. DecodeInput(b) = <<[type |-> "Flush"]>>
    <3>1. Len(b) >= 4
      BY ONLY <1>1
    <3> QED
      BY ONLY <1>2, <3>1, InputDispatch
  <2>2. msg = [type |-> "Flush"]
    OBVIOUS
  <2> QED
    BY <2>1, <2>2
<1>4. ASSUME NEW k \in 0..(Len(b) - 1)
      PROVE  DecodeInput(SubSeq(b, 1, k)) = <<>>
  <2> DEFINE c == SubSeq(b, 1, k)
  <2>1. Len(c) = k /\ k \in Nat /\ k < Len(b)
    BY <1>1, CutFacts
  <2> HIDE DEF c
  <2>2. DecodeInput(c) = <<>>
    BY <1>1, <2>1, NoHeader
  <2> QED
    BY <2>2 DEF c
<1>5. Len(b) \in 4..400 /\ Len(b) <= 22 + MaxSymbolLen
  <2>1. 4 \in 4..400 /\ 4 <= 22 + MaxSymbolLen
    BY LongestInput
  <2> QED
    BY ONLY <1>1, <2>1
<1>6. CarriesInput(b, msg)
  BY ONLY <1>1, <1>3, <1>4, <1>5 DEF CarriesInput
<1> QED
  BY <1>6 DEF b

\* A message that encodes is carried by what it is encoded as.
LEMMA OutputCarried ==
    ASSUME NEW msg \in OutputMessages, Encodable(msg)
    PROVE  \E buf : EncodeOutput(msg) = <<buf>> /\ CarriesOutput(buf, msg)
<1>1. CASE msg \in [type : {"Ack", "CancelAck"}, user_id : Numbers,
                    user_order_id : Numbers, symbol : Symbols]
  <2>1. ValidSymbolLen(Len(msg.symbol)) /\ msg.type \in {"Ack", "CancelAck"}
    BY <1>1 DEF Encodable
  <2>2. CarriesOutput(AckBytes(msg), msg)
    BY <1>1, <2>1, AckInverts
  <2>3. EncodeOutput(msg) = <<AckBytes(msg)>>
    BY ONLY <2>1, Encodable(msg) DEF EncodeOutput
  <2> QED
    BY <2>2, <2>3
<1>2. CASE msg \in [type : {"Trade"}, symbol : Symbols, user_id_buy : Numbers,
                    user_order_id_buy : Numbers, user_id_sell : Numbers,
                    user_order_id_sell : Numbers, price : Numbers,
                    quantity : Numbers]
  <2>1. ValidSymbolLen(Len(msg.symbol)) /\ msg.type = "Trade"
    BY <1>2 DEF Encodable
  <2>2. CarriesOutput(TradeBytes(msg), msg)
    BY <1>2, <2>1, TradeInverts
  <2>3. EncodeOutput(msg) = <<TradeBytes(msg)>>
    BY ONLY <2>1, Encodable(msg) DEF EncodeOutput
  <2> QED
    BY <2>2, <2>3
<1>3. CASE msg \in [type : {"TopOfBook"}, symbol : Symbols, side : {"Buy", "Sell"},
                    eliminated : BOOLEAN, price : Numbers,
                    total_quantity : Numbers]
  <2>1. ValidSymbolLen(Len(msg.symbol)) /\ msg.type = "TopOfBook"
    BY <1>3 DEF Encodable
  <2>2. CarriesOutput(TopOfBookBytes(msg), msg)
    BY <1>3, <2>1, TopOfBookInverts
  <2>3. EncodeOutput(msg) = <<TopOfBookBytes(msg)>>
    BY ONLY <2>1, Encodable(msg) DEF EncodeOutput
  <2> QED
    BY <2>2, <2>3
<1> QED
  BY <1>1, <1>2, <1>3 DEF OutputMessages

LEMMA InputCarried ==
    ASSUME NEW msg \in InputMessages, Encodable(msg)
    PROVE  \E buf : EncodeInput(msg) = <<buf>> /\ CarriesInput(buf, msg)
<1>1. CASE msg \in [type : {"NewOrder"}, user_id : Numbers, user_order_id : Numbers,
                    price : Numbers, quantity : Numbers \ {0}, side : {"Buy", "Sell"},
                    symbol : Symbols]
  <2>1. ValidSymbolLen(Len(msg.symbol)) /\ msg.type = "NewOrder"
    BY <1>1 DEF Encodable
  <2>2. CarriesInput(NewOrderBytes(msg), msg)
    BY <1>1, <2>1, NewOrderInverts
  <2>3. EncodeInput(msg) = <<NewOrderBytes(msg)>>
    BY ONLY <2>1, Encodable(msg) DEF EncodeInput
  <2> QED
    BY <2>2, <2>3
<1>2. CASE msg \in [type : {"Cancel"}, user_id : Numbers, user_order_id : Numbers]
  <2>1. CarriesInput(CancelBytes(msg), msg)
    BY <1>2, CancelInverts
  <2>2. msg.type = "Cancel"
    BY <1>2
  <2>3. EncodeInput(msg) = <<CancelBytes(msg)>>
    BY ONLY <2>2, Encodable(msg) DEF EncodeInput
  <2> QED
    BY <2>1, <2>3
<1>3. CASE msg \in [type : {"Flush"}]
  <2>1. CarriesInput(Header(2), msg)
    BY <1>3, FlushInverts
  <2>2. msg.type = "Flush" /\ InputType.Flush = 2
    BY <1>3 DEF InputType
  <2>3. EncodeInput(msg) = <<Header(2)>>
    BY ONLY <2>2, Encodable(msg) DEF EncodeInput
  <2> QED
    BY <2>1, <2>3
<1>4. CASE msg \in [type : {"QueryTopOfBook"}, symbol : Symbols]
  <2>1. ValidSymbolLen(Len(msg.symbol)) /\ msg.type = "QueryTopOfBook"
    BY <1>4 DEF Encodable
  <2>2. CarriesInput(QueryBytes(msg), msg)
    BY <1>4, <2>1, QueryInverts
  <2>3. EncodeInput(msg) = <<QueryBytes(msg)>>
    BY ONLY <2>1, Encodable(msg) DEF EncodeInput
  <2> QED
    BY <2>2, <2>3
<1> QED
  BY <1>1, <1>2, <1>3, <1>4 DEF InputMessages

\* For every symbol and every number there is, decoding inverts encoding in
\* both directions, what is cut off at the end decodes to nothing, and exactly
\* the messages whose symbol has a valid length encode (encode_input,
\* decode_input, encode_output, decode_output).
THEOREM DecodingInverts == CodecInverts
<1>1. ASSUME NEW msg \in InputMessages PROVE InputInverts(msg)
  <2>1. CASE Encodable(msg)
    <3>. PICK buf : EncodeInput(msg) = <<buf>> /\ CarriesInput(buf, msg)
      BY <2>1, InputCarried
    <3>1. /\ EncodeInput(msg) # <<>> /\ DOMAIN EncodeInput(msg) = {1}
          /\ EncodeInput(msg)[1] = buf
      OBVIOUS
    <3>2. ASSUME NEW n \in DOMAIN EncodeInput(msg)
          PROVE  /\ DecodeInput(EncodeInput(msg)[n]) = <<msg>>
                 /\ \A k \in 0..(Len(EncodeInput(msg)[n]) - 1) :
                      DecodeInput(SubSeq(EncodeInput(msg)[n], 1, k)) = <<>>
      <4>1. EncodeInput(msg)[n] = buf
        BY <3>1
      <4>2. /\ DecodeInput(buf) = <<msg>>
            /\ \A k \in 0..(Len(buf) - 1) : DecodeInput(SubSeq(buf, 1, k)) = <<>>
        BY DEF CarriesInput
      <4> QED
        BY ONLY <4>1, <4>2
    <3> QED
      BY ONLY <2>1, <3>1, <3>2 DEF InputInverts
  <2>2. CASE ~Encodable(msg)
    <3>1. EncodeInput(msg) = <<>>
      BY <2>2 DEF EncodeInput
    <3>2. DOMAIN <<>> = {}
      OBVIOUS
    <3> QED
      BY ONLY <2>2, <3>1, <3>2 DEF InputInverts
  <2> QED
    BY <2>1, <2>2
<1>2. ASSUME NEW msg \in OutputMessages PROVE OutputInverts(msg)
  <2>1. CASE Encodable(msg)
    <3>. PICK buf : EncodeOutput(msg) = <<buf>> /\ CarriesOutput(buf, msg)
      BY <2>1, OutputCarried
    <3>1. /\ EncodeOutput(msg) # <<>> /\ DOMAIN EncodeOutput(msg) = {1}
          /\ EncodeOutput(msg)[1] = buf
      OBVIOUS
    <3>2. ASSUME NEW n \in DOMAIN EncodeOutput(msg)
          PROVE  /\ DecodeOutput(EncodeOutput(msg)[n]) = <<msg>>
                 /\ \A k \in 0..(Len(EncodeOutput(msg)[n]) - 1) :
                      DecodeOutput(SubSeq(EncodeOutput(msg)[n], 1, k)) = <<>>
      <4>1. EncodeOutput(msg)[n] = buf
        BY <3>1
      <4>2. /\ DecodeOutput(buf) = <<msg>>
            /\ \A k \in 0..(Len(buf) - 1) : DecodeOutput(SubSeq(buf, 1, k)) = <<>>
        BY DEF CarriesOutput
      <4> QED
        BY ONLY <4>1, <4>2
    <3> QED
      BY ONLY <2>1, <3>1, <3>2 DEF OutputInverts
  <2>2. CASE ~Encodable(msg)
    <3>1. EncodeOutput(msg) = <<>>
      BY <2>2 DEF EncodeOutput
    <3>2. DOMAIN <<>> = {}
      OBVIOUS
    <3> QED
      BY ONLY <2>2, <3>1, <3>2 DEF OutputInverts
  <2> QED
    BY <2>1, <2>2
<1> QED
  BY <1>1, <1>2 DEF CodecInverts

-----------------------------------------------------------------------------
(* The text of a number.                                                   *)

\* One digit more than the text of a tenth.
WithDigit(g, n) ==
    IF n < 10 THEN <<48 + n>> ELSE Append(g[n \div 10], 48 + (n % 10))

TextUpTo(g, N) ==
    /\ g \in [0..N -> Seq(Digit)]
    /\ \A n \in 0..N : g[n] = WithDigit(g, n)

LEMMA Tenth ==
    ASSUME NEW n \in Nat
    PROVE  /\ n \div 10 \in Nat /\ n % 10 \in 0..9
           /\ n >= 10 => n \div 10 < n
           /\ n < 10 => 48 + n \in Digit
           /\ 48 + (n % 10) \in Digit
  BY DEF Digit

LEMMA WithDigitType ==
    ASSUME NEW N, NEW n \in 0..N, NEW g, N \in Nat,
           \A i \in 0..N : i < n => g[i] \in Seq(Digit)
    PROVE  WithDigit(g, n) \in Seq(Digit)
<1>1. n \in Nat
  OBVIOUS
<1>2. CASE n < 10
  <2>1. 48 + n \in Digit
    BY <1>1, <1>2, Tenth
  <2>2. <<48 + n>> \in Seq(Digit)
    BY <2>1
  <2> QED
    BY <1>2, <2>2 DEF WithDigit
<1>3. CASE ~(n < 10)
  <2>1. n \div 10 \in Nat /\ n \div 10 < n /\ 48 + (n % 10) \in Digit
    BY <1>1, <1>3, Tenth
  <2>2. n \div 10 \in 0..N
    BY ONLY <1>1, <2>1, n \in 0..N, N \in Nat
  <2>3. g[n \div 10] \in Seq(Digit)
    BY <2>1, <2>2
  <2>4. Append(g[n \div 10], 48 + (n % 10)) \in Seq(Digit)
    BY ONLY <2>1, <2>3, AppendProperties
  <2> QED
    BY <1>3, <2>4 DEF WithDigit
<1> QED
  BY <1>2, <1>3

LEMMA TextExists ==
    ASSUME NEW N \in Nat
    PROVE  \E g : TextUpTo(g, N)
<1> DEFINE Good == {n \in Nat : \E g : TextUpTo(g, n)}
<1>1. 0 \in Good
  <2> DEFINE g == [n \in 0..0 |-> <<48>>]
  <2>1. <<48>> \in Seq(Digit)
    BY DEF Digit
  <2>2. TextUpTo(g, 0)
    BY <2>1 DEF TextUpTo, WithDigit
  <2> QED
    BY <2>2
<1>2. ASSUME NEW n \in Nat, n \in Good
      PROVE  n + 1 \in Good
  <2>1. PICK g : TextUpTo(g, n)
    BY <1>2
  <2>2. g \in [0..n -> Seq(Digit)] /\ \A i \in 0..n : g[i] = WithDigit(g, i)
    BY <2>1 DEF TextUpTo
  <2> DEFINE h == [i \in 0..(n + 1) |-> IF i <= n THEN g[i] ELSE WithDigit(g, i)]
  <2>3. \A i \in 0..n : h[i] = g[i] /\ i \in 0..(n + 1)
    OBVIOUS
  <2>4. h[n + 1] = WithDigit(g, n + 1)
    OBVIOUS
  <2>5. ASSUME NEW i \in 0..(n + 1)
        PROVE  WithDigit(h, i) = WithDigit(g, i)
    <3>1. i \in Nat
      OBVIOUS
    <3>2. i >= 10 => i \div 10 \in 0..n
      <4>1. i \div 10 \in Nat /\ (i >= 10 => i \div 10 < i)
        BY ONLY <3>1, Tenth
      <4> QED
        BY ONLY <3>1, <4>1, n \in Nat, i \in 0..(n + 1)
    <3>3. ~(i < 10) => i >= 10
      BY ONLY <3>1
    <3> HIDE DEF h
    <3> QED
      BY <2>3, <3>2, <3>3 DEF WithDigit
  <2>6. ASSUME NEW i \in 0..(n + 1)
        PROVE  h[i] = WithDigit(h, i) /\ h[i] \in Seq(Digit)
    <3>1. CASE i \in 0..n
      <4> HIDE DEF h
      <4> QED
        BY <2>2, <2>3, <2>5, <3>1
    <3>2. CASE i = n + 1
      <4>1. WithDigit(g, n + 1) \in Seq(Digit)
        <5>1. n + 1 \in 0..(n + 1) /\ n + 1 \in Nat
          OBVIOUS
        <5>2. \A j \in 0..(n + 1) : j < n + 1 => g[j] \in Seq(Digit)
          BY <2>2
        <5> QED
          BY ONLY <5>1, <5>2, WithDigitType
      <4> HIDE DEF h
      <4> QED
        BY <2>4, <2>5, <3>2, <4>1
    <3> QED
      BY <3>1, <3>2
  <2>7. h = [i \in 0..(n + 1) |-> h[i]]
    OBVIOUS
  <2>8. TextUpTo(h, n + 1)
    <3> HIDE DEF h
    <3> QED
      BY <2>6, <2>7 DEF TextUpTo
  <2> QED
    BY <2>8
<1> HIDE DEF Good
<1>3. Nat \subseteq Good
  BY <1>1, <1>2, Induct
<1> QED
  BY <1>3 DEF Good

LEMMA TextUnique ==
    ASSUME NEW M \in Nat, NEW N \in Nat, NEW g, NEW h, TextUpTo(g, M),
           TextUpTo(h, N), NEW n \in Nat, n <= M, n <= N
    PROVE  g[n] = h[n]
<1> DEFINE Bad == {i \in Nat : i <= M /\ i <= N /\ g[i] # h[i]}
<1>1. SUFFICES ASSUME n \in Bad PROVE FALSE
  OBVIOUS
<1>2. PICK m \in Bad : \A i \in Bad : m <= i
  <2>1. Bad \subseteq Nat /\ Bad # {}
    BY <1>1
  <2> HIDE DEF Bad
  <2> QED
    BY <2>1, LeastExists
<1>3. m \in Nat /\ m <= M /\ m <= N /\ g[m] # h[m] /\ m \in 0..M /\ m \in 0..N
  OBVIOUS
<1>4. g[m] = WithDigit(g, m) /\ h[m] = WithDigit(h, m)
  BY <1>3 DEF TextUpTo
<1>5. m < 10 => WithDigit(g, m) = WithDigit(h, m)
  BY DEF WithDigit
<1>6. m >= 10
  BY <1>3, <1>4, <1>5
<1>. PICK d : d = m \div 10
  OBVIOUS
<1>7. d \in Nat /\ d < m
  BY <1>3, <1>6, Tenth
<1>8. g[d] = h[d]
  BY <1>2, <1>3, <1>7
<1>9. WithDigit(g, m) = WithDigit(h, m)
  BY <1>8 DEF WithDigit
<1> QED
  BY <1>3, <1>4, <1>9

\* Decimal is what its definition says of it.
LEMMA DecimalRec ==
    ASSUME NEW n \in Nat
    PROVE  Decimal[n] = WithDigit(Decimal, n)
<1> DEFINE Rec(g) == g = [i \in Nat |-> IF i < 10 THEN <<48 + i>>
                                        ELSE Append(g[i \div 10], 48 + (i % 10))]
           c == [i \in Nat |-> (CHOOSE g : TextUpTo(g, i))[i]]
<1>1. ASSUME NEW i \in Nat
      PROVE  c[i] = WithDigit(c, i)
  <2>1. PICK g : g = (CHOOSE x : TextUpTo(x, i)) /\ TextUpTo(g, i)
    BY TextExists
  <2>2. c[i] = g[i]
    BY <2>1
  <2>3. g[i] = WithDigit(g, i)
    <3>1. i \in 0..i
      OBVIOUS
    <3> QED
      BY <2>1, <3>1 DEF TextUpTo
  <2>4. i >= 10 => c[i \div 10] = g[i \div 10]
    <3>. PICK d : d = i \div 10
      OBVIOUS
    <3>1. SUFFICES ASSUME i >= 10 PROVE c[d] = g[d]
      OBVIOUS
    <3>2. d \in Nat /\ d < i
      BY <3>1, Tenth
    <3>3. PICK h : h = (CHOOSE x : TextUpTo(x, d)) /\ TextUpTo(h, d)
      BY <3>2, TextExists
    <3>4. c[d] = h[d]
      BY <3>2, <3>3
    <3>5. d <= i /\ d <= d
      BY ONLY <3>2, i \in Nat
    <3>6. h[d] = g[d]
      BY ONLY <2>1, <3>2, <3>3, <3>5, i \in Nat, TextUnique
    <3> QED
      BY <3>4, <3>6
  <2> HIDE DEF c
  <2>5. ~(i < 10) => i >= 10
    OBVIOUS
  <2>6. WithDigit(c, i) = WithDigit(g, i)
    BY <2>4, <2>5 DEF WithDigit
  <2> QED
    BY <2>2, <2>3, <2>6
<1>2. Rec(c)
  <2>1. c = [i \in Nat |-> c[i]]
    OBVIOUS
  <2> HIDE DEF c
  <2> QED
    BY <1>1, <2>1 DEF WithDigit
<1>3. Rec(Decimal)
  <2> HIDE DEF c
  <2>1. Decimal = CHOOSE g : Rec(g)
    BY DEF Decimal
  <2> QED
    BY <1>2, <2>1
<1>4. \A i \in Nat : Decimal[i] = WithDigit(Decimal, i)
  BY <1>3 DEF WithDigit
<1> QED
  BY <1>4

\* A number is written in digits only.
LEMMA DecimalType ==
    ASSUME NEW n \in Nat
    PROVE  Decimal[n] \in Seq(Digit)
<1> DEFINE Bad == {i \in Nat : Decimal[i] \notin Seq(Digit)}
<1>1. SUFFICES ASSUME n \in Bad PROVE FALSE
  OBVIOUS
<1>2. PICK m \in Bad : \A i \in Bad : m <= i
  <2>1. Bad \subseteq Nat /\ Bad # {}
    BY <1>1
  <2> HIDE DEF Bad
  <2> QED
    BY <2>1, LeastExists
<1>3. m \in Nat /\ Decimal[m] \notin Seq(Digit)
  OBVIOUS
<1>4. \A i \in 0..m : i < m => Decimal[i] \in Seq(Digit)
  BY <1>2, <1>3
<1>5. WithDigit(Decimal, m) \in Seq(Digit)
  <2>1. m \in 0..m
    BY <1>3
  <2> QED
    BY <1>3, <1>4, <2>1, WithDigitType
<1> QED
  BY <1>3, <1>5, DecimalRec

\* The characters of a line.
Text == {Newline} \cup (32..90)

LEMMA TextFacts ==
    /\ Digit \subseteq Text /\ Text \subseteq Bytes /\ 1 \notin Text
    /\ Newline \in Text /\ Comma \in Text /\ 32 \in Text /\ 45 \in Text
    /\ {65, 66, 67, 83, 84} \subseteq Text
  BY DEF Text, Digit, Bytes, Newline, Comma

LEMMA FieldsText ==
    ASSUME NEW msg \in OutputMessages
    PROVE  Fields(msg) \in Seq(Seq(Text)) /\ OutputLetter[msg.type] \in Text
<1>1. \A n \in Numbers : Decimal[n] \in Seq(Text)
  <2>1. ASSUME NEW n \in Numbers PROVE Decimal[n] \in Seq(Text)
    <3>1. n \in Nat
      BY BinaryCodecAssumption
    <3>2. Decimal[n] \in Seq(Digit)
      BY <3>1, DecimalType
    <3> QED
      BY ONLY <3>2, TextFacts, SeqMonotonic
  <2> QED
    BY <2>1
<1>2. CASE msg \in [type : {"Ack", "CancelAck"}, user_id : Numbers,
                    user_order_id : Numbers, symbol : Symbols]
  <2>1. /\ msg.type \in {"Ack", "CancelAck"}
        /\ msg.user_id \in Numbers /\ msg.user_order_id \in Numbers
    BY <1>2
  <2>2. Fields(msg) = <<Decimal[msg.user_id], Decimal[msg.user_order_id]>>
    BY ONLY <2>1 DEF Fields
  <2>3. OutputLetter[msg.type] \in {65, 67}
    BY ONLY <2>1 DEF OutputLetter
  <2> QED
    BY <1>1, <2>1, <2>2, <2>3, TextFacts
<1>3. CASE msg \in [type : {"Trade"}, symbol : Symbols, user_id_buy : Numbers,
                    user_order_id_buy : Numbers, user_id_sell : Numbers,
                    user_order_id_sell : Numbers, price : Numbers,
                    quantity : Numbers]
  <2>1. /\ msg.type = "Trade"
        /\ msg.user_id_buy \in Numbers /\ msg.user_order_id_buy \in Numbers
        /\ msg.user_id_sell \in Numbers /\ msg.user_order_id_sell \in Numbers
        /\ msg.price \in Numbers /\ msg.quantity \in Numbers
    BY <1>3
  <2>2. Fields(msg) =
          <<Decimal[msg.user_id_buy], Decimal[msg.user_order_id_buy],
            Decimal[msg.user_id_sell], Decimal[msg.user_order_id_sell],
            Decimal[msg.price], Decimal[msg.quantity]>>
    BY ONLY <2>1 DEF Fields
  <2>3. OutputLetter[msg.type] = 84
    BY ONLY <2>1 DEF OutputLetter
  <2>4. /\ Decimal[msg.user_id_buy] \in Seq(Text)
        /\ Decimal[msg.user_order_id_buy] \in Seq(Text)
        /\ Decimal[msg.user_id_sell] \in Seq(Text)
        /\ Decimal[msg.user_order_id_sell] \in Seq(Text)
        /\ Decimal[msg.price] \in Seq(Text) /\ Decimal[msg.quantity] \in Seq(Text)
    BY ONLY <1>1, <2>1
  <2>5. Fields(msg) \in Seq(Seq(Text))
    BY ONLY <2>2, <2>4
  <2> QED
    BY <2>3, <2>5, TextFacts
<1>4. CASE msg \in [type : {"TopOfBook"}, symbol : Symbols, side : {"Buy", "Sell"},
                    eliminated : BOOLEAN, price : Numbers,
                    total_quantity : Numbers]
  <2>1. /\ msg.type = "TopOfBook" /\ msg.side \in {"Buy", "Sell"}
        /\ msg.price \in Numbers /\ msg.total_quantity \in Numbers
    BY <1>4
  <2>. PICK d : d = SideLetter[msg.side]
    OBVIOUS
  <2>. PICK p : p = Decimal[msg.price]
    OBVIOUS
  <2>. PICK q : q = Decimal[msg.total_quantity]
    OBVIOUS
  <2>2. Fields(msg) = <<<<d>>>> \o (IF msg.eliminated THEN <<Dash, Dash>> ELSE <<p, q>>)
    BY <2>1 DEF Fields
  <2>3. OutputLetter[msg.type] = 66
    BY ONLY <2>1 DEF OutputLetter
  <2>4. d \in Text
    <3>1. d \in {66, 83}
      BY <2>1 DEF SideLetter, Letter
    <3> QED
      BY <3>1, TextFacts
  <2>5. p \in Seq(Text) /\ q \in Seq(Text)
    BY <1>1, <2>1
  <2>6. <<d>> \in Seq(Text) /\ Dash \in Seq(Text)
    BY ONLY <2>4, TextFacts DEF Dash
  <2>7. /\ <<<<d>>>> \in Seq(Seq(Text)) /\ <<Dash, Dash>> \in Seq(Seq(Text))
        /\ <<p, q>> \in Seq(Seq(Text))
    BY ONLY <2>5, <2>6
  <2>8. Fields(msg) \in Seq(Seq(Text))
    <3>. PICK r : r = (IF msg.eliminated THEN <<Dash, Dash>> ELSE <<p, q>>)
      OBVIOUS
    <3>1. r \in Seq(Seq(Text))
      BY <2>7
    <3>2. <<<<d>>>> \o r \in Seq(Seq(Text))
      BY ONLY <2>7, <3>1, ConcatProperties
    <3> QED
      BY <2>2, <3>2
  <2> QED
    BY <2>3, <2>8, TextFacts
<1> QED
  BY <1>2, <1>3, <1>4 DEF OutputMessages

-----------------------------------------------------------------------------
(* Sequences put together.                                                 *)

\* The parts that v gives the elements of s, and all of them in a row.
Parts(v, s) == [n \in DOMAIN s |-> v[s[n]]]
AllParts(v, s) == FlattenSeq(Parts(v, s))
GivesParts(v, U, S) == v \in [U -> Seq(S)]
ArePartsOf(p, v, s, S) ==
    /\ p \in Seq(Seq(S)) /\ Len(p) = Len(s)
    /\ \A n \in 1..Len(s) : p[n] = v[s[n]]

LEMMA PartsTyped ==
    ASSUME NEW U, NEW S, NEW v, NEW s, GivesParts(v, U, S), s \in Seq(U)
    PROVE  ArePartsOf(Parts(v, s), v, s, S)
<1>. PICK k \in Nat : k = Len(s) /\ DOMAIN s = 1..k
  OBVIOUS
<1>1. \A n \in 1..k : s[n] \in U /\ v[s[n]] \in Seq(S)
  BY DEF GivesParts
<1>2. Parts(v, s) = [n \in 1..k |-> v[s[n]]]
  BY DEF Parts
<1>3. [n \in 1..k |-> v[s[n]]] \in [1..k -> Seq(S)]
  BY <1>1
<1> HIDE DEF Parts
<1>. PICK p : p = Parts(v, s)
  OBVIOUS
<1>4. p \in [1..k -> Seq(S)] /\ \A n \in 1..k : p[n] = v[s[n]]
  BY <1>2, <1>3
<1>5. p \in Seq(Seq(S)) /\ Len(p) = k
  BY ONLY <1>4, k \in Nat
<1> QED
  BY <1>4, <1>5 DEF ArePartsOf

\* One element more at the end.
LEMMA PartsAppend ==
    ASSUME NEW U, NEW S, NEW v, GivesParts(v, U, S), NEW s \in Seq(U), NEW x \in U
    PROVE  /\ AllParts(v, s) \in Seq(S)
           /\ AllParts(v, Append(s, x)) = AllParts(v, s) \o v[x]
<1>. PICK t : t = Append(s, x)
  OBVIOUS
<1>1. t \in Seq(U) /\ Len(t) = Len(s) + 1 /\ t[Len(t)] = x
      /\ \A n \in 1..Len(s) : t[n] = s[n]
  BY AppendProperties
<1>. PICK p, q : p = Parts(v, s) /\ q = Parts(v, t)
  OBVIOUS
<1>2. p \in Seq(Seq(S)) /\ Len(p) = Len(s) /\ \A n \in 1..Len(s) : p[n] = v[s[n]]
  <2>1. ArePartsOf(p, v, s, S)
    BY PartsTyped
  <2> QED
    BY <2>1 DEF ArePartsOf
<1>3. q \in Seq(Seq(S)) /\ Len(q) = Len(t) /\ \A n \in 1..Len(t) : q[n] = v[t[n]]
  <2>1. t \in Seq(U)
    BY <1>1
  <2>2. ArePartsOf(q, v, t, S)
    BY <2>1, PartsTyped
  <2> QED
    BY <2>2 DEF ArePartsOf
<1>4. v[x] \in Seq(S)
  BY DEF GivesParts
<1>5. q = Append(p, v[x])
  <2>. PICK k \in Nat : k = Len(s) /\ k = Len(p)
    BY <1>2
  <2>1. Len(q) = k + 1 /\ Len(t) = k + 1
    BY <1>1, <1>3
  <2>2. ASSUME NEW n \in 1..k
        PROVE  q[n] = p[n]
    <3>1. n \in 1..Len(t) /\ n \in 1..Len(s)
      BY <2>1
    <3>2. t[n] = s[n] /\ q[n] = v[t[n]] /\ p[n] = v[s[n]]
      BY <1>1, <1>2, <1>3, <3>1
    <3> QED
      BY ONLY <3>2
  <2>3. q[k + 1] = v[x]
    <3>1. k + 1 \in 1..Len(t)
      BY <2>1
    <3>2. t[k + 1] = x
      BY <1>1, <2>1
    <3>3. q[k + 1] = v[t[k + 1]]
      BY ONLY <1>3, <3>1
    <3> QED
      BY ONLY <3>2, <3>3
  <2>. PICK d : d = v[x]
    OBVIOUS
  <2> QED
    BY ONLY <1>2, <1>3, <1>4, <2>1, <2>2, <2>3, k = Len(p), k \in Nat, d = v[x]
<1>6. FlattenSeq(p) \in Seq(S) /\ FlattenSeq(q) = FlattenSeq(p) \o v[x]
  BY <1>2, <1>4, <1>5, FlattenAppend
<1> QED
  BY <1>6 DEF AllParts

\* The first element.
LEMMA PartsHead ==
    ASSUME NEW U, NEW S, NEW v, GivesParts(v, U, S), NEW s \in Seq(U), s # <<>>
    PROVE  /\ Head(s) \in U /\ Tail(s) \in Seq(U) /\ v[Head(s)] \in Seq(S)
           /\ AllParts(v, Tail(s)) \in Seq(S)
           /\ AllParts(v, s) = v[Head(s)] \o AllParts(v, Tail(s))
<1>. PICK t : t = Tail(s)
  OBVIOUS
<1>1. t \in Seq(U) /\ Len(s) = Len(t) + 1 /\ Head(s) = s[1] /\ s[1] \in U
      /\ \A n \in 1..Len(t) : t[n] = s[n + 1]
  BY HeadTailProperties
<1>. PICK p, q : p = Parts(v, s) /\ q = Parts(v, t)
  OBVIOUS
<1>2. p \in Seq(Seq(S)) /\ Len(p) = Len(s) /\ \A n \in 1..Len(s) : p[n] = v[s[n]]
  <2>1. ArePartsOf(p, v, s, S)
    BY PartsTyped
  <2> QED
    BY <2>1 DEF ArePartsOf
<1>3. q \in Seq(Seq(S)) /\ Len(q) = Len(t) /\ \A n \in 1..Len(t) : q[n] = v[t[n]]
  <2>1. t \in Seq(U)
    BY <1>1
  <2>2. ArePartsOf(q, v, t, S)
    BY <2>1, PartsTyped
  <2> QED
    BY <2>2 DEF ArePartsOf
<1>4. v[s[1]] \in Seq(S)
  BY <1>1 DEF GivesParts
<1>5. /\ Len(p) = Len(q) + 1 /\ p[1] = v[s[1]]
      /\ \A n \in 1..Len(q) : p[n + 1] = q[n]
  <2>1. Len(t) \in Nat /\ Len(s) \in Nat
    BY <1>1
  <2>2. \A n \in 1..Len(t) : n + 1 \in 1..Len(s)
    BY <1>1, <2>1
  <2>3. 1 \in 1..Len(s)
    BY <1>1, <2>1
  <2>4. Len(p) = Len(q) + 1 /\ p[1] = v[s[1]]
    BY <1>1, <1>2, <1>3, <2>3
  <2>5. \A n \in 1..Len(t) : p[n + 1] = v[s[n + 1]]
    BY <1>2, <2>2
  <2>6. ASSUME NEW n \in 1..Len(q)
        PROVE  p[n + 1] = q[n]
    <3>1. n \in 1..Len(t)
      BY <1>3
    <3>2. t[n] = s[n + 1] /\ q[n] = v[t[n]] /\ p[n + 1] = v[s[n + 1]]
      BY <1>1, <1>3, <2>5, <3>1
    <3> QED
      BY ONLY <3>2
  <2> QED
    BY <2>4, <2>6
<1>6. FlattenSeq(p) = v[s[1]] \o FlattenSeq(q)
  <2>1. p \in Seq(Seq(S)) /\ q \in Seq(Seq(S))
    BY ONLY <1>2, <1>3
  <2> QED
    BY ONLY <1>4, <1>5, <2>1, FlattenCons
<1>7. FlattenSeq(q) \in Seq(S)
  BY ONLY <1>3, <1>4, FlattenAppend
<1> QED
  BY <1>1, <1>4, <1>6, <1>7 DEF AllParts

LEMMA NoParts ==
    ASSUME NEW v
    PROVE  AllParts(v, <<>>) = <<>>
<1>1. Parts(v, <<>>) = <<>>
  BY DEF Parts
<1>2. FlattenSeq(<<>>) = <<>>
  <2>1. <<>> \in Seq(Seq({})) /\ Len(<<>>) = 0
    OBVIOUS
  <2>2. PICK f : Flattens(f, {}, <<>>)
    BY <2>1, FlattenFacts
  <2> QED
    BY <2>1, <2>2 DEF Flattens
<1> QED
  BY <1>1, <1>2 DEF AllParts

LEMMA ConcatLength ==
    ASSUME NEW S, NEW x \in Seq(S), NEW y \in Seq(S)
    PROVE  Len(x \o y) = Len(x) + Len(y) /\ Len(x) \in Nat /\ Len(y) \in Nat
<1>1. Len(x \o y) = Len(x) + Len(y)
  BY HasConcat
<1>2. Len(x) \in Nat /\ Len(y) \in Nat
  OBVIOUS
<1> QED
  BY <1>1, <1>2

-----------------------------------------------------------------------------
(* What is formatted.                                                      *)

\* Different numbers are written differently.
LEMMA DecimalLength ==
    ASSUME NEW n \in Nat
    PROVE  Len(Decimal[n]) \in Nat /\ Len(Decimal[n]) >= 1
<1>1. Decimal[n] = WithDigit(Decimal, n)
  BY DecimalRec
<1>2. CASE n < 10
  <2>1. Decimal[n] = <<48 + n>>
    BY <1>1, <1>2 DEF WithDigit
  <2> QED
    BY <2>1
<1>3. CASE ~(n < 10)
  <2>1. n \div 10 \in Nat
    BY Tenth
  <2>2. Decimal[n \div 10] \in Seq(Digit) /\ Decimal[n] \in Seq(Digit)
    BY <2>1, DecimalType
  <2>3. Decimal[n] = Append(Decimal[n \div 10], 48 + (n % 10))
    BY <1>1, <1>3 DEF WithDigit
  <2>. PICK front : front = Decimal[n \div 10]
    OBVIOUS
  <2>. PICK text : text = Decimal[n]
    OBVIOUS
  <2>4. 48 + (n % 10) \in Digit
    BY Tenth
  <2>5. Len(text) = Len(front) + 1 /\ Len(front) \in Nat
    BY <2>2, <2>3, <2>4, AppendProperties
  <2>6. Len(text) \in Nat /\ Len(text) >= 1
    BY ONLY <2>5
  <2> QED
    BY <2>6
<1> QED
  BY <1>2, <1>3

LEMMA DecimalInjective ==
    ASSUME NEW n \in Nat, NEW k \in Nat, Decimal[n] = Decimal[k]
    PROVE  n = k
<1> DEFINE Bad == {i \in Nat : \E j \in Nat : i # j /\ Decimal[i] = Decimal[j]}
<1>1. SUFFICES ASSUME n \in Bad PROVE FALSE
  OBVIOUS
<1>2. PICK i \in Bad : \A j \in Bad : i <= j
  <2>1. Bad \subseteq Nat /\ Bad # {}
    BY <1>1
  <2> HIDE DEF Bad
  <2> QED
    BY <2>1, LeastExists
<1>3. i \in Nat
  OBVIOUS
<1>4. PICK j \in Nat : i # j /\ Decimal[i] = Decimal[j]
  OBVIOUS
<1>5. \A l \in Nat : /\ l < 10 => Decimal[l] = <<48 + l>> /\ Len(Decimal[l]) = 1
                     /\ ~(l < 10) => /\ l \div 10 \in Nat /\ l \div 10 < l
                                     /\ l = 10 * (l \div 10) + (l % 10)
                                     /\ Decimal[l] = Append(Decimal[l \div 10], 48 + (l % 10))
                                     /\ Decimal[l \div 10] \in Seq(Digit)
                                     /\ 48 + (l % 10) \in Digit
                                     /\ Len(Decimal[l]) >= 2
  <2>1. ASSUME NEW l \in Nat
        PROVE  Decimal[l] = WithDigit(Decimal, l)
    BY DecimalRec
  <2>2. ASSUME NEW l \in Nat, l < 10
        PROVE  Decimal[l] = <<48 + l>> /\ Len(Decimal[l]) = 1
    <3>1. Decimal[l] = <<48 + l>>
      BY <2>1, <2>2 DEF WithDigit
    <3> QED
      BY <3>1
  <2>3. ASSUME NEW l \in Nat, ~(l < 10)
        PROVE  /\ l \div 10 \in Nat /\ l \div 10 < l
               /\ l = 10 * (l \div 10) + (l % 10)
               /\ Decimal[l] = Append(Decimal[l \div 10], 48 + (l % 10))
               /\ Decimal[l \div 10] \in Seq(Digit)
               /\ 48 + (l % 10) \in Digit
               /\ Len(Decimal[l]) >= 2
    <3>1. l \div 10 \in Nat /\ l \div 10 < l /\ 48 + (l % 10) \in Digit
      BY <2>3, Tenth
    <3>2. l = 10 * (l \div 10) + (l % 10)
      OBVIOUS
    <3>3. Decimal[l] = Append(Decimal[l \div 10], 48 + (l % 10))
      BY <2>1, <2>3 DEF WithDigit
    <3>4. Decimal[l \div 10] \in Seq(Digit)
      BY <3>1, DecimalType
    <3>. PICK front : front = Decimal[l \div 10]
      OBVIOUS
    <3>5. Len(front) \in Nat /\ Len(front) >= 1
      BY <3>1, DecimalLength
    <3>6. Len(Append(front, 48 + (l % 10))) = Len(front) + 1
      BY <3>1, <3>4, AppendProperties
    <3>7. Len(Append(front, 48 + (l % 10))) >= 2
      BY ONLY <3>5, <3>6
    <3> QED
      BY <3>1, <3>2, <3>3, <3>4, <3>7
  <2> QED
    BY <2>2, <2>3
<1>6. CASE i < 10
  <2>1. j < 10
    <3>1. Len(Decimal[j]) = 1
      BY <1>3, <1>4, <1>5, <1>6
    <3>2. SUFFICES ASSUME ~(j < 10) PROVE FALSE
      OBVIOUS
    <3>3. Len(Decimal[j]) >= 2
      BY <1>5, <3>2
    <3> QED
      BY ONLY <3>1, <3>3
  <2>2. <<48 + i>> = <<48 + j>>
    BY <1>3, <1>4, <1>5, <1>6, <2>1
  <2>3. 48 + i = 48 + j
    BY <2>2
  <2> QED
    BY ONLY <1>3, <1>4, <2>3, j \in Nat
<1>7. CASE ~(i < 10)
  <2>1. ~(j < 10)
    <3>1. Len(Decimal[j]) >= 2
      BY <1>3, <1>4, <1>5, <1>7
    <3>2. SUFFICES ASSUME j < 10 PROVE FALSE
      OBVIOUS
    <3>3. Len(Decimal[j]) = 1
      BY <1>5, <3>2
    <3> QED
      BY ONLY <3>1, <3>3
  <2>. PICK a, b, c, d : /\ a = i \div 10 /\ b = j \div 10
                         /\ c = i % 10 /\ d = j % 10
    OBVIOUS
  <2>2. /\ a \in Nat /\ a < i /\ i = 10 * a + c /\ 48 + c \in Digit
        /\ Decimal[i] = Append(Decimal[a], 48 + c) /\ Decimal[a] \in Seq(Digit)
    BY <1>3, <1>5, <1>7
  <2>3. /\ b \in Nat /\ j = 10 * b + d /\ 48 + d \in Digit
        /\ Decimal[j] = Append(Decimal[b], 48 + d) /\ Decimal[b] \in Seq(Digit)
    BY <1>5, <2>1
  <2>4. Decimal[a] = Decimal[b] /\ 48 + c = 48 + d
    <3>. PICK s, t : s = Decimal[a] /\ t = Decimal[b]
      OBVIOUS
    <3>1. Append(s, 48 + c) = Append(t, 48 + d) /\ s \in Seq(Digit) /\ t \in Seq(Digit)
      BY <1>4, <2>2, <2>3
    <3>2. s = t /\ 48 + c = 48 + d
      BY ONLY <2>2, <2>3, <3>1, AppendInjective, 48 + c \in Digit
    <3> QED
      BY <3>2
  <2>5. a = b
    <3>1. SUFFICES ASSUME a # b PROVE FALSE
      OBVIOUS
    <3>2. a \in Bad
      BY <2>2, <2>3, <2>4, <3>1
    <3> QED
      BY <1>2, <1>3, <2>2, <3>2
  <2>6. c = d
    <3>1. c \in Int /\ d \in Int
      BY <1>3
    <3> QED
      BY ONLY <2>4, <3>1
  <2> QED
    BY <1>4, <2>2, <2>3, <2>5, <2>6
<1> QED
  BY <1>6, <1>7

-----------------------------------------------------------------------------
(* Lines of fields.                                                        *)

\* z is x, a comma, a blank and y.
Parted(z, x, y) ==
    /\ z \in Seq(Bytes) /\ x \in Seq(Bytes) /\ y \in Seq(Bytes)
    /\ Len(z) = Len(x) + 2 + Len(y)
    /\ z[Len(x) + 1] = Comma /\ z[Len(x) + 2] = 32
    /\ \A i \in 1..Len(x) : z[i] = x[i]
    /\ \A i \in 1..Len(y) : z[Len(x) + 2 + i] = y[i]

LEMMA PartedLength ==
    ASSUME NEW z, NEW x, NEW y, Parted(z, x, y)
    PROVE  Len(x) \in Nat /\ Len(y) \in Nat /\ Len(z) = Len(x) + 2 + Len(y)
<1>1. x \in Seq(Bytes) /\ y \in Seq(Bytes)
  BY DEF Parted
<1> QED
  BY <1>1, LenProperties DEF Parted

NoComma(f) == f \in Seq(Bytes) /\ \A i \in 1..Len(f) : f[i] # Comma

LEMMA PartedText ==
    ASSUME NEW x \in Seq(Bytes), NEW y \in Seq(Bytes)
    PROVE  Parted(x \o (<<Comma, 32>> \o y), x, y)
<1> DEFINE w == <<Comma, 32>> \o y
<1>1. /\ w \in Seq(Bytes) /\ Len(w) = 2 + Len(y) /\ w[1] = Comma /\ w[2] = 32
      /\ \A i \in 1..Len(y) : w[2 + i] = y[i]
  <2>1. <<Comma, 32>> \in Seq(Bytes) /\ Len(<<Comma, 32>>) = 2
        /\ <<Comma, 32>>[1] = Comma /\ <<Comma, 32>>[2] = 32
    BY DEF Comma, Bytes
  <2>. PICK c : c = <<Comma, 32>>
    OBVIOUS
  <2>2. /\ c \o y \in Seq(Bytes) /\ Len(c \o y) = 2 + Len(y)
        /\ (c \o y)[1] = Comma /\ (c \o y)[2] = 32
        /\ \A i \in 1..Len(y) : (c \o y)[2 + i] = y[i]
    BY <2>1
  <2> QED
    BY <2>2
<1> HIDE DEF w
<1>2. /\ Len(x) \in Nat /\ Len(y) \in Nat /\ Len(w) \in Nat
      /\ x \o w \in Seq(Bytes) /\ Len(x \o w) = Len(x) + Len(w)
      /\ \A i \in 1..Len(x) : (x \o w)[i] = x[i]
      /\ \A i \in 1..Len(w) : (x \o w)[Len(x) + i] = w[i]
  BY <1>1, ConcatLength
<1>3. /\ Len(x \o w) = Len(x) + 2 + Len(y)
      /\ (x \o w)[Len(x) + 1] = Comma /\ (x \o w)[Len(x) + 2] = 32
      /\ \A i \in 1..Len(y) : (x \o w)[Len(x) + 2 + i] = y[i]
  <2>1. Len(x \o w) = Len(x) + 2 + Len(y) /\ 1 \in 1..Len(w) /\ 2 \in 1..Len(w)
    BY ONLY <1>1, <1>2
  <2>2. ASSUME NEW i \in 1..Len(y) PROVE (x \o w)[Len(x) + 2 + i] = y[i]
    <3>1. 2 + i \in 1..Len(w) /\ Len(x) + (2 + i) = Len(x) + 2 + i
      BY <1>1
    <3>2. (x \o w)[Len(x) + (2 + i)] = w[2 + i]
      BY <1>2, <3>1
    <3> QED
      BY <1>1, <3>1, <3>2
  <2> QED
    BY <1>1, <1>2, <2>1, <2>2
<1> QED
  BY <1>2, <1>3 DEF Parted, w

\* The text in front of the last comma.
LEMMA CutLast ==
    ASSUME NEW z, NEW x, NEW f, NEW y, NEW g,
           Parted(z, x, f), Parted(z, y, g), NoComma(f), NoComma(g)
    PROVE  x = y /\ f = g
<1>1. ASSUME NEW a, NEW b, NEW h, NEW k, Parted(z, a, h), Parted(z, b, k),
             NoComma(k)
      PROVE  Len(a) <= Len(b)
  <2>1. SUFFICES ASSUME Len(a) > Len(b) PROVE FALSE
    BY <1>1 DEF Parted
  <2>2. Len(a) \in Nat /\ Len(b) \in Nat /\ Len(k) \in Nat /\ Len(h) \in Nat
        /\ Len(b) + 2 + Len(k) = Len(a) + 2 + Len(h)
    BY <1>1, PartedLength
  <2>3. CASE Len(a) = Len(b) + 1
    <3>1. z[Len(b) + 2] = 32 /\ z[Len(b) + 2] = Comma
      BY <1>1, <2>2, <2>3 DEF Parted
    <3> QED
      BY <3>1 DEF Comma
  <2>4. CASE Len(a) > Len(b) + 1
    <3>1. /\ Len(a) - Len(b) - 1 \in 1..Len(k)
          /\ Len(b) + 2 + (Len(a) - Len(b) - 1) = Len(a) + 1
      BY <2>2, <2>4
    <3>2. z[Len(a) + 1] = k[Len(a) - Len(b) - 1]
      BY <1>1, <3>1 DEF Parted
    <3>3. z[Len(a) + 1] = Comma
      BY <1>1 DEF Parted
    <3> QED
      BY <1>1, <3>1, <3>2, <3>3 DEF NoComma
  <2> QED
    BY <2>1, <2>2, <2>3, <2>4
<1>2. Len(x) <= Len(y) /\ Len(y) <= Len(x)
  BY <1>1
<1>3. Len(x) \in Nat /\ Len(y) \in Nat /\ Len(f) \in Nat /\ Len(g) \in Nat
      /\ Len(x) + 2 + Len(f) = Len(y) + 2 + Len(g)
      /\ x \in Seq(Bytes) /\ y \in Seq(Bytes) /\ f \in Seq(Bytes) /\ g \in Seq(Bytes)
  BY DEF Parted
<1>4. Len(x) = Len(y) /\ Len(f) = Len(g)
  BY ONLY <1>2, <1>3
<1>5. \A i \in 1..Len(x) : x[i] = y[i]
  BY <1>4 DEF Parted
<1>6. \A i \in 1..Len(f) : f[i] = g[i]
  BY <1>4 DEF Parted
<1> QED
  BY ONLY <1>3, <1>4, <1>5, <1>6, SeqEqual

\* The text behind the first comma.
LEMMA CutFirst ==
    ASSUME NEW z, NEW x, NEW f, NEW y, NEW g,
           Parted(z, f, x), Parted(z, g, y), NoComma(f), NoComma(g)
    PROVE  x = y /\ f = g
<1>1. ASSUME NEW a, NEW b, NEW h, NEW k, Parted(z, a, h), Parted(z, b, k),
             NoComma(a)
      PROVE  Len(a) <= Len(b)
  <2>1. SUFFICES ASSUME Len(a) > Len(b) PROVE FALSE
    BY <1>1 DEF Parted
  <2>2. Len(a) \in Nat /\ Len(b) \in Nat
    BY <1>1, PartedLength
  <2>3. Len(b) + 1 \in 1..Len(a)
    BY <2>1, <2>2
  <2>4. z[Len(b) + 1] = a[Len(b) + 1] /\ z[Len(b) + 1] = Comma
    BY <1>1, <2>3 DEF Parted
  <2> QED
    BY <1>1, <2>3, <2>4 DEF NoComma
<1>2. Len(f) <= Len(g) /\ Len(g) <= Len(f)
  BY <1>1
<1>3. Len(x) \in Nat /\ Len(y) \in Nat /\ Len(f) \in Nat /\ Len(g) \in Nat
      /\ Len(f) + 2 + Len(x) = Len(g) + 2 + Len(y)
      /\ x \in Seq(Bytes) /\ y \in Seq(Bytes) /\ f \in Seq(Bytes) /\ g \in Seq(Bytes)
  BY DEF Parted
<1>4. Len(x) = Len(y) /\ Len(f) = Len(g)
  BY ONLY <1>2, <1>3
<1>5. \A i \in 1..Len(x) : x[i] = y[i]
  BY <1>4 DEF Parted
<1>6. \A i \in 1..Len(f) : f[i] = g[i]
  BY <1>4 DEF Parted
<1> QED
  BY ONLY <1>3, <1>4, <1>5, <1>6, SeqEqual

CleanFields == {f \in Seq(Bytes) : NoComma(f)}

Column == [f \in Seq(Bytes) |-> <<Comma, 32>> \o f]

Columns(fields) == AllParts(Column, fields)

LEMMA ColumnFacts ==
    /\ GivesParts(Column, Seq(Bytes), Bytes)
    /\ \A f \in Seq(Bytes) : Column[f] = <<Comma, 32>> \o f /\ Column[f] \in Seq(Bytes)
    /\ \A fields \in Seq(CleanFields) : fields \in Seq(Seq(Bytes))
<1>1. <<Comma, 32>> \in Seq(Bytes)
  BY DEF Comma, Bytes
<1>2. \A f \in Seq(Bytes) : <<Comma, 32>> \o f \in Seq(Bytes)
  BY <1>1
<1>3. CleanFields \subseteq Seq(Bytes)
  BY DEF CleanFields
<1> QED
  BY <1>2, <1>3, SeqMonotonic DEF Column, GivesParts

LEMMA ColumnsType ==
    ASSUME NEW fields \in Seq(Seq(Bytes))
    PROVE  /\ Columns(fields) \in Seq(Bytes)
           /\ FlattenSeq([n \in DOMAIN fields |-> <<Comma, 32>> \o fields[n]])
                = Columns(fields)
<1>1. Columns(fields) \in Seq(Bytes)
  <2>1. <<>> \in Seq(Bytes)
    OBVIOUS
  <2> QED
    BY <2>1, ColumnFacts, PartsAppend DEF Columns
<1>2. \A n \in DOMAIN fields : Column[fields[n]] = <<Comma, 32>> \o fields[n]
  BY ColumnFacts
<1>3. Parts(Column, fields) = [n \in DOMAIN fields |-> <<Comma, 32>> \o fields[n]]
  BY <1>2 DEF Parts
<1> QED
  BY <1>1, <1>3 DEF Columns, AllParts

\* x and the fields F make the text that y and the fields G make.
SameText(x, F, y, G) ==
    /\ x \in Seq(Bytes) /\ y \in Seq(Bytes)
    /\ F \in Seq(CleanFields) /\ G \in Seq(CleanFields) /\ Len(F) = Len(G)
    /\ x \o Columns(F) = y \o Columns(G)

LEMMA LastColumn ==
    ASSUME NEW x \in Seq(Bytes), NEW F \in Seq(CleanFields), NEW f \in CleanFields
    PROVE  /\ x \o Columns(F) \in Seq(Bytes)
           /\ Parted(x \o Columns(Append(F, f)), x \o Columns(F), f)
<1>1. f \in Seq(Bytes) /\ F \in Seq(Seq(Bytes))
  BY ColumnFacts DEF CleanFields
<1>2. Columns(Append(F, f)) = Columns(F) \o Column[f]
  BY <1>1, ColumnFacts, PartsAppend DEF Columns
<1>3. Columns(F) \in Seq(Bytes) /\ Column[f] \in Seq(Bytes)
      /\ Column[f] = <<Comma, 32>> \o f
  BY <1>1, ColumnFacts, ColumnsType
<1>4. (x \o Columns(F)) \o Column[f] = x \o (Columns(F) \o Column[f])
      /\ x \o Columns(F) \in Seq(Bytes)
  <2>1. Associates(x, Columns(F), Column[f]) /\ x \o Columns(F) \in Seq(Bytes)
    BY ONLY <1>3, x \in Seq(Bytes), ConcatAssociates
  <2> QED
    BY ONLY <2>1 DEF Associates
<1>5. Parted((x \o Columns(F)) \o (<<Comma, 32>> \o f), x \o Columns(F), f)
  BY ONLY <1>1, <1>4, PartedText
<1>6. x \o Columns(Append(F, f)) = (x \o Columns(F)) \o (<<Comma, 32>> \o f)
  BY ONLY <1>2, <1>3, <1>4
<1> QED
  BY ONLY <1>4, <1>5, <1>6

\* As many fields that make the same text are the same fields.
LEMMA SameColumns ==
    ASSUME NEW x, NEW F, NEW y, NEW G, SameText(x, F, y, G)
    PROVE  x = y /\ F = G
<1> DEFINE S == {n \in Nat : \A a, A, b, B : SameText(a, A, b, B) /\ Len(A) = n =>
                                               a = b /\ A = B}
<1>1. 0 \in S
  <2>1. ASSUME NEW a, NEW A, NEW b, NEW B, SameText(a, A, b, B), Len(A) = 0
        PROVE  a = b /\ A = B
    <3>1. A = <<>> /\ B = <<>>
      BY <2>1, EmptySeq DEF SameText
    <3>2. Columns(<<>>) = <<>>
      BY NoParts DEF Columns
    <3>3. a \o <<>> = a /\ b \o <<>> = b
      BY <2>1 DEF SameText
    <3>4. a \o Columns(A) = b \o Columns(B)
      BY <2>1 DEF SameText
    <3> QED
      BY ONLY <3>1, <3>2, <3>3, <3>4
  <2> QED
    BY <2>1
<1>2. ASSUME NEW n \in Nat, n \in S
      PROVE  n + 1 \in S
  <2>1. ASSUME NEW a, NEW A, NEW b, NEW B, SameText(a, A, b, B), Len(A) = n + 1
        PROVE  a = b /\ A = B
    <3>1. /\ a \in Seq(Bytes) /\ b \in Seq(Bytes)
          /\ A \in Seq(CleanFields) /\ B \in Seq(CleanFields)
          /\ A # <<>> /\ B # <<>> /\ a \o Columns(A) = b \o Columns(B)
          /\ Len(B) = n + 1
      <4>1. /\ a \in Seq(Bytes) /\ b \in Seq(Bytes)
            /\ A \in Seq(CleanFields) /\ B \in Seq(CleanFields)
            /\ a \o Columns(A) = b \o Columns(B)
            /\ Len(A) = n + 1 /\ Len(B) = n + 1
        BY <2>1 DEF SameText
      <4>2. Len(A) # 0 /\ Len(B) # 0
        BY ONLY <4>1, n \in Nat
      <4>3. Len(<<>>) = 0
        OBVIOUS
      <4> QED
        BY ONLY <4>1, <4>2, <4>3
    <3>2. PICK C \in Seq(CleanFields), f \in CleanFields : A = Append(C, f)
      BY <3>1, SequenceEmptyOrAppend
    <3>3. PICK D \in Seq(CleanFields), g \in CleanFields : B = Append(D, g)
      BY <3>1, SequenceEmptyOrAppend
    <3>4. /\ Parted(a \o Columns(A), a \o Columns(C), f)
          /\ Parted(b \o Columns(B), b \o Columns(D), g)
      BY <3>1, <3>2, <3>3, LastColumn
    <3>5. NoComma(f) /\ NoComma(g)
      BY DEF CleanFields
    <3>6. a \o Columns(C) = b \o Columns(D) /\ f = g
      BY ONLY <3>1, <3>4, <3>5, CutLast
    <3>7. Len(C) = n /\ Len(D) = n
      BY ONLY <2>1, <3>1, <3>2, <3>3, n \in Nat, AppendProperties, LenProperties
    <3>8. SameText(a, C, b, D)
      BY <3>1, <3>6, <3>7 DEF SameText
    <3>9. a = b /\ C = D
      BY <1>2, <3>7, <3>8
    <3> QED
      BY ONLY <3>2, <3>3, <3>6, <3>9
  <2> QED
    BY <2>1
<1> HIDE DEF S
<1>3. Nat \subseteq S
  BY <1>1, <1>2, Induct
<1>4. Len(F) \in S
  BY <1>3 DEF SameText
<1> QED
  BY <1>4 DEF S

Acks == [type : {"Ack", "CancelAck"}, user_id : Numbers, user_order_id : Numbers,
         symbol : Symbols]
Trades == [type : {"Trade"}, symbol : Symbols, user_id_buy : Numbers,
           user_order_id_buy : Numbers, user_id_sell : Numbers,
           user_order_id_sell : Numbers, price : Numbers, quantity : Numbers]
Tops == [type : {"TopOfBook"}, symbol : Symbols, side : {"Buy", "Sell"},
         eliminated : BOOLEAN, price : Numbers, total_quantity : Numbers]

LEMMA OutputKinds ==
    /\ OutputMessages = (Acks \cup Trades) \cup Tops
    /\ \A msg \in Acks : msg.type \in {"Ack", "CancelAck"}
    /\ \A msg \in Trades : msg.type = "Trade"
    /\ \A msg \in Tops : msg.type = "TopOfBook"
    /\ \A msg \in OutputMessages : msg.symbol \in Seq(Bytes) /\ msg.symbol \in Symbols
<1>1. Symbols \subseteq Seq(Bytes)
  BY BinaryCodecAssumption
<1>2. OutputMessages = (Acks \cup Trades) \cup Tops
  BY DEF OutputMessages, Acks, Trades, Tops
<1>3. \A msg \in Acks : msg.type \in {"Ack", "CancelAck"} /\ msg.symbol \in Symbols
  BY DEF Acks
<1>4. \A msg \in Trades : msg.type = "Trade" /\ msg.symbol \in Symbols
  BY DEF Trades
<1>5. \A msg \in Tops : msg.type = "TopOfBook" /\ msg.symbol \in Symbols
  BY DEF Tops
<1> QED
  BY <1>1, <1>2, <1>3, <1>4, <1>5

\* What a number, a side or a dash is written as holds no comma.
LEMMA CleanNumber ==
    ASSUME NEW n \in Numbers
    PROVE  Decimal[n] \in CleanFields
<1>1. n \in Nat
  BY BinaryCodecAssumption
<1>2. Decimal[n] \in Seq(Digit)
  BY <1>1, DecimalType
<1>. PICK text : text = Decimal[n]
  OBVIOUS
<1>3. \A d \in Digit : d \in Bytes /\ d # Comma
  BY DEF Digit, Bytes, Comma
<1>4. text \in Seq(Bytes)
  <2>1. Digit \subseteq Bytes
    BY <1>3
  <2> QED
    BY ONLY <1>2, text = Decimal[n], <2>1, SeqMonotonic
<1>5. \A i \in 1..Len(text) : text[i] \in Digit
  BY ONLY <1>2, text = Decimal[n], ElementOfSeq
<1> QED
  BY <1>3, <1>4, <1>5 DEF CleanFields, NoComma

LEMMA CleanLetter ==
    ASSUME NEW c \in {45, 66, 83}
    PROVE  <<c>> \in CleanFields
  BY DEF CleanFields, NoComma, Bytes, Comma

AckFields(msg) == <<Decimal[msg.user_id], Decimal[msg.user_order_id]>>

TradeFields(msg) ==
    <<Decimal[msg.user_id_buy], Decimal[msg.user_order_id_buy],
      Decimal[msg.user_id_sell], Decimal[msg.user_order_id_sell],
      Decimal[msg.price], Decimal[msg.quantity]>>

TopFields(msg) ==
    IF msg.eliminated THEN <<<<SideLetter[msg.side]>>, Dash, Dash>>
    ELSE <<<<SideLetter[msg.side]>>, Decimal[msg.price], Decimal[msg.total_quantity]>>

LEMMA AckColumns ==
    ASSUME NEW msg \in Acks
    PROVE  /\ Fields(msg) = AckFields(msg)
           /\ Decimal[msg.user_id] \in CleanFields
           /\ Decimal[msg.user_order_id] \in CleanFields
<1>1. /\ msg.type \in {"Ack", "CancelAck"}
      /\ msg.user_id \in Numbers /\ msg.user_order_id \in Numbers
  BY DEF Acks
<1>2. Fields(msg) = AckFields(msg)
  BY ONLY <1>1 DEF Fields, AckFields
<1> QED
  BY ONLY <1>1, <1>2, CleanNumber

LEMMA TradeColumns ==
    ASSUME NEW msg \in Trades
    PROVE  /\ Fields(msg) = TradeFields(msg)
           /\ TradeFields(msg) \in Seq(CleanFields) /\ Len(TradeFields(msg)) = 6
<1>1. /\ msg.type = "Trade"
      /\ msg.user_id_buy \in Numbers /\ msg.user_order_id_buy \in Numbers
      /\ msg.user_id_sell \in Numbers /\ msg.user_order_id_sell \in Numbers
      /\ msg.price \in Numbers /\ msg.quantity \in Numbers
  BY DEF Trades
<1>2. Fields(msg) = TradeFields(msg)
  BY ONLY <1>1 DEF Fields, TradeFields
<1>3. /\ Decimal[msg.user_id_buy] \in CleanFields
      /\ Decimal[msg.user_order_id_buy] \in CleanFields
      /\ Decimal[msg.user_id_sell] \in CleanFields
      /\ Decimal[msg.user_order_id_sell] \in CleanFields
      /\ Decimal[msg.price] \in CleanFields /\ Decimal[msg.quantity] \in CleanFields
  BY ONLY <1>1, CleanNumber
<1>4. TradeFields(msg) \in Seq(CleanFields) /\ Len(TradeFields(msg)) = 6
  BY ONLY <1>3 DEF TradeFields
<1> QED
  BY <1>2, <1>4

LEMMA BesideOne ==
    ASSUME NEW U, NEW x \in U, NEW a \in U
    PROVE  <<x>> \o <<a>> = <<x, a>>
<1>1. <<x>> \in Seq(U) /\ <<a>> \in Seq(U)
  OBVIOUS
<1>. PICK s, t : s = <<x>> /\ t = <<a>>
  OBVIOUS
<1>2. s \o t \in Seq(U) /\ Len(s \o t) = 2
      /\ (s \o t)[1] = x /\ (s \o t)[2] = a
  BY <1>1
<1>3. <<x, a>> \in Seq(U) /\ Len(<<x, a>>) = 2
      /\ <<x, a>>[1] = x /\ <<x, a>>[2] = a
  OBVIOUS
<1>4. \A i \in 1..2 : i = 1 \/ i = 2
  OBVIOUS
<1>. PICK u, v : u = s \o t /\ v = <<x, a>>
  OBVIOUS
<1>5. u \in Seq(U) /\ Len(u) = 2 /\ u[1] = x /\ u[2] = a
      /\ v \in Seq(U) /\ Len(v) = 2 /\ v[1] = x /\ v[2] = a
  BY ONLY <1>2, <1>3, u = s \o t /\ v = <<x, a>>
<1>6. \A i \in 1..Len(u) : u[i] = v[i]
  BY ONLY <1>4, <1>5
<1>7. u = v
  BY ONLY <1>5, <1>6, SeqEqual
<1> QED
  BY <1>7

LEMMA Beside ==
    ASSUME NEW U, NEW x \in U, NEW a \in U, NEW b \in U
    PROVE  <<x>> \o <<a, b>> = <<x, a, b>>
<1>1. <<x>> \in Seq(U) /\ <<a, b>> \in Seq(U)
  OBVIOUS
<1>. PICK s, t : s = <<x>> /\ t = <<a, b>>
  OBVIOUS
<1>2. s \o t \in Seq(U) /\ Len(s \o t) = 3
      /\ (s \o t)[1] = x /\ (s \o t)[2] = a /\ (s \o t)[3] = b
  BY <1>1
<1>3. <<x, a, b>> \in Seq(U) /\ Len(<<x, a, b>>) = 3
      /\ <<x, a, b>>[1] = x /\ <<x, a, b>>[2] = a /\ <<x, a, b>>[3] = b
  OBVIOUS
<1>4. \A i \in 1..3 : i = 1 \/ i = 2 \/ i = 3
  OBVIOUS
<1>. PICK u, v : u = s \o t /\ v = <<x, a, b>>
  OBVIOUS
<1>5. u \in Seq(U) /\ Len(u) = 3 /\ u[1] = x /\ u[2] = a /\ u[3] = b
      /\ v \in Seq(U) /\ Len(v) = 3 /\ v[1] = x /\ v[2] = a /\ v[3] = b
  BY ONLY <1>2, <1>3, u = s \o t /\ v = <<x, a, b>>
<1>6. \A i \in 1..Len(u) : u[i] = v[i]
  BY ONLY <1>4, <1>5
<1>7. u = v
  BY ONLY <1>5, <1>6, SeqEqual
<1> QED
  BY <1>7

LEMMA TopColumns ==
    ASSUME NEW msg \in Tops
    PROVE  /\ Fields(msg) = TopFields(msg)
           /\ TopFields(msg) \in Seq(CleanFields) /\ Len(TopFields(msg)) = 3
<1>1. /\ msg.type = "TopOfBook" /\ msg.side \in {"Buy", "Sell"}
      /\ msg.price \in Numbers /\ msg.total_quantity \in Numbers
  BY DEF Tops
<1>. PICK d : d = SideLetter[msg.side]
  OBVIOUS
<1>. PICK p : p = Decimal[msg.price]
  OBVIOUS
<1>. PICK q : q = Decimal[msg.total_quantity]
  OBVIOUS
<1>2. Fields(msg) = <<<<d>>>> \o (IF msg.eliminated THEN <<Dash, Dash>> ELSE <<p, q>>)
  BY <1>1 DEF Fields
<1>3. d \in {45, 66, 83}
  BY <1>1 DEF SideLetter, Letter
<1>4. <<d>> \in CleanFields /\ Dash \in CleanFields /\ p \in CleanFields /\ q \in CleanFields
  BY <1>1, <1>3, CleanLetter, CleanNumber DEF Dash
<1>5. CASE msg.eliminated
  <2>1. Fields(msg) = <<<<d>>, Dash, Dash>>
    <3>1. Fields(msg) = <<<<d>>>> \o <<Dash, Dash>>
      BY <1>2, <1>5
    <3> QED
      BY ONLY <1>4, <3>1, Beside
  <2>2. TopFields(msg) = <<<<d>>, Dash, Dash>>
    BY <1>5 DEF TopFields
  <2> QED
    BY <1>4, <2>1, <2>2
<1>6. CASE ~msg.eliminated
  <2>1. Fields(msg) = <<<<d>>, p, q>>
    <3>1. Fields(msg) = <<<<d>>>> \o <<p, q>>
      BY <1>2, <1>6
    <3> QED
      BY ONLY <1>4, <3>1, Beside
  <2>2. TopFields(msg) = <<<<d>>, p, q>>
    BY <1>6 DEF TopFields
  <2> QED
    BY <1>4, <2>1, <2>2
<1> QED
  BY <1>5, <1>6

\* The fields of two messages of a type are as many.
LEMMA FieldsClean ==
    ASSUME NEW msg \in OutputMessages
    PROVE  /\ Fields(msg) \in Seq(CleanFields)
           /\ Len(Fields(msg)) = IF msg.type \in {"Ack", "CancelAck"} THEN 2
                                 ELSE IF msg.type = "Trade" THEN 6 ELSE 3
<1>1. CASE msg \in Acks
  <2>1. msg.type \in {"Ack", "CancelAck"}
    BY <1>1, OutputKinds
  <2>. PICK a, b : a = Decimal[msg.user_id] /\ b = Decimal[msg.user_order_id]
    OBVIOUS
  <2>2. Fields(msg) = <<a, b>> /\ a \in CleanFields /\ b \in CleanFields
    BY <1>1, AckColumns DEF AckFields
  <2>3. <<a, b>> \in Seq(CleanFields) /\ Len(<<a, b>>) = 2
    BY ONLY <2>2
  <2> QED
    BY <2>1, <2>2, <2>3
<1>2. CASE msg \in Trades
  <2>1. msg.type = "Trade"
    BY <1>2, OutputKinds
  <2> QED
    BY <1>2, <2>1, TradeColumns
<1>3. CASE msg \in Tops
  <2>1. msg.type = "TopOfBook"
    BY <1>3, OutputKinds
  <2> QED
    BY <1>3, <2>1, TopColumns
<1> QED
  BY <1>1, <1>2, <1>3, OutputKinds

\* A line starts with the letter of its type.
LEMMA LegacyLine ==
    ASSUME NEW msg \in OutputMessages
    PROVE  /\ FormatOutputLegacy(msg) = <<OutputLetter[msg.type]>> \o Columns(Fields(msg))
           /\ OutputLetter[msg.type] \in Bytes \ {Comma}
           /\ Columns(Fields(msg)) \in Seq(Bytes)
<1>1. Fields(msg) \in Seq(CleanFields)
  BY FieldsClean
<1>2. Fields(msg) \in Seq(Seq(Bytes))
  BY <1>1, ColumnFacts
<1>3. msg.type \in {"Ack", "CancelAck", "Trade", "TopOfBook"}
  BY OutputKinds
<1>4. OutputLetter[msg.type] \in {65, 66, 67, 84}
  BY <1>3 DEF OutputLetter
<1>5. OutputLetter[msg.type] \in Bytes \ {Comma}
  BY <1>4 DEF Bytes, Comma
<1> QED
  BY <1>2, <1>5, ColumnsType DEF FormatOutputLegacy, Formatted

LEMMA FirstLetter ==
    ASSUME NEW c \in Bytes, NEW d \in Bytes, NEW s \in Seq(Bytes), NEW t \in Seq(Bytes),
           <<c>> \o s = <<d>> \o t
    PROVE  c = d
<1>1. (<<c>> \o s)[1] = c /\ (<<d>> \o t)[1] = d
  OBVIOUS
<1> QED
  BY ONLY <1>1, <<c>> \o s = <<d>> \o t

LEMMA SameLetter ==
    ASSUME NEW m \in OutputMessages, NEW k \in OutputMessages,
           OutputLetter[m.type] = OutputLetter[k.type]
    PROVE  m.type = k.type
<1>1. \A type \in {"Ack", "CancelAck", "Trade", "TopOfBook"} :
        OutputLetter[type] = IF type = "Ack" THEN 65 ELSE IF type = "CancelAck" THEN 67
                             ELSE IF type = "Trade" THEN 84 ELSE 66
  BY DEF OutputLetter
<1>2. /\ m.type \in {"Ack", "CancelAck", "Trade", "TopOfBook"}
      /\ k.type \in {"Ack", "CancelAck", "Trade", "TopOfBook"}
  BY OutputKinds
<1> QED
  BY <1>1, <1>2

LEMMA SameFieldCount ==
    ASSUME NEW m \in OutputMessages, NEW k \in OutputMessages, m.type = k.type
    PROVE  Len(Fields(m)) = Len(Fields(k))
  BY FieldsClean

LEMMA LegacyTellsApart ==
    ASSUME NEW m \in OutputMessages, NEW k \in OutputMessages
    PROVE  FormatOutputLegacy(m) = FormatOutputLegacy(k)
             <=> m.type = k.type /\ Fields(m) = Fields(k)
<1>1. ASSUME FormatOutputLegacy(m) = FormatOutputLegacy(k)
      PROVE  m.type = k.type /\ Fields(m) = Fields(k)
  <2>. PICK c, d : c = OutputLetter[m.type] /\ d = OutputLetter[k.type]
    OBVIOUS
  <2>1. /\ c \in Bytes /\ d \in Bytes
        /\ Columns(Fields(m)) \in Seq(Bytes) /\ Columns(Fields(k)) \in Seq(Bytes)
        /\ <<c>> \o Columns(Fields(m)) = <<d>> \o Columns(Fields(k))
    BY <1>1, LegacyLine
  <2>2. c = d
    BY ONLY <2>1, FirstLetter
  <2>3. m.type = k.type
    BY <2>2, SameLetter
  <2>4. SameText(<<c>>, Fields(m), <<d>>, Fields(k))
    BY <2>1, <2>3, FieldsClean, SameFieldCount DEF SameText
  <2> QED
    BY ONLY <2>3, <2>4, SameColumns
<1>2. ASSUME m.type = k.type, Fields(m) = Fields(k)
      PROVE  FormatOutputLegacy(m) = FormatOutputLegacy(k)
  BY <1>2, LegacyLine
<1> QED
  BY <1>1, <1>2

LEMMA HeadColumn ==
    ASSUME NEW f \in Seq(Bytes), NEW fields \in Seq(Seq(Bytes))
    PROVE  /\ <<f>> \o fields \in Seq(Seq(Bytes))
           /\ Columns(<<f>> \o fields) = Column[f] \o Columns(fields)
           /\ Column[f] \in Seq(Bytes) /\ Columns(fields) \in Seq(Bytes)
<1>. PICK all : all = <<f>> \o fields
  OBVIOUS
<1>1. all \in Seq(Seq(Bytes)) /\ all # <<>> /\ Head(all) = f /\ Tail(all) = fields
  <2>1. <<f>> \in Seq(Seq(Bytes)) /\ Len(<<f>>) = 1 /\ <<f>>[1] = f
    OBVIOUS
  <2>2. /\ <<f>> \o fields \in Seq(Seq(Bytes)) /\ Len(<<f>> \o fields) = 1 + Len(fields)
        /\ (<<f>> \o fields)[1] = f
        /\ \A i \in 1..Len(fields) : (<<f>> \o fields)[1 + i] = fields[i]
    BY <2>1
  <2>3. all # <<>> /\ Head(all) = f
    BY <2>2
  <2>4. /\ Tail(all) \in Seq(Seq(Bytes)) /\ Len(Tail(all)) = Len(fields)
        /\ \A i \in 1..Len(fields) : Tail(all)[i] = fields[i]
    BY <2>2, <2>3
  <2> QED
    BY <2>2, <2>3, <2>4, SeqEqual
<1>2. Columns(all) = Column[f] \o Columns(fields)
  <2>1. AllParts(Column, all) = Column[Head(all)] \o AllParts(Column, Tail(all))
    BY ONLY <1>1, ColumnFacts, PartsHead
  <2> QED
    BY ONLY <1>1, <2>1 DEF Columns
<1> QED
  BY <1>1, <1>2, ColumnFacts, ColumnsType

\* A letter, any symbol and fields make the text that others make.
SymbolsFirst(c, s, F, d, t, G) ==
    /\ c \in Bytes \ {Comma} /\ s \in Seq(Bytes) /\ F \in Seq(CleanFields)
    /\ d \in Bytes \ {Comma} /\ t \in Seq(Bytes) /\ G \in Seq(CleanFields)
    /\ Len(F) = Len(G)
    /\ <<c>> \o Columns(<<s>> \o F) = <<d>> \o Columns(<<t>> \o G)

\* A symbol in front, whatever it holds, is told from the fields behind it.
LEMMA SymbolFirst ==
    ASSUME NEW c, NEW s, NEW F, NEW d, NEW t, NEW G, SymbolsFirst(c, s, F, d, t, G)
    PROVE  c = d /\ s = t /\ F = G
<1>1. ASSUME NEW b \in Bytes \ {Comma}, NEW r \in Seq(Bytes), NEW H \in Seq(CleanFields)
      PROVE  /\ <<b>> \o Column[r] \in Seq(Bytes)
             /\ <<b>> \o Columns(<<r>> \o H) = (<<b>> \o Column[r]) \o Columns(H)
             /\ Parted(<<b>> \o Column[r], <<b>>, r)
             /\ NoComma(<<b>>)
  <2>1. H \in Seq(Seq(Bytes))
    BY ColumnFacts
  <2>2. /\ Columns(<<r>> \o H) = Column[r] \o Columns(H)
        /\ Column[r] \in Seq(Bytes) /\ Columns(H) \in Seq(Bytes)
    BY <2>1, HeadColumn
  <2>3. <<b>> \in Seq(Bytes) /\ Column[r] = <<Comma, 32>> \o r
    BY ColumnFacts
  <2>4. /\ (<<b>> \o Column[r]) \o Columns(H) = <<b>> \o (Column[r] \o Columns(H))
        /\ <<b>> \o Column[r] \in Seq(Bytes)
    <3>1. /\ Associates(<<b>>, Column[r], Columns(H))
          /\ <<b>> \o Column[r] \in Seq(Bytes)
      BY ONLY <2>2, <2>3, Column[r] \in Seq(Bytes), ConcatAssociates
    <3> QED
      BY ONLY <3>1 DEF Associates
  <2>5. Parted(<<b>> \o (<<Comma, 32>> \o r), <<b>>, r)
    BY <2>3, PartedText
  <2>6. NoComma(<<b>>)
    BY DEF NoComma
  <2> QED
    BY ONLY <2>2, <2>3, <2>4, <2>5, <2>6
<1>. /\ c \in Bytes \ {Comma} /\ s \in Seq(Bytes) /\ F \in Seq(CleanFields)
     /\ d \in Bytes \ {Comma} /\ t \in Seq(Bytes) /\ G \in Seq(CleanFields)
     /\ Len(F) = Len(G)
     /\ <<c>> \o Columns(<<s>> \o F) = <<d>> \o Columns(<<t>> \o G)
  BY DEF SymbolsFirst
<1>2. SameText(<<c>> \o Column[s], F, <<d>> \o Column[t], G)
  BY <1>1 DEF SameText
<1>3. <<c>> \o Column[s] = <<d>> \o Column[t] /\ F = G
  BY ONLY <1>2, SameColumns
<1>4. /\ Parted(<<c>> \o Column[s], <<c>>, s) /\ NoComma(<<c>>)
      /\ Parted(<<c>> \o Column[s], <<d>>, t) /\ NoComma(<<d>>)
  <2>1. Parted(<<c>> \o Column[s], <<c>>, s) /\ NoComma(<<c>>)
    BY <1>1
  <2>2. Parted(<<d>> \o Column[t], <<d>>, t) /\ NoComma(<<d>>)
    BY <1>1
  <2> QED
    BY ONLY <1>3, <2>1, <2>2
<1>5. s = t /\ <<c>> = <<d>>
  BY ONLY <1>4, CutFirst
<1>6. c = d
  <2>1. <<c>>[1] = c /\ <<d>>[1] = d
    OBVIOUS
  <2> QED
    BY ONLY <1>5, <2>1
<1> QED
  BY <1>3, <1>5, <1>6

LEMMA ThreeColumns ==
    ASSUME NEW U, NEW a \in U, NEW b \in U, NEW s \in U
    PROVE  Append(<<a, b>>, s) = <<a, b, s>>
<1>1. <<a, b>> \in Seq(U) /\ Len(<<a, b>>) = 2 /\ <<a, b>>[1] = a /\ <<a, b>>[2] = b
  OBVIOUS
<1>. PICK t : t = <<a, b>>
  OBVIOUS
<1>2. Append(t, s) \in Seq(U) /\ Len(Append(t, s)) = 3
      /\ Append(t, s)[1] = a /\ Append(t, s)[2] = b /\ Append(t, s)[3] = s
  BY <1>1
<1>3. <<a, b, s>> \in Seq(U) /\ Len(<<a, b, s>>) = 3
      /\ <<a, b, s>>[1] = a /\ <<a, b, s>>[2] = b /\ <<a, b, s>>[3] = s
  OBVIOUS
<1>4. \A i \in 1..3 : i = 1 \/ i = 2 \/ i = 3
  OBVIOUS
<1>. PICK u, v : u = Append(t, s) /\ v = <<a, b, s>>
  OBVIOUS
<1>5. u \in Seq(U) /\ Len(u) = 3 /\ u[1] = a /\ u[2] = b /\ u[3] = s
      /\ v \in Seq(U) /\ Len(v) = 3 /\ v[1] = a /\ v[2] = b /\ v[3] = s
  BY ONLY <1>2, <1>3, u = Append(t, s) /\ v = <<a, b, s>>
<1>6. \A i \in 1..Len(u) : u[i] = v[i]
  BY ONLY <1>4, <1>5
<1>7. u = v
  BY ONLY <1>5, <1>6, SeqEqual
<1> QED
  BY <1>7

\* Behind two fields, too.
LEMMA SymbolLast ==
    ASSUME NEW c \in Bytes \ {Comma}, NEW a \in CleanFields, NEW b \in CleanFields,
           NEW s \in Seq(Bytes)
    PROVE  \E w \in Seq(Bytes), x \in Seq(Bytes) :
             /\ Parted(<<c>> \o Columns(<<a, b, s>>), <<c>>, w) /\ NoComma(<<c>>)
             /\ Parted(w, a, x) /\ NoComma(a)
             /\ Parted(x, b, s) /\ NoComma(b)
<1>1. /\ a \in Seq(Bytes) /\ b \in Seq(Bytes) /\ NoComma(a) /\ NoComma(b)
      /\ <<c>> \in Seq(Bytes)
  BY DEF CleanFields
<1>2. NoComma(<<c>>)
  BY DEF NoComma
<1>. PICK x : x = b \o (<<Comma, 32>> \o s)
  OBVIOUS
<1>. PICK w : w = a \o (<<Comma, 32>> \o x)
  OBVIOUS
<1>3. Parted(x, b, s)
  BY ONLY <1>1, s \in Seq(Bytes), x = b \o (<<Comma, 32>> \o s), PartedText
<1>4. x \in Seq(Bytes)
  BY <1>3 DEF Parted
<1>5. Parted(w, a, x)
  BY ONLY <1>1, <1>4, w = a \o (<<Comma, 32>> \o x), PartedText
<1>6. w \in Seq(Bytes)
  BY <1>5 DEF Parted
<1>7. Parted(<<c>> \o (<<Comma, 32>> \o w), <<c>>, w)
  BY ONLY <1>1, <1>6, PartedText
<1>8. <<Comma, 32>> \in Seq(Bytes)
  BY DEF Comma, Bytes
<1>9. Columns(<<a, b, s>>) = <<Comma, 32>> \o w
  <2>1. /\ <<s>> \o <<>> = <<s>> /\ <<b>> \o <<s>> = <<b, s>>
        /\ <<a>> \o <<b, s>> = <<a, b, s>>
        /\ <<>> \in Seq(Seq(Bytes)) /\ <<s>> \in Seq(Seq(Bytes))
        /\ <<b, s>> \in Seq(Seq(Bytes))
    <3>1. /\ <<>> \in Seq(Seq(Bytes)) /\ <<s>> \in Seq(Seq(Bytes))
          /\ <<b, s>> \in Seq(Seq(Bytes))
      BY <1>1
    <3>2. <<s>> \o <<>> = <<s>> /\ <<b>> \o <<s>> = <<b, s>>
      BY ONLY <1>1, <3>1, s \in Seq(Bytes), BesideOne, ConcatEmptySeq
    <3>3. <<a>> \o <<b, s>> = <<a, b, s>>
      BY ONLY <1>1, s \in Seq(Bytes), Beside
    <3> QED
      BY <3>1, <3>2, <3>3
  <2>2. Columns(<<>>) = <<>>
    BY NoParts DEF Columns
  <2>3. Columns(<<s>>) = Column[s] \o <<>>
    BY ONLY <2>1, <2>2, HeadColumn, s \in Seq(Bytes)
  <2>4. Columns(<<b, s>>) = Column[b] \o Columns(<<s>>)
    BY ONLY <1>1, <2>1, HeadColumn
  <2>5. Columns(<<a, b, s>>) = Column[a] \o Columns(<<b, s>>)
    BY ONLY <1>1, <2>1, HeadColumn
  <2>6. /\ Column[s] = <<Comma, 32>> \o s /\ Column[s] \in Seq(Bytes)
        /\ Column[b] = <<Comma, 32>> \o b /\ Column[a] = <<Comma, 32>> \o a
    BY <1>1, ColumnFacts
  <2>7. Columns(<<s>>) = <<Comma, 32>> \o s
    BY ONLY <2>3, <2>6, ConcatEmptySeq
  <2>8. <<Comma, 32>> \o s \in Seq(Bytes)
    BY <2>6
  <2>9. (<<Comma, 32>> \o b) \o (<<Comma, 32>> \o s) = <<Comma, 32>> \o x
    <3>1. Associates(<<Comma, 32>>, b, <<Comma, 32>> \o s)
      BY ONLY <1>1, <1>8, <2>8, ConcatAssociates
    <3> QED
      BY ONLY <3>1, x = b \o (<<Comma, 32>> \o s) DEF Associates
  <2>10. <<Comma, 32>> \o x \in Seq(Bytes)
    BY ONLY <1>4, <1>8, ConcatAssociates
  <2>11. (<<Comma, 32>> \o a) \o (<<Comma, 32>> \o x) = <<Comma, 32>> \o w
    <3>1. Associates(<<Comma, 32>>, a, <<Comma, 32>> \o x)
      BY ONLY <1>1, <1>8, <2>10, ConcatAssociates
    <3> QED
      BY ONLY <3>1, w = a \o (<<Comma, 32>> \o x) DEF Associates
  <2> QED
    BY ONLY <2>4, <2>5, <2>6, <2>7, <2>9, <2>11
<1>10. Parted(<<c>> \o Columns(<<a, b, s>>), <<c>>, w)
  BY ONLY <1>7, <1>9
<1> QED
  BY ONLY <1>1, <1>2, <1>3, <1>4, <1>5, <1>6, <1>10

LEMMA CsvLine ==
    ASSUME NEW msg \in OutputMessages
    PROVE  FormatOutputCsv(msg) =
             <<OutputLetter[msg.type]>>
               \o Columns(IF msg.type \in {"Ack", "CancelAck"}
                          THEN Append(Fields(msg), msg.symbol)
                          ELSE <<msg.symbol>> \o Fields(msg))
<1>1. /\ Fields(msg) \in Seq(Seq(Bytes)) /\ msg.symbol \in Seq(Bytes)
  BY FieldsClean, ColumnFacts, OutputKinds
<1>2. /\ Append(Fields(msg), msg.symbol) \in Seq(Seq(Bytes))
      /\ <<msg.symbol>> \o Fields(msg) \in Seq(Seq(Bytes))
  <2>1. Append(Fields(msg), msg.symbol) \in Seq(Seq(Bytes))
    BY ONLY <1>1, AppendProperties
  <2>2. <<msg.symbol>> \o Fields(msg) \in Seq(Seq(Bytes))
    BY ONLY <1>1, HeadColumn
  <2> QED
    BY ONLY <2>1, <2>2
<1>. PICK all : all = (IF msg.type \in {"Ack", "CancelAck"}
                       THEN Append(Fields(msg), msg.symbol)
                       ELSE <<msg.symbol>> \o Fields(msg))
  OBVIOUS
<1>3. all \in Seq(Seq(Bytes))
  BY <1>2
<1>4. FormatOutputCsv(msg) = <<OutputLetter[msg.type]>>
        \o FlattenSeq([n \in DOMAIN all |-> <<Comma, 32>> \o all[n]])
  BY DEF FormatOutputCsv, Formatted
<1>5. FlattenSeq([n \in DOMAIN all |-> <<Comma, 32>> \o all[n]]) = Columns(all)
  BY ONLY <1>3, ColumnsType
<1> QED
  BY <1>4, <1>5

LEMMA CsvStart ==
    ASSUME NEW msg \in OutputMessages
    PROVE  \E w \in Seq(Bytes) : FormatOutputCsv(msg) = <<OutputLetter[msg.type]>> \o w
<1>1. /\ Fields(msg) \in Seq(Seq(Bytes)) /\ msg.symbol \in Seq(Bytes)
  BY FieldsClean, ColumnFacts, OutputKinds
<1>2. Append(Fields(msg), msg.symbol) \in Seq(Seq(Bytes))
  BY ONLY <1>1, AppendProperties
<1>3. <<msg.symbol>> \o Fields(msg) \in Seq(Seq(Bytes))
  BY ONLY <1>1, HeadColumn
<1>4. /\ Columns(Append(Fields(msg), msg.symbol)) \in Seq(Bytes)
      /\ Columns(<<msg.symbol>> \o Fields(msg)) \in Seq(Bytes)
  BY ONLY <1>2, <1>3, ColumnsType
<1> QED
  BY <1>4, CsvLine

\* The line of an acknowledgement.
LEMMA AckLine ==
    ASSUME NEW m \in OutputMessages, NEW k \in OutputMessages, m.type = k.type,
           m.type \in {"Ack", "CancelAck"},
           FormatOutputCsv(m) = FormatOutputCsv(k)
    PROVE  Fields(m) = Fields(k) /\ m.symbol = k.symbol
<1>1. ASSUME NEW msg \in OutputMessages, msg.type \in {"Ack", "CancelAck"}
      PROVE  \E a \in CleanFields, b \in CleanFields, w \in Seq(Bytes), x \in Seq(Bytes) :
               /\ Fields(msg) = <<a, b>>
               /\ Parted(FormatOutputCsv(msg), <<OutputLetter[msg.type]>>, w)
               /\ NoComma(<<OutputLetter[msg.type]>>)
               /\ Parted(w, a, x) /\ NoComma(a)
               /\ Parted(x, b, msg.symbol) /\ NoComma(b)
  <2>1. msg \in Acks
    BY <1>1, OutputKinds
  <2>. PICK a, b : a = Decimal[msg.user_id] /\ b = Decimal[msg.user_order_id]
    OBVIOUS
  <2>2. Fields(msg) = <<a, b>> /\ a \in CleanFields /\ b \in CleanFields
    BY <2>1, AckColumns DEF AckFields
  <2>. PICK s : s = msg.symbol
    OBVIOUS
  <2>. PICK c : c = OutputLetter[msg.type]
    OBVIOUS
  <2>3. s \in Seq(Bytes) /\ c \in Bytes \ {Comma}
    BY OutputKinds, LegacyLine
  <2>4. Append(<<a, b>>, s) = <<a, b, s>>
    <3>1. a \in Seq(Bytes) /\ b \in Seq(Bytes)
      BY ONLY <2>2 DEF CleanFields
    <3> QED
      BY ONLY <2>3, <3>1, ThreeColumns
  <2>5. FormatOutputCsv(msg) = <<c>> \o Columns(<<a, b, s>>)
    BY <1>1, <2>2, <2>4, CsvLine
  <2>6. \E w \in Seq(Bytes), x \in Seq(Bytes) :
          /\ Parted(<<c>> \o Columns(<<a, b, s>>), <<c>>, w) /\ NoComma(<<c>>)
          /\ Parted(w, a, x) /\ NoComma(a)
          /\ Parted(x, b, s) /\ NoComma(b)
    BY ONLY <2>2, <2>3, SymbolLast
  <2>7. s = msg.symbol /\ c = OutputLetter[msg.type]
    OBVIOUS
  <2> QED
    BY ONLY <2>2, <2>5, <2>6, <2>7
<1>2. PICK a \in CleanFields, b \in CleanFields, w \in Seq(Bytes), x \in Seq(Bytes) :
        /\ Fields(m) = <<a, b>>
        /\ Parted(FormatOutputCsv(m), <<OutputLetter[m.type]>>, w)
        /\ NoComma(<<OutputLetter[m.type]>>)
        /\ Parted(w, a, x) /\ NoComma(a)
        /\ Parted(x, b, m.symbol) /\ NoComma(b)
  BY ONLY <1>1, m \in OutputMessages, m.type \in {"Ack", "CancelAck"}
<1>3. PICK d \in CleanFields, e \in CleanFields, v \in Seq(Bytes), y \in Seq(Bytes) :
        /\ Fields(k) = <<d, e>>
        /\ Parted(FormatOutputCsv(k), <<OutputLetter[k.type]>>, v)
        /\ NoComma(<<OutputLetter[k.type]>>)
        /\ Parted(v, d, y) /\ NoComma(d)
        /\ Parted(y, e, k.symbol) /\ NoComma(e)
  BY ONLY <1>1, k \in OutputMessages, m.type = k.type, m.type \in {"Ack", "CancelAck"}
<1>4. w = v
  BY ONLY <1>2, <1>3, CutFirst, FormatOutputCsv(m) = FormatOutputCsv(k)
<1>5. a = d /\ x = y
  BY ONLY <1>2, <1>3, <1>4, CutFirst
<1>6. b = e /\ m.symbol = k.symbol
  BY ONLY <1>2, <1>3, <1>5, CutFirst
<1> QED
  BY ONLY <1>2, <1>3, <1>5, <1>6

LEMMA CsvTellsApart ==
    ASSUME NEW m \in OutputMessages, NEW k \in OutputMessages
    PROVE  FormatOutputCsv(m) = FormatOutputCsv(k)
             <=> m.type = k.type /\ Fields(m) = Fields(k) /\ m.symbol = k.symbol
<1>1. ASSUME FormatOutputCsv(m) = FormatOutputCsv(k)
      PROVE  m.type = k.type /\ Fields(m) = Fields(k) /\ m.symbol = k.symbol
  <2>1. m.type = k.type
    <3>1. PICK w \in Seq(Bytes) : FormatOutputCsv(m) = <<OutputLetter[m.type]>> \o w
      BY CsvStart
    <3>2. PICK v \in Seq(Bytes) : FormatOutputCsv(k) = <<OutputLetter[k.type]>> \o v
      BY CsvStart
    <3>3. OutputLetter[m.type] \in Bytes /\ OutputLetter[k.type] \in Bytes
      BY LegacyLine
    <3>4. <<OutputLetter[m.type]>> \o w = <<OutputLetter[k.type]>> \o v
      BY ONLY <1>1, <3>1, <3>2
    <3>5. OutputLetter[m.type] = OutputLetter[k.type]
      BY ONLY <3>3, <3>4, FirstLetter
    <3> QED
      BY <3>5, SameLetter
  <2>2. CASE m.type \in {"Ack", "CancelAck"}
    BY <1>1, <2>1, <2>2, AckLine
  <2>3. CASE m.type \notin {"Ack", "CancelAck"}
    <3>1. /\ FormatOutputCsv(m) =
               <<OutputLetter[m.type]>> \o Columns(<<m.symbol>> \o Fields(m))
          /\ FormatOutputCsv(k) =
               <<OutputLetter[k.type]>> \o Columns(<<k.symbol>> \o Fields(k))
      BY <2>1, <2>3, CsvLine
    <3>2. /\ OutputLetter[m.type] \in Bytes \ {Comma} /\ OutputLetter[k.type] \in Bytes \ {Comma}
          /\ m.symbol \in Seq(Bytes) /\ k.symbol \in Seq(Bytes)
          /\ Fields(m) \in Seq(CleanFields) /\ Fields(k) \in Seq(CleanFields)
          /\ Len(Fields(m)) = Len(Fields(k))
      BY <2>1, LegacyLine, OutputKinds, FieldsClean, SameFieldCount
    <3>3. <<OutputLetter[m.type]>> \o Columns(<<m.symbol>> \o Fields(m))
            = <<OutputLetter[k.type]>> \o Columns(<<k.symbol>> \o Fields(k))
      BY ONLY <1>1, <3>1
    <3>. PICK c, d : c = OutputLetter[m.type] /\ d = OutputLetter[k.type]
      OBVIOUS
    <3>. PICK s, t : s = m.symbol /\ t = k.symbol
      OBVIOUS
    <3>. PICK F, G : F = Fields(m) /\ G = Fields(k)
      OBVIOUS
    <3>4. /\ c \in Bytes \ {Comma} /\ d \in Bytes \ {Comma}
          /\ s \in Seq(Bytes) /\ t \in Seq(Bytes)
          /\ F \in Seq(CleanFields) /\ G \in Seq(CleanFields) /\ Len(F) = Len(G)
          /\ <<c>> \o Columns(<<s>> \o F) = <<d>> \o Columns(<<t>> \o G)
      BY <3>2, <3>3
    <3>5. s = t /\ F = G
      <4>1. SymbolsFirst(c, s, F, d, t, G)
        BY ONLY <3>4 DEF SymbolsFirst
      <4> QED
        BY ONLY <4>1, SymbolFirst
    <3>6. m.symbol = k.symbol /\ Fields(m) = Fields(k)
      BY <3>5
    <3> QED
      BY <2>1, <3>6
  <2> QED
    BY <2>2, <2>3
<1>2. ASSUME m.type = k.type, Fields(m) = Fields(k), m.symbol = k.symbol
      PROVE  FormatOutputCsv(m) = FormatOutputCsv(k)
  BY <1>2, CsvLine
<1> QED
  BY <1>1, <1>2

\* The fields of what a message says.
SaidFields(msg) ==
    IF msg.type \in {"Ack", "CancelAck"}
    THEN {"type", "user_id", "user_order_id", "symbol"}
    ELSE IF msg.type = "Trade"
    THEN {"type", "symbol", "user_id_buy", "user_order_id_buy", "user_id_sell",
          "user_order_id_sell", "price", "quantity"}
    ELSE IF msg.eliminated THEN {"type", "symbol", "side"}
    ELSE {"type", "symbol", "side", "eliminated", "price", "total_quantity"}

LEMMA SaidIs ==
    ASSUME NEW msg \in OutputMessages
    PROVE  Said(msg) = [f \in SaidFields(msg) |-> msg[f]]
<1>1. CASE msg \in Acks
  <2>1. msg.type \in {"Ack", "CancelAck"}
    BY <1>1, OutputKinds
  <2>2. Said(msg) = msg
    BY ONLY <2>1 DEF Said
  <2>3. msg = [f \in {"type", "user_id", "user_order_id", "symbol"} |-> msg[f]]
    BY ONLY <1>1 DEF Acks
  <2>4. SaidFields(msg) = {"type", "user_id", "user_order_id", "symbol"}
    BY ONLY <2>1 DEF SaidFields
  <2> QED
    BY ONLY <2>2, <2>3, <2>4
<1>2. CASE msg \in Trades
  <2>1. msg.type = "Trade"
    BY <1>2, OutputKinds
  <2>2. Said(msg) = msg
    BY ONLY <2>1 DEF Said
  <2>3. msg = [f \in {"type", "symbol", "user_id_buy", "user_order_id_buy", "user_id_sell",
                      "user_order_id_sell", "price", "quantity"} |-> msg[f]]
    BY ONLY <1>2 DEF Trades
  <2>4. SaidFields(msg) = {"type", "symbol", "user_id_buy", "user_order_id_buy",
                           "user_id_sell", "user_order_id_sell", "price", "quantity"}
    BY ONLY <2>1 DEF SaidFields
  <2> QED
    BY ONLY <2>2, <2>3, <2>4
<1>3. CASE msg \in Tops
  <2>1. msg.type = "TopOfBook" /\ msg.eliminated \in BOOLEAN
    BY <1>3 DEF Tops
  <2>2. CASE msg.eliminated
    <3>1. Said(msg) = [type |-> msg.type, symbol |-> msg.symbol, side |-> msg.side]
      BY ONLY <2>1, <2>2 DEF Said
    <3>2. SaidFields(msg) = {"type", "symbol", "side"}
      BY ONLY <2>1, <2>2 DEF SaidFields
    <3>3. [type |-> msg.type, symbol |-> msg.symbol, side |-> msg.side]
            = [f \in {"type", "symbol", "side"} |-> msg[f]]
      OBVIOUS
    <3> QED
      BY ONLY <3>1, <3>2, <3>3
  <2>3. CASE ~msg.eliminated
    <3>1. Said(msg) = msg
      BY ONLY <2>1, <2>3 DEF Said
    <3>2. SaidFields(msg) = {"type", "symbol", "side", "eliminated", "price",
                             "total_quantity"}
      BY ONLY <2>1, <2>3 DEF SaidFields
    <3>3. msg = [f \in {"type", "symbol", "side", "eliminated", "price",
                        "total_quantity"} |-> msg[f]]
      BY ONLY <1>3 DEF Tops
    <3> QED
      BY ONLY <3>1, <3>2, <3>3
  <2> QED
    BY <2>2, <2>3
<1> QED
  BY <1>1, <1>2, <1>3, OutputKinds

\* Two messages that agree on what they say but for the symbol.
Alike(m, k) ==
    /\ SaidFields(m) = SaidFields(k)
    /\ \A f \in SaidFields(m) \ {"symbol"} : m[f] = k[f]

LEMMA SaidAlike ==
    ASSUME NEW m \in OutputMessages, NEW k \in OutputMessages
    PROVE  /\ SaidLegacy(m) = SaidLegacy(k) <=> Alike(m, k)
           /\ Said(m) = Said(k) <=> Alike(m, k) /\ m.symbol = k.symbol
<1>1. ASSUME NEW msg \in OutputMessages
      PROVE  /\ Said(msg) = [f \in SaidFields(msg) |-> msg[f]]
             /\ SaidLegacy(msg) = [f \in SaidFields(msg) \ {"symbol"} |-> msg[f]]
             /\ "symbol" \in SaidFields(msg)
  <2>1. Said(msg) = [f \in SaidFields(msg) |-> msg[f]]
    BY SaidIs
  <2>2. DOMAIN Said(msg) = SaidFields(msg)
    BY ONLY <2>1
  <2>3. SaidLegacy(msg) = [f \in SaidFields(msg) \ {"symbol"} |-> msg[f]]
    BY ONLY <2>2 DEF SaidLegacy
  <2>4. "symbol" \in SaidFields(msg)
    BY DEF SaidFields
  <2> QED
    BY ONLY <2>1, <2>3, <2>4
<1>. PICK M, K : M = SaidFields(m) /\ K = SaidFields(k)
  OBVIOUS
<1>2. /\ Said(m) = [f \in M |-> m[f]] /\ Said(k) = [f \in K |-> k[f]]
      /\ SaidLegacy(m) = [f \in M \ {"symbol"} |-> m[f]]
      /\ SaidLegacy(k) = [f \in K \ {"symbol"} |-> k[f]]
      /\ "symbol" \in M /\ "symbol" \in K
      /\ Alike(m, k) <=> M = K /\ \A f \in M \ {"symbol"} : m[f] = k[f]
  BY <1>1 DEF Alike
<1>3. [f \in M \ {"symbol"} |-> m[f]] = [f \in K \ {"symbol"} |-> k[f]]
        <=> /\ M \ {"symbol"} = K \ {"symbol"}
            /\ \A f \in M \ {"symbol"} : m[f] = k[f]
  <2>. PICK N, L : N = M \ {"symbol"} /\ L = K \ {"symbol"}
    OBVIOUS
  <2>1. [f \in N |-> m[f]] = [f \in L |-> k[f]] <=> N = L /\ \A f \in N : m[f] = k[f]
    OBVIOUS
  <2> QED
    BY <2>1
<1>4. M \ {"symbol"} = K \ {"symbol"} <=> M = K
  BY ONLY <1>2
<1>5. [f \in M |-> m[f]] = [f \in K |-> k[f]] <=> M = K /\ \A f \in M : m[f] = k[f]
  OBVIOUS
<1>6. (\A f \in M : m[f] = k[f])
        <=> (\A f \in M \ {"symbol"} : m[f] = k[f]) /\ m["symbol"] = k["symbol"]
  BY ONLY <1>2
<1>7. SaidLegacy(m) = SaidLegacy(k) <=> Alike(m, k)
  BY ONLY <1>2, <1>3, <1>4
<1>8. Said(m) = Said(k) <=> Alike(m, k) /\ m["symbol"] = k["symbol"]
  BY ONLY <1>2, <1>5, <1>6
<1> QED
  BY <1>7, <1>8

LEMMA NumberSame ==
    ASSUME NEW n \in Numbers, NEW j \in Numbers
    PROVE  /\ Decimal[n] = Decimal[j] <=> n = j
           /\ Decimal[n] # Dash
<1>1. n \in Nat /\ j \in Nat
  BY BinaryCodecAssumption
<1>2. Decimal[n] \in Seq(Digit)
  BY <1>1, DecimalType
<1>. PICK text : text = Decimal[n]
  OBVIOUS
<1>3. text # Dash
  <2>1. SUFFICES ASSUME text = Dash PROVE FALSE
    OBVIOUS
  <2>2. 1 \in 1..Len(text) /\ text[1] = 45
    BY ONLY <2>1 DEF Dash
  <2>3. text[1] \in Digit
    BY ONLY <1>2, <2>2, text = Decimal[n], ElementOfSeq
  <2> QED
    BY ONLY <2>2, <2>3 DEF Digit
<1>4. Decimal[n] = Decimal[j] => n = j
  BY ONLY <1>1, DecimalInjective
<1> QED
  BY <1>3, <1>4

LEMMA AlikeAcks ==
    ASSUME NEW m \in Acks, NEW k \in Acks, m.type = k.type
    PROVE  Alike(m, k) <=> Fields(m) = Fields(k)
<1>1. /\ m.type \in {"Ack", "CancelAck"}
      /\ m.user_id \in Numbers /\ m.user_order_id \in Numbers
      /\ k.user_id \in Numbers /\ k.user_order_id \in Numbers
  BY DEF Acks
<1>2. /\ SaidFields(m) = {"type", "user_id", "user_order_id", "symbol"}
      /\ SaidFields(k) = {"type", "user_id", "user_order_id", "symbol"}
  BY ONLY <1>1, m.type = k.type DEF SaidFields
<1>3. Alike(m, k) <=> m.user_id = k.user_id /\ m.user_order_id = k.user_order_id
  BY <1>2 DEF Alike
<1>. PICK a, b, c, d : /\ a = Decimal[m.user_id] /\ b = Decimal[m.user_order_id]
                       /\ c = Decimal[k.user_id] /\ d = Decimal[k.user_order_id]
  OBVIOUS
<1>4. Fields(m) = <<a, b>> /\ Fields(k) = <<c, d>>
  BY AckColumns DEF AckFields
<1>5. <<a, b>> = <<c, d>> <=> a = c /\ b = d
  OBVIOUS
<1>6. a = c <=> m.user_id = k.user_id
  BY <1>1, NumberSame
<1>7. b = d <=> m.user_order_id = k.user_order_id
  BY <1>1, NumberSame
<1> QED
  BY ONLY <1>3, <1>4, <1>5, <1>6, <1>7

LEMMA AlikeTrades ==
    ASSUME NEW m \in Trades, NEW k \in Trades
    PROVE  Alike(m, k) <=> Fields(m) = Fields(k)
<1>1. /\ m.type = "Trade" /\ k.type = "Trade"
      /\ m.user_id_buy \in Numbers /\ m.user_order_id_buy \in Numbers
      /\ m.user_id_sell \in Numbers /\ m.user_order_id_sell \in Numbers
      /\ m.price \in Numbers /\ m.quantity \in Numbers
      /\ k.user_id_buy \in Numbers /\ k.user_order_id_buy \in Numbers
      /\ k.user_id_sell \in Numbers /\ k.user_order_id_sell \in Numbers
      /\ k.price \in Numbers /\ k.quantity \in Numbers
  BY DEF Trades
<1>2. /\ SaidFields(m) = {"type", "symbol", "user_id_buy", "user_order_id_buy",
                          "user_id_sell", "user_order_id_sell", "price", "quantity"}
      /\ SaidFields(k) = SaidFields(m)
  BY ONLY <1>1 DEF SaidFields
<1>3. Alike(m, k) <=> /\ m.user_id_buy = k.user_id_buy
                      /\ m.user_order_id_buy = k.user_order_id_buy
                      /\ m.user_id_sell = k.user_id_sell
                      /\ m.user_order_id_sell = k.user_order_id_sell
                      /\ m.price = k.price /\ m.quantity = k.quantity
  BY <1>1, <1>2 DEF Alike
<1>. PICK a1, a2, a3, a4, a5, a6 :
       /\ a1 = Decimal[m.user_id_buy] /\ a2 = Decimal[m.user_order_id_buy]
       /\ a3 = Decimal[m.user_id_sell] /\ a4 = Decimal[m.user_order_id_sell]
       /\ a5 = Decimal[m.price] /\ a6 = Decimal[m.quantity]
  OBVIOUS
<1>. PICK b1, b2, b3, b4, b5, b6 :
       /\ b1 = Decimal[k.user_id_buy] /\ b2 = Decimal[k.user_order_id_buy]
       /\ b3 = Decimal[k.user_id_sell] /\ b4 = Decimal[k.user_order_id_sell]
       /\ b5 = Decimal[k.price] /\ b6 = Decimal[k.quantity]
  OBVIOUS
<1>4. Fields(m) = <<a1, a2, a3, a4, a5, a6>> /\ Fields(k) = <<b1, b2, b3, b4, b5, b6>>
  BY TradeColumns DEF TradeFields
<1>5. <<a1, a2, a3, a4, a5, a6>> = <<b1, b2, b3, b4, b5, b6>>
        <=> a1 = b1 /\ a2 = b2 /\ a3 = b3 /\ a4 = b4 /\ a5 = b5 /\ a6 = b6
  BY ONLY TRUE
<1>6. /\ a1 = b1 <=> m.user_id_buy = k.user_id_buy
      /\ a2 = b2 <=> m.user_order_id_buy = k.user_order_id_buy
      /\ a3 = b3 <=> m.user_id_sell = k.user_id_sell
      /\ a4 = b4 <=> m.user_order_id_sell = k.user_order_id_sell
      /\ a5 = b5 <=> m.price = k.price
      /\ a6 = b6 <=> m.quantity = k.quantity
  BY <1>1, NumberSame
<1> QED
  BY ONLY <1>3, <1>4, <1>5, <1>6

LEMMA AlikeTops ==
    ASSUME NEW m \in Tops, NEW k \in Tops
    PROVE  Alike(m, k) <=> Fields(m) = Fields(k)
<1>1. /\ m.type = "TopOfBook" /\ k.type = "TopOfBook"
      /\ m.side \in {"Buy", "Sell"} /\ k.side \in {"Buy", "Sell"}
      /\ m.eliminated \in BOOLEAN /\ k.eliminated \in BOOLEAN
      /\ m.price \in Numbers /\ m.total_quantity \in Numbers
      /\ k.price \in Numbers /\ k.total_quantity \in Numbers
  BY DEF Tops
<1>2. ASSUME NEW msg \in {m, k}
      PROVE  SaidFields(msg) = IF msg.eliminated THEN {"type", "symbol", "side"}
               ELSE {"type", "symbol", "side", "eliminated", "price", "total_quantity"}
  BY <1>1 DEF SaidFields
<1>. PICK a, p, q : /\ a = <<SideLetter[m.side]>>
                    /\ p = Decimal[m.price] /\ q = Decimal[m.total_quantity]
  OBVIOUS
<1>. PICK b, r, s : /\ b = <<SideLetter[k.side]>>
                    /\ r = Decimal[k.price] /\ s = Decimal[k.total_quantity]
  OBVIOUS
<1>3. a = b <=> m.side = k.side
  <2>. PICK c, d : c = SideLetter[m.side] /\ d = SideLetter[k.side]
    OBVIOUS
  <2>1. c = d <=> m.side = k.side
    BY <1>1 DEF SideLetter, Letter
  <2>2. <<c>> = <<d>> <=> c = d
    OBVIOUS
  <2> QED
    BY <2>1, <2>2
<1>4. /\ p = r <=> m.price = k.price
      /\ q = s <=> m.total_quantity = k.total_quantity
      /\ p # Dash /\ r # Dash
  BY <1>1, NumberSame
<1>5. /\ Fields(m) = IF m.eliminated THEN <<a, Dash, Dash>> ELSE <<a, p, q>>
      /\ Fields(k) = IF k.eliminated THEN <<b, Dash, Dash>> ELSE <<b, r, s>>
  BY TopColumns DEF TopFields
<1>6. /\ <<a, Dash, Dash>> = <<b, Dash, Dash>> <=> a = b
      /\ <<a, p, q>> = <<b, r, s>> <=> a = b /\ p = r /\ q = s
      /\ <<a, Dash, Dash>> = <<b, r, s>> <=> a = b /\ Dash = r /\ Dash = s
      /\ <<a, p, q>> = <<b, Dash, Dash>> <=> a = b /\ p = Dash /\ q = Dash
  BY ONLY TRUE
<1>7. CASE m.eliminated /\ k.eliminated
  <2>1. /\ SaidFields(m) = {"type", "symbol", "side"}
        /\ SaidFields(k) = {"type", "symbol", "side"}
    BY <1>2, <1>7
  <2>2. Alike(m, k) <=> m.side = k.side
    BY <1>1, <2>1 DEF Alike
  <2>3. Fields(m) = <<a, Dash, Dash>> /\ Fields(k) = <<b, Dash, Dash>>
    BY <1>5, <1>7
  <2> QED
    BY ONLY <1>3, <1>6, <2>2, <2>3
<1>8. CASE ~m.eliminated /\ ~k.eliminated
  <2>1. /\ SaidFields(m) = {"type", "symbol", "side", "eliminated", "price",
                            "total_quantity"}
        /\ SaidFields(k) = SaidFields(m)
    BY <1>2, <1>8
  <2>2. m.eliminated = k.eliminated
    BY ONLY <1>1, <1>8
  <2>3. Alike(m, k) <=> /\ m.side = k.side /\ m.price = k.price
                        /\ m.total_quantity = k.total_quantity
    BY <1>1, <2>1, <2>2, Zenon DEF Alike
  <2>4. Fields(m) = <<a, p, q>> /\ Fields(k) = <<b, r, s>>
    BY <1>5, <1>8
  <2> QED
    BY ONLY <1>3, <1>4, <1>6, <2>3, <2>4
<1>9. CASE m.eliminated /\ ~k.eliminated
  <2>1. "price" \notin SaidFields(m) /\ "price" \in SaidFields(k)
    <3>1. SaidFields(m) = {"type", "symbol", "side"}
      BY <1>2, <1>9
    <3>2. SaidFields(k) = {"type", "symbol", "side", "eliminated", "price",
                              "total_quantity"}
      BY <1>2, <1>9
    <3> QED
      BY ONLY <3>1, <3>2
  <2>2. Fields(m) = <<a, Dash, Dash>> /\ Fields(k) = <<b, r, s>>
    BY <1>5, <1>9
  <2>3. ~Alike(m, k)
    BY ONLY <2>1 DEF Alike
  <2> QED
    BY ONLY <1>4, <1>6, <2>2, <2>3
<1>10. CASE ~m.eliminated /\ k.eliminated
  <2>1. "price" \in SaidFields(m) /\ "price" \notin SaidFields(k)
    <3>1. SaidFields(k) = {"type", "symbol", "side"}
      BY <1>2, <1>10
    <3>2. SaidFields(m) = {"type", "symbol", "side", "eliminated", "price",
                              "total_quantity"}
      BY <1>2, <1>10
    <3> QED
      BY ONLY <3>1, <3>2
  <2>2. Fields(m) = <<a, p, q>> /\ Fields(k) = <<b, Dash, Dash>>
    BY <1>5, <1>10
  <2>3. ~Alike(m, k)
    BY ONLY <2>1 DEF Alike
  <2> QED
    BY ONLY <1>4, <1>6, <2>2, <2>3
<1> QED
  BY <1>1, <1>7, <1>8, <1>9, <1>10

\* Messages are alike exactly if their types and their fields are the same.
LEMMA AlikeFields ==
    ASSUME NEW m \in OutputMessages, NEW k \in OutputMessages
    PROVE  Alike(m, k) <=> m.type = k.type /\ Fields(m) = Fields(k)
<1>1. Alike(m, k) => m.type = k.type
  <2>1. "type" \in SaidFields(m)
    BY DEF SaidFields
  <2>2. Alike(m, k) => m["type"] = k["type"]
    BY <2>1 DEF Alike
  <2> QED
    BY <2>2
<1>2. ASSUME m.type = k.type
      PROVE  Alike(m, k) <=> Fields(m) = Fields(k)
  <2>1. (m \in Acks /\ k \in Acks) \/ (m \in Trades /\ k \in Trades)
        \/ (m \in Tops /\ k \in Tops)
    BY <1>2, OutputKinds
  <2> QED
    BY ONLY <1>2, <2>1, AlikeAcks, AlikeTrades, AlikeTops
<1> QED
  BY <1>1, <1>2

\* Two images of a finite set, by functions that tell the same elements apart,
\* have the same number of elements.
LEMMA SameNumber ==
    ASSUME NEW S, IsFiniteSet(S), NEW T, NEW U, NEW f \in Surjection(S, T),
           NEW g \in Surjection(S, U),
           \A x \in S : \A y \in S : f[x] = f[y] <=> g[x] = g[y]
    PROVE  Cardinality(T) = Cardinality(U)
<1>1. f \in [S -> T] /\ g \in [S -> U]
      /\ (\A t \in T : \E x \in S : f[x] = t) /\ (\A u \in U : \E x \in S : g[x] = u)
  BY DEF Surjection
<1>2. IsFiniteSet(T)
  BY FS_Surjection
<1> DEFINE of == [t \in T |-> CHOOSE x \in S : f[x] = t]
           h  == [t \in T |-> g[of[t]]]
<1>3. \A t \in T : of[t] \in S /\ f[of[t]] = t
  BY <1>1
<1> HIDE DEF of
<1>4. h \in [T -> U] /\ \A t \in T : h[t] = g[of[t]]
  BY <1>1, <1>3
<1> HIDE DEF h
<1>5. \A t \in T : \A u \in T : h[t] = h[u] => t = u
  <2>1. ASSUME NEW t \in T, NEW u \in T, h[t] = h[u]
        PROVE  t = u
    <3>1. g[of[t]] = g[of[u]]
      BY <1>4, <2>1
    <3>2. f[of[t]] = f[of[u]]
      BY <1>3, <3>1
    <3> QED
      BY <1>3, <3>2
  <2> QED
    BY <2>1
<1>6. \A u \in U : \E t \in T : h[t] = u
  <2>1. ASSUME NEW u \in U
        PROVE  \E t \in T : h[t] = u
    <3>1. PICK x \in S : g[x] = u
      BY <1>1
    <3>2. f[x] \in T
      BY <1>1
    <3>3. f[of[f[x]]] = f[x] /\ of[f[x]] \in S
      BY <1>3, <3>2
    <3>4. g[of[f[x]]] = g[x]
      BY <3>3
    <3> QED
      BY <1>4, <3>1, <3>2, <3>4
  <2> QED
    BY <2>1
<1>7. h \in Bijection(T, U)
  BY <1>4, <1>5, <1>6 DEF Bijection, Injection, Surjection, IsInjective
<1>8. ExistsBijection(T, U)
  BY <1>7 DEF ExistsBijection
<1> QED
  BY <1>2, <1>8, FS_Bijection

\* Whatever the numbers and the symbols: in CSV no two messages that say
\* different things are formatted alike, and in the legacy format none that
\* differ in more than the symbol; messages that say the same are formatted the
\* same (format_output_csv, format_output_legacy).
THEOREM LinesTellApart ==
    ASSUME NEW m \in OutputMessages, NEW k \in OutputMessages
    PROVE  /\ FormatOutputCsv(m) = FormatOutputCsv(k) <=> Said(m) = Said(k)
           /\ FormatOutputLegacy(m) = FormatOutputLegacy(k)
                <=> SaidLegacy(m) = SaidLegacy(k)
<1>1. FormatOutputCsv(m) = FormatOutputCsv(k)
        <=> m.type = k.type /\ Fields(m) = Fields(k) /\ m.symbol = k.symbol
  BY CsvTellsApart
<1>2. FormatOutputLegacy(m) = FormatOutputLegacy(k)
        <=> m.type = k.type /\ Fields(m) = Fields(k)
  BY LegacyTellsApart
<1>3. /\ SaidLegacy(m) = SaidLegacy(k) <=> Alike(m, k)
      /\ Said(m) = Said(k) <=> Alike(m, k) /\ m.symbol = k.symbol
  BY SaidAlike
<1>4. Alike(m, k) <=> m.type = k.type /\ Fields(m) = Fields(k)
  BY AlikeFields
<1> QED
  BY ONLY <1>1, <1>2, <1>3, <1>4

-----------------------------------------------------------------------------
(* There are finitely many output messages.                                *)

\* The numbers are 32 bits wide, so there are finitely many.
LEMMA NumbersFinite == IsFiniteSet(Numbers)
<1>1. ASSUME NEW n \in Numbers PROVE n <= 4294967296
  <2>1. n \in Nat /\ U32(n)[1] \in Bytes
    BY BinaryCodecAssumption, NumbersAssumption
  <2>. PICK m, l, k : m = n \div 256 /\ l = m \div 256 /\ k = l \div 256
    OBVIOUS
  <2>2. m \in Nat /\ n % 256 \in Bytes /\ n = m * 256 + (n % 256)
    BY <2>1, LowByte
  <2>3. l \in Nat /\ m % 256 \in Bytes /\ m = l * 256 + (m % 256)
    BY <2>2, LowByte
  <2>4. k \in Nat /\ l % 256 \in Bytes /\ l = k * 256 + (l % 256)
    BY <2>3, LowByte
  <2>5. U32(n) = <<k, l % 256, m % 256, n % 256>>
    BY DEF U32
  <2>6. k \in Bytes
    BY <2>1, <2>5
  <2>. PICK x, y, z : x = n % 256 /\ y = m % 256 /\ z = l % 256
    OBVIOUS
  <2>7. /\ x \in 0..255 /\ y \in 0..255 /\ z \in 0..255 /\ k \in 0..255
        /\ n = m * 256 + x /\ m = l * 256 + y /\ l = k * 256 + z
        /\ m \in Nat /\ l \in Nat /\ n \in Nat
    BY <2>1, <2>2, <2>3, <2>4, <2>6 DEF Bytes
  <2> QED
    BY ONLY <2>7
<1>2. Numbers \in SUBSET Nat
  BY BinaryCodecAssumption
<1>3. 4294967296 \in Nat
  OBVIOUS
<1> QED
  BY ONLY <1>1, <1>2, <1>3, FS_BoundedSetOfNaturals

LEMMA SmallFinite ==
    /\ IsFiniteSet({"Ack", "CancelAck"})
    /\ IsFiniteSet({"Buy", "Sell"})
    /\ IsFiniteSet(BOOLEAN)
<1>1. \A x : \A y : IsFiniteSet({x} \cup {y})
  BY FS_Singleton, FS_Union
<1>2. /\ {"Ack", "CancelAck"} = {"Ack"} \cup {"CancelAck"}
      /\ {"Buy", "Sell"} = {"Buy"} \cup {"Sell"}
      /\ BOOLEAN = {TRUE} \cup {FALSE}
  OBVIOUS
<1>3. IsFiniteSet({"Ack"} \cup {"CancelAck"})
  BY ONLY <1>1
<1>4. IsFiniteSet({"Buy"} \cup {"Sell"})
  BY ONLY <1>1
<1>5. IsFiniteSet({TRUE} \cup {FALSE})
  BY ONLY <1>1, Zenon
<1> QED
  BY ONLY <1>2, <1>3, <1>4, <1>5, Zenon

LEMMA AcksFinite ==
    ASSUME IsFiniteSet(Symbols)
    PROVE  IsFiniteSet(Acks)
<1> DEFINE S == ({"Ack", "CancelAck"} \X Numbers) \X (Numbers \X Symbols)
           f == [p \in S |-> [type |-> p[1][1], user_id |-> p[1][2],
                              user_order_id |-> p[2][1], symbol |-> p[2][2]]]
<1>1. IsFiniteSet(S)
  BY ONLY IsFiniteSet(Symbols), NumbersFinite, SmallFinite, FS_Product
<1>2. f \in [S -> Acks]
  BY DEF Acks
<1>3. ASSUME NEW a \in Acks PROVE \E p \in S : f[p] = a
  <2>1. /\ a.type \in {"Ack", "CancelAck"} /\ a.user_id \in Numbers
        /\ a.user_order_id \in Numbers /\ a.symbol \in Symbols
        /\ a = [type |-> a.type, user_id |-> a.user_id,
                user_order_id |-> a.user_order_id, symbol |-> a.symbol]
    BY DEF Acks
  <2>. PICK p : p = <<<<a.type, a.user_id>>, <<a.user_order_id, a.symbol>>>>
    OBVIOUS
  <2>2. p \in S
    BY <2>1
  <2>3. f[p] = a
    BY <2>1, <2>2
  <2> QED
    BY <2>2, <2>3
<1> HIDE DEF S, f
<1>4. f \in Surjection(S, Acks)
  BY <1>2, <1>3 DEF Surjection
<1> QED
  BY ONLY <1>1, <1>4, FS_Surjection

LEMMA TradesFinite ==
    ASSUME IsFiniteSet(Symbols)
    PROVE  IsFiniteSet(Trades)
<1> DEFINE N == Numbers \X Numbers
           S == (N \X N) \X (N \X Symbols)
           f == [p \in S |-> [type |-> "Trade", symbol |-> p[2][2],
                              user_id_buy |-> p[1][1][1], user_order_id_buy |-> p[1][1][2],
                              user_id_sell |-> p[1][2][1], user_order_id_sell |-> p[1][2][2],
                              price |-> p[2][1][1], quantity |-> p[2][1][2]]]
<1>1. IsFiniteSet(S)
  <2>1. IsFiniteSet(N)
    BY ONLY NumbersFinite, FS_Product
  <2> HIDE DEF N
  <2>2. IsFiniteSet(N \X N) /\ IsFiniteSet(N \X Symbols)
    BY ONLY <2>1, IsFiniteSet(Symbols), FS_Product
  <2> QED
    BY ONLY <2>2, FS_Product
<1>2. f \in [S -> Trades]
  BY DEF Trades
<1>3. ASSUME NEW a \in Trades PROVE \E p \in S : f[p] = a
  <2>1. /\ a.user_id_buy \in Numbers /\ a.user_order_id_buy \in Numbers
        /\ a.user_id_sell \in Numbers /\ a.user_order_id_sell \in Numbers
        /\ a.price \in Numbers /\ a.quantity \in Numbers /\ a.symbol \in Symbols
        /\ a = [type |-> "Trade", symbol |-> a.symbol,
                user_id_buy |-> a.user_id_buy, user_order_id_buy |-> a.user_order_id_buy,
                user_id_sell |-> a.user_id_sell,
                user_order_id_sell |-> a.user_order_id_sell,
                price |-> a.price, quantity |-> a.quantity]
    BY DEF Trades
  <2>. PICK p : p = <<<<<<a.user_id_buy, a.user_order_id_buy>>,
                        <<a.user_id_sell, a.user_order_id_sell>>>>,
                      <<<<a.price, a.quantity>>, a.symbol>>>>
    OBVIOUS
  <2>2. p \in S
    BY <2>1
  <2>3. f[p] = a
    BY <2>1, <2>2
  <2> QED
    BY <2>2, <2>3
<1> HIDE DEF S, f
<1>4. f \in Surjection(S, Trades)
  BY <1>2, <1>3 DEF Surjection
<1> QED
  BY ONLY <1>1, <1>4, FS_Surjection

LEMMA TopsFinite ==
    ASSUME IsFiniteSet(Symbols)
    PROVE  IsFiniteSet(Tops)
<1> DEFINE S == ({"Buy", "Sell"} \X BOOLEAN) \X ((Numbers \X Numbers) \X Symbols)
           f == [p \in S |-> [type |-> "TopOfBook", symbol |-> p[2][2], side |-> p[1][1],
                              eliminated |-> p[1][2], price |-> p[2][1][1],
                              total_quantity |-> p[2][1][2]]]
<1>1. IsFiniteSet(S)
  <2>1. IsFiniteSet(Numbers \X Numbers) /\ IsFiniteSet({"Buy", "Sell"} \X BOOLEAN)
    BY ONLY NumbersFinite, SmallFinite, FS_Product
  <2>2. IsFiniteSet((Numbers \X Numbers) \X Symbols)
    BY ONLY <2>1, IsFiniteSet(Symbols), FS_Product
  <2> QED
    BY ONLY <2>1, <2>2, FS_Product
<1>2. f \in [S -> Tops]
  BY DEF Tops
<1>3. ASSUME NEW a \in Tops PROVE \E p \in S : f[p] = a
  <2>1. /\ a.side \in {"Buy", "Sell"} /\ a.eliminated \in BOOLEAN
        /\ a.price \in Numbers /\ a.total_quantity \in Numbers /\ a.symbol \in Symbols
        /\ a = [type |-> "TopOfBook", symbol |-> a.symbol, side |-> a.side,
                eliminated |-> a.eliminated, price |-> a.price,
                total_quantity |-> a.total_quantity]
    BY DEF Tops
  <2>. PICK p : p = <<<<a.side, a.eliminated>>,
                      <<<<a.price, a.total_quantity>>, a.symbol>>>>
    OBVIOUS
  <2>2. p \in S
    BY <2>1
  <2>3. f[p] = a
    BY <2>1, <2>2
  <2> QED
    BY <2>2, <2>3
<1> HIDE DEF S, f
<1>4. f \in Surjection(S, Tops)
  BY <1>2, <1>3 DEF Surjection
<1> QED
  BY ONLY <1>1, <1>4, FS_Surjection

LEMMA OutputFinite ==
    ASSUME IsFiniteSet(Symbols)
    PROVE  IsFiniteSet(OutputMessages)
<1>1. IsFiniteSet(Acks \cup Trades)
  BY ONLY IsFiniteSet(Symbols), AcksFinite, TradesFinite, FS_Union
<1>2. IsFiniteSet((Acks \cup Trades) \cup Tops)
  BY ONLY <1>1, IsFiniteSet(Symbols), TopsFinite, FS_Union
<1> QED
  BY <1>2, OutputKinds
=============================================================================
