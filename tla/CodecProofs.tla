----------------------------- MODULE CodecProofs -----------------------------
(***************************************************************************)
(* The codecs, for any input.  Base64: what base64Encode packs is what     *)
(* base64Decode unpacks, and both decoders deliver the bytes in the bits   *)
(* of the characters.  Gzip: gzdecode stays inside its blocks, releases    *)
(* all it allocates and reads exactly the streams it can, and              *)
(* compress_gzip copies the whole stream, for any width of uInt and any    *)
(* size of the block.                                                      *)
(***************************************************************************)
EXTENDS Base64, Gzip, SequenceTheorems, WellFoundedInduction, TLAPS

-----------------------------------------------------------------------------
(* Base64: packing and unpacking *)

Byte  == 0 .. 255
Value == 0 .. 63

\* Each character of the alphabet is found again.
LEMMA CharIsFound ==
    ASSUME NEW v \in Value
    PROVE  IsBase64(Char(v)) /\ find(Char(v)) = v
BY DEF Value, IsBase64, Char, find

LEMMA PadIsNoChar == ~IsBase64(pad)
BY DEF IsBase64, pad

\* The four values of three bytes.
V1(x)    == x \div 4
V2(x, y) == (x % 4) * 16 + (y \div 16)
V3(y, z) == (y % 16) * 4 + (z \div 64)
V4(z)    == z % 64

LEMMA ValuesFit ==
    ASSUME NEW x \in Byte, NEW y \in Byte, NEW z \in Byte
    PROVE  V1(x) \in Value /\ V2(x, y) \in Value /\ V3(y, z) \in Value
           /\ V4(z) \in Value
BY DEF Byte, Value, V1, V2, V3, V4

\* Each byte is in the values that it went into, whatever the others are.
LEMMA FirstByte ==
    ASSUME NEW x \in Byte, NEW y \in Byte, NEW c \in Byte, NEW d \in Byte
    PROVE  Triple(V1(x), V2(x, y), c, d)[1] = x
BY DEF Byte, V1, V2, Triple

LEMMA SecondByte ==
    ASSUME NEW x \in Byte, NEW y \in Byte, NEW z \in Byte,
           NEW a \in Byte, NEW d \in Byte
    PROVE  Triple(a, V2(x, y), V3(y, z), d)[2] = y
BY DEF Byte, V2, V3, Triple

LEMMA ThirdByte ==
    ASSUME NEW y \in Byte, NEW z \in Byte, NEW a \in Byte, NEW b \in Byte
    PROVE  Triple(a, b, V3(y, z), V4(z))[3] = z
BY DEF Byte, V3, V4, Triple

-----------------------------------------------------------------------------
(* The invariant *)

\* The four characters of the group k of the data are in their place.
GroupAt(k) ==
    /\ text[4*k + 1] = Char(V1(data[3*k + 1]))
    /\ text[4*k + 2] = Char(V2(data[3*k + 1], data[3*k + 2]))
    /\ text[4*k + 3] = Char(V3(data[3*k + 2], data[3*k + 3]))
    /\ text[4*k + 4] = Char(V4(data[3*k + 3]))

\* g groups are in the text (wp_base64.cpp:19-35).
Grouped(g) == \A k \in Nat : k < g => GroupAt(k)

\* The r bytes after them are, too, with their padding (wp_base64.cpp:37-59).
TailAt(g, r) ==
    /\ r = 0 => Len(text) = 4*g
    /\ r > 0 => Len(text) = 4*g + 4
    /\ r = 1 => /\ text[4*g + 1] = Char(V1(data[3*g + 1]))
                /\ text[4*g + 2] = Char(V2(data[3*g + 1], 0))
                /\ text[4*g + 3] = pad
    /\ r = 2 => /\ text[4*g + 1] = Char(V1(data[3*g + 1]))
                /\ text[4*g + 2] = Char(V2(data[3*g + 1], data[3*g + 2]))
                /\ text[4*g + 3] = Char(V3(data[3*g + 2], 0))
                /\ text[4*g + 4] = pad

\* h groups have been unpacked and the next has begun (wp_base64.cpp:73-93).
Unpacked(h) ==
    /\ Len(out) = 3*h /\ \A i \in 1 .. 3*h : out[i] = data[i]
    /\ in = 4*h + Len(four) /\ Len(four) <= 3 /\ in <= Len(text)
    /\ \A j \in 1 .. Len(four) : four[j] = text[4*h + j] /\ IsBase64(four[j])

Encoding ==
    /\ in = 0 /\ four = << >> /\ out = << >>
    /\ \E g \in Nat : /\ at = 3*g /\ 3*g <= Len(data)
                      /\ Len(text) = 4*g /\ Grouped(g)

Decoding ==
    \E g \in Nat, r \in 0 .. 2, h \in Nat :
        /\ Len(data) = 3*g + r
        /\ Grouped(g) /\ TailAt(g, r)
        /\ h <= g /\ Unpacked(h)

Base64Inv ==
    /\ packed \in BOOLEAN
    /\ data \in Seq(Byte) /\ text \in Seq(Nat)
    /\ four \in Seq(Nat) /\ in \in Nat
    /\ codec \in {"encode", "decode"} => out \in Seq(Nat)
    /\ codec = "idle" => /\ ~packed /\ at = 0 /\ text = << >>
                         /\ in = 0 /\ four = << >> /\ out = << >>
    /\ codec = "encode" => packed
    /\ packed => /\ codec = "encode" => Encoding
                 /\ codec = "decode" => Decoding
                 /\ codec = "decoded" => out = data

USE BytesAssumption, CharsAssumption, RoomAssumption

LEMMA Appended ==
    ASSUME NEW s \in Seq(Nat), NEW t \in Seq(Nat)
    PROVE  /\ s \o t \in Seq(Nat) /\ Len(s \o t) = Len(s) + Len(t)
           /\ \A i \in 1 .. Len(s) : (s \o t)[i] = s[i]
           /\ \A j \in 1 .. Len(t) : (s \o t)[Len(s) + j] = t[j]
BY ConcatProperties

LEMMA DatasAreBytes ==
    ASSUME NEW d \in Datas
    PROVE  d \in Seq(Byte)
<1>1. PICK n \in 0 .. MaxBytes : d \in [1 .. n -> Bytes]
  BY DEF Datas
<1>2. n \in Nat /\ Bytes \subseteq Byte
  BY DEF Byte
<1>3. d \in [1 .. n -> Byte]
  BY <1>1, <1>2
<1> QED
  BY <1>2, <1>3, SeqDef

LEMMA TextsAreCodes ==
    ASSUME NEW t \in FreeTexts
    PROVE  t \in Seq(Nat)
<1>1. PICK n \in 0 .. MaxChars : t \in [1 .. n -> Chars]
  BY DEF FreeTexts
<1>2. n \in Nat /\ Chars \subseteq Nat
  OBVIOUS
<1>3. t \in [1 .. n -> Nat]
  BY <1>1, <1>2
<1> QED
  BY <1>2, <1>3, SeqDef

LEMMA FoundIsByte == ASSUME NEW c \in Nat PROVE find(c) \in Byte
BY DEF find, Byte

LEMMA TripleIsBytes ==
    ASSUME NEW a \in Byte, NEW b \in Byte, NEW c \in Byte, NEW d \in Byte
    PROVE  /\ Triple(a, b, c, d) \in Seq(Nat) /\ Len(Triple(a, b, c, d)) = 3
BY DEF Triple, Byte

LEMMA CharIsCode == ASSUME NEW v \in Value PROVE Char(v) \in Nat
BY DEF Char, Value

LEMMA QuadIsText ==
    ASSUME NEW x \in Byte, NEW y \in Byte, NEW z \in Byte
    PROVE  /\ Quad(x, y, z) \in Seq(Nat) /\ Len(Quad(x, y, z)) = 4
           /\ Quad(x, y, z)[1] = Char(V1(x)) /\ Quad(x, y, z)[2] = Char(V2(x, y))
           /\ Quad(x, y, z)[3] = Char(V3(y, z)) /\ Quad(x, y, z)[4] = Char(V4(z))
<1>1. /\ Char(V1(x)) \in Nat /\ Char(V2(x, y)) \in Nat
      /\ Char(V3(y, z)) \in Nat /\ Char(V4(z)) \in Nat
  BY ValuesFit, CharIsCode
<1>2. Quad(x, y, z) = <<Char(V1(x)), Char(V2(x, y)), Char(V3(y, z)), Char(V4(z))>>
  BY DEF Quad, V1, V2, V3, V4
<1> QED
  BY <1>1, <1>2

-----------------------------------------------------------------------------
(* base64Encode *)

LEMMA EncodeGroupKeeps ==
    ASSUME Base64Inv, EncodeGroup
    PROVE  Base64Inv'
<1>1. /\ codec' = codec /\ packed' = packed /\ data' = data
      /\ in' = in /\ four' = four /\ out' = out
      /\ codec = "encode" /\ Len(data) - at >= 3 /\ at' = at + 3
      /\ text' = text \o Quad(data[at + 1], data[at + 2], data[at + 3])
  BY DEF EncodeGroup
<1>2. /\ packed /\ Encoding /\ data \in Seq(Byte) /\ text \in Seq(Nat)
      /\ Len(data) \in Nat
  BY <1>1 DEF Base64Inv
<1>3. PICK g \in Nat : /\ at = 3*g /\ 3*g <= Len(data)
                       /\ Len(text) = 4*g /\ Grouped(g)
  BY <1>2 DEF Encoding
<1> DEFINE x == data[3*g + 1]  y == data[3*g + 2]  z == data[3*g + 3]
           q == Quad(x, y, z)
<1>4. x \in Byte /\ y \in Byte /\ z \in Byte
  BY <1>1, <1>2, <1>3
<1>5. text' = text \o q
  BY <1>1, <1>3
<1>6. /\ q \in Seq(Nat) /\ Len(q) = 4
      /\ q[1] = Char(V1(x)) /\ q[2] = Char(V2(x, y))
      /\ q[3] = Char(V3(y, z)) /\ q[4] = Char(V4(z))
  BY <1>4, QuadIsText
<1> HIDE DEF q
<1>7. /\ text' \in Seq(Nat) /\ Len(text') = Len(text) + 4
      /\ \A i \in 1 .. Len(text) : text'[i] = text[i]
      /\ \A j \in 1 .. 4 : text'[Len(text) + j] = q[j]
  <2>1. text \in Seq(Nat) /\ q \in Seq(Nat) /\ Len(q) = 4
    BY <1>2, <1>6
  <2>2. /\ text \o q \in Seq(Nat) /\ Len(text \o q) = Len(text) + Len(q)
        /\ \A i \in 1 .. Len(text) : (text \o q)[i] = text[i]
        /\ \A j \in 1 .. Len(q) : (text \o q)[Len(text) + j] = q[j]
    BY ONLY <2>1, Appended
  <2> QED
    BY ONLY <2>1, <2>2, <1>5
<1>8. GroupAt(g)'
  <2>1. /\ text'[4*g + 1] = q[1] /\ text'[4*g + 2] = q[2]
        /\ text'[4*g + 3] = q[3] /\ text'[4*g + 4] = q[4]
    BY ONLY <1>3, <1>7
  <2> QED
    BY ONLY <2>1, <1>1, <1>6 DEF GroupAt
<1>9. Grouped(g + 1)'
  <2> SUFFICES ASSUME NEW k \in Nat, k < g + 1 PROVE GroupAt(k)'
    BY DEF Grouped
  <2>1. CASE k < g
    <3>1. GroupAt(k)
      BY <1>3, <2>1 DEF Grouped
    <3>2. 4*k + 1 \in 1 .. 4*g /\ 4*k + 2 \in 1 .. 4*g
          /\ 4*k + 3 \in 1 .. 4*g /\ 4*k + 4 \in 1 .. 4*g
      BY <2>1
    <3> QED
      BY ONLY <3>1, <3>2, <1>1, <1>3, <1>7 DEF GroupAt
  <2>2. CASE k = g
    BY <2>2, <1>8
  <2> QED
    BY <2>1, <2>2
<1>10. g + 1 \in Nat /\ at' = 3*(g + 1) /\ 3*(g + 1) <= Len(data')
       /\ Len(text') = 4*(g + 1)
  BY ONLY <1>1, <1>2, <1>3, <1>7
<1>11. Encoding'
  <2>1. in' = 0 /\ four' = << >> /\ out' = << >>
    BY <1>1, <1>2 DEF Encoding
  <2> QED
    BY <1>9, <1>10, <2>1 DEF Encoding
<1> QED
  BY <1>1, <1>2, <1>7, <1>11 DEF Base64Inv

LEMMA FunctionsAreSeqs ==
    ASSUME NEW n \in Nat, NEW f \in [1 .. n -> Nat]
    PROVE  f \in Seq(Nat) /\ Len(f) = n
<1>1. f \in Seq(Nat)
  BY SeqDef
<1>2. Len(f) \in Nat /\ DOMAIN f = 1 .. Len(f) /\ DOMAIN f = 1 .. n
  BY <1>1, LenProperties
<1> QED
  BY <1>1, <1>2

LEMMA TailIsText ==
    ASSUME data \in Seq(Byte), at \in Nat, NEW n \in 1 .. 2, n = Len(data) - at
    PROVE  /\ Tail4 \in Seq(Nat) /\ Len(Tail4) = 4
           /\ Tail4[1] = Char(V1(data[at + 1]))
           /\ n = 1 => /\ Tail4[2] = Char(V2(data[at + 1], 0))
                       /\ Tail4[3] = pad
           /\ n = 2 => /\ Tail4[2] = Char(V2(data[at + 1], data[at + 2]))
                       /\ Tail4[3] = Char(V3(data[at + 2], 0))
                       /\ Tail4[4] = pad
<1>1. PICK y \in Byte : y = IF n = 2 THEN data[at + 2] ELSE 0
  <2>1. CASE n = 2
    BY <2>1
  <2>2. CASE n = 1
    BY <2>2 DEF Byte
  <2> QED
    BY <2>1, <2>2
<1>2. PICK x \in Byte : x = data[at + 1]
  OBVIOUS
<1>3. 0 \in Byte
  BY DEF Byte
<1>4. PICK q \in Seq(Nat) :
          /\ q = Quad(x, y, 0) /\ Len(q) = 4
          /\ q[1] = Char(V1(x)) /\ q[2] = Char(V2(x, y)) /\ q[3] = Char(V3(y, 0))
  BY <1>3, QuadIsText
<1>5. Tail4 = [j \in 1 .. 4 |-> IF j <= n + 1 THEN q[j] ELSE pad]
  <2>1. Tail4 = LET q0 == Quad(x, y, 0)
                IN  [j \in 1 .. 4 |-> IF j <= TailChars(n) THEN q0[j] ELSE pad]
    BY ONLY <1>1, <1>2, n = Len(data) - at DEF Tail4
  <2> QED
    BY ONLY <1>4, <2>1 DEF TailChars
<1>6. 1 .. Len(q) = 1 .. 4
  BY <1>4
<1>7. \A j \in 1 .. 4 : q[j] \in Nat
  BY <1>6, ElementOfSeq
<1>8. Tail4 \in [1 .. 4 -> Nat]
  BY <1>5, <1>7 DEF pad
<1>9. Tail4 \in Seq(Nat) /\ Len(Tail4) = 4
  BY <1>8, FunctionsAreSeqs
<1>10. /\ Tail4[1] = q[1] /\ Tail4[2] = q[2] /\ Tail4[4] = pad
       /\ Tail4[3] = IF n = 2 THEN q[3] ELSE pad
  BY ONLY <1>5, n \in 1 .. 2
<1> QED
  BY ONLY <1>1, <1>2, <1>4, <1>9, <1>10, n \in 1 .. 2

LEMMA EncodeEndKeeps ==
    ASSUME Base64Inv, EncodeEnd
    PROVE  Base64Inv'
<1>1. /\ packed' = packed /\ data' = data
      /\ in' = in /\ four' = four /\ out' = out
      /\ codec = "encode" /\ Len(data) - at < 3 /\ codec' \in {"decode", "fill"}
      /\ text' = IF at = Len(data) THEN text ELSE text \o Tail4
  BY DEF EncodeEnd
<1>2. /\ packed /\ Encoding /\ data \in Seq(Byte) /\ text \in Seq(Nat)
      /\ Len(data) \in Nat
  BY <1>1 DEF Base64Inv
<1>3. PICK g \in Nat : /\ at = 3*g /\ 3*g <= Len(data)
                       /\ Len(text) = 4*g /\ Grouped(g)
  BY <1>2 DEF Encoding
<1>4. PICK r \in 0 .. 2 : r = Len(data) - at /\ Len(data) = 3*g + r /\ at \in Nat
  BY <1>1, <1>2, <1>3
<1>5. /\ text' \in Seq(Nat)
      /\ \A i \in 1 .. 4*g : text'[i] = text[i]
      /\ TailAt(g, r)'
  <2>1. CASE r = 0
    <3>1. text' = text
      BY <1>1, <1>4, <2>1
    <3> QED
      BY <1>2, <1>3, <2>1, <3>1 DEF TailAt
  <2>2. CASE r \in 1 .. 2
    <3>1. Tail4 \in Seq(Nat) /\ Len(Tail4) = 4
      BY <1>2, <1>4, <2>2, TailIsText
    <3>6. text' = text \o Tail4
      BY <1>1, <1>4, <2>2
    <3>2. /\ text \o Tail4 \in Seq(Nat) /\ Len(text \o Tail4) = Len(text) + Len(Tail4)
          /\ \A i \in 1 .. Len(text) : (text \o Tail4)[i] = text[i]
          /\ \A j \in 1 .. Len(Tail4) : (text \o Tail4)[Len(text) + j] = Tail4[j]
      BY <1>2, <3>1, Appended
    <3>3. /\ text' \in Seq(Nat) /\ Len(text') = 4*g + 4
          /\ \A i \in 1 .. 4*g : text'[i] = text[i]
          /\ text'[4*g + 1] = Tail4[1] /\ text'[4*g + 2] = Tail4[2]
          /\ text'[4*g + 3] = Tail4[3] /\ text'[4*g + 4] = Tail4[4]
      <4>1. /\ text' \in Seq(Nat) /\ Len(text') = 4*g + 4
            /\ \A i \in 1 .. 4*g : text'[i] = text[i]
        BY ONLY <1>3, <3>1, <3>2, <3>6
      <4>2. \A j \in 1 .. 4 : text'[4*g + j] = Tail4[j]
        BY ONLY <1>3, <3>1, <3>2, <3>6
      <4> QED
        BY ONLY <4>1, <4>2
    <3>4. /\ Tail4[1] = Char(V1(data[3*g + 1]))
          /\ r = 1 => /\ Tail4[2] = Char(V2(data[3*g + 1], 0))
                      /\ Tail4[3] = pad
          /\ r = 2 => /\ Tail4[2] = Char(V2(data[3*g + 1], data[3*g + 2]))
                      /\ Tail4[3] = Char(V3(data[3*g + 2], 0))
                      /\ Tail4[4] = pad
      BY <1>2, <1>3, <1>4, <2>2, TailIsText
    <3>5. TailAt(g, r)'
      BY ONLY <2>2, <3>3, <3>4, <1>1 DEF TailAt
    <3> QED
      BY <3>3, <3>5
  <2> QED
    BY <1>4, <2>1, <2>2
<1>6. Grouped(g)'
  <2> SUFFICES ASSUME NEW k \in Nat, k < g PROVE GroupAt(k)'
    BY DEF Grouped
  <2>1. GroupAt(k)
    BY <1>3 DEF Grouped
  <2>2. 4*k + 1 \in 1 .. 4*g /\ 4*k + 2 \in 1 .. 4*g
        /\ 4*k + 3 \in 1 .. 4*g /\ 4*k + 4 \in 1 .. 4*g
    OBVIOUS
  <2> QED
    BY ONLY <2>1, <2>2, <1>1, <1>5 DEF GroupAt
<1>7. Unpacked(0)'
  <2>1. in' = 0 /\ four' = << >> /\ out' = << >>
    BY <1>1, <1>2 DEF Encoding
  <2>2. in' <= Len(text')
    BY <1>5, <2>1
  <2> QED
    BY <2>1, <2>2 DEF Unpacked
<1>8. Decoding'
  <2>1. Len(data') = 3*g + r /\ 0 \in Nat /\ 0 <= g
    BY <1>1, <1>4
  <2> QED
    BY <2>1, <1>5, <1>6, <1>7 DEF Decoding
<1> QED
  BY <1>1, <1>2, <1>5, <1>8 DEF Base64Inv

-----------------------------------------------------------------------------
(* base64Decode *)

\* The group h of the data comes out of the group h of the text.
LEMMA GroupUnpacks ==
    ASSUME data \in Seq(Byte), NEW h \in Nat, 3*h + 3 <= Len(data), GroupAt(h),
           NEW t, t = Triple(find(text[4*h + 1]), find(text[4*h + 2]),
                             find(text[4*h + 3]), find(text[4*h + 4]))
    PROVE  t[1] = data[3*h + 1] /\ t[2] = data[3*h + 2] /\ t[3] = data[3*h + 3]
<1>1. PICK x \in Byte, y \in Byte, z \in Byte :
          x = data[3*h + 1] /\ y = data[3*h + 2] /\ z = data[3*h + 3]
  OBVIOUS
<1>2. /\ V1(x) \in Value /\ V2(x, y) \in Value
      /\ V3(y, z) \in Value /\ V4(z) \in Value
  BY ValuesFit
<1>3. /\ find(text[4*h + 1]) = V1(x) /\ find(text[4*h + 2]) = V2(x, y)
      /\ find(text[4*h + 3]) = V3(y, z) /\ find(text[4*h + 4]) = V4(z)
  BY <1>1, <1>2, CharIsFound DEF GroupAt
<1>4. t = Triple(V1(x), V2(x, y), V3(y, z), V4(z))
  BY ONLY <1>3, t = Triple(find(text[4*h + 1]), find(text[4*h + 2]),
                           find(text[4*h + 3]), find(text[4*h + 4]))
<1>5. /\ V1(x) \in Byte /\ V2(x, y) \in Byte
      /\ V3(y, z) \in Byte /\ V4(z) \in Byte
  BY <1>2 DEF Value, Byte
<1>6. t[1] = x
  <2>1. Triple(V1(x), V2(x, y), V3(y, z), V4(z))[1] = x
    BY ONLY <1>5, FirstByte, x \in Byte, y \in Byte
  <2> QED
    BY ONLY <1>4, <2>1
<1>7. t[2] = y
  <2>1. Triple(V1(x), V2(x, y), V3(y, z), V4(z))[2] = y
    BY ONLY <1>5, SecondByte, x \in Byte, y \in Byte, z \in Byte
  <2> QED
    BY ONLY <1>4, <2>1
<1>8. t[3] = z
  BY ONLY <1>4, <1>5, ThirdByte, y \in Byte, z \in Byte
<1> QED
  BY <1>1, <1>6, <1>7, <1>8

\* After the last group comes no character of the alphabet that would complete
\* another one.
LEMMA NoFourthChar ==
    ASSUME NEW g \in Nat, NEW r \in 0 .. 2, TailAt(g, r),
           NEW n \in 0 .. 3, 4*g + n < Len(text), IsBase64(text[4*g + n + 1]),
           \A j \in 1 .. n : IsBase64(text[4*g + j])
    PROVE  r > 0 /\ n <= r
<1>1. r > 0
  BY DEF TailAt
<1>2. CASE r = 1
  <2>1. ~IsBase64(text[4*g + 3])
    BY <1>2, PadIsNoChar DEF TailAt
  <2>2. n = 2 => ~IsBase64(text[4*g + n + 1])
    BY <2>1
  <2>3. n = 3 => IsBase64(text[4*g + 3])
    OBVIOUS
  <2> QED
    BY <1>2, <2>1, <2>2, <2>3
<1>3. CASE r = 2
  <2>1. ~IsBase64(text[4*g + 4])
    BY <1>3, PadIsNoChar DEF TailAt
  <2>2. n = 3 => ~IsBase64(text[4*g + n + 1])
    BY <2>1
  <2> QED
    BY <1>3, <2>2
<1> QED
  BY <1>1, <1>2, <1>3

LEMMA DecodeCharTypes ==
    ASSUME Base64Inv, DecodeChar
    PROVE  four' \in Seq(Nat) /\ out' \in Seq(Nat) /\ in' \in Nat
<1>1. /\ in < Len(text) /\ in' = in + 1 /\ in \in Nat
      /\ text \in Seq(Nat) /\ four \in Seq(Nat) /\ out \in Seq(Nat)
  BY DEF DecodeChar, Base64Inv
<1>2. text[in + 1] \in Nat
  BY <1>1
<1>3. CASE Len(four) < 3
  <2>1. four' = Append(four, text[in + 1]) /\ out' = out
    BY <1>3 DEF DecodeChar
  <2>2. Append(four, text[in + 1]) \in Seq(Nat)
    BY ONLY <1>1, <1>2
  <2> QED
    BY <1>1, <2>1, <2>2
<1>4. CASE ~(Len(four) < 3)
  <2>1. PICK t : t = Triple(find(four[1]), find(four[2]), find(four[3]),
                            find(text[in + 1]))
    OBVIOUS
  <2>2. four[1] \in Nat /\ four[2] \in Nat /\ four[3] \in Nat
    BY <1>1, <1>4
  <2>3. t \in Seq(Nat)
    BY <1>2, <2>1, <2>2, FoundIsByte, TripleIsBytes
  <2>4. out' = out \o t /\ four' = << >>
    BY <1>4, <2>1 DEF DecodeChar
  <2>5. out \o t \in Seq(Nat)
    BY <1>1, <2>3, Appended
  <2> QED
    BY <1>1, <2>4, <2>5
<1> QED
  BY <1>3, <1>4

LEMMA DecodeCharKeeps ==
    ASSUME Base64Inv, DecodeChar
    PROVE  Base64Inv'
<1>1. /\ packed' = packed /\ data' = data /\ text' = text /\ codec' = codec
      /\ codec = "decode" /\ in < Len(text) /\ IsBase64(text[in + 1])
      /\ in' = in + 1
  BY DEF DecodeChar, source
<1>2. /\ packed \in BOOLEAN /\ data \in Seq(Byte) /\ text \in Seq(Nat)
      /\ four \in Seq(Nat) /\ out \in Seq(Nat) /\ in \in Nat
  BY <1>1 DEF Base64Inv
<1>3. four' \in Seq(Nat) /\ out' \in Seq(Nat) /\ in' \in Nat
  BY DecodeCharTypes
<1>4. ASSUME packed PROVE Decoding'
  <2>1. PICK g \in Nat, r \in 0 .. 2, h \in Nat :
            /\ Len(data) = 3*g + r /\ Grouped(g) /\ TailAt(g, r)
            /\ h <= g /\ Unpacked(h)
    BY <1>1, <1>4 DEF Base64Inv, Decoding
  <2>2. /\ Len(data') = 3*g + r /\ Grouped(g)' /\ TailAt(g, r)'
    BY ONLY <1>1, <2>1 DEF Grouped, GroupAt, TailAt
  <2>3. CASE Len(four) < 3
    <3>1. four' = Append(four, text[in + 1]) /\ out' = out
      BY <2>3 DEF DecodeChar
    <3>2. text[in + 1] \in Nat
      BY <1>1, <1>2
    <3>3. /\ Len(four') = Len(four) + 1 /\ four'[Len(four) + 1] = text[in + 1]
          /\ \A j \in 1 .. Len(four) : four'[j] = four[j]
      <4>1. four \in Seq(Nat)
        BY <1>2
      <4> QED
        BY ONLY <3>1, <3>2, <4>1
    <3>4. /\ Len(out) = 3*h /\ \A i \in 1 .. 3*h : out[i] = data[i]
          /\ in = 4*h + Len(four) /\ Len(four) \in Nat
          /\ \A j \in 1 .. Len(four) : four[j] = text[4*h + j] /\ IsBase64(four[j])
      BY <1>2, <2>1 DEF Unpacked
    <3>5. in' = 4*h + Len(four') /\ Len(four') <= 3
      <4>1. /\ in' = in + 1 /\ in = 4*h + Len(four) /\ Len(four) \in Nat
            /\ Len(four) < 3 /\ Len(four') = Len(four) + 1
        BY ONLY <1>1, <2>3, <3>3, <3>4
      <4> QED
        BY ONLY <4>1, h \in Nat
    <3>8. in' <= Len(text')
      BY <1>1, <1>2
    <3>6. ASSUME NEW j \in 1 .. Len(four')
          PROVE  four'[j] = text'[4*h + j] /\ IsBase64(four'[j])
      <4>1. CASE j \in 1 .. Len(four)
        BY ONLY <1>1, <3>3, <3>4, <4>1
      <4>2. CASE j = Len(four) + 1
        <5>1. 4*h + j = in + 1
          BY <3>4, <4>2
        <5> QED
          BY ONLY <1>1, <3>3, <4>2, <5>1
      <4> QED
        BY ONLY <3>3, <3>4, <4>1, <4>2, <3>6
    <3>7. Unpacked(h)'
      BY ONLY <1>1, <3>1, <3>4, <3>5, <3>6, <3>8 DEF Unpacked
    <3> QED
      BY <2>1, <2>2, <3>7 DEF Decoding
  <2>4. CASE Len(four) = 3
    <3>1. /\ Len(out) = 3*h /\ \A i \in 1 .. 3*h : out[i] = data[i]
          /\ in = 4*h + 3
          /\ four[1] = text[4*h + 1] /\ four[2] = text[4*h + 2]
          /\ four[3] = text[4*h + 3]
          /\ \A j \in 1 .. 3 : IsBase64(text[4*h + j])
      <4>1. Unpacked(h)
        BY <2>1
      <4>2. /\ Len(out) = 3*h /\ \A i \in 1 .. 3*h : out[i] = data[i]
            /\ in = 4*h + 3
            /\ \A j \in 1 .. 3 : four[j] = text[4*h + j] /\ IsBase64(four[j])
        BY ONLY <2>4, <4>1 DEF Unpacked
      <4> QED
        BY ONLY <4>2
    <3>2. h < g
      <4>1. SUFFICES ASSUME h = g PROVE FALSE
        BY <2>1
      <4>2. /\ 4*g + 3 < Len(text) /\ IsBase64(text[4*g + 3 + 1])
            /\ \A j \in 1 .. 3 : IsBase64(text[4*g + j])
        BY ONLY <1>1, <3>1, <4>1, h \in Nat, SMTT(30)
      <4>3. r > 0 /\ 3 <= r
        BY <2>1, <4>2, NoFourthChar
      <4> QED
        BY <4>3
    <3>3. PICK t : t = Triple(find(text[4*h + 1]), find(text[4*h + 2]),
                              find(text[4*h + 3]), find(text[4*h + 4]))
      OBVIOUS
    <3>4. out' = out \o t /\ four' = << >>
      <4>1. in + 1 = 4*h + 4
        BY <3>1
      <4> QED
        BY <2>4, <3>1, <3>3, <4>1 DEF DecodeChar
    <3>5. t[1] = data[3*h + 1] /\ t[2] = data[3*h + 2] /\ t[3] = data[3*h + 3]
      <4>1. 3*h + 3 <= Len(data) /\ GroupAt(h)
        BY <2>1, <3>2 DEF Grouped
      <4> QED
        BY <1>2, <3>3, <4>1, GroupUnpacks
    <3>6. t \in Seq(Nat) /\ Len(t) = 3
      <4>1. /\ text[4*h + 1] \in Nat /\ text[4*h + 2] \in Nat
            /\ text[4*h + 3] \in Nat /\ text[4*h + 4] \in Nat
        <5>1. 4*h + 4 <= Len(text) /\ Len(text) \in Nat
          <6>1. PICK n \in Nat : n = Len(text)
            BY <1>2
          <6>2. 4*h + 3 < n
            BY ONLY <1>1, <3>1, <6>1
          <6>3. 4*h + 4 <= n
            BY ONLY <6>2, h \in Nat, n \in Nat
          <6> QED
            BY ONLY <6>1, <6>3
        <5>2. \A j \in 1 .. Len(text) : text[j] \in Nat
          BY <1>2
        <5> QED
          BY ONLY <5>1, <5>2, h \in Nat
      <4> QED
        BY <3>3, <4>1, FoundIsByte, TripleIsBytes
    <3>7. /\ Len(out \o t) = Len(out) + Len(t)
          /\ \A i \in 1 .. Len(out) : (out \o t)[i] = out[i]
          /\ \A j \in 1 .. Len(t) : (out \o t)[Len(out) + j] = t[j]
      BY <1>2, <3>6, Appended
    <3>8. /\ Len(out') = 3*(h + 1)
          /\ \A i \in 1 .. 3*h : out'[i] = data'[i]
          /\ out'[3*h + 1] = t[1] /\ out'[3*h + 2] = t[2] /\ out'[3*h + 3] = t[3]
      <4>1. Len(out') = 3*h + 3
        BY ONLY <3>1, <3>4, <3>6, <3>7, h \in Nat
      <4>2. \A i \in 1 .. 3*h : out'[i] = data'[i]
        BY ONLY <1>1, <3>1, <3>4, <3>7
      <4>3. \A j \in 1 .. 3 : out'[3*h + j] = t[j]
        BY ONLY <3>1, <3>4, <3>6, <3>7
      <4> QED
        BY ONLY <4>1, <4>2, <4>3, h \in Nat
    <3>9. \A i \in 1 .. 3*(h + 1) : out'[i] = data'[i]
      <4> TAKE i \in 1 .. 3*(h + 1)
      <4>1. i \in 1 .. 3*h \/ i = 3*h + 1 \/ i = 3*h + 2 \/ i = 3*h + 3
        OBVIOUS
      <4> QED
        BY ONLY <4>1, <3>8, <3>5, <1>1
    <3>10. in' = 4*(h + 1) + Len(four') /\ Len(four') = 0
      BY ONLY <1>1, <3>1, <3>4, h \in Nat
    <3>13. in' <= Len(text')
      BY <1>1, <1>2
    <3>11. Unpacked(h + 1)'
      BY ONLY <3>8, <3>9, <3>10, <3>13 DEF Unpacked
    <3>12. h + 1 \in Nat /\ h + 1 <= g
      BY <3>2
    <3> QED
      BY <2>1, <2>2, <3>11, <3>12 DEF Decoding
  <2>5. Len(four) <= 3 /\ Len(four) \in Nat
    BY <1>2, <2>1 DEF Unpacked
  <2>6. Len(four) < 3 \/ Len(four) = 3
    <3>1. PICK n \in Nat : n = Len(four)
      BY ONLY <2>5
    <3>2. n < 3 \/ n = 3
      BY ONLY <2>5, <3>1, n \in Nat
    <3> QED
      BY ONLY <3>1, <3>2
  <2> QED
    BY ONLY <2>3, <2>4, <2>6
<1> QED
  BY <1>1, <1>2, <1>3, <1>4 DEF Base64Inv

\* The characters of a group are of the alphabet.
LEMMA GroupIsBase64 ==
    ASSUME data \in Seq(Byte), NEW h \in Nat, 3*h + 3 <= Len(data), GroupAt(h)
    PROVE  \A j \in 1 .. 4 : IsBase64(text[4*h + j])
<1>1. PICK x \in Byte, y \in Byte, z \in Byte :
          x = data[3*h + 1] /\ y = data[3*h + 2] /\ z = data[3*h + 3]
  OBVIOUS
<1>2. /\ IsBase64(text[4*h + 1]) /\ IsBase64(text[4*h + 2])
      /\ IsBase64(text[4*h + 3]) /\ IsBase64(text[4*h + 4])
  BY <1>1, ValuesFit, CharIsFound DEF GroupAt
<1> TAKE j \in 1 .. 4
<1>3. j = 1 \/ j = 2 \/ j = 3 \/ j = 4
  OBVIOUS
<1> QED
  BY ONLY <1>2, <1>3

\* Where the loop has ended.
LEMMA LoopEnds ==
    ASSUME text \in Seq(Nat), four \in Seq(Nat), NEW h \in Nat, Unpacked(h),
           in < Len(text) => ~IsBase64(text[in + 1])
    PROVE  \E n \in 0 .. 3, tl \in Nat :
               /\ n = Len(four) /\ tl = Len(text) /\ 4*h + n <= tl
               /\ \A j \in 1 .. n : IsBase64(text[4*h + j])
               /\ 4*h + n < tl => ~IsBase64(text[4*h + n + 1])
<1>1. PICK n \in Nat, tl \in Nat : n = Len(four) /\ tl = Len(text)
  OBVIOUS
<1>2. /\ in = 4*h + n /\ n <= 3 /\ in <= tl
      /\ \A j \in 1 .. n : IsBase64(text[4*h + j])
  BY ONLY <1>1, Unpacked(h) DEF Unpacked
<1>3. n \in 0 .. 3
  BY ONLY <1>2, n \in Nat
<1>4. 4*h + n < tl => ~IsBase64(text[4*h + n + 1])
  BY ONLY <1>1, <1>2, in < Len(text) => ~IsBase64(text[in + 1])
<1>5. 4*h + n <= tl
  BY ONLY <1>2
<1> QED
  BY ONLY <1>1, <1>2, <1>3, <1>4, <1>5

\* It has unpacked every group.
LEMMA AllGroups ==
    ASSUME data \in Seq(Byte), text \in Seq(Nat), four \in Seq(Nat),
           NEW g \in Nat, NEW r \in 0 .. 2, NEW h \in Nat,
           Len(data) = 3*g + r, Grouped(g), TailAt(g, r), h <= g, Unpacked(h),
           in < Len(text) => ~IsBase64(text[in + 1])
    PROVE  h = g
<1> SUFFICES ASSUME h < g PROVE FALSE
  OBVIOUS
<1>1. PICK n \in 0 .. 3, tl \in Nat :
               /\ n = Len(four) /\ tl = Len(text) /\ 4*h + n <= tl
               /\ 4*h + n < tl => ~IsBase64(text[4*h + n + 1])
  BY LoopEnds
<1>2. 3*h + 3 <= Len(data) /\ GroupAt(h)
  BY DEF Grouped
<1>3. \A j \in 1 .. 4 : IsBase64(text[4*h + j])
  BY <1>2, GroupIsBase64
<1>4. 4*h + (n + 1) = 4*h + n + 1 /\ n + 1 \in 1 .. 4
  BY ONLY n \in 0 .. 3, h \in Nat
<1>5. IsBase64(text[4*h + n + 1])
  BY ONLY <1>3, <1>4
<1>6. tl = 4*g \/ tl = 4*g + 4
  BY ONLY <1>1, TailAt(g, r), r \in 0 .. 2 DEF TailAt
<1>7. 4*h + n < tl
  BY ONLY <1>6, h < g, g \in Nat, h \in Nat, n \in 0 .. 3
<1> QED
  BY ONLY <1>1, <1>5, <1>7

\* It has read two characters for one byte left and three for two.
LEMMA CharsRead ==
    ASSUME data \in Seq(Byte), text \in Seq(Nat), four \in Seq(Nat),
           NEW g \in Nat, NEW r \in 0 .. 2,
           Len(data) = 3*g + r, TailAt(g, r), Unpacked(g),
           in < Len(text) => ~IsBase64(text[in + 1])
    PROVE  Len(four) = IF r = 0 THEN 0 ELSE r + 1
<1>1. PICK n \in 0 .. 3, tl \in Nat :
               /\ n = Len(four) /\ tl = Len(text) /\ 4*g + n <= tl
               /\ \A j \in 1 .. n : IsBase64(text[4*g + j])
               /\ 4*g + n < tl => ~IsBase64(text[4*g + n + 1])
  BY LoopEnds
<1>2. 0 \in Byte
  BY DEF Byte
<1>3. CASE r = 0
  <2>1. tl = 4*g
    BY ONLY <1>1, <1>3, TailAt(g, r) DEF TailAt
  <2>2. n = 0
    BY ONLY <1>1, <2>1
  <2> QED
    BY ONLY <1>1, <1>3, <2>2
<1>4. CASE r = 1
  <2>1. PICK x \in Byte : x = data[3*g + 1]
    BY <1>4
  <2>2. /\ IsBase64(text[4*g + 1]) /\ IsBase64(text[4*g + 2])
        /\ ~IsBase64(text[4*g + 3]) /\ tl = 4*g + 4
    BY <1>1, <1>2, <1>4, <2>1, ValuesFit, CharIsFound, PadIsNoChar DEF TailAt
  <2>3. ASSUME n = 0 PROVE FALSE
    BY ONLY <1>1, <2>2, <2>3
  <2>4. ASSUME n = 1 PROVE FALSE
    BY ONLY <1>1, <2>2, <2>4
  <2>5. ASSUME n = 3 PROVE FALSE
    BY ONLY <1>1, <2>2, <2>5
  <2> QED
    BY ONLY <1>1, <1>4, <2>3, <2>4, <2>5
<1>5. CASE r = 2
  <2>1. PICK x \in Byte, y \in Byte : x = data[3*g + 1] /\ y = data[3*g + 2]
    BY <1>5
  <2>2. /\ IsBase64(text[4*g + 1]) /\ IsBase64(text[4*g + 2])
        /\ IsBase64(text[4*g + 3]) /\ tl = 4*g + 4
    BY <1>1, <1>2, <1>5, <2>1, ValuesFit, CharIsFound DEF TailAt
  <2>3. ASSUME n = 0 PROVE FALSE
    BY ONLY <1>1, <2>2, <2>3
  <2>4. ASSUME n = 1 PROVE FALSE
    BY ONLY <1>1, <2>2, <2>4
  <2>5. ASSUME n = 2 PROVE FALSE
    BY ONLY <1>1, <2>2, <2>5
  <2> QED
    BY ONLY <1>1, <1>5, <2>3, <2>4, <2>5
<1> QED
  BY <1>3, <1>4, <1>5

\* The values of the group that DecodeEnd fills up.
LEMMA RestIsFound ==
    ASSUME four \in Seq(Nat), NEW n \in 1 .. 3, n = Len(four)
    PROVE  \E a \in Byte, b \in Byte, c \in Byte, d \in Byte :
               /\ a = find(four[1])
               /\ n > 1 => b = find(four[2])
               /\ n > 2 => c = find(four[3])
               /\ Rest \in Seq(Nat) /\ Len(Rest) = n - 1
               /\ \A i \in 1 .. n - 1 : Rest[i] = Triple(a, b, c, d)[i]
<1>1. Filled(1) \in Byte /\ Filled(2) \in Byte /\ Filled(3) \in Byte /\ Filled(4) \in Byte
  <2> SUFFICES ASSUME NEW j \in 1 .. 4 PROVE Filled(j) \in Byte
    OBVIOUS
  <2>1. PICK c \in Nat : c = IF j <= Len(four) THEN four[j] ELSE 0
    OBVIOUS
  <2> QED
    BY <2>1, FoundIsByte DEF Filled
<1>2. PICK a \in Byte, b \in Byte, c \in Byte, d \in Byte :
          a = Filled(1) /\ b = Filled(2) /\ c = Filled(3) /\ d = Filled(4)
  BY <1>1
<1>3. /\ a = find(four[1])
      /\ n > 1 => b = find(four[2])
      /\ n > 2 => c = find(four[3])
  BY <1>2 DEF Filled
<1>4. PICK t \in Seq(Nat) : t = Triple(a, b, c, d) /\ Len(t) = 3
  BY TripleIsBytes
<1>5. Rest = SubSeq(t, 1, n - 1)
  BY ONLY <1>2, <1>4, n = Len(four) DEF Rest, TailBytes
<1>6. \A i \in 1 .. n - 1 : t[i] \in Nat
  <2>1. \A i \in 1 .. n - 1 : i \in 1 .. Len(t)
    BY ONLY <1>4, n \in 1 .. 3
  <2> QED
    BY ONLY <2>1, t \in Seq(Nat)
<1>7. /\ SubSeq(t, 1, n - 1) \in Seq(Nat)
      /\ Len(SubSeq(t, 1, n - 1)) = n - 1
      /\ \A i \in 1 .. n - 1 : SubSeq(t, 1, n - 1)[i] = t[i]
  <2>1. /\ SubSeq(t, 1, n - 1) \in Seq(Nat)
        /\ Len(SubSeq(t, 1, n - 1)) = IF 1 <= n - 1 THEN n - 1 - 1 + 1 ELSE 0
        /\ \A i \in 1 .. n - 1 - 1 + 1 : SubSeq(t, 1, n - 1)[i] = t[1 + i - 1]
    BY ONLY <1>6, n \in 1 .. 3, SubSeqProperties
  <2>2. n - 1 - 1 + 1 = n - 1 /\ \A i \in Nat : 1 + i - 1 = i
    BY ONLY n \in 1 .. 3
  <2> QED
    BY ONLY <2>1, <2>2, n \in 1 .. 3
<1>8. /\ Rest \in Seq(Nat) /\ Len(Rest) = n - 1
      /\ \A i \in 1 .. n - 1 : Rest[i] = Triple(a, b, c, d)[i]
  BY ONLY <1>4, <1>5, <1>7
<1> QED
  BY ONLY <1>3, <1>8, SMTT(40)

\* It adds the bytes left.
LEMMA RestIsLeft ==
    ASSUME data \in Seq(Byte), four \in Seq(Nat), NEW g \in Nat, NEW r \in 1 .. 2,
           Len(data) = 3*g + r, TailAt(g, r), Unpacked(g), Len(four) = r + 1
    PROVE  /\ Rest \in Seq(Nat) /\ Len(Rest) = r
           /\ \A i \in 1 .. r : Rest[i] = data[3*g + i]
<1>1. PICK a \in Byte, b \in Byte, c \in Byte, d \in Byte :
               /\ a = find(four[1])
               /\ b = find(four[2])
               /\ r > 1 => c = find(four[3])
               /\ Rest \in Seq(Nat) /\ Len(Rest) = r
               /\ \A i \in 1 .. r : Rest[i] = Triple(a, b, c, d)[i]
  <2>1. PICK n \in 1 .. 3 : n = r + 1
    OBVIOUS
  <2>2. PICK a \in Byte, b \in Byte, c \in Byte, d \in Byte :
               /\ a = find(four[1])
               /\ n > 1 => b = find(four[2])
               /\ n > 2 => c = find(four[3])
               /\ Rest \in Seq(Nat) /\ Len(Rest) = n - 1
               /\ \A i \in 1 .. n - 1 : Rest[i] = Triple(a, b, c, d)[i]
    BY <2>1, RestIsFound
  <2>3. n - 1 = r /\ n > 1 /\ (r > 1 => n > 2)
    BY <2>1
  <2> QED
    BY ONLY <2>2, <2>3, SMTT(40)
<1>2. PICK x \in Byte, y \in Byte :
          x = data[3*g + 1] /\ y = IF r = 2 THEN data[3*g + 2] ELSE 0
  <2>3. 0 \in Byte
    BY DEF Byte
  <2>1. CASE r = 1
    BY <2>1, <2>3
  <2>2. CASE r = 2
    BY <2>2
  <2> QED
    BY <2>1, <2>2
<1>3. 0 \in Byte
  BY DEF Byte
<1>4. /\ four[1] = Char(V1(x)) /\ four[2] = Char(V2(x, y))
      /\ r = 2 => four[3] = Char(V3(y, 0))
  <2>1. /\ four[1] = text[4*g + 1] /\ four[2] = text[4*g + 2]
        /\ r = 2 => four[3] = text[4*g + 3]
    <3>1. \A j \in 1 .. r + 1 : four[j] = text[4*g + j]
      BY ONLY Unpacked(g), Len(four) = r + 1 DEF Unpacked
    <3>2. 1 \in 1 .. r + 1 /\ 2 \in 1 .. r + 1 /\ (r = 2 => 3 \in 1 .. r + 1)
      BY ONLY r \in 1 .. 2
    <3> QED
      BY ONLY <3>1, <3>2
  <2> QED
    BY ONLY <1>2, <2>1, TailAt(g, r), r \in 1 .. 2 DEF TailAt
<1>5. a = V1(x) /\ b = V2(x, y) /\ (r = 2 => c = V3(y, 0))
  BY <1>1, <1>3, <1>4, ValuesFit, CharIsFound
<1>6. Triple(a, b, c, d)[1] = x
  <2>1. Triple(V1(x), V2(x, y), c, d)[1] = x
    BY ONLY FirstByte, x \in Byte, y \in Byte, c \in Byte, d \in Byte
  <2> QED
    BY ONLY <1>5, <2>1
<1>7. r = 2 => Triple(a, b, c, d)[2] = y
  <2>1. Triple(a, V2(x, y), V3(y, 0), d)[2] = y
    BY ONLY <1>3, SecondByte, x \in Byte, y \in Byte, a \in Byte, d \in Byte
  <2> QED
    BY ONLY <1>5, <2>1
<1>8. ASSUME NEW i \in 1 .. r PROVE Rest[i] = data[3*g + i]
  <2>1. i = 1 \/ (r = 2 /\ i = 2)
    OBVIOUS
  <2> QED
    BY ONLY <1>1, <1>2, <1>6, <1>7, <2>1, i \in 1 .. r
<1> QED
  BY <1>1, <1>8

LEMMA DecodeEndKeeps ==
    ASSUME Base64Inv, DecodeEnd
    PROVE  Base64Inv'
<1>1. /\ packed' = packed /\ data' = data /\ text' = text
      /\ four' = four /\ in' = in
      /\ codec = "decode" /\ codec' = "decoded"
      /\ in < Len(text) => ~IsBase64(text[in + 1])
      /\ out' = IF four = << >> THEN out ELSE out \o Rest
  BY DEF DecodeEnd, source
<1>2. /\ packed \in BOOLEAN /\ data \in Seq(Byte) /\ text \in Seq(Nat)
      /\ four \in Seq(Nat) /\ out \in Seq(Nat) /\ in \in Nat
  BY <1>1 DEF Base64Inv
<1>3. ASSUME packed PROVE out' = data
  <2>1. PICK g \in Nat, r \in 0 .. 2, h \in Nat :
            /\ Len(data) = 3*g + r /\ Grouped(g) /\ TailAt(g, r)
            /\ h <= g /\ Unpacked(h)
    BY <1>1, <1>3 DEF Base64Inv, Decoding
  <2>2. h = g
    BY <1>1, <1>2, <2>1, AllGroups
  <2>3. Unpacked(g)
    BY <2>1, <2>2
  <2>4. Len(four) = IF r = 0 THEN 0 ELSE r + 1
    BY <1>1, <1>2, <2>1, <2>3, CharsRead
  <2>5. /\ Len(out) = 3*g /\ \A i \in 1 .. 3*g : out[i] = data[i]
    BY <2>3 DEF Unpacked
  <2>6. data \in Seq(Nat)
    <3>1. PICK n \in Nat : data \in [1 .. n -> Byte]
      BY ONLY <1>2, SeqDef
    <3>2. data \in [1 .. n -> Nat]
      <4>1. Byte \subseteq Nat
        BY ONLY DEF Byte
      <4> QED
        BY ONLY <3>1, <4>1
    <3> QED
      BY ONLY <3>2, FunctionsAreSeqs, n \in Nat
  <2>7. CASE r = 0
    <3>1. out' = out
      BY <1>1, <1>2, <2>4, <2>7
    <3>2. Len(out) = Len(data)
      BY <2>1, <2>5, <2>7
    <3>3. \A i \in 1 .. Len(out) : out[i] = data[i]
      BY ONLY <2>5
    <3> QED
      BY ONLY <3>1, <3>2, <3>3, <1>2, <2>6, SeqEqual
  <2>8. CASE r \in 1 .. 2
    <3>1. out' = out \o Rest
      BY <1>1, <2>4, <2>8
    <3>2. /\ Rest \in Seq(Nat) /\ Len(Rest) = r
          /\ \A i \in 1 .. r : Rest[i] = data[3*g + i]
      <4>1. Len(four) = r + 1
        BY <2>4, <2>8
      <4> QED
        BY <1>2, <2>1, <2>3, <2>8, <4>1, RestIsLeft
    <3>3. /\ out \o Rest \in Seq(Nat) /\ Len(out \o Rest) = Len(out) + Len(Rest)
          /\ \A i \in 1 .. Len(out) : (out \o Rest)[i] = out[i]
          /\ \A j \in 1 .. Len(Rest) : (out \o Rest)[Len(out) + j] = Rest[j]
      BY <1>2, <3>2, Appended
    <3>4. out' \in Seq(Nat) /\ Len(out') = Len(data)
      BY ONLY <3>1, <3>2, <3>3, <2>1, <2>5
    <3>5. /\ \A i \in 1 .. 3*g : out'[i] = data[i]
          /\ \A j \in 1 .. r : out'[3*g + j] = data[3*g + j]
      BY ONLY <3>1, <3>2, <3>3, <2>5
    <3>6. ASSUME NEW i \in 1 .. Len(out') PROVE out'[i] = data[i]
      <4>1. i \in 1 .. 3*g + r
        BY ONLY <3>4, <2>1, i \in 1 .. Len(out')
      <4>2. CASE i <= 3*g
        BY ONLY <3>5, <4>1, <4>2, g \in Nat
      <4>3. CASE i > 3*g
        <5>1. PICK j \in 1 .. r : i = 3*g + j
          <6>1. i - 3*g \in 1 .. r /\ i = 3*g + (i - 3*g)
            BY ONLY <4>1, <4>3, g \in Nat, r \in 0 .. 2
          <6> QED
            BY ONLY <6>1
        <5> QED
          BY ONLY <3>5, <5>1
      <4> QED
        BY ONLY <4>1, <4>2, <4>3, g \in Nat
    <3> QED
      BY ONLY <3>4, <3>6, <2>6, SeqEqual
  <2> QED
    BY <2>1, <2>7, <2>8
<1> QED
  BY <1>1, <1>2, <1>3 DEF Base64Inv

-----------------------------------------------------------------------------
(* The steps that begin a text, and base64DecodeToData *)

LEMMA BeginKeeps ==
    ASSUME Base64Inv, Pack \/ WriteText
    PROVE  Base64Inv'
<1>1. /\ in' = in /\ four' = four /\ out' = out /\ at' = at /\ codec = "idle"
  BY DEF Pack, WriteText
<1>2. /\ packed = FALSE /\ at = 0 /\ text = << >> /\ in = 0 /\ four = << >>
      /\ out = << >> /\ data \in Seq(Byte)
  BY <1>1 DEF Base64Inv
<1>3. four' \in Seq(Nat) /\ in' \in Nat /\ out' \in Seq(Nat)
  BY <1>1, <1>2
<1>4. CASE Pack
  <2>1. /\ packed' = TRUE /\ codec' = "encode" /\ text' = << >> /\ data' \in Seq(Byte)
    BY <1>2, <1>4, DatasAreBytes DEF Pack
  <2>2. Grouped(0)' /\ 3*0 <= Len(data') /\ Len(text') = 4*0 /\ at' = 3*0
    BY <1>1, <1>2, <2>1 DEF Grouped
  <2>3. Encoding'
    BY <1>1, <1>2, <2>2 DEF Encoding
  <2> QED
    BY <1>3, <2>1, <2>3 DEF Base64Inv
<1>5. CASE WriteText
  <2>1. /\ packed' = FALSE /\ codec' \in {"decode", "fill"} /\ text' \in Seq(Nat)
        /\ data' = data
    BY <1>2, <1>5, TextsAreCodes DEF WriteText
  <2> QED
    BY <1>2, <1>3, <2>1 DEF Base64Inv
<1> QED
  BY <1>4, <1>5

LEMMA FillKeeps ==
    ASSUME Base64Inv, FillChar \/ FillEnd
    PROVE  Base64Inv'
<1>1. /\ packed' = packed /\ data' = data /\ text' = text /\ four' = four
      /\ codec = "fill" /\ codec' \in {"fill", "filled"}
      /\ in' = in \/ in' = in + 1
  BY DEF FillChar, FillEnd, source
<1> QED
  BY <1>1 DEF Base64Inv

LEMMA StutterKeeps ==
    ASSUME Base64Inv, UNCHANGED base64Vars
    PROVE  Base64Inv'
<1>1. /\ codec' = codec /\ packed' = packed /\ data' = data /\ at' = at
      /\ text' = text /\ in' = in /\ four' = four /\ out' = out
  BY DEF base64Vars, source
<1>2. Encoding' = Encoding /\ Decoding' = Decoding
  BY ONLY <1>1 DEF Encoding, Decoding, Grouped, GroupAt, TailAt, Unpacked
<1> QED
  BY <1>1, <1>2 DEF Base64Inv

LEMMA Base64InvIsInductive ==
    /\ Base64Init => Base64Inv
    /\ Base64Inv /\ [Base64Next]_base64Vars => Base64Inv'
<1>1. ASSUME Base64Init PROVE Base64Inv
  <2>1. /\ codec = "idle" /\ packed = FALSE /\ data = << >> /\ at = 0
        /\ text = << >> /\ in = 0 /\ four = << >> /\ out = << >>
    BY <1>1 DEF Base64Init
  <2>2. data \in Seq(Byte) /\ text \in Seq(Nat) /\ four \in Seq(Nat)
    BY ONLY <2>1
  <2> QED
    BY ONLY <2>1, <2>2 DEF Base64Inv
<1>2. ASSUME Base64Inv, [Base64Next]_base64Vars PROVE Base64Inv'
  BY ONLY <1>2, BeginKeeps, EncodeGroupKeeps, EncodeEndKeeps, DecodeCharKeeps,
          DecodeEndKeeps, FillKeeps, StutterKeeps DEF Base64Next
<1> QED
  BY <1>1, <1>2

\* PackedUnpacks for every sequence of bytes: what base64Encode packs,
\* base64Decode unpacks (wp_base64.cpp:37-59, 95-115).
THEOREM UnpacksAlways == Base64Spec => []PackedUnpacks
<1>1. Base64Inv => PackedUnpacks
  BY DEF Base64Inv, PackedUnpacks
<1> QED
  BY <1>1, Base64InvIsInductive, PTL DEF Base64Spec

-----------------------------------------------------------------------------
(* Base64: the bits of the characters *)

LEMMA NatOrder == IsWellFoundedOn({x \in Nat \X Nat : x[1] < x[2]}, Nat)
BY NatLessThanWellFounded DEF OpToRel

\* Induction over the natural numbers, for a set of them.
LEMMA SetInduction ==
    ASSUME NEW P, 0 \in P, \A n \in Nat : n \in P => n + 1 \in P
    PROVE  Nat \subseteq P
<1> DEFINE T == Nat \ P
           R == {x \in Nat \X Nat : x[1] < x[2]}
<1> SUFFICES ASSUME T # {} PROVE FALSE
  OBVIOUS
<1>1. IsWellFoundedOn(R, Nat) /\ T \subseteq Nat
  BY NatOrder
<1> HIDE DEF T, R
<1>2. PICK x \in T : \A y \in T : ~(<<y, x>> \in R)
  BY <1>1, WFMin
<1>3. x \in Nat /\ x \notin P /\ x # 0
  BY <1>2 DEF T
<1>4. x - 1 \in Nat /\ x - 1 + 1 = x
  BY <1>3
<1>5. x - 1 \notin P
  BY <1>3, <1>4
<1>6. x - 1 \in T /\ <<x - 1, x>> \in R
  BY <1>3, <1>4, <1>5 DEF T, R
<1> QED
  BY <1>2, <1>6

\* Bit p of characters.
Bit(chars, p) == (find(chars[p \div 6 + 1]) \div 2^(5 - (p % 6))) % 2

Octet(chars, k) ==
    128 * Bit(chars, 8 * (k - 1)) + 64 * Bit(chars, 8 * (k - 1) + 1)
    + 32 * Bit(chars, 8 * (k - 1) + 2) + 16 * Bit(chars, 8 * (k - 1) + 3)
    + 8 * Bit(chars, 8 * (k - 1) + 4) + 4 * Bit(chars, 8 * (k - 1) + 5)
    + 2 * Bit(chars, 8 * (k - 1) + 6) + Bit(chars, 8 * (k - 1) + 7)

LEMMA BytesAreOctets ==
    ASSUME NEW chars
    PROVE  BytesIn(chars) = [k \in 1 .. (6 * Len(chars)) \div 8 |-> Octet(chars, k)]
BY DEF BytesIn, Octet, Bit

LEMMA BitIs ==
    ASSUME NEW chars, NEW q \in Nat, NEW r \in 0 .. 5
    PROVE  Bit(chars, 6 * q + r) =
              (find(chars[q + 1]) \div (IF r = 0 THEN 32 ELSE IF r = 1 THEN 16
                 ELSE IF r = 2 THEN 8 ELSE IF r = 3 THEN 4 ELSE IF r = 4 THEN 2 ELSE 1)) % 2
<1>1. (6 * q + r) \div 6 = q /\ (6 * q + r) % 6 = r
  OBVIOUS
<1>2. /\ 2^5 = 32 /\ 2^4 = 16 /\ 2^3 = 8 /\ 2^2 = 4 /\ 2^1 = 2 /\ 2^0 = 1
  OBVIOUS
<1>3. Bit(chars, 6 * q + r) = (find(chars[q + 1]) \div 2^(5 - r)) % 2
  BY <1>1 DEF Bit
<1>4. 5 - r = IF r = 0 THEN 5 ELSE IF r = 1 THEN 4
                 ELSE IF r = 2 THEN 3 ELSE IF r = 3 THEN 2 ELSE IF r = 4 THEN 1 ELSE 0
  OBVIOUS
<1>5. 2^(5 - r) = IF r = 0 THEN 32 ELSE IF r = 1 THEN 16
                 ELSE IF r = 2 THEN 8 ELSE IF r = 3 THEN 4 ELSE IF r = 4 THEN 2 ELSE 1
  BY <1>2, <1>4
<1> QED BY <1>3, <1>5

\* A value is the sum of its bits.
LEMMA BitsOfValue ==
    ASSUME NEW a \in Value
    PROVE  /\ a = 2 * (a \div 2) + ((a \div 1) % 2)
           /\ a \div 2 = 2 * (a \div 4) + ((a \div 2) % 2)
           /\ a \div 4 = 2 * (a \div 8) + ((a \div 4) % 2)
           /\ a \div 8 = 2 * (a \div 16) + ((a \div 8) % 2)
           /\ a \div 16 = 2 * (a \div 32) + ((a \div 16) % 2)
           /\ a \div 32 = (a \div 32) % 2
           /\ a % 16 = a - 16 * (a \div 16) /\ a % 4 = a - 4 * (a \div 4)
<1>1. a \in 0 .. 63  BY DEF Value
<1>2. a = 2 * (a \div 2) + ((a \div 1) % 2)  BY ONLY <1>1
<1>3. a \div 2 = 2 * (a \div 4) + ((a \div 2) % 2)  BY ONLY <1>1
<1>4. a \div 4 = 2 * (a \div 8) + ((a \div 4) % 2)  BY ONLY <1>1
<1>5. a \div 8 = 2 * (a \div 16) + ((a \div 8) % 2)  BY ONLY <1>1
<1>6. a \div 16 = 2 * (a \div 32) + ((a \div 16) % 2)  BY ONLY <1>1
<1>7. a \div 32 = (a \div 32) % 2  BY ONLY <1>1
<1>8. a % 16 = a - 16 * (a \div 16) /\ a % 4 = a - 4 * (a \div 4)  BY ONLY <1>1
<1> QED BY ONLY <1>2, <1>3, <1>4, <1>5, <1>6, <1>7, <1>8

\* The bits of two values make a byte: eight bits from the first, the third and
\* the fifth bit on.
LEMMA BitsOfByte ==
    ASSUME NEW a \in Value, NEW b \in Value
    PROVE  /\ 128 * ((a \div 32) % 2) + 64 * ((a \div 16) % 2) + 32 * ((a \div 8) % 2)
              + 16 * ((a \div 4) % 2) + 8 * ((a \div 2) % 2) + 4 * ((a \div 1) % 2)
              + 2 * ((b \div 32) % 2) + ((b \div 16) % 2) = a * 4 + b \div 16
           /\ 128 * ((a \div 8) % 2) + 64 * ((a \div 4) % 2) + 32 * ((a \div 2) % 2)
              + 16 * ((a \div 1) % 2) + 8 * ((b \div 32) % 2) + 4 * ((b \div 16) % 2)
              + 2 * ((b \div 8) % 2) + ((b \div 4) % 2) = (a % 16) * 16 + b \div 4
           /\ 128 * ((a \div 2) % 2) + 64 * ((a \div 1) % 2) + 32 * ((b \div 32) % 2)
              + 16 * ((b \div 16) % 2) + 8 * ((b \div 8) % 2) + 4 * ((b \div 4) % 2)
              + 2 * ((b \div 2) % 2) + ((b \div 1) % 2) = (a % 4) * 64 + b
<1>1. PICK a1 \in Int, a2 \in Int, a4 \in Int, a8 \in Int, a16 \in Int, a32 \in Int :
        /\ a1 = (a \div 1) % 2 /\ a2 = (a \div 2) % 2 /\ a4 = (a \div 4) % 2
        /\ a8 = (a \div 8) % 2 /\ a16 = (a \div 16) % 2 /\ a32 = (a \div 32) % 2
  BY DEF Value
<1>2. PICK b1 \in Int, b2 \in Int, b4 \in Int, b8 \in Int, b16 \in Int, b32 \in Int :
        /\ b1 = (b \div 1) % 2 /\ b2 = (b \div 2) % 2 /\ b4 = (b \div 4) % 2
        /\ b8 = (b \div 8) % 2 /\ b16 = (b \div 16) % 2 /\ b32 = (b \div 32) % 2
  BY DEF Value
<1>3. /\ a = 32 * a32 + 16 * a16 + 8 * a8 + 4 * a4 + 2 * a2 + a1
      /\ a % 16 = 8 * a8 + 4 * a4 + 2 * a2 + a1
      /\ a % 4 = 2 * a2 + a1
  <2>1. /\ a \in Int /\ a \div 2 \in Int /\ a \div 4 \in Int /\ a \div 8 \in Int
        /\ a \div 16 \in Int /\ a \div 32 \in Int
    BY DEF Value
  <2> QED BY ONLY <1>1, <2>1, BitsOfValue, a \in Value
<1>4. /\ b = 32 * b32 + 16 * b16 + 8 * b8 + 4 * b4 + 2 * b2 + b1
      /\ b \div 4 = 8 * b32 + 4 * b16 + 2 * b8 + b4
      /\ b \div 16 = 2 * b32 + b16
  <2>1. /\ b \in Int /\ b \div 2 \in Int /\ b \div 4 \in Int /\ b \div 8 \in Int
        /\ b \div 16 \in Int /\ b \div 32 \in Int
    BY DEF Value
  <2> QED BY ONLY <1>2, <2>1, BitsOfValue, b \in Value
<1>5. /\ 128 * a32 + 64 * a16 + 32 * a8 + 16 * a4 + 8 * a2 + 4 * a1 + 2 * b32 + b16
           = a * 4 + b \div 16
      /\ 128 * a8 + 64 * a4 + 32 * a2 + 16 * a1 + 8 * b32 + 4 * b16 + 2 * b8 + b4
           = (a % 16) * 16 + b \div 4
      /\ 128 * a2 + 64 * a1 + 32 * b32 + 16 * b16 + 8 * b8 + 4 * b4 + 2 * b2 + b1
           = (a % 4) * 64 + b
  BY ONLY <1>3, <1>4, a1 \in Int, a2 \in Int, a4 \in Int, a8 \in Int, a16 \in Int,
     a32 \in Int, b1 \in Int, b2 \in Int, b4 \in Int, b8 \in Int, b16 \in Int, b32 \in Int
<1> QED BY ONLY <1>1, <1>2, <1>5

\* The three bytes of group g of characters, where it has them.
Byte1(chars, g) == find(chars[4*g + 1]) * 4 + find(chars[4*g + 2]) \div 16
Byte2(chars, g) == (find(chars[4*g + 2]) % 16) * 16 + find(chars[4*g + 3]) \div 4
Byte3(chars, g) == (find(chars[4*g + 3]) % 4) * 64 + find(chars[4*g + 4])

LEMMA FoundIsValue ==
    ASSUME NEW c, IsBase64(c) PROVE c \in Nat /\ find(c) \in Value
BY DEF IsBase64, find, Value

LEMMA BitsOfChar ==
    ASSUME NEW chars, NEW q \in Nat, NEW a, a = find(chars[q + 1])
    PROVE  /\ Bit(chars, 6*q + 0) = (a \div 32) % 2
           /\ Bit(chars, 6*q + 1) = (a \div 16) % 2
           /\ Bit(chars, 6*q + 2) = (a \div 8) % 2
           /\ Bit(chars, 6*q + 3) = (a \div 4) % 2
           /\ Bit(chars, 6*q + 4) = (a \div 2) % 2
           /\ Bit(chars, 6*q + 5) = (a \div 1) % 2
BY BitIs

\* The bits of two characters from the first, the third or the fifth on.
LEMMA OctetIs ==
    ASSUME NEW chars, NEW q \in Nat, NEW p \in Nat, p = q + 1, NEW k \in Int,
           NEW a \in Value, NEW b \in Value,
           a = find(chars[q + 1]), b = find(chars[p + 1])
    PROVE  /\ 8 * (k - 1) = 6*q => Octet(chars, k) = a * 4 + b \div 16
           /\ 8 * (k - 1) = 6*q + 2 => Octet(chars, k) = (a % 16) * 16 + b \div 4
           /\ 8 * (k - 1) = 6*q + 4 => Octet(chars, k) = (a % 4) * 64 + b
<1> DEFINE B(m) == Bit(chars, m)
<1>1. /\ B(6*q + 0) = (a \div 32) % 2 /\ B(6*q + 1) = (a \div 16) % 2
      /\ B(6*q + 2) = (a \div 8) % 2 /\ B(6*q + 3) = (a \div 4) % 2
      /\ B(6*q + 4) = (a \div 2) % 2 /\ B(6*q + 5) = (a \div 1) % 2
  BY ONLY BitsOfChar, q \in Nat, a = find(chars[q + 1]) DEF B
<1>2. /\ B(6*p + 0) = (b \div 32) % 2 /\ B(6*p + 1) = (b \div 16) % 2
      /\ B(6*p + 2) = (b \div 8) % 2 /\ B(6*p + 3) = (b \div 4) % 2
      /\ B(6*p + 4) = (b \div 2) % 2 /\ B(6*p + 5) = (b \div 1) % 2
  BY ONLY BitsOfChar, p \in Nat, b = find(chars[p + 1]) DEF B
<1>3. LET m == 8 * (k - 1)
      IN  Octet(chars, k) = 128 * B(m) + 64 * B(m + 1) + 32 * B(m + 2) + 16 * B(m + 3)
                            + 8 * B(m + 4) + 4 * B(m + 5) + 2 * B(m + 6) + B(m + 7)
  BY ONLY DEF Octet
<1> HIDE DEF B
<1>4. ASSUME 8 * (k - 1) = 6*q PROVE Octet(chars, k) = a * 4 + b \div 16
  <2>1. /\ 8 * (k - 1) = 6*q + 0 /\ 8 * (k - 1) + 1 = 6*q + 1
        /\ 8 * (k - 1) + 2 = 6*q + 2 /\ 8 * (k - 1) + 3 = 6*q + 3
        /\ 8 * (k - 1) + 4 = 6*q + 4 /\ 8 * (k - 1) + 5 = 6*q + 5
        /\ 8 * (k - 1) + 6 = 6*p + 0 /\ 8 * (k - 1) + 7 = 6*p + 1
    BY <1>4
  <2>2. Octet(chars, k) =
          128 * B(6*q + 0) + 64 * B(6*q + 1) + 32 * B(6*q + 2) + 16 * B(6*q + 3)
          + 8 * B(6*q + 4) + 4 * B(6*q + 5) + 2 * B(6*p + 0) + B(6*p + 1)
    BY ONLY <1>3, <2>1
  <2> QED BY ONLY <1>1, <1>2, <2>2, BitsOfByte, a \in Value, b \in Value
<1>5. ASSUME 8 * (k - 1) = 6*q + 2 PROVE Octet(chars, k) = (a % 16) * 16 + b \div 4
  <2>1. /\ 8 * (k - 1) = 6*q + 2 /\ 8 * (k - 1) + 1 = 6*q + 3
        /\ 8 * (k - 1) + 2 = 6*q + 4 /\ 8 * (k - 1) + 3 = 6*q + 5
        /\ 8 * (k - 1) + 4 = 6*p + 0 /\ 8 * (k - 1) + 5 = 6*p + 1
        /\ 8 * (k - 1) + 6 = 6*p + 2 /\ 8 * (k - 1) + 7 = 6*p + 3
    BY <1>5
  <2>2. Octet(chars, k) =
          128 * B(6*q + 2) + 64 * B(6*q + 3) + 32 * B(6*q + 4) + 16 * B(6*q + 5)
          + 8 * B(6*p + 0) + 4 * B(6*p + 1) + 2 * B(6*p + 2) + B(6*p + 3)
    BY ONLY <1>3, <2>1
  <2> QED BY ONLY <1>1, <1>2, <2>2, BitsOfByte, a \in Value, b \in Value
<1>6. ASSUME 8 * (k - 1) = 6*q + 4 PROVE Octet(chars, k) = (a % 4) * 64 + b
  <2>1. /\ 8 * (k - 1) = 6*q + 4 /\ 8 * (k - 1) + 1 = 6*q + 5
        /\ 8 * (k - 1) + 2 = 6*p + 0 /\ 8 * (k - 1) + 3 = 6*p + 1
        /\ 8 * (k - 1) + 4 = 6*p + 2 /\ 8 * (k - 1) + 5 = 6*p + 3
        /\ 8 * (k - 1) + 6 = 6*p + 4 /\ 8 * (k - 1) + 7 = 6*p + 5
    BY <1>6
  <2>2. Octet(chars, k) =
          128 * B(6*q + 4) + 64 * B(6*q + 5) + 32 * B(6*p + 0) + 16 * B(6*p + 1)
          + 8 * B(6*p + 2) + 4 * B(6*p + 3) + 2 * B(6*p + 4) + B(6*p + 5)
    BY ONLY <1>3, <2>1
  <2> QED BY ONLY <1>1, <1>2, <2>2, BitsOfByte, a \in Value, b \in Value
<1> QED BY <1>4, <1>5, <1>6

LEMMA OctetsOfGroup ==
    ASSUME NEW chars, NEW g \in Nat
    PROVE  /\ find(chars[4*g + 1]) \in Value /\ find(chars[4*g + 2]) \in Value =>
                 Octet(chars, 3*g + 1) = Byte1(chars, g)
           /\ find(chars[4*g + 2]) \in Value /\ find(chars[4*g + 3]) \in Value =>
                 Octet(chars, 3*g + 2) = Byte2(chars, g)
           /\ find(chars[4*g + 3]) \in Value /\ find(chars[4*g + 4]) \in Value =>
                 Octet(chars, 3*g + 3) = Byte3(chars, g)
<1>1. PICK q \in Nat, q1 \in Nat, q2 \in Nat, q3 \in Nat :
        /\ q = 4*g /\ q1 = q + 1 /\ q2 = q1 + 1 /\ q3 = q2 + 1
        /\ q1 = 4*g + 1 /\ q2 = 4*g + 2 /\ q3 = 4*g + 3 /\ q3 + 1 = 4*g + 4
  OBVIOUS
<1>2. /\ 8 * (3*g + 1 - 1) = 6*q /\ 8 * (3*g + 2 - 1) = 6*q1 + 2
      /\ 8 * (3*g + 3 - 1) = 6*q2 + 4
      /\ 3*g + 1 \in Int /\ 3*g + 2 \in Int /\ 3*g + 3 \in Int
  BY <1>1
<1>3. ASSUME find(chars[q1]) \in Value, find(chars[q2]) \in Value
      PROVE  Octet(chars, 3*g + 1) = find(chars[q1]) * 4 + find(chars[q2]) \div 16
  <2>1. find(chars[q + 1]) \in Value /\ find(chars[q1 + 1]) \in Value  BY <1>1, <1>3
  <2>2. Octet(chars, 3*g + 1) = find(chars[q + 1]) * 4 + find(chars[q1 + 1]) \div 16
    BY ONLY <1>1, <1>2, <2>1, OctetIs, q \in Nat, q1 \in Nat
  <2> QED BY <1>1, <2>2
<1>4. ASSUME find(chars[q2]) \in Value, find(chars[q3]) \in Value
      PROVE  Octet(chars, 3*g + 2) = (find(chars[q2]) % 16) * 16 + find(chars[q3]) \div 4
  <2>1. find(chars[q1 + 1]) \in Value /\ find(chars[q2 + 1]) \in Value  BY <1>1, <1>4
  <2>2. Octet(chars, 3*g + 2)
           = (find(chars[q1 + 1]) % 16) * 16 + find(chars[q2 + 1]) \div 4
    BY ONLY <1>1, <1>2, <2>1, OctetIs, q1 \in Nat, q2 \in Nat
  <2> QED BY <1>1, <2>2
<1>5. ASSUME find(chars[q3]) \in Value, find(chars[q3 + 1]) \in Value
      PROVE  Octet(chars, 3*g + 3) = (find(chars[q3]) % 4) * 64 + find(chars[q3 + 1])
  <2>1. find(chars[q2 + 1]) \in Value  BY <1>1, <1>5
  <2>2. PICK k \in Int : k = 3*g + 3 /\ 8 * (k - 1) = 6*q2 + 4  BY <1>2
  <2>3. q3 = q2 + 1  BY <1>1
  <2>4. Octet(chars, k) = (find(chars[q2 + 1]) % 4) * 64 + find(chars[q3 + 1])
    BY ONLY <1>5, <2>1, <2>2, <2>3, OctetIs, q2 \in Nat, q3 \in Nat, k \in Int
  <2> QED BY <1>1, <2>2, <2>4
<1>6. q1 = 4*g + 1 /\ q2 = 4*g + 2 /\ q3 = 4*g + 3 /\ q3 + 1 = 4*g + 4  BY <1>1
<1> QED BY ONLY <1>3, <1>4, <1>5, <1>6 DEF Byte1, Byte2, Byte3

-----------------------------------------------------------------------------
(* Bytes and the characters they are in *)

Base64Chars == {c \in Nat : IsBase64(c)}

\* Bytes are those of characters, as far as they go.
Hold(chars, bytes) ==
    \A g \in Nat :
        /\ 3*g + 1 <= Len(bytes) => bytes[3*g + 1] = Byte1(chars, g)
        /\ 3*g + 2 <= Len(bytes) => bytes[3*g + 2] = Byte2(chars, g)
        /\ 3*g + 3 <= Len(bytes) => bytes[3*g + 3] = Byte3(chars, g)

LEMMA LenOfBytesIn ==
    ASSUME NEW chars, NEW m \in Nat, m = (6 * Len(chars)) \div 8
    PROVE  /\ Len(BytesIn(chars)) = m
           /\ \A k \in 1 .. m : BytesIn(chars)[k] = Octet(chars, k)
           /\ BytesIn(chars) \in Seq({Octet(chars, k) : k \in 1 .. m})
<1> DEFINE W == {Octet(chars, k) : k \in 1 .. m}
           f == [k \in 1 .. m |-> Octet(chars, k)]
<1>1. BytesIn(chars) = f  BY BytesAreOctets
<1>2. f \in [1 .. m -> W] /\ DOMAIN f = 1 .. m
  /\ \A k \in 1 .. m : f[k] = Octet(chars, k)  OBVIOUS
<1> HIDE DEF f, W
<1>3. f \in Seq(W)  BY <1>1, <1>2, SeqDef
<1>4. Len(f) \in Nat /\ DOMAIN f = 1 .. Len(f)  BY <1>3, LenProperties
<1>5. Len(f) = m  BY ONLY <1>1, <1>2, <1>4, m \in Nat
<1> QED BY <1>1, <1>2, <1>3, <1>4, <1>5 DEF W

LEMMA Thirds ==
    ASSUME NEW k \in Nat, k # 0
    PROVE  \E g \in Nat : k = 3*g + 1 \/ k = 3*g + 2 \/ k = 3*g + 3
<1> DEFINE g == (k - 1) \div 3
<1>1. g \in Nat /\ (k = 3*g + 1 \/ k = 3*g + 2 \/ k = 3*g + 3)  OBVIOUS
<1> QED BY <1>1

\* n characters have the characters that byte number k needs.
LEMMA EnoughChars ==
    ASSUME NEW n \in Nat, NEW g \in Nat
    PROVE  /\ 3*g + 1 <= (6*n) \div 8 => 4*g + 2 <= n
           /\ 3*g + 2 <= (6*n) \div 8 => 4*g + 3 <= n
           /\ 3*g + 3 <= (6*n) \div 8 => 4*g + 4 <= n
OBVIOUS

LEMMA HeldIsOctet ==
    ASSUME NEW chars \in Seq(Nat), NEW bytes, NEW n \in Nat, NEW l \in Nat,
           n = Len(chars), l = Len(bytes), l <= (6*n) \div 8,
           \A k \in 1 .. n : IsBase64(chars[k]), Hold(chars, bytes),
           NEW k \in 1 .. l
    PROVE  bytes[k] = Octet(chars, k)
<1>0. k \in Nat /\ k # 0  OBVIOUS
<1>1. PICK g \in Nat : k = 3*g + 1 \/ k = 3*g + 2 \/ k = 3*g + 3
  BY ONLY <1>0, Thirds
<1>2. \A q \in Nat : q # 0 /\ q <= n => find(chars[q]) \in Value
  BY FoundIsValue
<1>3. k <= (6*n) \div 8 /\ k <= l  OBVIOUS
<1>4. /\ 4*g + 1 \in Nat /\ 4*g + 2 \in Nat /\ 4*g + 3 \in Nat /\ 4*g + 4 \in Nat
      /\ 4*g + 1 # 0 /\ 4*g + 2 # 0 /\ 4*g + 3 # 0 /\ 4*g + 4 # 0
  OBVIOUS
<1>5. CASE k = 3*g + 1
  <2>1. 4*g + 2 <= n  BY ONLY <1>3, <1>5, EnoughChars, n \in Nat, g \in Nat
  <2>2. 4*g + 1 <= n  BY <2>1
  <2>3. find(chars[4*g + 1]) \in Value /\ find(chars[4*g + 2]) \in Value
    BY ONLY <1>2, <1>4, <2>1, <2>2
  <2>4. Octet(chars, k) = Byte1(chars, g)  BY ONLY <1>5, <2>3, OctetsOfGroup, g \in Nat
  <2>5. bytes[k] = Byte1(chars, g)
    BY ONLY <1>3, <1>5, Hold(chars, bytes), l = Len(bytes), g \in Nat DEF Hold
  <2> QED BY <2>4, <2>5
<1>6. CASE k = 3*g + 2
  <2>1. 4*g + 3 <= n  BY ONLY <1>3, <1>6, EnoughChars, n \in Nat, g \in Nat
  <2>2. 4*g + 2 <= n  BY <2>1
  <2>3. find(chars[4*g + 2]) \in Value /\ find(chars[4*g + 3]) \in Value
    BY ONLY <1>2, <1>4, <2>1, <2>2
  <2>4. Octet(chars, k) = Byte2(chars, g)  BY ONLY <1>6, <2>3, OctetsOfGroup, g \in Nat
  <2>5. bytes[k] = Byte2(chars, g)
    BY ONLY <1>3, <1>6, Hold(chars, bytes), l = Len(bytes), g \in Nat DEF Hold
  <2> QED BY <2>4, <2>5
<1>7. CASE k = 3*g + 3
  <2>1. 4*g + 4 <= n  BY ONLY <1>3, <1>7, EnoughChars, n \in Nat, g \in Nat
  <2>2. 4*g + 3 <= n  BY <2>1
  <2>3. find(chars[4*g + 3]) \in Value /\ find(chars[4*g + 4]) \in Value
    BY ONLY <1>2, <1>4, <2>1, <2>2
  <2>4. Octet(chars, k) = Byte3(chars, g)  BY ONLY <1>7, <2>3, OctetsOfGroup, g \in Nat
  <2>5. bytes[k] = Byte3(chars, g)
    BY ONLY <1>3, <1>7, Hold(chars, bytes), l = Len(bytes), g \in Nat DEF Hold
  <2> QED BY <2>4, <2>5
<1> QED BY <1>1, <1>5, <1>6, <1>7

\* Bytes are the beginning of those in the bits of the characters.
LEMMA HeldAreFirst ==
    ASSUME NEW chars \in Seq(Nat), NEW bytes \in Seq(Nat),
           \A k \in 1 .. Len(chars) : IsBase64(chars[k]), Hold(chars, bytes),
           Len(bytes) <= (6 * Len(chars)) \div 8
    PROVE  bytes = SubSeq(BytesIn(chars), 1, Len(bytes))
<1> DEFINE b == BytesIn(chars)
           l == Len(bytes)
           t == SubSeq(b, 1, l)
<1>1. PICK n \in Nat, m \in Nat : n = Len(chars) /\ m = (6*n) \div 8  OBVIOUS
<1> DEFINE W == {Octet(chars, k) : k \in 1 .. m}
<1>0. /\ b \in Seq(W) /\ \A k \in 1 .. m : b[k] = Octet(chars, k)
  BY ONLY <1>1, LenOfBytesIn, m \in Nat
<1>2. l \in Nat /\ l <= m  BY <1>1
<1>3. \A k \in 1 .. l : b[k] = Octet(chars, k) /\ b[k] \in W
  <2>1. \A k \in 1 .. l : k \in 1 .. m  BY ONLY <1>2, m \in Nat
  <2> QED BY <1>0, <2>1
<1>4. \A k \in 1 .. l : bytes[k] = Octet(chars, k)
  BY ONLY <1>1, <1>2, HeldIsOctet, chars \in Seq(Nat), n \in Nat, Hold(chars, bytes),
     \A k \in 1 .. Len(chars) : IsBase64(chars[k])
<1> HIDE DEF b, W
<1>5. l \in Int /\ 1 \in Int /\ l - 1 + 1 = l /\ (\A k \in Int : 1 + k - 1 = k)
  BY ONLY <1>2
<1>6. /\ t \in Seq(W) /\ Len(t) = IF 1 <= l THEN l - 1 + 1 ELSE 0
      /\ \A k \in 1 .. l - 1 + 1 : t[k] = b[1 + k - 1]
  BY ONLY <1>3, <1>5, SubSeqProperties
<1>7. Len(t) = l  BY ONLY <1>2, <1>6
<1>8. \A k \in 1 .. l : t[k] = bytes[k]  BY ONLY <1>2, <1>3, <1>4, <1>5, <1>6
<1> DEFINE U == W \cup Nat
<1>9. t \in Seq(U) /\ bytes \in Seq(U)
  BY ONLY <1>6, SeqMonotonic, W \subseteq U, Nat \subseteq U, bytes \in Seq(Nat)
<1> HIDE DEF U, t, l
<1>10. t = bytes  BY ONLY <1>7, <1>8, <1>9, SeqEqual DEF l
<1> QED BY ONLY <1>10 DEF t, l, b

LEMMA HeldAreAll ==
    ASSUME NEW chars \in Seq(Nat), NEW bytes \in Seq(Nat),
           \A k \in 1 .. Len(chars) : IsBase64(chars[k]), Hold(chars, bytes),
           Len(bytes) = (6 * Len(chars)) \div 8
    PROVE  bytes = BytesIn(chars)
<1>1. PICK m \in Nat : m = (6 * Len(chars)) \div 8  OBVIOUS
<1>2. /\ BytesIn(chars) \in Seq({Octet(chars, k) : k \in 1 .. m})
      /\ Len(BytesIn(chars)) = m
  BY <1>1, LenOfBytesIn
<1>3. bytes = SubSeq(BytesIn(chars), 1, Len(BytesIn(chars)))
  <2>1. Len(bytes) <= (6 * Len(chars)) \div 8  BY <1>1
  <2> QED BY <1>1, <1>2, <2>1, HeldAreFirst
<1> QED BY ONLY <1>2, <1>3, SubSeqFull

\* Characters that are added change none of the bytes.
LEMMA HeldByMore ==
    ASSUME NEW few, NEW more, NEW n \in Nat, NEW bytes, NEW l \in Nat, l = Len(bytes),
           \A k \in 1 .. n : more[k] = few[k], l <= (6*n) \div 8, Hold(few, bytes)
    PROVE  Hold(more, bytes)
<1> SUFFICES ASSUME NEW g \in Nat
             PROVE  /\ 3*g + 1 <= l => bytes[3*g + 1] = Byte1(more, g)
                    /\ 3*g + 2 <= l => bytes[3*g + 2] = Byte2(more, g)
                    /\ 3*g + 3 <= l => bytes[3*g + 3] = Byte3(more, g)
  BY DEF Hold
<1>1. /\ 3*g + 1 <= l => bytes[3*g + 1] = Byte1(few, g)
      /\ 3*g + 2 <= l => bytes[3*g + 2] = Byte2(few, g)
      /\ 3*g + 3 <= l => bytes[3*g + 3] = Byte3(few, g)
  BY DEF Hold
<1>2. \A q \in Nat : q # 0 /\ q <= n => more[q] = few[q]  OBVIOUS
<1>3. /\ 3*g + 1 <= l => more[4*g + 1] = few[4*g + 1] /\ more[4*g + 2] = few[4*g + 2]
      /\ 3*g + 2 <= l => more[4*g + 2] = few[4*g + 2] /\ more[4*g + 3] = few[4*g + 3]
      /\ 3*g + 3 <= l => more[4*g + 3] = few[4*g + 3] /\ more[4*g + 4] = few[4*g + 4]
  <2>1. /\ 3*g + 1 <= l => 4*g + 1 <= n /\ 4*g + 2 <= n
        /\ 3*g + 2 <= l => 4*g + 2 <= n /\ 4*g + 3 <= n
        /\ 3*g + 3 <= l => 4*g + 3 <= n /\ 4*g + 4 <= n
    BY ONLY l <= (6*n) \div 8, n \in Nat, l \in Nat, g \in Nat
  <2>2. /\ 4*g + 1 \in Nat /\ 4*g + 2 \in Nat /\ 4*g + 3 \in Nat /\ 4*g + 4 \in Nat
        /\ 4*g + 1 # 0 /\ 4*g + 2 # 0 /\ 4*g + 3 # 0 /\ 4*g + 4 # 0
    OBVIOUS
  <2> QED BY ONLY <1>2, <2>1, <2>2
<1> QED BY ONLY <1>1, <1>3 DEF Byte1, Byte2, Byte3

\* A byte is added to those of whole groups, up to three.
LEMMA HoldNext ==
    ASSUME NEW chars, NEW h \in Nat, NEW bytes, NEW more,
           Len(bytes) \in Nat, Len(bytes) <= 3*h, Len(more) \in Nat,
           Len(more) > Len(bytes) => Len(bytes) = 3*h, Len(more) <= Len(bytes) + 3,
           \A k \in 1 .. Len(bytes) : more[k] = bytes[k], Hold(chars, bytes),
           Len(more) >= 3*h + 1 => more[3*h + 1] = Byte1(chars, h),
           Len(more) >= 3*h + 2 => more[3*h + 2] = Byte2(chars, h),
           Len(more) >= 3*h + 3 => more[3*h + 3] = Byte3(chars, h)
    PROVE  Hold(chars, more)
<1>0. PICK l \in Nat, m \in Nat :
        /\ l = Len(bytes) /\ m = Len(more) /\ l <= 3*h /\ m <= l + 3
        /\ m > l => l = 3*h
        /\ \A k \in 1 .. l : more[k] = bytes[k]
        /\ m >= 3*h + 1 => more[3*h + 1] = Byte1(chars, h)
        /\ m >= 3*h + 2 => more[3*h + 2] = Byte2(chars, h)
        /\ m >= 3*h + 3 => more[3*h + 3] = Byte3(chars, h)
  OBVIOUS
<1> SUFFICES ASSUME NEW g \in Nat
             PROVE  /\ 3*g + 1 <= m => more[3*g + 1] = Byte1(chars, g)
                    /\ 3*g + 2 <= m => more[3*g + 2] = Byte2(chars, g)
                    /\ 3*g + 3 <= m => more[3*g + 3] = Byte3(chars, g)
  BY <1>0 DEF Hold
<1>1. /\ 3*g + 1 <= l => bytes[3*g + 1] = Byte1(chars, g)
      /\ 3*g + 2 <= l => bytes[3*g + 2] = Byte2(chars, g)
      /\ 3*g + 3 <= l => bytes[3*g + 3] = Byte3(chars, g)
  BY <1>0 DEF Hold
<1>2. \A q \in Nat : q # 0 /\ q <= l => more[q] = bytes[q]  BY <1>0
<1>3. CASE g = h  BY ONLY <1>0, <1>3
<1>4. CASE g # h
  <2>1. /\ 3*g + 1 <= m => 3*g + 1 <= l
        /\ 3*g + 2 <= m => 3*g + 2 <= l
        /\ 3*g + 3 <= m => 3*g + 3 <= l
    <3>1. l <= 3*h /\ m <= l + 3 /\ (m > l => l = 3*h)  BY ONLY <1>0
    <3> QED BY ONLY <1>4, <3>1, g \in Nat, h \in Nat, l \in Nat, m \in Nat
  <2>2. /\ 3*g + 1 \in Nat /\ 3*g + 2 \in Nat /\ 3*g + 3 \in Nat
        /\ 3*g + 1 # 0 /\ 3*g + 2 # 0 /\ 3*g + 3 # 0
    OBVIOUS
  <2> QED BY ONLY <1>1, <1>2, <2>1, <2>2
<1> QED BY <1>3, <1>4

-----------------------------------------------------------------------------
(* The characters of the alphabet in a text *)

\* What OfAlphabet makes of one more character.
Kept(t, n, s) == IF IsBase64(t[n]) THEN Append(s, t[n]) ELSE s

LEMMA KeptIsText ==
    ASSUME NEW t \in Seq(Nat), NEW n \in 1 .. Len(t), NEW s \in Seq(Base64Chars)
    PROVE  Kept(t, n, s) \in Seq(Base64Chars)
<1>1. CASE IsBase64(t[n])
  <2>1. t[n] \in Base64Chars  BY <1>1, FoundIsValue DEF Base64Chars
  <2>2. Append(s, t[n]) \in Seq(Base64Chars)  BY <2>1, AppendProperties
  <2> QED BY <1>1, <2>2 DEF Kept
<1>2. CASE ~IsBase64(t[n])  BY <1>2 DEF Kept
<1> QED BY <1>1, <1>2

LEMMA KeptFunction ==
    ASSUME NEW t \in Seq(Nat)
    PROVE  \E F \in [0 .. Len(t) -> Seq(Base64Chars)] :
               /\ F[0] = << >>
               /\ \A n \in 1 .. Len(t) : F[n] = Kept(t, n, F[n - 1])
<1> DEFINE B == Base64Chars
           Good(F, m) == F[0] = << >> /\ \A n \in 1 .. m : F[n] = Kept(t, n, F[n - 1])
           P == {m \in Nat : m <= Len(t) => \E F \in [0 .. m -> Seq(B)] : Good(F, m)}
<1>1. Len(t) \in Nat  OBVIOUS
<1>2. 0 \in P
  <2> DEFINE F == [n \in 0 .. 0 |-> << >>]
  <2>1. << >> \in Seq(B)  BY EmptySeq
  <2>2. F \in [0 .. 0 -> Seq(B)] /\ F[0] = << >>  BY <2>1
  <2>3. \A n \in 1 .. 0 : FALSE  OBVIOUS
  <2> HIDE DEF F, B
  <2>4. Good(F, 0)  BY <2>2, <2>3
  <2>5. \E G \in [0 .. 0 -> Seq(B)] : Good(G, 0)  BY <2>2, <2>4
  <2> QED BY <2>5
<1>3. ASSUME NEW m \in Nat, m \in P PROVE m + 1 \in P
  <2> HIDE DEF Good
  <2> SUFFICES ASSUME m + 1 <= Len(t)
               PROVE  \E G \in [0 .. m + 1 -> Seq(B)] : Good(G, m + 1)
    OBVIOUS
  <2>1. PICK F \in [0 .. m -> Seq(B)] : Good(F, m)
    <3>1. m <= Len(t)  BY <1>1
    <3> QED BY <1>3, <3>1
  <2> USE DEF Good
  <2> DEFINE e == Kept(t, m + 1, F[m])
             G == [n \in 0 .. m + 1 |-> IF n = m + 1 THEN e ELSE F[n]]
  <2>2. e \in Seq(B)
    <3>1. F[m] \in Seq(B) /\ m + 1 \in 1 .. Len(t)  BY <1>1, <2>1
    <3> QED BY <3>1, KeptIsText
  <2> HIDE DEF e, B
  <2>3. \A n \in 0 .. m + 1 : n # m + 1 => n \in 0 .. m  OBVIOUS
  <2>4. G \in [0 .. m + 1 -> Seq(B)]  BY <2>1, <2>2, <2>3
  <2>5. G[m + 1] = e /\ \A n \in 0 .. m : G[n] = F[n]  OBVIOUS
  <2> HIDE DEF G
  <2>6. G[0] = << >>
    <3>1. 0 \in 0 .. m  OBVIOUS
    <3> QED BY <2>1, <2>5, <3>1
  <2>7. ASSUME NEW n \in 1 .. m + 1 PROVE G[n] = Kept(t, n, G[n - 1])
    <3>1. CASE n = m + 1
      <4>1. n - 1 = m /\ m \in 0 .. m  BY <3>1
      <4> QED BY <2>5, <3>1, <4>1 DEF e
    <3>2. CASE n # m + 1
      <4>1. n \in 1 .. m /\ n \in 0 .. m /\ n - 1 \in 0 .. m  BY <3>2
      <4> QED BY <2>1, <2>5, <4>1
    <3> QED BY <3>1, <3>2
  <2> QED BY <2>4, <2>6, <2>7
<1> HIDE DEF P
<1>4. Nat \subseteq P  BY <1>2, <1>3, SetInduction
<1>5. Len(t) \in P  BY <1>1, <1>4
<1> QED BY <1>1, <1>5 DEF P

LEMMA OfAlphabetIs ==
    ASSUME NEW t \in Seq(Nat)
    PROVE  /\ OfAlphabet(t) \in [0 .. Len(t) -> Seq(Base64Chars)]
           /\ OfAlphabet(t)[0] = << >>
           /\ \A n \in 1 .. Len(t) : OfAlphabet(t)[n] = Kept(t, n, OfAlphabet(t)[n - 1])
<1> DEFINE D == 0 .. Len(t)
           Is(F) == F = [n \in D |-> IF n = 0 THEN << >>
                                     ELSE IF IsBase64(t[n]) THEN Append(F[n - 1], t[n])
                                     ELSE F[n - 1]]
<1>1. OfAlphabet(t) = CHOOSE F : Is(F)  BY DEF OfAlphabet
<1>2. PICK F \in [D -> Seq(Base64Chars)] :
          F[0] = << >> /\ \A n \in 1 .. Len(t) : F[n] = Kept(t, n, F[n - 1])
  BY KeptFunction
<1>3. \A n \in D : n = 0 \/ n \in 1 .. Len(t)  OBVIOUS
<1>4. Is(F)
  <2>1. \A n \in D : F[n] = IF n = 0 THEN << >>
                            ELSE IF IsBase64(t[n]) THEN Append(F[n - 1], t[n])
                            ELSE F[n - 1]
    BY <1>2, <1>3 DEF Kept
  <2>2. F = [n \in D |-> F[n]]  BY <1>2
  <2> QED BY <2>1, <2>2
<1>5. PICK G : G = OfAlphabet(t) /\ Is(G)  BY <1>1, <1>4
<1>6. /\ \A n \in 1 .. Len(t) : G[n] = Kept(t, n, G[n - 1])
      /\ G[0] = << >> /\ DOMAIN G = D /\ G = [n \in D |-> G[n]]
  <2>1. 0 \in D /\ \A n \in 1 .. Len(t) : n \in D /\ n # 0  OBVIOUS
  <2>2. \A n \in D : G[n] = IF n = 0 THEN << >>
                            ELSE IF IsBase64(t[n]) THEN Append(G[n - 1], t[n])
                            ELSE G[n - 1]
    BY <1>5
  <2>3. DOMAIN G = D /\ G = [n \in D |-> G[n]]  BY <1>5
  <2> QED BY <2>1, <2>2, <2>3 DEF Kept
<1> DEFINE P == {m \in Nat : m <= Len(t) => G[m] \in Seq(Base64Chars)}
<1>7. 0 \in P
  <2>1. G[0] \in Seq(Base64Chars)  BY ONLY <1>6, EmptySeq, Zenon
  <2> QED BY ONLY <2>1
<1>8. ASSUME NEW m \in Nat, m \in P PROVE m + 1 \in P
  <2> SUFFICES ASSUME m + 1 <= Len(t) PROVE G[m + 1] \in Seq(Base64Chars)  OBVIOUS
  <2>1. m + 1 \in 1 .. Len(t) /\ m + 1 - 1 = m /\ m <= Len(t)  OBVIOUS
  <2>2. G[m] \in Seq(Base64Chars)  BY <1>8, <2>1
  <2>3. G[m + 1] = Kept(t, m + 1, G[m])
    <3>1. PICK n \in 1 .. Len(t) : n = m + 1 /\ n - 1 = m  BY <2>1
    <3>2. G[n] = Kept(t, n, G[n - 1])  BY <1>6
    <3> QED BY ONLY <3>1, <3>2
  <2> QED BY <2>1, <2>2, <2>3, KeptIsText
<1>9. \A m \in D : G[m] \in Seq(Base64Chars)
  <2> HIDE DEF P
  <2>1. Nat \subseteq P  BY <1>7, <1>8, SetInduction
  <2> QED BY <2>1 DEF P
<1>10. G \in [D -> Seq(Base64Chars)]  BY <1>6, <1>9
<1> QED BY <1>5, <1>6, <1>10

\* The characters kept of the beginning of a text begin those of the whole.
LEMMA KeptIsPrefix ==
    ASSUME NEW t \in Seq(Nat), NEW m \in 0 .. Len(t)
    PROVE  LET few == OfAlphabet(t)[m]
               all == OfAlphabet(t)[Len(t)]
           IN  Len(few) <= Len(all) /\ \A k \in 1 .. Len(few) : all[k] = few[k]
<1> DEFINE A == OfAlphabet(t)
           few == A[m]
           Q(n) == Len(few) <= Len(A[n]) /\ \A k \in 1 .. Len(few) : A[n][k] = few[k]
           P == {n \in Nat : m <= n /\ n <= Len(t) => Q(n)}
<1>1. /\ A \in [0 .. Len(t) -> Seq(Base64Chars)]
      /\ \A n \in 1 .. Len(t) : A[n] = Kept(t, n, A[n - 1])
  BY OfAlphabetIs
<1> HIDE DEF A
<1>2. few \in Seq(Base64Chars) /\ Len(few) \in Nat
  <2>1. few \in Seq(Base64Chars)  BY ONLY <1>1, m \in 0 .. Len(t)
  <2> QED BY ONLY <2>1, LenProperties
<1>3. Q(m)  BY <1>2
<1>4. 0 \in P
  <2>1. m <= 0 => m = 0  OBVIOUS
  <2> QED BY <1>3, <2>1
<1>5. ASSUME NEW n \in Nat, n \in P PROVE n + 1 \in P
  <2> SUFFICES ASSUME m <= n + 1, n + 1 <= Len(t) PROVE Q(n + 1)  OBVIOUS
  <2>1. CASE m = n + 1  BY <1>3, <2>1
  <2>2. CASE m # n + 1
    <3>1. m <= n /\ n <= Len(t) /\ n \in 0 .. Len(t) /\ n + 1 \in 1 .. Len(t)
      /\ n + 1 - 1 = n
      BY <2>2
    <3>2. Q(n)  BY <1>5, <3>1
    <3>3. A[n + 1] = Kept(t, n + 1, A[n]) /\ A[n] \in Seq(Base64Chars)
      <4>1. A[n] \in Seq(Base64Chars)  BY ONLY <1>1, <3>1
      <4>2. A[n + 1] = Kept(t, n + 1, A[n + 1 - 1])  BY ONLY <1>1, <3>1
      <4> QED BY ONLY <3>1, <4>1, <4>2
    <3> DEFINE s == A[n]
    <3> HIDE DEF s
    <3>4. CASE IsBase64(t[n + 1])
      <4>1. t[n + 1] \in Base64Chars  BY <3>4, FoundIsValue DEF Base64Chars
      <4>2. A[n + 1] = Append(s, t[n + 1])  BY <3>3, <3>4 DEF Kept, s
      <4>3. /\ Len(Append(s, t[n + 1])) = Len(s) + 1
            /\ \A k \in 1 .. Len(s) : Append(s, t[n + 1])[k] = s[k]
            /\ Len(s) \in Nat
        BY <3>3, <4>1, AppendProperties, LenProperties DEF s
      <4>4. Len(few) <= Len(s) /\ \A k \in 1 .. Len(few) : s[k] = few[k]
        BY <3>2 DEF s
      <4>5. \A k \in 1 .. Len(few) : k \in 1 .. Len(s)  BY <1>2, <4>3, <4>4
      <4> QED BY <1>2, <4>2, <4>3, <4>4, <4>5
    <3>5. CASE ~IsBase64(t[n + 1])
      <4>1. A[n + 1] = A[n]  BY <3>3, <3>5 DEF Kept
      <4> QED BY <3>2, <4>1
    <3> QED BY <3>4, <3>5
  <2> QED BY <2>1, <2>2
<1>6. Nat \subseteq P
  <2> HIDE DEF P
  <2> QED BY <1>4, <1>5, SetInduction
<1>7. Len(t) \in Nat /\ m <= Len(t)  OBVIOUS
<1>8. Q(Len(t))  BY <1>6, <1>7
<1> QED BY <1>8 DEF A

-----------------------------------------------------------------------------
(* base64Decode *)

LEMMA TripleIs ==
    ASSUME NEW a \in Byte, NEW b \in Byte, NEW c \in Byte, NEW d \in Byte
    PROVE  /\ a \in Value /\ b \in Value => Triple(a, b, c, d)[1] = a * 4 + b \div 16
           /\ b \in Value /\ c \in Value =>
                 Triple(a, b, c, d)[2] = (b % 16) * 16 + c \div 4
           /\ c \in Value /\ d \in Value => Triple(a, b, c, d)[3] = (c % 4) * 64 + d
<1> DEFINE t == Triple(a, b, c, d)
<1>1. /\ t[1] = (a * 4 + ((b \div 16) % 4)) % 256
      /\ t[2] = ((b % 16) * 16 + ((c \div 4) % 16)) % 256
      /\ t[3] = ((c % 4) * 64 + d) % 256
  BY DEF Triple
<1> HIDE DEF t
<1>2. ASSUME a \in Value, b \in Value PROVE t[1] = a * 4 + b \div 16
  <2>1. a \in 0 .. 63 /\ b \in 0 .. 63  BY <1>2 DEF Value
  <2>2. (a * 4 + ((b \div 16) % 4)) % 256 = a * 4 + b \div 16  BY ONLY <2>1
  <2> QED BY <1>1, <2>2
<1>3. ASSUME b \in Value, c \in Value PROVE t[2] = (b % 16) * 16 + c \div 4
  <2>1. b \in 0 .. 63 /\ c \in 0 .. 63  BY <1>3 DEF Value
  <2>2. ((b % 16) * 16 + ((c \div 4) % 16)) % 256 = (b % 16) * 16 + c \div 4
    BY ONLY <2>1
  <2> QED BY <1>1, <2>2
<1>4. ASSUME c \in Value, d \in Value PROVE t[3] = (c % 4) * 64 + d
  <2>1. c \in 0 .. 63 /\ d \in 0 .. 63  BY <1>4 DEF Value
  <2>2. ((c % 4) * 64 + d) % 256 = (c % 4) * 64 + d  BY ONLY <2>1
  <2> QED BY <1>1, <2>2
<1> QED BY <1>2, <1>3, <1>4 DEF t

\* What base64Decode has read are characters of the alphabet, and what it has
\* decoded are the bytes of their whole groups (wp_base64.cpp:73-93).
Reading ==
    \E h \in Nat :
        /\ in = 4*h + Len(four) /\ Len(four) <= 3 /\ in <= Len(text)
        /\ \A k \in 1 .. in : IsBase64(text[k])
        /\ \A k \in 1 .. Len(four) : four[k] = text[4*h + k]
        /\ Len(out) = 3*h /\ Hold(text, out)

DecodedBits ==
    \E n \in 0 .. Len(text) :
        /\ \A k \in 1 .. n : IsBase64(text[k])
        /\ n < Len(text) => ~IsBase64(text[n + 1])
        /\ out = BytesIn(SubSeq(text, 1, n))

\* What the loop keeps, with names for the group and its characters.
LEMMA ReadingIs ==
    ASSUME Base64Inv, codec = "decode", Reading
    PROVE  \E h \in Nat, r \in 0 .. 3 :
               /\ r = Len(four) /\ in = 4*h + r /\ in <= Len(text)
               /\ \A k \in 1 .. in : IsBase64(text[k])
               /\ \A k \in 1 .. r : four[k] = text[4*h + k]
               /\ Len(out) = 3*h /\ Hold(text, out)
               /\ text \in Seq(Nat) /\ four \in Seq(Nat) /\ out \in Seq(Nat)
               /\ in \in Nat /\ Len(text) \in Nat
               /\ r > 0 => four[1] = text[4*h + 1] /\ IsBase64(four[1])
               /\ r > 1 => four[2] = text[4*h + 2] /\ IsBase64(four[2])
               /\ r > 2 => four[3] = text[4*h + 3] /\ IsBase64(four[3])
<1>1. PICK h \in Nat :
        /\ in = 4*h + Len(four) /\ Len(four) <= 3 /\ in <= Len(text)
        /\ \A k \in 1 .. in : IsBase64(text[k])
        /\ \A k \in 1 .. Len(four) : four[k] = text[4*h + k]
        /\ Len(out) = 3*h /\ Hold(text, out)
  BY DEF Reading
<1>2. /\ text \in Seq(Nat) /\ four \in Seq(Nat) /\ out \in Seq(Nat) /\ in \in Nat
  BY DEF Base64Inv
<1>3. Len(text) \in Nat /\ Len(four) \in Nat  BY ONLY <1>2, LenProperties
<1>4. PICK r \in 0 .. 3 : r = Len(four)
  <2>1. PICK r \in Nat : r = Len(four) /\ r <= 3  BY ONLY <1>1, <1>3
  <2>2. r \in 0 .. 3  BY ONLY <2>1, r \in Nat
  <2> QED BY ONLY <2>1, <2>2
<1>5. /\ r > 0 => 1 \in 1 .. r /\ 4*h + 1 \in 1 .. in
      /\ r > 1 => 2 \in 1 .. r /\ 4*h + 2 \in 1 .. in
      /\ r > 2 => 3 \in 1 .. r /\ 4*h + 3 \in 1 .. in
  BY ONLY <1>1, <1>4, h \in Nat, r \in 0 .. 3
<1>6. /\ r > 0 => four[1] = text[4*h + 1] /\ IsBase64(four[1])
      /\ r > 1 => four[2] = text[4*h + 2] /\ IsBase64(four[2])
      /\ r > 2 => four[3] = text[4*h + 3] /\ IsBase64(four[3])
  BY ONLY <1>1, <1>4, <1>5
<1> QED BY ONLY <1>1, <1>2, <1>3, <1>4, <1>6, h \in Nat, r \in 0 .. 3

LEMMA ReadingNext ==
    ASSUME NEW h \in Nat, in' = 4*h + Len(four'), Len(four') <= 3, in' <= Len(text'),
           \A k \in 1 .. in' : IsBase64(text'[k]),
           \A k \in 1 .. Len(four') : four'[k] = text'[4*h + k],
           Len(out') = 3*h, Hold(text', out')
    PROVE  Reading'
BY DEF Reading, Hold, Byte1, Byte2, Byte3

\* Two sequences, one after the other.
LEMMA Joined ==
    ASSUME NEW s \in Seq(Nat), NEW t \in Seq(Nat), NEW l \in Nat, NEW m \in Nat,
           l = Len(s), m = Len(t)
    PROVE  /\ s \o t \in Seq(Nat) /\ Len(s \o t) = l + m
           /\ \A k \in 1 .. l : (s \o t)[k] = s[k]
           /\ \A k \in 1 .. m : (s \o t)[l + k] = t[k]
BY Appended

LEMMA DecodeCharReads ==
    ASSUME Base64Inv, Reading, DecodeChar PROVE Reading'
<1>1. /\ text' = text /\ codec = "decode" /\ in < Len(text) /\ IsBase64(text[in + 1])
      /\ in' = in + 1
  BY DEF DecodeChar, source
<1>2. PICK h \in Nat, r \in 0 .. 3 :
               /\ r = Len(four) /\ in = 4*h + r /\ in <= Len(text)
               /\ \A k \in 1 .. in : IsBase64(text[k])
               /\ \A k \in 1 .. r : four[k] = text[4*h + k]
               /\ Len(out) = 3*h /\ Hold(text, out)
               /\ text \in Seq(Nat) /\ four \in Seq(Nat) /\ out \in Seq(Nat)
               /\ in \in Nat /\ Len(text) \in Nat
               /\ r > 0 => four[1] = text[4*h + 1] /\ IsBase64(four[1])
               /\ r > 1 => four[2] = text[4*h + 2] /\ IsBase64(four[2])
               /\ r > 2 => four[3] = text[4*h + 3] /\ IsBase64(four[3])
  BY <1>1, ReadingIs
<1> DEFINE c == text[in + 1]
<1>3. c \in Nat /\ IsBase64(c) /\ find(c) \in Value  BY <1>1, FoundIsValue
<1>4. in' <= Len(text) /\ \A k \in 1 .. in' : IsBase64(text[k])
  <2>1. \A k \in 1 .. in + 1 : k \in 1 .. in \/ k = in + 1  BY <1>2
  <2> QED BY <1>1, <1>2, <2>1
<1> HIDE DEF c
<1>5. CASE r < 3
  <2>1. four' = Append(four, c) /\ out' = out
    BY <1>2, <1>5 DEF DecodeChar, c
  <2>2. /\ Len(four') = r + 1 /\ four'[r + 1] = c
        /\ \A k \in 1 .. r : four'[k] = four[k]
    BY ONLY <1>2, <1>3, <2>1, AppendProperties
  <2>3. \A k \in 1 .. r + 1 : four'[k] = text[4*h + k]
    <3>1. \A k \in 1 .. r + 1 : k \in 1 .. r \/ k = r + 1  BY ONLY r \in 0 .. 3
    <3>2. four'[r + 1] = text[4*h + (r + 1)]
      <4>1. 4*h + (r + 1) = in + 1  BY ONLY <1>2, h \in Nat, r \in 0 .. 3
      <4> QED BY <2>2, <4>1 DEF c
    <3> QED BY ONLY <1>2, <2>2, <3>1, <3>2
  <2>4. in' = 4*h + Len(four') /\ Len(four') <= 3
    BY ONLY <1>1, <1>2, <1>5, <2>2, h \in Nat, r \in 0 .. 3
  <2>5. Len(out') = 3*h /\ Hold(text', out')  BY <1>1, <1>2, <2>1
  <2>6. /\ \A k \in 1 .. in' : IsBase64(text'[k])
        /\ \A k \in 1 .. Len(four') : four'[k] = text'[4*h + k]
        /\ in' <= Len(text')
    BY <1>1, <1>4, <2>2, <2>3
  <2> QED BY ONLY <2>4, <2>5, <2>6, ReadingNext, h \in Nat
<1>6. CASE r = 3
  <2> DEFINE v1 == find(four[1])  v2 == find(four[2])  v3 == find(four[3])  v4 == find(c)
             t == Triple(v1, v2, v3, v4)
  <2>1. four' = << >> /\ out' = out \o t
    <3>1. ~(Len(four) < 3)  BY <1>2, <1>6
    <3> QED BY <3>1 DEF DecodeChar, c
  <2>2. v1 \in Value /\ v2 \in Value /\ v3 \in Value /\ v4 \in Value
    BY <1>2, <1>3, <1>6, FoundIsValue
  <2>3. v1 \in Byte /\ v2 \in Byte /\ v3 \in Byte /\ v4 \in Byte
    BY <2>2 DEF Value, Byte
  <2>4. c = text[4*h + 4]
    <3>1. 4*h + 4 = in + 1  BY ONLY <1>2, <1>6, h \in Nat
    <3> QED BY <3>1 DEF c
  <2>5. /\ v1 = find(text[4*h + 1]) /\ v2 = find(text[4*h + 2])
        /\ v3 = find(text[4*h + 3]) /\ v4 = find(text[4*h + 4])
    BY <1>2, <1>6, <2>4
  <2> HIDE DEF v1, v2, v3, v4
  <2>6. /\ t[1] = v1 * 4 + v2 \div 16 /\ t[2] = (v2 % 16) * 16 + v3 \div 4
        /\ t[3] = (v3 % 4) * 64 + v4
    BY ONLY <2>2, <2>3, TripleIs
  <2>7. t \in Seq(Nat) /\ Len(t) = 3  BY <2>3, TripleIsBytes
  <2> HIDE DEF t
  <2>8. /\ out' \in Seq(Nat) /\ Len(out') = 3*h + 3
        /\ \A k \in 1 .. 3*h : out'[k] = out[k]
        /\ \A k \in 1 .. 3 : out'[3*h + k] = t[k]
    <3>1. PICK l \in Nat : l = 3*h  BY ONLY h \in Nat
    <3>2. PICK m \in Nat : m = 3  OBVIOUS
    <3>3. l = Len(out) /\ m = Len(t) /\ out \in Seq(Nat) /\ t \in Seq(Nat)
      BY ONLY <1>2, <2>7, <3>1, <3>2
    <3>4. /\ out \o t \in Seq(Nat) /\ Len(out \o t) = l + m
          /\ \A k \in 1 .. l : (out \o t)[k] = out[k]
          /\ \A k \in 1 .. m : (out \o t)[l + k] = t[k]
      BY ONLY <3>3, Joined, m \in Nat, l \in Nat
    <3> QED BY ONLY <2>1, <3>1, <3>2, <3>4
  <2>9. out'[3*h + 1] = t[1] /\ out'[3*h + 2] = t[2] /\ out'[3*h + 3] = t[3]
    BY ONLY <2>8
  <2>10. /\ out'[3*h + 1] = Byte1(text, h) /\ out'[3*h + 2] = Byte2(text, h)
         /\ out'[3*h + 3] = Byte3(text, h)
    BY ONLY <2>5, <2>6, <2>9 DEF Byte1, Byte2, Byte3
  <2>11. Hold(text, out')
    <3>1. /\ Len(out) \in Nat /\ Len(out) <= 3*h /\ Len(out') \in Nat
          /\ Len(out') > Len(out) => Len(out) = 3*h
          /\ Len(out') <= Len(out) + 3
      <4>1. Len(out) = 3*h /\ Len(out') = 3*h + 3  BY ONLY <1>2, <2>8
      <4> QED BY ONLY <4>1, h \in Nat
    <3>2. \A k \in 1 .. Len(out) : out'[k] = out[k]  BY ONLY <1>2, <2>8
    <3>3. Hold(text, out)  BY ONLY <1>2
    <3> QED BY ONLY <2>10, <3>1, <3>2, <3>3, HoldNext, h \in Nat
  <2>12. PICK g \in Nat : g = h + 1 /\ 3*g = 3*h + 3 /\ in' = 4*g + 0 /\ Len(<< >>) = 0
    BY ONLY <1>1, <1>2, <1>6, h \in Nat, EmptySeq
  <2>13. /\ in' = 4*g + Len(four') /\ Len(four') <= 3
         /\ \A k \in 1 .. Len(four') : four'[k] = text'[4*g + k]
    BY ONLY <2>1, <2>12
  <2>14. /\ \A k \in 1 .. in' : IsBase64(text'[k]) /\ in' <= Len(text')
         /\ Len(out') = 3*g /\ Hold(text', out')
    BY <1>1, <1>4, <2>8, <2>11, <2>12
  <2>15. in' <= Len(text')  BY <1>1, <1>4
  <2>16. /\ in' = 4*g + Len(four') /\ Len(four') <= 3 /\ in' <= Len(text')
         /\ \A k \in 1 .. in' : IsBase64(text'[k])
         /\ \A k \in 1 .. Len(four') : four'[k] = text'[4*g + k]
         /\ Len(out') = 3*g /\ Hold(text', out')
    BY ONLY <2>13, <2>14, <2>15
  <2> QED BY ONLY <2>16, ReadingNext, g \in Nat
<1>7. r < 3 \/ r = 3  BY ONLY r \in 0 .. 3
<1> QED BY ONLY <1>5, <1>6, <1>7

\* The bytes of the group that has begun.
LEMMA RestHolds ==
    ASSUME NEW h \in Nat, NEW n \in 1 .. 3, n = Len(four), four \in Seq(Nat),
           n > 0 => four[1] = text[4*h + 1] /\ IsBase64(four[1]),
           n > 1 => four[2] = text[4*h + 2] /\ IsBase64(four[2]),
           n > 2 => four[3] = text[4*h + 3] /\ IsBase64(four[3])
    PROVE  /\ Rest \in Seq(Nat) /\ Len(Rest) = n - 1
           /\ n > 1 => Rest[1] = Byte1(text, h)
           /\ n > 2 => Rest[2] = Byte2(text, h)
<1>1. PICK a \in Byte, b \in Byte, c \in Byte, d \in Byte :
               /\ a = find(four[1])
               /\ n > 1 => b = find(four[2])
               /\ n > 2 => c = find(four[3])
               /\ Rest \in Seq(Nat) /\ Len(Rest) = n - 1
               /\ \A i \in 1 .. n - 1 : Rest[i] = Triple(a, b, c, d)[i]
  BY RestIsFound
<1>2. n > 1 => Rest[1] = Byte1(text, h)
  <2> SUFFICES ASSUME n > 1 PROVE Rest[1] = Byte1(text, h)  OBVIOUS
  <2>1. a \in Value /\ b \in Value  BY <1>1, FoundIsValue
  <2>2. Rest[1] = a * 4 + b \div 16
    <3>1. 1 \in 1 .. n - 1  OBVIOUS
    <3>2. Rest[1] = Triple(a, b, c, d)[1]  BY <1>1, <3>1
    <3> QED BY <2>1, <3>2, TripleIs
  <2>3. a = find(text[4*h + 1]) /\ b = find(text[4*h + 2])  BY <1>1
  <2> QED BY ONLY <2>2, <2>3 DEF Byte1
<1>3. n > 2 => Rest[2] = Byte2(text, h)
  <2> SUFFICES ASSUME n > 2 PROVE Rest[2] = Byte2(text, h)  OBVIOUS
  <2>1. b \in Value /\ c \in Value  BY <1>1, FoundIsValue
  <2>2. Rest[2] = (b % 16) * 16 + c \div 4
    <3>1. 2 \in 1 .. n - 1  OBVIOUS
    <3>2. Rest[2] = Triple(a, b, c, d)[2]  BY <1>1, <3>1
    <3> QED BY <2>1, <3>2, TripleIs
  <2>3. b = find(text[4*h + 2]) /\ c = find(text[4*h + 3])  BY <1>1
  <2> QED BY ONLY <2>2, <2>3 DEF Byte2
<1> QED BY <1>1, <1>2, <1>3

LEMMA DecodeEndDecodes ==
    ASSUME Base64Inv, Reading, DecodeEnd PROVE DecodedBits'
<1>1. /\ text' = text /\ in' = in /\ codec = "decode"
      /\ in < Len(text) => ~IsBase64(text[in + 1])
      /\ out' = IF four = << >> THEN out ELSE out \o Rest
  BY DEF DecodeEnd, source
<1>2. PICK h \in Nat, r \in 0 .. 3 :
               /\ r = Len(four) /\ in = 4*h + r /\ in <= Len(text)
               /\ \A k \in 1 .. in : IsBase64(text[k])
               /\ \A k \in 1 .. r : four[k] = text[4*h + k]
               /\ Len(out) = 3*h /\ Hold(text, out)
               /\ text \in Seq(Nat) /\ four \in Seq(Nat) /\ out \in Seq(Nat)
               /\ in \in Nat /\ Len(text) \in Nat
               /\ r > 0 => four[1] = text[4*h + 1] /\ IsBase64(four[1])
               /\ r > 1 => four[2] = text[4*h + 2] /\ IsBase64(four[2])
               /\ r > 2 => four[3] = text[4*h + 3] /\ IsBase64(four[3])
  BY <1>1, ReadingIs
<1>3. /\ out' \in Seq(Nat) /\ Hold(text, out')
      /\ Len(out') = 3*h + (IF r = 0 THEN 0 ELSE r - 1)
  <2>1. CASE r = 0
    <3>1. four = << >>  BY ONLY <1>2, <2>1, EmptySeq
    <3> QED BY <1>1, <1>2, <2>1, <3>1
  <2>2. CASE r # 0
    <3>1. four # << >>  BY ONLY <1>2, <2>2, EmptySeq
    <3>2. r \in 1 .. 3  BY <2>2
    <3>3. /\ Rest \in Seq(Nat) /\ Len(Rest) = r - 1
          /\ r > 1 => Rest[1] = Byte1(text, h)
          /\ r > 2 => Rest[2] = Byte2(text, h)
      BY ONLY <1>2, <3>2, RestHolds, h \in Nat
    <3>4. out' = out \o Rest  BY <1>1, <3>1
    <3>5. PICK l \in Nat, q \in Nat, m \in Nat : l = 3*h /\ q = r - 1 /\ m = l + q
      <4>1. 3*h \in Nat /\ r - 1 \in Nat /\ 3*h + (r - 1) \in Nat
        BY ONLY <3>2, h \in Nat
      <4> QED BY ONLY <4>1
    <3>6. /\ out' \in Seq(Nat) /\ Len(out') = m /\ Len(out) = l
          /\ \A k \in 1 .. l : out'[k] = out[k]
          /\ \A k \in 1 .. q : out'[l + k] = Rest[k]
      <4>1. l = Len(out) /\ q = Len(Rest) /\ out \in Seq(Nat) /\ Rest \in Seq(Nat)
        BY ONLY <1>2, <3>3, <3>5
      <4>2. /\ out \o Rest \in Seq(Nat) /\ Len(out \o Rest) = l + q
            /\ \A k \in 1 .. l : (out \o Rest)[k] = out[k]
            /\ \A k \in 1 .. q : (out \o Rest)[l + k] = Rest[k]
        BY ONLY <4>1, Joined, l \in Nat, q \in Nat
      <4>3. m = l + q  BY ONLY <3>5
      <4> QED BY ONLY <3>4, <4>1, <4>2, <4>3, Zenon
    <3>7. /\ m >= 3*h + 1 => out'[3*h + 1] = Byte1(text, h)
          /\ m >= 3*h + 2 => out'[3*h + 2] = Byte2(text, h)
          /\ ~(m >= 3*h + 3)
      <4>1. /\ m >= 3*h + 1 => 1 \in 1 .. q /\ r > 1 /\ 3*h + 1 = l + 1
            /\ m >= 3*h + 2 => 2 \in 1 .. q /\ r > 2 /\ 3*h + 2 = l + 2
            /\ ~(m >= 3*h + 3)
        BY ONLY <3>2, <3>5, h \in Nat, m \in Nat
      <4> QED BY ONLY <3>3, <3>6, <4>1
    <3>8. Hold(text, out')
      <4>1. l <= 3*h /\ m <= l + 3 /\ (m > l => l = 3*h)
        BY ONLY <3>2, <3>5, h \in Nat
      <4>2. /\ Len(out) \in Nat /\ Len(out) <= 3*h /\ Len(out') \in Nat
            /\ Len(out') > Len(out) => Len(out) = 3*h
            /\ Len(out') <= Len(out) + 3
            /\ \A k \in 1 .. Len(out) : out'[k] = out[k]
            /\ Len(out') >= 3*h + 1 => out'[3*h + 1] = Byte1(text, h)
            /\ Len(out') >= 3*h + 2 => out'[3*h + 2] = Byte2(text, h)
            /\ ~(Len(out') >= 3*h + 3)
        BY ONLY <3>6, <3>7, <4>1, l \in Nat, m \in Nat
      <4>3. Hold(text, out)  BY ONLY <1>2
      <4> QED BY ONLY <4>2, <4>3, HoldNext, h \in Nat
    <3>9. Len(out') = 3*h + (r - 1)  BY ONLY <3>5, <3>6
    <3> QED BY <2>2, <3>6, <3>8, <3>9
  <2> QED BY <2>1, <2>2
<1> DEFINE s == SubSeq(text, 1, in)
<1>4. /\ s \in Seq(Nat) /\ Len(s) = in /\ \A k \in 1 .. in : s[k] = text[k]
  <2>1. /\ \A k \in 1 .. in : text[k] \in Nat
        /\ in \in Int /\ in - 1 + 1 = in /\ \A k \in 1 .. in : 1 + k - 1 = k
    <3>1. in \in Int /\ in - 1 + 1 = in /\ \A k \in 1 .. in : 1 + k - 1 = k
      BY ONLY <1>2
    <3>2. \A k \in 1 .. in : k \in 1 .. Len(text)
      <4>1. in \in Nat /\ Len(text) \in Nat /\ in <= Len(text)  BY ONLY <1>2
      <4> QED BY ONLY <4>1
    <3>3. \A k \in 1 .. in : text[k] \in Nat  BY ONLY <1>2, <3>2, ElementOfSeq
    <3> QED BY ONLY <3>1, <3>3
  <2>2. /\ s \in Seq(Nat) /\ Len(s) = IF 1 <= in THEN in - 1 + 1 ELSE 0
        /\ \A k \in 1 .. in - 1 + 1 : s[k] = text[1 + k - 1]
    BY ONLY <2>1, SubSeqProperties
  <2>3. Len(s) = in  BY ONLY <1>2, <2>2
  <2> QED BY ONLY <2>1, <2>2, <2>3
<1> HIDE DEF s
<1>5. Len(out') = (6*in) \div 8
  <2>1. (6 * (4*h + r)) \div 8 = 3*h + (IF r = 0 THEN 0 ELSE r - 1)
    BY ONLY h \in Nat, r \in 0 .. 3
  <2> QED BY <1>2, <1>3, <2>1
<1>6. Hold(s, out')
  <2>1. PICK l \in Nat : l = Len(out') /\ l <= (6*in) \div 8  BY ONLY <1>2, <1>5
  <2>2. Hold(text, out') /\ in \in Nat /\ \A k \in 1 .. in : s[k] = text[k]
    BY ONLY <1>2, <1>3, <1>4
  <2> QED BY ONLY <2>1, <2>2, HeldByMore, l \in Nat
<1>7. out' = BytesIn(s)
  <2>1. \A k \in 1 .. Len(s) : IsBase64(s[k])  BY ONLY <1>2, <1>4
  <2> QED BY ONLY <1>3, <1>4, <1>5, <1>6, <2>1, HeldAreAll
<1>8. in \in 0 .. Len(text)  BY ONLY <1>2
<1>9. /\ \A k \in 1 .. in : IsBase64(text'[k])
      /\ in < Len(text') => ~IsBase64(text'[in + 1])
      /\ out' = BytesIn(SubSeq(text', 1, in)) /\ in \in 0 .. Len(text')
  BY <1>1, <1>2, <1>7, <1>8 DEF s
<1> QED BY ONLY <1>9 DEF DecodedBits, BytesIn

-----------------------------------------------------------------------------
(* base64DecodeToData *)

LEMMA ValuesAreNat == Value \subseteq Nat
BY DEF Value

\* The three bytes stored of four values.
StoredOf(a, b, c, d) == Stored(a * 2^18 + b * 2^12 + c * 2^6 + d)
High(a, b) == a * 4 + b \div 16
Middle(b, c) == (b % 16) * 16 + c \div 4
Low(c, d) == (c % 4) * 64 + d

ThreeBytes(s, x, y, z) ==
    s \in Seq(Nat) /\ Len(s) = 3 /\ s[1] = x /\ s[2] = y /\ s[3] = z

LEMMA StoredIs ==
    ASSUME NEW a \in Value, NEW b \in Value, NEW c \in Value, NEW d \in Value
    PROVE  ThreeBytes(StoredOf(a, b, c, d), High(a, b), Middle(b, c), Low(c, d))
<1>11. PICK x : x = a * 2^18 + b * 2^12 + c * 2^6 + d  OBVIOUS
<1>1. a \in 0 .. 63 /\ b \in 0 .. 63 /\ c \in 0 .. 63 /\ d \in 0 .. 63
  BY DEF Value
<1>2. PICK b1 \in 0 .. 3, b0 \in 0 .. 15, c1 \in 0 .. 15, c0 \in 0 .. 3 :
        /\ b = 16 * b1 + b0 /\ c = 4 * c1 + c0
        /\ b1 = b \div 16 /\ b0 = b % 16 /\ c1 = c \div 4 /\ c0 = c % 4
  <2>1. /\ b \div 16 \in 0 .. 3 /\ b % 16 \in 0 .. 15 /\ b = 16 * (b \div 16) + (b % 16)
        /\ c \div 4 \in 0 .. 15 /\ c % 4 \in 0 .. 3 /\ c = 4 * (c \div 4) + (c % 4)
    BY ONLY <1>1
  <2> QED BY ONLY <2>1
<1>3. PICK x1 \in 0 .. 255, x2 \in 0 .. 255, x3 \in 0 .. 255 :
        x1 = a * 4 + b1 /\ x2 = b0 * 16 + c1 /\ x3 = c0 * 64 + d
  <2>1. a * 4 + b1 \in 0 .. 255 /\ b0 * 16 + c1 \in 0 .. 255 /\ c0 * 64 + d \in 0 .. 255
    BY ONLY <1>1, b1 \in 0 .. 3, b0 \in 0 .. 15, c1 \in 0 .. 15, c0 \in 0 .. 3
  <2> QED BY ONLY <2>1
<1>10. x = a * 262144 + b * 4096 + c * 64 + d
  <2>1. 2^18 = 262144 /\ 2^12 = 4096 /\ 2^6 = 64  OBVIOUS
  <2> QED BY ONLY <1>11, <2>1, SMT
<1>4. x = x1 * 65536 + x2 * 256 + x3
  BY ONLY <1>1, <1>2, <1>3, <1>10,
     b1 \in 0 .. 3, b0 \in 0 .. 15, c1 \in 0 .. 15, c0 \in 0 .. 3,
     x1 \in 0 .. 255, x2 \in 0 .. 255, x3 \in 0 .. 255
<1>5. x \div 65536 = x1 /\ (x \div 256) % 256 = x2 /\ x % 256 = x3
  <2>1. x \div 65536 = x1
    BY ONLY <1>4, x1 \in 0 .. 255, x2 \in 0 .. 255, x3 \in 0 .. 255
  <2>2. x \div 256 = x1 * 256 + x2
    BY ONLY <1>4, x1 \in 0 .. 255, x2 \in 0 .. 255, x3 \in 0 .. 255
  <2>3. (x1 * 256 + x2) % 256 = x2
    BY ONLY x1 \in 0 .. 255, x2 \in 0 .. 255
  <2>4. x % 256 = x3
    BY ONLY <1>4, x1 \in 0 .. 255, x2 \in 0 .. 255, x3 \in 0 .. 255
  <2> QED BY ONLY <2>1, <2>2, <2>3, <2>4
<1>6. Stored(x) = <<x1, x2, x3>>
  BY ONLY <1>5 DEF Stored
<1>7. <<x1, x2, x3>> \in Seq(Nat) /\ Len(<<x1, x2, x3>>) = 3
  BY ONLY x1 \in 0 .. 255, x2 \in 0 .. 255, x3 \in 0 .. 255
<1>8. Stored(x)[1] = x1 /\ Stored(x)[2] = x2 /\ Stored(x)[3] = x3
  BY ONLY <1>6
<1>9. /\ Stored(x)[1] = a * 4 + b \div 16 /\ Stored(x)[2] = (b % 16) * 16 + c \div 4
      /\ Stored(x)[3] = (c % 4) * 64 + d
  BY ONLY <1>2, <1>3, <1>8
<1>12. Stored(x) = StoredOf(a, b, c, d)  BY ONLY <1>11, Zenon DEF StoredOf
<1>13. /\ Stored(x)[1] = High(a, b) /\ Stored(x)[2] = Middle(b, c)
       /\ Stored(x)[3] = Low(c, d)
  BY ONLY <1>9, Zenon DEF High, Middle, Low
<1>14. Stored(x) \in Seq(Nat) /\ Len(Stored(x)) = 3  BY ONLY <1>6, <1>7, Zenon
<1> QED BY ONLY <1>12, <1>13, <1>14, Zenon DEF ThreeBytes

\* What of the bytes goes into the buffer.
LEMMA FittingIs ==
    ASSUME out \in Seq(Nat), room \in Nat, NEW l \in Nat, l = Len(out), l <= room,
           NEW s \in Seq(Nat)
    PROVE  \E p \in Nat :
               /\ Fitting(s) \in Seq(Nat) /\ Len(Fitting(s)) = p
               /\ p <= Len(s) /\ l + p <= room /\ (p = Len(s) \/ l + p = room)
               /\ \A k \in 1 .. p : Fitting(s)[k] = s[k]
<1>0. PICK q \in Nat : q = Len(s)  BY LenProperties
<1>1. CASE q <= room - l
  <2>1. Fitting(s) = s  BY <1>0, <1>1 DEF Fitting
  <2>2. l + q <= room  BY <1>1
  <2> QED BY ONLY <1>0, <2>1, <2>2, s \in Seq(Nat)
<1>2. CASE ~(q <= room - l)
  <2>1. PICK p \in Nat : p = room - l /\ p <= q /\ l + p = room
    <3>1. room - l \in Nat /\ room - l <= q /\ l + (room - l) = room  BY <1>2
    <3> QED BY ONLY <3>1
  <2>2. Fitting(s) = SubSeq(s, 1, p)  BY <1>0, <1>2, <2>1 DEF Fitting
  <2>3. \A k \in 1 .. p : s[k] \in Nat
    <3>1. \A k \in 1 .. p : k \in 1 .. q  BY ONLY <2>1, p \in Nat, q \in Nat
    <3> QED BY ONLY <1>0, <3>1, s \in Seq(Nat), ElementOfSeq
  <2>4. /\ SubSeq(s, 1, p) \in Seq(Nat) /\ Len(SubSeq(s, 1, p)) = p
        /\ \A k \in 1 .. p : SubSeq(s, 1, p)[k] = s[k]
    <3>1. /\ p \in Int /\ 1 \in Int /\ p - 1 + 1 = p /\ \A k \in Int : 1 + k - 1 = k
      BY ONLY p \in Nat
    <3>2. /\ SubSeq(s, 1, p) \in Seq(Nat)
          /\ Len(SubSeq(s, 1, p)) = IF 1 <= p THEN p - 1 + 1 ELSE 0
          /\ \A k \in 1 .. p - 1 + 1 : SubSeq(s, 1, p)[k] = s[1 + k - 1]
      BY ONLY <2>3, <3>1, SubSeqProperties
    <3>3. Len(SubSeq(s, 1, p)) = p  BY ONLY <3>1, <3>2, p \in Nat
    <3> QED BY ONLY <3>1, <3>2, <3>3
  <2>5. /\ Fitting(s) \in Seq(Nat) /\ Len(Fitting(s)) = p
        /\ p <= Len(s) /\ l + p <= room /\ l + p = room
        /\ \A k \in 1 .. p : Fitting(s)[k] = s[k]
    BY ONLY <1>0, <2>1, <2>2, <2>4, p \in Nat, room \in Nat
  <2> QED BY ONLY <2>5, p \in Nat
<1> QED BY <1>1, <1>2

\* The bits of r characters after h groups in a.
HeldBits(c, h, r) ==
    (IF r > 0 THEN find(c[4*h + 1]) * 2^18 ELSE 0)
    + (IF r > 1 THEN find(c[4*h + 2]) * 2^12 ELSE 0)
    + (IF r > 2 THEN find(c[4*h + 3]) * 2^6 ELSE 0)

\* The buffer begins with the bytes of whole groups of the characters read that
\* are of the alphabet, and a has the bits of the rest (wp_base64.cpp:158-186).
Filling ==
    \E h \in Nat, r \in 0 .. 3, l \in Nat :
        /\ in <= Len(text) /\ Len(OfAlphabet(text)[in]) = 4*h + r
        /\ bc = 6*r /\ acc = HeldBits(OfAlphabet(text)[in], h, r)
        /\ l = Len(out) /\ l <= 3*h /\ l <= room /\ (l < room => l = 3*h)
        /\ Hold(OfAlphabet(text)[in], out)

FilledBits ==
    LET bytes == BytesIn(OfAlphabet(text)[Len(text)])
    IN  out = SubSeq(bytes, 1, IF room < Len(bytes) THEN room ELSE Len(bytes))

\* Values for the characters that a group has, and zeros for those it has not.
LEMMA HeldBitsAre ==
    ASSUME NEW c, NEW h \in Nat, NEW r \in 0 .. 3, NEW n \in Nat, n = 4*h + r,
           \A k \in 1 .. n : IsBase64(c[k])
    PROVE  \E a1 \in Value, a2 \in Value, a3 \in Value :
               /\ HeldBits(c, h, r) = a1 * 2^18 + a2 * 2^12 + a3 * 2^6
               /\ r > 0 => a1 = find(c[4*h + 1])
               /\ r > 1 => a2 = find(c[4*h + 2])
               /\ r > 2 => a3 = find(c[4*h + 3])
<1>1. /\ r > 0 => 4*h + 1 \in 1 .. n
      /\ r > 1 => 4*h + 2 \in 1 .. n
      /\ r > 2 => 4*h + 3 \in 1 .. n
  BY ONLY n = 4*h + r, h \in Nat, r \in 0 .. 3, n \in Nat
<1>2. /\ r > 0 => find(c[4*h + 1]) \in Value
      /\ r > 1 => find(c[4*h + 2]) \in Value
      /\ r > 2 => find(c[4*h + 3]) \in Value
  BY <1>1, FoundIsValue
<1>3. 0 \in Value /\ Value \subseteq Nat  BY DEF Value
<1>4. PICK a1 \in Value, a2 \in Value, a3 \in Value :
        /\ a1 = IF r > 0 THEN find(c[4*h + 1]) ELSE 0
        /\ a2 = IF r > 1 THEN find(c[4*h + 2]) ELSE 0
        /\ a3 = IF r > 2 THEN find(c[4*h + 3]) ELSE 0
  BY ONLY <1>2, <1>3
<1>5. /\ (IF r > 0 THEN find(c[4*h + 1]) * 2^18 ELSE 0) = a1 * 2^18
      /\ (IF r > 1 THEN find(c[4*h + 2]) * 2^12 ELSE 0) = a2 * 2^12
      /\ (IF r > 2 THEN find(c[4*h + 3]) * 2^6 ELSE 0) = a3 * 2^6
  BY ONLY <1>4
<1> QED BY ONLY <1>4, <1>5 DEF HeldBits

\* What the loop keeps, with names.
LEMMA FillingIs ==
    ASSUME Base64Inv, Filling, in \in Nat
    PROVE  \E h \in Nat, r \in 0 .. 3, l \in Nat, n \in Nat, c \in Seq(Nat) :
               /\ in <= Len(text) /\ text \in Seq(Nat) /\ Len(text) \in Nat
               /\ c = OfAlphabet(text)[in] /\ c \in Seq(Base64Chars)
               /\ n = Len(c) /\ n = 4*h + r
               /\ \A k \in 1 .. n : IsBase64(c[k])
               /\ bc = 6*r /\ acc = HeldBits(c, h, r)
               /\ l = Len(out) /\ l <= 3*h /\ l <= room /\ (l < room => l = 3*h)
               /\ Hold(c, out)
<1>1. text \in Seq(Nat)  BY DEF Base64Inv
<1>2. Len(text) \in Nat  BY ONLY <1>1, LenProperties
<1>3. PICK h \in Nat, r \in 0 .. 3, l \in Nat :
        /\ in <= Len(text) /\ Len(OfAlphabet(text)[in]) = 4*h + r
        /\ bc = 6*r /\ acc = HeldBits(OfAlphabet(text)[in], h, r)
        /\ l = Len(out) /\ l <= 3*h /\ l <= room /\ (l < room => l = 3*h)
        /\ Hold(OfAlphabet(text)[in], out)
  BY DEF Filling
<1>4. PICK c \in Seq(Base64Chars) : c = OfAlphabet(text)[in]
  <2>1. in \in 0 .. Len(text)  BY ONLY <1>2, <1>3, in \in Nat
  <2>2. OfAlphabet(text)[in] \in Seq(Base64Chars)  BY ONLY <1>1, <2>1, OfAlphabetIs
  <2> QED BY ONLY <2>2
<1>5. c \in Seq(Nat)
  <2>1. Base64Chars \subseteq Nat  BY DEF Base64Chars
  <2> QED BY ONLY <2>1, SeqMonotonic, c \in Seq(Base64Chars)
<1>6. PICK n \in Nat : n = Len(c)  BY ONLY <1>5, LenProperties
<1>7. \A k \in 1 .. n : IsBase64(c[k])
  <2>1. \A k \in 1 .. n : c[k] \in Base64Chars
    BY ONLY <1>6, ElementOfSeq, c \in Seq(Base64Chars)
  <2> QED BY ONLY <2>1 DEF Base64Chars
<1>8. n = 4*h + r  BY ONLY <1>3, <1>4, <1>6
<1> QED BY ONLY <1>1, <1>2, <1>3, <1>4, <1>5, <1>6, <1>7, <1>8,
        h \in Nat, r \in 0 .. 3, l \in Nat, n \in Nat

LEMMA FillingNext ==
    ASSUME NEW h \in Nat, NEW r \in 0 .. 3, NEW l \in Nat, in' <= Len(text'),
           NEW c, c = OfAlphabet(text')[in'], Len(c) = 4*h + r,
           bc' = 6*r, acc' = HeldBits(c, h, r), l = Len(out'), l <= 3*h, l <= room',
           l < room' => l = 3*h, Hold(c, out')
    PROVE  Filling'
BY DEF Filling, Hold, Byte1, Byte2, Byte3, HeldBits

\* A character outside the alphabet is passed over.
LEMMA SkippedFills ==
    ASSUME Base64Inv, Filling, in \in Nat, FillChar, ~IsBase64(text[in + 1])
    PROVE  Filling'
<1>1. /\ text' = text /\ room' = room /\ in < Len(text) /\ in' = in + 1
  BY DEF FillChar, source
<1>2. acc' = acc /\ bc' = bc /\ out' = out
  <2>1. DecTable(text[in + 1]) = -1  BY DEF DecTable
  <2> QED BY <2>1 DEF FillChar
<1>3. PICK h \in Nat, r \in 0 .. 3, l \in Nat, n \in Nat, c \in Seq(Nat) :
               /\ in <= Len(text) /\ text \in Seq(Nat) /\ Len(text) \in Nat
               /\ c = OfAlphabet(text)[in] /\ c \in Seq(Base64Chars)
               /\ n = Len(c) /\ n = 4*h + r
               /\ \A k \in 1 .. n : IsBase64(c[k])
               /\ bc = 6*r /\ acc = HeldBits(c, h, r)
               /\ l = Len(out) /\ l <= 3*h /\ l <= room /\ (l < room => l = 3*h)
               /\ Hold(c, out)
  BY FillingIs
<1>4. in < Len(text) /\ Len(text) \in Nat  BY ONLY <1>1, <1>3
<1>5. c = OfAlphabet(text')[in']
  <2>1. PICK m \in Nat : m = in + 1 /\ m - 1 = in /\ m \in 1 .. Len(text)
    <3>1. PICK m \in Nat : m = in + 1  BY ONLY in \in Nat
    <3>2. m - 1 = in /\ m \in 1 .. Len(text)  BY ONLY <1>4, <3>1, in \in Nat, m \in Nat
    <3> QED BY ONLY <3>1, <3>2, m \in Nat
  <2>2. OfAlphabet(text)[m] = Kept(text, m, OfAlphabet(text)[m - 1])
    <3>1. text \in Seq(Nat)  BY ONLY <1>3
    <3> QED BY ONLY <2>1, <3>1, OfAlphabetIs
  <2>3. OfAlphabet(text)[m] = OfAlphabet(text)[in]
    BY ONLY <2>1, <2>2, ~IsBase64(text[in + 1]) DEF Kept
  <2> QED BY ONLY <1>1, <1>3, <2>1, <2>3
<1>6. /\ in' <= Len(text') /\ Len(c) = 4*h + r /\ bc' = 6*r /\ acc' = HeldBits(c, h, r)
      /\ l = Len(out') /\ l <= 3*h /\ l <= room' /\ (l < room' => l = 3*h)
      /\ Hold(c, out')
  <2>1. in' <= Len(text')  BY ONLY <1>1, <1>4, in \in Nat
  <2> QED BY ONLY <1>1, <1>2, <1>3, <2>1
<1> QED BY ONLY <1>5, <1>6, FillingNext, h \in Nat, r \in 0 .. 3, l \in Nat

\* A character of the alphabet is one more of those kept.
LEMMA KeptNext ==
    ASSUME NEW t \in Seq(Nat), NEW i \in Nat, i < Len(t), IsBase64(t[i + 1])
    PROVE  LET c == OfAlphabet(t)[i]
           IN  \E d \in Seq(Nat) : /\ d = OfAlphabet(t)[i + 1] /\ Len(d) = Len(c) + 1
                                   /\ \A k \in 1 .. Len(c) : d[k] = c[k]
                                   /\ d[Len(c) + 1] = t[i + 1]
<1>0. PICK c \in Seq(Base64Chars), n \in Nat : c = OfAlphabet(t)[i] /\ n = Len(c)
  <2>1. i \in 0 .. Len(t)
    <3>1. Len(t) \in Nat  BY LenProperties
    <3> QED BY ONLY <3>1, i < Len(t), i \in Nat
  <2>2. OfAlphabet(t)[i] \in Seq(Base64Chars)  BY ONLY <2>1, OfAlphabetIs, t \in Seq(Nat)
  <2>3. Len(OfAlphabet(t)[i]) \in Nat  BY ONLY <2>2, LenProperties
  <2> QED BY ONLY <2>2, <2>3
<1>1. PICK m \in Nat : m = i + 1 /\ m - 1 = i /\ m \in 1 .. Len(t)
  <2>1. PICK m \in Nat : m = i + 1  OBVIOUS
  <2>2. Len(t) \in Nat  BY LenProperties
  <2>3. m - 1 = i /\ m \in 1 .. Len(t)  BY ONLY <2>1, <2>2, i < Len(t), i \in Nat, m \in Nat
  <2> QED BY ONLY <2>1, <2>3, m \in Nat
<1>2. OfAlphabet(t)[m] = Kept(t, m, OfAlphabet(t)[m - 1])
  BY ONLY <1>1, OfAlphabetIs, t \in Seq(Nat)
<1>3. PICK x \in Base64Chars : x = t[m]
  <2>1. t[i + 1] \in Base64Chars  BY FoundIsValue DEF Base64Chars
  <2> QED BY ONLY <1>1, <2>1
<1>4. PICK d : d = OfAlphabet(t)[m] /\ d = Append(c, x)
  <2>1. IsBase64(t[m])  BY ONLY <1>1, IsBase64(t[i + 1])
  <2>2. Kept(t, m, OfAlphabet(t)[m - 1]) = Append(c, x)
    BY ONLY <1>0, <1>1, <1>3, <2>1 DEF Kept
  <2> QED BY ONLY <1>2, <2>2
<1>5. /\ d \in Seq(Base64Chars) /\ Len(d) = n + 1 /\ d[n + 1] = x
      /\ \A k \in 1 .. n : d[k] = c[k]
  BY ONLY <1>0, <1>4, AppendProperties, c \in Seq(Base64Chars), x \in Base64Chars
<1>6. d \in Seq(Nat)
  <2>1. Base64Chars \subseteq Nat  BY DEF Base64Chars
  <2> QED BY ONLY <1>5, <2>1, SeqMonotonic
<1>7. d = OfAlphabet(t)[i + 1] /\ d[n + 1] = t[i + 1]
  BY ONLY <1>1, <1>3, <1>4, <1>5
<1> QED BY ONLY <1>0, <1>5, <1>6, <1>7

\* A character of the alphabet goes into a.
LEMMA AddedFills ==
    ASSUME Base64Inv, Filling, in \in Nat, FillChar, IsBase64(text[in + 1]), bc < 18
    PROVE  Filling'
<1>1. /\ text' = text /\ room' = room /\ in < Len(text) /\ in' = in + 1
  BY DEF FillChar, source
<1>10. find(text[in + 1]) \in Value /\ find(text[in + 1]) \in Nat
  BY ONLY IsBase64(text[in + 1]), FoundIsValue, ValuesAreNat
<1>11. acc' = acc + find(text[in + 1]) * 2^(18 - bc) /\ bc' = bc + 6 /\ out' = out
  <2>1. DecTable(text[in + 1]) = find(text[in + 1])  BY DEF DecTable
  <2>2. find(text[in + 1]) # -1  BY ONLY <1>10
  <2> QED BY <2>1, <2>2 DEF FillChar
<1>2. bc' = bc + 6 /\ out' = out  BY ONLY <1>11
<1>3. PICK h \in Nat, r \in 0 .. 3, l \in Nat, n \in Nat, c \in Seq(Nat) :
               /\ in <= Len(text) /\ text \in Seq(Nat) /\ Len(text) \in Nat
               /\ c = OfAlphabet(text)[in] /\ c \in Seq(Base64Chars)
               /\ n = Len(c) /\ n = 4*h + r
               /\ \A k \in 1 .. n : IsBase64(c[k])
               /\ bc = 6*r /\ acc = HeldBits(c, h, r)
               /\ l = Len(out) /\ l <= 3*h /\ l <= room /\ (l < room => l = 3*h)
               /\ Hold(c, out)
  BY FillingIs
<1>4. PICK d \in Seq(Nat) : /\ d = OfAlphabet(text)[in + 1] /\ Len(d) = n + 1
                            /\ \A k \in 1 .. n : d[k] = c[k]
                            /\ d[n + 1] = text[in + 1]
  <2>1. text \in Seq(Nat) /\ in < Len(text)  BY ONLY <1>1, <1>3
  <2>2. LET e == OfAlphabet(text)[in]
        IN  \E d \in Seq(Nat) :
                /\ d = OfAlphabet(text)[in + 1] /\ Len(d) = Len(e) + 1
                /\ \A k \in 1 .. Len(e) : d[k] = e[k]
                /\ d[Len(e) + 1] = text[in + 1]
    BY ONLY <2>1, KeptNext, in \in Nat, IsBase64(text[in + 1])
  <2>3. c = OfAlphabet(text)[in] /\ n = Len(c)  BY ONLY <1>3
  <2> QED BY ONLY <2>2, <2>3
<1>5. PICK s \in 1 .. 3 : s = r + 1 /\ r \in 0 .. 2 /\ s \in 0 .. 3
  <2>1. r \in 0 .. 2 /\ r + 1 \in 1 .. 3 /\ r + 1 \in 0 .. 3
    BY ONLY <1>3, bc < 18, r \in 0 .. 3
  <2> QED BY ONLY <2>1
<1>6. acc' = HeldBits(d, h, s) /\ bc' = 6*s
  <2>1. PICK v \in Nat, x18 \in Nat, x12 \in Nat, x6 \in Nat :
          v = find(text[in + 1]) /\ x18 = 2^18 /\ x12 = 2^12 /\ x6 = 2^6
    <3>1. 2^18 \in Nat /\ 2^12 \in Nat /\ 2^6 \in Nat  OBVIOUS
    <3> QED BY ONLY <1>10, <3>1
  <2>2. PICK p : p = 2^(18 - 6*r)  OBVIOUS
  <2>3. (r = 0 => p = x18) /\ (r = 1 => p = x12) /\ (r = 2 => p = x6)
    <3>1. /\ r = 0 => 18 - 6*r = 18
          /\ r = 1 => 18 - 6*r = 12
          /\ r = 2 => 18 - 6*r = 6
      OBVIOUS
    <3> QED BY ONLY <2>1, <2>2, <3>1, Zenon
  <2>4. acc' = acc + v * p
    <3>1. 18 - bc = 18 - 6*r  BY ONLY <1>3
    <3>2. acc' = acc + find(text[in + 1]) * 2^(18 - bc)  BY ONLY <1>11
    <3> QED BY ONLY <2>1, <2>2, <3>1, <3>2, Zenon
  <2>5. \A k \in 1 .. n : d[k] = c[k] /\ find(c[k]) \in Nat
    <3> TAKE k \in 1 .. n
    <3>1. IsBase64(c[k]) /\ d[k] = c[k]  BY ONLY <1>3, <1>4, k \in 1 .. n
    <3>2. PICK x : x = c[k]  OBVIOUS
    <3>3. find(x) \in Value  BY ONLY <3>1, <3>2, FoundIsValue
    <3>4. find(x) \in Nat  BY ONLY <3>3, ValuesAreNat
    <3> QED BY ONLY <3>1, <3>2, <3>4
  <2>6. ASSUME r = 0 PROVE acc' = HeldBits(d, h, s)
    <3>1. n + 1 = 4*h + 1 /\ s = 1  BY ONLY <1>3, <1>5, <2>6, h \in Nat
    <3>2. find(d[4*h + 1]) = v  BY ONLY <1>4, <2>1, <3>1
    <3>3. HeldBits(d, h, s) = v * x18
      BY ONLY <2>1, <3>1, <3>2, v \in Nat, x18 \in Nat DEF HeldBits
    <3>4. HeldBits(c, h, r) = 0  BY ONLY <2>6 DEF HeldBits
    <3>5. acc = 0 /\ p = x18  BY ONLY <1>3, <2>3, <2>6, <3>4
    <3> QED BY ONLY <2>4, <3>3, <3>5, v \in Nat, x18 \in Nat
  <2>7. ASSUME r = 1 PROVE acc' = HeldBits(d, h, s)
    <3>1. n + 1 = 4*h + 2 /\ s = 2 /\ 4*h + 1 \in 1 .. n
      BY ONLY <1>3, <1>5, <2>7, h \in Nat
    <3>2. find(d[4*h + 2]) = v  BY ONLY <1>4, <2>1, <3>1
    <3>3. PICK w \in Nat : w = find(c[4*h + 1]) /\ w = find(d[4*h + 1])
      BY ONLY <2>5, <3>1
    <3>4. HeldBits(d, h, s) = w * x18 + v * x12
      BY ONLY <2>1, <3>1, <3>2, <3>3, v \in Nat, w \in Nat, x18 \in Nat, x12 \in Nat
         DEF HeldBits
    <3>5. HeldBits(c, h, r) = w * x18
      BY ONLY <2>1, <2>7, <3>3, w \in Nat, x18 \in Nat DEF HeldBits
    <3>6. acc = w * x18 /\ p = x12  BY ONLY <1>3, <2>3, <2>7, <3>5
    <3> QED BY ONLY <2>4, <3>4, <3>6, Zenon
  <2>8. ASSUME r = 2 PROVE acc' = HeldBits(d, h, s)
    <3>1. n + 1 = 4*h + 3 /\ s = 3 /\ 4*h + 1 \in 1 .. n /\ 4*h + 2 \in 1 .. n
      BY ONLY <1>3, <1>5, <2>8, h \in Nat
    <3>2. find(d[4*h + 3]) = v  BY ONLY <1>4, <2>1, <3>1
    <3>3. PICK w \in Nat, u \in Nat :
            /\ w = find(c[4*h + 1]) /\ w = find(d[4*h + 1])
            /\ u = find(c[4*h + 2]) /\ u = find(d[4*h + 2])
      BY ONLY <2>5, <3>1
    <3>4. HeldBits(d, h, s) = w * x18 + u * x12 + v * x6
      BY ONLY <2>1, <3>1, <3>2, <3>3 DEF HeldBits
    <3>5. HeldBits(c, h, r) = w * x18 + u * x12
      BY ONLY <2>1, <2>8, <3>3, w \in Nat, u \in Nat, x18 \in Nat, x12 \in Nat DEF HeldBits
    <3>6. acc = w * x18 + u * x12 /\ p = x6  BY ONLY <1>3, <2>3, <2>8, <3>5
    <3> QED BY ONLY <2>4, <3>4, <3>6, Zenon
  <2>9. acc' = HeldBits(d, h, s)
    <3>1. r = 0 \/ r = 1 \/ r = 2  BY ONLY <1>5
    <3> QED BY ONLY <2>6, <2>7, <2>8, <3>1
  <2>10. bc' = 6*s  BY ONLY <1>2, <1>3, <1>5
  <2> QED BY ONLY <2>9, <2>10
<1>7. Hold(d, out)
  <2>1. l <= (6*n) \div 8  BY ONLY <1>3, h \in Nat, r \in 0 .. 3, l \in Nat, n \in Nat
  <2>2. /\ l = Len(out) /\ \A k \in 1 .. n : d[k] = c[k]
        /\ Hold(c, out)
    BY ONLY <1>3, <1>4
  <2> QED BY ONLY <2>1, <2>2, HeldByMore, n \in Nat, l \in Nat
<1>8. /\ in' <= Len(text') /\ d = OfAlphabet(text')[in'] /\ Len(d) = 4*h + s
      /\ l = Len(out') /\ l <= 3*h /\ l <= room' /\ (l < room' => l = 3*h)
      /\ Hold(d, out')
  <2>1. in' <= Len(text')
    <3>1. in < Len(text) /\ Len(text) \in Nat  BY ONLY <1>1, <1>3
    <3>2. in + 1 <= Len(text)  BY ONLY <3>1, in \in Nat
    <3> QED BY ONLY <1>1, <3>2
  <2>2. Len(d) = 4*h + s
    <3>1. n = 4*h + r  BY ONLY <1>3
    <3>2. n + 1 = 4*h + (r + 1)  BY ONLY <3>1, h \in Nat, r \in 0 .. 3
    <3> QED BY ONLY <1>4, <1>5, <3>2
  <2> QED BY ONLY <1>1, <1>2, <1>3, <1>4, <1>7, <2>1, <2>2
<1>9. s \in 0 .. 3  BY ONLY <1>5
<1> QED BY ONLY <1>6, <1>8, <1>9, FillingNext, h \in Nat, l \in Nat

\* A group is complete: what the buffer has room for of its bytes goes there.
LEMMA StoredFills ==
    ASSUME Base64Inv, Filling, in \in Nat, FillChar, IsBase64(text[in + 1]), ~(bc < 18),
           room \in Nat, out \in Seq(Nat)
    PROVE  Filling' /\ out' \in Seq(Nat)
<1>1. /\ text' = text /\ room' = room /\ in < Len(text) /\ in' = in + 1 /\ ~Full
  BY DEF FillChar, source
<1>10. find(text[in + 1]) \in Value /\ find(text[in + 1]) \in Nat
  BY ONLY IsBase64(text[in + 1]), FoundIsValue, ValuesAreNat
<1>2. /\ out' = out \o Fitting(Stored(acc + find(text[in + 1]))) /\ acc' = 0 /\ bc' = 0
  <2>1. DecTable(text[in + 1]) = find(text[in + 1])  BY DEF DecTable
  <2>2. find(text[in + 1]) # -1  BY ONLY <1>10
  <2> QED BY <2>1, <2>2 DEF FillChar
<1>3. PICK h \in Nat, r \in 0 .. 3, l \in Nat, n \in Nat, c \in Seq(Nat) :
               /\ in <= Len(text) /\ text \in Seq(Nat) /\ Len(text) \in Nat
               /\ c = OfAlphabet(text)[in] /\ c \in Seq(Base64Chars)
               /\ n = Len(c) /\ n = 4*h + r
               /\ \A k \in 1 .. n : IsBase64(c[k])
               /\ bc = 6*r /\ acc = HeldBits(c, h, r)
               /\ l = Len(out) /\ l <= 3*h /\ l <= room /\ (l < room => l = 3*h)
               /\ Hold(c, out)
  BY FillingIs
<1>4. PICK d \in Seq(Nat) : /\ d = OfAlphabet(text)[in + 1] /\ Len(d) = n + 1
                            /\ \A k \in 1 .. n : d[k] = c[k]
                            /\ d[n + 1] = text[in + 1]
  <2>1. text \in Seq(Nat) /\ in < Len(text)  BY ONLY <1>1, <1>3
  <2>2. LET e == OfAlphabet(text)[in]
        IN  \E d \in Seq(Nat) :
                /\ d = OfAlphabet(text)[in + 1] /\ Len(d) = Len(e) + 1
                /\ \A k \in 1 .. Len(e) : d[k] = e[k]
                /\ d[Len(e) + 1] = text[in + 1]
    BY ONLY <2>1, KeptNext, in \in Nat, IsBase64(text[in + 1])
  <2>3. c = OfAlphabet(text)[in] /\ n = Len(c)  BY ONLY <1>3
  <2> QED BY ONLY <2>2, <2>3
<1>5. r = 3 /\ n = 4*h + 3 /\ l = 3*h /\ l < room
  <2>1. r = 3 /\ n = 4*h + 3  BY ONLY <1>3, ~(bc < 18), r \in 0 .. 3
  <2>2. l < room  BY ONLY <1>1, <1>3, room \in Nat, l \in Nat DEF Full
  <2> QED BY ONLY <1>3, <2>1, <2>2
<1>6. PICK v1 \in Value, v2 \in Value, v3 \in Value, v4 \in Value :
        /\ v1 = find(d[4*h + 1]) /\ v2 = find(d[4*h + 2]) /\ v3 = find(d[4*h + 3])
        /\ v4 = find(d[4*h + 4]) /\ v4 = find(text[in + 1])
        /\ acc = v1 * 2^18 + v2 * 2^12 + v3 * 2^6
  <2>1. PICK a1 \in Value, a2 \in Value, a3 \in Value :
               /\ HeldBits(c, h, r) = a1 * 2^18 + a2 * 2^12 + a3 * 2^6
               /\ r > 0 => a1 = find(c[4*h + 1])
               /\ r > 1 => a2 = find(c[4*h + 2])
               /\ r > 2 => a3 = find(c[4*h + 3])
    <3>1. n = 4*h + r /\ \A k \in 1 .. n : IsBase64(c[k])  BY ONLY <1>3
    <3> QED BY ONLY <3>1, HeldBitsAre, h \in Nat, r \in 0 .. 3, n \in Nat
  <2>2. a1 = find(c[4*h + 1]) /\ a2 = find(c[4*h + 2]) /\ a3 = find(c[4*h + 3])
    BY ONLY <1>5, <2>1
  <2>3. d[4*h + 1] = c[4*h + 1] /\ d[4*h + 2] = c[4*h + 2] /\ d[4*h + 3] = c[4*h + 3]
    <3>1. 4*h + 1 \in 1 .. n /\ 4*h + 2 \in 1 .. n /\ 4*h + 3 \in 1 .. n
      BY ONLY <1>5, h \in Nat
    <3> QED BY ONLY <1>4, <3>1
  <2>4. d[4*h + 4] = text[in + 1]
    <3>1. n + 1 = 4*h + 4  BY ONLY <1>5, h \in Nat
    <3> QED BY ONLY <1>4, <3>1
  <2>5. acc = a1 * 2^18 + a2 * 2^12 + a3 * 2^6  BY ONLY <1>3, <2>1, Zenon
  <2> QED BY ONLY <1>10, <2>2, <2>3, <2>4, <2>5, Zenon
<1>7. PICK s \in Seq(Nat) :
        /\ s = Stored(acc + find(text[in + 1])) /\ Len(s) = 3
        /\ s[1] = Byte1(d, h) /\ s[2] = Byte2(d, h) /\ s[3] = Byte3(d, h)
  <2>1. PICK x : x = acc + find(text[in + 1])  OBVIOUS
  <2>2. x = v1 * 2^18 + v2 * 2^12 + v3 * 2^6 + v4  BY ONLY <1>6, <2>1, Zenon
  <2>6. Stored(x) = StoredOf(v1, v2, v3, v4)  BY ONLY <2>2, Zenon DEF StoredOf
  <2>3. /\ Stored(x) \in Seq(Nat) /\ Len(Stored(x)) = 3
        /\ Stored(x)[1] = High(v1, v2) /\ Stored(x)[2] = Middle(v2, v3)
        /\ Stored(x)[3] = Low(v3, v4)
    <3>1. ThreeBytes(StoredOf(v1, v2, v3, v4), High(v1, v2), Middle(v2, v3), Low(v3, v4))
      BY ONLY StoredIs, v1 \in Value, v2 \in Value, v3 \in Value, v4 \in Value
    <3> QED BY ONLY <2>6, <3>1, Zenon DEF ThreeBytes
  <2>4. /\ v1 = find(d[4*h + 1]) /\ v2 = find(d[4*h + 2]) /\ v3 = find(d[4*h + 3])
        /\ v4 = find(d[4*h + 4])
    BY ONLY <1>6
  <2>5. /\ Stored(x)[1] = Byte1(d, h) /\ Stored(x)[2] = Byte2(d, h)
        /\ Stored(x)[3] = Byte3(d, h)
    BY ONLY <2>3, <2>4, Zenon DEF Byte1, Byte2, Byte3, High, Middle, Low
  <2> QED BY ONLY <2>1, <2>3, <2>5
<1>8. PICK p \in Nat : /\ Fitting(s) \in Seq(Nat) /\ Len(Fitting(s)) = p
                      /\ p <= 3 /\ l + p <= room /\ (p = 3 \/ l + p = room)
                      /\ \A k \in 1 .. p : Fitting(s)[k] = s[k]
  <2>1. l = Len(out) /\ l <= room /\ Len(s) = 3  BY ONLY <1>3, <1>7
  <2>2. \E p \in Nat :
           /\ Fitting(s) \in Seq(Nat) /\ Len(Fitting(s)) = p
           /\ p <= Len(s) /\ l + p <= room /\ (p = Len(s) \/ l + p = room)
           /\ \A k \in 1 .. p : Fitting(s)[k] = s[k]
    BY ONLY <2>1, FittingIs, out \in Seq(Nat), room \in Nat, l \in Nat, s \in Seq(Nat)
  <2> QED BY ONLY <2>1, <2>2
<1> DEFINE f == Fitting(s)
<1>9. PICK m \in Nat : m = l + p  OBVIOUS
<1>12. /\ out' \in Seq(Nat) /\ Len(out') = m
       /\ \A k \in 1 .. l : out'[k] = out[k]
       /\ \A k \in 1 .. p : out'[l + k] = s[k]
  <2>1. l = Len(out) /\ p = Len(f) /\ out \in Seq(Nat) /\ f \in Seq(Nat)
    BY ONLY <1>3, <1>8, out \in Seq(Nat)
  <2> HIDE DEF f
  <2>5. /\ out \o f \in Seq(Nat) /\ Len(out \o f) = Len(out) + Len(f)
        /\ \A k \in 1 .. Len(out) : (out \o f)[k] = out[k]
        /\ \A k \in 1 .. Len(f) : (out \o f)[Len(out) + k] = f[k]
    BY ONLY <2>1, Appended
  <2>2. /\ out \o f \in Seq(Nat) /\ Len(out \o f) = l + p
        /\ \A k \in 1 .. l : (out \o f)[k] = out[k]
        /\ \A k \in 1 .. p : (out \o f)[l + k] = f[k]
    BY ONLY <2>1, <2>5, Zenon
  <2>3. out' = out \o f  BY ONLY <1>2, <1>7 DEF f
  <2>4. \A k \in 1 .. p : f[k] = s[k]  BY ONLY <1>8 DEF f
  <2> QED BY ONLY <1>9, <2>2, <2>3, <2>4
<1>13. Hold(d, out)
  <2>1. l <= (6*n) \div 8  BY ONLY <1>5, h \in Nat, l \in Nat, n \in Nat
  <2>2. /\ l = Len(out) /\ \A k \in 1 .. n : d[k] = c[k]
        /\ Hold(c, out)
    BY ONLY <1>3, <1>4
  <2> QED BY ONLY <2>1, <2>2, HeldByMore, n \in Nat, l \in Nat
<1>14. Hold(d, out')
  <2>1. /\ m >= 3*h + 1 => 1 \in 1 .. p /\ 3*h + 1 = l + 1
        /\ m >= 3*h + 2 => 2 \in 1 .. p /\ 3*h + 2 = l + 2
        /\ m >= 3*h + 3 => 3 \in 1 .. p /\ 3*h + 3 = l + 3
    <3>1. m = l + p /\ l = 3*h  BY ONLY <1>5, <1>9
    <3> QED BY ONLY <3>1, h \in Nat, l \in Nat, m \in Nat, p \in Nat
  <2>2. /\ m >= 3*h + 1 => out'[3*h + 1] = Byte1(d, h)
        /\ m >= 3*h + 2 => out'[3*h + 2] = Byte2(d, h)
        /\ m >= 3*h + 3 => out'[3*h + 3] = Byte3(d, h)
    BY ONLY <1>7, <1>12, <2>1
  <2>3. l <= 3*h /\ m <= l + 3 /\ (m > l => l = 3*h) /\ 3 \in 0 .. 3
    BY ONLY <1>5, <1>8, <1>9, l \in Nat, p \in Nat, m \in Nat, h \in Nat
  <2>4. l = Len(out) /\ m = Len(out') /\ \A k \in 1 .. l : out'[k] = out[k]
    BY ONLY <1>3, <1>12
  <2>6. /\ Len(out) \in Nat /\ Len(out) <= 3*h /\ Len(out') \in Nat
        /\ Len(out') > Len(out) => Len(out) = 3*h
        /\ Len(out') <= Len(out) + 3
        /\ \A k \in 1 .. Len(out) : out'[k] = out[k]
        /\ Len(out') >= 3*h + 1 => out'[3*h + 1] = Byte1(d, h)
        /\ Len(out') >= 3*h + 2 => out'[3*h + 2] = Byte2(d, h)
        /\ Len(out') >= 3*h + 3 => out'[3*h + 3] = Byte3(d, h)
    BY ONLY <2>2, <2>3, <2>4, l \in Nat, m \in Nat
  <2> QED BY ONLY <1>13, <2>6, HoldNext, h \in Nat
<1>15. PICK g \in Nat : g = h + 1  OBVIOUS
<1>16. /\ in' <= Len(text') /\ d = OfAlphabet(text')[in'] /\ Len(d) = 4*g + 0
       /\ bc' = 6*0 /\ acc' = HeldBits(d, g, 0) /\ m = Len(out') /\ 0 \in 0 .. 3
       /\ m <= 3*g /\ m <= room' /\ (m < room' => m = 3*g) /\ Hold(d, out')
  <2>1. in' <= Len(text')
    <3>1. in < Len(text) /\ Len(text) \in Nat  BY ONLY <1>1, <1>3
    <3>2. in + 1 <= Len(text)  BY ONLY <3>1, in \in Nat
    <3> QED BY ONLY <1>1, <3>2
  <2>2. Len(d) = 4*g + 0
    <3>1. n + 1 = 4*g + 0  BY ONLY <1>5, <1>15, h \in Nat
    <3> QED BY ONLY <1>4, <3>1
  <2>3. bc' = 6*0  BY ONLY <1>2
  <2>4. acc' = HeldBits(d, g, 0)
    <3>1. HeldBits(d, g, 0) = 0  BY DEF HeldBits
    <3> QED BY ONLY <1>2, <3>1
  <2>5. m <= 3*g /\ m <= room /\ (m < room => m = 3*g) /\ 0 \in 0 .. 3
    <3>1. m = 3*h + p /\ p <= 3 /\ m <= room /\ (p = 3 \/ m = room) /\ 3*g = 3*h + 3
      BY ONLY <1>5, <1>8, <1>9, <1>15, h \in Nat
    <3> QED BY ONLY <3>1, h \in Nat, p \in Nat, m \in Nat, room \in Nat, g \in Nat
  <2>6. d = OfAlphabet(text')[in'] /\ room' = room /\ m = Len(out')
    BY ONLY <1>1, <1>4, <1>12
  <2> QED BY ONLY <1>14, <2>1, <2>2, <2>3, <2>4, <2>5, <2>6
<1>17. Filling'
  BY ONLY <1>16, FillingNext, g \in Nat, m \in Nat
<1> QED BY ONLY <1>12, <1>17

\* The bytes that the bits of a whole text make.
LEMMA AllKept ==
    ASSUME NEW t \in Seq(Nat)
    PROVE  \E all \in Seq(Nat), n \in Nat, m \in Nat :
               /\ all = OfAlphabet(t)[Len(t)] /\ n = Len(all)
               /\ \A k \in 1 .. n : IsBase64(all[k])
               /\ m = (6*n) \div 8 /\ Len(BytesIn(all)) = m
<1>1. PICK all : all = OfAlphabet(t)[Len(t)]  OBVIOUS
<1>2. all \in Seq(Base64Chars)
  <2>1. Len(t) \in Nat  BY LenProperties
  <2>2. Len(t) \in 0 .. Len(t)  BY ONLY <2>1
  <2> QED BY ONLY <1>1, <2>2, OfAlphabetIs, t \in Seq(Nat)
<1>3. all \in Seq(Nat)
  <2>1. Base64Chars \subseteq Nat  BY DEF Base64Chars
  <2> QED BY ONLY <1>2, <2>1, SeqMonotonic
<1>4. PICK n \in Nat : n = Len(all)  BY ONLY <1>3, LenProperties
<1>5. \A k \in 1 .. n : IsBase64(all[k])
  <2>1. \A k \in 1 .. n : all[k] \in Base64Chars
    BY ONLY <1>2, <1>4, ElementOfSeq
  <2> QED BY ONLY <2>1 DEF Base64Chars
<1>6. PICK m \in Nat : m = (6*n) \div 8  OBVIOUS
<1>7. Len(BytesIn(all)) = m
  <2>1. m = (6 * Len(all)) \div 8  BY ONLY <1>4, <1>6
  <2> QED BY ONLY <2>1, LenOfBytesIn, m \in Nat
<1> QED BY ONLY <1>1, <1>3, <1>4, <1>5, <1>6, <1>7

\* Bytes of the whole text, as many as the buffer has room for.
LEMMA FilledUp ==
    ASSUME text' \in Seq(Nat), room' \in Nat, out' \in Seq(Nat),
           NEW all \in Seq(Nat), all = OfAlphabet(text')[Len(text')],
           \A k \in 1 .. Len(all) : IsBase64(all[k]), Hold(all, out'),
           NEW l \in Nat, l = Len(out'), NEW m \in Nat, m = (6 * Len(all)) \div 8,
           l <= m, l <= room', l = m \/ l = room'
    PROVE  FilledBits' /\ Len(out') <= room'
<1>1. Len(BytesIn(all)) = m  BY ONLY LenOfBytesIn, m \in Nat, m = (6 * Len(all)) \div 8
<1>2. out' = SubSeq(BytesIn(all), 1, l)
  <2>1. Len(out') <= (6 * Len(all)) \div 8
    BY ONLY l = Len(out'), m = (6 * Len(all)) \div 8, l <= m
  <2>2. out' = SubSeq(BytesIn(all), 1, Len(out'))
    BY ONLY <2>1, HeldAreFirst, out' \in Seq(Nat), all \in Seq(Nat), Hold(all, out'),
       \A k \in 1 .. Len(all) : IsBase64(all[k])
  <2> QED BY ONLY <2>2, l = Len(out')
<1>3. l = IF room' < m THEN room' ELSE m
  BY ONLY l <= m, l <= room', l = m \/ l = room', l \in Nat, m \in Nat, room' \in Nat
<1>4. LET bytes == BytesIn(OfAlphabet(text')[Len(text')])
      IN  out' = SubSeq(bytes, 1, IF room' < Len(bytes) THEN room' ELSE Len(bytes))
  BY ONLY <1>1, <1>2, <1>3, all = OfAlphabet(text')[Len(text')]
<1>5. FilledBits'
  BY ONLY <1>4 DEF FilledBits, BytesIn, OfAlphabet
<1> QED BY <1>5

\* The buffer is full.
LEMMA FullFills ==
    ASSUME Base64Inv, Filling, in \in Nat, FillEnd, Full, room \in Nat, out \in Seq(Nat)
    PROVE  FilledBits' /\ Len(out') <= room'
<1>1. text' = text /\ room' = room /\ out' = out  BY DEF FillEnd, source
<1>2. PICK h \in Nat, r \in 0 .. 3, l \in Nat, n \in Nat, c \in Seq(Nat) :
               /\ in <= Len(text) /\ text \in Seq(Nat) /\ Len(text) \in Nat
               /\ c = OfAlphabet(text)[in] /\ c \in Seq(Base64Chars)
               /\ n = Len(c) /\ n = 4*h + r
               /\ \A k \in 1 .. n : IsBase64(c[k])
               /\ bc = 6*r /\ acc = HeldBits(c, h, r)
               /\ l = Len(out) /\ l <= 3*h /\ l <= room /\ (l < room => l = 3*h)
               /\ Hold(c, out)
  BY FillingIs
<1>3. l = room  BY ONLY <1>2, Full, l \in Nat, room \in Nat DEF Full
<1>4. text \in Seq(Nat)  BY ONLY <1>2
<1>5. PICK all \in Seq(Nat), a \in Nat, m \in Nat :
               /\ all = OfAlphabet(text)[Len(text)] /\ a = Len(all)
               /\ \A k \in 1 .. a : IsBase64(all[k])
               /\ m = (6*a) \div 8 /\ Len(BytesIn(all)) = m
  BY ONLY <1>4, AllKept
<1>6. n <= a /\ \A k \in 1 .. n : all[k] = c[k]
  <2>1. in \in 0 .. Len(text)  BY ONLY <1>2, in \in Nat
  <2>2. LET few == OfAlphabet(text)[in]
            al == OfAlphabet(text)[Len(text)]
        IN  Len(few) <= Len(al) /\ \A k \in 1 .. Len(few) : al[k] = few[k]
    BY ONLY <1>4, <2>1, KeptIsPrefix
  <2> QED BY ONLY <1>2, <1>5, <2>2
<1>7. l <= (6*n) \div 8 /\ l <= m
  <2>1. n = 4*h + r /\ l <= 3*h  BY ONLY <1>2
  <2>2. m = (6*a) \div 8 /\ n <= a  BY ONLY <1>5, <1>6
  <2> QED BY ONLY <2>1, <2>2, h \in Nat, r \in 0 .. 3, l \in Nat, n \in Nat, a \in Nat, m \in Nat
<1>8. Hold(all, out)
  <2>1. l = Len(out) /\ Hold(c, out)  BY ONLY <1>2
  <2> QED BY ONLY <1>6, <1>7, <2>1, HeldByMore, n \in Nat, l \in Nat
<1>9. /\ text' \in Seq(Nat) /\ room' \in Nat /\ out' \in Seq(Nat)
      /\ all = OfAlphabet(text')[Len(text')] /\ \A k \in 1 .. Len(all) : IsBase64(all[k])
      /\ Hold(all, out') /\ l = Len(out') /\ m = (6 * Len(all)) \div 8
      /\ l <= m /\ l <= room' /\ (l = m \/ l = room')
  BY ONLY <1>1, <1>2, <1>3, <1>4, <1>5, <1>7, <1>8, room \in Nat, out \in Seq(Nat)
<1> QED BY ONLY <1>9, FilledUp, l \in Nat, m \in Nat

\* The bytes in a of a group that has begun.
LEMMA StoredRest ==
    ASSUME NEW c, NEW h \in Nat, NEW r \in 0 .. 3, NEW n \in Nat, n = 4*h + r,
           \A k \in 1 .. n : IsBase64(c[k]),
           NEW q \in Nat, q = (6*r) \div 8, NEW x, x = HeldBits(c, h, r)
    PROVE  /\ SubSeq(Stored(x), 1, q) \in Seq(Nat) /\ Len(SubSeq(Stored(x), 1, q)) = q
           /\ q >= 1 => SubSeq(Stored(x), 1, q)[1] = Byte1(c, h)
           /\ q >= 2 => SubSeq(Stored(x), 1, q)[2] = Byte2(c, h)
<1>1. PICK a1 \in Value, a2 \in Value, a3 \in Value :
               /\ HeldBits(c, h, r) = a1 * 2^18 + a2 * 2^12 + a3 * 2^6
               /\ r > 0 => a1 = find(c[4*h + 1])
               /\ r > 1 => a2 = find(c[4*h + 2])
               /\ r > 2 => a3 = find(c[4*h + 3])
  BY ONLY HeldBitsAre, n = 4*h + r, \A k \in 1 .. n : IsBase64(c[k]), h \in Nat,
     r \in 0 .. 3, n \in Nat
<1>2. PICK a4 \in Value : a4 = 0  BY DEF Value
<1>3. x = a1 * 2^18 + a2 * 2^12 + a3 * 2^6 + a4
  <2>1. PICK x18 \in Nat, x12 \in Nat, x6 \in Nat : x18 = 2^18 /\ x12 = 2^12 /\ x6 = 2^6
    <3>1. 2^18 \in Nat /\ 2^12 \in Nat /\ 2^6 \in Nat  OBVIOUS
    <3> QED BY ONLY <3>1
  <2>2. a1 \in Nat /\ a2 \in Nat /\ a3 \in Nat  BY ONLY ValuesAreNat
  <2>3. x = a1 * x18 + a2 * x12 + a3 * x6
    BY ONLY <1>1, <2>1, x = HeldBits(c, h, r), Zenon
  <2>4. a1 * x18 \in Nat /\ a2 * x12 \in Nat /\ a3 * x6 \in Nat
    BY ONLY <2>2, x18 \in Nat, x12 \in Nat, x6 \in Nat
  <2>5. PICK y1 \in Nat, y2 \in Nat, y3 \in Nat :
          y1 = a1 * x18 /\ y2 = a2 * x12 /\ y3 = a3 * x6
    BY ONLY <2>4
  <2>6. x = y1 + y2 + y3  BY ONLY <2>3, <2>5, Zenon
  <2>7. x = y1 + y2 + y3 + a4  BY ONLY <1>2, <2>6, y1 \in Nat, y2 \in Nat, y3 \in Nat
  <2> QED BY ONLY <2>1, <2>5, <2>7, Zenon
<1>4. PICK s \in Seq(Nat) :
        /\ s = Stored(x) /\ Len(s) = 3
        /\ s[1] = High(a1, a2) /\ s[2] = Middle(a2, a3)
  <2>2. Stored(x) = StoredOf(a1, a2, a3, a4)  BY ONLY <1>3, Zenon DEF StoredOf
  <2>1. /\ Stored(x) \in Seq(Nat) /\ Len(Stored(x)) = 3
        /\ Stored(x)[1] = High(a1, a2) /\ Stored(x)[2] = Middle(a2, a3)
    <3>1. ThreeBytes(StoredOf(a1, a2, a3, a4), High(a1, a2), Middle(a2, a3), Low(a3, a4))
      BY ONLY StoredIs, a1 \in Value, a2 \in Value, a3 \in Value, a4 \in Value
    <3> QED BY ONLY <2>2, <3>1, Zenon DEF ThreeBytes
  <2> QED BY ONLY <2>1
<1>5. q <= 2 /\ (q >= 1 => r > 1) /\ (q >= 2 => r > 2)
  BY ONLY q = (6*r) \div 8, r \in 0 .. 3, q \in Nat
<1>6. /\ SubSeq(s, 1, q) \in Seq(Nat) /\ Len(SubSeq(s, 1, q)) = q
      /\ \A k \in 1 .. q : SubSeq(s, 1, q)[k] = s[k]
  <2>1. /\ q \in Int /\ 1 \in Int /\ q - 1 + 1 = q /\ \A k \in Int : 1 + k - 1 = k
    BY ONLY q \in Nat
  <2>2. \A k \in 1 .. q : s[k] \in Nat
    <3>1. \A k \in 1 .. q : k \in 1 .. Len(s)  BY ONLY <1>4, <1>5, q \in Nat
    <3> QED BY ONLY <3>1, s \in Seq(Nat), ElementOfSeq
  <2>3. /\ SubSeq(s, 1, q) \in Seq(Nat)
        /\ Len(SubSeq(s, 1, q)) = IF 1 <= q THEN q - 1 + 1 ELSE 0
        /\ \A k \in 1 .. q - 1 + 1 : SubSeq(s, 1, q)[k] = s[1 + k - 1]
    BY ONLY <2>1, <2>2, SubSeqProperties
  <2>4. Len(SubSeq(s, 1, q)) = q  BY ONLY <2>1, <2>3, q \in Nat
  <2> QED BY ONLY <2>1, <2>3, <2>4
<1>7. /\ q >= 1 => SubSeq(s, 1, q)[1] = s[1] /\ r > 1
      /\ q >= 2 => SubSeq(s, 1, q)[2] = s[2] /\ r > 2
  <2>1. (q >= 1 => 1 \in 1 .. q) /\ (q >= 2 => 2 \in 1 .. q)  BY ONLY q \in Nat
  <2> QED BY ONLY <1>5, <1>6, <2>1
<1>8. (r > 1 => r > 0) /\ (r > 2 => r > 1)  BY ONLY r \in 0 .. 3
<1>9. (r > 1 => s[1] = Byte1(c, h)) /\ (r > 2 => s[2] = Byte2(c, h))
  <2>1. /\ r > 0 => a1 = find(c[4*h + 1])
        /\ r > 1 => a2 = find(c[4*h + 2])
        /\ r > 2 => a3 = find(c[4*h + 3])
    BY ONLY <1>1
  <2> QED BY ONLY <1>4, <1>8, <2>1, Zenon DEF Byte1, Byte2, High, Middle
<1> QED BY ONLY <1>4, <1>6, <1>7, <1>9

\* The text has been read and the buffer has room left.
LEMMA LastFills ==
    ASSUME Base64Inv, Filling, in \in Nat, FillEnd, ~Full, room \in Nat, out \in Seq(Nat)
    PROVE  FilledBits' /\ Len(out') <= room'
<1>1. /\ text' = text /\ room' = room /\ in = Len(text)
      /\ out' = out \o Fitting(SubSeq(Stored(acc), 1, bc \div 8))
  BY DEF FillEnd, source
<1>2. PICK h \in Nat, r \in 0 .. 3, l \in Nat, n \in Nat, c \in Seq(Nat) :
               /\ in <= Len(text) /\ text \in Seq(Nat) /\ Len(text) \in Nat
               /\ c = OfAlphabet(text)[in] /\ c \in Seq(Base64Chars)
               /\ n = Len(c) /\ n = 4*h + r
               /\ \A k \in 1 .. n : IsBase64(c[k])
               /\ bc = 6*r /\ acc = HeldBits(c, h, r)
               /\ l = Len(out) /\ l <= 3*h /\ l <= room /\ (l < room => l = 3*h)
               /\ Hold(c, out)
  BY FillingIs
<1>3. l = 3*h /\ l < room
  <2>1. l < room  BY ONLY <1>2, ~Full, l \in Nat, room \in Nat DEF Full
  <2> QED BY ONLY <1>2, <2>1
<1>4. PICK q \in Nat, s \in Seq(Nat) :
        /\ q = (6*r) \div 8 /\ s = SubSeq(Stored(acc), 1, bc \div 8) /\ q = Len(s)
        /\ q >= 1 => s[1] = Byte1(c, h)
        /\ q >= 2 => s[2] = Byte2(c, h)
  <2>1. PICK q \in Nat : q = (6*r) \div 8 /\ q = bc \div 8
    <3>1. (6*r) \div 8 \in Nat  BY ONLY r \in 0 .. 3
    <3> QED BY ONLY <1>2, <3>1
  <2>2. n = 4*h + r /\ acc = HeldBits(c, h, r) /\ \A k \in 1 .. n : IsBase64(c[k])
    BY ONLY <1>2
  <2>4. q = (6*r) \div 8  BY ONLY <2>1
  <2>3. /\ SubSeq(Stored(acc), 1, q) \in Seq(Nat) /\ Len(SubSeq(Stored(acc), 1, q)) = q
        /\ q >= 1 => SubSeq(Stored(acc), 1, q)[1] = Byte1(c, h)
        /\ q >= 2 => SubSeq(Stored(acc), 1, q)[2] = Byte2(c, h)
    BY ONLY <2>2, <2>4, StoredRest, h \in Nat, r \in 0 .. 3, n \in Nat, q \in Nat
  <2> QED BY ONLY <2>1, <2>3
<1>5. PICK p \in Nat : /\ Fitting(s) \in Seq(Nat) /\ Len(Fitting(s)) = p
                       /\ p <= q /\ l + p <= room /\ (p = q \/ l + p = room)
                       /\ \A k \in 1 .. p : Fitting(s)[k] = s[k]
  <2>1. l = Len(out) /\ l <= room /\ q = Len(s)  BY ONLY <1>2, <1>4
  <2>2. \E p \in Nat :
           /\ Fitting(s) \in Seq(Nat) /\ Len(Fitting(s)) = p
           /\ p <= Len(s) /\ l + p <= room /\ (p = Len(s) \/ l + p = room)
           /\ \A k \in 1 .. p : Fitting(s)[k] = s[k]
    BY ONLY <2>1, FittingIs, out \in Seq(Nat), room \in Nat, l \in Nat, s \in Seq(Nat)
  <2> QED BY ONLY <2>1, <2>2
<1> DEFINE f == Fitting(s)
<1>6. PICK m \in Nat, b \in Nat : m = l + p /\ b = (6*n) \div 8
  OBVIOUS
<1>7. /\ out' \in Seq(Nat) /\ Len(out') = m
      /\ \A k \in 1 .. l : out'[k] = out[k]
      /\ \A k \in 1 .. p : out'[l + k] = s[k]
  <2>1. l = Len(out) /\ p = Len(f) /\ out \in Seq(Nat) /\ f \in Seq(Nat)
    BY ONLY <1>2, <1>5, out \in Seq(Nat)
  <2> HIDE DEF f
  <2>5. /\ out \o f \in Seq(Nat) /\ Len(out \o f) = Len(out) + Len(f)
        /\ \A k \in 1 .. Len(out) : (out \o f)[k] = out[k]
        /\ \A k \in 1 .. Len(f) : (out \o f)[Len(out) + k] = f[k]
    BY ONLY <2>1, Appended
  <2>2. /\ out \o f \in Seq(Nat) /\ Len(out \o f) = l + p
        /\ \A k \in 1 .. l : (out \o f)[k] = out[k]
        /\ \A k \in 1 .. p : (out \o f)[l + k] = f[k]
    BY ONLY <2>1, <2>5, Zenon
  <2>3. out' = out \o f  BY ONLY <1>1, <1>4 DEF f
  <2>4. \A k \in 1 .. p : f[k] = s[k]  BY ONLY <1>5 DEF f
  <2> QED BY ONLY <1>6, <2>2, <2>3, <2>4
<1>8. b = 3*h + q /\ q <= 2
  <2>1. n = 4*h + r /\ b = (6*n) \div 8 /\ q = (6*r) \div 8  BY ONLY <1>2, <1>4, <1>6
  <2> QED BY ONLY <2>1, h \in Nat, r \in 0 .. 3, n \in Nat, b \in Nat, q \in Nat
<1>9. Hold(c, out')
  <2>1. /\ m >= 3*h + 1 => 1 \in 1 .. p /\ 3*h + 1 = l + 1 /\ q >= 1
        /\ m >= 3*h + 2 => 2 \in 1 .. p /\ 3*h + 2 = l + 2 /\ q >= 2
        /\ ~(m >= 3*h + 3)
    <3>1. m = l + p /\ l = 3*h /\ p <= q /\ q <= 2  BY ONLY <1>3, <1>5, <1>6, <1>8
    <3> QED BY ONLY <3>1, h \in Nat, l \in Nat, m \in Nat, p \in Nat, q \in Nat
  <2>2. /\ m >= 3*h + 1 => out'[3*h + 1] = Byte1(c, h)
        /\ m >= 3*h + 2 => out'[3*h + 2] = Byte2(c, h)
        /\ m >= 3*h + 3 => out'[3*h + 3] = Byte3(c, h)
    BY ONLY <1>4, <1>7, <2>1
  <2>3. l <= 3*h /\ m <= l + 3 /\ (m > l => l = 3*h) /\ 3 \in 0 .. 3
    <3>1. m = l + p /\ l = 3*h /\ p <= q /\ q <= 2  BY ONLY <1>3, <1>5, <1>6, <1>8
    <3> QED BY ONLY <3>1, l \in Nat, p \in Nat, m \in Nat, h \in Nat, q \in Nat
  <2>4. l = Len(out) /\ m = Len(out') /\ \A k \in 1 .. l : out'[k] = out[k]
    BY ONLY <1>2, <1>7
  <2>5. Hold(c, out)  BY ONLY <1>2
  <2>6. /\ Len(out) \in Nat /\ Len(out) <= 3*h /\ Len(out') \in Nat
        /\ Len(out') > Len(out) => Len(out) = 3*h
        /\ Len(out') <= Len(out) + 3
        /\ \A k \in 1 .. Len(out) : out'[k] = out[k]
        /\ Len(out') >= 3*h + 1 => out'[3*h + 1] = Byte1(c, h)
        /\ Len(out') >= 3*h + 2 => out'[3*h + 2] = Byte2(c, h)
        /\ Len(out') >= 3*h + 3 => out'[3*h + 3] = Byte3(c, h)
    BY ONLY <2>2, <2>3, <2>4, l \in Nat, m \in Nat
  <2> QED BY ONLY <2>5, <2>6, HoldNext, h \in Nat
<1>10. m <= b /\ m <= room /\ (m = b \/ m = room)
  <2>1. m = l + p /\ l = 3*h /\ p <= q /\ b = 3*h + q /\ l + p <= room
        /\ (p = q \/ l + p = room)
    BY ONLY <1>3, <1>5, <1>6, <1>8
  <2> QED BY ONLY <2>1, h \in Nat, l \in Nat, m \in Nat, p \in Nat, q \in Nat, b \in Nat,
             room \in Nat
<1>11. /\ text' \in Seq(Nat) /\ room' \in Nat /\ out' \in Seq(Nat)
       /\ c = OfAlphabet(text')[Len(text')] /\ \A k \in 1 .. Len(c) : IsBase64(c[k])
       /\ Hold(c, out') /\ m = Len(out') /\ b = (6 * Len(c)) \div 8
       /\ m <= b /\ m <= room' /\ (m = b \/ m = room')
  <2>1. c = OfAlphabet(text')[Len(text')] /\ text' \in Seq(Nat)  BY ONLY <1>1, <1>2
  <2>2. b = (6 * Len(c)) \div 8 /\ \A k \in 1 .. Len(c) : IsBase64(c[k])
    BY ONLY <1>2, <1>6
  <2> QED BY ONLY <1>1, <1>7, <1>9, <1>10, <2>1, <2>2, room \in Nat
<1> QED BY ONLY <1>11, FilledUp, m \in Nat, b \in Nat, c \in Seq(Nat)

-----------------------------------------------------------------------------
(* The invariant of decoding *)

BitsInv ==
    /\ codec \in {"idle", "encode"} => /\ in = 0 /\ four = << >> /\ out = << >>
                                       /\ acc = 0 /\ bc = 0
    /\ codec = "decode" => Reading
    /\ codec = "decoded" => DecodedBits
    /\ codec = "fill" => /\ in \in Nat /\ room \in Nat /\ out \in Seq(Nat)
                         /\ Filling
    /\ codec = "filled" => FilledBits /\ Len(out) <= room

LEMMA FillCharBits ==
    ASSUME Base64Inv, BitsInv, FillChar PROVE BitsInv'
<1>1. codec = "fill" /\ codec' = "fill" /\ in' = in + 1 /\ room' = room
  BY DEF FillChar
<1>2. in \in Nat /\ room \in Nat /\ out \in Seq(Nat) /\ Filling
  BY <1>1 DEF BitsInv
<1>3. Filling' /\ out' \in Seq(Nat)
  <2>1. ASSUME ~IsBase64(text[in + 1]) PROVE Filling' /\ out' \in Seq(Nat)
    <3>1. Filling'  BY ONLY <1>2, <2>1, SkippedFills, Base64Inv, FillChar
    <3>2. out' = out
      <4>1. DecTable(text[in + 1]) = -1  BY ONLY <2>1 DEF DecTable
      <4> QED BY ONLY <4>1, FillChar DEF FillChar
    <3> QED BY ONLY <1>2, <3>1, <3>2
  <2>2. ASSUME IsBase64(text[in + 1]), bc < 18 PROVE Filling' /\ out' \in Seq(Nat)
    <3>1. Filling'  BY ONLY <1>2, <2>2, AddedFills, Base64Inv, FillChar
    <3>2. out' = out
      <4>1. find(text[in + 1]) \in Value /\ find(text[in + 1]) \in Nat
        BY ONLY <2>2, FoundIsValue, ValuesAreNat
      <4>2. DecTable(text[in + 1]) # -1  BY ONLY <2>2, <4>1 DEF DecTable
      <4> QED BY ONLY <2>2, <4>2, FillChar DEF FillChar
    <3> QED BY ONLY <1>2, <3>1, <3>2
  <2>3. ASSUME IsBase64(text[in + 1]), ~(bc < 18) PROVE Filling' /\ out' \in Seq(Nat)
    BY ONLY <1>2, <2>3, StoredFills, Base64Inv, FillChar
  <2> QED BY ONLY <2>1, <2>2, <2>3
<1>4. in' \in Nat /\ room' \in Nat  BY <1>1, <1>2
<1> QED BY ONLY <1>1, <1>3, <1>4 DEF BitsInv

LEMMA FillEndBits ==
    ASSUME Base64Inv, BitsInv, FillEnd PROVE BitsInv'
<1>1. codec = "fill" /\ codec' = "filled"
  BY DEF FillEnd
<1>2. in \in Nat /\ room \in Nat /\ out \in Seq(Nat) /\ Filling
  BY <1>1 DEF BitsInv
<1>3. FilledBits' /\ Len(out') <= room'
  BY ONLY <1>2, FullFills, LastFills, Base64Inv, FillEnd
<1> QED BY ONLY <1>1, <1>3 DEF BitsInv

\* Nothing has been decoded yet.
LEMMA BeginBits ==
    ASSUME text' \in Seq(Nat), in' = 0, four' = << >>, out' = << >>, acc' = 0, bc' = 0
    PROVE  /\ Reading'
           /\ room' \in Nat => Filling'
<1>1. PICK h \in Nat, l \in Nat, r \in 0 .. 3 : h = 0 /\ l = 0 /\ r = 0  OBVIOUS
<1>2. Len(text') \in Nat  BY LenProperties
<1>3. Len(out') = 0 /\ Len(four') = 0 /\ in' <= Len(text')  BY <1>2
<1>4. \A c : Hold(c, out')  BY <1>3 DEF Hold
<1>5. /\ in' = 4*h + Len(four') /\ Len(four') <= 3 /\ Len(out') = 3*h
      /\ \A k \in 1 .. in' : IsBase64(text'[k])
      /\ \A k \in 1 .. Len(four') : four'[k] = text'[4*h + k]
      /\ in' <= Len(text') /\ Hold(text', out')
  BY ONLY <1>1, <1>3, <1>4, in' = 0
<1>6. Reading'
  BY ONLY <1>5, ReadingNext, h \in Nat
<1>7. ASSUME room' \in Nat PROVE Filling'
  <2>1. PICK c : c = OfAlphabet(text')[in'] /\ c = << >>
    <3>1. OfAlphabet(text')[0] = << >>  BY OfAlphabetIs
    <3> QED BY ONLY <3>1, in' = 0
  <2>2. Len(c) = 4*h + r
    <3>1. Len(<< >>) = 0  OBVIOUS
    <3> QED BY ONLY <1>1, <2>1, <3>1
  <2>3. bc' = 6*r /\ l = Len(out') /\ l <= 3*h /\ l <= room' /\ (l < room' => l = 3*h)
    BY ONLY <1>1, <1>3, <1>7, bc' = 0
  <2>4. acc' = HeldBits(c, h, r)
    BY ONLY <1>1, acc' = 0 DEF HeldBits
  <2>5. in' <= Len(text') /\ Hold(c, out') /\ c = OfAlphabet(text')[in']
    BY ONLY <1>3, <1>4, <2>1
  <2> QED BY ONLY <2>2, <2>3, <2>4, <2>5, FillingNext, h \in Nat, l \in Nat, r \in 0 .. 3
<1> QED BY <1>6, <1>7

LEMMA BeginStepBits ==
    ASSUME Base64Inv, Base64Inv', BitsInv, Pack \/ WriteText \/ EncodeGroup \/ EncodeEnd
    PROVE  BitsInv'
<1>1. /\ in' = in /\ four' = four /\ out' = out /\ acc' = acc /\ bc' = bc
      /\ codec \in {"idle", "encode"}
  BY DEF Pack, WriteText, EncodeGroup, EncodeEnd
<1>2. in' = 0 /\ four' = << >> /\ out' = << >> /\ acc' = 0 /\ bc' = 0
  BY <1>1 DEF BitsInv
<1>3. \/ codec' = "encode" \/ codec' = "decode"
      \/ codec' = "fill" /\ room' \in Room
  BY <1>1 DEF Pack, WriteText, EncodeGroup, EncodeEnd
<1>4. text' \in Seq(Nat)  BY DEF Base64Inv
<1>5. Reading' /\ (room' \in Nat => Filling')
  BY ONLY <1>2, <1>4, BeginBits
<1>6. codec' = "fill" => room' \in Nat
  <2>1. ASSUME codec' = "fill" PROVE room' \in Room  BY ONLY <1>3, <2>1
  <2> QED BY ONLY <2>1, RoomAssumption
<1>7. in' \in Nat /\ out' \in Seq(Nat)  BY <1>2
<1> QED BY ONLY <1>2, <1>3, <1>5, <1>6, <1>7 DEF BitsInv

LEMMA DecodeBits ==
    ASSUME Base64Inv, BitsInv, DecodeChar \/ DecodeEnd
    PROVE  BitsInv'
<1>1. codec = "decode"  BY DEF DecodeChar, DecodeEnd
<1>2. Reading  BY <1>1 DEF BitsInv
<1>3. CASE DecodeChar
  <2>1. codec' = "decode"  BY <1>1, <1>3 DEF DecodeChar
  <2>2. Reading'  BY ONLY <1>2, <1>3, DecodeCharReads, Base64Inv
  <2> QED BY ONLY <2>1, <2>2 DEF BitsInv
<1>4. CASE DecodeEnd
  <2>1. codec' = "decoded"  BY <1>4 DEF DecodeEnd
  <2>2. DecodedBits'  BY ONLY <1>2, <1>4, DecodeEndDecodes, Base64Inv
  <2> QED BY ONLY <2>1, <2>2 DEF BitsInv
<1> QED BY <1>3, <1>4

LEMMA StutterBits ==
    ASSUME BitsInv, UNCHANGED base64Vars
    PROVE  BitsInv'
<1>1. /\ codec' = codec /\ text' = text /\ in' = in /\ four' = four /\ acc' = acc
      /\ bc' = bc /\ room' = room /\ out' = out
  BY DEF base64Vars, source
<1>2. /\ Reading' = Reading /\ DecodedBits' = DecodedBits /\ Filling' = Filling
      /\ FilledBits' = FilledBits
  BY ONLY <1>1 DEF Reading, DecodedBits, Filling, FilledBits
<1> QED BY <1>1, <1>2 DEF BitsInv

LEMMA BitsInvIsInductive ==
    /\ Base64Init => BitsInv
    /\ Base64Inv /\ Base64Inv' /\ BitsInv /\ [Base64Next]_base64Vars => BitsInv'
<1>1. ASSUME Base64Init PROVE BitsInv
  BY <1>1 DEF Base64Init, BitsInv
<1>2. ASSUME Base64Inv, Base64Inv', BitsInv, [Base64Next]_base64Vars PROVE BitsInv'
  BY ONLY <1>2, BeginStepBits, DecodeBits, FillCharBits, FillEndBits, StutterBits
     DEF Base64Next
<1> QED BY <1>1, <1>2

\* DecodesBits for every text and every buffer: base64Decode delivers the whole
\* bytes in the bits of the characters up to the first that is not of the
\* alphabet, base64DecodeToData those of all characters of the alphabet, as far
\* as the buffer has room (wp_base64.cpp:73-115, 158-198).
THEOREM DecodesBitsAlways == Base64Spec => []DecodesBits
<1>1. ASSUME BitsInv PROVE DecodesBits
  <2>1. codec \in {"fill", "filled"} => Len(out) <= room
    <3>1. ASSUME Filling PROVE Len(out) <= room
      BY <3>1 DEF Filling
    <3> QED BY <1>1, <3>1 DEF BitsInv
  <2> QED BY ONLY <1>1, <2>1 DEF BitsInv, DecodesBits, DecodedBits, FilledBits
<1> QED
  BY <1>1, Base64InvIsInductive, BitsInvIsInductive, PTL DEF Base64Spec

-----------------------------------------------------------------------------
(* Gzip *)

\* The buffers that are allocated in each stage (as_gzip.cpp:35-78).
Buffers ==
    /\ stage \in {"idle", "deflate", "compressed", "failed"} =>
          s1 = 0 /\ s2 = 0 /\ heap = {}
    /\ stage = "grow" => heap = IF s1 = 0 THEN {} ELSE {s1}
    /\ stage \in {"open", "inflate", "shrink"} =>
          s2 \in 1 .. Len(blocks) /\ heap = {s2}
    /\ stage \in {"open", "inflate"} => avail <= blocks[s2] /\ s1 = s2
    /\ stage = "read" => heap = IF s2 = 0 THEN {} ELSE {s2}
    /\ stage = "read" /\ s2 # 0 =>
          s2 \in 1 .. Len(blocks) /\ 0 <= len /\ len < blocks[s2]

GzipInv ==
    /\ src.len \in Nat /\ src.size \in Nat
    /\ factor \in 4 .. 16 /\ (stage \in {"idle", "grow"} => factor < 16)
    /\ s1 \in Nat /\ s2 \in Nat /\ avail \in Int /\ len \in Int
    /\ opened = IF stage = "inflate" THEN 1 ELSE 0
    /\ blocks \in Seq(Nat)
    /\ heap \subseteq 1 .. Len(blocks)
    /\ Buffers
    /\ stage = "done" /\ result # "nothing" => heap = {}

USE SourcesAssumption, WidthAssumption

LEMMA PowersAreNat == ASSUME NEW f \in 4 .. 15 PROVE 2^f \in Nat
<1>1. /\ 2^4 \in Nat /\ 2^5 \in Nat /\ 2^6 \in Nat /\ 2^7 \in Nat
      /\ 2^8 \in Nat /\ 2^9 \in Nat /\ 2^10 \in Nat /\ 2^11 \in Nat
      /\ 2^12 \in Nat /\ 2^13 \in Nat /\ 2^14 \in Nat /\ 2^15 \in Nat
  OBVIOUS
<1>2. f = 4 \/ f = 5 \/ f = 6 \/ f = 7 \/ f = 8 \/ f = 9 \/ f = 10 \/ f = 11
      \/ f = 12 \/ f = 13 \/ f = 14 \/ f = 15
  OBVIOUS
<1> QED
  BY ONLY <1>1, <1>2, Zenon

\* What realloc does to the blocks.
LEMMA Reallocated ==
    ASSUME blocks \in Seq(Nat), heap \subseteq 1 .. Len(blocks),
           NEW b, NEW size \in Nat, Realloc(b, size), heap \subseteq {b}
    PROVE  /\ blocks' \in Seq(Nat) /\ s2' \in 1 .. Len(blocks') /\ s2' \in Nat
           /\ s2' # 0 /\ heap' = {s2'} /\ heap' \subseteq 1 .. Len(blocks')
           /\ blocks'[s2'] = size
<1>1. /\ blocks' = Append(blocks, size) /\ s2' = Len(blocks) + 1
      /\ heap' = (heap \ {b}) \cup {Len(blocks) + 1}
  BY DEF Realloc
<1>2. /\ blocks' \in Seq(Nat) /\ Len(blocks') = Len(blocks) + 1
      /\ blocks'[Len(blocks) + 1] = size /\ Len(blocks) \in Nat
  BY <1>1
<1>3. heap' = {s2'}
  BY <1>1
<1> QED
  BY <1>1, <1>2, <1>3

LEMMA GunzipKeeps == ASSUME GzipInv, Gunzip PROVE GzipInv'
<1>1. /\ stage = "idle" /\ stage' = "grow" /\ src' \in Sources
      /\ factor' = factor /\ s1' = s1 /\ s2' = s2 /\ avail' = avail
      /\ opened' = opened /\ len' = len /\ blocks' = blocks /\ heap' = heap
      /\ result' = result
  BY DEF Gunzip
<1>2. src'.len \in Nat /\ src'.size \in Nat
  <2>1. PICK r \in [len : Lens, kind : {"whole", "cut", "corrupt"}, size : Sizes] :
            r = src'
    BY <1>1 DEF Sources
  <2>2. r.len \in Nat /\ r.size \in Nat
    OBVIOUS
  <2> QED
    BY <2>1, <2>2
<1> QED
  BY <1>1, <1>2 DEF GzipInv, Buffers

LEMMA GrowKeeps == ASSUME GzipInv, Grow PROVE GzipInv'
<1>1. /\ stage = "grow" /\ factor' = factor + 1 /\ src' = src
      /\ opened' = opened /\ len' = len /\ result' = result
  BY DEF Grow
<1>2. /\ factor \in 4 .. 15 /\ src.len \in Nat /\ s1 \in Nat /\ len \in Int
      /\ blocks \in Seq(Nat) /\ heap \subseteq 1 .. Len(blocks)
      /\ heap = (IF s1 = 0 THEN {} ELSE {s1}) /\ opened = 0 /\ avail \in Int
      /\ src.len \in Nat /\ src.size \in Nat
  BY <1>1 DEF GzipInv, Buffers
<1>3. PICK size \in Nat : size = Length
  <2>1. PICK p \in Nat : p = 2^factor
    BY <1>2, PowersAreNat
  <2>2. Length = src.len * p
    BY <2>1 DEF Length
  <2> QED
    BY <1>2, <2>2
<1>4. CASE Realloc(s1, Length) /\ s1' = s2' /\ avail' = Length % UInt /\ stage' = "open"
  <2>1. /\ blocks' \in Seq(Nat) /\ s2' \in 1 .. Len(blocks') /\ s2' \in Nat
        /\ s2' # 0 /\ heap' = {s2'} /\ heap' \subseteq 1 .. Len(blocks')
        /\ blocks'[s2'] = size
    BY <1>2, <1>3, <1>4, Reallocated
  <2>2. avail' <= size /\ avail' \in Int
    BY <1>3, <1>4
  <2>3. Buffers'
    BY ONLY <1>4, <2>1, <2>2 DEF Buffers
  <2> QED
    BY ONLY <1>1, <1>2, <1>4, <2>1, <2>2, <2>3 DEF GzipInv
<1>5. CASE /\ heap' = Freed(s1) /\ s1' = 0 /\ s2' = 0
           /\ stage' = "read" /\ UNCHANGED <<blocks, avail>>
  <2>1. heap' = {} /\ blocks' = blocks /\ avail' = avail
    BY <1>2, <1>5 DEF Freed
  <2> QED
    BY <1>1, <1>2, <1>5, <2>1 DEF GzipInv, Buffers
<1> QED
  BY <1>4, <1>5 DEF Grow

\* The end of a pass of the loop.
LEMMA TestedKeeps ==
    ASSUME GzipInv, stage \in {"open", "inflate"}, NEW status, Tested(status),
           opened' = 0, src' = src, factor' = factor, s1' = s1, avail' = avail,
           len' = len, blocks' = blocks, result' = result
    PROVE  GzipInv'
<1>1. /\ src.len \in Nat /\ src.size \in Nat /\ factor \in 4 .. 16
      /\ s1 \in Nat /\ s2 \in Nat /\ avail \in Int /\ len \in Int
      /\ blocks \in Seq(Nat) /\ heap \subseteq 1 .. Len(blocks)
      /\ s2 \in 1 .. Len(blocks) /\ heap = {s2} /\ s1 = s2
  BY DEF GzipInv, Buffers
<1>2. CASE factor < 16 /\ stage' = "grow" /\ UNCHANGED <<s2, heap>>
  BY <1>1, <1>2 DEF GzipInv, Buffers
<1>3. CASE stage' = "shrink" /\ UNCHANGED <<s2, heap>>
  BY <1>1, <1>3 DEF GzipInv, Buffers
<1>4. CASE stage' = "read" /\ s2' = 0 /\ heap' = heap \ {s2}
  BY <1>1, <1>4 DEF GzipInv, Buffers
<1> QED
  BY <1>2, <1>3, <1>4 DEF Tested

LEMMA OpenKeeps == ASSUME GzipInv, Open PROVE GzipInv'
<1>1. /\ stage = "open" /\ src' = src /\ factor' = factor /\ s1' = s1
      /\ avail' = avail /\ len' = len /\ blocks' = blocks /\ result' = result
  BY DEF Open
<1>2. opened = 0
  BY <1>1 DEF GzipInv
<1>3. CASE stage' = "inflate" /\ opened' = opened + 1 /\ UNCHANGED <<s2, heap, oom>>
  BY <1>1, <1>2, <1>3 DEF GzipInv, Buffers
<1>4. CASE Tested("mem") /\ UNCHANGED opened
  BY <1>1, <1>2, <1>4, TestedKeeps
<1> QED
  BY <1>3, <1>4 DEF Open

LEMMA InflateKeeps == ASSUME GzipInv, Inflate PROVE GzipInv'
<1>1. /\ stage = "inflate" /\ src' = src /\ factor' = factor /\ s1' = s1
      /\ avail' = avail /\ len' = len /\ blocks' = blocks /\ result' = result
      /\ opened' = opened - 1
      /\ Tested(Ended(Inflated)) \/ Tested("mem")
  BY DEF Inflate
<1>2. opened' = 0
  BY <1>1 DEF GzipInv
<1> QED
  BY <1>1, <1>2, TestedKeeps

LEMMA ShrinkKeeps == ASSUME GzipInv, Shrink PROVE GzipInv'
<1>1. /\ stage = "shrink" /\ src' = src /\ factor' = factor /\ s1' = s1
      /\ avail' = avail /\ opened' = opened /\ result' = result
      /\ len' = AsInt(src.size)
  BY DEF Shrink
<1>2. /\ src.len \in Nat /\ src.size \in Nat /\ factor \in 4 .. 16
      /\ s1 \in Nat /\ s2 \in Nat /\ avail \in Int
      /\ blocks \in Seq(Nat) /\ heap \subseteq 1 .. Len(blocks)
      /\ heap = {s2} /\ opened = 0
  BY <1>1 DEF GzipInv, Buffers
<1>3. len' \in Int
  BY <1>1, <1>2 DEF AsInt
<1>4. CASE /\ len' >= 0 /\ Realloc(s2, WithTerminator(len'))
           /\ stage' = "read"
  <2>1. PICK size \in Nat : size = WithTerminator(len') /\ len' < size
    <3>2. len' >= 0
      BY <1>4
    <3>3. PICK m \in Int : m = len'
      BY ONLY <1>3
    <3>1. len' + 1 \in Nat /\ len' < len' + 1
      <4>1. m >= 0
        BY ONLY <3>2, <3>3
      <4>2. m + 1 \in Nat /\ m < m + 1
        BY ONLY <4>1, m \in Int
      <4> QED
        BY ONLY <4>2, <3>3
    <3> QED
      BY ONLY <3>1 DEF WithTerminator
  <2>2. /\ blocks' \in Seq(Nat) /\ s2' \in 1 .. Len(blocks') /\ s2' \in Nat
        /\ s2' # 0 /\ heap' = {s2'} /\ heap' \subseteq 1 .. Len(blocks')
        /\ blocks'[s2'] = size
    BY <1>2, <1>4, <2>1, Reallocated
  <2>3. Buffers'
    BY ONLY <1>4, <2>1, <2>2 DEF Buffers
  <2> QED
    BY ONLY <1>1, <1>2, <1>3, <1>4, <2>2, <2>3 DEF GzipInv
<1>5. CASE stage' = "crashed" /\ UNCHANGED <<s2, blocks, heap>>
  BY <1>1, <1>2, <1>3, <1>5 DEF GzipInv, Buffers
<1> QED
  BY <1>4, <1>5 DEF Shrink

LEMMA ReadKeeps == ASSUME GzipInv, Read PROVE GzipInv'
<1>1. /\ stage = "read" /\ stage' = "done" /\ src' = src /\ factor' = factor
      /\ s1' = s1 /\ s2' = s2 /\ avail' = avail /\ opened' = opened
      /\ len' = len /\ blocks' = blocks
      /\ heap' = heap \ {s2} \/ (result' = "nothing" /\ heap' = heap)
  BY DEF Read
<1>2. heap = IF s2 = 0 THEN {} ELSE {s2}
  BY <1>1 DEF GzipInv, Buffers
<1> QED
  BY <1>1, <1>2 DEF GzipInv, Buffers

LEMMA OthersKeep ==
    ASSUME GzipInv, Compress \/ Deflate \/ UNCHANGED gzipVars
    PROVE  GzipInv'
<1>1. /\ src' = src /\ factor' = factor /\ s1' = s1 /\ s2' = s2
      /\ avail' = avail /\ opened' = opened /\ len' = len /\ blocks' = blocks
      /\ heap' = heap /\ result' = result
      /\ \/ stage' = stage
         \/ /\ stage \in {"idle", "deflate"}
            /\ stage' \in {"deflate", "compressed", "failed"}
  BY DEF Compress, Deflate, gzipVars, inflating
<1> QED
  BY <1>1 DEF GzipInv, Buffers

LEMMA GzipInvIsInductive ==
    /\ GzipInit => GzipInv
    /\ GzipInv /\ [GzipNext]_gzipVars => GzipInv'
<1>1. ASSUME GzipInit PROVE GzipInv
  <2>1. /\ stage = "idle" /\ src = [len |-> 0, kind |-> "cut", size |-> 0]
        /\ factor = 4 /\ s1 = 0 /\ s2 = 0 /\ avail = 0 /\ opened = 0
        /\ len = 0 /\ blocks = << >> /\ heap = {}
    BY <1>1 DEF GzipInit
  <2>2. src.len \in Nat /\ src.size \in Nat /\ blocks \in Seq(Nat)
    BY ONLY <2>1
  <2> QED
    BY ONLY <2>1, <2>2 DEF GzipInv, Buffers
<1>2. ASSUME GzipInv, [GzipNext]_gzipVars PROVE GzipInv'
  BY ONLY <1>2, GunzipKeeps, GrowKeeps, OpenKeeps, InflateKeeps, ShrinkKeeps,
          ReadKeeps, OthersKeep DEF GzipNext
<1> QED
  BY <1>1, <1>2

\* InBlock for every input: inflate writes, and AS_OBJECT reads, inside of a
\* block that is allocated (as_gzip.cpp:42-50, 68-73, as_object.hpp:204).
THEOREM StaysInBlock == GzipSpec => []InBlock
<1>1. GzipInv => InBlock
  BY DEF GzipInv, Buffers, InBlock
<1> QED
  BY <1>1, GzipInvIsInductive, PTL DEF GzipSpec

\* AllReleased for every input and every failure of an allocation
\* (as_gzip.cpp:43-46, 56-63, 77, as_object.hpp:206-211).
THEOREM ReleasesAll == GzipSpec => []AllReleased
<1>1. GzipInv => AllReleased
  BY DEF GzipInv, AllReleased
<1> QED
  BY <1>1, GzipInvIsInductive, PTL DEF GzipSpec

-----------------------------------------------------------------------------
(* What the loop has tried *)

\* What avail_out is given in the pass that doubles f times.
RoomOf(f) == (src.len * 2^f) % UInt

\* A buffer of that pass cannot help, or no buffer can.
Useless(f) == src.kind = "cut" \/ ~(src.size <= RoomOf(f))

Readable == src.kind = "whole" /\ Held(15) /\ src.size < UInt \div 2

\* Every pass before was in vain; what is read is readable (as_gzip.cpp:35-75).
Tried ==
    /\ src.kind \in {"whole", "cut", "corrupt"}
    /\ stage = "idle" => factor = 4
    /\ stage = "grow" => \A f \in 4 .. 15 : f < factor => Useless(f)
    /\ stage \in {"open", "inflate"} =>
          /\ factor \in 5 .. 16 /\ avail = RoomOf(factor - 1)
          /\ \A f \in 4 .. 15 : f < factor - 1 => Useless(f)
    /\ stage \in {"idle", "grow", "open", "inflate", "shrink"} => ~oom
    /\ stage = "shrink" => src.kind = "whole" /\ Held(15)
    /\ stage = "read" /\ ~oom => (s2 # 0 <=> Readable)
    /\ stage = "done" /\ ~oom => (result = "inflated" <=> Readable)

LEMMA RoomFits ==
    ASSUME src.len \in Nat, NEW f \in 4 .. 15
    PROVE  RoomOf(f) \in Nat /\ RoomOf(f) < UInt
<1>1. PICK p \in Nat : p = 2^f
  BY PowersAreNat
<1>2. src.len * p \in Nat
  BY <1>1
<1>3. PICK q \in Nat : q = src.len * p
  BY <1>2
<1>4. q % UInt \in Nat /\ q % UInt < UInt
  BY <1>3
<1> QED
  BY <1>1, <1>3, <1>4 DEF RoomOf

LEMMA HeldIs == Held(15) <=> \E f \in 4 .. 15 : src.size <= RoomOf(f)
BY DEF Held, RoomOf

LEMMA NeverHeld ==
    ASSUME \A f \in 4 .. 15 : Useless(f)
    PROVE  ~Readable
BY HeldIs DEF Useless, Readable

\* A length that int holds is the size of the text.
LEMMA IntsAreSizes ==
    ASSUME src.len \in Nat, src.size \in Nat, Held(15), AsInt(src.size) >= 0
    PROVE  src.size < UInt \div 2
<1>1. PICK f \in 4 .. 15 : src.size <= RoomOf(f)
  BY HeldIs
<1>2. src.size < UInt
  BY <1>1, RoomFits
<1> QED
  BY <1>2 DEF AsInt

LEMMA GunzipTries == ASSUME Tried, Gunzip PROVE Tried'
<1>1. stage = "idle" /\ stage' = "grow" /\ src' \in Sources /\ factor' = factor /\ oom' = oom
  BY DEF Gunzip
<1>2. src'.kind \in {"whole", "cut", "corrupt"}
  <2>1. PICK r \in [len : Lens, kind : {"whole", "cut", "corrupt"}, size : Sizes] :
            r = src'
    BY <1>1 DEF Sources
  <2>2. r.kind \in {"whole", "cut", "corrupt"}
    OBVIOUS
  <2> QED
    BY <2>1, <2>2
<1> QED
  BY <1>1, <1>2 DEF Tried

LEMMA GrowTries == ASSUME GzipInv, Tried, Grow PROVE Tried'
<1>1. /\ stage = "grow" /\ factor' = factor + 1 /\ src' = src /\ factor \in 4 .. 15
      /\ \A f \in 4 .. 15 : f < factor => Useless(f)
      /\ ~oom
  BY DEF Grow, GzipInv, Tried
<1>2. CASE avail' = Length % UInt /\ stage' = "open" /\ UNCHANGED oom
  <2>1. factor' - 1 = factor /\ factor' \in 5 .. 16
    BY <1>1
  <2>2. avail' = RoomOf(factor)
    BY <1>2 DEF Length, RoomOf
  <2>3. \A f \in 4 .. 15 : RoomOf(f)' = RoomOf(f) /\ (Useless(f)' <=> Useless(f))
    BY <1>1 DEF RoomOf, Useless
  <2>4. RoomOf(factor - 1)' = RoomOf(factor)
    BY <1>1, <2>1 DEF RoomOf
  <2> QED
    BY <1>1, <1>2, <2>1, <2>2, <2>3, <2>4 DEF Tried
<1>3. CASE stage' = "read" /\ oom' = TRUE
  BY <1>1, <1>3 DEF Tried
<1> QED
  BY <1>2, <1>3 DEF Grow

LEMMA InflateTries == ASSUME GzipInv, Tried, Inflate PROVE Tried'
<1>1. /\ stage = "inflate" /\ src' = src /\ factor' = factor /\ avail' = avail
      /\ factor \in 5 .. 16 /\ avail = RoomOf(factor - 1) /\ ~oom
      /\ \A f \in 4 .. 15 : f < factor - 1 => Useless(f)
      /\ src.len \in Nat /\ src.size \in Nat
  BY DEF Inflate, GzipInv, Tried
<1>2. \A f \in 4 .. 15 : Useless(f)' <=> Useless(f)
  BY <1>1 DEF RoomOf, Useless
<1>3. (Held(15)' <=> Held(15)) /\ (Readable' <=> Readable)
  BY <1>1 DEF Held, Readable
<1>4. PICK g \in 4 .. 15 : g = factor - 1
  BY <1>1
<1>5. CASE Tested("mem") /\ oom' = TRUE
  <2>1. stage' = "read"
    BY <1>5 DEF Tested
  <2> QED
    BY <1>1, <1>5, <2>1 DEF Tried
<1>6. CASE Tested(Ended(Inflated)) /\ UNCHANGED oom
  <2>1. CASE Inflated = "buf"
    <3>1. Useless(g)
      <4>1. src.size > avail \/ src.kind = "cut"
        BY <2>1 DEF Inflated
      <4>2. RoomOf(g) \in Nat /\ avail = RoomOf(g)
        BY <1>1, <1>4, RoomFits
      <4> QED
        BY <1>1, <4>1, <4>2 DEF Useless
    <3>2. \A f \in 4 .. 15 : f < factor => Useless(f)
      BY <1>1, <1>4, <3>1
    <3>3. Ended(Inflated) = "buf"
      BY <2>1 DEF Ended
    <3>4. CASE stage' = "grow"
      BY <1>1, <1>2, <1>6, <3>2, <3>4 DEF Tried
    <3>5. CASE factor >= 16 /\ stage' = "read" /\ s2' = 0
      <4>1. ~Readable
        BY <1>1, <3>2, <3>5, NeverHeld
      <4> QED
        BY <1>1, <1>3, <3>5, <4>1 DEF Tried
    <3> QED
      BY <1>6, <3>3, <3>4, <3>5 DEF Tested
  <2>2. CASE Inflated = "data"
    <3>1. src.kind = "corrupt" /\ Ended(Inflated) = "data"
      BY <2>2 DEF Inflated, Ended
    <3>2. stage' = "read" /\ s2' = 0
      BY <1>6, <3>1 DEF Tested
    <3> QED
      BY <1>1, <1>3, <3>1, <3>2 DEF Tried, Readable
  <2>3. CASE Inflated = "end"
    <3>1. Ended(Inflated) = "ok"
      BY <2>3 DEF Ended
    <3>2. stage' = "shrink"
      BY <1>6, <3>1 DEF Tested
    <3>3. ~(src.size > avail) /\ src.kind \notin {"cut", "corrupt"}
      <4>1. avail \in Nat /\ src.size \in Nat
        BY <1>1, <1>4, RoomFits DEF Tried
      <4>2. CASE src.size > avail \/ src.kind = "cut"
        BY ONLY <2>3, <4>2, <4>1 DEF Inflated
      <4>3. CASE src.size <= avail /\ src.kind = "corrupt"
        BY ONLY <2>3, <4>3, <4>1 DEF Inflated
      <4> QED
        BY ONLY <4>1, <4>2, <4>3
    <3>4. src.kind = "whole"
      BY <1>1, <3>3 DEF Tried
    <3>5. src.size <= RoomOf(g)
      BY <1>1, <1>4, <3>3, RoomFits
    <3>6. Held(15)
      BY <3>5, HeldIs
    <3> QED
      BY <1>1, <1>3, <1>6, <3>2, <3>4, <3>6 DEF Tried
  <2> QED
    BY <2>1, <2>2, <2>3 DEF Inflated
<1> QED
  BY <1>5, <1>6 DEF Inflate

LEMMA OpenTries == ASSUME Tried, Open PROVE Tried'
<1>1. /\ stage = "open" /\ src' = src /\ factor' = factor /\ avail' = avail
  BY DEF Open
<1>2. CASE stage' = "inflate" /\ UNCHANGED oom
  BY <1>1, <1>2 DEF Tried, RoomOf, Useless
<1>3. CASE oom' = TRUE /\ Tested("mem")
  <2>1. stage' = "read"
    BY <1>3 DEF Tested
  <2> QED
    BY <1>1, <1>3, <2>1 DEF Tried
<1> QED
  BY <1>2, <1>3 DEF Open

LEMMA ShrinkTries == ASSUME GzipInv, Tried, Shrink PROVE Tried'
<1>1. /\ stage = "shrink" /\ src' = src /\ src.kind = "whole" /\ Held(15) /\ ~oom
      /\ src.len \in Nat /\ src.size \in Nat /\ len' = AsInt(src.size)
      /\ blocks \in Seq(Nat)
  BY DEF Shrink, GzipInv, Tried
<1>2. (Readable' <=> Readable)
  BY <1>1 DEF Held, Readable
<1>3. CASE /\ len' >= 0 /\ Realloc(s2, WithTerminator(len'))
           /\ stage' = "read" /\ UNCHANGED oom
  <2>1. s2' # 0
    <3>1. s2' = Len(blocks) + 1
      BY <1>3 DEF Realloc
    <3>2. Len(blocks) \in Nat
      BY <1>1
    <3> QED
      BY ONLY <3>1, <3>2
  <2>2. Readable
    BY <1>1, <1>3, IntsAreSizes DEF Readable
  <2> QED
    BY <1>1, <1>2, <1>3, <2>1, <2>2 DEF Tried
<1>4. CASE stage' = "crashed" /\ oom' = TRUE
  BY <1>1, <1>4 DEF Tried
<1> QED
  BY <1>3, <1>4 DEF Shrink

LEMMA ReadTries == ASSUME Tried, Read PROVE Tried'
<1>1. stage = "read" /\ stage' = "done" /\ src' = src
  BY DEF Read
<1>2. Readable' <=> Readable
  BY <1>1 DEF Held, Readable
<1>3. CASE result' = (IF s2 = 0 THEN "plain" ELSE "inflated") /\ UNCHANGED oom
  BY <1>1, <1>2, <1>3 DEF Tried
<1>4. CASE oom' = TRUE
  BY <1>1, <1>4 DEF Tried
<1> QED
  BY <1>3, <1>4 DEF Read

LEMMA OthersTry ==
    ASSUME Tried, Compress \/ Deflate \/ UNCHANGED gzipVars
    PROVE  Tried'
<1>1. /\ src' = src /\ factor' = factor /\ s2' = s2 /\ avail' = avail /\ oom' = oom
      /\ result' = result
      /\ \/ stage' = stage
         \/ stage' \in {"deflate", "compressed", "failed"}
  BY DEF Compress, Deflate, gzipVars, inflating
<1>2. Readable' <=> Readable
  BY <1>1 DEF Held, Readable
<1> QED
  BY <1>1, <1>2 DEF Tried, Held, RoomOf, Useless

\* WholeIsRead for every input, any width of uInt and every failure of an
\* allocation (as_gzip.cpp:35-75, as_object.hpp:202-214).
THEOREM ReadsTheWhole == GzipSpec => []WholeIsRead
<1> DEFINE I == GzipInv /\ Tried
<1>1. GzipInit => I
  BY GzipInvIsInductive DEF GzipInit, Tried
<1>2. I /\ [GzipNext]_gzipVars => I'
  BY GzipInvIsInductive, GunzipTries, GrowTries, OpenTries, InflateTries, ShrinkTries,
     ReadTries, OthersTry DEF GzipNext
<1>3. I => WholeIsRead
  <2> SUFFICES ASSUME GzipInv, Tried PROVE WholeIsRead
    OBVIOUS
  <2>1. ASSUME stage = "open", factor > 5, Held(factor - 2) PROVE src.kind = "cut"
    <3>1. PICK f \in 4 .. factor - 2 : src.size <= RoomOf(f)
      BY <2>1 DEF Held, RoomOf
    <3>2. f \in 4 .. 15 /\ f < factor - 1
      BY <2>1 DEF Tried
    <3> QED
      BY <2>1, <3>1, <3>2 DEF Tried, Useless
  <2> QED
    BY <2>1 DEF Tried, WholeIsRead, Readable
<1> QED
  BY <1>1, <1>2, <1>3, PTL DEF GzipSpec

-----------------------------------------------------------------------------
(* The stream of deflate *)

\* What was copied is the beginning of the stream (as_gzip.cpp:98-119).
StreamInv ==
    /\ stream \in Seq(Nat) /\ outstring \in Seq(Nat) /\ total \in 0 .. Len(stream)
    /\ outbuffer \in [1 .. Block -> Nat]
    /\ Len(outstring) = total
    /\ \A i \in 1 .. total : outstring[i] = stream[i]
    /\ stage = "idle" => total = 0
    /\ stage = "compressed" => total = Len(stream)

LEMMA DeflateCopies == ASSUME StreamInv, Deflate PROVE StreamInv'
<1> DEFINE n == IF Len(stream) - total > Block THEN Block ELSE Len(stream) - total
<1>1. /\ stage = "deflate" /\ total' = total + n /\ stream' = stream
      /\ outbuffer' = [i \in 1 .. Block |-> IF i <= n THEN stream[total + i]
                                            ELSE outbuffer[i]]
      /\ outstring' = IF Len(outstring) < total'
                      THEN outstring \o SubSeq(outbuffer', 1, NewBytes(total'))
                      ELSE outstring
      /\ stage' = IF total' < Len(stream) THEN "deflate" ELSE "compressed"
  BY DEF Deflate
<1>2. /\ stream \in Seq(Nat) /\ outstring \in Seq(Nat) /\ total \in Nat
      /\ total <= Len(stream) /\ Len(stream) \in Nat /\ Len(outstring) = total
      /\ outbuffer \in [1 .. Block -> Nat]
      /\ \A i \in 1 .. total : outstring[i] = stream[i]
  BY DEF StreamInv
<1>3. n \in 0 .. Block /\ total + n <= Len(stream) /\ n <= Len(stream) - total
  BY <1>2
<1> HIDE DEF n
<1>4. total' \in 0 .. Len(stream) /\ NewBytes(total') = n
      /\ (Len(outstring) < total' <=> 0 < n)
  BY <1>1, <1>2, <1>3 DEF NewBytes
<1>5. \A i \in 1 .. n : total + i \in 1 .. Len(stream) /\ stream[total + i] \in Nat
  BY <1>2, <1>3
<1>6. /\ outbuffer' \in [1 .. Block -> Nat]
      /\ \A i \in 1 .. n : outbuffer'[i] = stream[total + i]
  <2>1. ASSUME NEW i \in 1 .. Block PROVE outbuffer'[i] \in Nat
    <3>1. CASE i <= n
      BY <1>1, <1>3, <1>5, <3>1
    <3>2. CASE ~(i <= n)
      BY <1>1, <1>2, <3>2
    <3> QED
      BY <3>1, <3>2
  <2>2. outbuffer' \in [1 .. Block -> Nat]
    BY <1>1, <2>1
  <2>3. ASSUME NEW i \in 1 .. n PROVE outbuffer'[i] = stream[total + i]
    <3>1. i \in 1 .. Block /\ i <= n
      BY <1>3
    <3> QED
      BY <1>1, <3>1
  <2> QED
    BY <2>2, <2>3
<1>7. PICK piece \in Seq(Nat) : /\ piece = SubSeq(outbuffer', 1, n) /\ Len(piece) = n
                                /\ \A i \in 1 .. n : piece[i] = stream[total + i]
  <2>1. outbuffer' \in Seq(Nat) /\ Len(outbuffer') = Block
    BY <1>6
  <2>2. PICK b \in Seq(Nat) : b = outbuffer'
    BY <2>1
  <2>3. /\ SubSeq(b, 1, n) \in Seq(Nat) /\ Len(SubSeq(b, 1, n)) = n
        /\ \A i \in 1 .. n : SubSeq(b, 1, n)[i] = b[i]
    BY <1>3, <2>1, <2>2
  <2> QED
    BY <1>6, <2>2, <2>3
<1>8. /\ outstring' \in Seq(Nat) /\ Len(outstring') = total'
      /\ \A i \in 1 .. total' : outstring'[i] = stream[i]
  <2>1. CASE 0 < n
    <3>1. outstring' = outstring \o piece
      BY <1>1, <1>4, <1>7, <2>1
    <3>2. outstring' \in Seq(Nat) /\ Len(outstring') = total + n
      BY <1>2, <1>3, <1>7, <3>1
    <3>3. ASSUME NEW i \in 1 .. total + n PROVE outstring'[i] = stream[i]
      <4>1. CASE i <= total
        <5>1. i \in 1 .. Len(outstring) /\ i \in 1 .. total
          BY <1>2, <1>3, <4>1
        <5>2. (outstring \o piece)[i] = outstring[i]
          BY ONLY <1>2, <5>1, piece \in Seq(Nat)
        <5> QED
          BY <1>2, <3>1, <5>1, <5>2
      <4>2. CASE i > total
        <5>1. i - total \in 1 .. n /\ total + (i - total) = i
          BY <1>2, <1>3, <4>2
        <5>2. (outstring \o piece)[i] = piece[i - total]
          <6>1. i \in 1 .. Len(outstring) + Len(piece) /\ i > Len(outstring)
            BY <1>2, <1>7, <4>2
          <6>2. (outstring \o piece)[i] = piece[i - Len(outstring)]
            BY ONLY <1>2, <6>1, piece \in Seq(Nat)
          <6> QED
            BY <1>2, <6>2
        <5> QED
          BY <1>7, <3>1, <5>1, <5>2
      <4> QED
        BY <1>2, <1>3, <4>1, <4>2
    <3> QED
      BY <1>1, <3>2, <3>3
  <2>2. CASE ~(0 < n)
    <3>1. n = 0 /\ outstring' = outstring /\ total' = total
      BY <1>1, <1>2, <1>3, <1>4, <2>2
    <3> QED
      BY <1>2, <3>1
  <2> QED
    BY <2>1, <2>2
<1>9. /\ stage' = "idle" => total' = 0
      /\ stage' = "compressed" => total' = Len(stream)
  BY <1>1, <1>2, <1>4
<1> QED
  BY <1>1, <1>2, <1>4, <1>6, <1>8, <1>9 DEF StreamInv

LEMMA OthersCopy ==
    ASSUME StreamInv, [GzipNext]_gzipVars, ~Deflate
    PROVE  StreamInv'
<1>1. CASE Compress
  <2>1. /\ stage = "idle" /\ total' = total /\ outbuffer' = outbuffer
        /\ outstring' = outstring /\ stage' \in {"deflate", "failed"}
        /\ \/ \E n \in 1 .. MaxStream : stream' = [i \in 1 .. n |-> i]
           \/ stream' = stream
    BY <1>1 DEF Compress
  <2>2. stream' \in Seq(Nat)
    BY <2>1, StreamAssumption DEF StreamInv
  <2>3. total = 0 /\ 0 \in 0 .. Len(stream')
    BY <2>1, <2>2 DEF StreamInv
  <2> QED
    BY <2>1, <2>2, <2>3 DEF StreamInv
<1>2. CASE ~Compress
  <2>1. /\ total' = total /\ outbuffer' = outbuffer /\ outstring' = outstring
        /\ stream' = stream
    BY <1>2 DEF GzipNext, Gunzip, Grow, Open, Inflate, Shrink, Read, gzipVars, deflating
  <2>2. stage' = stage \/ stage' \notin {"idle", "compressed"}
    BY <1>2 DEF GzipNext, Gunzip, Grow, Open, Inflate, Shrink, Read, Tested, gzipVars
  <2> QED
    BY <2>1, <2>2 DEF StreamInv
<1> QED
  BY <1>1, <1>2

\* WholeStream for every length of the stream and every size of the block
\* (as_gzip.cpp:98-119).
THEOREM StreamIsWhole == GzipSpec => []WholeStream
<1>1. GzipInit => StreamInv
  <2> SUFFICES ASSUME GzipInit PROVE StreamInv
    OBVIOUS
  <2>1. /\ stream = << >> /\ total = 0 /\ outstring = << >> /\ stage = "idle"
        /\ outbuffer = [i \in 1 .. Block |-> 0]
    BY DEF GzipInit
  <2> QED
    BY <2>1 DEF StreamInv
<1>2. StreamInv /\ [GzipNext]_gzipVars => StreamInv'
  BY DeflateCopies, OthersCopy
<1>3. StreamInv => WholeStream
  <2> SUFFICES ASSUME StreamInv, stage = "compressed" PROVE outstring = stream
    BY DEF WholeStream
  <2>1. /\ outstring \in Seq(Nat) /\ stream \in Seq(Nat) /\ Len(outstring) = Len(stream)
        /\ \A i \in 1 .. Len(stream) : outstring[i] = stream[i]
    BY DEF StreamInv
  <2> QED
    BY <2>1
<1> QED
  BY <1>1, <1>2, <1>3, PTL DEF GzipSpec
=============================================================================
