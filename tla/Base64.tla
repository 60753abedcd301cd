------------------------------- MODULE Base64 -------------------------------
(***************************************************************************)
(* The base64 codec (wp_base64.cpp): base64Encode, with which a program    *)
(* that writes records packs bytes into a string bin, base64Decode, which  *)
(* AS_OBJECT::GET applies to every string bin, and base64DecodeToData,     *)
(* which fills a buffer of a given size.                                   *)
(*                                                                         *)
(* A character is its ASCII code, a byte a number below 256.  A loop of    *)
(* the code is an action that makes one pass.                              *)
(***************************************************************************)
EXTENDS Integers, Sequences

CONSTANTS
    Bytes,     \* the bytes that are packed
    MaxBytes,  \* bound: how many of them
    Chars,     \* the characters of texts that nobody packed
    MaxChars,  \* bound: how many of them
    Room       \* the sizes of destination buffers

ASSUME BytesAssumption == Bytes \subseteq 0 .. 255 /\ MaxBytes \in Nat
ASSUME CharsAssumption == Chars \subseteq 1 .. 127 /\ MaxChars \in Nat
ASSUME RoomAssumption  == Room \subseteq Nat

VARIABLES
    codec,   \* the function that runs, or "idle", "decoded", "filled"
    packed,  \* the text was made by base64Encode
    data,    \* the bytes it encodes
    at,      \* how many of them are in the text
    text,    \* the text
    in,      \* in_: how many of its characters have been read
    four,    \* the first i characters of charArray4
    acc,     \* a of base64DecodeToData
    bc,      \* its bits in use
    room,    \* destinationSize
    out      \* the bytes decoded

source == <<packed, data, at, text>>
base64Vars   == <<codec, source, in, four, acc, bc, room, out>>

-----------------------------------------------------------------------------
(* The alphabet *)

pad == 61   \* '='

\* kBase64String[v]
Char(v) == CASE v \in 0 .. 25  -> v + 65
             [] v \in 26 .. 51 -> v + 71
             [] v \in 52 .. 61 -> v - 4
             [] v = 62         -> 43
             [] OTHER          -> 47

\* isalnum(c) || c == '+' || c == '/'
IsBase64(c) == c \in 48 .. 57 \cup 65 .. 90 \cup 97 .. 122 \cup {43, 47}

\* kBase64String.find(c) as an unsigned char: npos becomes 255.
find(c) == CASE c \in 65 .. 90  -> c - 65
             [] c \in 97 .. 122 -> c - 71
             [] c \in 48 .. 57  -> c + 4
             [] c = 43          -> 62
             [] c = 47          -> 63
             [] OTHER           -> 255

\* Base64DecTable
DecTable(c) == IF IsBase64(c) THEN find(c) ELSE -1

-----------------------------------------------------------------------------
(* base64Encode *)

\* The four characters of characterArray3.
Quad(x, y, z) == <<Char(x \div 4),
                   Char((x % 4) * 16 + (y \div 16)),
                   Char((y % 16) * 4 + (z \div 64)),
                   Char(z % 64)>>

EncodeGroup ==
    /\ codec = "encode" /\ Len(data) - at >= 3
    /\ text' = text \o Quad(data[at + 1], data[at + 2], data[at + 3])
    /\ at' = at + 3
    /\ UNCHANGED <<codec, packed, data, in, four, acc, bc, room, out>>

\* Variant: the last group has as many characters as bytes.
ShortTail(n) == n
\* for (j = 0; j < i + 1; j++)
TailChars(n) == n + 1

\* The one or two bytes left, filled up with zeros and then with '='.
Tail4 ==
    LET n == Len(data) - at
        q == Quad(data[at + 1], IF n = 2 THEN data[at + 2] ELSE 0, 0)
    IN  [j \in 1 .. 4 |-> IF j <= TailChars(n) THEN q[j] ELSE pad]

EncodeEnd ==
    /\ codec = "encode" /\ Len(data) - at < 3
    /\ text' = IF at = Len(data) THEN text ELSE text \o Tail4
    /\ at' = Len(data)
    /\ \/ codec' = "decode" /\ UNCHANGED room
       \/ codec' = "fill" /\ room' \in Room
    /\ UNCHANGED <<packed, data, in, four, acc, bc, out>>

-----------------------------------------------------------------------------
(* base64Decode *)

\* charArray3 of the four values of charArray4.
Triple(a, b, c, d) == <<(a * 4 + ((b \div 16) % 4)) % 256,
                        ((b % 16) * 16 + ((c \div 4) % 16)) % 256,
                        ((c % 4) * 64 + d) % 256>>

DecodeChar ==
    /\ codec = "decode" /\ in < Len(text) /\ IsBase64(text[in + 1])
    /\ in' = in + 1
    /\ IF Len(four) < 3
       THEN four' = Append(four, text[in + 1]) /\ UNCHANGED out
       ELSE /\ four' = << >>
            /\ out' = out \o Triple(find(four[1]), find(four[2]),
                                    find(four[3]), find(text[in + 1]))
    /\ UNCHANGED <<codec, source, acc, bc, room>>

\* Variant: every byte of a group that has begun is delivered.
AllBegun(n) == n
\* for (j = 0; j < i - 1; j++)
TailBytes(n) == n - 1

\* The group that has begun is filled up with zero bytes, whose value find
\* does not know either.
Filled(j) == find(IF j <= Len(four) THEN four[j] ELSE 0)
Rest == SubSeq(Triple(Filled(1), Filled(2), Filled(3), Filled(4)),
               1, TailBytes(Len(four)))

DecodeEnd ==
    /\ codec = "decode"
    /\ in < Len(text) => ~IsBase64(text[in + 1])
    /\ codec' = "decoded"
    /\ out' = IF four = << >> THEN out ELSE out \o Rest
    /\ UNCHANGED <<source, in, four, acc, bc, room>>

-----------------------------------------------------------------------------
(* base64DecodeToData *)

\* if (++pd >= pend) return
Fitting(bytes) ==
    IF Len(bytes) <= room - Len(out) THEN bytes
    ELSE SubSeq(bytes, 1, room - Len(out))

Full == Len(out) >= room

\* a >> 16, a >> 8 and a, each stored in a char.
Stored(a) == <<a \div 65536, (a \div 256) % 256, a % 256>>

FillChar ==
    /\ codec = "fill" /\ in < Len(text) /\ ~Full
    /\ in' = in + 1
    /\ LET n == DecTable(text[in + 1])
       IN  IF n = -1 THEN UNCHANGED <<acc, bc, out>>
           ELSE IF bc < 18
           THEN /\ acc' = acc + n * 2^(18 - bc) /\ bc' = bc + 6
                /\ UNCHANGED out
           ELSE /\ out' = out \o Fitting(Stored(acc + n))
                /\ acc' = 0 /\ bc' = 0
    /\ UNCHANGED <<codec, source, four, room>>

\* The bytes that the characters of an incomplete group hold.
FillEnd ==
    /\ codec = "fill"
    /\ in = Len(text) \/ Full
    /\ codec' = "filled"
    /\ out' = IF Full THEN out
              ELSE out \o Fitting(SubSeq(Stored(acc), 1, bc \div 8))
    /\ UNCHANGED <<source, in, four, acc, bc, room>>

-----------------------------------------------------------------------------
Datas == UNION {[1 .. n -> Bytes] : n \in 0 .. MaxBytes}
FreeTexts == UNION {[1 .. n -> Chars] : n \in 0 .. MaxChars}

Base64Init ==
    /\ codec = "idle" /\ packed = FALSE
    /\ data = << >> /\ at = 0 /\ text = << >>
    /\ in = 0 /\ four = << >> /\ acc = 0 /\ bc = 0 /\ room = 0 /\ out = << >>

\* A program packs bytes.
Pack ==
    /\ codec = "idle" /\ codec' = "encode"
    /\ packed' = TRUE /\ data' \in Datas
    /\ UNCHANGED <<at, text, in, four, acc, bc, room, out>>

\* A program writes any text.
WriteText ==
    /\ codec = "idle"
    /\ text' \in FreeTexts
    /\ \/ codec' = "decode" /\ UNCHANGED room
       \/ codec' = "fill" /\ room' \in Room
    /\ UNCHANGED <<packed, data, at, in, four, acc, bc, out>>

Base64Next == Pack \/ WriteText \/ EncodeGroup \/ EncodeEnd \/ DecodeChar \/ DecodeEnd
        \/ FillChar \/ FillEnd

Base64Spec == Base64Init /\ [][Base64Next]_base64Vars

-----------------------------------------------------------------------------
(* Properties *)

\* The bytes in the bits of a sequence of alphabet characters, and no byte for
\* bits that do not make one.
BytesIn(chars) ==
    LET bit(p) == (find(chars[p \div 6 + 1]) \div 2^(5 - (p % 6))) % 2
    IN  [k \in 1 .. (6 * Len(chars)) \div 8 |->
            LET b(i) == bit(8 * (k - 1) + i)
            IN  128 * b(0) + 64 * b(1) + 32 * b(2) + 16 * b(3)
                + 8 * b(4) + 4 * b(5) + 2 * b(6) + b(7)]

\* The characters of the alphabet among the first n of a text.
OfAlphabet(t) ==
    LET F[n \in 0 .. Len(t)] ==
            IF n = 0 THEN << >>
            ELSE IF IsBase64(t[n]) THEN Append(F[n - 1], t[n]) ELSE F[n - 1]
    IN  F

\* What base64Encode packs is what base64Decode unpacks, for every length:
\* the values that find gives for the missing characters of the last group
\* reach none of the bytes delivered (wp_base64.cpp:37-59, 95-115).
PackedUnpacks == codec = "decoded" /\ packed => out = data

\* base64Decode delivers the whole bytes in the bits of the characters up to the
\* first that is not of the alphabet; base64DecodeToData those of all characters
\* of the alphabet, wherever they are, as far as the buffer has room
\* (wp_base64.cpp:73-115, 158-198).
DecodesBits ==
    /\ codec = "decoded" =>
           \E n \in 0 .. Len(text) :
               /\ \A i \in 1 .. n : IsBase64(text[i])
               /\ n < Len(text) => ~IsBase64(text[n + 1])
               /\ out = BytesIn(SubSeq(text, 1, n))
    /\ codec \in {"fill", "filled"} => Len(out) <= room
    /\ codec = "filled" =>
           LET bytes == BytesIn(OfAlphabet(text)[Len(text)])
           IN  out = SubSeq(bytes, 1, IF room < Len(bytes) THEN room ELSE Len(bytes))
=============================================================================
