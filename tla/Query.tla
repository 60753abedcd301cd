-------------------------------- MODULE Query --------------------------------
(***************************************************************************)
(* What request_handler makes of a URI: url_decode, the split at '?', and  *)
(* parse_query, against a client that writes the values of two parameters  *)
(* into a query and percent-encodes what must be, or may be, encoded.      *)
(*                                                                         *)
(* Characters are their codes, since an encoded character is a number.     *)
(***************************************************************************)
EXTENDS Naturals, Sequences

CONSTANTS
    Alphabet,   \* the characters of values
    MaxKey,     \* bounds: the characters of the two values
    MaxSet

ASSUME AlphabetAssumption == Alphabet \subseteq 0 .. 255
ASSUME MaxAssumption == MaxKey \in Nat /\ MaxSet \in Nat

VARIABLES
    key, set,         \* the values the client means
    keyText, setText  \* what it has written for them

queryVars == <<key, set, keyText, setText>>

percent == 37   plus == 43   amp == 38   equals == 61   question == 63
space   == 32   minus == 45  slash == 47

-----------------------------------------------------------------------------
(* url_decode *)

\* The digits 0-9, A-F and a-f; 16 stands for any other character.
HexValue(c) ==
    CASE c \in 48 .. 57  -> c - 48
      [] c \in 65 .. 70  -> c - 55
      [] c \in 97 .. 102 -> c - 87
      [] OTHER           -> 16

IsHex(c) == HexValue(c) < 16
IsX(c)   == c \in {88, 120}
IsSpace(c) == c \in {9, 10, 11, 12, 13, space}

\* is >> std::hex >> value, on two characters: a number is read as far as it
\* goes, after white space, a sign or the prefix 0x; 256 for a failure.
Extract(a, b) ==
    CASE IsHex(a) /\ IsHex(b)      -> 16 * HexValue(a) + HexValue(b)
      [] IsHex(a) /\ ~IsHex(b)     -> IF HexValue(a) = 0 /\ IsX(b) THEN 256
                                      ELSE HexValue(a)
      [] IsSpace(a) /\ IsHex(b)    -> HexValue(b)
      [] a = plus /\ IsHex(b)      -> HexValue(b)
      [] a = minus /\ IsHex(b)     -> (256 - HexValue(b)) % 256
      [] OTHER                     -> 256

Failed == [ok |-> FALSE, out |-> << >>]
Prepend(c, rest) == IF rest.ok THEN [rest EXCEPT !.out = <<c>> \o @] ELSE Failed

\* out += ' ' for a '+'
Plain(c) == IF c = plus THEN space ELSE c

url_decode(in) ==
    LET From[i \in 1 .. Len(in) + 1] ==
            IF i > Len(in) THEN [ok |-> TRUE, out |-> << >>]
            ELSE IF in[i] # percent THEN Prepend(Plain(in[i]), From[i + 1])
            ELSE IF i + 2 > Len(in) \/ Extract(in[i + 1], in[i + 2]) = 256
            THEN Failed
            ELSE Prepend(Extract(in[i + 1], in[i + 2]), From[i + 3])
    IN  From[1]

-----------------------------------------------------------------------------
(* parse_query and the split of the path *)

Least(S)    == CHOOSE i \in S : \A j \in S : i <= j
Greatest(S) == CHOOSE i \in S : \A j \in S : j <= i

At(s, c) == {i \in DOMAIN s : s[i] = c}

\* The pairs of boost::split, as the places where they begin and end.
Pairs(query) ==
    LET cuts == At(query, amp)
    IN  {p \in (1 .. Len(query) + 1) \X (0 .. Len(query)) :
            /\ p[1] - 1 \in cuts \cup {0}
            /\ p[2] + 1 \in cuts \cup {Len(query) + 1}
            /\ p[1] <= p[2] + 1
            /\ p[1] .. p[2] \cap cuts = {}}

\* Variant: the last '=' of a pair ends its key.
LastEquals(seps) == Greatest(seps)
\* pair.find("=", 0)
Separator(seps) == Least(seps)

\* The places of the pairs with a key: where it begins, where its '=' is, and
\* where the value ends.
Keyed(query) ==
    {<<p[1], Separator(At(query, equals) \cap p[1] .. p[2]), p[2]>> :
        p \in {q \in Pairs(query) : At(query, equals) \cap q[1] .. q[2] # {}}}

\* map[key] = value, for the pairs of one key from left to right
Kept(ps) == CHOOSE p \in ps : \A q \in ps : q[1] <= p[1]

\* The value of a key in the map that parse_query fills, "" when it has none.
Param(query, name) ==
    LET ps == {p \in Keyed(query) : SubSeq(query, p[1], p[2] - 1) = name}
    IN  IF ps = {} THEN << >> ELSE SubSeq(query, Kept(ps)[2] + 1, Kept(ps)[3])

\* The part of the URI after the first '?', once it has been decoded whole.
Query(uri) ==
    LET d == url_decode(uri)
        q == At(d.out, question)
    IN  IF ~d.ok \/ q = {} THEN << >>
        ELSE SubSeq(d.out, Least(q) + 1, Len(d.out))

-----------------------------------------------------------------------------
(* The client *)

K == <<107>>   \* the name of the parameter key, and of set
S == <<115>>

HexDigit(n) == IF n < 10 THEN n + 48 ELSE n + 55
Encoded(c)  == <<percent, HexDigit(c \div 16), HexDigit(c % 16)>>

\* What ends or changes the text of a value must be encoded.
Reserved == {percent, plus, amp, space} \cup 0 .. 31 \cup 127 .. 255
Texts(c) == IF c \in Reserved THEN {Encoded(c)} ELSE {<<c>>, Encoded(c)}

Uri == <<slash, question>> \o K \o <<equals>> \o keyText
           \o <<amp>> \o S \o <<equals>> \o setText

QueryInit ==
    /\ key = << >> /\ set = << >>
    /\ keyText = << >> /\ setText = << >>

TypeKey(c) ==
    /\ Len(key) < MaxKey
    /\ key' = Append(key, c)
    /\ \E t \in Texts(c) : keyText' = keyText \o t
    /\ UNCHANGED <<set, setText>>

TypeSet(c) ==
    /\ Len(set) < MaxSet
    /\ set' = Append(set, c)
    /\ \E t \in Texts(c) : setText' = setText \o t
    /\ UNCHANGED <<key, keyText>>

QueryNext == \E c \in Alphabet : TypeKey(c) \/ TypeSet(c)

QuerySpec == QueryInit /\ [][QueryNext]_queryVars

-----------------------------------------------------------------------------
(* Properties *)

Has(v, c) == At(v, c) # {}

\* The handler reads the values that the client means, whatever characters
\* are in them and whether or not those that need not be are encoded; except
\* an '&', which is decoded before the query is split.  It cuts the first value,
\* and the second is still read as meant: the rest of the first makes pairs that
\* cannot replace a pair to the right of them (request_handler.cpp:60-108,
\* 124-141).
RoundTrip ==
    ~Has(set, amp) => /\ Param(Query(Uri), S) = set
                      /\ ~Has(key, amp) => Param(Query(Uri), K) = key
=============================================================================
