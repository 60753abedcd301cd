---------------------- MODULE RequestHandlerProofs ----------------------
(* Theorems about RequestHandler, for any paths, kinds of bin and records, and
   about Query, for any values a client writes. *)
EXTENDS RequestHandler, Query, SequenceTheorems, WellFoundedInduction, TLAPS

Working == phase \in {"handle", "convert", "attach"}

\* Who owns what in each phase (request_handler.cpp:151-197,
\* as_object.hpp:269-289).
Ownership ==
    /\ refs = [root |-> IF Working \/ phase = "finish" THEN 1 ELSE 0,
               bins |-> IF Working \/ (phase = "finish" /\ "results" \in fields)
                        THEN 1 ELSE 0]
    /\ recRefs = IF phase = "convert" THEN 1 ELSE 0

\* What is known of the read and of the reply in each phase
\* (request_handler.cpp:153-177).
Progress ==
    /\ phase \in {"idle", "handle", "convert", "attach", "finish", "replied"}
    /\ Working => api = "/get" /\ "results" \notin fields
    /\ phase = "handle" => bins = {}
    /\ phase = "convert" => status = "ok"
    /\ bins # {} => status = "ok"
    /\ phase \in {"finish", "replied"} =>
          ("results" \in fields <=> api = "/get" /\ status = "ok" /\ bins # {})

\* The bins converted so far (as_object.hpp:173-249).
Converted ==
    /\ next \in Nat \ {0} /\ DOMAIN rec = 1 .. Len(rec) /\ Len(rec) \in Nat
    /\ phase = "convert" =>
          /\ {i \in 1 .. Len(rec) : i < next /\ rec[i] \notin MayDrop} \subseteq bins
          /\ bins \subseteq {i \in 1 .. Len(rec) : i < next /\ rec[i] \in MayDeliver}

\* The records of the store are sequences.
Stored == \A r \in store : DOMAIN r = 1 .. Len(r) /\ Len(r) \in Nat

HandlerInv == Ownership /\ Progress /\ Converted /\ Stored

USE MaxBinsAssumption

LEMMA StoresHoldSequences ==
    ASSUME NEW s \in Stores, NEW r \in s
    PROVE  DOMAIN r = 1 .. Len(r) /\ Len(r) \in Nat
<1>1. r \in Records BY DEF Stores
<1>2. PICK n \in 0 .. MaxBins : r \in [1 .. n -> Bins] BY <1>1 DEF Records
<1>3. r \in Seq(Bins) /\ Len(r) = n BY <1>2
<1> QED BY <1>2, <1>3

LEMMA HandlerInit == Init => HandlerInv
<1> SUFFICES ASSUME Init PROVE HandlerInv
    OBVIOUS
<1>1. Ownership BY DEF Init, Ownership, Working
<1>2. Progress BY DEF Init, Progress, Working
<1>3. Converted
    <2>1. rec = << >> /\ next = 1 /\ phase # "convert" BY DEF Init
    <2>2. DOMAIN rec = 1 .. Len(rec) /\ Len(rec) \in Nat BY <2>1
    <2> QED BY <2>1, <2>2 DEF Converted
<1>4. Stored BY StoresHoldSequences DEF Init, Stored
<1> QED BY <1>1, <1>2, <1>3, <1>4 DEF HandlerInv

LEMMA HandlerNext == HandlerInv /\ [Next]_vars => HandlerInv'
<1> SUFFICES ASSUME HandlerInv, [Next]_vars PROVE HandlerInv'
    OBVIOUS
<1> USE DEF HandlerInv
<1>1. CASE Write
    <2>1. Stored' BY <1>1, StoresHoldSequences DEF Write, Stored
    <2> QED BY <1>1, <2>1
        DEF Write, local, Ownership, Progress, Converted, Working
<1>2. ASSUME NEW path \in Apis, Start(path) PROVE HandlerInv'
    BY <1>2 DEF Start, Ownership, Progress, Converted, Stored, Working
<1>3. CASE NoHandle
    BY <1>3 DEF NoHandle, DropBins, Ownership, Progress, Converted, Stored, Working
<1>4. CASE DeadHandle
    BY <1>4 DEF DeadHandle, Ownership, Progress, Converted, Stored, Working
<1>5. CASE KeyFailed
    BY <1>5 DEF KeyFailed, Ownership, Progress, Converted, Stored, Working
<1>6. CASE KeyFound
    <2>1. Ownership' /\ Progress' /\ Stored'
        BY <1>6 DEF KeyFound, Ownership, Progress, Stored, Working
    <2>2. Converted' BY <1>6 DEF KeyFound, Progress, Converted, Stored
    <2> QED BY <2>1, <2>2
<1>7. CASE ConvertBin
    <2>1. Ownership' /\ Progress' /\ Stored'
        BY <1>7 DEF ConvertBin, Ownership, Progress, Stored, Working
    <2>2. Converted'
        <3>1. CASE rec[next] \in MayDeliver /\ bins' = bins \cup {next}
                   /\ next' = next + 1
            <4>1. UNCHANGED <<rec, phase>> /\ phase = "convert" /\ next <= Len(rec)
                BY <1>7 DEF ConvertBin
            <4>2. next \in Nat \ {0} /\ Len(rec) \in Nat /\ next + 1 \in Nat
                BY DEF Converted
            <4>3. \A i \in 1 .. Len(rec) : i < next + 1 <=> i < next \/ i = next
                BY <4>2
            <4>4. next \in 1 .. Len(rec)
                BY <4>1, <4>2
            <4> QED BY <3>1, <4>1, <4>2, <4>3, <4>4 DEF Converted
        <3>2. CASE rec[next] \in MayDrop /\ next' = Resume(next) /\ UNCHANGED bins
            BY <1>7, <3>2 DEF ConvertBin, Converted, Resume
        <3> QED BY <1>7, <3>1, <3>2 DEF ConvertBin
    <2> QED BY <2>1, <2>2
<1>8. CASE ConvertDone
    BY <1>8 DEF ConvertDone, Ownership, Progress, Converted, Stored, Working
<1>9. CASE Attach
    BY <1>9 DEF Attach, SomeBins, DropBins, Ownership, Progress, Converted, Stored,
        Working
<1>10. CASE Finish
    BY <1>10 DEF Finish, HeldByReply, Ownership, Progress, Converted, Stored, Working
<1>11. CASE UNCHANGED vars
    BY <1>11 DEF vars, local, Ownership, Progress, Converted, Stored, Working
<1> QED
    BY <1>1, <1>2, <1>3, <1>4, <1>5, <1>6, <1>7, <1>8, <1>9, <1>10, <1>11
    DEF Next, Handle

LEMMA HandlerInvariant == Spec => []HandlerInv
BY HandlerInit, HandlerNext, PTL DEF Spec

\* The JSON objects and the record of a request are freed exactly once, and not
\* before they have been used, on every path through handle_request and GET
\* (request_handler.cpp:165-176, 197, as_object.hpp:280-289).
THEOREM ObjectsAreFreed == Spec => []NothingLeaks
<1>1. HandlerInv => NothingLeaks
    BY DEF HandlerInv, Ownership, Working, NothingLeaks
<1> QED BY <1>1, HandlerInvariant, PTL

\* Whatever the bins of a record, the conversion leaves none out that has a JSON
\* form and adds none that has not (as_object.hpp:173-257).
THEOREM ConversionIsComplete == Spec => []BinsComplete
<1>1. HandlerInv => BinsComplete
    BY DEF HandlerInv, Converted, BinsComplete
<1> QED BY <1>1, HandlerInvariant, PTL

\* A reply has results exactly when the record was read and has bins to show
\* (request_handler.cpp:167-176).
THEOREM ResultsAreOfTheRead == Spec => []ResultsWhenFound
<1>1. HandlerInv => ResultsWhenFound
    BY DEF HandlerInv, Progress, ResultsWhenFound
<1> QED BY <1>1, HandlerInvariant, PTL

-----------------------------------------------------------------------------
(* Types *)

\* What HandlerInv does not say of the types of the variables.
Types ==
    /\ store \in Stores /\ rec \in Records
    /\ api \in Apis \cup {""} /\ status \in {"unset", "dead", "ok", "failed"}
    /\ next <= Len(rec) + 1
    /\ bins \subseteq 1 .. Len(rec)
    /\ fields \subseteq {"proxy_code", "proxy_status", "results", "took"}

LEMMA StoresAreRecords ==
    ASSUME NEW s \in Stores, NEW r \in s
    PROVE  r \in Records
BY DEF Stores

LEMMA RecordsAreShort ==
    ASSUME NEW r \in Records
    PROVE  Len(r) \in 0 .. MaxBins
<1>1. PICK n \in 0 .. MaxBins : r \in [1 .. n -> Bins] BY DEF Records
<1> QED BY <1>1

LEMMA TypesInit == Init => Types
<1> SUFFICES ASSUME Init PROVE Types
    OBVIOUS
<1>1. << >> \in Records
    <2>1. << >> \in [1 .. 0 -> Bins] OBVIOUS
    <2> QED BY <2>1 DEF Records
<1>2. Len(<< >>) = 0 OBVIOUS
<1>3. next = 1 /\ Len(rec) = 0 BY <1>2 DEF Init
<1>4. next <= Len(rec) + 1 BY ONLY <1>3
<1> QED BY <1>1, <1>4 DEF Init, Types

LEMMA TypesNext == HandlerInv /\ Types /\ [Next]_vars => Types'
<1> SUFFICES ASSUME HandlerInv, Types, [Next]_vars PROVE Types'
    OBVIOUS
<1> USE DEF Types
<1>1. CASE Write BY <1>1 DEF Write, local
<1>2. ASSUME NEW path \in Apis, Start(path) PROVE Types'
    BY <1>2 DEF Start
<1>3. CASE NoHandle BY <1>3 DEF NoHandle
<1>4. CASE DeadHandle BY <1>4 DEF DeadHandle
<1>5. CASE KeyFailed BY <1>5 DEF KeyFailed
<1>6. CASE KeyFound
    <2>1. rec' \in Records
        BY <1>6, StoresAreRecords DEF KeyFound
    <2>2. Len(rec') \in 0 .. MaxBins
        BY <2>1, RecordsAreShort
    <2>3. next' = 1 BY <1>6 DEF KeyFound
    <2>4. next' <= Len(rec') + 1
        BY ONLY <2>2, <2>3, MaxBinsAssumption
    <2>5. bins' = {} BY <1>6 DEF KeyFound, HandlerInv, Progress
    <2> QED BY <1>6, <2>1, <2>4, <2>5 DEF KeyFound
<1>7. CASE ConvertBin
    <2>1. /\ next \in Nat \ {0} /\ Len(rec) \in Nat /\ next <= Len(rec)
          /\ rec' = rec
        BY <1>7 DEF ConvertBin, HandlerInv, Converted
    <2>2. next \in 1 .. Len(rec) /\ next + 1 <= Len(rec) + 1
        BY ONLY <2>1
    <2>3. (bins' = bins \/ bins' = bins \cup {next}) /\ next' = next + 1
        BY <1>7 DEF ConvertBin, Resume
    <2>4. bins' \subseteq 1 .. Len(rec') /\ next' <= Len(rec') + 1
        BY <2>1, <2>2, <2>3
    <2> QED BY <1>7, <2>1, <2>4 DEF ConvertBin
<1>8. CASE ConvertDone BY <1>8 DEF ConvertDone
<1>9. CASE Attach BY <1>9 DEF Attach
<1>10. CASE Finish BY <1>10 DEF Finish
<1>11. CASE UNCHANGED vars BY <1>11 DEF vars, local
<1> QED
    BY <1>1, <1>2, <1>3, <1>4, <1>5, <1>6, <1>7, <1>8, <1>9, <1>10, <1>11
    DEF Next, Handle

\* Every variable has its type: in particular no JSON object is dropped, and no
\* record destroyed, that the request does not hold (request_handler.cpp:151-197,
\* as_object.hpp:289).
THEOREM HandlerTypes == Spec => []TypeOK
<1>1. HandlerInv /\ Types => TypeOK
    <2> SUFFICES ASSUME HandlerInv, Types PROVE TypeOK
        OBVIOUS
    <2>1. Len(rec) \in 0 .. MaxBins BY RecordsAreShort DEF Types
    <2>2. next \in Nat \ {0} /\ next <= Len(rec) + 1
        BY DEF Types, HandlerInv, Converted
    <2>3. next \in 1 .. MaxBins + 1
        BY ONLY <2>1, <2>2, MaxBinsAssumption
    <2>4. 1 .. Len(rec) \subseteq 1 .. MaxBins
        BY ONLY <2>1, MaxBinsAssumption
    <2>5. refs \in [root : 0 .. 1, bins : 0 .. 1] /\ recRefs \in 0 .. 1
        BY DEF HandlerInv, Ownership
    <2> QED BY <2>3, <2>4, <2>5 DEF Types, HandlerInv, Progress, TypeOK
<1>2. Spec => []Types
    BY TypesInit, TypesNext, HandlerInvariant, PTL DEF Spec
<1> QED BY <1>1, <1>2, HandlerInvariant, PTL

-----------------------------------------------------------------------------
(* Decoding *)

Good(w) == [ok |-> TRUE, out |-> w]

\* What url_decode makes of the text from place i on, by what F is of the rest.
Decoded(in, F, i) ==
    IF i > Len(in) THEN Good(<< >>)
    ELSE IF in[i] # percent THEN Prepend(Plain(in[i]), F[i + 1])
    ELSE IF i + 2 > Len(in) \/ Extract(in[i + 1], in[i + 2]) = 256
    THEN Failed
    ELSE Prepend(Extract(in[i + 1], in[i + 2]), F[i + 3])

Decodes(in, F) == \A i \in 1 .. Len(in) + 1 : F[i] = Decoded(in, F, i)

LEMMA NatOrder == IsWellFoundedOn({x \in Nat \X Nat : x[1] < x[2]}, Nat)
BY NatLessThanWellFounded DEF OpToRel

\* Induction over the natural numbers, for a set of them.
LEMMA SetInduction ==
    ASSUME NEW P, 0 \in P, \A n \in Nat : n \in P => n + 1 \in P
    PROVE  Nat \subseteq P
<1> DEFINE T == Nat \ P
           R == {x \in Nat \X Nat : x[1] < x[2]}
<1> SUFFICES ASSUME T # {} PROVE FALSE
  OBVIOUS
<1>1. IsWellFoundedOn(R, Nat) /\ T \subseteq Nat
  BY NatOrder
<1> HIDE DEF T, R
<1>2. PICK x \in T : \A y \in T : ~(<<y, x>> \in R)
  BY <1>1, WFMin
<1>3. x \in Nat /\ x \notin P /\ x # 0
  BY <1>2 DEF T
<1>4. x - 1 \in Nat /\ x - 1 + 1 = x
  BY <1>3
<1>5. x - 1 \notin P
  BY <1>3, <1>4
<1>6. x - 1 \in T /\ <<x - 1, x>> \in R
  BY <1>3, <1>4, <1>5 DEF T, R
<1> QED
  BY <1>2, <1>6

\* What is decoded at a place depends on the places behind it.
LEMMA DecodedLooksAhead ==
    ASSUME NEW in, NEW l \in Nat, l = Len(in), NEW F, NEW G, NEW i \in 1 .. l + 1,
           \A j \in 1 .. l + 1 : i < j => F[j] = G[j]
    PROVE  Decoded(in, F, i) = Decoded(in, G, i)
<1>1. CASE i > l
  BY ONLY <1>1, l = Len(in), Zenon DEF Decoded
<1>2. CASE ~(i > l)
  <2>1. F[i + 1] = G[i + 1]
    <3>1. i + 1 \in 1 .. l + 1 /\ i < i + 1  BY <1>2
    <3> QED BY <3>1
  <2>2. ~(i + 2 > l) => F[i + 3] = G[i + 3]
    <3>1. ~(i + 2 > l) => i + 3 \in 1 .. l + 1 /\ i < i + 3  OBVIOUS
    <3> QED BY <3>1
  <2> QED BY ONLY <2>1, <2>2, l = Len(in), Zenon DEF Decoded
<1> QED BY <1>1, <1>2

\* There is a function that decodes every rest of a text.
LEMMA DecoderExists ==
    ASSUME NEW in, NEW l \in Nat, l = Len(in)
    PROVE  \E F : F = [i \in 1 .. l + 1 |-> Decoded(in, F, i)]
<1> DEFINE D == 1 .. l + 1
           Upto(F, k) == /\ F = [i \in D |-> F[i]]
                         /\ \A i \in D : i > l + 1 - k => F[i] = Decoded(in, F, i)
           P == {k \in Nat : k <= l + 1 => \E F : Upto(F, k)}
<1>1. 0 \in P
  <2>1. PICK F : F = [i \in D |-> 0]  OBVIOUS
  <2>2. F = [i \in D |-> F[i]]  BY <2>1
  <2>3. ~ \E i \in D : i > l + 1 - 0  OBVIOUS
  <2>4. Upto(F, 0)  BY <2>2, <2>3
  <2> QED BY <2>4
<1>2. ASSUME NEW k \in Nat, k \in P PROVE k + 1 \in P
  <2> HIDE DEF Upto
  <2> SUFFICES ASSUME k + 1 <= l + 1 PROVE \E F : Upto(F, k + 1)
    OBVIOUS
  <2>1. PICK F : Upto(F, k)
    <3>1. k <= l + 1  OBVIOUS
    <3> QED BY <1>2, <3>1
  <2>2. PICK j \in D : j = l + 1 - k  OBVIOUS
  <2> DEFINE G == [i \in D |-> IF i = j THEN Decoded(in, F, j) ELSE F[i]]
  <2>3. /\ \A i \in D : i # j => G[i] = F[i]
        /\ G[j] = Decoded(in, F, j) /\ G = [i \in D |-> G[i]]
    <3>1. G = [i \in D |-> G[i]]  BY Zenon
    <3> QED BY <3>1
  <2> HIDE DEF G
  <2>4. ASSUME NEW i \in D, i > l + 1 - (k + 1) PROVE G[i] = Decoded(in, G, i)
    <3>1. i = j \/ i > j  BY <2>2, <2>4
    <3>2. Decoded(in, F, i) = Decoded(in, G, i)
      <4>1. \A x \in 1 .. l + 1 : i < x => F[x] = G[x]
        <5>1. \A x \in 1 .. l + 1 : i < x => x # j  BY <3>1
        <5> QED BY <2>3, <5>1
      <4> QED BY ONLY <4>1, DecodedLooksAhead, l \in Nat, l = Len(in), i \in 1 .. l + 1
    <3>3. CASE i = j  BY <2>3, <3>2, <3>3
    <3>4. CASE i > j
      <4>1. F[i] = Decoded(in, F, i)  BY <2>1, <2>2, <3>4 DEF Upto
      <4>2. G[i] = F[i]  BY <2>3, <3>4
      <4> QED BY <3>2, <4>1, <4>2
    <3> QED BY <3>1, <3>3, <3>4
  <2>5. Upto(G, k + 1)  BY <2>3, <2>4 DEF Upto
  <2> QED BY <2>5
<1> HIDE DEF P
<1>3. Nat \subseteq P  BY <1>1, <1>2, SetInduction
<1>4. l + 1 \in P  BY <1>3
<1>5. PICK F : Upto(F, l + 1)  BY <1>4 DEF P
<1>6. \A i \in D : F[i] = Decoded(in, F, i)
  <2>1. \A i \in D : i > l + 1 - (l + 1)  OBVIOUS
  <2> QED BY <1>5, <2>1
<1>7. F = [i \in D |-> Decoded(in, F, i)]  BY <1>5, <1>6
<1> QED BY <1>7

LEMMA url_decodeIs ==
    ASSUME NEW in, Len(in) \in Nat
    PROVE  \E F : Decodes(in, F) /\ url_decode(in) = F[1]
<1> DEFINE Is(F) == F = [i \in 1 .. Len(in) + 1 |->
                            IF i > Len(in) THEN [ok |-> TRUE, out |-> << >>]
                            ELSE IF in[i] # percent THEN Prepend(Plain(in[i]), F[i + 1])
                            ELSE IF i + 2 > Len(in) \/ Extract(in[i + 1], in[i + 2]) = 256
                            THEN Failed
                            ELSE Prepend(Extract(in[i + 1], in[i + 2]), F[i + 3])]
<1>1. url_decode(in) = (CHOOSE F : Is(F))[1]  BY Zenon DEF url_decode
<1>2. PICK E : E = [i \in 1 .. Len(in) + 1 |-> Decoded(in, E, i)]  BY DecoderExists
<1>3. Is(E)  BY ONLY <1>2, Zenon DEF Decoded, Good
<1> HIDE DEF Is
<1>4. PICK F : F = (CHOOSE G : Is(G)) /\ Is(F)  BY ONLY <1>3
<1> USE DEF Is
<1>5. F = [i \in 1 .. Len(in) + 1 |-> Decoded(in, F, i)]
  BY ONLY <1>4, Zenon DEF Decoded, Good
<1>6. Decodes(in, F)  BY ONLY <1>5, Zenon DEF Decodes
<1> QED BY <1>1, <1>4, <1>6

-----------------------------------------------------------------------------
(* What a client's text means *)

LEMMA Appended ==
    ASSUME NEW s \in Seq(Nat), NEW t \in Seq(Nat)
    PROVE  /\ s \o t \in Seq(Nat) /\ Len(s \o t) = Len(s) + Len(t)
           /\ \A i \in 1 .. Len(s) : (s \o t)[i] = s[i]
           /\ \A j \in 1 .. Len(t) : (s \o t)[Len(s) + j] = t[j]
BY ConcatProperties

LEMMA Joined ==
    ASSUME NEW s \in Seq(Nat), NEW t \in Seq(Nat), NEW l \in Nat, NEW m \in Nat,
           l = Len(s), m = Len(t)
    PROVE  /\ s \o t \in Seq(Nat) /\ Len(s \o t) = l + m
           /\ \A k \in 1 .. l : (s \o t)[k] = s[k]
           /\ \A k \in 1 .. m : (s \o t)[l + k] = t[k]
BY Appended

LEMMA SeqsAssociate ==
    ASSUME NEW T, NEW s \in Seq(T), NEW t \in Seq(T), NEW u \in Seq(T)
    PROVE  s \o (t \o u) = s \o t \o u
BY ConcatAssociative, SMT

Associate(s, t, u) == s \o (t \o u) = (s \o t) \o u

LEMMA JoinsAssociate ==
    ASSUME NEW s, NEW t, NEW u, s \in Seq(Nat), t \in Seq(Nat), u \in Seq(Nat)
    PROVE  Associate(s, t, u)
BY SeqsAssociate, SMT DEF Associate

\* j is s with t behind it.
Joins(j, s, t) ==
    /\ j \in Seq(Nat) /\ Len(j) = Len(s) + Len(t)
    /\ \A i \in 1 .. Len(s) : j[i] = s[i]
    /\ \A i \in 1 .. Len(t) : j[Len(s) + i] = t[i]

LEMMA ConcatJoins ==
    ASSUME NEW s \in Seq(Nat), NEW t \in Seq(Nat) PROVE Joins(s \o t, s, t)
BY Appended DEF Joins

LEMMA SingleIs ==
    ASSUME NEW c \in Nat PROVE <<c>> \in Seq(Nat) /\ Len(<<c>>) = 1 /\ <<c>>[1] = c
OBVIOUS

\* j is s with the character c behind it.
Appends(j, s, c) ==
    /\ j \in Seq(Nat) /\ Len(j) = Len(s) + 1
    /\ \A i \in 1 .. Len(s) : j[i] = s[i]
    /\ j[Len(s) + 1] = c

LEMMA OneMore ==
    ASSUME NEW s \in Seq(Nat), NEW c \in Nat
    PROVE  Appends(s \o <<c>>, s, c)
<1>1. <<c>> \in Seq(Nat) /\ Len(<<c>>) = 1 /\ <<c>>[1] = c  BY SingleIs
<1>2. Joins(s \o <<c>>, s, <<c>>)  BY <1>1, ConcatJoins
<1>3. 1 \in 1 .. 1  OBVIOUS
<1> QED BY ONLY <1>1, <1>2, <1>3 DEF Joins, Appends

LEMMA TwoIs ==
    ASSUME NEW a \in Nat, NEW b \in Nat
    PROVE  <<a>> \o <<b>> = <<a, b>>
<1>1. <<a>> \in Seq(Nat) /\ Len(<<a>>) = 1 /\ <<a>>[1] = a  BY SingleIs
<1>2. PICK s : s = <<a>> \o <<b>>  OBVIOUS
<1>3. s \in Seq(Nat) /\ Len(s) = 1 + 1 /\ s[1] = a /\ s[1 + 1] = b
  <2>1. 1 \in 1 .. 1  OBVIOUS
  <2>2. Appends(s, <<a>>, b)  BY ONLY <1>1, <1>2, OneMore, b \in Nat
  <2> QED BY ONLY <1>1, <2>1, <2>2 DEF Appends
<1>4. s = <<s[1], s[2]>>  BY ONLY <1>3
<1> QED BY ONLY <1>2, <1>3, <1>4

\* t is a part of in, from place p on.
Occurs(in, p, t) ==
    /\ p + Len(t) <= Len(in) + 1
    /\ \A k \in 1 .. Len(t) : in[p + k - 1] = t[k]

\* In whatever text t is, it is decoded to v.
Means(t, v) ==
    \A in \in Seq(Nat), p \in Nat \ {0}, w \in Seq(Nat) : \A F :
        Decodes(in, F) /\ Occurs(in, p, t) /\ F[p + Len(t)] = Good(w)
            => F[p] = Good(v \o w)

Meanings == {x \in Seq(Nat) \X Seq(Nat) : Means(x[1], x[2])}

LEMMA MeaningIs ==
    ASSUME NEW t, NEW v
    PROVE  <<t, v>> \in Meanings <=> t \in Seq(Nat) /\ v \in Seq(Nat) /\ Means(t, v)
BY DEF Meanings

LEMMA PrependGood ==
    ASSUME NEW c \in Nat, NEW w \in Seq(Nat)
    PROVE  Prepend(c, Good(w)) = Good(<<c>> \o w)
BY DEF Prepend, Good

\* One text behind the other.
LEMMA MeaningsJoin ==
    ASSUME NEW t, NEW u, NEW v, NEW w, <<t, v>> \in Meanings, <<u, w>> \in Meanings
    PROVE  <<t \o u, v \o w>> \in Meanings
<1>1. /\ t \in Seq(Nat) /\ v \in Seq(Nat) /\ u \in Seq(Nat) /\ w \in Seq(Nat)
      /\ Means(t, v) /\ Means(u, w)
  BY MeaningIs
<1>2. PICK l \in Nat, m \in Nat : l = Len(t) /\ m = Len(u)  BY <1>1, LenProperties
<1>3. /\ t \o u \in Seq(Nat) /\ Len(t \o u) = l + m
      /\ \A k \in 1 .. l : (t \o u)[k] = t[k]
      /\ \A k \in 1 .. m : (t \o u)[l + k] = u[k]
  BY ONLY <1>1, <1>2, Joined
<1>4. v \o w \in Seq(Nat)  BY <1>1, Appended
<1>5. ASSUME NEW in \in Seq(Nat), NEW p \in Nat \ {0}, NEW x \in Seq(Nat), NEW F,
             Decodes(in, F), Occurs(in, p, t \o u), F[p + Len(t \o u)] = Good(x)
      PROVE  F[p] = Good((v \o w) \o x)
  <2>1. PICK n \in Nat : n = Len(in)  BY LenProperties
  <2>2. p + (l + m) <= n + 1 /\ \A k \in 1 .. l + m : in[p + k - 1] = (t \o u)[k]
    BY ONLY <1>3, <1>5, <2>1 DEF Occurs
  <2>3. PICK q \in Nat \ {0} : q = p + l  BY p \in Nat \ {0}, l \in Nat
  <2>4. Occurs(in, p, t)
    <3>1. p + l <= n + 1  BY ONLY <2>2, p \in Nat \ {0}, l \in Nat, m \in Nat, n \in Nat
    <3>2. ASSUME NEW k \in 1 .. l PROVE in[p + k - 1] = t[k]
      <4>1. k \in 1 .. l + m  BY ONLY k \in 1 .. l, l \in Nat, m \in Nat
      <4> QED BY ONLY <1>3, <2>2, <4>1, k \in 1 .. l
    <3> QED BY ONLY <1>2, <2>1, <3>1, <3>2 DEF Occurs
  <2>5. Occurs(in, q, u)
    <3>1. q + m <= n + 1
      BY ONLY <2>2, <2>3, p \in Nat \ {0}, l \in Nat, m \in Nat, n \in Nat
    <3>2. ASSUME NEW k \in 1 .. m PROVE in[q + k - 1] = u[k]
      <4>1. l + k \in 1 .. l + m /\ q + k - 1 = p + (l + k) - 1
        BY ONLY <2>3, k \in 1 .. m, l \in Nat, m \in Nat, p \in Nat \ {0}
      <4>2. in[p + (l + k) - 1] = (t \o u)[l + k]  BY ONLY <2>2, <4>1
      <4> QED BY ONLY <1>3, <4>1, <4>2, k \in 1 .. m
    <3> QED BY ONLY <1>2, <2>1, <3>1, <3>2 DEF Occurs
  <2>6. F[q + Len(u)] = Good(x)
    <3>1. q + m = p + (l + m)  BY ONLY <2>3, p \in Nat \ {0}, l \in Nat, m \in Nat
    <3> QED BY ONLY <1>2, <1>3, <1>5, <3>1
  <2>7. F[q] = Good(w \o x)
    BY ONLY <1>1, <1>5, <2>5, <2>6, in \in Seq(Nat), q \in Nat \ {0}, x \in Seq(Nat)
       DEF Means
  <2>8. PICK y \in Seq(Nat) : y = w \o x  BY <1>1, Appended
  <2>9. F[p + Len(t)] = Good(y)  BY ONLY <1>2, <2>3, <2>7, <2>8
  <2>12. F[p] = Good(v \o y)
    BY ONLY <1>1, <1>5, <2>4, <2>9, in \in Seq(Nat), p \in Nat \ {0}, y \in Seq(Nat)
       DEF Means
  <2>10. F[p] = Good(v \o (w \o x))  BY ONLY <2>8, <2>12
  <2>11. v \o (w \o x) = (v \o w) \o x
    <3>1. v \in Seq(Nat) /\ w \in Seq(Nat)  BY ONLY <1>1
    <3>2. Associate(v, w, x)  BY ONLY <3>1, x \in Seq(Nat), JoinsAssociate
    <3> QED BY ONLY <3>2 DEF Associate
  <2> QED BY ONLY <2>10, <2>11
<1>6. Means(t \o u, v \o w)  BY ONLY <1>5 DEF Means
<1> QED BY <1>3, <1>4, <1>6, MeaningIs

\* A character that stands for itself.
LEMMA PlainMeans ==
    ASSUME NEW c \in Nat, c # percent, c # plus
    PROVE  <<<<c>>, <<c>>>> \in Meanings
<1>1. <<c>> \in Seq(Nat) /\ Len(<<c>>) = 1 /\ <<c>>[1] = c  OBVIOUS
<1>2. ASSUME NEW in \in Seq(Nat), NEW p \in Nat \ {0}, NEW x \in Seq(Nat), NEW F,
             Decodes(in, F), Occurs(in, p, <<c>>), F[p + Len(<<c>>)] = Good(x)
      PROVE  F[p] = Good(<<c>> \o x)
  <2>1. PICK n \in Nat : n = Len(in)  BY LenProperties
  <2>2. p + 1 <= n + 1 /\ in[p] = c
    <3>1. p + 1 <= n + 1 /\ \A k \in 1 .. 1 : in[p + k - 1] = <<c>>[k]
      BY ONLY <1>1, <1>2, <2>1 DEF Occurs
    <3>2. 1 \in 1 .. 1 /\ p + 1 - 1 = p  BY ONLY p \in Nat \ {0}
    <3> QED BY ONLY <1>1, <3>1, <3>2
  <2>3. p \in 1 .. n + 1 /\ ~(p > n)  BY ONLY <2>2, p \in Nat \ {0}, n \in Nat
  <2>4. F[p] = Decoded(in, F, p)  BY ONLY <1>2, <2>1, <2>3 DEF Decodes
  <2>5. F[p] = Prepend(Plain(c), F[p + 1])
    BY ONLY <2>1, <2>2, <2>3, <2>4, c # percent, Zenon DEF Decoded
  <2>6. Plain(c) = c  BY ONLY c # plus, Zenon DEF Plain
  <2>7. F[p + 1] = Good(x)  BY ONLY <1>1, <1>2
  <2> QED BY ONLY <2>5, <2>6, <2>7, PrependGood, c \in Nat, x \in Seq(Nat)
<1>3. Means(<<c>>, <<c>>)  BY ONLY <1>2 DEF Means
<1> QED BY <1>1, <1>3, MeaningIs

LEMMA DigitsAreHex ==
    ASSUME NEW n \in 0 .. 15
    PROVE  HexDigit(n) \in Nat /\ HexValue(HexDigit(n)) = n /\ IsHex(HexDigit(n))
BY DEF HexDigit, HexValue, IsHex

\* A character that is encoded.
LEMMA EncodedMeans ==
    ASSUME NEW c \in 0 .. 255
    PROVE  <<Encoded(c), <<c>>>> \in Meanings
<1>1. PICK a \in 0 .. 15, b \in 0 .. 15 : a = c \div 16 /\ b = c % 16 /\ 16 * a + b = c
  <2>1. c \div 16 \in 0 .. 15 /\ c % 16 \in 0 .. 15 /\ 16 * (c \div 16) + (c % 16) = c
    OBVIOUS
  <2> QED BY ONLY <2>1
<1>2. PICK g \in Nat, h \in Nat :
        /\ g = HexDigit(a) /\ h = HexDigit(b) /\ IsHex(g) /\ IsHex(h)
        /\ HexValue(g) = a /\ HexValue(h) = b
  BY ONLY DigitsAreHex, a \in 0 .. 15, b \in 0 .. 15
<1>3. Extract(g, h) = c
  <2>1. Extract(g, h) = 16 * HexValue(g) + HexValue(h)
    <3>1. IsHex(g) /\ IsHex(h)  BY ONLY <1>2
    <3> QED BY ONLY <3>1 DEF Extract, IsHex, HexValue, IsSpace, plus, minus, space
  <2> QED BY ONLY <1>1, <1>2, <2>1
<1>4. Encoded(c) = <<percent, g, h>>  BY ONLY <1>1, <1>2, Zenon DEF Encoded
<1>5. PICK t : t = <<percent, g, h>>  OBVIOUS
<1>6. /\ t \in Seq(Nat) /\ Len(t) = 3 /\ t[1] = percent /\ t[2] = g /\ t[3] = h
  BY ONLY <1>5, g \in Nat, h \in Nat DEF percent
<1>7. <<c>> \in Seq(Nat) /\ c \in Nat /\ c # 256  OBVIOUS
<1>8. ASSUME NEW in \in Seq(Nat), NEW p \in Nat \ {0}, NEW x \in Seq(Nat), NEW F,
             Decodes(in, F), Occurs(in, p, t), F[p + Len(t)] = Good(x)
      PROVE  F[p] = Good(<<c>> \o x)
  <2>1. PICK n \in Nat : n = Len(in)  BY LenProperties
  <2>2. p + 3 <= n + 1 /\ in[p] = percent /\ in[p + 1] = g /\ in[p + 2] = h
    <3>1. p + 3 <= n + 1 /\ \A k \in 1 .. 3 : in[p + k - 1] = t[k]
      BY ONLY <1>6, <1>8, <2>1 DEF Occurs
    <3>2. /\ 1 \in 1 .. 3 /\ 2 \in 1 .. 3 /\ 3 \in 1 .. 3
          /\ p + 1 - 1 = p /\ p + 2 - 1 = p + 1 /\ p + 3 - 1 = p + 2
      BY ONLY p \in Nat \ {0}
    <3> QED BY ONLY <1>6, <3>1, <3>2
  <2>3. p \in 1 .. n + 1 /\ ~(p > n) /\ ~(p + 2 > n)
    BY ONLY <2>2, p \in Nat \ {0}, n \in Nat
  <2>4. F[p] = Decoded(in, F, p)  BY ONLY <1>8, <2>1, <2>3 DEF Decodes
  <2>5. Extract(in[p + 1], in[p + 2]) = c  BY ONLY <1>3, <2>2, Zenon
  <2>6. F[p] = Prepend(c, F[p + 3])
    BY ONLY <1>7, <2>1, <2>2, <2>3, <2>4, <2>5, Zenon DEF Decoded
  <2>7. F[p + 3] = Good(x)  BY ONLY <1>6, <1>8
  <2> QED BY ONLY <1>7, <2>6, <2>7, PrependGood, x \in Seq(Nat)
<1>9. Means(t, <<c>>)  BY ONLY <1>8 DEF Means
<1> QED BY <1>4, <1>5, <1>6, <1>7, <1>9, MeaningIs

LEMMA TextsMean ==
    ASSUME NEW c \in 0 .. 255, NEW t \in Texts(c)
    PROVE  <<t, <<c>>>> \in Meanings
<1>1. CASE t = Encoded(c)  BY <1>1, EncodedMeans
<1>2. CASE t # Encoded(c)
  <2>1. t = <<c>> /\ c \notin Reserved  BY <1>2 DEF Texts
  <2>2. c # percent /\ c # plus  BY <2>1 DEF Reserved
  <2>3. c \in Nat  OBVIOUS
  <2> QED BY <2>1, <2>2, <2>3, PlainMeans
<1> QED BY <1>1, <1>2

-----------------------------------------------------------------------------
(* The client's URI *)

\* What the client has written means its two values.
QueryInv == <<keyText, key>> \in Meanings /\ <<setText, set>> \in Meanings

LEMMA EmptyMeans == <<<< >>, << >>>> \in Meanings
<1>1. << >> \in Seq(Nat) /\ Len(<< >>) = 0  BY EmptySeq
<1>2. ASSUME NEW in \in Seq(Nat), NEW p \in Nat \ {0}, NEW x \in Seq(Nat), NEW F,
             F[p + Len(<< >>)] = Good(x)
      PROVE  F[p] = Good(<< >> \o x)
  <2>1. p + Len(<< >>) = p  BY ONLY <1>1, p \in Nat \ {0}
  <2>2. << >> \o x = x  BY ConcatEmptySeq
  <2> QED BY ONLY <1>2, <2>1, <2>2
<1>3. Means(<< >>, << >>)  BY ONLY <1>2 DEF Means
<1> QED BY <1>1, <1>3, MeaningIs

LEMMA QueryNextKeeps ==
    ASSUME QueryInv, [QueryNext]_queryVars PROVE QueryInv'
<1>1. ASSUME NEW c \in Alphabet, NEW v \in Seq(Nat), NEW t, <<t, v>> \in Meanings,
             NEW u \in Texts(c)
      PROVE  <<t \o u, Append(v, c)>> \in Meanings
  <2>1. c \in 0 .. 255 /\ c \in Nat  BY AlphabetAssumption
  <2>2. <<u, <<c>>>> \in Meanings  BY <2>1, TextsMean
  <2>3. Append(v, c) = v \o <<c>>  BY <2>1, AppendIsConcat
  <2> QED BY ONLY <1>1, <2>2, <2>3, MeaningsJoin
<1>2. key \in Seq(Nat) /\ set \in Seq(Nat)  BY MeaningIs DEF QueryInv
<1>3. ASSUME NEW c \in Alphabet, TypeKey(c) PROVE QueryInv'
  <2>1. PICK u \in Texts(c) : keyText' = keyText \o u  BY <1>3 DEF TypeKey
  <2>2. key' = Append(key, c) /\ set' = set /\ setText' = setText
    BY <1>3 DEF TypeKey
  <2>3. <<keyText \o u, Append(key, c)>> \in Meanings  BY <1>1, <1>2 DEF QueryInv
  <2> QED BY <2>1, <2>2, <2>3 DEF QueryInv
<1>4. ASSUME NEW c \in Alphabet, TypeSet(c) PROVE QueryInv'
  <2>1. PICK u \in Texts(c) : setText' = setText \o u  BY <1>4 DEF TypeSet
  <2>2. set' = Append(set, c) /\ key' = key /\ keyText' = keyText
    BY <1>4 DEF TypeSet
  <2>3. <<setText \o u, Append(set, c)>> \in Meanings  BY <1>1, <1>2 DEF QueryInv
  <2> QED BY <2>1, <2>2, <2>3 DEF QueryInv
<1>5. CASE UNCHANGED queryVars  BY <1>5 DEF queryVars, QueryInv
<1> QED BY <1>3, <1>4, <1>5 DEF QueryNext

LEMMA QueryInvAlways == QuerySpec => []QueryInv
<1>1. QueryInit => QueryInv  BY EmptyMeans DEF QueryInit, QueryInv
<1> QED BY <1>1, QueryNextKeeps, PTL DEF QuerySpec

\* The URI once it is decoded.
Whole == <<slash, question>> \o K \o <<equals>> \o key
           \o <<amp>> \o S \o <<equals>> \o set

LEMMA UriMeans == ASSUME QueryInv PROVE <<Uri, Whole>> \in Meanings
<1>1. /\ <<<<slash>>, <<slash>>>> \in Meanings
      /\ <<<<question>>, <<question>>>> \in Meanings
      /\ <<<<equals>>, <<equals>>>> \in Meanings
      /\ <<<<amp>>, <<amp>>>> \in Meanings
      /\ <<K, K>> \in Meanings /\ <<S, S>> \in Meanings
  BY PlainMeans DEF slash, question, equals, amp, K, S, percent, plus
<1> DEFINE t0 == <<slash>> \o <<question>>
           t2 == t0 \o K \o <<equals>>
<1>2. t0 = <<slash, question>>  BY TwoIs DEF slash, question
<1>3. <<t0, t0>> \in Meanings  BY ONLY <1>1, MeaningsJoin
<1> HIDE DEF t0
<1>4. <<t0 \o K, t0 \o K>> \in Meanings  BY ONLY <1>1, <1>3, MeaningsJoin
<1>5. <<t2, t2>> \in Meanings  BY ONLY <1>1, <1>4, MeaningsJoin DEF t2
<1> HIDE DEF t2
<1>6. <<t2 \o keyText, t2 \o key>> \in Meanings
  BY ONLY <1>5, MeaningsJoin, QueryInv DEF QueryInv
<1>7. <<t2 \o keyText \o <<amp>>, t2 \o key \o <<amp>>>> \in Meanings
  BY ONLY <1>1, <1>6, MeaningsJoin
<1>8. <<t2 \o keyText \o <<amp>> \o S, t2 \o key \o <<amp>> \o S>> \in Meanings
  BY ONLY <1>1, <1>7, MeaningsJoin
<1>9. <<t2 \o keyText \o <<amp>> \o S \o <<equals>>,
        t2 \o key \o <<amp>> \o S \o <<equals>>>> \in Meanings
  BY ONLY <1>1, <1>8, MeaningsJoin
<1>10. <<t2 \o keyText \o <<amp>> \o S \o <<equals>> \o setText,
         t2 \o key \o <<amp>> \o S \o <<equals>> \o set>> \in Meanings
  BY ONLY <1>9, MeaningsJoin, QueryInv DEF QueryInv
<1> QED BY ONLY <1>2, <1>10, Zenon DEF t2, Uri, Whole

LEMMA UriIsDecoded == ASSUME QueryInv PROVE url_decode(Uri) = Good(Whole)
<1>1. Uri \in Seq(Nat) /\ Whole \in Seq(Nat) /\ Means(Uri, Whole)
  BY UriMeans, MeaningIs
<1>2. PICK n \in Nat : n = Len(Uri)  BY <1>1, LenProperties
<1>3. PICK F : Decodes(Uri, F) /\ url_decode(Uri) = F[1]  BY <1>2, url_decodeIs
<1>4. F[1 + Len(Uri)] = Good(<< >>)
  <2>1. n + 1 \in 1 .. n + 1 /\ n + 1 > n /\ 1 + n = n + 1  OBVIOUS
  <2>2. F[n + 1] = Decoded(Uri, F, n + 1)  BY ONLY <1>2, <1>3, <2>1 DEF Decodes
  <2>3. F[n + 1] = Good(<< >>)  BY ONLY <1>2, <2>1, <2>2, Zenon DEF Decoded
  <2> QED BY ONLY <1>2, <2>1, <2>3
<1>5. Occurs(Uri, 1, Uri)
  <2>1. 1 + n <= n + 1 /\ \A k \in 1 .. n : 1 + k - 1 = k  BY ONLY n \in Nat
  <2> QED BY ONLY <1>2, <2>1 DEF Occurs
<1>6. 1 \in Nat \ {0} /\ << >> \in Seq(Nat)  BY EmptySeq
<1>7. PICK e \in Seq(Nat), p \in Nat \ {0}, u \in Seq(Nat) : e = << >> /\ p = 1 /\ u = Uri
  BY ONLY <1>1, <1>6
<1>8. Decodes(u, F) /\ Occurs(u, p, Uri) /\ F[p + Len(Uri)] = Good(e)
  BY ONLY <1>3, <1>4, <1>5, <1>7, Zenon
<1>9. F[p] = Good(Whole \o e)
  BY ONLY <1>1, <1>8, e \in Seq(Nat), p \in Nat \ {0}, u \in Seq(Nat) DEF Means
<1>10. Whole \o e = Whole  BY <1>1, <1>7, ConcatEmptySeq
<1> QED BY ONLY <1>3, <1>7, <1>9, <1>10

\* Where in a query the two values are.
Layout(q, m, n) ==
    /\ q \in Seq(Nat) /\ Len(q) = m + n + 5
    /\ q[1] = 107 /\ q[2] = equals
    /\ \A k \in 1 .. m : q[k + 2] = key[k]
    /\ q[m + 3] = amp /\ q[m + 4] = 115 /\ q[m + 5] = equals
    /\ \A k \in 1 .. n : q[m + 5 + k] = set[k]

WholeLayout(d, m, n) ==
    /\ d \in Seq(Nat) /\ Len(d) = m + n + 7
    /\ d[1] = slash /\ d[2] = question /\ d[3] = 107 /\ d[4] = equals
    /\ \A k \in 1 .. m : d[k + 4] = key[k]
    /\ d[m + 5] = amp /\ d[m + 6] = 115 /\ d[m + 7] = equals
    /\ \A k \in 1 .. n : d[m + 7 + k] = set[k]

LEMMA WholeIs ==
    ASSUME key \in Seq(Nat), set \in Seq(Nat), NEW m \in Nat, NEW n \in Nat,
           m = Len(key), n = Len(set)
    PROVE  WholeLayout(Whole, m, n)
<1>1. PICK a : a = <<slash, question>> \o K \o <<equals>>  OBVIOUS
<1>2. /\ a \in Seq(Nat) /\ Len(a) = 4
      /\ a[1] = slash /\ a[2] = question /\ a[3] = 107 /\ a[4] = equals
  <2>1. slash \in Nat /\ question \in Nat /\ equals \in Nat
    BY DEF slash, question, equals
  <2>2. PICK f : f = <<slash, question>>  OBVIOUS
  <2>3. f \in Seq(Nat) /\ Len(f) = 2 /\ f[1] = slash /\ f[2] = question
    BY ONLY <2>1, <2>2
  <2>4. PICK g : g = f \o <<107>>  OBVIOUS
  <2>5. /\ g \in Seq(Nat) /\ Len(g) = 3
        /\ g[1] = slash /\ g[2] = question /\ g[3] = 107
    <3>1. Appends(g, f, 107)  BY ONLY <2>3, <2>4, OneMore, 107 \in Nat
    <3> QED BY ONLY <2>3, <3>1 DEF Appends
  <2>6. a = g \o <<equals>>  BY ONLY <1>1, <2>2, <2>4, Zenon DEF K
  <2>7. Appends(a, g, equals)
    <3>1. equals \in Nat /\ g \in Seq(Nat)  BY ONLY <2>1, <2>5
    <3>2. Appends(g \o <<equals>>, g, equals)  BY ONLY <3>1, OneMore, Zenon
    <3> QED BY ONLY <2>6, <3>2, Zenon
  <2> QED BY ONLY <2>5, <2>7 DEF Appends
<1>3. PICK b : b = a \o key  OBVIOUS
<1>4. /\ b \in Seq(Nat) /\ Len(b) = 4 + m
      /\ \A k \in 1 .. 4 : b[k] = a[k]
      /\ \A k \in 1 .. m : b[4 + k] = key[k]
  <2>1. Joins(b, a, key)  BY ONLY <1>2, <1>3, ConcatJoins, key \in Seq(Nat)
  <2> QED BY ONLY <1>2, <2>1, m = Len(key) DEF Joins
<1>5. PICK c : c = <<amp>> \o S \o <<equals>>  OBVIOUS
<1>6. /\ c \in Seq(Nat) /\ Len(c) = 3 /\ c[1] = amp /\ c[2] = 115 /\ c[3] = equals
  <2>1. amp \in Nat /\ equals \in Nat  BY DEF amp, equals
  <2>2. PICK f : f = <<amp, 115>>  OBVIOUS
  <2>3. f \in Seq(Nat) /\ Len(f) = 2 /\ f[1] = amp /\ f[2] = 115
    BY ONLY <2>1, <2>2
  <2>4. <<amp>> \o S = f  BY ONLY <2>1, <2>2, TwoIs, 115 \in Nat DEF S
  <2>6. c = f \o <<equals>>  BY ONLY <1>5, <2>4
  <2>7. Appends(c, f, equals)
    <3>1. equals \in Nat /\ f \in Seq(Nat)  BY ONLY <2>1, <2>3
    <3>2. Appends(f \o <<equals>>, f, equals)  BY ONLY <3>1, OneMore, Zenon
    <3> QED BY ONLY <2>6, <3>2, Zenon
  <2> QED BY ONLY <2>3, <2>7 DEF Appends
<1>7. PICK d : d = b \o c  OBVIOUS
<1>8. PICK l \in Nat : l = 4 + m  OBVIOUS
<1>9. /\ d \in Seq(Nat) /\ Len(d) = l + 3
      /\ \A k \in 1 .. l : d[k] = b[k]
      /\ \A k \in 1 .. 3 : d[l + k] = c[k]
  <2>1. Joins(d, b, c)  BY ONLY <1>4, <1>6, <1>7, ConcatJoins
  <2>2. l = Len(b) /\ Len(c) = 3  BY ONLY <1>4, <1>6, <1>8
  <2> QED BY ONLY <2>1, <2>2 DEF Joins
<1>10. PICK o \in Nat : o = l + 3  OBVIOUS
<1>11. PICK e : e = d \o set  OBVIOUS
<1>12. /\ e \in Seq(Nat) /\ Len(e) = o + n
       /\ \A k \in 1 .. o : e[k] = d[k]
       /\ \A k \in 1 .. n : e[o + k] = set[k]
  <2>1. Joins(e, d, set)  BY ONLY <1>9, <1>11, ConcatJoins, set \in Seq(Nat)
  <2>2. o = Len(d)  BY ONLY <1>9, <1>10
  <2> QED BY ONLY <2>1, <2>2, n = Len(set) DEF Joins
<1>13. e = Whole
  <2>1. <<amp>> \in Seq(Nat) /\ S \in Seq(Nat) /\ <<equals>> \in Seq(Nat)
    BY DEF amp, S, equals
  <2>2. <<amp>> \o S \in Seq(Nat) /\ b \o <<amp>> \in Seq(Nat)  BY <1>4, <2>1, Appended
  <2>3. b \o (<<amp>> \o S \o <<equals>>) = b \o (<<amp>> \o S) \o <<equals>>
    <3>1. b \in Seq(Nat)  BY ONLY <1>4
    <3>2. Associate(b, <<amp>> \o S, <<equals>>)
      BY ONLY <2>1, <2>2, <3>1, JoinsAssociate
    <3> QED BY ONLY <3>2 DEF Associate
  <2>4. b \o (<<amp>> \o S) = b \o <<amp>> \o S
    <3>1. b \in Seq(Nat)  BY ONLY <1>4
    <3>2. Associate(b, <<amp>>, S)  BY ONLY <2>1, <3>1, JoinsAssociate
    <3> QED BY ONLY <3>2 DEF Associate
  <2>5. d = b \o <<amp>> \o S \o <<equals>>  BY ONLY <1>5, <1>7, <2>3, <2>4, Zenon
  <2> QED BY ONLY <1>1, <1>3, <1>11, <2>5, Zenon DEF Whole
<1>14. /\ e[1] = slash /\ e[2] = question /\ e[3] = 107 /\ e[4] = equals
  <2>1. ASSUME NEW k \in 1 .. 4 PROVE e[k] = a[k]
    <3>1. k \in 1 .. l /\ k \in 1 .. o  BY ONLY <1>8, <1>10, m \in Nat, k \in 1 .. 4
    <3> QED BY ONLY <1>4, <1>9, <1>12, <3>1, k \in 1 .. 4
  <2>2. 1 \in 1 .. 4 /\ 2 \in 1 .. 4 /\ 3 \in 1 .. 4 /\ 4 \in 1 .. 4  OBVIOUS
  <2> QED BY ONLY <1>2, <2>1, <2>2
<1>15. ASSUME NEW k \in 1 .. m PROVE e[k + 4] = key[k]
  <2>1. /\ k + 4 \in 1 .. l /\ k + 4 \in 1 .. o /\ k + 4 = 4 + k
    BY ONLY <1>8, <1>10, m \in Nat, k \in 1 .. m
  <2> QED BY ONLY <1>4, <1>9, <1>12, <2>1, k \in 1 .. m
<1>16. e[m + 5] = amp /\ e[m + 6] = 115 /\ e[m + 7] = equals
  <2>1. /\ m + 5 \in 1 .. o /\ m + 6 \in 1 .. o /\ m + 7 \in 1 .. o
        /\ m + 5 = l + 1 /\ m + 6 = l + 2 /\ m + 7 = l + 3
        /\ 1 \in 1 .. 3 /\ 2 \in 1 .. 3 /\ 3 \in 1 .. 3
    BY ONLY <1>8, <1>10, m \in Nat
  <2> QED BY ONLY <1>6, <1>9, <1>12, <2>1
<1>17. o = m + 7 /\ o + n = m + n + 7  BY ONLY <1>8, <1>10, m \in Nat, n \in Nat
<1>18. WholeLayout(e, m, n)
  BY ONLY <1>12, <1>14, <1>15, <1>16, <1>17 DEF WholeLayout
<1> QED BY ONLY <1>13, <1>18

-----------------------------------------------------------------------------
(* The pairs of the query *)

LEMMA LeastIs ==
    ASSUME NEW T \in SUBSET Nat, NEW i \in T, \A j \in T : i <= j
    PROVE  Least(T) = i
<1>1. PICK l : l = Least(T) /\ l \in T /\ \A j \in T : l <= j  BY DEF Least
<1>2. l \in Nat /\ i \in Nat /\ l <= i /\ i <= l  BY ONLY <1>1, T \in SUBSET Nat, i \in T, \A j \in T : i <= j
<1> QED BY ONLY <1>1, <1>2

LEMMA AtIs ==
    ASSUME NEW s \in Seq(Nat), NEW c
    PROVE  At(s, c) \in SUBSET Nat /\ \A i : i \in At(s, c) <=> i \in 1 .. Len(s) /\ s[i] = c
<1>1. DOMAIN s = 1 .. Len(s)  BY LenProperties
<1> QED BY <1>1 DEF At

\* The query that the handler splits, with its values as the client means them.
LEMMA QueryIs ==
    ASSUME QueryInv
    PROVE  \E m \in Nat, n \in Nat :
               /\ m = Len(key) /\ n = Len(set)
               /\ key \in Seq(Nat) /\ set \in Seq(Nat) /\ Layout(Query(Uri), m, n)
<1>1. key \in Seq(Nat) /\ set \in Seq(Nat)  BY MeaningIs DEF QueryInv
<1>2. PICK m \in Nat, n \in Nat : m = Len(key) /\ n = Len(set)  BY <1>1, LenProperties
<1>3. PICK d : d = Whole  OBVIOUS
<1>4. /\ d \in Seq(Nat) /\ Len(d) = m + n + 7
      /\ d[1] = slash /\ d[2] = question /\ d[3] = 107 /\ d[4] = equals
      /\ \A k \in 1 .. m : d[k + 4] = key[k]
      /\ d[m + 5] = amp /\ d[m + 6] = 115 /\ d[m + 7] = equals
      /\ \A k \in 1 .. n : d[m + 7 + k] = set[k]
  <2>1. WholeLayout(Whole, m, n)  BY ONLY <1>1, <1>2, WholeIs
  <2> QED BY ONLY <1>3, <2>1 DEF WholeLayout
<1>10. /\ d \in Seq(Nat) /\ Len(d) = m + n + 7 /\ d[1] = slash /\ d[2] = question
  BY ONLY <1>4
<1>5. Least(At(d, question)) = 2
  <2>1. 2 \in At(d, question)
    <3>1. 2 \in 1 .. m + n + 7  OBVIOUS
    <3> QED BY ONLY <1>10, <3>1, AtIs
  <2>2. 1 \notin At(d, question)
    <3>1. slash # question  BY DEF slash, question
    <3> QED BY ONLY <1>10, <3>1, AtIs
  <2>3. At(d, question) \in SUBSET Nat /\ \A j \in At(d, question) : j \in 1 .. m + n + 7
    BY ONLY <1>10, AtIs
  <2>4. \A j \in At(d, question) : 2 <= j
    <3>1. \A j \in 1 .. m + n + 7 : j # 1 => 2 <= j  OBVIOUS
    <3> QED BY ONLY <2>2, <2>3, <3>1
  <2> QED BY ONLY <2>1, <2>3, <2>4, LeastIs
<1>6. Query(Uri) = SubSeq(d, 3, m + n + 7)
  <2>1. url_decode(Uri) = Good(d)  BY <1>3, UriIsDecoded
  <2>2. url_decode(Uri).ok /\ url_decode(Uri).out = d  BY ONLY <2>1 DEF Good
  <2>3. At(d, question) # {}
    <3>1. 2 \in 1 .. m + n + 7  OBVIOUS
    <3> QED BY ONLY <1>10, <3>1, AtIs
  <2>4. Query(Uri) = SubSeq(d, Least(At(d, question)) + 1, Len(d))
    BY ONLY <2>2, <2>3, Zenon DEF Query
  <2>5. 2 + 1 = 3  OBVIOUS
  <2> QED BY ONLY <1>4, <1>5, <2>4, <2>5
<1>7. PICK q : q = Query(Uri)  OBVIOUS
<1>8. /\ q \in Seq(Nat) /\ Len(q) = m + n + 5
      /\ \A i \in 1 .. m + n + 5 : q[i] = d[i + 2]
  <2>1. PICK z \in Nat : z = m + n + 7  OBVIOUS
  <2>2. \A i \in 3 .. z : d[i] \in Nat
    <3>1. \A i \in 3 .. z : i \in 1 .. z  BY ONLY z \in Nat
    <3> QED BY ONLY <1>4, <2>1, <3>1, ElementOfSeq
  <2>3. /\ SubSeq(d, 3, z) \in Seq(Nat)
        /\ Len(SubSeq(d, 3, z)) = IF 3 <= z THEN z - 3 + 1 ELSE 0
        /\ \A i \in 1 .. z - 3 + 1 : SubSeq(d, 3, z)[i] = d[3 + i - 1]
    <3>1. 3 \in Int /\ z \in Int  OBVIOUS
    <3> QED BY ONLY <2>2, <3>1, SubSeqProperties
  <2>4. 3 <= z /\ z - 3 + 1 = m + n + 5 /\ \A i \in 1 .. m + n + 5 : 3 + i - 1 = i + 2
    BY ONLY <2>1, m \in Nat, n \in Nat
  <2>5. q = SubSeq(d, 3, z)  BY ONLY <1>6, <1>7, <2>1
  <2> QED BY ONLY <2>3, <2>4, <2>5
<1>9. Layout(q, m, n)
  <2>1. q[1] = 107 /\ q[2] = equals
    <3>1. 1 \in 1 .. m + n + 5 /\ 2 \in 1 .. m + n + 5 /\ 1 + 2 = 3 /\ 2 + 2 = 4
      BY ONLY m \in Nat, n \in Nat
    <3> QED BY ONLY <1>4, <1>8, <3>1
  <2>2. ASSUME NEW k \in 1 .. m PROVE q[k + 2] = key[k]
    <3>1. k + 2 \in 1 .. m + n + 5 /\ k + 2 + 2 = k + 4
      BY ONLY m \in Nat, n \in Nat, k \in 1 .. m
    <3> QED BY ONLY <1>4, <1>8, <3>1, k \in 1 .. m
  <2>3. q[m + 3] = amp /\ q[m + 4] = 115 /\ q[m + 5] = equals
    <3>1. /\ m + 3 \in 1 .. m + n + 5 /\ m + 4 \in 1 .. m + n + 5
          /\ m + 5 \in 1 .. m + n + 5
    BY ONLY m \in Nat, n \in Nat
    <3>2. m + 3 + 2 = m + 5 /\ m + 4 + 2 = m + 6 /\ m + 5 + 2 = m + 7
      BY ONLY m \in Nat
    <3>3. \A i \in 1 .. m + n + 5 : q[i] = d[i + 2]  BY ONLY <1>8
    <3>4. q[m + 3] = d[m + 3 + 2]  BY ONLY <3>1, <3>3, Zenon
    <3>5. q[m + 4] = d[m + 4 + 2]  BY ONLY <3>1, <3>3, Zenon
    <3>6. q[m + 5] = d[m + 5 + 2]  BY ONLY <3>1, <3>3, Zenon
    <3> QED BY ONLY <1>4, <3>2, <3>4, <3>5, <3>6
  <2>4. ASSUME NEW k \in 1 .. n PROVE q[m + 5 + k] = set[k]
    <3>1. m + 5 + k \in 1 .. m + n + 5 /\ m + 5 + k + 2 = m + 7 + k
      BY ONLY m \in Nat, n \in Nat, k \in 1 .. n
    <3> QED BY ONLY <1>4, <1>8, <3>1, k \in 1 .. n
  <2> QED BY ONLY <1>8, <2>1, <2>2, <2>3, <2>4 DEF Layout
<1> QED BY <1>1, <1>2, <1>7, <1>9

\* A pair with an '=', and the first of them.
LEMMA KeyedIs ==
    ASSUME NEW q \in Seq(Nat), NEW b \in Nat, NEW e \in Nat, NEW s \in Nat,
           <<b, e>> \in Pairs(q), s \in b .. e, s \in At(q, equals),
           \A i \in b .. e : i \in At(q, equals) => s <= i
    PROVE  <<b, s, e>> \in Keyed(q)
<1>1. PICK p \in Pairs(q) : p = <<b, e>>  OBVIOUS
<1>2. p[1] = b /\ p[2] = e  BY <1>1
<1>3. Least(At(q, equals) \cap b .. e) = s
  <2>1. At(q, equals) \cap b .. e \in SUBSET Nat  OBVIOUS
  <2> QED BY <2>1, LeastIs
<1>4. At(q, equals) \cap b .. e # {}  OBVIOUS
<1> QED BY <1>1, <1>2, <1>3, <1>4, Zenon DEF Keyed, Separator

LEMMA KeyedPairs ==
    ASSUME NEW q, NEW p \in Keyed(q)
    PROVE  \E b, e : /\ <<b, e>> \in Pairs(q)
                     /\ p = <<b, Least(At(q, equals) \cap b .. e), e>>
<1>1. PICK r \in Pairs(q) :
        p = <<r[1], Separator(At(q, equals) \cap r[1] .. r[2]), r[2]>>
  BY DEF Keyed
<1>2. r = <<r[1], r[2]>>  BY DEF Pairs
<1>3. <<r[1], r[2]>> \in Pairs(q)  BY ONLY <1>1, <1>2
<1> QED BY ONLY <1>1, <1>3, Zenon DEF Separator

LEMMA PairsAre ==
    ASSUME NEW q, NEW l \in Nat, l = Len(q), NEW b, NEW e
    PROVE  <<b, e>> \in Pairs(q) <=>
              /\ b \in 1 .. l + 1 /\ e \in 0 .. l
              /\ b - 1 \in At(q, amp) \cup {0} /\ e + 1 \in At(q, amp) \cup {l + 1}
              /\ b <= e + 1 /\ b .. e \cap At(q, amp) = {}
BY DEF Pairs

-----------------------------------------------------------------------------
(* The value of each parameter *)

LEMMA ValueIs ==
    ASSUME NEW q \in Seq(Nat), NEW v \in Seq(Nat), NEW b \in Nat \ {0}, NEW n \in Nat,
           n = Len(v), \A k \in 1 .. n : q[b + k - 1] = v[k]
    PROVE  SubSeq(q, b, b + n - 1) = v
<1>1. PICK e \in Int : e = b + n - 1
  <2>1. b + n - 1 \in Int  BY ONLY b \in Nat \ {0}, n \in Nat
  <2> QED BY ONLY <2>1
<1>2. \A i \in b .. e : q[i] \in Nat
  <2>1. \A i \in b .. e : i - b + 1 \in 1 .. n /\ i = b + (i - b + 1) - 1
    BY ONLY <1>1, b \in Nat \ {0}, n \in Nat
  <2>2. \A k \in 1 .. n : v[k] \in Nat
    BY ONLY n = Len(v), v \in Seq(Nat), ElementOfSeq
  <2>3. ASSUME NEW i \in b .. e PROVE q[i] \in Nat
    <3>1. PICK k \in 1 .. n : k = i - b + 1 /\ i = b + k - 1  BY ONLY <2>1, i \in b .. e
    <3> QED BY ONLY <2>2, <3>1, \A j \in 1 .. n : q[b + j - 1] = v[j]
  <2> QED BY ONLY <2>3
<1>3. PICK w : w = SubSeq(q, b, e)  OBVIOUS
<1>4. /\ w \in Seq(Nat) /\ Len(w) = IF b <= e THEN e - b + 1 ELSE 0
      /\ \A i \in 1 .. e - b + 1 : w[i] = q[b + i - 1]
  BY ONLY <1>2, <1>3, SubSeqProperties, b \in Nat \ {0}, e \in Int
<1>5. e - b + 1 = n /\ (b <= e <=> n > 0)  BY ONLY <1>1, b \in Nat \ {0}, n \in Nat
<1>6. Len(w) = n  BY ONLY <1>4, <1>5, n \in Nat
<1>7. \A i \in 1 .. n : w[i] = v[i]
  BY ONLY <1>4, <1>5, \A k \in 1 .. n : q[b + k - 1] = v[k]
<1>8. w = v
  BY ONLY <1>4, <1>6, <1>7, n = Len(v), v \in Seq(Nat), SeqEqual
<1> QED BY ONLY <1>1, <1>3, <1>8

\* Where the two values are cut, and where the pair of set is.
LEMMA CutsAre ==
    ASSUME set \in Seq(Nat), NEW q, NEW m \in Nat, NEW n \in Nat, n = Len(set),
           Layout(q, m, n), ~Has(set, amp)
    PROVE  /\ m + 3 \in At(q, amp) /\ \A i \in At(q, amp) : i \in 1 .. m + 3
           /\ m + 5 \in At(q, equals) /\ m + 4 \notin At(q, equals)
           /\ 2 \in At(q, equals) /\ 1 \notin At(q, equals)
<1>1. PICK l \in Nat : l = m + n + 5  OBVIOUS
<1>2. /\ q \in Seq(Nat) /\ Len(q) = l /\ q[1] = 107 /\ q[2] = equals
      /\ q[m + 3] = amp /\ q[m + 4] = 115 /\ q[m + 5] = equals
      /\ \A k \in 1 .. n : q[m + 5 + k] = set[k]
  BY ONLY <1>1, Layout(q, m, n) DEF Layout
<1>3. \A i : i \in At(q, amp) <=> i \in 1 .. l /\ q[i] = amp  BY ONLY <1>2, AtIs
<1>4. \A i : i \in At(q, equals) <=> i \in 1 .. l /\ q[i] = equals
  BY ONLY <1>2, AtIs
<1>5. amp # equals /\ amp # 115 /\ equals # 115 /\ equals # 107
  BY ONLY TRUE DEF amp, equals
<1>6. m + 3 \in 1 .. l /\ m + 5 \in 1 .. l /\ 2 \in 1 .. l
  BY ONLY <1>1, m \in Nat, n \in Nat
<1>7. \A k \in 1 .. n : set[k] # amp
  BY ONLY AtIs, set \in Seq(Nat), n = Len(set), ~Has(set, amp) DEF Has
<1>8. ASSUME NEW i \in 1 .. l, q[i] = amp PROVE i \in 1 .. m + 3
  <2>1. CASE i > m + 5
    <3>1. PICK k \in 1 .. n : i = m + 5 + k
      <4>1. i - (m + 5) \in 1 .. n /\ i = m + 5 + (i - (m + 5))
        BY ONLY <1>1, <2>1, i \in 1 .. l, m \in Nat, n \in Nat
      <4> QED BY ONLY <4>1
    <3>2. q[i] = set[k]  BY ONLY <1>2, <3>1
    <3> QED BY ONLY <1>7, <1>8, <3>1, <3>2
  <2>2. i # m + 4 /\ i # m + 5  BY ONLY <1>2, <1>5, <1>8
  <2> QED BY ONLY <2>1, <2>2, i \in 1 .. l, l \in Nat, m \in Nat
<1>9. m + 3 \in At(q, amp) /\ \A i \in At(q, amp) : i \in 1 .. m + 3
  BY ONLY <1>2, <1>3, <1>6, <1>8
<1>10. m + 5 \in At(q, equals) /\ 2 \in At(q, equals)  BY ONLY <1>2, <1>4, <1>6
<1>11. m + 4 \notin At(q, equals) /\ 1 \notin At(q, equals)  BY ONLY <1>2, <1>4, <1>5
<1> QED BY ONLY <1>9, <1>10, <1>11

\* The pair at b has its '=' at s and its value up to l, and is the last one.
LastPair(q, b, s, l) ==
    /\ <<b, s, l>> \in Keyed(q)
    /\ \A p \in Keyed(q) : p[1] \in 1 .. b /\ (p[1] = b => p = <<b, s, l>>)
    /\ SubSeq(q, b, s - 1) = S
    /\ SubSeq(q, s + 1, l) = set

LEMMA SetPair ==
    ASSUME set \in Seq(Nat), NEW q, NEW m \in Nat, NEW n \in Nat, n = Len(set),
           Layout(q, m, n), ~Has(set, amp)
    PROVE  LastPair(q, m + 4, m + 5, m + n + 5)
<1>1. PICK l \in Nat, b \in Nat, s \in Nat : l = m + n + 5 /\ b = m + 4 /\ s = m + 5
  OBVIOUS
<1>2. /\ b - 1 \in At(q, amp) /\ \A i \in At(q, amp) : i \in 1 .. b - 1
      /\ s \in At(q, equals) /\ b \notin At(q, equals)
  <2>1. b - 1 = m + 3  BY ONLY <1>1, m \in Nat
  <2> QED BY <1>1, <2>1, CutsAre
<1>3. q \in Seq(Nat) /\ Len(q) = l /\ q[b] = 115
  BY ONLY <1>1, Layout(q, m, n) DEF Layout
<1>4. \A i \in b .. l : i \in At(q, equals) => s <= i
  <2>1. \A i \in b .. l : i # b => s <= i  BY ONLY <1>1, m \in Nat
  <2> QED BY ONLY <1>2, <2>1
<1>5. b .. l \cap At(q, amp) = {}
  <2>1. \A i \in b .. l : i \notin 1 .. b - 1  BY ONLY b \in Nat, l \in Nat
  <2> QED BY ONLY <1>2, <2>1
<1>6. <<b, s, l>> \in Keyed(q)
  <2>1. b \in 1 .. l + 1 /\ l \in 0 .. l /\ b <= l + 1 /\ s \in b .. l
    BY ONLY <1>1, m \in Nat, n \in Nat
  <2>2. <<b, l>> \in Pairs(q)  BY ONLY <1>2, <1>3, <1>5, <2>1, l \in Nat, PairsAre
  <2> QED BY ONLY <1>2, <1>3, <1>4, <2>1, <2>2, KeyedIs, b \in Nat, s \in Nat, l \in Nat
<1>7. ASSUME NEW p \in Keyed(q)
      PROVE  p[1] \in 1 .. b /\ (p[1] = b => p = <<b, s, l>>)
  <2>1. PICK c, e : /\ <<c, e>> \in Pairs(q)
                    /\ p = <<c, Least(At(q, equals) \cap c .. e), e>>
    BY ONLY KeyedPairs, p \in Keyed(q)
  <2>2. /\ c \in 1 .. l + 1 /\ e \in 0 .. l
        /\ c - 1 \in At(q, amp) \cup {0} /\ e + 1 \in At(q, amp) \cup {l + 1}
        /\ c <= e + 1
    BY ONLY <1>3, <2>1, PairsAre, l \in Nat
  <2>3. c \in 1 .. b
    <3>1. c - 1 \in 1 .. b - 1 \/ c - 1 = 0  BY ONLY <1>2, <2>2
    <3>2. 1 <= b  BY ONLY <1>1, m \in Nat
    <3> QED BY ONLY <2>2, <3>1, <3>2, b \in Nat, l \in Nat
  <2>4. ASSUME c = b PROVE p = <<b, s, l>>
    <3>1. e = l
      <4>1. e + 1 \in 1 .. b - 1 \/ e + 1 = l + 1  BY ONLY <1>2, <2>2
      <4> QED BY ONLY <2>2, <2>4, <4>1, b \in Nat, l \in Nat
    <3>2. Least(At(q, equals) \cap b .. l) = s
      <4>1. s \in b .. l  BY ONLY <1>1, m \in Nat, n \in Nat
      <4>2. At(q, equals) \cap b .. l \in SUBSET Nat  BY ONLY b \in Nat
      <4> QED BY ONLY <1>2, <1>4, <4>1, <4>2, LeastIs
    <3> QED BY ONLY <2>1, <2>4, <3>1, <3>2, Zenon
  <2>5. p[1] = c  BY ONLY <2>1
  <2> QED BY ONLY <2>3, <2>4, <2>5
<1>8. SubSeq(q, b, s - 1) = S
  <2>1. S \in Seq(Nat) /\ Len(S) = 1 /\ S[1] = 115  BY SingleIs DEF S
  <2>2. \A k \in 1 .. 1 : q[b + k - 1] = S[k]
    <3>1. \A k \in 1 .. 1 : k = 1 /\ b + k - 1 = b  BY ONLY b \in Nat
    <3> QED BY ONLY <1>3, <2>1, <3>1
  <2>3. b \in Nat \ {0} /\ 1 \in Nat /\ b + 1 - 1 = s - 1  BY ONLY <1>1, m \in Nat
  <2>4. SubSeq(q, b, b + 1 - 1) = S  BY ONLY <1>3, <2>1, <2>2, <2>3, ValueIs
  <2> QED BY ONLY <2>3, <2>4
<1>9. SubSeq(q, s + 1, l) = set
  <2>1. PICK a \in Nat \ {0} : a = s + 1  BY s \in Nat
  <2>2. ASSUME NEW k \in 1 .. n PROVE q[a + k - 1] = set[k]
    <3>1. a + k - 1 = m + 5 + k  BY ONLY <1>1, <2>1, m \in Nat, k \in 1 .. n
    <3>2. q[m + 5 + k] = set[k]  BY ONLY Layout(q, m, n), k \in 1 .. n DEF Layout
    <3> QED BY ONLY <3>1, <3>2
  <2>3. SubSeq(q, a, a + n - 1) = set
    BY ONLY <1>3, <2>2, ValueIs, set \in Seq(Nat), n \in Nat, n = Len(set),
       a \in Nat \ {0}
  <2>4. a + n - 1 = l  BY ONLY <1>1, <2>1, m \in Nat, n \in Nat
  <2> QED BY ONLY <2>1, <2>3, <2>4
<1>10. LastPair(q, b, s, l)  BY ONLY <1>6, <1>7, <1>8, <1>9 DEF LastPair
<1> QED BY ONLY <1>1, <1>10, Zenon

LEMMA SetIsRead ==
    ASSUME set \in Seq(Nat), NEW q, NEW m \in Nat, NEW n \in Nat, n = Len(set),
           Layout(q, m, n), ~Has(set, amp)
    PROVE  Param(q, S) = set
<1> DEFINE ps == {p \in Keyed(q) : SubSeq(q, p[1], p[2] - 1) = S}
<1>1. PICK b \in Nat, s \in Nat, l \in Nat : b = m + 4 /\ s = m + 5 /\ l = m + n + 5
  <2>1. m + 4 \in Nat /\ m + 5 \in Nat /\ m + n + 5 \in Nat
    BY ONLY m \in Nat, n \in Nat
  <2> QED BY ONLY <2>1
<1>7. PICK p0 : p0 = <<b, s, l>>  OBVIOUS
<1>2. /\ p0 \in Keyed(q)
      /\ \A p \in Keyed(q) : p[1] \in 1 .. b /\ (p[1] = b => p = p0)
      /\ SubSeq(q, b, s - 1) = S /\ SubSeq(q, s + 1, l) = set
  <2>1. LastPair(q, m + 4, m + 5, m + n + 5)
    BY ONLY SetPair, set \in Seq(Nat), m \in Nat, n \in Nat, n = Len(set),
       Layout(q, m, n), ~Has(set, amp)
  <2>2. LastPair(q, b, s, l)  BY ONLY <1>1, <2>1, Zenon
  <2> QED BY ONLY <1>7, <2>2 DEF LastPair
<1>3. p0[1] = b /\ p0[2] = s /\ p0[3] = l  BY ONLY <1>7
<1>4. p0 \in ps  BY ONLY <1>2, <1>3
<1>5. Kept(ps) = p0
  <2>1. \A p \in ps : p[1] \in 1 .. b /\ p[1] <= p0[1]
    <3>1. \A p \in ps : p[1] \in 1 .. b  BY ONLY <1>2
    <3> QED BY ONLY <1>3, <3>1, b \in Nat
  <2>2. PICK p : p = Kept(ps) /\ p \in ps /\ \A r \in ps : r[1] <= p[1]
    BY ONLY <1>4, <2>1 DEF Kept
  <2>3. p[1] = b
    <3>1. b <= p[1] /\ p[1] \in 1 .. b  BY ONLY <1>3, <1>4, <2>1, <2>2
    <3> QED BY ONLY <3>1, b \in Nat
  <2> QED BY ONLY <1>2, <2>2, <2>3
<1>6. Param(q, S) = SubSeq(q, Kept(ps)[2] + 1, Kept(ps)[3])
  BY ONLY <1>4 DEF Param
<1> QED BY ONLY <1>2, <1>3, <1>5, <1>6

LEMMA KeyPair ==
    ASSUME key \in Seq(Nat), set \in Seq(Nat), NEW q, NEW m \in Nat, NEW n \in Nat,
           m = Len(key), n = Len(set), Layout(q, m, n), ~Has(set, amp), ~Has(key, amp)
    PROVE  /\ <<1, 2, m + 2>> \in Keyed(q)
           /\ \A p \in Keyed(q) : p[1] = 1 \/ p[1] = m + 4
           /\ \A p \in Keyed(q) : p[1] = 1 => p = <<1, 2, m + 2>>
           /\ SubSeq(q, 1, 2 - 1) = K
           /\ SubSeq(q, 2 + 1, m + 2) = key
<1>1. PICK l \in Nat, c \in Nat : l = m + n + 5 /\ c = m + 3  OBVIOUS
<1>2. /\ c \in At(q, amp) /\ \A i \in At(q, amp) : i \in 1 .. c
      /\ 2 \in At(q, equals) /\ 1 \notin At(q, equals)
  BY <1>1, CutsAre
<1>3. /\ q \in Seq(Nat) /\ Len(q) = l /\ q[1] = 107 /\ q[2] = equals
      /\ \A k \in 1 .. m : q[k + 2] = key[k]
  BY ONLY <1>1, Layout(q, m, n) DEF Layout
<1>4. \A i \in At(q, amp) : i = c
  <2>1. \A k \in 1 .. m : key[k] # amp
    BY ONLY AtIs, key \in Seq(Nat), m = Len(key), ~Has(key, amp) DEF Has
  <2>2. ASSUME NEW i \in At(q, amp) PROVE i = c
    <3>1. i \in 1 .. c /\ q[i] = amp  BY ONLY <1>2, <1>3, AtIs, i \in At(q, amp)
    <3>2. i # 1 /\ i # 2
      <4>1. amp # equals /\ amp # 107  BY ONLY TRUE DEF amp, equals
      <4> QED BY ONLY <1>3, <3>1, <4>1
    <3>3. CASE i < c
      <4>1. PICK k \in 1 .. m : i = k + 2
        <5>1. i - 2 \in 1 .. m /\ i = i - 2 + 2
          BY ONLY <1>1, <3>1, <3>2, <3>3, m \in Nat
        <5> QED BY ONLY <5>1
      <4> QED BY ONLY <1>3, <2>1, <3>1, <4>1
    <3> QED BY ONLY <3>1, <3>3, c \in Nat
  <2> QED BY ONLY <2>2
<1>5. PICK e \in Nat : e = m + 2  OBVIOUS
<1>6. <<1, 2, e>> \in Keyed(q)
  <2>1. /\ 1 \in 1 .. l + 1 /\ e \in 0 .. l /\ 1 <= e + 1 /\ 2 \in 1 .. e
        /\ 1 - 1 = 0 /\ e + 1 = c
    BY ONLY <1>1, <1>5, m \in Nat, n \in Nat
  <2>2. 1 .. e \cap At(q, amp) = {}
    <3>1. c \notin 1 .. e  BY ONLY <2>1, e \in Nat
    <3> QED BY ONLY <1>4, <3>1
  <2>3. 1 - 1 \in At(q, amp) \cup {0} /\ e + 1 \in At(q, amp) \cup {l + 1}
    BY ONLY <1>2, <2>1
  <2>4. <<1, e>> \in Pairs(q)  BY ONLY <1>3, <2>1, <2>2, <2>3, l \in Nat, PairsAre
  <2>5. \A i \in 1 .. e : i \in At(q, equals) => 2 <= i
    <3>1. \A i \in 1 .. e : i # 1 => 2 <= i  BY ONLY e \in Nat
    <3> QED BY ONLY <1>2, <3>1
  <2>6. PICK b \in Nat, s \in Nat : b = 1 /\ s = 2  OBVIOUS
  <2>7. /\ <<b, e>> \in Pairs(q) /\ s \in b .. e /\ s \in At(q, equals)
        /\ \A i \in b .. e : i \in At(q, equals) => s <= i
    BY ONLY <1>2, <2>1, <2>4, <2>5, <2>6, Zenon
  <2>8. <<b, s, e>> \in Keyed(q)
    BY ONLY <1>3, <2>7, KeyedIs, b \in Nat, s \in Nat, e \in Nat
  <2> QED BY ONLY <2>6, <2>8
<1>7. ASSUME NEW p \in Keyed(q)
      PROVE  (p[1] = 1 \/ p[1] = c + 1) /\ (p[1] = 1 => p = <<1, 2, e>>)
  <2>1. PICK x, y : /\ <<x, y>> \in Pairs(q)
                    /\ p = <<x, Least(At(q, equals) \cap x .. y), y>>
    BY ONLY KeyedPairs, p \in Keyed(q)
  <2>2. /\ x \in 1 .. l + 1 /\ y \in 0 .. l
        /\ x - 1 \in At(q, amp) \cup {0} /\ y + 1 \in At(q, amp) \cup {l + 1}
        /\ x <= y + 1 /\ x .. y \cap At(q, amp) = {}
    BY ONLY <1>3, <2>1, PairsAre, l \in Nat
  <2>3. x = 1 \/ x = c + 1
    <3>1. x - 1 = c \/ x - 1 = 0  BY ONLY <1>4, <2>2
    <3> QED BY ONLY <2>2, <3>1, c \in Nat, l \in Nat
  <2>4. ASSUME x = 1 PROVE p = <<1, 2, e>>
    <3>1. y = e
      <4>1. y + 1 = c \/ y + 1 = l + 1  BY ONLY <1>4, <2>2
      <4>2. c \notin 1 .. y  BY ONLY <1>2, <2>2, <2>4
      <4>3. y = e \/ y = l  BY ONLY <1>1, <1>5, <2>2, <4>1, m \in Nat, l \in Nat
      <4>4. c \in 1 .. l  BY ONLY <1>1, m \in Nat, n \in Nat
      <4> QED BY ONLY <4>2, <4>3, <4>4
    <3>2. Least(At(q, equals) \cap 1 .. e) = 2
      <4>1. 2 \in 1 .. e /\ \A i \in 1 .. e : i # 1 => 2 <= i
        BY ONLY <1>5, m \in Nat
      <4>2. PICK T \in SUBSET Nat : T = At(q, equals) \cap 1 .. e
        <5>1. At(q, equals) \cap 1 .. e \in SUBSET Nat  BY ONLY e \in Nat
        <5> QED BY ONLY <5>1
      <4>3. 2 \in T /\ \A i \in T : 2 <= i  BY ONLY <1>2, <4>1, <4>2
      <4> QED BY ONLY <4>2, <4>3, LeastIs
    <3> QED BY ONLY <2>1, <2>4, <3>1, <3>2, Zenon
  <2>5. p[1] = x  BY ONLY <2>1
  <2> QED BY ONLY <2>3, <2>4, <2>5
<1>8. SubSeq(q, 1, 2 - 1) = K
  <2>1. K \in Seq(Nat) /\ Len(K) = 1 /\ K[1] = 107  BY SingleIs DEF K
  <2>2. \A k \in 1 .. 1 : q[1 + k - 1] = K[k]
    <3>1. \A k \in 1 .. 1 : k = 1 /\ 1 + k - 1 = 1  OBVIOUS
    <3> QED BY ONLY <1>3, <2>1, <3>1
  <2>3. 1 \in Nat \ {0} /\ 1 \in Nat /\ 1 + 1 - 1 = 2 - 1  OBVIOUS
  <2>4. SubSeq(q, 1, 1 + 1 - 1) = K  BY ONLY <1>3, <2>1, <2>2, <2>3, ValueIs
  <2> QED BY ONLY <2>3, <2>4
<1>9. SubSeq(q, 2 + 1, e) = key
  <2>1. PICK a \in Nat \ {0} : a = 2 + 1  OBVIOUS
  <2>2. ASSUME NEW k \in 1 .. m PROVE q[a + k - 1] = key[k]
    <3>1. a + k - 1 = k + 2  BY ONLY <2>1, k \in 1 .. m, m \in Nat
    <3> QED BY ONLY <1>3, <3>1, k \in 1 .. m
  <2>3. SubSeq(q, a, a + m - 1) = key
    BY ONLY <1>3, <2>2, ValueIs, key \in Seq(Nat), m \in Nat, m = Len(key),
       a \in Nat \ {0}
  <2>4. a + m - 1 = e  BY ONLY <1>5, <2>1, m \in Nat
  <2> QED BY ONLY <2>1, <2>3, <2>4
<1>10. c + 1 = m + 4  BY ONLY <1>1, m \in Nat
<1> QED BY ONLY <1>5, <1>6, <1>7, <1>8, <1>9, <1>10

LEMMA KeyIsRead ==
    ASSUME key \in Seq(Nat), set \in Seq(Nat), NEW q, NEW m \in Nat, NEW n \in Nat,
           m = Len(key), n = Len(set), Layout(q, m, n), ~Has(set, amp), ~Has(key, amp)
    PROVE  Param(q, K) = key
<1> DEFINE ps == {p \in Keyed(q) : SubSeq(q, p[1], p[2] - 1) = K}
<1>1. PICK e \in Nat : e = m + 2  BY ONLY m \in Nat
<1>11. PICK p0 : p0 = <<1, 2, e>>  OBVIOUS
<1>2. /\ p0 \in Keyed(q)
      /\ \A p \in Keyed(q) : p[1] = 1 \/ p[1] = m + 4
      /\ \A p \in Keyed(q) : p[1] = 1 => p = p0
      /\ SubSeq(q, 1, 2 - 1) = K /\ SubSeq(q, 2 + 1, e) = key
  <2>1. /\ <<1, 2, m + 2>> \in Keyed(q)
        /\ \A p \in Keyed(q) : p[1] = 1 \/ p[1] = m + 4
        /\ \A p \in Keyed(q) : p[1] = 1 => p = <<1, 2, m + 2>>
        /\ SubSeq(q, 1, 2 - 1) = K
        /\ SubSeq(q, 2 + 1, m + 2) = key
    BY KeyPair
  <2> QED BY ONLY <1>1, <1>11, <2>1, Zenon
<1>3. p0[1] = 1 /\ p0[2] = 2 /\ p0[3] = e  BY ONLY <1>11
<1>4. p0 \in ps  BY ONLY <1>2, <1>3
<1>5. \A p \in ps : p = p0
  <2>1. ASSUME NEW p \in ps, p[1] = m + 4 PROVE FALSE
    <3>6. LastPair(q, m + 4, m + 5, m + n + 5)
      BY ONLY SetPair, set \in Seq(Nat), m \in Nat, n \in Nat, n = Len(set),
         Layout(q, m, n), ~Has(set, amp)
    <3>1. p = <<m + 4, m + 5, m + n + 5>> /\ SubSeq(q, m + 4, (m + 5) - 1) = S
      BY ONLY <2>1, <3>6, p \in ps DEF LastPair
    <3>4. SubSeq(q, p[1], p[2] - 1) = K  BY ONLY p \in ps
    <3>5. p[1] = m + 4 /\ p[2] = m + 5  BY ONLY <3>1
    <3>2. SubSeq(q, m + 4, (m + 5) - 1) = K  BY ONLY <3>4, <3>5
    <3>3. K # S  BY DEF K, S
    <3> QED BY ONLY <3>1, <3>2, <3>3
  <2> QED BY ONLY <1>2, <2>1
<1>6. Kept(ps) = p0
  <2>1. p0[1] <= p0[1]  BY ONLY <1>3
  <2>2. \E p \in ps : \A r \in ps : r[1] <= p[1]  BY ONLY <1>4, <1>5, <2>1
  <2>3. Kept(ps) \in ps  BY ONLY <2>2 DEF Kept
  <2> QED BY ONLY <1>5, <2>3
<1>7. Param(q, K) = SubSeq(q, Kept(ps)[2] + 1, Kept(ps)[3])
  BY ONLY <1>4 DEF Param
<1> QED BY ONLY <1>2, <1>3, <1>6, <1>7

\* The handler reads the values that a client means, of any length and from any
\* characters but '&' (request_handler.cpp:60-108, 124-141).
THEOREM ValuesArrive == QuerySpec => []RoundTrip
<1>1. QueryInv => RoundTrip
  <2> SUFFICES ASSUME QueryInv PROVE RoundTrip  OBVIOUS
  <2>1. PICK m \in Nat, n \in Nat :
          /\ m = Len(key) /\ n = Len(set)
          /\ key \in Seq(Nat) /\ set \in Seq(Nat) /\ Layout(Query(Uri), m, n)
    BY QueryIs
  <2>2. ~Has(set, amp) => Param(Query(Uri), S) = set  BY ONLY <2>1, SetIsRead
  <2>3. ~Has(set, amp) /\ ~Has(key, amp) => Param(Query(Uri), K) = key
    BY ONLY <2>1, KeyIsRead
  <2> QED BY ONLY <2>2, <2>3 DEF RoundTrip
<1> QED BY <1>1, QueryInvAlways, PTL
=============================================================================
