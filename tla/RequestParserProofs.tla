------------------------ MODULE RequestParserProofs ------------------------
(***************************************************************************)
(* Theorems about the request parser, for every limit on the content and   *)
(* every number of headers: its invariant and the sections of a request.   *)
(***************************************************************************)
EXTENDS RequestParser, TLAPS, SequenceTheorems, WellFoundedInduction

-----------------------------------------------------------------------------
(* The tables *)

LEMMA LineMovesFacts ==
    ASSUME NEW m \in LineMoves
    PROVE  m[1] \in LineStates /\ m[3] \in LineStates \cup {"header_line_start"}
BY DEF LineMoves, LineStates

LEMMA HeaderMovesFacts ==
    ASSUME NEW m \in HeaderMoves
    PROVE  /\ m[1] \in HeaderStates /\ m[3] \in HeaderStates
           /\ m[3] \in InHeader => m[1] \in InHeader
BY DEF HeaderMoves, HeaderStates, InHeader

LEMMA StatesApart ==
    /\ LineStates \cap HeaderStates = {}
    /\ "body" \notin LineStates \cup HeaderStates
BY DEF LineStates, HeaderStates, InHeader

\* A step of a table stays in the line, enters the headers, or stays in them.
LEMMA MoveFacts ==
    ASSUME NEW c \in Chars, Move(c)
    PROVE  /\ \/ /\ state \in LineStates
                 /\ state' \in LineStates \cup {"header_line_start"}
              \/ state \in HeaderStates /\ state' \in HeaderStates
           /\ state' \in InHeader => state \in InHeader
           /\ state # "body" /\ state' # "body"
<1>1. PICK m \in Moves : state = m[1] /\ state' = m[3]
  BY DEF Move
<1>2. "header_line_start" \notin InHeader /\ LineStates \cap InHeader = {}
  BY DEF LineStates, InHeader
<1>3. CASE m \in LineMoves
  BY <1>1, <1>2, <1>3, LineMovesFacts, StatesApart DEF HeaderStates
<1>4. CASE m \in HeaderMoves
  BY <1>1, <1>4, HeaderMovesFacts, StatesApart
<1> QED
  BY <1>1, <1>3, <1>4 DEF Moves

-----------------------------------------------------------------------------
(* Headers *)

LEMMA AppendFacts ==
    ASSUME NEW R, NEW s \in Seq(R), NEW e \in R
    PROVE  /\ Append(s, e) \in Seq(R)
           /\ Len(Append(s, e)) = Len(s) + 1
           /\ Append(s, e) # << >>
<1>1. Append(s, e) \in Seq(R) /\ Len(Append(s, e)) = Len(s) + 1
  OBVIOUS
<1>2. Len(s) \in Nat /\ Len(<< >>) = 0
  BY LenProperties
<1> QED
  BY <1>1, <1>2

LEMMA BackFacts ==
    ASSUME NEW R, NEW s \in Seq(R), s # << >>
    PROVE  Len(s) \in 1 .. Len(s) /\ s[Len(s)] \in R
BY EmptySeq, LenProperties

\* An assignment to an element keeps the type and the length.
LEMMA ExceptFacts ==
    ASSUME NEW R, NEW s \in Seq(R), s # << >>, NEW e \in R
    PROVE  /\ [s EXCEPT ![Len(s)] = e] \in Seq(R)
           /\ Len([s EXCEPT ![Len(s)] = e]) = Len(s)
           /\ [s EXCEPT ![Len(s)] = e] # << >>
<1>1. Len(s) \in 1 .. Len(s)
  BY BackFacts
<1> QED
  BY <1>1, ExceptSeq, EmptySeq

LEMMA SetName ==
    ASSUME NEW h \in Header, NEW n \in Names
    PROVE  [h EXCEPT !.name = n] \in Header
BY DEF Header

LEMMA SetValue ==
    ASSUME NEW h \in Header, NEW v \in Values
    PROVE  [h EXCEPT !.value = v] \in Header
BY DEF Header

\* A nonempty set of numbers has a least one.
LEMMA LeastExists ==
    ASSUME NEW ns \in SUBSET Nat, ns # {}
    PROVE  \E i \in ns : \A j \in ns : i <= j
<1> DEFINE R == OpToRel(<, Nat)
<1>1. IsWellFoundedOn(R, Nat)
  BY NatLessThanWellFounded
<1>2. \A x, y \in Nat : <<y, x>> \in R <=> y < x
  BY DEF OpToRel
<1> HIDE DEF R
<1>3. PICK x \in ns : \A y \in ns : ~ (<<y, x>> \in R)
  BY <1>1, WFMin
<1>4. \A y \in ns : x \in Nat /\ y \in Nat /\ ~ (y < x)
  BY <1>2, <1>3
<1> QED
  BY <1>3, <1>4

\* What get_header and atoi return is a value.
LEMMA ContentLengthType ==
    ASSUME NEW hs \in Seq(Header)
    PROVE  ContentLength(hs) \in Values
<1> DEFINE ns == {i \in 1 .. Len(hs) : hs[i].name = "content-length"}
           P(i) == \A j \in ns : i <= j
<1>1. CASE ns = {}
  BY <1>1, MaxContentAssumption DEF ContentLength, Values
<1>2. CASE ns # {}
  <2>1. ns \in SUBSET Nat
    BY LenProperties
  <2>2. \E i \in ns : P(i)
    BY <1>2, <2>1, LeastExists
  <2>3. ContentLength(hs) = hs[CHOOSE i \in ns : P(i)].value
    BY <1>2 DEF ContentLength
  <2>4. (CHOOSE i \in ns : P(i)) \in ns
    BY <2>2
  <2>5. \A i \in ns : hs[i] \in Header
    BY ElementOfSeq
  <2> QED
    BY <2>3, <2>4, <2>5 DEF Header
<1> QED
  BY <1>1, <1>2

-----------------------------------------------------------------------------
(* The invariant *)

LEMMA InitInv == Init => ParserInv
<1> SUFFICES ASSUME Init PROVE ParserInv
  OBVIOUS
<1>1. headers \in Seq(Header)
  BY EmptySeq DEF Init
<1>2. "method_start" \in LineStates /\ "method_start" \notin InHeader
  BY DEF LineStates, InHeader
<1>3. content \in 0 .. MaxContent
  BY MaxContentAssumption DEF Init
<1> QED
  BY <1>1, <1>2, <1>3 DEF Init, ParserInv, TypeOK, States, NoBackOfEmpty,
     BodyAsDeclared, CleanStart

\* A character that leaves the parser outside the body and without a verdict.
LEMMA StaysOutside ==
    ASSUME ParserInv, result = "indeterminate", state # "body",
           state' \in States \ {"body"}, headers' \in Seq(Header),
           state' \in InHeader => headers' # << >>,
           state' \in LineStates => headers' = << >>,
           UNCHANGED <<content, body_bytes, result>>
    PROVE  ParserInv'
BY DEF ParserInv, TypeOK, NoBackOfEmpty, BodyAsDeclared, CleanStart

LEMMA MoveInv ==
    ASSUME ParserInv, result = "indeterminate", NEW c \in Chars, Move(c)
    PROVE  ParserInv'
<1>1. headers' = headers /\ UNCHANGED <<content, body_bytes, result>>
  BY DEF Move
<1>2. state' \in States \ {"body"} /\ state # "body"
  BY MoveFacts DEF States, HeaderStates
<1>3. state' \in LineStates => state \in LineStates
  BY MoveFacts, StatesApart
<1>4. state' \in InHeader => state \in InHeader
  BY MoveFacts
<1> QED
  BY <1>1, <1>2, <1>3, <1>4, StaysOutside
     DEF ParserInv, TypeOK, NoBackOfEmpty, CleanStart

LEMMA StartLwsInv ==
    ASSUME ParserInv, result = "indeterminate", NEW c \in Chars, StartLws(c)
    PROVE  ParserInv'
<1>1. "header_lws" \in States \ {"body"} /\ "header_lws" \notin LineStates
  BY DEF States, LineStates, HeaderStates, InHeader
<1> QED
  BY <1>1, StaysOutside DEF StartLws, Folds, ParserInv, TypeOK

LEMMA StartHeaderInv ==
    ASSUME ParserInv, result = "indeterminate", NEW c \in Chars, StartHeader(c)
    PROVE  ParserInv'
<1> DEFINE h == [name |-> "other", value |-> 0]
<1>1. h \in Header
  BY MaxContentAssumption DEF Header, Names, Values
<1> HIDE DEF h
<1>2. headers' = Append(headers, h)
  BY DEF StartHeader, h
<1>3. headers' \in Seq(Header) /\ headers' # << >>
  BY <1>1, <1>2, AppendFacts DEF ParserInv, TypeOK
<1>4. "header_name" \in States \ {"body"} /\ "header_name" \notin LineStates
  BY DEF States, LineStates, HeaderStates, InHeader
<1> QED
  BY <1>3, <1>4, StaysOutside DEF StartHeader

LEMMA EndNameInv ==
    ASSUME ParserInv, result = "indeterminate", NEW c \in Chars, EndName(c)
    PROVE  ParserInv' /\ Len(headers') = Len(headers)
<1>1. headers \in Seq(Header) /\ headers # << >>
  BY DEF EndName, ParserInv, TypeOK, NoBackOfEmpty, InHeader
<1>2. PICK n \in Names : headers' = [headers EXCEPT ![Len(headers)].name = n]
  BY DEF EndName
<1> DEFINE e == [headers[Len(headers)] EXCEPT !.name = n]
<1>3. e \in Header
  BY <1>1, BackFacts, SetName
<1>4. headers' = [headers EXCEPT ![Len(headers)] = e]
  BY <1>2
<1> HIDE DEF e
<1>5. /\ headers' \in Seq(Header) /\ headers' # << >>
      /\ Len(headers') = Len(headers)
  BY <1>1, <1>3, <1>4, ExceptFacts
<1>6. /\ "space_before_header_value" \in States \ {"body"}
      /\ "space_before_header_value" \notin LineStates
  BY DEF States, LineStates, HeaderStates, InHeader
<1> QED
  BY <1>5, <1>6, StaysOutside DEF EndName

LEMMA ValueCharInv ==
    ASSUME ParserInv, result = "indeterminate", NEW c \in Chars, ValueChar(c)
    PROVE  ParserInv' /\ Len(headers') = Len(headers)
<1>1. headers \in Seq(Header) /\ headers # << >>
  BY DEF ValueChar, ParserInv, TypeOK, NoBackOfEmpty, InHeader
<1>2. PICK v \in NewValues(headers[Len(headers)]) :
           headers' = [headers EXCEPT ![Len(headers)].value = v]
  BY DEF ValueChar
<1>3. v \in Values
  BY MaxContentAssumption DEF NewValues, Values
<1> DEFINE e == [headers[Len(headers)] EXCEPT !.value = v]
<1>4. e \in Header
  BY <1>1, <1>3, BackFacts, SetValue
<1>5. headers' = [headers EXCEPT ![Len(headers)] = e]
  BY <1>2
<1> HIDE DEF e
<1>6. /\ headers' \in Seq(Header) /\ headers' # << >>
      /\ Len(headers') = Len(headers)
  BY <1>1, <1>4, <1>5, ExceptFacts
<1>7. "header_value" \in States \ {"body"} /\ "header_value" \notin LineStates
  BY DEF States, LineStates, HeaderStates, InHeader
<1> QED
  BY <1>6, <1>7, StaysOutside DEF ValueChar

LEMMA EndHeadersInv ==
    ASSUME ParserInv, result = "indeterminate", NEW c \in Chars, EndHeaders(c)
    PROVE  ParserInv'
<1> DEFINE clen == ContentLength(headers)
<1>1. clen \in 0 .. MaxContent
  BY ContentLengthType, MaxContentAssumption
     DEF EndHeaders, Fits, ParserInv, TypeOK, Values
<1>2. headers' = headers /\ content' = content /\ content = 0
      /\ ContentLength(headers)' = clen
  BY DEF EndHeaders, ParserInv, CleanStart
<1>3. "body" \notin LineStates /\ "body" \notin InHeader /\ "body" \in States
  BY StatesApart DEF States, HeaderStates
<1> HIDE DEF clen
<1>4. CASE clen > 0
  BY <1>1, <1>2, <1>3, <1>4, MaxContentAssumption DEF EndHeaders, clen,
     ParserInv, TypeOK, NoBackOfEmpty, BodyAsDeclared, CleanStart
<1>5. CASE ~ (clen > 0)
  BY <1>1, <1>2, <1>5, MaxContentAssumption DEF EndHeaders, clen,
     ParserInv, TypeOK, NoBackOfEmpty, BodyAsDeclared, CleanStart
<1> QED
  BY <1>4, <1>5

LEMMA BodyCharInv ==
    ASSUME ParserInv, result = "indeterminate", BodyChar
    PROVE  ParserInv'
<1> DEFINE clen == ContentLength(headers)
<1>1. clen \in Nat /\ clen <= MaxContent /\ content + body_bytes = clen
  BY ContentLengthType, MaxContentAssumption
     DEF BodyChar, ParserInv, TypeOK, BodyAsDeclared, Values
<1>2. headers' = headers /\ ContentLength(headers)' = clen
  BY DEF BodyChar
<1>3. "body" \notin LineStates /\ "body" \notin InHeader
  BY StatesApart DEF HeaderStates
<1> HIDE DEF clen
<1> QED
  BY <1>1, <1>2, <1>3, MaxContentAssumption DEF BodyChar, Last, clen,
     ParserInv, TypeOK, NoBackOfEmpty, BodyAsDeclared, CleanStart

LEMMA BadInv ==
    ASSUME ParserInv, NEW c \in Chars, Bad(c)
    PROVE  ParserInv'
BY DEF Bad, ParserInv, TypeOK, NoBackOfEmpty, BodyAsDeclared, CleanStart

LEMMA ResetInv ==
    ASSUME ParserInv, reset
    PROVE  ParserInv'
<1>1. /\ "method_start" \in LineStates /\ "method_start" \notin InHeader
      /\ << >> \in Seq(Header)
  BY EmptySeq DEF LineStates, InHeader
<1>2. 0 \in 0 .. MaxContent
  BY MaxContentAssumption
<1> QED
  BY <1>1, <1>2 DEF reset, ParserInv, TypeOK, States, NoBackOfEmpty,
     BodyAsDeclared, CleanStart

LEMMA NextInv == ParserInv /\ [Next]_vars => ParserInv'
<1> SUFFICES ASSUME ParserInv, [Next]_vars PROVE ParserInv'
  OBVIOUS
<1>1. CASE reset
  BY <1>1, ResetInv
<1>2. ASSUME NEW c \in Chars, consume(c) PROVE ParserInv'
  BY <1>2, MoveInv, StartLwsInv, StartHeaderInv, EndNameInv, ValueCharInv,
     EndHeadersInv, BodyCharInv, BadInv DEF consume
<1>3. CASE UNCHANGED vars
  BY <1>3 DEF vars, ParserInv, TypeOK, NoBackOfEmpty, BodyAsDeclared,
     CleanStart
<1> QED
  BY <1>1, <1>2, <1>3 DEF Next

\* The invariant of the parser holds for every sequence of characters, over
\* any number of requests of a connection (request_parser.cpp:28-308).
THEOREM ParserInvariant == Spec => []ParserInv
<1> QED
  BY InitInv, NextInv, PTL DEF Spec

\* Every variable has its type; body_bytes_ never goes below zero
\* (request_parser.hpp:67-94).
THEOREM ParserTypes == Spec => []TypeOK
<1>1. ParserInv => TypeOK
  BY DEF ParserInv
<1> QED
  BY <1>1, ParserInvariant, PTL

\* No character makes the parser call back() on an empty vector of headers
\* (request_parser.cpp:192-265).
THEOREM BackIsDefined == Spec => []NoBackOfEmpty
<1>1. ParserInv => NoBackOfEmpty
  BY DEF ParserInv
<1> QED
  BY <1>1, ParserInvariant, PTL

\* A request is complete with exactly the content it declared, whatever its
\* headers and whatever was left of the request before it
\* (request_parser.cpp:283-303).
THEOREM BodiesAreDeclared == Spec => []BodyAsDeclared
<1>1. ParserInv => BodyAsDeclared
  BY DEF ParserInv
<1> QED
  BY <1>1, ParserInvariant, PTL

-----------------------------------------------------------------------------
(* The parser implements the sections of a request *)

LEMMA MoveSections ==
    ASSUME ParserInv, result = "indeterminate", NEW c \in Chars, Move(c)
    PROVE  [Sections!Next]_(Sections!vars)
<1> USE DEF Section, Left, Sections!vars
<1>1. UNCHANGED <<headers, result>> /\ Left = 0 /\ Left' = 0
  BY MoveFacts DEF Move
<1>2. "header_line_start" \notin LineStates
  BY DEF LineStates
<1>3. CASE state \in LineStates /\ state' \in LineStates
  BY <1>1, <1>3
<1>4. CASE state \in LineStates /\ state' = "header_line_start"
  BY <1>1, <1>2, <1>4 DEF Sections!Next, Sections!LineEnds
<1>5. CASE state \in HeaderStates /\ state' \in HeaderStates
  BY <1>1, <1>5, StatesApart
<1> QED
  BY <1>3, <1>4, <1>5, MoveFacts

LEMMA HeaderSections ==
    ASSUME ParserInv, result = "indeterminate", NEW c \in Chars,
           StartLws(c) \/ StartHeader(c) \/ EndName(c) \/ ValueChar(c)
    PROVE  [Sections!Next]_(Sections!vars)
<1> USE DEF Section, Left, Sections!vars
<1>1. state \in HeaderStates /\ state' \in HeaderStates /\ result' = result
  BY DEF StartLws, StartHeader, EndName, ValueChar, HeaderStates, InHeader
<1>2. /\ Section = "headers" /\ Section' = "headers"
      /\ Left = 0 /\ Left' = 0
  BY <1>1, StatesApart
<1>3. CASE StartLws(c)
  BY <1>2, <1>3 DEF StartLws
<1>4. CASE StartHeader(c)
  <2> DEFINE h == [name |-> "other", value |-> 0]
  <2>1. h \in Header
    BY MaxContentAssumption DEF Header, Names, Values
  <2> HIDE DEF h
  <2>2. headers' = Append(headers, h)
    BY <1>4 DEF StartHeader, h
  <2>3. Len(headers') = Len(headers) + 1
    BY <2>1, <2>2, AppendFacts DEF ParserInv, TypeOK
  <2> HIDE DEF Section, Left
  <2> QED
    BY <1>2, <2>3 DEF Sections!Next, Sections!HeaderBegins
<1>5. CASE EndName(c) \/ ValueChar(c)
  BY <1>2, <1>5, EndNameInv, ValueCharInv
<1> QED
  BY <1>3, <1>4, <1>5

LEMMA EndHeadersSections ==
    ASSUME ParserInv, result = "indeterminate", NEW c \in Chars, EndHeaders(c)
    PROVE  [Sections!Next]_(Sections!vars)
<1> DEFINE clen == ContentLength(headers)
<1>1. clen \in 0 .. MaxContent
  BY ContentLengthType, MaxContentAssumption
     DEF EndHeaders, Fits, ParserInv, TypeOK, Values
<1>2. state \in HeaderStates /\ state # "body" /\ state \notin LineStates
  BY StatesApart DEF EndHeaders, HeaderStates
<1>3. Section = "headers" /\ Left = 0
  BY <1>2 DEF Section, Left
<1>4. CASE clen > 0
  <2>1. Section' = "body" /\ Left' = clen
    BY <1>4, StatesApart DEF EndHeaders, Section, Left
  <2> HIDE DEF clen
  <2> QED
    BY <1>1, <1>3, <1>4, <2>1, MaxContentAssumption
       DEF EndHeaders, Sections!Next, Sections!BodyBegins
<1>5. CASE ~ (clen > 0)
  <2>1. Section' = "accepted" /\ Left' = 0
    BY <1>2, <1>5 DEF EndHeaders, Section, Left
  <2> QED
    BY <1>3, <2>1 DEF EndHeaders, Sections!Next, Sections!Accept
<1> QED
  BY <1>4, <1>5

LEMMA BodySections ==
    ASSUME ParserInv, result = "indeterminate", BodyChar
    PROVE  [Sections!Next]_(Sections!vars)
<1>1. Section = "body" /\ Left = body_bytes
  BY StatesApart DEF BodyChar, Section, Left
<1>2. body_bytes \in 1 .. MaxContent /\ headers' = headers
  BY MaxContentAssumption DEF BodyChar, ParserInv, TypeOK, BodyAsDeclared
<1>3. CASE body_bytes = 1
  <2>1. Section' = "accepted" /\ Left' = 0
    BY <1>3 DEF BodyChar, Last, Section, Left
  <2> QED
    BY <1>1, <1>2, <1>3, <2>1 DEF Sections!Next, Sections!Accept
<1>4. CASE body_bytes # 1
  <2>1. Section' = "body" /\ Left' = body_bytes - 1
    BY <1>2, <1>4, StatesApart DEF BodyChar, Last, Section, Left
  <2> QED
    BY <1>1, <1>2, <1>4, <2>1, MaxContentAssumption
       DEF Sections!Next, Sections!BodyByte
<1> QED
  BY <1>3, <1>4

LEMMA VerdictSections ==
    ASSUME ParserInv,
           \/ reset
           \/ \E c \in Chars : result = "indeterminate" /\ Bad(c)
    PROVE  [Sections!Next]_(Sections!vars)
<1>1. CASE reset
  <2>1. "method_start" \in LineStates /\ "method_start" # "body"
    BY DEF LineStates
  <2>2. Section' = "line" /\ Left' = 0 /\ Len(headers') = 0
    BY <1>1, <2>1 DEF reset, Section, Left
  <2>3. Section \in {"accepted", "rejected"}
    BY <1>1 DEF reset, Section, ParserInv, TypeOK
  <2> QED
    BY <2>2, <2>3 DEF Sections!Next, Sections!Fresh
<1>2. ASSUME NEW c \in Chars, result = "indeterminate", Bad(c)
      PROVE  [Sections!Next]_(Sections!vars)
  <2>1. Section \in {"line", "headers"} /\ Left = 0
    BY <1>2 DEF Bad, Section, Left
  <2>2. Section' = "rejected" /\ Left' = 0 /\ headers' = headers
    BY <1>2 DEF Bad, Section, Left
  <2> QED
    BY <2>1, <2>2 DEF Sections!Next, Sections!Reject
<1> QED
  BY <1>1, <1>2

\* The parser goes through the sections of a request in order, for every
\* stream of characters (request_parser.cpp:28-308).
THEOREM ParserRefinesSections == Spec => ImplementsSections
<1>1. Init => Sections!Init
  <2>1. "method_start" \in LineStates /\ "method_start" # "body"
    BY DEF LineStates
  <2> QED
    BY <2>1 DEF Init, Sections!Init, Section, Left
<1>2. ParserInv /\ [Next]_vars => [Sections!Next]_(Sections!vars)
  <2> SUFFICES ASSUME ParserInv, [Next]_vars
               PROVE  [Sections!Next]_(Sections!vars)
    OBVIOUS
  <2>1. CASE reset
    BY <2>1, VerdictSections
  <2>2. ASSUME NEW c \in Chars, consume(c)
        PROVE  [Sections!Next]_(Sections!vars)
    BY <2>2, MoveSections, HeaderSections, EndHeadersSections, BodySections,
       VerdictSections DEF consume
  <2>3. CASE UNCHANGED vars
    BY <2>3 DEF vars, Sections!vars, Section, Left
  <2> QED
    BY <2>1, <2>2, <2>3 DEF Next
<1> QED
  BY <1>1, <1>2, ParserInvariant, PTL DEF Spec, ImplementsSections,
     Sections!Spec
=============================================================================
