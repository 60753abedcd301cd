--------------------------- MODULE RequestParser ---------------------------
(***************************************************************************)
(* request_parser: the HTTP/1.x request parser of one connection, fed one  *)
(* character at a time, with the request it fills (request.hpp) and the    *)
(* reset between two requests (base_connection::reset).                    *)
(*                                                                         *)
(* Characters are classes: every comparison the parser makes tells classes *)
(* apart, never two members of one.  Of a header the model keeps its name, *)
(* known at the ':', and the number that atoi reads in its value.          *)
(***************************************************************************)
EXTENDS Naturals, Sequences

CONSTANTS
    MaxContent,   \* the largest content-length accepted (16 MiB)
    MaxHeaders    \* bound: the headers of one request

ASSUME MaxContentAssumption == MaxContent \in Nat \ {0}
ASSUME MaxHeadersAssumption == MaxHeaders \in Nat

VARIABLES
    state,       \* state_
    headers,     \* req.headers
    content,     \* the length of req.content
    body_bytes,  \* body_bytes_
    result       \* what consume returned for the last character

vars == <<state, headers, content, body_bytes, result>>

-----------------------------------------------------------------------------
(* Characters *)

\* "token" and "special" are the token characters and the tspecials that have
\* no class of their own, "ctl" the other control characters, and "high" the
\* characters above 127, which are negative as a char.
Chars == {"token", "H", "T", "P", "dot", "digit", "slash", "colon", "special",
          "sp", "tab", "cr", "lf", "ctl", "high"}

is_char     == Chars \ {"high"}
is_ctl      == {"tab", "cr", "lf", "ctl"}
is_tspecial == {"slash", "colon", "special", "sp", "tab"}
Token       == is_char \ (is_ctl \cup is_tspecial)
Text        == Chars \ is_ctl

-----------------------------------------------------------------------------
(* The states and the transitions that depend on the character alone *)

LineStates == {"method_start", "method", "uri", "http_version_h",
    "http_version_t_1", "http_version_t_2", "http_version_p",
    "http_version_slash", "http_version_major_start", "http_version_major",
    "http_version_minor_start", "http_version_minor", "expecting_newline_1"}

\* The states in which req.headers.back() is the header being read.
InHeader == {"header_name", "space_before_header_value", "header_value",
    "header_lws", "expecting_newline_2"}

HeaderStates == InHeader \cup {"header_line_start", "expecting_newline_3"}

States == LineStates \cup HeaderStates \cup {"body"}

LineMoves == {
    <<"method_start",             Token,           "method">>,
    <<"method",                   {"sp"},          "uri">>,
    <<"method",                   Token,           "method">>,
    <<"uri",                      {"sp"},          "http_version_h">>,
    <<"uri",                      Text \ {"sp"},   "uri">>,
    <<"http_version_h",           {"H"},           "http_version_t_1">>,
    <<"http_version_t_1",         {"T"},           "http_version_t_2">>,
    <<"http_version_t_2",         {"T"},           "http_version_p">>,
    <<"http_version_p",           {"P"},           "http_version_slash">>,
    <<"http_version_slash",       {"slash"},       "http_version_major_start">>,
    <<"http_version_major_start", {"digit"},       "http_version_major">>,
    <<"http_version_major",       {"digit"},       "http_version_major">>,
    <<"http_version_major",       {"dot"},         "http_version_minor_start">>,
    <<"http_version_minor_start", {"digit"},       "http_version_minor">>,
    <<"http_version_minor",       {"digit"},       "http_version_minor">>,
    <<"http_version_minor",       {"cr"},          "expecting_newline_1">>,
    <<"expecting_newline_1",      {"lf"},          "header_line_start">> }

\* Header characters that change no header: line ends, blanks, name letters.
HeaderMoves == {
    <<"header_line_start",         {"cr"},         "expecting_newline_3">>,
    <<"header_name",               Token,          "header_name">>,
    <<"space_before_header_value", {"sp"},         "header_value">>,
    <<"header_value",              {"cr"},         "expecting_newline_2">>,
    <<"header_lws",                {"sp", "tab"},  "header_lws">>,
    <<"header_lws",                {"cr"},         "expecting_newline_2">>,
    <<"expecting_newline_2",       {"lf"},         "header_line_start">> }

Moves == LineMoves \cup HeaderMoves

-----------------------------------------------------------------------------
(* Headers *)

Names == {"content-length", "other"}

\* What atoi makes of a value: at most 0, a length, or more than MaxContent.
Values == 0 .. MaxContent + 1

Header == [name : Names, value : Values]

\* What one more character can make of the value, as far as the model can
\* tell; only lengths are kept.
NewValues(h) == IF h.name = "content-length" THEN Values ELSE {0}

\* The number in the first content-length header, 0 when there is none.
ContentLength(hs) ==
    LET ns == {i \in 1 .. Len(hs) : hs[i].name = "content-length"}
    IN  IF ns = {} THEN 0
        ELSE hs[CHOOSE i \in ns : \A j \in ns : i <= j].value

Init ==
    /\ state = "method_start"
    /\ headers = << >>
    /\ content = 0
    /\ body_bytes \in 0 .. MaxContent   \* not initialised by the constructor
    /\ result = "indeterminate"

-----------------------------------------------------------------------------
(* request_parser::consume *)

Move(c) ==
    /\ \E m \in Moves : state = m[1] /\ c \in m[2] /\ state' = m[3]
    /\ UNCHANGED <<headers, content, body_bytes, result>>

\* Variant: a continuation line before the first header.
FoldsAnywhere(c) == c \in {"sp", "tab"}
\* A line that starts with a blank continues the header before it.
Folds(c) == headers # << >> /\ c \in {"sp", "tab"}

StartLws(c) ==
    /\ state = "header_line_start" /\ Folds(c)
    /\ state' = "header_lws"
    /\ UNCHANGED <<headers, content, body_bytes, result>>

\* headers.push_back(header()): its name is "other" until the ':' is read.
StartHeader(c) ==
    /\ state = "header_line_start" /\ c \in Token
    /\ Len(headers) < MaxHeaders
    /\ headers' = Append(headers, [name |-> "other", value |-> 0])
    /\ state' = "header_name"
    /\ UNCHANGED <<content, body_bytes, result>>

EndName(c) ==
    /\ state = "header_name" /\ c = "colon"
    /\ \E n \in Names : headers' = [headers EXCEPT ![Len(headers)].name = n]
    /\ state' = "space_before_header_value"
    /\ UNCHANGED <<content, body_bytes, result>>

ValueChar(c) ==
    /\ \/ state = "header_value" /\ c \in Text
       \/ state = "header_lws" /\ c \in Text \ {"sp"}
    /\ \E v \in NewValues(headers[Len(headers)]) :
          headers' = [headers EXCEPT ![Len(headers)].value = v]
    /\ state' = "header_value"
    /\ UNCHANGED <<content, body_bytes, result>>

\* Variant: the limit is not tested.
FitsAlways(clen) == TRUE
\* if (clen > (16 * 1024 * 1024)) return false;
Fits(clen) == clen <= MaxContent

\* The empty line: the body follows, or the request is complete.
EndHeaders(c) ==
    LET clen == ContentLength(headers)
    IN  /\ state = "expecting_newline_3" /\ c = "lf" /\ Fits(clen)
        /\ IF clen > 0
           THEN state' = "body" /\ body_bytes' = clen /\ UNCHANGED result
           ELSE result' = "true" /\ UNCHANGED <<state, body_bytes>>
        /\ UNCHANGED <<headers, content>>

\* Variant: the test comes before the decrement.
LastTestedFirst(n) == n = 0
\* if (body_bytes_ == 0) return true; after the decrement of n.
Last(n) == n - 1 = 0

BodyChar ==
    /\ state = "body"
    /\ content' = content + 1
    /\ body_bytes' = body_bytes - 1
    /\ result' = IF Last(body_bytes) THEN "true" ELSE "indeterminate"
    /\ UNCHANGED <<state, headers>>

\* Every other character is an error.
Bad(c) ==
    /\ state # "body"
    /\ ~ \E m \in Moves : state = m[1] /\ c \in m[2]
    /\ ~ (state = "header_line_start" /\ (Folds(c) \/ c \in Token))
    /\ ~ (state = "header_name" /\ c = "colon")
    /\ ~ (state = "header_value" /\ c \in Text)
    /\ ~ (state = "header_lws" /\ c \in Text \ {"sp"})
    /\ ~ (state = "expecting_newline_3" /\ c = "lf"
             /\ Fits(ContentLength(headers)))
    /\ result' = "false"
    /\ UNCHANGED <<state, headers, content, body_bytes>>

\* request_parser::parse calls consume until it has a verdict.
consume(c) ==
    /\ result = "indeterminate"
    /\ \/ Move(c) \/ StartLws(c) \/ StartHeader(c) \/ EndName(c)
       \/ ValueChar(c) \/ EndHeaders(c) \/ BodyChar \/ Bad(c)

\* Variant: request::clear forgets the headers.
ResetKeepsHeaders ==
    /\ result # "indeterminate" /\ result' = "indeterminate"
    /\ state' = "method_start" /\ content' = 0
    /\ UNCHANGED <<headers, body_bytes>>

\* base_connection::reset, before the next request of the connection; the
\* parser's body_bytes_ is left as it was.
reset ==
    /\ result # "indeterminate" /\ result' = "indeterminate"
    /\ state' = "method_start" /\ headers' = << >> /\ content' = 0
    /\ UNCHANGED body_bytes

Next == reset \/ \E c \in Chars : consume(c)

Spec == Init /\ [][Next]_vars

-----------------------------------------------------------------------------
(* Properties *)

\* Every variable has its type (request_parser.hpp:67-94).
TypeOK ==
    /\ state \in States
    /\ headers \in Seq(Header)
    /\ content \in 0 .. MaxContent
    /\ body_bytes \in 0 .. MaxContent
    /\ result \in {"indeterminate", "true", "false"}

\* headers.back() is only called when there is a header
\* (request_parser.cpp:192, 204, 225, 240, 265).
NoBackOfEmpty == state \in InHeader => headers # << >>

\* The body_bytes_ that is counted down is this request's own: with what is
\* read already it makes up the content-length, which is within the limit, so
\* the unsigned counter stops at zero, and a request is complete with a body
\* of exactly that length (request_parser.cpp:283-303).
BodyAsDeclared ==
    /\ (state = "body" /\ result = "indeterminate") =>
          /\ body_bytes > 0 /\ ContentLength(headers) <= MaxContent
          /\ content + body_bytes = ContentLength(headers)
    /\ result = "true" => content = ContentLength(headers)

\* Nothing of an earlier request of the connection is left in the request
\* whose first line is being read, or in its body before the body begins
\* (connection.hpp:67-72, request.hpp:36-43).
CleanStart ==
    /\ state \in LineStates => headers = << >>
    /\ state # "body" => content = 0

\* Together they are inductive.
ParserInv == TypeOK /\ NoBackOfEmpty /\ BodyAsDeclared /\ CleanStart

\* The section of the request the parser is in, and the body still to come.
Section ==
    IF result = "true" THEN "accepted"
    ELSE IF result = "false" THEN "rejected"
    ELSE IF state \in LineStates THEN "line"
    ELSE IF state = "body" THEN "body" ELSE "headers"

Left == IF state = "body" /\ result = "indeterminate" THEN body_bytes ELSE 0

Sections == INSTANCE RequestSections WITH
    section <- Section, nHeaders <- Len(headers), left <- Left

\* The parser goes through the sections of a request in their order and
\* judges it once (request_parser.cpp:28-308).
ImplementsSections == Sections!Spec
=============================================================================
