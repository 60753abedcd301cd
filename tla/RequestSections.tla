-------------------------- MODULE RequestSections --------------------------
(***************************************************************************)
(* What request_parser promises about a request, without its characters:   *)
(* the request line, then headers one after another, then a body of the    *)
(* size fixed when the headers end, then the verdict.  A request can be    *)
(* rejected anywhere, and only a judged one makes place for a fresh one.   *)
(***************************************************************************)
EXTENDS Naturals

CONSTANT MaxContent   \* the largest body a request may have

VARIABLES
    section,   \* "line", "headers", "body", "accepted" or "rejected"
    nHeaders,  \* headers begun so far
    left       \* bytes of the body that are still to come

vars == <<section, nHeaders, left>>

Init == section = "line" /\ nHeaders = 0 /\ left = 0

LineEnds ==
    /\ section = "line" /\ section' = "headers"
    /\ UNCHANGED <<nHeaders, left>>

HeaderBegins ==
    /\ section = "headers"
    /\ nHeaders' = nHeaders + 1
    /\ UNCHANGED <<section, left>>

BodyBegins ==
    /\ section = "headers" /\ section' = "body"
    /\ left' \in 1 .. MaxContent
    /\ UNCHANGED nHeaders

BodyByte ==
    /\ section = "body" /\ left > 1
    /\ left' = left - 1
    /\ UNCHANGED <<section, nHeaders>>

Accept ==
    /\ \/ section = "headers"
       \/ section = "body" /\ left = 1
    /\ section' = "accepted" /\ left' = 0
    /\ UNCHANGED nHeaders

Reject ==
    /\ section \in {"line", "headers"}
    /\ section' = "rejected"
    /\ UNCHANGED <<nHeaders, left>>

Fresh ==
    /\ section \in {"accepted", "rejected"}
    /\ section' = "line" /\ nHeaders' = 0 /\ left' = 0

Next == LineEnds \/ HeaderBegins \/ BodyBegins \/ BodyByte \/ Accept
        \/ Reject \/ Fresh

Spec == Init /\ [][Next]_vars
=============================================================================
