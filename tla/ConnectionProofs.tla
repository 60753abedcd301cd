-------------------------- MODULE ConnectionProofs --------------------------
(***************************************************************************)
(* Theorems about a connection, for every client, buffer and request: one  *)
(* operation at a time, and the reply untouched while it is written.       *)
(***************************************************************************)
EXTENDS Connection, SequenceTheorems, TLAPS

\* The counters and the flags that the chain of operations depends on.
OpTypes ==
    /\ reads \in Nat /\ writes \in Nat /\ written \in Nat
    /\ handler \in {"start", "handle_read", "none"}
    /\ keepalive \in BOOLEAN

OpInv == OpTypes /\ OneOperation /\ HeaderHonest

LEMMA InitOps == Init => OpInv
BY DEF Init, OpInv, OpTypes, OneOperation, HeaderHonest

\* Steps of the client, and steps that leave the operations alone.
LEMMA ClientOps ==
    ASSUME OpInv, UNCHANGED <<ops, handler, object>>
    PROVE  OpInv'
BY DEF OpInv, OpTypes, OneOperation, HeaderHonest, ops, object

LEMMA ReadOps ==
    ASSUME OpInv, start \/ ReadDone \/ ReadError \/ ReadOn
    PROVE  OpInv'
<1> USE DEF OpInv, OpTypes, OneOperation, HeaderHonest, ops, object
<1>1. CASE start
  BY <1>1 DEF start, read_more
<1>2. CASE ReadDone
  BY <1>2 DEF ReadDone
<1>3. CASE ReadError
  BY <1>3 DEF ReadError, NoMore
<1>4. CASE ReadOn
  BY <1>4 DEF ReadOn, KeepReading, read_more
<1> QED
  BY <1>1, <1>2, <1>3, <1>4

LEMMA RespondOps ==
    ASSUME OpInv, RespondOk \/ RespondBad
    PROVE  OpInv'
<1> USE DEF OpInv, OpTypes, OneOperation, HeaderHonest, Answer, async_write
<1>1. CASE RespondOk
  <2>1. keepalive' \in BOOLEAN
    BY <1>1 DEF RespondOk, want_keepalive
  <2>2. reply'.connection = IF keepalive' THEN "Keep-Alive" ELSE "close"
    BY <1>1 DEF RespondOk, handle_request, HeaderFor
  <2> QED
    BY <1>1, <2>1, <2>2 DEF RespondOk
<1>2. CASE RespondBad
  <2>1. reply'.connection = "none" /\ keepalive' = keepalive
    BY <1>2 DEF RespondBad
  <2> QED
    BY <1>2, <2>1 DEF RespondBad
<1> QED
  BY <1>1, <1>2

LEMMA WriteOps ==
    ASSUME OpInv, WriteDone \/ WriteError \/ NextRequest \/ Shutdown
    PROVE  OpInv'
<1> USE DEF OpInv, OpTypes, OneOperation, HeaderHonest, object
<1>1. CASE WriteDone
  BY <1>1 DEF WriteDone
<1>2. CASE WriteError
  BY <1>2 DEF WriteError
<1>3. CASE NextRequest
  BY <1>3 DEF NextRequest
<1>4. CASE Shutdown
  BY <1>4 DEF Shutdown
<1> QED
  BY <1>1, <1>2, <1>3, <1>4

LEMMA NextOps == OpInv /\ [Next]_vars => OpInv'
<1> SUFFICES ASSUME OpInv, [Next]_vars PROVE OpInv'
  OBVIOUS
<1>1. CASE Client
  <2>1. UNCHANGED <<ops, handler, object>>
    BY <1>1 DEF Client, SendHead, SendTail, Receive, Leave
  <2> QED
    BY <2>1, ClientOps
<1>2. CASE Server
  BY <1>2, ReadOps, RespondOps, WriteOps DEF Server
<1>3. CASE Finished \/ UNCHANGED vars
  <2>1. UNCHANGED <<ops, handler, object>>
    BY <1>3 DEF Finished, vars
  <2> QED
    BY <2>1, ClientOps
<1> QED
  BY <1>1, <1>2, <1>3 DEF Next

LEMMA OpInvariant == Spec => []OpInv
<1> QED
  BY InitOps, NextOps, PTL DEF Spec

\* At most one operation or handler of a connection is under way, whatever
\* the client sends and in whatever pieces (connection.cpp:69-137).
THEOREM OperationsAreChained == Spec => []OneOperation
<1>1. OpInv => OneOperation
  BY DEF OpInv
<1> QED
  BY <1>1, OpInvariant, PTL

\* The Connection header of a reply is what handle_write will do
\* (request_handler.cpp:192-195, connection.cpp:125).
THEOREM HeadersAreHonest == Spec => []HeaderHonest
<1>1. OpInv => HeaderHonest
  BY DEF OpInv
<1> QED
  BY <1>1, OpInvariant, PTL

\* reply_ is not changed while it is being written (reply.hpp:54-56).
THEOREM RepliesAreStable == Spec => ReplyStable
<1> DEFINE Stable == writes > 0 => reply' = reply
<1>1. OpInv /\ [Next]_vars => [Stable]_vars
  <2> SUFFICES ASSUME OpInv, Next, writes > 0 PROVE reply' = reply
    OBVIOUS
  <2>1. handler = "none" /\ written = 0
    BY DEF OpInv, OpTypes, OneOperation
  <2>2. CASE Client \/ Finished
    BY <2>2 DEF Client, SendHead, SendTail, Receive, Leave, Finished, vars,
       object
  <2>3. CASE Server
    BY <2>1, <2>3 DEF Server, start, ReadDone, ReadError, RespondOk,
       RespondBad, ReadOn, WriteDone, WriteError, NextRequest, Shutdown, object
  <2> QED
    BY <2>2, <2>3 DEF Next
<1> QED
  BY <1>1, OpInvariant, PTL DEF Spec, ReplyStable

-----------------------------------------------------------------------------
(* Types *)

\* What is not yet in OpInv.
DataTypes ==
    /\ orderly \in BOOLEAN
    /\ kinds \in Seq(Kinds) /\ Len(kinds) <= Requests
    /\ tail \in BOOLEAN /\ gone \in BOOLEAN /\ got \in Seq(Reply)
    /\ toServer \in Seq(Part) /\ toClient \in Seq(Reply)
    /\ verdict \in Verdicts
    /\ request \in Seq(Part) /\ reply \in Reply
    /\ shut \in BOOLEAN

\* The types need, besides, that a tail follows a head and that handle_read has
\* got something.
Begun == (tail => kinds # << >>) /\ (handler = "handle_read" => request # << >>)

LEMMA OpsAndData == OpInv /\ DataTypes => TypeOK
BY DEF OpInv, OpTypes, OneOperation, DataTypes, TypeOK

LEMMA NewParts ==
    ASSUME NEW n \in 1 .. Requests
    PROVE  [id |-> n, of |-> "head"] \in Part /\ [id |-> n, of |-> "tail"] \in Part
BY DEF Part

LEMMA NoReply == [to |-> << >>, connection |-> "none"] \in Reply
BY EmptySeq DEF Reply

LEMMA InitTypes == Init => DataTypes /\ Begun
<1> SUFFICES ASSUME Init PROVE DataTypes /\ Begun
  OBVIOUS
<1>1. kinds \in Seq(Kinds) /\ Len(kinds) <= Requests
  BY RequestsAssumption DEF Init
<1>2. toServer \in Seq(Part) /\ toClient \in Seq(Reply) /\ got \in Seq(Reply)
      /\ request \in Seq(Part)
  BY DEF Init
<1>3. reply \in Reply /\ verdict \in Verdicts
  BY NoReply DEF Init, Verdicts
<1> QED
  BY <1>1, <1>2, <1>3 DEF Init, DataTypes, Begun

LEMMA ClientTypes ==
    ASSUME OpInv, DataTypes, Begun, Client
    PROVE  DataTypes' /\ Begun'
<1> USE RequestsAssumption
<1>1. CASE SendHead
  <2>1. PICK k \in Kinds : kinds' = Append(kinds, k)
    BY <1>1 DEF SendHead
  <2>2. /\ kinds' \in Seq(Kinds) /\ kinds' # << >>
        /\ Len(kinds') = Len(kinds) + 1 /\ Len(kinds) \in Nat
    BY <2>1, AppendProperties, LenProperties DEF DataTypes
  <2>3. Len(kinds) + 1 \in 1 .. Requests
    BY <1>1, <2>2 DEF SendHead
  <2>4. toServer' \in Seq(Part)
    BY <1>1, <2>3, NewParts, AppendProperties DEF SendHead, Send, DataTypes
  <2> QED
    BY <1>1, <2>2, <2>3, <2>4 DEF SendHead, DataTypes, Begun, object
<1>2. CASE SendTail
  <2>1. Len(kinds) \in 1 .. Requests
    BY <1>2, EmptySeq DEF SendTail, DataTypes, Begun
  <2>2. toServer' \in Seq(Part)
    BY <1>2, <2>1, NewParts, AppendProperties DEF SendTail, Send, DataTypes
  <2> QED
    BY <1>2, <2>2 DEF SendTail, DataTypes, Begun, object
<1>3. CASE Receive
  <2>1. got' \in Seq(Reply) /\ toClient' \in Seq(Reply)
    BY <1>3, HeadTailProperties, AppendProperties DEF Receive, DataTypes
  <2> QED
    BY <1>3, <2>1 DEF Receive, DataTypes, Begun, object
<1>4. CASE Leave
  BY <1>4 DEF Leave, DataTypes, Begun, net, object
<1> QED
  BY <1>1, <1>2, <1>3, <1>4 DEF Client

LEMMA ReadTypes ==
    ASSUME OpInv, DataTypes, Begun, ReadDone
    PROVE  DataTypes' /\ Begun'
<1>1. PICK n \in 1 .. BufferParts :
          /\ n <= Len(toServer)
          /\ toServer' = SubSeq(toServer, n + 1, Len(toServer))
          /\ \E m \in 1 .. n, v \in Verdicts :
                /\ Parses(SubSeq(toServer, 1, n), m, v)
                /\ verdict' = v
                /\ request' = request \o SubSeq(toServer, 1, m)
  BY DEF ReadDone
<1>2. PICK m \in 1 .. n, v \in Verdicts :
          verdict' = v /\ request' = request \o SubSeq(toServer, 1, m)
  BY <1>1
<1>3. Len(toServer) \in Nat /\ n \in Nat /\ m \in Nat /\ 1 <= m /\ m <= n
      /\ \A i \in 1 .. Len(toServer) : toServer[i] \in Part
  BY <1>1, <1>2, BufferAssumption, LenProperties, ElementOfSeq DEF DataTypes
<1>4. toServer' \in Seq(Part)
  <2>1. \A i \in n + 1 .. Len(toServer) : toServer[i] \in Part
    BY <1>3
  <2> QED
    BY <1>1, <1>3, <2>1, SubSeqProperties
<1>5. SubSeq(toServer, 1, m) \in Seq(Part) /\ Len(SubSeq(toServer, 1, m)) = m
  <2>1. \A i \in 1 .. m : toServer[i] \in Part
    BY <1>1, <1>3
  <2> QED
    BY <1>3, <2>1, SubSeqProperties
<1>6. request' \in Seq(Part) /\ Len(request') = Len(request) + m /\ Len(request) \in Nat
  BY <1>2, <1>5, ConcatProperties, LenProperties DEF DataTypes
<1>7. request' # << >>
  BY <1>3, <1>6, EmptySeq
<1> QED
  BY <1>2, <1>4, <1>6, <1>7 DEF ReadDone, DataTypes, Begun, client

LEMMA OfRequest ==
    ASSUME DataTypes, request # << >>
    PROVE  Of(request) \in 0 .. Requests
<1>1. Len(request) \in Nat \ {0} /\ request[1] \in Part
  BY EmptySeq, ElementOfSeq DEF DataTypes
<1> QED
  BY <1>1, RequestsAssumption DEF Of, Part

LEMMA ServerTypes ==
    ASSUME OpInv, DataTypes, Begun, Server, ~ReadDone
    PROVE  DataTypes' /\ Begun'
<1> USE DEF object, client, net
<1>1. CASE start \/ ReadError \/ ReadOn \/ WriteError
  BY <1>1 DEF start, ReadError, ReadOn, WriteError, DataTypes, Begun
<1>2. CASE RespondOk
  <2>1. Append(reply.to, Of(request)) \in Seq(0 .. Requests)
    BY <1>2, OfRequest, AppendProperties DEF RespondOk, DataTypes, Begun, Reply
  <2>2. reply' \in Reply
    BY <1>2, <2>1 DEF RespondOk, handle_request, Reply
  <2> QED
    BY <1>2, <2>2 DEF RespondOk, DataTypes, Begun
<1>3. CASE RespondBad
  <2>1. reply' \in Reply
    BY <1>3, OfRequest DEF RespondBad, DataTypes, Begun, Reply
  <2> QED
    BY <1>3, <2>1 DEF RespondBad, DataTypes, Begun
<1>4. CASE WriteDone
  <2>1. toClient' \in Seq(Reply)
    BY <1>4, AppendProperties DEF WriteDone, DataTypes
  <2> QED
    BY <1>4, <2>1 DEF WriteDone, DataTypes, Begun
<1>5. CASE NextRequest
  BY <1>5, NoReply, EmptySeq DEF NextRequest, reset, DataTypes, Begun
<1>6. CASE Shutdown
  <2>1. toClient' \in Seq(Reply)
    BY <1>6, EmptySeq DEF Shutdown, DataTypes
  <2> QED
    BY <1>6, <2>1 DEF Shutdown, DataTypes, Begun
<1> QED
  BY <1>1, <1>2, <1>3, <1>4, <1>5, <1>6 DEF Server

LEMMA NextTypes == OpInv /\ DataTypes /\ Begun /\ [Next]_vars => DataTypes' /\ Begun'
<1> SUFFICES ASSUME OpInv, DataTypes, Begun, [Next]_vars PROVE DataTypes' /\ Begun'
  OBVIOUS
<1>1. CASE UNCHANGED vars
  BY <1>1 DEF vars, client, net, object, DataTypes, Begun
<1> QED
  BY <1>1, ClientTypes, ReadTypes, ServerTypes DEF Next, Finished

TypeInv == OpInv /\ DataTypes /\ Begun

LEMMA TypeInvariant == Spec => []TypeInv
<1>1. Init => TypeInv
  BY InitOps, InitTypes DEF TypeInv
<1>2. TypeInv /\ [Next]_vars => TypeInv'
  BY NextOps, NextTypes DEF TypeInv
<1> QED
  BY <1>1, <1>2, PTL DEF Spec

\* Every variable of a connection and of its client has its type: no more
\* requests are asked, and no more operations started, than there can be
\* (connection.cpp:65-127).
THEOREM ConnectionTypes == Spec => []TypeOK
<1>1. TypeInv => TypeOK
  BY OpsAndData DEF TypeInv
<1> QED
  BY <1>1, TypeInvariant, PTL

-----------------------------------------------------------------------------
(* One reply to each request of a client that waits *)

Delivered == Len(got) + Len(toClient)

\* What a client that waits has sent of the request that is not yet answered.
Unanswered ==
    LET n == Len(kinds)
    IN  IF n = Delivered THEN << >>
        ELSE IF tail THEN <<[id |-> n, of |-> "head"]>>
        ELSE <<[id |-> n, of |-> "head"], [id |-> n, of |-> "tail"]>>

\* Such a client is at most one request ahead of the replies; what has come of it
\* is in request_, and nothing of an earlier one is in reply_, except for what is
\* being written (connection.cpp:69-137).
InTurn ==
    /\ \A i \in DOMAIN kinds : kinds[i] # "bad"
    /\ Alive => /\ ~shut
                /\ Len(kinds) \in {Delivered, Delivered + 1}
                /\ Len(kinds) = Delivered => ~tail
    /\ handler # "none" \/ reads > 0 =>
          reply.to = << >> /\ request \o toServer = Unanswered
    /\ handler = "handle_read" =>
          verdict # "false" /\ (verdict = "true" => Len(request) = 2)
    /\ writes > 0 => /\ Len(kinds) = Delivered + 1 /\ ~tail
                     /\ toServer = << >> /\ reply.to = <<Len(kinds)>>
    /\ written > 0 => reply.to = <<Delivered>> /\ toServer = Unanswered

HeadOf(n) == [id |-> n, of |-> "head"]
TailOf(n) == [id |-> n, of |-> "tail"]

LEMMA ConcatAppend ==
    ASSUME NEW S, NEW s \in Seq(S), NEW t \in Seq(S), NEW e \in S
    PROVE  s \o Append(t, e) = Append(s \o t, e)
<1>1. Append(t, e) = t \o <<e>> /\ Append(s \o t, e) = (s \o t) \o <<e>>
  BY AppendIsConcat, ConcatProperties
<1>2. <<e>> \in Seq(S)
  OBVIOUS
<1> QED
  BY <1>1, <1>2, ConcatAssociative

LEMMA MoveHead ==
    ASSUME NEW S, NEW s \in Seq(S), NEW t \in Seq(S), t # << >>
    PROVE  Append(s, Head(t)) \o Tail(t) = s \o t
<1>1. /\ Head(t) \in S /\ Tail(t) \in Seq(S) /\ Len(Tail(t)) = Len(t) - 1
      /\ \A i \in 1 .. Len(Tail(t)) : Tail(t)[i] = t[i + 1]
  BY HeadTailProperties
<1>2. Append(s, Head(t)) \in Seq(S) /\ Len(Append(s, Head(t))) = Len(s) + 1
      /\ (\A i \in 1 .. Len(s) : Append(s, Head(t))[i] = s[i])
      /\ Append(s, Head(t))[Len(s) + 1] = Head(t)
  BY <1>1, AppendProperties
<1>3. Len(s) \in Nat /\ Len(t) \in Nat /\ Head(t) = t[1] /\ Len(t) > 0
  BY LenProperties, EmptySeq
<1> DEFINE l == Append(s, Head(t)) \o Tail(t)
           r == s \o t
<1>4. /\ l \in Seq(S) /\ Len(l) = Len(s) + Len(t)
      /\ \A i \in 1 .. Len(s) + Len(t) :
            l[i] = IF i <= Len(s) + 1 THEN Append(s, Head(t))[i]
                   ELSE Tail(t)[i - (Len(s) + 1)]
  BY <1>1, <1>2, <1>3, ConcatProperties
<1>5. /\ r \in Seq(S) /\ Len(r) = Len(s) + Len(t)
      /\ \A i \in 1 .. Len(s) + Len(t) :
            r[i] = IF i <= Len(s) THEN s[i] ELSE t[i - Len(s)]
  BY ConcatProperties
<1> HIDE DEF l, r
<1>6. ASSUME NEW i \in 1 .. Len(l) PROVE l[i] = r[i]
  <2>1. CASE i <= Len(s)
    BY <1>2, <1>3, <1>4, <1>5, <2>1
  <2>2. CASE i = Len(s) + 1
    BY <1>2, <1>3, <1>4, <1>5, <2>2
  <2>3. CASE i > Len(s) + 1
    <3>1. i - (Len(s) + 1) \in 1 .. Len(Tail(t))
      BY <1>1, <1>3, <1>4, <2>3
    <3>2. l[i] = t[i - (Len(s) + 1) + 1]
      BY <1>1, <1>3, <1>4, <2>3, <3>1
    <3> QED
      BY <1>3, <1>4, <1>5, <2>3, <3>2
  <2> QED
    BY <1>3, <1>4, <2>1, <2>2, <2>3
<1>7. l = r
  BY <1>4, <1>5, <1>6, SeqEqual
<1> QED
  BY <1>7 DEF l, r

\* The four things a client that waits can have sent.
LEMMA UnansweredIs ==
    ASSUME DataTypes, Len(kinds) \in {Delivered, Delivered + 1},
           Len(kinds) = Delivered => ~tail
    PROVE  /\ Delivered \in Nat
           /\ Len(kinds) = Delivered => Unanswered = << >>
           /\ Len(kinds) = Delivered + 1 /\ tail => Unanswered = <<HeadOf(Len(kinds))>>
           /\ Len(kinds) = Delivered + 1 /\ ~tail =>
                 Unanswered = <<HeadOf(Len(kinds)), TailOf(Len(kinds))>>
<1>1. Delivered \in Nat
  BY LenProperties DEF DataTypes, Delivered
<1> QED
  BY <1>1 DEF Unanswered, HeadOf, TailOf

LEMMA InitTurn == Init => InTurn /\ RepliesMatch
<1> SUFFICES ASSUME Init PROVE InTurn /\ RepliesMatch
  OBVIOUS
<1>1. Len(kinds) = 0 /\ Delivered = 0 /\ Unanswered = << >>
  BY DEF Init, Delivered, Unanswered
<1>2. request \o toServer = << >> /\ got \o toClient = << >>
  BY DEF Init
<1> QED
  BY <1>1, <1>2 DEF Init, InTurn, RepliesMatch, Alive

LEMMA SendHeadTurn ==
    ASSUME TypeInv, orderly, InTurn, SendHead
    PROVE  InTurn'
<1> USE DEF TypeInv
<1>1. Alive /\ ~shut /\ Len(got) >= Len(kinds) /\ ~tail
  BY DEF SendHead, Closed, MayBegin
<1>2. /\ Len(kinds) \in Nat /\ Len(got) \in Nat /\ Len(toClient) \in Nat
      /\ Len(kinds) \in {Delivered, Delivered + 1}
  BY <1>1, LenProperties DEF DataTypes, InTurn
<1>3. Len(kinds) = Delivered /\ toClient = << >> /\ Unanswered = << >>
  BY <1>1, <1>2, EmptySeq DEF Delivered, DataTypes, Unanswered
<1>4. PICK k \in Kinds \ {"bad"} : kinds' = Append(kinds, k)
  BY DEF SendHead
<1>5. Len(kinds') = Len(kinds) + 1 /\ \A i \in DOMAIN kinds' : kinds'[i] # "bad"
  BY <1>4, AppendProperties, LenProperties DEF DataTypes, InTurn
<1>6. Delivered' = Delivered /\ tail' = TRUE /\ Delivered \in Nat
  BY <1>2 DEF SendHead, Delivered
<1>7. Unanswered' = <<HeadOf(Len(kinds) + 1)>>
  BY <1>3, <1>5, <1>6 DEF Unanswered, HeadOf
<1>8. toServer' = Append(toServer, HeadOf(Len(kinds) + 1))
  BY DEF SendHead, Send, HeadOf
<1>9. UNCHANGED <<handler, verdict, request, reply, reads, writes, written, shut>>
      /\ Alive' = Alive
  BY DEF SendHead, ops, object, Alive
<1>10. ASSUME handler # "none" \/ reads > 0
       PROVE  reply.to = << >> /\ request' \o toServer' = Unanswered'
  <2>1. request \o toServer = << >> /\ reply.to = << >>
    BY <1>3, <1>10 DEF InTurn
  <2>2. request = << >> /\ toServer = << >>
    BY <2>1, ConcatEqualIffEmpty DEF DataTypes
  <2> QED
    BY <1>7, <1>8, <1>9, <2>1, <2>2
<1>11. ~(writes > 0)
  BY <1>3, <1>6 DEF InTurn
<1>12. ASSUME written > 0 PROVE reply.to = <<Delivered>> /\ toServer' = Unanswered'
  BY <1>3, <1>7, <1>8, <1>12 DEF InTurn
<1>13. handler = "handle_read" => verdict # "false" /\ (verdict = "true" => Len(request) = 2)
  BY DEF InTurn
<1> QED
  BY <1>1, <1>3, <1>5, <1>6, <1>9, <1>10, <1>11, <1>12, <1>13 DEF InTurn

LEMMA SendTailTurn ==
    ASSUME TypeInv, orderly, InTurn, SendTail
    PROVE  InTurn'
<1> USE DEF TypeInv
<1>1. Alive /\ ~shut /\ tail /\ tail' = FALSE
  BY DEF SendTail, Closed
<1>2. /\ Len(kinds) = Delivered + 1 /\ Delivered \in Nat
      /\ Unanswered = <<HeadOf(Len(kinds))>>
  BY <1>1, UnansweredIs DEF InTurn
<1>3. Len(kinds) \in 1 .. Requests
  BY <1>1, EmptySeq, RequestsAssumption DEF DataTypes, Begun
<1>4. HeadOf(Len(kinds)) \in Part /\ TailOf(Len(kinds)) \in Part
  BY <1>3, NewParts DEF HeadOf, TailOf
<1>5. kinds' = kinds /\ Delivered' = Delivered
  BY DEF SendTail, Delivered
<1>6. Unanswered' = <<HeadOf(Len(kinds)), TailOf(Len(kinds))>>
  BY <1>1, <1>2, <1>5 DEF Unanswered, HeadOf, TailOf
<1>7. Unanswered' = Append(Unanswered, TailOf(Len(kinds)))
  BY <1>2, <1>6
<1>8. toServer' = Append(toServer, TailOf(Len(kinds)))
  BY DEF SendTail, Send, TailOf
<1>9. UNCHANGED <<handler, verdict, request, reply, reads, writes, written, shut>>
      /\ Alive' = Alive
  BY DEF SendTail, ops, object, Alive
<1>10. ASSUME handler # "none" \/ reads > 0
       PROVE  reply.to = << >> /\ request' \o toServer' = Unanswered'
  <2>1. request \o toServer = Unanswered /\ reply.to = << >>
    BY <1>10 DEF InTurn
  <2>2. request \o toServer' = Append(request \o toServer, TailOf(Len(kinds)))
    BY <1>4, <1>8, ConcatAppend DEF DataTypes
  <2> QED
    BY <1>7, <1>9, <2>1, <2>2
<1>11. ~(writes > 0)
  BY <1>1 DEF InTurn
<1>12. ASSUME written > 0 PROVE reply.to = <<Delivered>> /\ toServer' = Unanswered'
  BY <1>7, <1>8, <1>12 DEF InTurn
<1>13. /\ handler = "handle_read" => verdict # "false" /\ (verdict = "true" => Len(request) = 2)
       /\ \A i \in DOMAIN kinds : kinds[i] # "bad"
  BY DEF InTurn
<1> QED
  BY <1>1, <1>2, <1>5, <1>9, <1>10, <1>11, <1>12, <1>13 DEF InTurn

LEMMA ReceiveTurn ==
    ASSUME TypeInv, orderly, InTurn, RepliesMatch, Receive
    PROVE  InTurn' /\ RepliesMatch'
<1> USE DEF TypeInv
<1>1. got' = Append(got, Head(toClient)) /\ toClient' = Tail(toClient) /\ toClient # << >>
  BY DEF Receive
<1>2. Delivered' = Delivered
  BY <1>1, LenProperties, EmptySeq, AppendProperties, HeadTailProperties
     DEF Delivered, DataTypes
<1>3. got' \o toClient' = got \o toClient
  BY <1>1, MoveHead DEF DataTypes
<1>4. UNCHANGED <<orderly, kinds, tail, toServer, handler, verdict, request, reply, reads,
                  writes, written, shut>>
  BY DEF Receive, ops, object
<1>5. Alive' = Alive /\ Unanswered' = Unanswered
  BY <1>2, <1>4 DEF Alive, Unanswered
<1> QED
  BY <1>2, <1>3, <1>4, <1>5 DEF InTurn, RepliesMatch

LEMMA IsOne ==
    ASSUME NEW S, NEW s \in Seq(S), Len(s) = 1
    PROVE  s = <<s[1]>>
<1>1. s[1] \in S
  BY ElementOfSeq
<1>2. <<s[1]>> \in Seq(S) /\ Len(<<s[1]>>) = 1 /\ <<s[1]>>[1] = s[1]
  BY <1>1
<1>3. \A i \in 1 .. Len(s) : s[i] = <<s[1]>>[i]
  BY <1>2
<1> QED
  BY <1>2, <1>3, SeqEqual

LEMMA IsTwo ==
    ASSUME NEW S, NEW s \in Seq(S), Len(s) = 2
    PROVE  s = <<s[1], s[2]>>
<1> DEFINE t == <<s[1], s[2]>>
<1>1. s[1] \in S /\ s[2] \in S
  BY ElementOfSeq
<1>2. t \in Seq(S) /\ Len(t) = 2 /\ t[1] = s[1] /\ t[2] = s[2]
  BY <1>1
<1>3. \A i \in 1 .. Len(s) : s[i] = t[i]
  BY <1>2
<1> QED
  BY <1>2, <1>3, SeqEqual

LEMMA ShortSubSeqs ==
    ASSUME NEW x, NEW y
    PROVE  /\ SubSeq(<<x>>, 1, 0) = << >> /\ SubSeq(<<x, y>>, 1, 0) = << >>
           /\ SubSeq(<<x>>, 1, 1) = <<x>> /\ SubSeq(<<x, y>>, 1, 1) = <<x>>
           /\ SubSeq(<<x>>, 2, 1) = << >> /\ SubSeq(<<x, y>>, 2, 2) = <<y>>
           /\ SubSeq(<<x, y>>, 1, 2) = <<x, y>> /\ SubSeq(<<x, y>>, 3, 2) = << >>
<1> DEFINE S == {x, y}
<1>1. SubSeq(<<x>>, 1, 0) = << >> /\ SubSeq(<<x, y>>, 1, 0) = << >>
      /\ SubSeq(<<x>>, 2, 1) = << >> /\ SubSeq(<<x, y>>, 3, 2) = << >>
  BY SubSeqEmpty
<1>2. ASSUME NEW s, s[1] = x PROVE SubSeq(s, 1, 1) = <<x>>
  <2>1. \A i \in 1 .. 1 : s[i] \in S
    BY <1>2
  <2> DEFINE t == SubSeq(s, 1, 1)
  <2>2. t \in Seq(S) /\ Len(t) = 1 /\ t[1] = x
    BY <1>2, <2>1, SubSeqProperties
  <2> QED
    BY <2>2, IsOne
<1>3. SubSeq(<<x, y>>, 2, 2) = <<y>>
  <2> DEFINE s == <<x, y>>
             t == SubSeq(s, 2, 2)
  <2>1. \A i \in 2 .. 2 : s[i] \in S
    OBVIOUS
  <2>2. t \in Seq(S) /\ Len(t) = 1 /\ t[1] = y
    BY <2>1, SubSeqProperties
  <2> QED
    BY <2>2, IsOne
<1>4. SubSeq(<<x, y>>, 1, 2) = <<x, y>>
  <2> DEFINE s == <<x, y>>
             t == SubSeq(s, 1, 2)
  <2>1. \A i \in 1 .. 2 : s[i] \in S
    OBVIOUS
  <2>2. t \in Seq(S) /\ Len(t) = 2 /\ t[1] = x /\ t[2] = y
    BY <2>1, SubSeqProperties
  <2> QED
    <3> HIDE DEF t, S
    <3>1. t = <<x, y>>
      BY <2>2, IsTwo
    <3> QED
      BY <3>1 DEF t
<1>5. SubSeq(<<x>>, 1, 1) = <<x>> /\ SubSeq(<<x, y>>, 1, 1) = <<x>>
  BY <1>2
<1> QED
  BY <1>1, <1>3, <1>4, <1>5

LEMMA ShortConcats ==
    ASSUME NEW x, NEW y
    PROVE  /\ << >> \o <<x>> = <<x>> /\ <<x>> \o << >> = <<x>>
           /\ << >> \o <<x, y>> = <<x, y>> /\ <<x, y>> \o << >> = <<x, y>>
           /\ <<x>> \o <<y>> = <<x, y>>
<1> DEFINE S == {x, y}
<1>1. << >> \in Seq(S) /\ <<x>> \in Seq(S) /\ <<y>> \in Seq(S) /\ <<x, y>> \in Seq(S)
  OBVIOUS
<1>2. /\ << >> \o <<x>> = <<x>> /\ <<x>> \o << >> = <<x>>
      /\ << >> \o <<x, y>> = <<x, y>> /\ <<x, y>> \o << >> = <<x, y>>
  BY <1>1, ConcatEmptySeq
<1>3. <<x>> \o <<y>> = <<x, y>>
  <2> DEFINE s == <<x>> \o <<y>>
  <2>1. s \in Seq(S) /\ Len(s) = 2 /\ s[1] = x /\ s[2] = y
    BY <1>1, ConcatProperties
  <2> HIDE DEF s, S
  <2>2. s = <<x, y>>
    BY <2>1, IsTwo
  <2> QED
    BY <2>2 DEF s
<1> QED
  BY <1>2, <1>3

LEMMA ShortSplits ==
    ASSUME NEW S, NEW r \in Seq(S), NEW s \in Seq(S), s # << >>
    PROVE  /\ Len(r \o s) = 1 => r = << >> /\ s = r \o s
           /\ Len(r \o s) = 2 => \/ r = << >> /\ s = r \o s
                                 \/ r = <<(r \o s)[1]>> /\ s = <<(r \o s)[2]>>
<1> DEFINE c == r \o s
<1>1. /\ c \in Seq(S) /\ Len(c) = Len(r) + Len(s)
      /\ \A i \in 1 .. Len(r) + Len(s) : c[i] = IF i <= Len(r) THEN r[i] ELSE s[i - Len(r)]
  BY ConcatProperties
<1>2. Len(r) \in Nat /\ Len(s) \in Nat \ {0}
  BY LenProperties, EmptySeq
<1>3. r = << >> => s = c
  BY ConcatEmptySeq
<1> HIDE DEF c
<1>4. ASSUME Len(c) = 1 PROVE r = << >>
  <2>1. Len(r) = 0
    BY <1>1, <1>2, <1>4
  <2> QED
    BY <2>1, EmptySeq
<1>5. ASSUME Len(c) = 2, r # << >> PROVE r = <<c[1]>> /\ s = <<c[2]>>
  <2>1. Len(r) = 1 /\ Len(s) = 1
    <3>1. Len(r) # 0
      BY <1>5, EmptySeq
    <3> QED
      <4>1. PICK a \in Nat \ {0}, b \in Nat \ {0} : a = Len(r) /\ b = Len(s)
        BY <1>2, <3>1
      <4>2. a + b = 2
        BY <1>1, <1>5, <4>1
      <4>3. a = 1 /\ b = 1
        BY ONLY <4>2
      <4> QED
        BY <4>1, <4>3
  <2>2. r[1] = c[1] /\ s[1] = c[2]
    BY <1>1, <2>1
  <2> QED
    BY <2>1, <2>2, IsOne
<1>6. /\ Len(c) = 1 => r = << >> /\ s = c
      /\ Len(c) = 2 => \/ r = << >> /\ s = c
                       \/ r = <<c[1]>> /\ s = <<c[2]>>
  BY <1>3, <1>4, <1>5
<1> QED
  BY <1>6 DEF c

\* What the parser makes of the parts of a proper request that arrive in order.
LEMMA JudgeInOrder ==
    ASSUME NEW n, kinds[n] # "bad"
    PROVE  /\ Judge(<< >>, HeadOf(n)) = {"indeterminate"}
           /\ Judge(<<HeadOf(n)>>, TailOf(n)) = {"true"}
BY DEF Judge, Continues, HeadOf, TailOf

\* A read consumes all that it got of such a request.
LEMMA ReadInOrder ==
    ASSUME TypeInv, orderly, InTurn, ReadDone
    PROVE  /\ request' \o toServer' = request \o toServer
           /\ verdict' # "false" /\ (verdict' = "true" => Len(request') = 2)
<1> USE DEF TypeInv
<1> DEFINE N == Len(kinds)
           h == HeadOf(N)
           t == TailOf(N)
<1>1. PICK n \in 1 .. BufferParts :
          /\ n <= Len(toServer)
          /\ toServer' = SubSeq(toServer, n + 1, Len(toServer))
          /\ \E m \in 1 .. n, v \in Verdicts :
                /\ Parses(SubSeq(toServer, 1, n), m, v)
                /\ verdict' = v
                /\ request' = request \o SubSeq(toServer, 1, m)
  BY DEF ReadDone
<1>2. PICK m \in 1 .. n : /\ Parses(SubSeq(toServer, 1, n), m, verdict')
                          /\ request' = request \o SubSeq(toServer, 1, m)
  BY <1>1
<1>3. /\ n \in Nat /\ m \in Nat /\ 1 <= m /\ m <= n /\ Len(toServer) \in Nat
      /\ Len(toServer) # 0
  BY <1>1, <1>2, BufferAssumption, LenProperties DEF DataTypes
<1>4. toServer # << >>
  BY <1>3
<1>5. Alive /\ request \o toServer = Unanswered
  BY DEF ReadDone, InTurn, Alive, OpInv, OpTypes
<1>6. N = Delivered + 1 /\ Delivered \in Nat /\ (Unanswered = <<h>> \/ Unanswered = <<h, t>>)
  <2>1. Unanswered # << >>
    BY <1>4, <1>5, ConcatEqualIffEmpty DEF DataTypes
  <2> QED
    BY <1>5, <2>1, UnansweredIs DEF InTurn
<1>7. kinds[N] # "bad"
  <2>1. DOMAIN kinds = 1 .. N
    BY LenProperties DEF DataTypes
  <2> QED
    BY <1>6, <2>1 DEF InTurn
<1>8. Judge(<< >>, h) = {"indeterminate"} /\ Judge(<<h>>, t) = {"true"}
  BY <1>7, JudgeInOrder
<1> HIDE DEF N, h, t
<1>9. /\ SubSeq(<<h>>, 1, 0) = << >> /\ SubSeq(<<h, t>>, 1, 0) = << >>
      /\ SubSeq(<<h>>, 1, 1) = <<h>> /\ SubSeq(<<h, t>>, 1, 1) = <<h>>
      /\ SubSeq(<<h>>, 2, 1) = << >> /\ SubSeq(<<h, t>>, 2, 2) = <<t>>
      /\ SubSeq(<<h, t>>, 1, 2) = <<h, t>> /\ SubSeq(<<h, t>>, 3, 2) = << >>
      /\ SubSeq(<<t>>, 1, 0) = << >> /\ SubSeq(<<t>>, 1, 1) = <<t>>
      /\ SubSeq(<<t>>, 2, 1) = << >>
  BY ShortSubSeqs
<1>10. /\ << >> \o << >> = << >> /\ << >> \o <<h>> = <<h>> /\ <<h>> \o << >> = <<h>>
       /\ << >> \o <<h, t>> = <<h, t>> /\ <<h>> \o <<t>> = <<h, t>>
       /\ <<h, t>> \o << >> = <<h, t>>
       /\ Len(<<h>>) = 1 /\ Len(<<t>>) = 1 /\ Len(<<h, t>>) = 2
       /\ <<h>>[1] = h /\ <<t>>[1] = t /\ <<h, t>>[1] = h /\ <<h, t>>[2] = t
  <2>1. << >> \o << >> = << >>
    OBVIOUS
  <2>2. /\ << >> \o <<h>> = <<h>> /\ <<h>> \o << >> = <<h>>
        /\ << >> \o <<h, t>> = <<h, t>> /\ <<h>> \o <<t>> = <<h, t>>
        /\ <<h, t>> \o << >> = <<h, t>>
    BY ShortConcats
  <2>3. /\ Len(<<h>>) = 1 /\ Len(<<t>>) = 1 /\ Len(<<h, t>>) = 2
        /\ <<h>>[1] = h /\ <<t>>[1] = t /\ <<h, t>>[1] = h /\ <<h, t>>[2] = t
    OBVIOUS
  <2> QED
    BY <2>1, <2>2, <2>3
<1>11. \/ request = << >> /\ toServer = <<h>>
       \/ request = << >> /\ toServer = <<h, t>>
       \/ request = <<h>> /\ toServer = <<t>>
  <2>1. request \in Seq(Part) /\ toServer \in Seq(Part)
    BY DEF DataTypes
  <2>2. request \o toServer = <<h>> \/ request \o toServer = <<h, t>>
    BY <1>5, <1>6
  <2> QED
    <3>1. CASE request \o toServer = <<h>>
      <4>1. Len(request \o toServer) = 1
        BY <1>10, <3>1
      <4> QED
        BY <1>4, <2>1, <3>1, <4>1, ShortSplits
    <3>2. CASE request \o toServer = <<h, t>>
      <4>1. /\ Len(request \o toServer) = 2
            /\ (request \o toServer)[1] = h /\ (request \o toServer)[2] = t
        BY <1>10, <3>2
      <4> QED
        BY <1>4, <2>1, <3>2, <4>1, ShortSplits
    <3> QED
      BY <2>2, <3>1, <3>2
<1> DEFINE data == SubSeq(toServer, 1, n)
           before == request \o SubSeq(data, 1, m - 1)
<1>12. verdict' \in Judge(before, data[m]) /\ (verdict' = "indeterminate" => m = Len(data))
  BY <1>2 DEF Parses
<1>13. CASE request = << >> /\ toServer = <<h>>
  <2>1. n = 1 /\ m = 1 /\ Len(toServer) = 1 /\ m - 1 = 0 /\ n + 1 = 2
    BY <1>1, <1>3, <1>10, <1>13
  <2>2. request' = <<h>> /\ toServer' = << >>
    BY <1>1, <1>2, <1>9, <1>10, <1>13, <2>1
  <2>3. data = <<h>> /\ before = << >>
    BY <1>9, <1>10, <1>13, <2>1
  <2> HIDE DEF data, before
  <2>4. verdict' \in Judge(<< >>, h)
    BY <1>10, <1>12, <2>1, <2>3
  <2> QED
    BY <1>8, <1>10, <1>13, <2>2, <2>4
<1>14. CASE request = << >> /\ toServer = <<h, t>>
  <2>1. Len(toServer) = 2 /\ (n = 1 \/ n = 2)
    BY <1>1, <1>3, <1>10, <1>14
  <2>2. CASE n = 1
    <3>1. m = 1 /\ m - 1 = 0 /\ n + 1 = 2
      BY <1>3, <2>2
    <3>2. request' = <<h>> /\ toServer' = <<t>>
      BY <1>1, <1>2, <1>9, <1>10, <1>14, <2>1, <2>2, <3>1
    <3>3. data = <<h>> /\ before = << >>
      BY <1>9, <1>10, <1>14, <2>2, <3>1
    <3> HIDE DEF data, before
    <3>4. verdict' \in Judge(<< >>, h)
      BY <1>10, <1>12, <3>1, <3>3
    <3> QED
      BY <1>8, <1>10, <1>14, <3>2, <3>4
  <2>3. CASE n = 2
    <3>1. data = <<h, t>> /\ n + 1 = 3
      BY <1>9, <1>14, <2>3
    <3>2. m # 1
      <4> SUFFICES ASSUME m = 1 PROVE FALSE
        OBVIOUS
      <4>1. before = << >>
        BY <1>9, <1>10, <1>14, <3>1
      <4> HIDE DEF data, before
      <4>2. verdict' \in Judge(<< >>, h) /\ (verdict' = "indeterminate" => m = 2)
        BY <1>10, <1>12, <3>1, <4>1
      <4> QED
        BY <1>8, <4>2
    <3>3. m = 2 /\ m - 1 = 1
      BY <1>3, <2>3, <3>2
    <3>4. request' = <<h, t>> /\ toServer' = << >>
      BY <1>1, <1>2, <1>9, <1>10, <1>14, <2>1, <2>3, <3>1, <3>3
    <3>5. before = <<h>>
      BY <1>9, <1>10, <1>14, <3>1, <3>3
    <3> HIDE DEF data, before
    <3>6. verdict' \in Judge(<<h>>, t)
      BY <1>10, <1>12, <3>1, <3>3, <3>5
    <3> QED
      BY <1>8, <1>10, <1>14, <3>4, <3>6
  <2> QED
    BY <2>1, <2>2, <2>3
<1>15. CASE request = <<h>> /\ toServer = <<t>>
  <2>1. n = 1 /\ m = 1 /\ Len(toServer) = 1 /\ m - 1 = 0 /\ n + 1 = 2
    BY <1>1, <1>3, <1>10, <1>15
  <2>2. request' = <<h, t>> /\ toServer' = << >>
    BY <1>1, <1>2, <1>9, <1>10, <1>15, <2>1
  <2>3. data = <<t>> /\ before = <<h>>
    BY <1>9, <1>10, <1>15, <2>1
  <2> HIDE DEF data, before
  <2>4. verdict' \in Judge(<<h>>, t)
    BY <1>10, <1>12, <2>1, <2>3
  <2> QED
    BY <1>8, <1>10, <1>15, <2>2, <2>4
<1> QED
  BY <1>11, <1>13, <1>14, <1>15

LEMMA ReadTurn ==
    ASSUME TypeInv, orderly, InTurn, ReadDone
    PROVE  InTurn'
<1> USE DEF TypeInv
<1>1. /\ handler = "none" /\ handler' = "handle_read" /\ reads > 0 /\ reads' = reads - 1
      /\ UNCHANGED <<kinds, tail, got, toClient, reply, writes, written, shut>>
  BY DEF ReadDone, client
<1>2. writes = 0 /\ written = 0 /\ Alive /\ Alive'
  BY <1>1 DEF OpInv, OpTypes, OneOperation, Alive
<1>3. Delivered' = Delivered /\ Unanswered' = Unanswered
  BY <1>1 DEF Delivered, Unanswered
<1>4. reply.to = << >> /\ request' \o toServer' = Unanswered
  BY <1>1, ReadInOrder DEF InTurn
<1> QED
  BY <1>1, <1>2, <1>3, <1>4, ReadInOrder DEF InTurn

\* A connection without an operation or a handler is no longer alive.
LEMMA DeadTurn ==
    ASSUME InTurn, handler' = "none", reads' = 0, writes' = 0, written' = 0, kinds' = kinds
    PROVE  InTurn'
<1>1. ~Alive'
  BY DEF Alive
<1> QED
  BY <1>1 DEF InTurn

LEMMA AnsweredRequest ==
    ASSUME TypeInv, orderly, InTurn, handler = "handle_read", verdict = "true"
    PROVE  /\ toServer = << >> /\ ~tail /\ Len(kinds) = Delivered + 1
           /\ Of(request) = Len(kinds) /\ reply.to = << >>
<1> USE DEF TypeInv
<1>1. Alive /\ reply.to = << >> /\ request \o toServer = Unanswered /\ Len(request) = 2
  BY DEF InTurn, Alive
<1>2. request \in Seq(Part) /\ toServer \in Seq(Part)
  BY DEF DataTypes
<1>3. PICK b \in Nat : b = Len(toServer)
  BY <1>2, LenProperties
<1>4. Len(Unanswered) = 2 + b
  <2>1. Len(request \o toServer) = Len(request) + Len(toServer)
    BY <1>2, ConcatProperties
  <2> QED
    BY <1>1, <1>3, <2>1
<1>5. /\ Len(kinds) = Delivered + 1 /\ ~tail /\ b = 0
      /\ Unanswered = <<HeadOf(Len(kinds)), TailOf(Len(kinds))>>
  <2>1. CASE Len(kinds) = Delivered
    <3>1. Unanswered = << >>
      BY <1>1, <2>1, UnansweredIs DEF InTurn
    <3>2. 2 + b = 0
      BY ONLY <1>4, <3>1
    <3> QED
      BY ONLY <3>2, b \in Nat
  <2>2. CASE Len(kinds) = Delivered + 1 /\ tail
    <3>1. Len(Unanswered) = 1
      BY <1>1, <2>2, UnansweredIs DEF InTurn
    <3> QED
      <4>1. 2 + b = 1
        BY ONLY <1>4, <3>1
      <4> QED
        BY ONLY <4>1, b \in Nat
  <2>3. CASE Len(kinds) = Delivered + 1 /\ ~tail
    <3>1. Unanswered = <<HeadOf(Len(kinds)), TailOf(Len(kinds))>>
      BY <1>1, <2>3, UnansweredIs DEF InTurn
    <3>2. Len(Unanswered) = 2
      BY <3>1
    <3> QED
      BY <1>3, <1>4, <2>3, <3>1, <3>2
  <2>4. /\ ~(Len(kinds) = Delivered) /\ ~(Len(kinds) = Delivered + 1 /\ tail)
        => Len(kinds) = Delivered + 1 /\ ~tail
    BY <1>1 DEF InTurn
  <2> QED
    BY <2>1, <2>2, <2>3, <2>4
<1>6. toServer = << >>
  BY <1>2, <1>3, <1>5, EmptySeq
<1>7. request = <<HeadOf(Len(kinds)), TailOf(Len(kinds))>>
  BY <1>1, <1>2, <1>5, <1>6, ConcatEmptySeq
<1>8. /\ DOMAIN request = 1 .. 2 /\ request[1] = HeadOf(Len(kinds))
      /\ request[2] = TailOf(Len(kinds))
  BY <1>7
<1>9. Of(request) = Len(kinds)
  BY <1>8 DEF Of, HeadOf, TailOf
<1> QED
  BY <1>1, <1>5, <1>6, <1>9

LEMMA ServerTurn ==
    ASSUME TypeInv, orderly, InTurn, RepliesMatch, Server, ~ReadDone
    PROVE  InTurn' /\ RepliesMatch'
<1> USE DEF TypeInv, client, net, object
<1>1. CASE start \/ ReadOn
  <2>1. /\ handler # "none" /\ handler' = "none" /\ reads' = reads + 1
        /\ UNCHANGED <<client, net, writes, written, request, reply, shut>>
    BY <1>1 DEF start, ReadOn, KeepReading, read_more
  <2>2. /\ reads = 0 /\ writes = 0 /\ written = 0 /\ Alive /\ Alive'
    BY <2>1 DEF OpInv, OpTypes, OneOperation, Alive
  <2>3. Delivered' = Delivered /\ Unanswered' = Unanswered
    BY <2>1 DEF Delivered, Unanswered
  <2> QED
    BY <2>1, <2>2, <2>3 DEF InTurn, RepliesMatch
<1>2. CASE ReadError \/ WriteError
  <2>1. /\ handler' = "none" /\ kinds' = kinds /\ got' = got /\ toClient' = toClient
        /\ orderly' = orderly /\ reads' = 0 /\ writes' = 0 /\ written' = 0
    <3>1. CASE ReadError
      BY <3>1 DEF ReadError, NoMore, OpInv, OpTypes, OneOperation
    <3>2. CASE WriteError
      BY <3>2 DEF WriteError, OpInv, OpTypes, OneOperation
    <3> QED
      BY <1>2, <3>1, <3>2
  <2> QED
    BY <2>1, DeadTurn DEF RepliesMatch
<1>3. CASE RespondOk
  <2>1. /\ handler = "handle_read" /\ verdict = "true" /\ handler' = "none"
        /\ writes' = writes + 1
        /\ UNCHANGED <<client, net, reads, written, shut>>
    BY <1>3 DEF RespondOk, Answer, async_write
  <2>2. reads = 0 /\ writes = 0 /\ written = 0 /\ Alive /\ Alive'
    BY <2>1 DEF OpInv, OpTypes, OneOperation, Alive
  <2>3. Delivered' = Delivered
    BY <2>1 DEF Delivered
  <2>4. reply'.to = <<Len(kinds)>>
    <3>1. reply'.to = Append(reply.to, Of(request))
      BY <1>3 DEF RespondOk, handle_request
    <3>2. reply.to = << >> /\ Of(request) = Len(kinds)
      BY <2>1, AnsweredRequest
    <3> QED
      BY <3>1, <3>2
  <2> QED
    BY <2>1, <2>2, <2>3, <2>4, AnsweredRequest DEF InTurn, RepliesMatch
<1>4. CASE RespondBad
  BY <1>4 DEF RespondBad, InTurn
<1>5. CASE WriteDone
  <2>1. /\ writes > 0 /\ writes' = writes - 1 /\ written' = written + 1
        /\ toClient' = Append(toClient, reply)
        /\ UNCHANGED <<client, toServer, reads, handler, reply, shut>>
    BY <1>5 DEF WriteDone
  <2>2. /\ handler = "none" /\ reads = 0 /\ written = 0 /\ writes' = 0
        /\ Alive /\ Alive'
    BY <2>1 DEF OpInv, OpTypes, OneOperation, Alive
  <2>3. Delivered' = Delivered + 1
    BY <2>1, AppendProperties, LenProperties DEF Delivered, DataTypes
  <2>4. Len(kinds) = Delivered + 1 /\ ~tail /\ toServer = << >> /\ reply.to = <<Len(kinds)>>
    BY <2>1 DEF InTurn
  <2>5. Unanswered' = << >>
    BY <2>1, <2>3, <2>4 DEF Unanswered
  <2>6. InTurn'
    BY <2>1, <2>2, <2>3, <2>4, <2>5 DEF InTurn
  <2>7. RepliesMatch'
    <3> DEFINE c == got \o toClient
    <3>1. got' \o toClient' = Append(c, reply)
      BY <2>1, ConcatAppend DEF DataTypes
    <3>2. c \in Seq(Reply) /\ Len(c) = Delivered /\ Delivered \in Nat
      BY ConcatProperties, LenProperties DEF DataTypes, Delivered
    <3>3. \A i \in 1 .. Len(c) : c[i].to = <<i>>
      BY DEF RepliesMatch
    <3> HIDE DEF c
    <3>4. /\ Len(Append(c, reply)) = Len(c) + 1 /\ Append(c, reply)[Len(c) + 1] = reply
          /\ \A i \in 1 .. Len(c) : Append(c, reply)[i] = c[i]
      BY <3>2, AppendProperties DEF DataTypes
    <3>5. \A i \in 1 .. Len(c) + 1 : Append(c, reply)[i].to = <<i>>
      BY <2>4, <3>2, <3>3, <3>4
    <3> QED
      BY <3>1, <3>4, <3>5 DEF RepliesMatch
  <2> QED
    BY <2>6, <2>7
<1>6. CASE NextRequest
  <2>1. /\ written > 0 /\ handler = "none" /\ written' = written - 1 /\ reads' = reads + 1
        /\ request' = << >> /\ reply' = [to |-> << >>, connection |-> "none"]
        /\ UNCHANGED <<client, net, writes, handler, shut>>
    BY <1>6 DEF NextRequest, reset
  <2>2. reads = 0 /\ writes = 0 /\ written' = 0 /\ Alive /\ Alive'
    BY <2>1 DEF OpInv, OpTypes, OneOperation, Alive
  <2>3. Delivered' = Delivered /\ Unanswered' = Unanswered
    BY <2>1 DEF Delivered, Unanswered
  <2>4. request' \o toServer' = toServer
    BY <2>1, ConcatEmptySeq DEF DataTypes
  <2> QED
    BY <2>1, <2>2, <2>3, <2>4 DEF InTurn, RepliesMatch
<1>7. CASE Shutdown
  <2>1. /\ handler' = "none" /\ kinds' = kinds /\ got' = got /\ orderly' = orderly
        /\ reads' = 0 /\ writes' = 0 /\ written' = 0
        /\ (toClient' = toClient \/ toClient' = << >>)
    BY <1>7 DEF Shutdown, OpInv, OpTypes, OneOperation
  <2>2. CASE toClient' = toClient
    BY <2>1, <2>2, DeadTurn DEF RepliesMatch
  <2>3. CASE toClient' = << >>
    <3>1. got' \o toClient' = got
      BY <2>1, <2>3, ConcatEmptySeq DEF DataTypes
    <3>2. \A i \in 1 .. Len(got) : (got \o toClient)[i] = got[i] /\ i \in 1 .. Len(got \o toClient)
      BY ConcatProperties, LenProperties DEF DataTypes
    <3> QED
      BY <2>1, <3>1, <3>2, DeadTurn DEF RepliesMatch
  <2> QED
    BY <2>1, <2>2, <2>3
<1> QED
  BY <1>1, <1>2, <1>3, <1>4, <1>5, <1>6, <1>7 DEF Server

LEMMA TurnStep ==
    ASSUME TypeInv, orderly, InTurn, RepliesMatch, [Next]_vars
    PROVE  InTurn' /\ RepliesMatch'
<1>1. CASE SendHead
  <2>1. got' = got /\ toClient' = toClient
    BY <1>1 DEF SendHead
  <2> QED
    BY <1>1, <2>1, SendHeadTurn DEF RepliesMatch
<1>2. CASE SendTail
  <2>1. got' = got /\ toClient' = toClient
    BY <1>2 DEF SendTail
  <2> QED
    BY <1>2, <2>1, SendTailTurn DEF RepliesMatch
<1>3. CASE Receive
  BY <1>3, ReceiveTurn
<1>4. CASE Leave \/ Finished \/ UNCHANGED vars
  <2>1. UNCHANGED <<orderly, kinds, tail, got, net, ops, handler, verdict, object, shut>>
    BY <1>4 DEF Leave, Finished, vars, client
  <2>2. Alive' = Alive /\ Delivered' = Delivered /\ Unanswered' = Unanswered
    BY <2>1 DEF Alive, Delivered, Unanswered, net, ops
  <2> QED
    BY <2>1, <2>2 DEF InTurn, RepliesMatch, net, ops, object
<1>5. CASE ReadDone
  <2>1. got' = got /\ toClient' = toClient
    BY <1>5 DEF ReadDone, client
  <2> QED
    BY <1>5, <2>1, ReadTurn DEF RepliesMatch
<1>6. CASE Server /\ ~ReadDone
  BY <1>6, ServerTurn
<1> QED
  BY <1>1, <1>2, <1>3, <1>4, <1>5, <1>6 DEF Next, Client

LEMMA OrderlyStays == [Next]_vars => orderly' = orderly
BY DEF Next, Client, SendHead, SendTail, Receive, Leave, Server, start, ReadDone,
       ReadError, RespondOk, RespondBad, ReadOn, WriteDone, WriteError, NextRequest,
       Shutdown, Finished, vars, client

\* A client that waits for each reply gets one reply to each of its requests, in
\* order, with nothing of another request's result (connection.cpp:94, 126).
THEOREM RepliesAreMatched == Spec => []RepliesMatch
<1> DEFINE I == TypeInv /\ RepliesMatch /\ (orderly => InTurn)
<1>1. Init => I
  BY InitOps, InitTypes, InitTurn DEF TypeInv
<1>2. I /\ [Next]_vars => I'
  <2> SUFFICES ASSUME I, [Next]_vars PROVE I'
    OBVIOUS
  <2>1. TypeInv' /\ orderly' = orderly
    BY NextOps, NextTypes, OrderlyStays DEF TypeInv
  <2>2. CASE orderly
    BY <2>1, <2>2, TurnStep
  <2>3. CASE ~orderly
    BY <2>1, <2>3 DEF RepliesMatch
  <2> QED
    BY <2>2, <2>3
<1>3. I => RepliesMatch
  OBVIOUS
<1> QED
  BY <1>1, <1>2, <1>3, PTL DEF Spec
=============================================================================
