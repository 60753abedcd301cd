----------------------------- MODULE Connection -----------------------------
(***************************************************************************)
(* One connection (connection.cpp): the chain of asynchronous reads and    *)
(* writes that serves the requests of one client, the client, and the two  *)
(* directions of their TCP stream.                                         *)
(*                                                                         *)
(* A request is two parts of the byte stream, its head and its tail, that  *)
(* reads may deliver together, apart, or with parts of the next request.   *)
(* What the parser makes of a part is RequestParser's subject; here it is  *)
(* a verdict.                                                              *)
(***************************************************************************)
EXTENDS Naturals, Sequences

CONSTANTS
    Requests,     \* bound: the requests the client sends
    BufferParts,  \* the parts that fit buffer_ (8192 bytes)
    Kinds         \* the kinds of request a client sends

ASSUME RequestsAssumption == Requests \in Nat
ASSUME BufferAssumption == BufferParts \in Nat \ {0}
ASSUME KindsAssumption == Kinds \subseteq {"keep", "close", "bad"}

VARIABLES
    (* The client and the network *)
    orderly,    \* it sends proper requests and waits for each reply
    kinds,      \* the kinds of the requests begun, in order
    tail,       \* the tail of the last of them is still to be sent
    got,        \* the replies received
    gone,       \* the client has closed its end
    toServer,   \* parts on their way to the server
    toClient,   \* replies on their way to the client
    (* The connection *)
    reads,      \* async_read_some calls that have not completed
    writes,     \* async_write calls that have not completed
    written,    \* completed ones whose handle_write has not run
    handler,    \* "start", "handle_read", or "none" when none runs
    verdict,    \* the result of the parser in handle_read
    request,    \* the parts in request_
    reply,      \* reply_: the requests whose results it holds, its header
    keepalive,  \* keepalive_
    shut        \* socket_.shutdown was called

client == <<orderly, kinds, tail, got, gone>>
net    == <<toServer, toClient>>
ops    == <<reads, writes, written>>
object == <<request, reply, keepalive>>
vars   == <<client, net, ops, handler, verdict, object, shut>>

Part  == [id : 1 .. Requests, of : {"head", "tail"}]
Reply == [to : Seq(0 .. Requests), connection : {"Keep-Alive", "close", "none"}]

Init ==
    /\ orderly \in BOOLEAN
    /\ kinds = << >> /\ tail = FALSE /\ got = << >> /\ gone = FALSE
    /\ toServer = << >> /\ toClient = << >>
    /\ reads = 0 /\ writes = 0 /\ written = 0
    /\ handler = "start" /\ verdict = "indeterminate"
    /\ request = << >> /\ reply = [to |-> << >>, connection |-> "none"]
    /\ keepalive \in BOOLEAN     \* not initialised by the constructor
    /\ shut = FALSE

\* An operation or a handler that runs holds a shared_ptr to the connection;
\* without one it is destroyed, and its socket is closed.
Alive  == handler # "none" \/ reads + writes + written > 0
Closed == shut \/ ~Alive

-----------------------------------------------------------------------------
(* The client *)

Send(p) == toServer' = Append(toServer, p)

\* An orderly client waits for the reply, and takes a reply that closes the
\* connection for the last; any other may pipeline its requests.
MayBegin ==
    orderly => /\ Len(got) >= Len(kinds)
               /\ got # << >> => got[Len(got)].connection # "close"

SendHead ==
    /\ ~gone /\ ~Closed /\ ~tail /\ Len(kinds) < Requests
    /\ MayBegin
    /\ \E k \in Kinds : (orderly => k # "bad") /\ kinds' = Append(kinds, k)
    /\ tail' = TRUE
    /\ Send([id |-> Len(kinds) + 1, of |-> "head"])
    /\ UNCHANGED <<orderly, got, gone, toClient, ops, handler, verdict, object, shut>>

SendTail ==
    /\ ~gone /\ ~Closed /\ tail
    /\ tail' = FALSE
    /\ Send([id |-> Len(kinds), of |-> "tail"])
    /\ UNCHANGED <<orderly, kinds, got, gone, toClient, ops, handler, verdict,
                   object, shut>>

Receive ==
    /\ ~gone /\ toClient # << >>
    /\ got' = Append(got, Head(toClient))
    /\ toClient' = Tail(toClient)
    /\ UNCHANGED <<orderly, kinds, tail, gone, toServer, ops, handler, verdict,
                   object, shut>>

Leave ==
    /\ ~gone
    /\ gone' = TRUE
    /\ UNCHANGED <<orderly, kinds, tail, got, net, ops, handler, verdict, object,
                   shut>>

-----------------------------------------------------------------------------
(* The parser, seen from the connection *)

\* r is the head of the request that p is the tail of, or p is a head and
\* nothing is there yet; anything else reads as garbage.
Continues(r, p) ==
    IF p.of = "head" THEN r = << >>
    ELSE r = <<[id |-> p.id, of |-> "head"]>>

Verdicts == {"true", "false", "indeterminate"}

\* What the parser can return for p after r.
Judge(r, p) ==
    IF ~Continues(r, p) THEN Verdicts
    ELSE IF kinds[p.id] = "bad"
    THEN IF p.of = "head" THEN {"false", "indeterminate"} ELSE {"false"}
    ELSE IF p.of = "head" THEN {"indeterminate"} ELSE {"true"}

\* It consumes the first m parts of data, the last of them with verdict v.
Parses(data, m, v) ==
    LET before(j) == request \o SubSeq(data, 1, j - 1)
    IN  /\ \A j \in 1 .. m - 1 : "indeterminate" \in Judge(before(j), data[j])
        /\ v \in Judge(before(m), data[m])
        /\ v = "indeterminate" => m = Len(data)

\* request::want_keepalive, for a request that was received as it was sent.
Whole(r) == Len(r) = 2 /\ Continues(<<r[1]>>, r[2])
want_keepalive(r) == IF Whole(r) THEN {kinds[r[1].id] = "keep"} ELSE BOOLEAN

-----------------------------------------------------------------------------
(* connection *)

read_more   == reads' = reads + 1 /\ UNCHANGED <<writes, written>>
async_write == writes' = writes + 1 /\ UNCHANGED <<reads, written>>

start ==
    /\ handler = "start" /\ handler' = "none"
    /\ read_more
    /\ UNCHANGED <<client, net, verdict, object, shut>>

\* Variant: the next read overlaps the write, for a client that pipelines.
ReadAndWrite == reads' = reads + 1 /\ writes' = writes + 1 /\ UNCHANGED written
\* What handle_read starts once it has filled reply_.
Answer == async_write

\* A read completes with parts of the stream, and handle_read parses them;
\* what follows the verdict in buffer_ is dropped.
ReadDone ==
    /\ reads > 0 /\ handler = "none" /\ ~shut
    /\ \E n \in 1 .. BufferParts :
          /\ n <= Len(toServer)
          /\ toServer' = SubSeq(toServer, n + 1, Len(toServer))
          /\ \E m \in 1 .. n, v \in Verdicts :
                /\ Parses(SubSeq(toServer, 1, n), m, v)
                /\ verdict' = v
                /\ request' = request \o SubSeq(toServer, 1, m)
    /\ reads' = reads - 1 /\ handler' = "handle_read"
    /\ UNCHANGED <<client, toClient, writes, written, reply, keepalive, shut>>

\* Variant: a read that failed is tried again.
Retry == UNCHANGED reads
\* handle_read starts nothing after an error.
NoMore == reads' = reads - 1

\* After a shutdown, or when the client's end is closed or reset; what was on
\* its way can be lost.
ReadError ==
    /\ reads > 0 /\ handler = "none"
    /\ shut \/ gone
    /\ NoMore
    /\ UNCHANGED <<client, net, writes, written, handler, verdict, object,
                   shut>>

\* The id under which the reply to r is known, 0 for a mixture.
Of(r) == IF \A i \in DOMAIN r : r[i].id = r[1].id THEN r[1].id ELSE 0

\* Variant: handle_request is called before keepalive_ is assigned.
StaleHeader(wanted) == keepalive
\* handle_request(request_, reply_, keepalive_) gets the new keepalive_.
HeaderFor(wanted) == wanted

\* The content is appended to reply_, which reset has emptied.
handle_request(r, ka) ==
    [to         |-> Append(reply.to, Of(r)),
     connection |-> IF ka THEN "Keep-Alive" ELSE "close"]

RespondOk ==
    /\ handler = "handle_read" /\ verdict = "true" /\ handler' = "none"
    /\ keepalive' \in want_keepalive(request)
    /\ reply' = handle_request(request, HeaderFor(keepalive'))
    /\ Answer
    /\ UNCHANGED <<client, net, verdict, request, shut>>

\* reply_ = stock_reply(bad_request), which has no Connection header;
\* keepalive_ keeps the value it has.
RespondBad ==
    /\ handler = "handle_read" /\ verdict = "false" /\ handler' = "none"
    /\ reply' = [to |-> <<Of(request)>>, connection |-> "none"]
    /\ Answer
    /\ UNCHANGED <<client, net, verdict, request, keepalive, shut>>

\* Variant: a part of a request is taken for the end of the connection.
GiveUp == UNCHANGED ops
\* An incomplete request needs more of the stream.
KeepReading == read_more

ReadOn ==
    /\ handler = "handle_read" /\ verdict = "indeterminate"
    /\ handler' = "none"
    /\ KeepReading
    /\ UNCHANGED <<client, net, verdict, object, shut>>

\* The write completes: reply_, as it is now, is in the stream, even when the
\* client no longer reads it.
WriteDone ==
    /\ writes > 0
    /\ writes' = writes - 1 /\ written' = written + 1
    /\ toClient' = Append(toClient, reply)
    /\ UNCHANGED <<client, toServer, reads, handler, verdict, object, shut>>

WriteError ==
    /\ writes > 0 /\ handler = "none" /\ gone
    /\ writes' = writes - 1
    /\ UNCHANGED <<client, net, reads, written, handler, verdict, object, shut>>

\* Variant: reply_.clear is forgotten.
ResetKeepsReply == request' = << >> /\ UNCHANGED reply
\* base_connection::reset; the parser starts over with the empty request_.
reset == request' = << >> /\ reply' = [to |-> << >>, connection |-> "none"]

NextRequest ==
    /\ written > 0 /\ handler = "none" /\ keepalive
    /\ reset
    /\ written' = written - 1 /\ reads' = reads + 1
    /\ UNCHANGED <<client, net, writes, handler, verdict, keepalive, shut>>

\* When data is left unread, closing the socket resets the TCP connection and
\* the client can lose what it has not received.
Shutdown ==
    /\ written > 0 /\ handler = "none" /\ ~keepalive
    /\ shut' = TRUE
    /\ written' = written - 1
    /\ \/ UNCHANGED toClient
       \/ toServer # << >> /\ toClient' = << >>
    /\ UNCHANGED <<client, toServer, reads, writes, handler, verdict, object>>

\* Both ends are closed.
Finished == gone /\ ~Alive /\ UNCHANGED vars

Client == SendHead \/ SendTail \/ Receive \/ Leave
Server == start \/ ReadDone \/ ReadError \/ RespondOk \/ RespondBad \/ ReadOn
          \/ WriteDone \/ WriteError \/ NextRequest \/ Shutdown

Next == Client \/ Server \/ Finished

Spec == Init /\ [][Next]_vars

\* io_service runs every handler whose operation has completed, TCP delivers,
\* and a client that has begun a request sends all of it and reads the reply.
FairSpec == Spec /\ WF_vars(Server) /\ WF_vars(SendTail) /\ WF_vars(Receive)

-----------------------------------------------------------------------------
(* Properties *)

\* Every variable has its type (connection.hpp:47-65).
TypeOK ==
    /\ orderly \in BOOLEAN
    /\ kinds \in Seq(Kinds) /\ Len(kinds) <= Requests
    /\ tail \in BOOLEAN /\ gone \in BOOLEAN /\ got \in Seq(Reply)
    /\ toServer \in Seq(Part) /\ toClient \in Seq(Reply)
    /\ reads \in 0 .. 1 /\ writes \in 0 .. 1 /\ written \in 0 .. 1
    /\ handler \in {"start", "handle_read", "none"} /\ verdict \in Verdicts
    /\ request \in Seq(Part) /\ reply \in Reply
    /\ keepalive \in BOOLEAN /\ shut \in BOOLEAN

\* At most one operation or handler of a connection is under way, so that
\* request_, reply_ and buffer_ have one user at a time whether or not the
\* strand serialises the handlers (connection.hpp:46-47, connection.cpp:69-137).
OneOperation ==
    reads + writes + written + (IF handler = "none" THEN 0 ELSE 1) <= 1

\* "the reply object must remain valid and not be changed until the write
\* operation has completed" (reply.hpp:54-56).
ReplyStable == [][writes > 0 => reply' = reply]_vars

\* A client that waits for each reply and sends proper requests gets one reply
\* to each request, in order, with nothing of another request's result
\* (connection.cpp:94, 126, request_handler.cpp:186).
RepliesMatch ==
    orderly =>
       \A i \in 1 .. Len(got \o toClient) : (got \o toClient)[i].to = <<i>>

\* While a reply is on its way, the Connection header that announces what the
\* server will do agrees with what handle_write will do
\* (request_handler.cpp:192-195, connection.cpp:91-94, 125).
HeaderHonest ==
    writes + written > 0 =>
       /\ reply.connection = "Keep-Alive" => keepalive
       /\ reply.connection = "close"      => ~keepalive

\* A client that sent a proper request and waits gets the reply; nothing on
\* the way loses it (connection.cpp:69-137).
EveryRequestAnswered ==
    \A i \in 1 .. Requests :
       orderly /\ Len(kinds) >= i ~> (Len(got) >= i \/ gone)

\* A connection whose client has left is destroyed: no chain of operations
\* keeps its shared_ptr for ever (connection.cpp:78-84, 117-123).
ConnectionFreed == gone ~> ~Alive

\* keepalive_ says whether the request being answered enabled keep-alive: a
\* connection stays open only on the word of a request that was understood
\* (connection.hpp:64).
KeptOnRequest ==
    writes + written > 0 /\ keepalive => verdict = "true"
=============================================================================
