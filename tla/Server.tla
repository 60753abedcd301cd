------------------------------- MODULE Server -------------------------------
(***************************************************************************)
(* The server as a whole: the chain of accepts, its connections, the       *)
(* health timer and the signals as handlers that the workers take from the *)
(* queue of the io_service, the requests that work with a handle of the    *)
(* pool, and the order in which main takes everything down.                *)
(*                                                                         *)
(* The pool is HandlePool, which AsControl implements, and a connection is *)
(* reduced to the operations that Connection starts.                       *)
(***************************************************************************)
EXTENDS Naturals, Sequences, FiniteSets

CONSTANTS
    Workers,    \* the threads in io_service::run
    Clients,    \* the clients, each connects once
    Handles,    \* the AS_OBJECTs that the pool can have
    MaxErrors   \* bound: the accepts that fail

ASSUME HandlesAssumption == Handles \subseteq Nat \ {0}
ASSUME MaxErrorsAssumption == MaxErrors \in Nat

VARIABLES
    backlog,    \* the clients the kernel has for the acceptor, in order
    arrived,    \* the clients that have connected
    errors,     \* how many accepts have failed
    ops,        \* the operations under way on each connection object
    peer,       \* the client of each connection object, or none
    ended,      \* the connection objects that failed or were shut down
    queue,      \* the handlers that are ready, in the order of the io_service
    run,        \* the handler that each worker runs
    timer,      \* whether the wait of timer_ is under way
    signalled,  \* whether a signal has come
    isHandleStop, stopped,  \* the latter is io_service::stop
    main,       \* where main is: in Initialize or the joins ("join"), "delete"
                \* or "done"
    inUse, live, freed      \* the pool

net    == <<backlog, arrived, errors, signalled>>
conns  == <<ops, peer, ended>>
stop   == <<isHandleStop, stopped>>
pool   == <<inUse, live, freed>>
vars   == <<net, conns, queue, run, timer, stop, main, pool>>

Pool == INSTANCE HandlePool

nobody == "nobody"
Step(h, c, ok) == [h |-> h, c |-> c, ok |-> ok]
Idle   == Step("idle", 0, TRUE)
Exited == Step("exited", 0, TRUE)

\* The object of new_connection_ is the one created last.
new_connection_ == Len(ops)

Init ==
    /\ backlog = << >> /\ arrived = {} /\ errors = 0 /\ signalled = FALSE
    /\ ops = <<{"accept"}>> /\ peer = <<nobody>> /\ ended = {}
    /\ queue = << >> /\ run = [w \in Workers |-> Idle]
    /\ timer = TRUE /\ isHandleStop = FALSE /\ stopped = FALSE
    /\ main = "join"
    /\ Pool!Init

-----------------------------------------------------------------------------
(* The kernel and the clients complete operations: their handlers are ready. *)

Connect(k) ==
    /\ k \notin arrived
    /\ arrived' = arrived \cup {k} /\ backlog' = Append(backlog, k)
    /\ UNCHANGED <<errors, signalled, conns, queue, run, timer, stop, main, pool>>

\* Only workers inside io_service::run make handlers ready.
Complete(c, op, ok) ==
    /\ op \in ops[c] /\ ~stopped
    /\ ops' = [ops EXCEPT ![c] = @ \ {op}]
    /\ queue' = Append(queue, Step(op, c, ok))

AcceptDone ==
    /\ backlog # << >>
    /\ \E c \in DOMAIN ops :
          /\ Complete(c, "accept", TRUE)
          /\ peer' = [peer EXCEPT ![c] = Head(backlog)]
    /\ backlog' = Tail(backlog)
    /\ UNCHANGED <<arrived, errors, signalled, ended, run, timer, stop, main, pool>>

AcceptError ==
    /\ errors < MaxErrors /\ errors' = errors + 1
    /\ \E c \in DOMAIN ops : Complete(c, "accept", FALSE)
    /\ UNCHANGED <<backlog, arrived, signalled, peer, ended, run, timer, stop,
                   main, pool>>

ReadDone(c, ok) ==
    /\ Complete(c, "read", ok)
    /\ UNCHANGED <<net, peer, ended, run, timer, stop, main, pool>>

WriteDone(c, ok) ==
    /\ Complete(c, "write", ok)
    /\ UNCHANGED <<net, peer, ended, run, timer, stop, main, pool>>

TimerExpires ==
    /\ timer /\ ~stopped
    /\ timer' = FALSE /\ queue' = Append(queue, Step("timer", 0, TRUE))
    /\ UNCHANGED <<net, conns, run, stop, main, pool>>

Signal ==
    /\ ~signalled /\ ~stopped
    /\ signalled' = TRUE /\ queue' = Append(queue, Step("stop", 0, TRUE))
    /\ UNCHANGED <<backlog, arrived, errors, conns, run, timer, stop, main, pool>>

-----------------------------------------------------------------------------
(* io_service::run of a worker *)

Running(w, h) == run[w].h = h
Continue(w, h) == run' = [run EXCEPT ![w].h = h]
Return(w) == run' = [run EXCEPT ![w] = Idle]

\* The strand of a connection never has to hold a handler back (OneHandler).
Take(w) ==
    /\ Running(w, "idle") /\ ~stopped /\ queue # << >>
    /\ run' = [run EXCEPT ![w] = Head(queue)] /\ queue' = Tail(queue)
    /\ UNCHANGED <<net, conns, timer, stop, main, pool>>

Exit(w) ==
    /\ Running(w, "idle") /\ stopped
    /\ run' = [run EXCEPT ![w] = Exited]
    /\ UNCHANGED <<net, conns, queue, timer, stop, main, pool>>

-----------------------------------------------------------------------------
(* server::handle_accept *)

\* Variant: the next accept is started before the connection is.
AcceptFirst(w) ==
    /\ Running(w, "accept") /\ Return(w)
    /\ ops' = Append(ops, IF run[w].ok THEN {"accept", "read"} ELSE {"accept"})
    /\ peer' = Append(peer, nobody)
    /\ UNCHANGED <<net, ended, queue, timer, stop, main, pool>>

\* if (!e) new_connection_->start();
StartConnection(w) ==
    /\ Running(w, "accept") /\ Continue(w, "start_accept")
    /\ ops' = IF run[w].ok
              THEN [ops EXCEPT ![new_connection_] = @ \cup {"read"}] ELSE ops
    /\ UNCHANGED <<net, peer, ended, queue, timer, stop, main, pool>>

\* Variant: accepting ends with the first error.
AcceptedOnly(w) == run[w].ok
\* start_accept() is outside of if (!e).
AcceptsAgain(w) == TRUE

start_accept(w) ==
    /\ Running(w, "start_accept") /\ Return(w)
    /\ IF AcceptsAgain(w)
       THEN ops' = Append(ops, {"accept"}) /\ peer' = Append(peer, nobody)
       ELSE UNCHANGED <<ops, peer>>
    /\ UNCHANGED <<net, ended, queue, timer, stop, main, pool>>

-----------------------------------------------------------------------------
(* connection::handle_read and handle_write, as Connection has them in detail *)

StartOp(w, op) == ops' = [ops EXCEPT ![run[w].c] = @ \cup {op}]
Ends(w) == ended' = ended \cup {run[w].c}

\* An error, or a request that is not complete, or one for no handle.
handle_read(w) ==
    /\ Running(w, "read") /\ Return(w)
    /\ IF run[w].ok
       THEN (StartOp(w, "read") \/ StartOp(w, "write")) /\ UNCHANGED ended
       ELSE Ends(w) /\ UNCHANGED ops
    /\ UNCHANGED <<net, peer, queue, timer, stop, main, pool>>

\* handle_request of a GET, with the handle that GetAsObject returns.
GetBegin(w) ==
    /\ Running(w, "read") /\ run[w].ok /\ Continue(w, "get")
    /\ Pool!Acquire(w)
    /\ UNCHANGED <<net, conns, queue, timer, stop, main>>

GetEnd(w) ==
    /\ Running(w, "get") /\ Return(w)
    /\ Pool!Release(w) /\ StartOp(w, "write")
    /\ UNCHANGED <<net, peer, ended, queue, timer, stop, main>>

handle_write(w) ==
    /\ Running(w, "write") /\ Return(w)
    /\ \/ run[w].ok /\ StartOp(w, "read") /\ UNCHANGED ended
       \/ Ends(w) /\ UNCHANGED ops
    /\ UNCHANGED <<net, peer, queue, timer, stop, main, pool>>

-----------------------------------------------------------------------------
(* The timer, the signal, the pool and the end *)

\* if (!isHandleStop) CheckAsServersStatus();
handle_timer(w) ==
    /\ Running(w, "timer")
    /\ IF isHandleStop THEN Return(w) ELSE Continue(w, "rearm")
    /\ UNCHANGED <<net, conns, queue, timer, stop, main, pool>>

Rearm(w) ==
    /\ Running(w, "rearm") /\ Return(w)
    /\ timer' = TRUE
    /\ UNCHANGED <<net, conns, queue, stop, main, pool>>

\* isHandleStop = true;
SetFlag == isHandleStop' = TRUE

handle_stop(w) ==
    /\ Running(w, "stop") /\ Continue(w, "stop_io")
    /\ SetFlag
    /\ UNCHANGED <<net, conns, queue, timer, stopped, main, pool>>

\* Variant: the io_service is not stopped.
StopForgotten == UNCHANGED stopped
\* io_service_.stop();
StopService == stopped' = TRUE

StopIo(w) ==
    /\ Running(w, "stop_io") /\ Return(w)
    /\ StopService
    /\ UNCHANGED <<net, conns, queue, timer, isHandleStop, main, pool>>

\* Initialize, which may still be at it when the workers have left, or a request
\* creates handles.
CreateHandles ==
    /\ main = "join"
    /\ \E hs \in SUBSET Handles : hs # live /\ live' = hs /\ Pool!Create
    /\ UNCHANGED <<net, conns, queue, run, timer, stop, main>>

\* Variant: main does not wait for the workers.
NotJoined == TRUE
\* threads[i]->join() for every thread
Joined == \A w \in Workers : run[w] = Exited

Join ==
    /\ main = "join" /\ Joined
    /\ main' = "delete"
    /\ UNCHANGED <<net, conns, queue, run, timer, stop, pool>>

\* delete asOP, one handle after the other.
DeletePool ==
    /\ main = "delete" /\ Pool!Free
    /\ UNCHANGED <<net, conns, queue, run, timer, stop, main>>

\* ~server: what is under way or ready is destroyed with the io_service.
DestroyServer ==
    /\ main = "delete" /\ live = {}
    /\ main' = "done"
    /\ ops' = [c \in DOMAIN ops |-> {}] /\ queue' = << >> /\ timer' = FALSE
    /\ UNCHANGED <<net, peer, ended, run, stop, pool>>

-----------------------------------------------------------------------------
Kernel ==
    \/ \E k \in Clients : Connect(k)
    \/ AcceptDone \/ AcceptError
    \/ \E c \in DOMAIN ops, ok \in BOOLEAN : ReadDone(c, ok) \/ WriteDone(c, ok)
    \/ TimerExpires \/ Signal

Worker(w) ==
    Take(w) \/ Exit(w) \/ StartConnection(w) \/ start_accept(w) \/ handle_read(w)
    \/ GetBegin(w) \/ GetEnd(w) \/ handle_write(w) \/ handle_timer(w) \/ Rearm(w)
    \/ handle_stop(w) \/ StopIo(w)

MainGoesOn == Join \/ DeletePool \/ DestroyServer
Main == CreateHandles \/ MainGoesOn

Finished == main = "done" /\ UNCHANGED vars

Next == Kernel \/ (\E w \in Workers : Worker(w)) \/ Main \/ Finished

Spec == Init /\ [][Next]_vars

\* The operating system runs every worker and main, and the kernel completes an
\* accept for which a client is waiting.  No client has to connect or to send, and
\* no signal has to come.
FairSpec ==
    /\ Spec
    /\ \A w \in Workers : WF_vars(Worker(w))
    /\ WF_vars(MainGoesOn)
    /\ WF_vars(AcceptDone)

-----------------------------------------------------------------------------
(* Properties *)

\* Every variable has its type, and the flag that ends the timer's chain is set
\* before the io_service is stopped (server.cpp:36-46, 138-141).
TypeOK ==
    /\ arrived \subseteq Clients /\ backlog \in Seq(arrived)
    /\ errors \in 0 .. MaxErrors
    /\ ops \in Seq(SUBSET {"accept", "read", "write"})
    /\ peer \in Seq(Clients \cup {nobody}) /\ Len(peer) = Len(ops)
    /\ ended \subseteq DOMAIN ops
    /\ \A i \in DOMAIN queue :
          queue[i].h \in {"accept", "read", "write", "timer", "stop"}
    /\ \A w \in Workers :
          /\ run[w].c \in DOMAIN ops \cup {0}
          /\ run[w].h \in {"idle", "exited", "accept", "start_accept", "read",
                          "get", "write", "timer", "rearm", "stop", "stop_io"}
    /\ {timer, signalled, isHandleStop, stopped} \subseteq BOOLEAN
    /\ stopped => isHandleStop
    /\ main \in {"join", "delete", "done"}
    /\ inUse \in [Workers -> Handles \cup {0}]
    /\ live \cup freed \subseteq Handles

\* How many operations and handlers of one of these kinds there are for c.
Pending(c, hs) ==
    Cardinality(ops[c] \cap hs)
    + Cardinality({i \in DOMAIN queue : queue[i].h \in hs /\ queue[i].c = c})
    + Cardinality({w \in Workers : run[w].h \in hs /\ run[w].c = c})

\* A connection object has one operation or handler at a time on all of the
\* workers, also while it is still the one of the acceptor: its strand has
\* nothing to order.  Once it was accepted it keeps one, and with it the
\* shared_ptr that owns it, until it fails or is shut down: the next accept takes
\* new_connection_ away from it no earlier (server.cpp:123-136,
\* connection.cpp:65-75, 95-127).
OneHandler ==
    \A c \in DOMAIN ops :
        LET pending == Pending(c, {"accept", "read", "get", "write"})
        IN  /\ pending <= 1
            /\ peer[c] # nobody /\ main # "done" => c \in ended \/ pending = 1

\* There is always exactly one accept under way, ready or being handled, also
\* after errors (server.cpp:96, 125, 134).
AcceptChain ==
    main # "done" =>
        Cardinality({c \in DOMAIN ops :
                        Pending(c, {"accept", "start_accept"}) = 1}) = 1

\* The handles are deleted when no worker runs a handler any more, whatever
\* handlers are ready then (server.cpp:117-119, main.cpp:101).
FreedLast == freed # {} => \A w \in Workers : run[w] = Exited

\* A client that connects gets a connection that reads from it, however busy
\* the workers are with others, unless the server is stopped
\* (server.cpp:123-136).
Served(k) == \E c \in DOMAIN peer : peer[c] = k /\ c < new_connection_
ClientsServed == \A k \in Clients : k \in arrived ~> Served(k) \/ isHandleStop

\* A signal ends the process, in the start or while the workers are inside
\* requests, accepts or the health check, and whatever is queued before its
\* handler: every worker leaves io_service::run, main joins them all, deletes
\* the pool and is done (server.cpp:117-119, 138-141, main.cpp:99-101).
StopTerminates == signalled ~> main = "done"
=============================================================================
