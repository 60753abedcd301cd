---------------------------- MODULE ServerProofs ----------------------------
(* Theorems about Server, for any workers, clients and handles. *)
EXTENDS Server, TLAPS, SequenceTheorems, FiniteSetTheorems

\* What main has done tells where the workers are: it leaves the joins when all
\* of them have left io_service::run, and deletes handles only after that
\* (server.cpp:117-119, main.cpp:99-101).
MainInv ==
    /\ main # "join" => \A w \in Workers : run[w] = Exited
    /\ freed # {} => main # "join"

\* A worker that has left io_service::run takes no step (server.cpp:106).
LEMMA WorkerNotExited ==
    ASSUME NEW w \in Workers, Worker(w)
    PROVE  run[w] # Exited /\ UNCHANGED <<main, freed>>
<1>1. \A h : h # "exited" /\ Running(w, h) => run[w] # Exited
    BY DEF Running, Exited, Step
<1>2. CASE Take(w) BY <1>1, <1>2 DEF Take, pool
<1>3. CASE Exit(w) BY <1>1, <1>3 DEF Exit, pool
<1>4. CASE StartConnection(w) BY <1>1, <1>4 DEF StartConnection, pool
<1>5. CASE start_accept(w) BY <1>1, <1>5 DEF start_accept, pool
<1>6. CASE handle_read(w) BY <1>1, <1>6 DEF handle_read, pool
<1>7. CASE GetBegin(w) BY <1>1, <1>7 DEF GetBegin, Pool!Acquire
<1>8. CASE GetEnd(w) BY <1>1, <1>8 DEF GetEnd, Pool!Release
<1>9. CASE handle_write(w) BY <1>1, <1>9 DEF handle_write, pool
<1>10. CASE handle_timer(w) BY <1>1, <1>10 DEF handle_timer, pool
<1>11. CASE Rearm(w) BY <1>1, <1>11 DEF Rearm, pool
<1>12. CASE handle_stop(w) BY <1>1, <1>12 DEF handle_stop, pool
<1>13. CASE StopIo(w) BY <1>1, <1>13 DEF StopIo, pool
<1> QED
    BY <1>2, <1>3, <1>4, <1>5, <1>6, <1>7, <1>8, <1>9, <1>10, <1>11, <1>12, <1>13
    DEF Worker

\* The kernel and the clients start and end no thread and delete no handle.
LEMMA KernelLeavesMain ==
    ASSUME Kernel
    PROVE  UNCHANGED <<main, freed, run>>
<1>1. CASE \E k \in Clients : Connect(k) BY <1>1 DEF Connect, pool
<1>2. CASE AcceptDone BY <1>2 DEF AcceptDone, pool
<1>3. CASE AcceptError BY <1>3 DEF AcceptError, pool
<1>4. CASE \E c \in DOMAIN ops, ok \in BOOLEAN : ReadDone(c, ok) \/ WriteDone(c, ok)
    BY <1>4 DEF ReadDone, WriteDone, pool
<1>5. CASE TimerExpires BY <1>5 DEF TimerExpires, pool
<1>6. CASE Signal BY <1>6 DEF Signal, pool
<1> QED BY <1>1, <1>2, <1>3, <1>4, <1>5, <1>6 DEF Kernel

LEMMA MainInvInit == Init => MainInv
BY DEF Init, MainInv, Pool!Init

LEMMA MainInvNext == MainInv /\ [Next]_vars => MainInv'
<1> SUFFICES ASSUME MainInv, [Next]_vars PROVE MainInv'
    OBVIOUS
<1>1. CASE Kernel BY <1>1, KernelLeavesMain DEF MainInv
<1>2. ASSUME NEW w \in Workers, Worker(w) PROVE MainInv'
    <2>1. run[w] # Exited /\ UNCHANGED <<main, freed>> BY <1>2, WorkerNotExited
    <2>2. main = "join" BY <2>1 DEF MainInv
    <2> QED BY <2>1, <2>2 DEF MainInv
<1>3. CASE CreateHandles BY <1>3 DEF CreateHandles, Pool!Create, MainInv
<1>4. CASE Join BY <1>4 DEF Join, Joined, MainInv, pool
<1>5. CASE DeletePool BY <1>5 DEF DeletePool, MainInv
<1>6. CASE DestroyServer BY <1>6 DEF DestroyServer, MainInv, pool
<1>7. CASE UNCHANGED vars BY <1>7 DEF vars, pool, MainInv
<1> QED
    BY <1>1, <1>2, <1>3, <1>4, <1>5, <1>6, <1>7 DEF Next, Main, MainGoesOn, Finished

\* No handle is deleted before every worker has left io_service::run, so no
\* request or health check that is still running can be using it, whatever the
\* queue of the io_service holds (server.cpp:117-119, main.cpp:99-101).
THEOREM PoolDeletedLast == Spec => []FreedLast
<1>1. MainInv => FreedLast BY DEF MainInv, FreedLast
<1> QED BY <1>1, MainInvInit, MainInvNext, PTL DEF Spec

-----------------------------------------------------------------------------
(* Types *)

Ready == [h : {"accept", "read", "write", "timer", "stop"}, c : Nat, ok : BOOLEAN]
Labels == {"idle", "exited", "accept", "start_accept", "read", "get", "write",
           "timer", "rearm", "stop", "stop_io"}
OpKinds == {"accept", "read", "write"}

\* The handlers of the connections; the others belong to no connection object.
Kinds == {"accept", "read", "get", "write"}
OfConnection == Kinds \cup {"start_accept"}

NetTypes ==
    /\ arrived \subseteq Clients /\ backlog \in Seq(arrived)
    /\ errors \in 0 .. MaxErrors

ConnTypes ==
    /\ ops \in Seq(SUBSET OpKinds) /\ Len(ops) \in Nat \ {0}
    /\ peer \in Seq(Clients \cup {nobody}) /\ Len(peer) = Len(ops)
    /\ ended \subseteq 1 .. Len(ops)

HandlerTypes ==
    /\ queue \in Seq(Ready)
    /\ \A i \in 1 .. Len(queue) :
          /\ queue[i].c \in 0 .. Len(ops)
          /\ queue[i].h \in OpKinds <=> queue[i].c # 0
    /\ run \in [Workers -> [h : Labels, c : Nat, ok : BOOLEAN]]
    /\ \A w \in Workers :
          /\ run[w].c \in 0 .. Len(ops)
          /\ run[w].h \in OfConnection <=> run[w].c # 0

FlagTypes ==
    /\ timer \in BOOLEAN /\ signalled \in BOOLEAN
    /\ isHandleStop \in BOOLEAN /\ stopped \in BOOLEAN
    /\ \A w \in Workers : run[w].h = "stop_io" => isHandleStop
    /\ stopped => isHandleStop
    /\ main \in {"join", "delete", "done"}

PoolTypes ==
    /\ inUse \in [Workers -> Handles \cup {0}]
    /\ live \subseteq Handles /\ freed \subseteq Handles

LEMMA AppendFacts ==
    ASSUME NEW S, NEW s \in Seq(S), NEW x \in S
    PROVE  /\ Append(s, x) \in Seq(S)
           /\ Len(Append(s, x)) = Len(s) + 1
           /\ \A i \in 1 .. Len(s) : Append(s, x)[i] = s[i]
           /\ Append(s, x)[Len(s) + 1] = x
OBVIOUS

LEMMA TailFacts ==
    ASSUME NEW S, NEW s \in Seq(S), s # << >>
    PROVE  /\ Len(s) \in Nat \ {0} /\ Head(s) = s[1] /\ Head(s) \in S
           /\ Tail(s) \in Seq(S) /\ Len(Tail(s)) = Len(s) - 1
           /\ \A i \in 1 .. Len(s) - 1 : Tail(s)[i] = s[i + 1]
OBVIOUS

-----------------------------------------------------------------------------
(* What a step does to the operations, the handlers and their connections.   *)

\* Everything about the connections but the queue and the workers.
Frame == UNCHANGED <<ops, peer, ended, main>>

\* The kernel makes the handler of an operation ready; an accept fills the socket.
Completes(c, op, ok) ==
    /\ c \in 1 .. Len(ops) /\ op \in OpKinds /\ ok \in BOOLEAN /\ Complete(c, op, ok)
    /\ UNCHANGED <<run, ended, main>>
    /\ \/ UNCHANGED peer
       \/ /\ op = "accept" /\ ok
          /\ \E k \in Clients : peer' = [peer EXCEPT ![c] = k]

\* The handler of the timer or of a signal is ready.
Posts ==
    /\ \E h \in {"timer", "stop"} : queue' = Append(queue, Step(h, 0, TRUE))
    /\ Frame /\ UNCHANGED run

\* A worker does something that is for no connection.
Elsewhere(w) ==
    /\ run[w].h \notin OfConnection
    /\ \E r \in [h : Labels \ OfConnection, c : {0}, ok : BOOLEAN] :
          run' = [run EXCEPT ![w] = r]
    /\ Frame /\ UNCHANGED queue

Takes(w) == Take(w) /\ Frame

\* A handler of a connection starts the next operation, or ends it.
Answers(w) ==
    /\ run[w].h \in {"read", "get", "write"} /\ Return(w)
    /\ \/ (\E op \in {"read", "write"} : StartOp(w, op)) /\ UNCHANGED ended
       \/ Ends(w) /\ UNCHANGED ops
    /\ UNCHANGED <<queue, peer, main>>

Gets(w) ==
    /\ run[w].h = "read" /\ Continue(w, "get")
    /\ Frame /\ UNCHANGED queue

Destroys ==
    /\ \A w \in Workers : run[w] = Exited
    /\ ops' = [c \in DOMAIN ops |-> {}] /\ queue' = << >> /\ main' = "done"
    /\ UNCHANGED <<run, peer, ended>>

Others ==
    /\ UNCHANGED <<ops, peer, ended, queue, run>>
    /\ main' # "done" \/ main' = main

LEMMA Steps ==
    ASSUME NetTypes, ConnTypes, HandlerTypes, MainInv, [Next]_vars
    PROVE  \/ \E c, op, ok : Completes(c, op, ok)
           \/ Posts \/ Destroys \/ Others
           \/ \E w \in Workers :
                 \/ Elsewhere(w) \/ Takes(w) \/ Answers(w) \/ Gets(w)
                 \/ StartConnection(w) \/ start_accept(w)
<1>1. CASE \E k \in Clients : Connect(k)
  BY <1>1 DEF Connect, conns, Others
<1>2. CASE AcceptDone
  <2>1. backlog # << >> /\ Head(backlog) \in Clients
    BY <1>2, TailFacts DEF AcceptDone, NetTypes
  <2>2. PICK c \in DOMAIN ops : /\ Complete(c, "accept", TRUE)
                                /\ peer' = [peer EXCEPT ![c] = Head(backlog)]
    BY <1>2 DEF AcceptDone
  <2>3. c \in 1 .. Len(ops)
    BY <2>2, LenProperties DEF ConnTypes
  <2>4. Completes(c, "accept", TRUE)
    BY <1>2, <2>1, <2>2, <2>3 DEF AcceptDone, Completes, OpKinds
  <2> QED
    BY <2>4
<1>3. CASE AcceptError
  <2>1. PICK c \in DOMAIN ops : Complete(c, "accept", FALSE)
    BY <1>3 DEF AcceptError
  <2>2. c \in 1 .. Len(ops)
    BY <2>1, LenProperties DEF ConnTypes
  <2>3. Completes(c, "accept", FALSE)
    BY <1>3, <2>1, <2>2 DEF AcceptError, Completes, OpKinds
  <2> QED
    BY <2>3
<1>4. ASSUME NEW c \in DOMAIN ops, NEW ok \in BOOLEAN,
             ReadDone(c, ok) \/ WriteDone(c, ok)
      PROVE  \E op : Completes(c, op, ok)
  <2>1. c \in 1 .. Len(ops)
    BY LenProperties DEF ConnTypes
  <2>2. Completes(c, "read", ok) \/ Completes(c, "write", ok)
    BY <1>4, <2>1 DEF ReadDone, WriteDone, Completes, OpKinds
  <2> QED
    BY <2>2
<1>5. CASE TimerExpires \/ Signal
  BY <1>5 DEF TimerExpires, Signal, conns, Posts, Frame
<1>6. ASSUME NEW w \in Workers, Worker(w)
      PROVE  \/ Elsewhere(w) \/ Takes(w) \/ Answers(w) \/ Gets(w)
             \/ StartConnection(w) \/ start_accept(w)
  <2>1. CASE Take(w)
    BY <2>1 DEF Take, conns, Takes, Frame
  <2>2. run[w] \in [h : Labels, c : Nat, ok : BOOLEAN]
    BY DEF HandlerTypes
  <2>3. run[w].h \notin OfConnection => run[w].c = 0
    BY DEF HandlerTypes
  <2>4. ASSUME NEW h \in Labels \ OfConnection, Continue(w, h), run[w].h \notin OfConnection
        PROVE  \E r \in [h : Labels \ OfConnection, c : {0}, ok : BOOLEAN] :
                  run' = [run EXCEPT ![w] = r]
    <3>1. [run[w] EXCEPT !.h = h] \in [h : Labels \ OfConnection, c : {0}, ok : BOOLEAN]
      BY <2>2, <2>3, <2>4
    <3>2. run' = [run EXCEPT ![w] = [run[w] EXCEPT !.h = h]]
      BY <2>4 DEF Continue
    <3> QED
      BY <3>1, <3>2
  <2>5. /\ Idle \in [h : Labels \ OfConnection, c : {0}, ok : BOOLEAN]
        /\ Exited \in [h : Labels \ OfConnection, c : {0}, ok : BOOLEAN]
        /\ {"rearm", "stop_io"} \subseteq Labels \ OfConnection
        /\ {"idle", "timer", "rearm", "stop", "stop_io"} \cap OfConnection = {}
    BY DEF Idle, Exited, Step, Labels, OfConnection, Kinds
  <2>6. CASE Exit(w)
    BY <2>5, <2>6 DEF Exit, Running, conns, Elsewhere, Frame
  <2>7. CASE handle_timer(w)
    BY <2>4, <2>5, <2>7 DEF handle_timer, Running, Return, conns, Elsewhere, Frame
  <2>8. CASE Rearm(w)
    BY <2>5, <2>8 DEF Rearm, Running, Return, conns, Elsewhere, Frame
  <2>9. CASE handle_stop(w)
    BY <2>4, <2>5, <2>9 DEF handle_stop, Running, conns, Elsewhere, Frame
  <2>10. CASE StopIo(w)
    BY <2>5, <2>10 DEF StopIo, Running, Return, conns, Elsewhere, Frame
  <2>11. CASE handle_read(w)
    BY <2>11 DEF handle_read, Running, Answers
  <2>12. CASE handle_write(w)
    BY <2>12 DEF handle_write, Running, Answers
  <2>13. CASE GetEnd(w)
    BY <2>13 DEF GetEnd, Running, Answers
  <2>14. CASE GetBegin(w)
    BY <2>14 DEF GetBegin, Running, conns, Gets, Frame
  <2> QED
    BY <1>6, <2>1, <2>6, <2>7, <2>8, <2>9, <2>10, <2>11, <2>12, <2>13, <2>14 DEF Worker
<1>7. CASE CreateHandles \/ Join \/ DeletePool
  BY <1>7 DEF CreateHandles, Join, DeletePool, conns, Others
<1>8. CASE DestroyServer
  BY <1>8 DEF DestroyServer, MainInv, Destroys
<1>9. CASE UNCHANGED vars
  BY <1>9 DEF vars, conns, Others
<1> QED
  BY <1>1, <1>2, <1>3, <1>4, <1>5, <1>6, <1>7, <1>8, <1>9
     DEF Next, Kernel, Main, MainGoesOn, Finished

\* What main has done it does not undo.
LEMMA DoneForGood == [Next]_vars /\ main' # "done" => main # "done"
<1> SUFFICES ASSUME [Next]_vars, main' # "done" PROVE main # "done"
  OBVIOUS
<1>1. CASE Kernel
  BY <1>1, KernelLeavesMain
<1>2. ASSUME NEW w \in Workers, Worker(w) PROVE main # "done"
  BY <1>2, WorkerNotExited
<1>3. CASE Main
  BY <1>3 DEF Main, MainGoesOn, CreateHandles, Join, DeletePool, DestroyServer
<1>4. CASE UNCHANGED vars
  BY <1>4 DEF vars
<1> QED
  BY <1>1, <1>2, <1>3, <1>4 DEF Next, Finished

-----------------------------------------------------------------------------
(* The types of the connections and the handlers are kept. *)

\* What Completes does, place by place.
LEMMA CompletesFacts ==
    ASSUME ConnTypes, HandlerTypes, NEW c, NEW op, NEW ok, Completes(c, op, ok)
    PROVE  /\ c \in 1 .. Len(ops) /\ op \in OpKinds /\ op \in ops[c]
           /\ ops' \in Seq(SUBSET OpKinds) /\ Len(ops') = Len(ops)
           /\ ops'[c] = ops[c] \ {op}
           /\ \A d \in 1 .. Len(ops) : d # c => ops'[d] = ops[d]
           /\ queue' \in Seq(Ready) /\ Len(queue') = Len(queue) + 1
           /\ \A i \in 1 .. Len(queue) : queue'[i] = queue[i]
           /\ queue'[Len(queue) + 1] = Step(op, c, ok)
<1>1. /\ c \in 1 .. Len(ops) /\ op \in OpKinds /\ op \in ops[c] /\ ok \in BOOLEAN
      /\ ops' = [ops EXCEPT ![c] = @ \ {op}]
      /\ queue' = Append(queue, Step(op, c, ok))
  BY DEF Completes, Complete
<1>2. ops[c] \ {op} \in SUBSET OpKinds
  BY <1>1, ElementOfSeq DEF ConnTypes
<1>3. /\ ops' \in Seq(SUBSET OpKinds) /\ Len(ops') = Len(ops)
      /\ ops'[c] = ops[c] \ {op}
      /\ \A d \in 1 .. Len(ops) : d # c => ops'[d] = ops[d]
  BY <1>1, <1>2, ExceptSeq DEF ConnTypes
<1>4. c \in Nat
  BY <1>1 DEF ConnTypes
<1>5. Step(op, c, ok) \in Ready
  BY <1>1, <1>4 DEF Step, Ready, OpKinds
<1> QED
  BY <1>1, <1>3, <1>5, AppendFacts DEF HandlerTypes

LEMMA PostsFacts ==
    ASSUME HandlerTypes, Posts
    PROVE  /\ queue' \in Seq(Ready) /\ Len(queue') = Len(queue) + 1
           /\ \A i \in 1 .. Len(queue) : queue'[i] = queue[i]
           /\ queue'[Len(queue) + 1].c = 0
           /\ queue'[Len(queue) + 1].h \in {"timer", "stop"}
<1>1. PICK h \in {"timer", "stop"} : queue' = Append(queue, Step(h, 0, TRUE))
  BY DEF Posts
<1>2. Step(h, 0, TRUE) \in Ready
  BY DEF Step, Ready
<1> QED
  BY <1>1, <1>2, AppendFacts DEF HandlerTypes, Step

LEMMA TakesFacts ==
    ASSUME HandlerTypes, NEW w \in Workers, Takes(w)
    PROVE  /\ Len(queue) \in Nat \ {0} /\ queue[1] \in Ready
           /\ queue' \in Seq(Ready) /\ Len(queue') = Len(queue) - 1
           /\ \A i \in 1 .. Len(queue') : i + 1 \in 1 .. Len(queue)
                                          /\ queue'[i] = queue[i + 1]
           /\ run[w].h = "idle"
           /\ run'[w] = queue[1] /\ \A v \in Workers : v # w => run'[v] = run[v]
<1>1. /\ queue # << >> /\ queue' = Tail(queue) /\ run[w].h = "idle"
      /\ run' = [run EXCEPT ![w] = Head(queue)]
  BY DEF Takes, Take, Running
<1>2. /\ Len(queue) \in Nat \ {0} /\ Head(queue) = queue[1] /\ queue[1] \in Ready
      /\ queue' \in Seq(Ready) /\ Len(queue') = Len(queue) - 1
      /\ \A i \in 1 .. Len(queue) - 1 : queue'[i] = queue[i + 1]
  BY <1>1, TailFacts DEF HandlerTypes
<1>3. \A i \in 1 .. Len(queue) - 1 : i + 1 \in 1 .. Len(queue)
  BY <1>2
<1>4. run'[w] = queue[1] /\ \A v \in Workers : v # w => run'[v] = run[v]
  BY <1>1, <1>2 DEF HandlerTypes
<1> QED
  BY <1>1, <1>2, <1>3, <1>4

\* The worker returns or goes on, and one connection object has a new operation.
LEMMA StartsFacts ==
    ASSUME ConnTypes, NEW c \in 1 .. Len(ops), NEW op \in OpKinds,
           ops' = [ops EXCEPT ![c] = @ \cup {op}]
    PROVE  /\ ops' \in Seq(SUBSET OpKinds) /\ Len(ops') = Len(ops)
           /\ ops'[c] = ops[c] \cup {op}
           /\ \A d \in 1 .. Len(ops) : d # c => ops'[d] = ops[d]
<1>1. ops[c] \cup {op} \in SUBSET OpKinds
  BY ElementOfSeq DEF ConnTypes
<1> QED
  BY <1>1, ExceptSeq DEF ConnTypes

LEMMA RunFacts ==
    ASSUME HandlerTypes, NEW w \in Workers
    PROVE  /\ \A r : run' = [run EXCEPT ![w] = r] =>
                 run'[w] = r /\ \A v \in Workers : v # w => run'[v] = run[v]
           /\ \A h : Continue(w, h) =>
                 /\ run'[w] = [run[w] EXCEPT !.h = h]
                 /\ run'[w].h = h /\ run'[w].c = run[w].c /\ run'[w].ok = run[w].ok
                 /\ \A v \in Workers : v # w => run'[v] = run[v]
           /\ Return(w) =>
                 /\ run'[w].h = "idle" /\ run'[w].c = 0
                 /\ \A v \in Workers : v # w => run'[v] = run[v]
BY DEF HandlerTypes, Continue, Return, Idle, Step

\* There is one more connection object, with an accept.
LEMMA AcceptFacts ==
    ASSUME ConnTypes, ops' = Append(ops, {"accept"}), peer' = Append(peer, nobody)
    PROVE  /\ ops' \in Seq(SUBSET OpKinds) /\ Len(ops') = Len(ops) + 1
           /\ ops'[Len(ops) + 1] = {"accept"}
           /\ \A d \in 1 .. Len(ops) : ops'[d] = ops[d]
           /\ peer' \in Seq(Clients \cup {nobody}) /\ Len(peer') = Len(ops) + 1
           /\ peer'[Len(ops) + 1] = nobody
           /\ \A d \in 1 .. Len(ops) : peer'[d] = peer[d]
<1>1. {"accept"} \in SUBSET OpKinds /\ nobody \in Clients \cup {nobody}
  BY DEF OpKinds
<1> QED
  BY <1>1, AppendFacts DEF ConnTypes

HandlerRec == [h : Labels, c : Nat, ok : BOOLEAN]

LEMMA CompletesTypes ==
    ASSUME ConnTypes, HandlerTypes, NEW c, NEW op, NEW ok, Completes(c, op, ok)
    PROVE  ConnTypes' /\ HandlerTypes'
<1> USE CompletesFacts
<1>1. peer' \in Seq(Clients \cup {nobody}) /\ Len(peer') = Len(ops)
  <2>1. CASE UNCHANGED peer
    BY <2>1 DEF ConnTypes
  <2>2. ASSUME NEW k \in Clients, peer' = [peer EXCEPT ![c] = k]
        PROVE  peer' \in Seq(Clients \cup {nobody}) /\ Len(peer') = Len(ops)
    <3>1. c \in 1 .. Len(peer) /\ k \in Clients \cup {nobody}
      BY DEF ConnTypes
    <3> QED
      BY <2>2, <3>1, ExceptSeq DEF ConnTypes
  <2> QED
    BY <2>1, <2>2 DEF Completes
<1>2. ConnTypes'
  BY <1>1 DEF ConnTypes, Completes
<1>3. c # 0 /\ c \in 0 .. Len(ops)
  BY DEF ConnTypes
<1>4. ASSUME NEW i \in 1 .. Len(queue')
      PROVE  /\ queue'[i].c \in 0 .. Len(ops)
             /\ queue'[i].h \in OpKinds <=> queue'[i].c # 0
  <2>1. i \in 1 .. Len(queue) \/ i = Len(queue) + 1
    BY LenProperties DEF HandlerTypes
  <2>2. CASE i = Len(queue) + 1
    <3>1. queue'[i] = Step(op, c, ok) /\ op \in OpKinds
      BY <2>2
    <3>2. queue'[i].c = c /\ queue'[i].h = op
      BY <3>1 DEF Step
    <3> QED
      BY <1>3, <3>1, <3>2
  <2> QED
    BY <2>1, <2>2 DEF HandlerTypes
<1>5. run' = run
  BY DEF Completes
<1> QED
  BY <1>2, <1>4, <1>5 DEF HandlerTypes

LEMMA PostsTypes ==
    ASSUME ConnTypes, HandlerTypes, Posts
    PROVE  ConnTypes' /\ HandlerTypes'
<1>1. ConnTypes' /\ Len(ops') = Len(ops) /\ run' = run /\ Len(ops) \in Nat
  BY DEF Posts, Frame, ConnTypes
<1>2. ASSUME NEW i \in 1 .. Len(queue')
      PROVE  /\ queue'[i].c \in 0 .. Len(ops)
             /\ queue'[i].h \in OpKinds <=> queue'[i].c # 0
  <2>1. i \in 1 .. Len(queue) \/ i = Len(queue) + 1
    BY PostsFacts, LenProperties DEF HandlerTypes
  <2>2. CASE i = Len(queue) + 1
    BY <1>1, <2>2, PostsFacts DEF OpKinds
  <2>3. CASE i \in 1 .. Len(queue)
    BY <2>3, PostsFacts DEF HandlerTypes
  <2> QED
    BY <2>1, <2>2, <2>3
<1> QED
  BY <1>1, <1>2, PostsFacts DEF HandlerTypes

LEMMA TakesTypes ==
    ASSUME ConnTypes, HandlerTypes, NEW w \in Workers, Takes(w)
    PROVE  ConnTypes' /\ HandlerTypes'
<1>1. ConnTypes' /\ Len(ops') = Len(ops)
  BY DEF Takes, Frame, ConnTypes
<1>2. ASSUME NEW i \in 1 .. Len(queue')
      PROVE  /\ queue'[i].c \in 0 .. Len(ops)
             /\ queue'[i].h \in OpKinds <=> queue'[i].c # 0
  <2>1. i + 1 \in 1 .. Len(queue) /\ queue'[i] = queue[i + 1]
    BY TakesFacts
  <2> QED
    BY <2>1 DEF HandlerTypes
<1>3. 1 \in 1 .. Len(queue)
  BY TakesFacts
<1>4. queue[1].c \in 0 .. Len(ops) /\ (queue[1].h \in OpKinds <=> queue[1].c # 0)
  BY <1>3 DEF HandlerTypes
<1>5. queue[1] \in HandlerRec /\ (queue[1].h \in OfConnection <=> queue[1].h \in OpKinds)
  BY TakesFacts DEF Ready, HandlerRec, Labels, OfConnection, Kinds, OpKinds
<1>6. run' = [run EXCEPT ![w] = queue[1]]
  BY TailFacts DEF Takes, Take, HandlerTypes
<1>7. run' \in [Workers -> HandlerRec]
  BY <1>5, <1>6 DEF HandlerTypes, HandlerRec
<1>8. \A v \in Workers :
          /\ run'[v].c \in 0 .. Len(ops)
          /\ run'[v].h \in OfConnection <=> run'[v].c # 0
  BY <1>4, <1>5, TakesFacts DEF HandlerTypes
<1> QED
  BY <1>1, <1>2, <1>7, <1>8, TakesFacts DEF HandlerTypes, HandlerRec

\* A worker goes on with a handler of its own, or another one.
LEMMA RunTypes ==
    ASSUME HandlerTypes, NEW w \in Workers, NEW r \in HandlerRec,
           run' = [run EXCEPT ![w] = r], queue' = queue,
           Len(ops) \in Nat, Len(ops') \in Nat, Len(ops') >= Len(ops),
           r.c \in 0 .. Len(ops), r.h \in OfConnection <=> r.c # 0
    PROVE  HandlerTypes'
<1>1. run' \in [Workers -> HandlerRec]
  BY DEF HandlerTypes, HandlerRec
<1>2. 0 .. Len(ops) \subseteq 0 .. Len(ops')
  OBVIOUS
<1>3. \A v \in Workers : run'[v] = r \/ run'[v] = run[v]
  BY RunFacts
<1>4. \A v \in Workers :
          /\ run'[v].c \in 0 .. Len(ops')
          /\ run'[v].h \in OfConnection <=> run'[v].c # 0
  BY <1>2, <1>3 DEF HandlerTypes
<1>5. /\ queue' \in Seq(Ready)
      /\ \A i \in 1 .. Len(queue') :
            /\ queue'[i].c \in 0 .. Len(ops')
            /\ queue'[i].h \in OpKinds <=> queue'[i].c # 0
  BY <1>2 DEF HandlerTypes
<1> QED
  BY <1>1, <1>4, <1>5 DEF HandlerTypes, HandlerRec

LEMMA IdleRec == Idle \in HandlerRec /\ Idle.c = 0 /\ Idle.h \notin OfConnection
BY DEF Idle, Step, HandlerRec, Labels, OfConnection, Kinds

LEMMA ElsewhereTypes ==
    ASSUME ConnTypes, HandlerTypes, NEW w \in Workers, Elsewhere(w)
    PROVE  ConnTypes' /\ HandlerTypes'
<1>1. PICK r \in [h : Labels \ OfConnection, c : {0}, ok : BOOLEAN] :
          run' = [run EXCEPT ![w] = r]
  BY DEF Elsewhere
<1>2. r \in HandlerRec /\ r.c = 0 /\ r.h \notin OfConnection
  BY DEF HandlerRec
<1>3. ConnTypes' /\ Len(ops') = Len(ops) /\ Len(ops) \in Nat /\ queue' = queue
  BY DEF Elsewhere, Frame, ConnTypes
<1>4. r.c \in 0 .. Len(ops) /\ Len(ops') \in Nat /\ Len(ops') >= Len(ops)
  BY <1>2, <1>3
<1> QED
  BY <1>1, <1>2, <1>3, <1>4, RunTypes

\* A worker that handles something for a connection object.
LEMMA Handled ==
    ASSUME ConnTypes, HandlerTypes, NEW w \in Workers, run[w].h \in OfConnection
    PROVE  /\ run[w].c \in 1 .. Len(ops) /\ run[w] \in HandlerRec
           /\ Len(ops) \in Nat \ {0}
<1>1. run[w].c \in 0 .. Len(ops) /\ run[w].c # 0 /\ run[w] \in HandlerRec
      /\ Len(ops) \in Nat \ {0}
  BY DEF HandlerTypes, ConnTypes, HandlerRec
<1> QED
  BY <1>1

LEMMA AnswersTypes ==
    ASSUME ConnTypes, HandlerTypes, NEW w \in Workers, Answers(w)
    PROVE  ConnTypes' /\ HandlerTypes' /\ Len(ops') = Len(ops)
<1>1. run[w].c \in 1 .. Len(ops) /\ Len(ops) \in Nat \ {0}
  BY Handled DEF Answers, OfConnection, Kinds
<1>2. ops' \in Seq(SUBSET OpKinds) /\ Len(ops') = Len(ops)
  <2>1. ASSUME NEW op \in {"read", "write"}, StartOp(w, op)
        PROVE  ops' \in Seq(SUBSET OpKinds) /\ Len(ops') = Len(ops)
    BY <1>1, <2>1, StartsFacts DEF StartOp, OpKinds
  <2>2. CASE UNCHANGED ops
    BY <2>2 DEF ConnTypes
  <2> QED
    BY <2>1, <2>2 DEF Answers
<1>3. ended' \subseteq 1 .. Len(ops)
  BY <1>1 DEF Answers, Ends, ConnTypes
<1>4. ConnTypes'
  BY <1>1, <1>2, <1>3 DEF ConnTypes, Answers
<1>5. run' = [run EXCEPT ![w] = Idle] /\ queue' = queue
  BY DEF Answers, Return
<1>6. 0 \in 0 .. Len(ops) /\ Len(ops') \in Nat /\ Len(ops') >= Len(ops) /\ Len(ops) \in Nat
  BY <1>1, <1>2
<1> QED
  BY <1>2, <1>4, <1>5, <1>6, RunTypes, IdleRec

\* The worker that goes on for the same connection object.
LEMMA ContinueTypes ==
    ASSUME ConnTypes, HandlerTypes, NEW w \in Workers, run[w].h \in OfConnection,
           NEW h \in OfConnection, Continue(w, h), queue' = queue, Len(ops') = Len(ops)
    PROVE  HandlerTypes'
<1> DEFINE r == [run[w] EXCEPT !.h = h]
<1>1. run[w].c \in 1 .. Len(ops) /\ run[w] \in HandlerRec /\ Len(ops) \in Nat
  BY Handled
<1>2. r \in HandlerRec /\ r.c = run[w].c /\ r.h = h
  BY <1>1 DEF HandlerRec, OfConnection, Kinds, Labels
<1>3. run' = [run EXCEPT ![w] = r]
  BY DEF Continue
<1>4. r.c \in 0 .. Len(ops) /\ r.c # 0 /\ Len(ops') \in Nat /\ Len(ops') >= Len(ops)
  BY <1>1, <1>2
<1> HIDE DEF r
<1> QED
  BY <1>1, <1>2, <1>3, <1>4, RunTypes

LEMMA StartConnectionTypes ==
    ASSUME ConnTypes, HandlerTypes, NEW w \in Workers, StartConnection(w)
    PROVE  ConnTypes' /\ HandlerTypes' /\ Len(ops') = Len(ops)
<1>1. new_connection_ \in 1 .. Len(ops) /\ "read" \in OpKinds
  BY DEF new_connection_, ConnTypes, OpKinds
<1>2. ops' \in Seq(SUBSET OpKinds) /\ Len(ops') = Len(ops)
  <2>1. CASE run[w].ok
    BY <1>1, <2>1, StartsFacts DEF StartConnection
  <2>2. CASE ~run[w].ok
    BY <2>2 DEF StartConnection, ConnTypes
  <2> QED
    BY <2>1, <2>2
<1>3. ConnTypes'
  BY <1>2 DEF StartConnection, ConnTypes
<1>4. /\ run[w].h \in OfConnection /\ "start_accept" \in OfConnection
      /\ Continue(w, "start_accept") /\ queue' = queue
  BY DEF StartConnection, Running, OfConnection, Kinds
<1> QED
  BY <1>2, <1>3, <1>4, ContinueTypes

LEMMA StartAcceptTypes ==
    ASSUME ConnTypes, HandlerTypes, NEW w \in Workers, start_accept(w)
    PROVE  ConnTypes' /\ HandlerTypes'
<1>1. ops' = Append(ops, {"accept"}) /\ peer' = Append(peer, nobody)
      /\ ended' = ended /\ queue' = queue /\ run' = [run EXCEPT ![w] = Idle]
  BY DEF start_accept, AcceptsAgain, Return
<1>2. Len(ops) \in Nat \ {0}
  BY DEF ConnTypes
<1>3. /\ ops' \in Seq(SUBSET OpKinds) /\ Len(ops') = Len(ops) + 1
      /\ peer' \in Seq(Clients \cup {nobody}) /\ Len(peer') = Len(ops) + 1
  BY <1>1, AcceptFacts
<1>4. ConnTypes'
  BY <1>1, <1>2, <1>3 DEF ConnTypes
<1>5. 0 \in 0 .. Len(ops) /\ Len(ops') \in Nat /\ Len(ops') >= Len(ops) /\ Len(ops) \in Nat
  BY <1>2, <1>3
<1> QED
  BY <1>1, <1>4, <1>5, RunTypes, IdleRec

LEMMA DestroysTypes ==
    ASSUME ConnTypes, HandlerTypes, Destroys
    PROVE  ConnTypes' /\ HandlerTypes'
<1>1. DOMAIN ops = 1 .. Len(ops) /\ Len(ops) \in Nat \ {0}
  BY LenProperties DEF ConnTypes
<1>2. ops' = [c \in 1 .. Len(ops) |-> {}]
  BY <1>1 DEF Destroys
<1>3. ops' \in Seq(SUBSET OpKinds) /\ Len(ops') = Len(ops)
  BY <1>1, <1>2
<1>4. queue' \in Seq(Ready) /\ Len(queue') = 0 /\ 1 .. Len(queue') = {}
  BY DEF Destroys
<1>5. ConnTypes'
  BY <1>1, <1>3 DEF Destroys, ConnTypes
<1>6. run' = run
  BY DEF Destroys
<1> QED
  BY <1>3, <1>4, <1>5, <1>6 DEF HandlerTypes

LEMMA ConnTypesNext ==
    NetTypes /\ ConnTypes /\ HandlerTypes /\ MainInv /\ [Next]_vars
        => ConnTypes' /\ HandlerTypes'
<1> SUFFICES ASSUME NetTypes, ConnTypes, HandlerTypes, MainInv, [Next]_vars
             PROVE  ConnTypes' /\ HandlerTypes'
  OBVIOUS
<1>1. CASE Others
  BY <1>1 DEF Others, ConnTypes, HandlerTypes
<1>2. ASSUME NEW w \in Workers, Gets(w)
      PROVE  ConnTypes' /\ HandlerTypes'
  <2>1. ConnTypes' /\ Len(ops') = Len(ops) /\ queue' = queue /\ Continue(w, "get")
        /\ run[w].h \in OfConnection /\ "get" \in OfConnection
    BY <1>2 DEF Gets, Frame, ConnTypes, OfConnection, Kinds
  <2> QED
    BY <2>1, ContinueTypes
<1> QED
  BY <1>1, <1>2, Steps, CompletesTypes, PostsTypes, DestroysTypes, ElsewhereTypes,
     TakesTypes, AnswersTypes, StartConnectionTypes, StartAcceptTypes

-----------------------------------------------------------------------------
(* One thing at a time for every connection object. *)

OpsAlone == \A c \in 1 .. Len(ops) : \A o, p \in ops[c] : o = p

OpsNotReady ==
    \A c \in 1 .. Len(ops), i \in 1 .. Len(queue) : ops[c] # {} => queue[i].c # c

OpsNotRun ==
    \A c \in 1 .. Len(ops), w \in Workers :
        ops[c] # {} /\ run[w].h \in Kinds => run[w].c # c

ReadyOnce ==
    \A i, j \in 1 .. Len(queue) :
        queue[i].c = queue[j].c /\ queue[i].c # 0 => i = j

ReadyNotRun ==
    \A i \in 1 .. Len(queue), w \in Workers :
        run[w].h \in Kinds => run[w].c # queue[i].c

RunOnce ==
    \A v, w \in Workers :
        run[v].h \in Kinds /\ run[w].h \in Kinds /\ run[v].c = run[w].c => v = w

\* What is under way, ready and handled for one connection object is one thing.
Alone ==
    OpsAlone /\ OpsNotReady /\ OpsNotRun /\ ReadyOnce /\ ReadyNotRun /\ RunOnce

LEMMA CompletesAlone ==
    ASSUME ConnTypes, HandlerTypes, Alone, NEW c, NEW op, NEW ok, Completes(c, op, ok)
    PROVE  Alone'
<1> USE CompletesFacts
<1>1. /\ run' = run /\ Len(queue) \in Nat /\ Step(op, c, ok).c = c
      /\ c \in 1 .. Len(ops) /\ op \in ops[c]
  BY LenProperties DEF Completes, HandlerTypes, Step
<1>2. ops'[c] = {}
  BY DEF Alone, OpsAlone
<1>3. \A d \in 1 .. Len(ops') : d \in 1 .. Len(ops) /\ (d = c \/ (d # c /\ ops'[d] = ops[d]))
  OBVIOUS
<1>4. \A i \in 1 .. Len(queue') :
          \/ i \in 1 .. Len(queue) /\ queue'[i] = queue[i] /\ queue[i].c # c
          \/ i = Len(queue) + 1 /\ queue'[i].c = c
  BY <1>1 DEF Alone, OpsNotReady
<1>5. OpsAlone'
  BY <1>2, <1>3 DEF Alone, OpsAlone
<1>6. OpsNotReady'
  BY <1>2, <1>3, <1>4 DEF Alone, OpsNotReady
<1>7. OpsNotRun'
  BY <1>1, <1>2, <1>3 DEF Alone, OpsNotRun
<1>8. ReadyOnce'
  BY <1>4 DEF Alone, ReadyOnce
<1>9. ReadyNotRun'
  <2>1. \A w \in Workers : run[w].h \in Kinds => run[w].c # c
    BY <1>1 DEF Alone, OpsNotRun
  <2> QED
    BY <1>1, <1>4, <2>1 DEF Alone, ReadyNotRun
<1>10. RunOnce'
  BY <1>1 DEF Alone, RunOnce
<1> QED
  BY <1>5, <1>6, <1>7, <1>8, <1>9, <1>10 DEF Alone

LEMMA PostsAlone ==
    ASSUME ConnTypes, HandlerTypes, Alone, Posts
    PROVE  Alone'
<1>1. /\ run' = run /\ ops' = ops /\ Len(queue) \in Nat
  BY LenProperties DEF Posts, Frame, HandlerTypes
<1>2. \A i \in 1 .. Len(queue') :
          \/ i \in 1 .. Len(queue) /\ queue'[i] = queue[i]
          \/ i = Len(queue) + 1 /\ queue'[i].c = 0
  BY <1>1, PostsFacts
<1>3. \A d \in 1 .. Len(ops) : d # 0
  BY DEF ConnTypes
<1>4. OpsAlone' /\ OpsNotRun' /\ RunOnce'
  BY <1>1 DEF Alone, OpsAlone, OpsNotRun, RunOnce
<1>5. OpsNotReady'
  BY <1>1, <1>2, <1>3 DEF Alone, OpsNotReady
<1>6. ReadyOnce'
  BY <1>2 DEF Alone, ReadyOnce
<1>7. ReadyNotRun'
  <2>1. \A w \in Workers : run[w].h \in Kinds => run[w].c # 0
    BY DEF HandlerTypes, OfConnection
  <2> QED
    BY <1>1, <1>2, <2>1 DEF Alone, ReadyNotRun
<1> QED
  BY <1>4, <1>5, <1>6, <1>7 DEF Alone

LEMMA TakesAlone ==
    ASSUME ConnTypes, HandlerTypes, Alone, NEW w \in Workers, Takes(w)
    PROVE  Alone'
<1>1. /\ ops' = ops /\ Len(queue) \in Nat \ {0} /\ Len(queue') = Len(queue) - 1
      /\ 1 \in 1 .. Len(queue) /\ run'[w] = queue[1]
      /\ \A v \in Workers : v # w => run'[v] = run[v]
  BY TakesFacts DEF Takes, Frame
<1>2. \A i \in 1 .. Len(queue') :
          /\ i + 1 \in 1 .. Len(queue) /\ i + 1 # 1 /\ queue'[i] = queue[i + 1]
          /\ queue'[i].c # 0 => queue'[i].c # queue[1].c
  BY <1>1, TakesFacts DEF Alone, ReadyOnce
<1>3. queue[1].h \in Kinds => queue[1].c # 0
  <2>1. queue[1].h \in OpKinds <=> queue[1].c # 0
    BY <1>1 DEF HandlerTypes
  <2>2. queue[1].h \in Kinds => queue[1].h \in OpKinds
    BY TakesFacts DEF Ready, Kinds, OpKinds
  <2> QED
    BY <2>1, <2>2
<1>4. \A v \in Workers : run[v].h \in Kinds => run[v].c # queue[1].c
  BY <1>1 DEF Alone, ReadyNotRun
<1>5. OpsAlone'
  BY <1>1 DEF Alone, OpsAlone
<1>6. OpsNotReady'
  BY <1>1, <1>2 DEF Alone, OpsNotReady
<1>7. OpsNotRun'
  BY <1>1 DEF Alone, OpsNotReady, OpsNotRun
<1>8. ReadyOnce'
  <2> SUFFICES ASSUME NEW i \in 1 .. Len(queue'), NEW j \in 1 .. Len(queue'),
                      queue'[i].c = queue'[j].c, queue'[i].c # 0
               PROVE  i = j
    BY DEF ReadyOnce
  <2>1. i + 1 = j + 1
    BY <1>2 DEF Alone, ReadyOnce
  <2> QED
    BY <2>1
<1>9. ReadyNotRun'
  <2> SUFFICES ASSUME NEW i \in 1 .. Len(queue'), NEW v \in Workers, run'[v].h \in Kinds
               PROVE  run'[v].c # queue'[i].c
    BY DEF ReadyNotRun
  <2>1. CASE v = w
    BY <1>1, <1>2, <1>3, <2>1
  <2>2. CASE v # w
    BY <1>1, <1>2, <2>2 DEF Alone, ReadyNotRun
  <2> QED
    BY <2>1, <2>2
<1>10. RunOnce'
  BY <1>1, <1>4 DEF Alone, RunOnce
<1> QED
  BY <1>5, <1>6, <1>7, <1>8, <1>9, <1>10 DEF Alone

\* A worker that handles nothing of a connection any more.
LEMMA DoneAlone ==
    ASSUME Alone, NEW w \in Workers, run'[w].h \notin Kinds,
           \A v \in Workers : v # w => run'[v] = run[v],
           ops' = ops, queue' = queue
    PROVE  Alone'
BY DEF Alone, OpsAlone, OpsNotReady, OpsNotRun, ReadyOnce, ReadyNotRun, RunOnce

\* The handler of a connection starts its next operation and is done.
LEMMA StartsAlone ==
    ASSUME ConnTypes, Alone, NEW w \in Workers, run[w].h \in Kinds,
           run[w].c \in 1 .. Len(ops), NEW op \in OpKinds,
           ops' = [ops EXCEPT ![run[w].c] = @ \cup {op}], queue' = queue,
           run'[w].h \notin Kinds, \A v \in Workers : v # w => run'[v] = run[v]
    PROVE  Alone'
<1>1. /\ Len(ops') = Len(ops) /\ ops'[run[w].c] = ops[run[w].c] \cup {op}
      /\ \A d \in 1 .. Len(ops) : d # run[w].c => ops'[d] = ops[d]
  BY StartsFacts
<1>2. ops'[run[w].c] = {op}
  BY <1>1 DEF Alone, OpsNotRun
<1>3. \A v \in Workers : v # w /\ run[v].h \in Kinds => run[v].c # run[w].c
  BY DEF Alone, RunOnce
<1>4. OpsAlone'
  BY <1>1, <1>2 DEF Alone, OpsAlone
<1>5. OpsNotReady'
  BY <1>1 DEF Alone, OpsNotReady, ReadyNotRun
<1>6. OpsNotRun'
  BY <1>1, <1>3 DEF Alone, OpsNotRun
<1>7. ReadyOnce' /\ ReadyNotRun' /\ RunOnce'
  BY DEF Alone, ReadyOnce, ReadyNotRun, RunOnce
<1> QED
  BY <1>4, <1>5, <1>6, <1>7 DEF Alone

LEMMA AnswersAlone ==
    ASSUME ConnTypes, HandlerTypes, Alone, NEW w \in Workers, Answers(w)
    PROVE  Alone'
<1>1. /\ run[w].h \in Kinds /\ queue' = queue
      /\ run'[w].h \notin Kinds /\ \A v \in Workers : v # w => run'[v] = run[v]
  BY RunFacts DEF Answers, Kinds
<1>2. run[w].c \in 1 .. Len(ops)
  BY <1>1, Handled DEF OfConnection
<1>3. ASSUME NEW op \in {"read", "write"}, StartOp(w, op)
      PROVE  Alone'
  <2>1. op \in OpKinds /\ ops' = [ops EXCEPT ![run[w].c] = @ \cup {op}]
    BY <1>3 DEF StartOp, OpKinds
  <2> QED
    BY <1>1, <1>2, <2>1, StartsAlone
<1>4. CASE UNCHANGED ops
  BY <1>1, <1>4, DoneAlone
<1> QED
  BY <1>3, <1>4 DEF Answers

LEMMA GetsAlone ==
    ASSUME HandlerTypes, Alone, NEW w \in Workers, Gets(w)
    PROVE  Alone'
<1>1. /\ run[w].h \in Kinds /\ run'[w].c = run[w].c
      /\ \A v \in Workers : v # w => run'[v] = run[v]
      /\ ops' = ops /\ queue' = queue
  BY RunFacts DEF Gets, Frame, Kinds
<1>2. \A v \in Workers : run'[v].h \in Kinds => run[v].h \in Kinds
  BY <1>1
<1>3. \A v \in Workers : run'[v].c = run[v].c
  BY <1>1
<1> QED
  BY <1>1, <1>2, <1>3
     DEF Alone, OpsAlone, OpsNotReady, OpsNotRun, ReadyOnce, ReadyNotRun, RunOnce

LEMMA ElsewhereAlone ==
    ASSUME HandlerTypes, Alone, NEW w \in Workers, Elsewhere(w)
    PROVE  Alone'
<1>1. PICK r \in [h : Labels \ OfConnection, c : {0}, ok : BOOLEAN] :
          run' = [run EXCEPT ![w] = r]
  BY DEF Elsewhere
<1>2. r.h \notin Kinds
  BY DEF OfConnection
<1>3. run'[w].h \notin Kinds /\ \A v \in Workers : v # w => run'[v] = run[v]
  BY <1>1, <1>2, RunFacts
<1>4. ops' = ops /\ queue' = queue
  BY DEF Elsewhere, Frame
<1> QED
  BY <1>3, <1>4, DoneAlone

LEMMA StartAcceptAlone ==
    ASSUME ConnTypes, HandlerTypes, Alone, NEW w \in Workers, start_accept(w)
    PROVE  Alone'
<1>1. /\ ops' = Append(ops, {"accept"}) /\ peer' = Append(peer, nobody)
      /\ queue' = queue /\ Return(w)
  BY DEF start_accept, AcceptsAgain
<1>2. Len(ops') = Len(ops) + 1 /\ Len(ops) \in Nat \ {0}
      /\ ops'[Len(ops) + 1] = {"accept"} /\ \A d \in 1 .. Len(ops) : ops'[d] = ops[d]
  BY <1>1, AcceptFacts DEF ConnTypes
<1>3. run'[w].h \notin Kinds /\ \A v \in Workers : v # w => run'[v] = run[v]
  BY <1>1, RunFacts DEF Kinds
<1>4. \A d \in 1 .. Len(ops') :
          \/ d \in 1 .. Len(ops) /\ ops'[d] = ops[d]
          \/ d = Len(ops) + 1 /\ ops'[d] = {"accept"}
  BY <1>2
<1>5. \A i \in 1 .. Len(queue) : queue[i].c # Len(ops) + 1
  BY <1>2 DEF HandlerTypes
<1>6. \A v \in Workers : run[v].c # Len(ops) + 1
  BY <1>2 DEF HandlerTypes
<1>7. OpsAlone'
  BY <1>4 DEF Alone, OpsAlone
<1>8. OpsNotReady'
  BY <1>1, <1>4, <1>5 DEF Alone, OpsNotReady
<1>9. OpsNotRun'
  BY <1>3, <1>4, <1>6 DEF Alone, OpsNotRun
<1>10. ReadyOnce' /\ ReadyNotRun' /\ RunOnce'
  BY <1>1, <1>3 DEF Alone, ReadyOnce, ReadyNotRun, RunOnce
<1> QED
  BY <1>7, <1>8, <1>9, <1>10 DEF Alone

LEMMA DestroysAlone ==
    ASSUME ConnTypes, Alone, Destroys
    PROVE  Alone'
<1>1. /\ run' = run /\ 1 .. Len(queue') = {} /\ Len(ops') = Len(ops)
      /\ \A c \in 1 .. Len(ops) : ops'[c] = {}
  <2>1. DOMAIN ops = 1 .. Len(ops) /\ Len(ops) \in Nat
    BY LenProperties DEF ConnTypes
  <2>2. ops' = [c \in 1 .. Len(ops) |-> {}]
    BY <2>1 DEF Destroys
  <2>3. 1 .. Len(queue') = {} /\ run' = run
    BY DEF Destroys
  <2> QED
    BY <2>1, <2>2, <2>3
<1> QED
  BY <1>1
     DEF Alone, OpsAlone, OpsNotReady, OpsNotRun, ReadyOnce, ReadyNotRun, RunOnce

-----------------------------------------------------------------------------
(* The chain of accepts. *)

Accepts == {"accept", "start_accept"}

\* Only the object created last accepts, and none while start_accept is due.
OpsAccept == \A c \in 1 .. Len(ops) : "accept" \in ops[c] => c = Len(ops)
ReadyAccept == \A i \in 1 .. Len(queue) : queue[i].h = "accept" => queue[i].c = Len(ops)
RunAccept == \A w \in Workers : run[w].h \in Accepts => run[w].c = Len(ops)

NoneWhileDue ==
    \A w \in Workers : run[w].h = "start_accept" =>
        /\ "accept" \notin ops[Len(ops)]
        /\ \A i \in 1 .. Len(queue) : queue[i].h # "accept"
        /\ \A v \in Workers : run[v].h \in Accepts => v = w

SomeAccept ==
    main # "done" =>
        \/ "accept" \in ops[Len(ops)]
        \/ \E i \in 1 .. Len(queue) : queue[i].h = "accept"
        \/ \E w \in Workers : run[w].h \in Accepts

Accepting == OpsAccept /\ ReadyAccept /\ RunAccept /\ NoneWhileDue /\ SomeAccept

\* An accept leaves no room for another one, wherever it is.
LEMMA OneAccept ==
    ASSUME ConnTypes, Alone, Accepting
    PROVE  /\ "accept" \in ops[Len(ops)] =>
                 /\ \A i \in 1 .. Len(queue) : queue[i].h # "accept"
                 /\ \A w \in Workers : run[w].h \notin Accepts
           /\ \A i \in 1 .. Len(queue) : queue[i].h = "accept" =>
                 /\ "accept" \notin ops[Len(ops)]
                 /\ \A j \in 1 .. Len(queue) : queue[j].h = "accept" => i = j
                 /\ \A w \in Workers : run[w].h \notin Accepts
           /\ \A w \in Workers : run[w].h \in Accepts =>
                 /\ "accept" \notin ops[Len(ops)]
                 /\ \A i \in 1 .. Len(queue) : queue[i].h # "accept"
                 /\ \A v \in Workers : run[v].h \in Accepts => v = w
<1>1. Len(ops) \in 1 .. Len(ops) /\ Len(ops) # 0
  BY DEF ConnTypes
<1>2. "accept" \in Kinds /\ \A h \in Accepts : h = "accept" \/ h = "start_accept"
  BY DEF Kinds, Accepts
<1>3. "accept" \in ops[Len(ops)] =>
          /\ \A i \in 1 .. Len(queue) : queue[i].h # "accept"
          /\ \A w \in Workers : run[w].h # "accept"
  BY <1>1, <1>2 DEF Alone, OpsNotReady, OpsNotRun, Accepting, ReadyAccept, RunAccept, Accepts
<1>4. \A i \in 1 .. Len(queue), w \in Workers :
          ~(queue[i].h = "accept" /\ run[w].h = "accept")
  BY <1>2 DEF Alone, ReadyNotRun, Accepting, ReadyAccept, RunAccept, Accepts
<1>5. \A i, j \in 1 .. Len(queue) : queue[i].h = "accept" /\ queue[j].h = "accept" => i = j
  BY <1>1 DEF Alone, ReadyOnce, Accepting, ReadyAccept
<1>6. \A v, w \in Workers : run[v].h = "accept" /\ run[w].h = "accept" => v = w
  BY <1>2 DEF Alone, RunOnce, Accepting, RunAccept, Accepts
<1> QED
  BY <1>2, <1>3, <1>4, <1>5, <1>6 DEF Accepting, NoneWhileDue

LEMMA StartConnectionAlone ==
    ASSUME ConnTypes, HandlerTypes, Alone, Accepting, NEW w \in Workers, StartConnection(w)
    PROVE  Alone'
<1>1. /\ run[w].h = "accept" /\ run[w].h \in Kinds /\ queue' = queue
      /\ Continue(w, "start_accept")
  BY DEF StartConnection, Running, Kinds
<1>2. run[w].c = Len(ops) /\ run[w].c \in 1 .. Len(ops)
  BY <1>1 DEF Accepting, RunAccept, Accepts, ConnTypes
<1>3. run'[w].h \notin Kinds /\ \A v \in Workers : v # w => run'[v] = run[v]
  <2>1. run'[w].h = "start_accept" /\ \A v \in Workers : v # w => run'[v] = run[v]
    BY <1>1, RunFacts
  <2> QED
    BY <2>1 DEF Kinds
<1>4. CASE run[w].ok
  <2>1. ops' = [ops EXCEPT ![run[w].c] = @ \cup {"read"}] /\ "read" \in OpKinds
    BY <1>2, <1>4 DEF StartConnection, new_connection_, OpKinds
  <2> QED
    BY <1>1, <1>2, <1>3, <2>1, StartsAlone
<1>5. CASE ~run[w].ok
  BY <1>1, <1>3, <1>5, DoneAlone DEF StartConnection
<1> QED
  BY <1>4, <1>5

LEMMA AloneNext ==
    ASSUME NetTypes, ConnTypes, HandlerTypes, MainInv, Alone, Accepting, [Next]_vars
    PROVE  Alone'
<1>1. CASE Others
  BY <1>1
     DEF Others, Alone, OpsAlone, OpsNotReady, OpsNotRun, ReadyOnce, ReadyNotRun, RunOnce
<1> QED
  BY <1>1, Steps, CompletesAlone, PostsAlone, DestroysAlone, ElsewhereAlone, TakesAlone,
     AnswersAlone, GetsAlone, StartConnectionAlone, StartAcceptAlone

LEMMA CompletesAccepting ==
    ASSUME ConnTypes, HandlerTypes, Alone, Accepting,
           NEW c, NEW op, NEW ok, Completes(c, op, ok)
    PROVE  Accepting'
<1> USE CompletesFacts
<1>1. /\ run' = run /\ main' = main /\ Len(queue) \in Nat
      /\ Step(op, c, ok).c = c /\ Step(op, c, ok).h = op
      /\ Len(ops) \in 1 .. Len(ops)
  BY LenProperties DEF Completes, HandlerTypes, ConnTypes, Step
<1>2. op = "accept" => c = Len(ops)
  BY DEF Accepting, OpsAccept
<1>3. \A i \in 1 .. Len(queue') :
          \/ i \in 1 .. Len(queue) /\ queue'[i] = queue[i]
          \/ i = Len(queue) + 1 /\ queue'[i].c = c /\ queue'[i].h = op
  BY <1>1
<1>4. \A d \in 1 .. Len(ops) : "accept" \in ops'[d] => "accept" \in ops[d]
  OBVIOUS
<1>5. OpsAccept' /\ RunAccept'
  BY <1>1, <1>4 DEF Accepting, OpsAccept, RunAccept
<1>6. ReadyAccept'
  BY <1>2, <1>3 DEF Accepting, ReadyAccept
<1>7. NoneWhileDue'
  <2> SUFFICES ASSUME NEW w \in Workers, run[w].h = "start_accept"
               PROVE  /\ "accept" \notin ops'[Len(ops)]
                      /\ \A i \in 1 .. Len(queue') : queue'[i].h # "accept"
                      /\ \A v \in Workers : run[v].h \in Accepts => v = w
    BY <1>1 DEF NoneWhileDue
  <2>1. /\ "accept" \notin ops[Len(ops)]
        /\ \A i \in 1 .. Len(queue) : queue[i].h # "accept"
        /\ \A v \in Workers : run[v].h \in Accepts => v = w
    BY DEF Accepting, NoneWhileDue
  <2>2. op # "accept"
    BY <1>2, <2>1
  <2> QED
    BY <1>1, <1>3, <1>4, <2>1, <2>2
<1>8. SomeAccept'
  <2> SUFFICES ASSUME main # "done" PROVE SomeAccept'
    BY <1>1 DEF SomeAccept
  <2>1. CASE op = "accept"
    <3>1. Len(queue) + 1 \in 1 .. Len(queue') /\ queue'[Len(queue) + 1].h = "accept"
      BY <1>1, <2>1
    <3> QED
      BY <3>1 DEF SomeAccept
  <2>2. CASE op # "accept"
    <3>1. "accept" \in ops[Len(ops)] => "accept" \in ops'[Len(ops')]
      BY <1>1, <2>2
    <3>2. \A i \in 1 .. Len(queue) : i \in 1 .. Len(queue') /\ queue'[i] = queue[i]
      BY <1>1
    <3> QED
      BY <1>1, <3>1, <3>2 DEF Accepting, SomeAccept
  <2> QED
    BY <2>1, <2>2
<1> QED
  BY <1>5, <1>6, <1>7, <1>8 DEF Accepting

LEMMA PostsAccepting ==
    ASSUME HandlerTypes, Accepting, Posts
    PROVE  Accepting'
<1>1. run' = run /\ main' = main /\ ops' = ops /\ Len(queue) \in Nat
  BY LenProperties DEF Posts, Frame, HandlerTypes
<1>2. \A i \in 1 .. Len(queue') :
          \/ i \in 1 .. Len(queue) /\ queue'[i] = queue[i]
          \/ queue'[i].h # "accept"
  <2> TAKE i \in 1 .. Len(queue')
  <2>1. i \in 1 .. Len(queue) \/ i = Len(queue) + 1
    BY <1>1, PostsFacts
  <2> QED
    BY <2>1, PostsFacts
<1>3. \A i \in 1 .. Len(queue) : i \in 1 .. Len(queue') /\ queue'[i] = queue[i]
  BY <1>1, PostsFacts
<1> QED
  BY <1>1, <1>2, <1>3
     DEF Accepting, OpsAccept, ReadyAccept, RunAccept, NoneWhileDue, SomeAccept

LEMMA TakesAccepting ==
    ASSUME ConnTypes, HandlerTypes, Alone, Accepting, NEW w \in Workers, Takes(w)
    PROVE  Accepting'
<1>1. /\ ops' = ops /\ main' = main /\ Len(queue) \in Nat \ {0}
      /\ Len(queue') = Len(queue) - 1 /\ queue[1].h # "start_accept"
      /\ 1 \in 1 .. Len(queue) /\ run'[w] = queue[1] /\ run[w].h = "idle"
      /\ \A v \in Workers : v # w => run'[v] = run[v]
  BY TakesFacts DEF Takes, Frame, Ready
<1>2. \A i \in 1 .. Len(queue') :
          i + 1 \in 1 .. Len(queue) /\ i + 1 # 1 /\ queue'[i] = queue[i + 1]
  BY <1>1, TakesFacts
<1>3. OpsAccept' /\ ReadyAccept' /\ RunAccept'
  BY <1>1, <1>2 DEF Accepting, OpsAccept, ReadyAccept, RunAccept, Accepts
<1>4. NoneWhileDue'
  <2> SUFFICES ASSUME NEW v \in Workers, run'[v].h = "start_accept"
               PROVE  /\ "accept" \notin ops[Len(ops)]
                      /\ \A i \in 1 .. Len(queue') : queue'[i].h # "accept"
                      /\ \A u \in Workers : run'[u].h \in Accepts => u = v
    BY <1>1 DEF NoneWhileDue
  <2>1. v # w /\ run[v].h = "start_accept"
    BY <1>1
  <2>2. /\ "accept" \notin ops[Len(ops)]
        /\ \A i \in 1 .. Len(queue) : queue[i].h # "accept"
        /\ \A u \in Workers : run[u].h \in Accepts => u = v
    BY <2>1 DEF Accepting, NoneWhileDue
  <2>3. run'[w].h \notin Accepts
    BY <1>1, <2>2 DEF Accepts
  <2> QED
    BY <1>1, <1>2, <2>2, <2>3
<1>5. SomeAccept'
  <2> SUFFICES ASSUME main # "done" PROVE SomeAccept'
    BY <1>1 DEF SomeAccept
  <2>1. CASE "accept" \in ops[Len(ops)]
    BY <1>1, <2>1 DEF SomeAccept
  <2>2. ASSUME NEW v \in Workers, run[v].h \in Accepts PROVE SomeAccept'
    <3>1. v # w
      BY <1>1, <2>2 DEF Accepts
    <3> QED
      BY <1>1, <2>2, <3>1 DEF SomeAccept
  <2>3. ASSUME NEW i \in 1 .. Len(queue), queue[i].h = "accept" PROVE SomeAccept'
    <3>1. CASE i = 1
      BY <1>1, <2>3, <3>1 DEF SomeAccept, Accepts
    <3>2. CASE i # 1
      <4>1. PICK j \in 1 .. Len(queue') : j + 1 = i
        <5>1. i - 1 \in 1 .. Len(queue') /\ (i - 1) + 1 = i
          BY <1>1, <3>2
        <5> QED
          BY <5>1
      <4> QED
        BY <1>2, <2>3, <4>1 DEF SomeAccept
    <3> QED
      BY <3>1, <3>2
  <2> QED
    BY <2>1, <2>2, <2>3 DEF Accepting, SomeAccept
<1> QED
  BY <1>3, <1>4, <1>5 DEF Accepting

\* A worker that has nothing to do with the accepts, before or after the step.
LEMMA ApartAccepting ==
    ASSUME ConnTypes, Accepting, NEW w \in Workers,
           run[w].h \notin Accepts, run'[w].h \notin Accepts,
           \A v \in Workers : v # w => run'[v] = run[v],
           queue' = queue, main' = main, Len(ops') = Len(ops),
           \A c \in 1 .. Len(ops) : "accept" \in ops'[c] <=> "accept" \in ops[c]
    PROVE  Accepting'
<1>1. Len(ops) \in 1 .. Len(ops) /\ "start_accept" \in Accepts
  BY DEF ConnTypes, Accepts
<1>2. \A v \in Workers : \/ v # w /\ run'[v] = run[v]
                         \/ v = w /\ run'[v].h \notin Accepts
  OBVIOUS
<1>3. OpsAccept' /\ ReadyAccept' /\ RunAccept'
  BY <1>1, <1>2 DEF Accepting, OpsAccept, ReadyAccept, RunAccept
<1>4. NoneWhileDue'
  BY <1>1, <1>2 DEF Accepting, NoneWhileDue
<1>5. SomeAccept'
  BY <1>1 DEF Accepting, SomeAccept
<1> QED
  BY <1>3, <1>4, <1>5 DEF Accepting

LEMMA AnswersAccepting ==
    ASSUME ConnTypes, HandlerTypes, Accepting, NEW w \in Workers, Answers(w)
    PROVE  Accepting'
<1>1. /\ run[w].h \notin Accepts /\ queue' = queue /\ main' = main
      /\ run'[w].h \notin Accepts /\ \A v \in Workers : v # w => run'[v] = run[v]
  <2>1. run'[w].h = "idle" /\ \A v \in Workers : v # w => run'[v] = run[v]
    BY RunFacts DEF Answers
  <2> QED
    BY <2>1 DEF Answers, Accepts
<1>2. run[w].c \in 1 .. Len(ops)
  BY Handled DEF Answers, OfConnection, Kinds
<1>3. ASSUME NEW op \in {"read", "write"}, StartOp(w, op)
      PROVE  Accepting'
  <2>1. op \in OpKinds /\ op # "accept" /\ ops' = [ops EXCEPT ![run[w].c] = @ \cup {op}]
    BY <1>3 DEF StartOp, OpKinds
  <2>2. /\ Len(ops') = Len(ops) /\ ops'[run[w].c] = ops[run[w].c] \cup {op}
        /\ \A d \in 1 .. Len(ops) : d # run[w].c => ops'[d] = ops[d]
    BY <1>2, <2>1, StartsFacts
  <2>3. \A d \in 1 .. Len(ops) : "accept" \in ops'[d] <=> "accept" \in ops[d]
    BY <2>1, <2>2
  <2> QED
    BY <1>1, <2>2, <2>3, ApartAccepting
<1>4. CASE UNCHANGED ops
  BY <1>1, <1>4, ApartAccepting
<1> QED
  BY <1>3, <1>4 DEF Answers

LEMMA GetsAccepting ==
    ASSUME ConnTypes, HandlerTypes, Accepting, NEW w \in Workers, Gets(w)
    PROVE  Accepting'
<1>1. /\ run[w].h = "read" /\ run'[w].h = "get"
      /\ \A v \in Workers : v # w => run'[v] = run[v]
      /\ ops' = ops /\ queue' = queue /\ main' = main
  BY RunFacts DEF Gets, Frame
<1>2. "read" \notin Accepts /\ "get" \notin Accepts
  BY DEF Accepts
<1> QED
  BY <1>1, <1>2, ApartAccepting

LEMMA ElsewhereAccepting ==
    ASSUME ConnTypes, HandlerTypes, Accepting, NEW w \in Workers, Elsewhere(w)
    PROVE  Accepting'
<1>1. PICK r \in [h : Labels \ OfConnection, c : {0}, ok : BOOLEAN] :
          run' = [run EXCEPT ![w] = r]
  BY DEF Elsewhere
<1>2. r.h \notin Accepts /\ run[w].h \notin Accepts
  BY DEF Elsewhere, OfConnection, Kinds, Accepts
<1>3. run'[w].h \notin Accepts /\ \A v \in Workers : v # w => run'[v] = run[v]
  BY <1>1, <1>2, RunFacts
<1>4. ops' = ops /\ queue' = queue /\ main' = main
  BY DEF Elsewhere, Frame
<1> QED
  BY <1>2, <1>3, <1>4, ApartAccepting

LEMMA StartConnectionAccepting ==
    ASSUME ConnTypes, HandlerTypes, Alone, Accepting, NEW w \in Workers, StartConnection(w)
    PROVE  Accepting'
<1>1. /\ run[w].h \in Accepts /\ queue' = queue /\ main' = main
      /\ run'[w].h = "start_accept" /\ run'[w].h \in Accepts /\ run'[w].c = run[w].c
      /\ \A v \in Workers : v # w => run'[v] = run[v]
  BY RunFacts DEF StartConnection, Running, Accepts
<1>2. /\ Len(ops) \in 1 .. Len(ops) /\ Len(ops') = Len(ops)
      /\ \A d \in 1 .. Len(ops) : "accept" \in ops'[d] <=> "accept" \in ops[d]
  <2>1. new_connection_ \in 1 .. Len(ops) /\ "read" \in OpKinds
    BY DEF new_connection_, ConnTypes, OpKinds
  <2>2. CASE run[w].ok
    BY <2>1, <2>2, StartsFacts DEF StartConnection, new_connection_
  <2>3. CASE ~run[w].ok
    BY <2>1, <2>3 DEF StartConnection, new_connection_
  <2> QED
    BY <2>2, <2>3
<1>3. /\ "accept" \notin ops[Len(ops)]
      /\ \A i \in 1 .. Len(queue) : queue[i].h # "accept"
      /\ \A v \in Workers : run[v].h \in Accepts => v = w
  BY <1>1, OneAccept
<1>4. \A v \in Workers : run'[v].h \in Accepts <=> v = w
  BY <1>1, <1>3
<1>5. OpsAccept' /\ ReadyAccept' /\ RunAccept'
  BY <1>1, <1>2, <1>4 DEF Accepting, OpsAccept, ReadyAccept, RunAccept
<1>6. NoneWhileDue'
  BY <1>1, <1>2, <1>3, <1>4 DEF NoneWhileDue, Accepts
<1>7. SomeAccept'
  BY <1>1 DEF SomeAccept
<1> QED
  BY <1>5, <1>6, <1>7 DEF Accepting

LEMMA StartAcceptAccepting ==
    ASSUME ConnTypes, HandlerTypes, Alone, Accepting, NEW w \in Workers, start_accept(w)
    PROVE  Accepting'
<1>1. /\ ops' = Append(ops, {"accept"}) /\ peer' = Append(peer, nobody)
      /\ queue' = queue /\ Return(w) /\ run[w].h = "start_accept"
  BY DEF start_accept, AcceptsAgain, Running
<1>2. Len(ops') = Len(ops) + 1 /\ Len(ops) \in Nat \ {0}
      /\ ops'[Len(ops) + 1] = {"accept"} /\ \A d \in 1 .. Len(ops) : ops'[d] = ops[d]
  BY <1>1, AcceptFacts DEF ConnTypes
<1>3. run'[w].h = "idle" /\ \A v \in Workers : v # w => run'[v] = run[v]
  BY <1>1, RunFacts
<1>4. /\ "accept" \notin ops[Len(ops)]
      /\ \A i \in 1 .. Len(queue) : queue[i].h # "accept"
      /\ \A v \in Workers : run[v].h \in Accepts => v = w
  BY <1>1 DEF Accepting, NoneWhileDue
<1>5. \A v \in Workers : run'[v].h \notin Accepts
  BY <1>3, <1>4 DEF Accepts
<1>6. OpsAccept'
  <2> SUFFICES ASSUME NEW d \in 1 .. Len(ops'), "accept" \in ops'[d]
               PROVE  d = Len(ops')
    BY DEF OpsAccept
  <2>1. d \in 1 .. Len(ops) \/ d = Len(ops')
    BY <1>2
  <2>2. d \notin 1 .. Len(ops)
    BY <1>2, <1>4 DEF Accepting, OpsAccept
  <2> QED
    BY <2>1, <2>2
<1>7. ReadyAccept' /\ RunAccept' /\ NoneWhileDue' /\ SomeAccept'
  BY <1>1, <1>2, <1>4, <1>5 DEF ReadyAccept, RunAccept, NoneWhileDue, SomeAccept, Accepts
<1> QED
  BY <1>6, <1>7 DEF Accepting

LEMMA DestroysAccepting ==
    ASSUME ConnTypes, Destroys
    PROVE  Accepting'
<1>1. DOMAIN ops = 1 .. Len(ops) /\ Len(ops) \in Nat
  BY LenProperties DEF ConnTypes
<1>2. ops' = [c \in 1 .. Len(ops) |-> {}] /\ 1 .. Len(queue') = {} /\ main' = "done"
      /\ \A w \in Workers : run'[w] = Exited
  BY <1>1 DEF Destroys
<1>3. \A c \in 1 .. Len(ops') : ops'[c] = {}
  BY <1>1, <1>2
<1>4. \A w \in Workers : run'[w].h \notin Accepts
  BY <1>2 DEF Exited, Step, Accepts
<1>5. OpsAccept' /\ ReadyAccept' /\ RunAccept' /\ SomeAccept'
  BY <1>2, <1>3, <1>4 DEF OpsAccept, ReadyAccept, RunAccept, SomeAccept
<1>6. NoneWhileDue'
  BY <1>4 DEF NoneWhileDue, Accepts
<1> QED
  BY <1>5, <1>6 DEF Accepting

LEMMA AcceptingNext ==
    ASSUME NetTypes, ConnTypes, HandlerTypes, MainInv, Alone, Accepting, [Next]_vars
    PROVE  Accepting'
<1>1. CASE Others
  <2>1. ops' = ops /\ queue' = queue /\ run' = run /\ (main' # "done" => main # "done")
    BY <1>1, DoneForGood DEF Others
  <2>2. OpsAccept' /\ ReadyAccept' /\ RunAccept' /\ NoneWhileDue'
    BY <2>1 DEF Accepting, OpsAccept, ReadyAccept, RunAccept, NoneWhileDue
  <2>3. SomeAccept'
    BY <2>1 DEF Accepting, SomeAccept
  <2> QED
    BY <2>2, <2>3 DEF Accepting
<1> QED
  BY <1>1, Steps, CompletesAccepting, PostsAccepting, DestroysAccepting,
     ElsewhereAccepting, TakesAccepting, AnswersAccepting, GetsAccepting,
     StartConnectionAccepting, StartAcceptAccepting

-----------------------------------------------------------------------------
(* An accepted connection is owned until it ends. *)

\* An accept that is under way, or has failed, has filled no socket.
NoPeer ==
    /\ \A c \in 1 .. Len(ops) : "accept" \in ops[c] => peer[c] = nobody
    /\ \A i \in 1 .. Len(queue) :
          queue[i].h = "accept" /\ ~queue[i].ok => peer[queue[i].c] = nobody
    /\ \A w \in Workers :
          run[w].h = "accept" /\ ~run[w].ok => peer[run[w].c] = nobody

\* An operation, a ready handler or a worker holds the shared_ptr of the object.
Held(c) ==
    \/ ops[c] # {}
    \/ \E i \in 1 .. Len(queue) : queue[i].c = c
    \/ \E w \in Workers : run[w].h \in Kinds /\ run[w].c = c

AcceptedHeld ==
    main # "done" =>
        \A c \in 1 .. Len(ops) : peer[c] # nobody => c \in ended \/ Held(c)

Owned == NoPeer /\ AcceptedHeld

LEMMA CompletesOwned ==
    ASSUME ConnTypes, HandlerTypes, Alone, Owned,
           NEW c, NEW op, NEW ok, Completes(c, op, ok)
    PROVE  Owned'
<1> USE CompletesFacts
<1>1. /\ run' = run /\ main' = main /\ ended' = ended /\ Len(queue) \in Nat
      /\ Step(op, c, ok).c = c /\ Step(op, c, ok).h = op /\ Step(op, c, ok).ok = ok
      /\ c \in 1 .. Len(ops)
  BY LenProperties DEF Completes, HandlerTypes, Step
<1>2. \A i \in 1 .. Len(queue') :
          \/ i \in 1 .. Len(queue) /\ queue'[i] = queue[i] /\ queue[i].c # c
          \/ /\ i = Len(queue) + 1
             /\ queue'[i].c = c /\ queue'[i].h = op /\ queue'[i].ok = ok
  BY <1>1 DEF Alone, OpsNotReady
<1>3. /\ \A d \in 1 .. Len(ops) : d # c => peer'[d] = peer[d]
      /\ (op # "accept" \/ ~ok) => peer'[c] = peer[c]
  <2>1. CASE UNCHANGED peer
    BY <2>1
  <2>2. ASSUME op = "accept", ok, NEW k \in Clients, peer' = [peer EXCEPT ![c] = k]
        PROVE  \A d \in 1 .. Len(ops) : d # c => peer'[d] = peer[d]
    <3>1. c \in 1 .. Len(peer) /\ k \in Clients \cup {nobody} /\ Len(peer) = Len(ops)
      BY <1>1 DEF ConnTypes
    <3> QED
      BY <2>2, <3>1, ExceptSeq DEF ConnTypes
  <2> QED
    BY <2>1, <2>2 DEF Completes
<1>4. ops'[c] = {}
  BY DEF Alone, OpsAlone
<1>5. NoPeer'
  <2>1. \A d \in 1 .. Len(ops') : "accept" \in ops'[d] => peer'[d] = nobody
    BY <1>3, <1>4 DEF Owned, NoPeer
  <2>2. ASSUME NEW i \in 1 .. Len(queue'), queue'[i].h = "accept", ~queue'[i].ok
        PROVE  peer'[queue'[i].c] = nobody
    <3>1. CASE i = Len(queue) + 1
      BY <1>1, <1>2, <1>3, <2>2, <3>1 DEF Owned, NoPeer
    <3>2. CASE i # Len(queue) + 1
      <4>1. i \in 1 .. Len(queue) /\ queue'[i] = queue[i] /\ queue[i].c # c
        BY <1>2, <3>2
      <4>2. queue[i].c \in 1 .. Len(ops)
        BY <2>2, <4>1 DEF HandlerTypes, ConnTypes, OpKinds
      <4> QED
        BY <1>3, <2>2, <4>1, <4>2 DEF Owned, NoPeer
    <3> QED
      BY <3>1, <3>2
  <2>3. ASSUME NEW w \in Workers, run[w].h = "accept", ~run[w].ok
        PROVE  peer'[run[w].c] = nobody
    <3>1. run[w].c \in 1 .. Len(ops) /\ run[w].c # c
      BY <1>1, <2>3, Handled DEF Alone, OpsNotRun, Kinds, OfConnection
    <3> QED
      BY <1>3, <2>3, <3>1 DEF Owned, NoPeer
  <2> QED
    BY <1>1, <2>1, <2>2, <2>3 DEF NoPeer
<1>6. AcceptedHeld'
  <2> SUFFICES ASSUME main # "done", NEW d \in 1 .. Len(ops), peer'[d] # nobody
               PROVE  d \in ended \/ Held(d)'
    BY <1>1 DEF AcceptedHeld
  <2>1. CASE d = c
    <3>1. Len(queue) + 1 \in 1 .. Len(queue') /\ queue'[Len(queue) + 1].c = c
      BY <1>1
    <3> QED
      BY <2>1, <3>1 DEF Held
  <2>2. CASE d # c
    <3>1. d \in ended \/ Held(d)
      BY <1>3, <2>2 DEF Owned, AcceptedHeld
    <3>2. \A i \in 1 .. Len(queue) : i \in 1 .. Len(queue') /\ queue'[i] = queue[i]
      BY <1>1
    <3>3. ops'[d] = ops[d] /\ run' = run
      BY <1>1, <2>2
    <3>4. Held(d) => Held(d)'
      BY ONLY <3>2, <3>3 DEF Held, Kinds
    <3> QED
      BY <1>1, <3>1, <3>4
  <2> QED
    BY <2>1, <2>2
<1> QED
  BY <1>5, <1>6 DEF Owned

LEMMA PostsOwned ==
    ASSUME ConnTypes, HandlerTypes, Owned, Posts
    PROVE  Owned'
<1>1. /\ run' = run /\ main' = main /\ ended' = ended /\ ops' = ops /\ peer' = peer
      /\ Len(queue) \in Nat
  BY LenProperties DEF Posts, Frame, HandlerTypes
<1>2. \A i \in 1 .. Len(queue') :
          \/ i \in 1 .. Len(queue) /\ queue'[i] = queue[i]
          \/ queue'[i].h # "accept"
  <2> TAKE i \in 1 .. Len(queue')
  <2>1. i \in 1 .. Len(queue) \/ i = Len(queue) + 1
    BY <1>1, PostsFacts
  <2> QED
    BY <2>1, PostsFacts
<1>3. \A i \in 1 .. Len(queue) : i \in 1 .. Len(queue') /\ queue'[i] = queue[i]
  BY <1>1, PostsFacts
<1>4. NoPeer'
  BY <1>1, <1>2 DEF Owned, NoPeer
<1>5. \A c : Held(c) => Held(c)'
  BY <1>1, <1>3 DEF Held
<1> QED
  BY <1>1, <1>4, <1>5 DEF Owned, AcceptedHeld

LEMMA TakesOwned ==
    ASSUME ConnTypes, HandlerTypes, Owned, NEW w \in Workers, Takes(w)
    PROVE  Owned'
<1>1. /\ ops' = ops /\ main' = main /\ ended' = ended /\ peer' = peer
      /\ Len(queue) \in Nat \ {0} /\ Len(queue') = Len(queue) - 1
      /\ 1 \in 1 .. Len(queue) /\ run'[w] = queue[1] /\ run[w].h = "idle"
      /\ \A v \in Workers : v # w => run'[v] = run[v]
  BY TakesFacts DEF Takes, Frame
<1>2. \A i \in 1 .. Len(queue') : i + 1 \in 1 .. Len(queue) /\ queue'[i] = queue[i + 1]
  BY <1>1, TakesFacts
<1>3. NoPeer'
  BY <1>1, <1>2 DEF Owned, NoPeer
<1>4. ASSUME NEW c \in 1 .. Len(ops), Held(c) PROVE Held(c)'
  <2>1. CASE ops[c] # {}
    BY <1>1, <2>1 DEF Held
  <2>2. ASSUME NEW v \in Workers, run[v].h \in Kinds, run[v].c = c PROVE Held(c)'
    <3>1. v # w
      BY <1>1, <2>2 DEF Kinds
    <3> QED
      BY <1>1, <2>2, <3>1 DEF Held
  <2>3. ASSUME NEW i \in 1 .. Len(queue), queue[i].c = c PROVE Held(c)'
    <3>1. CASE i = 1
      <4>1. queue[1].h \in OpKinds
        BY <1>1, <2>3, <3>1 DEF HandlerTypes, ConnTypes
      <4>2. run'[w].h \in Kinds /\ run'[w].c = c
        BY <1>1, <2>3, <3>1, <4>1 DEF OpKinds, Kinds
      <4> QED
        BY <4>2 DEF Held
    <3>2. CASE i # 1
      <4>1. i - 1 \in 1 .. Len(queue') /\ (i - 1) + 1 = i
        BY <1>1, <3>2
      <4>2. queue'[i - 1].c = c
        BY <1>2, <2>3, <4>1
      <4> QED
        BY <4>1, <4>2 DEF Held
    <3> QED
      BY <3>1, <3>2
  <2> QED
    BY <1>4, <2>1, <2>2, <2>3 DEF Held
<1>5. AcceptedHeld'
  BY <1>1, <1>4 DEF Owned, AcceptedHeld
<1> QED
  BY <1>3, <1>5 DEF Owned

\* A worker that handles no accept after the step; nothing else loses its owner.
LEMMA ApartOwned ==
    ASSUME Owned, NEW w \in Workers, run'[w].h # "accept",
           \A v \in Workers : v # w => run'[v] = run[v],
           queue' = queue, main' # "done" => main # "done", Len(ops') = Len(ops),
           peer' = peer, ended \subseteq ended',
           \A c \in 1 .. Len(ops) : "accept" \in ops'[c] => "accept" \in ops[c],
           \A c \in 1 .. Len(ops) : ops[c] # {} => ops'[c] # {},
           run[w].h \in Kinds => \/ run[w].c \in ended' \/ peer[run[w].c] = nobody
                                 \/ ops'[run[w].c] # {}
                                 \/ run'[w].h \in Kinds /\ run'[w].c = run[w].c
    PROVE  Owned'
<1>1. NoPeer'
  BY DEF Owned, NoPeer
<1>2. ASSUME NEW c \in 1 .. Len(ops), Held(c), peer[c] # nobody
      PROVE  c \in ended' \/ Held(c)'
  BY <1>2 DEF Held
<1>3. AcceptedHeld'
  BY <1>2 DEF Owned, AcceptedHeld
<1> QED
  BY <1>1, <1>3 DEF Owned

LEMMA AnswersOwned ==
    ASSUME ConnTypes, HandlerTypes, Owned, NEW w \in Workers, Answers(w)
    PROVE  Owned'
<1>1. /\ queue' = queue /\ main' = main /\ peer' = peer /\ run'[w].h = "idle"
      /\ \A v \in Workers : v # w => run'[v] = run[v]
  BY RunFacts DEF Answers
<1>2. run[w].c \in 1 .. Len(ops)
  BY Handled DEF Answers, OfConnection, Kinds
<1>3. ASSUME NEW op \in {"read", "write"}, StartOp(w, op), UNCHANGED ended
      PROVE  Owned'
  <2>1. op \in OpKinds /\ op # "accept" /\ ops' = [ops EXCEPT ![run[w].c] = @ \cup {op}]
    BY <1>3 DEF StartOp, OpKinds
  <2>2. /\ Len(ops') = Len(ops) /\ ops'[run[w].c] = ops[run[w].c] \cup {op}
        /\ \A d \in 1 .. Len(ops) : d # run[w].c => ops'[d] = ops[d]
    BY <1>2, <2>1, StartsFacts
  <2>3. /\ \A d \in 1 .. Len(ops) : "accept" \in ops'[d] => "accept" \in ops[d]
        /\ \A d \in 1 .. Len(ops) : ops[d] # {} => ops'[d] # {}
        /\ ops'[run[w].c] # {}
    <3>1. PICK c : c = run[w].c /\ c \in 1 .. Len(ops)  BY <1>2
    <3>2. /\ ops'[c] = ops[c] \cup {op}
          /\ \A d \in 1 .. Len(ops) : d # c => ops'[d] = ops[d]
      BY ONLY <2>2, <3>1
    <3>3. /\ "accept" \in ops'[c] => "accept" \in ops[c]
          /\ ops'[c] # {}
      BY ONLY <2>1, <3>2
    <3> QED BY ONLY <3>1, <3>2, <3>3
  <2> QED
    BY <1>1, <1>3, <2>2, <2>3, ApartOwned
<1>4. CASE Ends(w) /\ UNCHANGED ops
  BY <1>1, <1>4, ApartOwned DEF Ends
<1> QED
  BY <1>3, <1>4 DEF Answers

LEMMA GetsOwned ==
    ASSUME HandlerTypes, Owned, NEW w \in Workers, Gets(w)
    PROVE  Owned'
<1>1. /\ run'[w].h = "get" /\ run'[w].c = run[w].c
      /\ \A v \in Workers : v # w => run'[v] = run[v]
      /\ ops' = ops /\ queue' = queue /\ main' = main /\ peer' = peer /\ ended' = ended
  BY RunFacts DEF Gets, Frame
<1>2. "get" \in Kinds
  BY DEF Kinds
<1> QED
  BY <1>1, <1>2, ApartOwned

LEMMA ElsewhereOwned ==
    ASSUME HandlerTypes, Owned, NEW w \in Workers, Elsewhere(w)
    PROVE  Owned'
<1>1. PICK r \in [h : Labels \ OfConnection, c : {0}, ok : BOOLEAN] :
          run' = [run EXCEPT ![w] = r]
  BY DEF Elsewhere
<1>2. r.h # "accept" /\ run[w].h \notin Kinds
  BY DEF Elsewhere, OfConnection, Kinds
<1>3. run'[w].h # "accept" /\ \A v \in Workers : v # w => run'[v] = run[v]
  BY <1>1, <1>2, RunFacts
<1>4. ops' = ops /\ queue' = queue /\ main' = main /\ peer' = peer /\ ended' = ended
  BY DEF Elsewhere, Frame
<1> QED
  BY <1>2, <1>3, <1>4, ApartOwned

LEMMA StartConnectionOwned ==
    ASSUME ConnTypes, HandlerTypes, Accepting, Owned, NEW w \in Workers, StartConnection(w)
    PROVE  Owned'
<1>1. /\ run[w].h = "accept" /\ queue' = queue /\ main' = main /\ peer' = peer
      /\ ended' = ended /\ run'[w].h = "start_accept"
      /\ \A v \in Workers : v # w => run'[v] = run[v]
  BY RunFacts DEF StartConnection, Running
<1>2. run[w].c = Len(ops) /\ Len(ops) \in 1 .. Len(ops)
  BY <1>1 DEF Accepting, RunAccept, Accepts, ConnTypes
<1>3. CASE run[w].ok
  <2>1. ops' = [ops EXCEPT ![run[w].c] = @ \cup {"read"}] /\ "read" \in OpKinds
    BY <1>2, <1>3 DEF StartConnection, new_connection_, OpKinds
  <2>2. /\ Len(ops') = Len(ops) /\ ops'[run[w].c] = ops[run[w].c] \cup {"read"}
        /\ \A d \in 1 .. Len(ops) : d # run[w].c => ops'[d] = ops[d]
    BY <1>2, <2>1, StartsFacts
  <2>3. /\ \A d \in 1 .. Len(ops) : "accept" \in ops'[d] => "accept" \in ops[d]
        /\ \A d \in 1 .. Len(ops) : ops[d] # {} => ops'[d] # {}
        /\ ops'[run[w].c] # {}
    BY <2>2
  <2> QED
    BY <1>1, <2>2, <2>3, ApartOwned
<1>4. CASE ~run[w].ok
  <2>1. ops' = ops /\ peer[run[w].c] = nobody
    BY <1>1, <1>4 DEF StartConnection, Owned, NoPeer
  <2> QED
    BY <1>1, <2>1, ApartOwned
<1> QED
  BY <1>3, <1>4

LEMMA StartAcceptOwned ==
    ASSUME ConnTypes, HandlerTypes, Owned, NEW w \in Workers, start_accept(w)
    PROVE  Owned'
<1>1. /\ ops' = Append(ops, {"accept"}) /\ peer' = Append(peer, nobody)
      /\ queue' = queue /\ Return(w) /\ run[w].h = "start_accept"
      /\ main' = main /\ ended' = ended
  BY DEF start_accept, AcceptsAgain, Running
<1>2. /\ Len(ops') = Len(ops) + 1 /\ Len(ops) \in Nat \ {0}
      /\ \A d \in 1 .. Len(ops) : ops'[d] = ops[d] /\ peer'[d] = peer[d]
      /\ peer'[Len(ops) + 1] = nobody
  BY <1>1, AcceptFacts DEF ConnTypes
<1>3. run'[w].h = "idle" /\ \A v \in Workers : v # w => run'[v] = run[v]
  BY <1>1, RunFacts
<1>4. \A d \in 1 .. Len(ops') : d \in 1 .. Len(ops) \/ d = Len(ops) + 1
  BY <1>2
<1>5. NoPeer'
  <2>1. \A d \in 1 .. Len(ops') : "accept" \in ops'[d] => peer'[d] = nobody
    BY <1>2, <1>4 DEF Owned, NoPeer
  <2>2. ASSUME NEW i \in 1 .. Len(queue), queue[i].h = "accept", ~queue[i].ok
        PROVE  peer'[queue[i].c] = nobody
    <3>1. queue[i].c \in 1 .. Len(ops)
      BY <1>2, <2>2 DEF HandlerTypes, OpKinds
    <3> QED
      BY <1>2, <2>2, <3>1 DEF Owned, NoPeer
  <2>3. ASSUME NEW v \in Workers, run'[v].h = "accept", ~run'[v].ok
        PROVE  peer'[run'[v].c] = nobody
    <3>1. v # w /\ run'[v] = run[v]
      BY <1>3, <2>3
    <3>2. run[v].c \in 1 .. Len(ops)
      BY <2>3, <3>1, Handled DEF OfConnection, Kinds
    <3> QED
      BY <1>2, <2>3, <3>1, <3>2 DEF Owned, NoPeer
  <2> QED
    BY <1>1, <2>1, <2>2, <2>3 DEF NoPeer
<1>6. ASSUME NEW c \in 1 .. Len(ops), Held(c) PROVE Held(c)'
  <2>1. run[w].h \notin Kinds
    BY <1>1 DEF Kinds
  <2> QED
    BY <1>1, <1>2, <1>3, <1>6, <2>1 DEF Held
<1>7. AcceptedHeld'
  <2> SUFFICES ASSUME main # "done", NEW d \in 1 .. Len(ops'), peer'[d] # nobody
               PROVE  d \in ended \/ Held(d)'
    BY <1>1 DEF AcceptedHeld
  <2>1. d \in 1 .. Len(ops) /\ peer[d] # nobody
    BY <1>2, <1>4
  <2> QED
    BY <1>6, <2>1 DEF Owned, AcceptedHeld
<1> QED
  BY <1>5, <1>7 DEF Owned

LEMMA DestroysOwned ==
    ASSUME ConnTypes, Destroys
    PROVE  Owned'
<1>1. DOMAIN ops = 1 .. Len(ops) /\ Len(ops) \in Nat
  BY LenProperties DEF ConnTypes
<1>2. ops' = [c \in 1 .. Len(ops) |-> {}] /\ 1 .. Len(queue') = {} /\ main' = "done"
      /\ \A w \in Workers : run'[w] = Exited
  BY <1>1 DEF Destroys
<1>3. \A c \in 1 .. Len(ops') : ops'[c] = {}
  BY <1>1, <1>2
<1>4. \A w \in Workers : run'[w].h # "accept"
  BY <1>2 DEF Exited, Step
<1> QED
  BY <1>2, <1>3, <1>4 DEF Owned, NoPeer, AcceptedHeld

LEMMA OwnedNext ==
    ASSUME NetTypes, ConnTypes, HandlerTypes, MainInv, Alone, Accepting, Owned, [Next]_vars
    PROVE  Owned'
<1>1. CASE Others
  <2>1. /\ ops' = ops /\ queue' = queue /\ run' = run /\ (main' # "done" => main # "done")
        /\ peer' = peer /\ ended' = ended
    BY <1>1, DoneForGood DEF Others
  <2>2. \A c : Held(c) => Held(c)'
    BY <2>1 DEF Held
  <2> QED
    BY <2>1, <2>2 DEF Owned, NoPeer, AcceptedHeld
<1> QED
  BY <1>1, Steps, CompletesOwned, PostsOwned, DestroysOwned, ElsewhereOwned,
     TakesOwned, AnswersOwned, GetsOwned, StartConnectionOwned, StartAcceptOwned

-----------------------------------------------------------------------------
(* What the clients do, the flags and the pool keep their types too. *)

LEMMA NetTypesNext == NetTypes /\ [Next]_vars => NetTypes'
<1> SUFFICES ASSUME NetTypes, [Next]_vars PROVE NetTypes'
  OBVIOUS
<1>1. ASSUME NEW k \in Clients, Connect(k) PROVE NetTypes'
  <2>1. arrived' = arrived \cup {k} /\ backlog' = Append(backlog, k) /\ errors' = errors
    BY <1>1 DEF Connect
  <2>2. backlog \in Seq(arrived')
    BY <2>1, SeqMonotonic DEF NetTypes
  <2>3. backlog' \in Seq(arrived')
    BY <2>1, <2>2, AppendFacts
  <2> QED
    BY <2>1, <2>3 DEF NetTypes
<1>2. CASE AcceptDone
  BY <1>2, TailFacts DEF AcceptDone, NetTypes
<1>3. CASE AcceptError
  BY <1>3, MaxErrorsAssumption DEF AcceptError, NetTypes
<1>4. CASE UNCHANGED net
  BY <1>4 DEF net, NetTypes
<1>5. ASSUME NEW w \in Workers, Worker(w) PROVE UNCHANGED net
  BY <1>5 DEF Worker, Take, Exit, StartConnection, start_accept, handle_read, GetBegin,
              GetEnd, handle_write, handle_timer, Rearm, handle_stop, StopIo
<1>6. ASSUME NEW c \in DOMAIN ops, NEW ok \in BOOLEAN,
             ReadDone(c, ok) \/ WriteDone(c, ok)
      PROVE  UNCHANGED net
  BY <1>6 DEF ReadDone, WriteDone
<1>7. CASE TimerExpires
  BY <1>4, <1>7 DEF TimerExpires
<1>8. CASE Signal
  BY <1>8 DEF Signal, NetTypes
<1>9. CASE Main
  BY <1>4, <1>9 DEF Main, MainGoesOn, CreateHandles, Join, DeletePool, DestroyServer
<1>10. CASE UNCHANGED vars
  BY <1>4, <1>10 DEF vars
<1> QED
  BY <1>1, <1>2, <1>3, <1>4, <1>5, <1>6, <1>7, <1>8, <1>9, <1>10
     DEF Next, Kernel, Finished

\* The handlers that can be ready.
LEMMA ReadyLabels ==
    ASSUME HandlerTypes
    PROVE  \A i \in 1 .. Len(queue) :
              queue[i].h \in {"accept", "read", "write", "timer", "stop"}
<1>1. \A i \in 1 .. Len(queue) : queue[i] \in Ready
  BY ElementOfSeq DEF HandlerTypes
<1> QED
  BY <1>1 DEF Ready

\* isHandleStop is set by the handler that then stops the io_service.
LEMMA FlagTypesNext == HandlerTypes /\ FlagTypes /\ [Next]_vars => FlagTypes'
<1> SUFFICES ASSUME HandlerTypes, FlagTypes, [Next]_vars PROVE FlagTypes'
  OBVIOUS
<1>1. CASE UNCHANGED <<run, signalled, stop, main>> /\ timer' \in BOOLEAN
  BY <1>1 DEF stop, FlagTypes
<1>2. CASE Kernel
  <2>1. CASE \E k \in Clients : Connect(k)
    BY <1>1, <2>1 DEF Connect, FlagTypes
  <2>2. CASE AcceptDone \/ AcceptError
    BY <1>1, <2>2 DEF AcceptDone, AcceptError, FlagTypes
  <2>3. CASE \E c \in DOMAIN ops, ok \in BOOLEAN : ReadDone(c, ok) \/ WriteDone(c, ok)
    BY <1>1, <2>3 DEF ReadDone, WriteDone, net, FlagTypes
  <2>4. CASE TimerExpires
    BY <1>1, <2>4 DEF TimerExpires, net, FlagTypes
  <2>5. CASE Signal
    BY <2>5 DEF Signal, stop, FlagTypes
  <2> QED
    BY <1>2, <2>1, <2>2, <2>3, <2>4, <2>5 DEF Kernel
<1>3. ASSUME NEW w \in Workers, Worker(w) PROVE FlagTypes'
  <2>1. /\ \A h : Continue(w, h) => run'[w].h = h
        /\ Return(w) => run'[w].h = "idle"
        /\ (Return(w) \/ \E h : Continue(w, h)) =>
              \A v \in Workers : v # w => run'[v] = run[v]
    BY RunFacts
  <2>2. ASSUME UNCHANGED <<signalled, stop, main>>, timer' \in BOOLEAN,
               \A v \in Workers : v # w => run'[v] = run[v], run'[w].h # "stop_io"
        PROVE  FlagTypes'
    BY <2>2 DEF stop, FlagTypes
  <2>10. ASSUME NEW h \in {"start_accept", "get", "rearm"}, Continue(w, h),
                UNCHANGED <<signalled, stop, main, timer>>
         PROVE  FlagTypes'
    <3>1. run'[w].h # "stop_io" /\ \A v \in Workers : v # w => run'[v] = run[v]
      BY <2>1, <2>10
    <3>2. timer' \in BOOLEAN
      BY <2>10 DEF FlagTypes
    <3> QED
      BY <2>2, <2>10, <3>1, <3>2
  <2>11. ASSUME Return(w), UNCHANGED <<signalled, stop, main, timer>>
         PROVE  FlagTypes'
    <3>1. run'[w].h # "stop_io" /\ \A v \in Workers : v # w => run'[v] = run[v]
      BY <2>1, <2>11
    <3>2. timer' \in BOOLEAN
      BY <2>11 DEF FlagTypes
    <3> QED
      BY <2>2, <2>11, <3>1, <3>2
  <2>3. CASE Take(w)
    <3>1. run' = [run EXCEPT ![w] = Head(queue)] /\ queue # << >>
      BY <2>3 DEF Take
    <3>2. Head(queue) \in Ready
      BY <3>1, TailFacts DEF HandlerTypes
    <3>3. Head(queue).h # "stop_io"
      BY <3>2 DEF Ready
    <3>4. UNCHANGED <<signalled, stop, main>> /\ timer' \in BOOLEAN
      BY <2>3 DEF Take, net, FlagTypes
    <3>5. /\ run'[w].h # "stop_io"
          /\ \A v \in Workers : v # w => run'[v] = run[v]
      BY <3>1, <3>3, RunFacts
    <3> QED
      BY <2>2, <3>4, <3>5
  <2>4. CASE Exit(w)
    <3>1. run' = [run EXCEPT ![w] = Exited] /\ Exited.h # "stop_io"
      BY <2>4 DEF Exit, Exited, Step
    <3>2. UNCHANGED <<signalled, stop, main>> /\ timer' \in BOOLEAN
      BY <2>4 DEF Exit, net, FlagTypes
    <3>3. /\ run'[w].h # "stop_io"
          /\ \A v \in Workers : v # w => run'[v] = run[v]
      BY <3>1, RunFacts
    <3> QED
      BY <2>2, <3>2, <3>3
  <2>5. CASE StartConnection(w) \/ start_accept(w) \/ handle_read(w)
    <3>1. CASE StartConnection(w)
      BY <2>10, <3>1 DEF StartConnection, net
    <3>2. CASE start_accept(w)
      BY <2>11, <3>2 DEF start_accept, net
    <3>3. CASE handle_read(w)
      BY <2>11, <3>3 DEF handle_read, net
    <3> QED
      BY <2>5, <3>1, <3>2, <3>3
  <2>6. CASE GetBegin(w) \/ GetEnd(w) \/ handle_write(w)
    <3>1. CASE GetBegin(w)
      BY <2>10, <3>1 DEF GetBegin, net
    <3>2. CASE GetEnd(w)
      BY <2>11, <3>2 DEF GetEnd, net
    <3>3. CASE handle_write(w)
      BY <2>11, <3>3 DEF handle_write, net
    <3> QED
      BY <2>6, <3>1, <3>2, <3>3
  <2>7. CASE handle_timer(w) \/ Rearm(w)
    <3>1. CASE handle_timer(w)
      BY <2>10, <2>11, <3>1 DEF handle_timer, net
    <3>2. CASE Rearm(w)
      <4>1. timer' \in BOOLEAN /\ Return(w) /\ UNCHANGED <<signalled, stop, main>>
        BY <3>2 DEF Rearm, net
      <4> QED
        BY <2>1, <2>2, <4>1
    <3> QED
      BY <2>7, <3>1, <3>2
  <2>8. CASE handle_stop(w)
    BY <2>1, <2>8 DEF handle_stop, SetFlag, net, FlagTypes
  <2>9. CASE StopIo(w)
    <3>1. run[w].h = "stop_io" /\ isHandleStop /\ isHandleStop' = isHandleStop
      BY <2>9 DEF StopIo, StopService, Running, FlagTypes
    <3> QED
      BY <2>1, <2>9, <3>1 DEF StopIo, StopService, net, FlagTypes
  <2> QED
    BY <1>3, <2>3, <2>4, <2>5, <2>6, <2>7, <2>8, <2>9 DEF Worker
<1>4. CASE Main
  <2>1. CASE CreateHandles \/ DeletePool
    BY <1>1, <2>1 DEF CreateHandles, DeletePool, net, FlagTypes
  <2>2. CASE Join \/ DestroyServer
    <3>1. UNCHANGED <<run, signalled, isHandleStop, stopped>>
      BY <2>2 DEF Join, DestroyServer, net, stop
    <3>2. timer' \in BOOLEAN
      BY <2>2 DEF Join, DestroyServer, FlagTypes
    <3>3. main' \in {"join", "delete", "done"}
      BY <2>2 DEF Join, DestroyServer
    <3> QED
      BY <3>1, <3>2, <3>3 DEF FlagTypes
  <2> QED
    BY <1>4, <2>1, <2>2 DEF Main, MainGoesOn
<1>5. CASE UNCHANGED vars
  BY <1>1, <1>5 DEF vars, net, FlagTypes
<1> QED
  BY <1>2, <1>3, <1>4, <1>5 DEF Next, Finished

LEMMA PoolTypesNext == PoolTypes /\ [Next]_vars => PoolTypes'
<1> SUFFICES ASSUME PoolTypes, [Next]_vars PROVE PoolTypes'
  OBVIOUS
<1>1. CASE UNCHANGED pool
  BY <1>1 DEF pool, PoolTypes
<1>2. CASE Kernel
  BY <1>1, <1>2 DEF Kernel, Connect, AcceptDone, AcceptError, ReadDone, WriteDone,
                    TimerExpires, Signal
<1>3. ASSUME NEW w \in Workers, Worker(w) PROVE PoolTypes'
  <2>1. CASE GetBegin(w)
    BY <2>1 DEF GetBegin, Pool!Acquire, PoolTypes
  <2>2. CASE GetEnd(w)
    BY <2>2 DEF GetEnd, Pool!Release, PoolTypes
  <2>3. CASE UNCHANGED pool
    BY <1>1, <2>3
  <2> QED
    BY <1>3, <2>1, <2>2, <2>3
       DEF Worker, Take, Exit, StartConnection, start_accept, handle_read, handle_write,
           handle_timer, Rearm, handle_stop, StopIo
<1>4. CASE CreateHandles
  BY <1>4 DEF CreateHandles, Pool!Create, PoolTypes
<1>5. CASE DeletePool
  BY <1>5 DEF DeletePool, Pool!Free, PoolTypes
<1>6. CASE Join \/ DestroyServer \/ UNCHANGED vars
  BY <1>1, <1>6 DEF Join, DestroyServer, vars
<1> QED
  BY <1>2, <1>3, <1>4, <1>5, <1>6 DEF Next, Main, MainGoesOn, Finished

-----------------------------------------------------------------------------
(* The invariant of the server and what follows from it. *)

ServerInv ==
    /\ NetTypes /\ ConnTypes /\ HandlerTypes /\ FlagTypes /\ PoolTypes
    /\ MainInv /\ Alone /\ Accepting /\ Owned

LEMMA ServerInit == Init => ServerInv
<1> SUFFICES ASSUME Init PROVE ServerInv
  OBVIOUS
<1>1. /\ ops = <<{"accept"}>> /\ Len(ops) = 1 /\ ops[1] = {"accept"}
      /\ peer = <<nobody>> /\ Len(peer) = 1 /\ peer[1] = nobody
      /\ \A c \in 1 .. Len(ops) : c = 1
  BY DEF Init
<1>2. /\ queue = << >> /\ 1 .. Len(queue) = {}
      /\ \A w \in Workers : run[w].h = "idle" /\ run[w].c = 0
      /\ run = [w \in Workers |-> Idle]
  BY DEF Init, Idle, Step
<1>3. NetTypes
  BY MaxErrorsAssumption DEF Init, NetTypes
<1>4. ConnTypes
  <2>1. ops \in Seq(SUBSET OpKinds) /\ peer \in Seq(Clients \cup {nobody})
    BY <1>1 DEF OpKinds
  <2> QED
    BY <1>1, <2>1 DEF Init, ConnTypes
<1>5. HandlerTypes
  <2>1. run \in [Workers -> [h : Labels, c : Nat, ok : BOOLEAN]]
    BY <1>2 DEF Idle, Step, Labels
  <2>2. queue \in Seq(Ready)
    BY <1>2
  <2>3. 0 \in 0 .. Len(ops) /\ "idle" \notin OfConnection
    BY <1>1 DEF OfConnection, Kinds
  <2> QED
    BY <1>2, <2>1, <2>2, <2>3 DEF HandlerTypes
<1>6. FlagTypes /\ PoolTypes
  BY <1>2 DEF Init, FlagTypes, PoolTypes, Pool!Init
<1>7. Alone
  BY <1>1, <1>2
     DEF Alone, OpsAlone, OpsNotReady, OpsNotRun, ReadyOnce, ReadyNotRun, RunOnce, Kinds
<1>8. Accepting
  BY <1>1, <1>2
     DEF Accepting, OpsAccept, ReadyAccept, RunAccept, NoneWhileDue, SomeAccept, Accepts
<1>9. Owned
  BY <1>1, <1>2 DEF Owned, NoPeer, AcceptedHeld
<1> QED
  BY <1>3, <1>4, <1>5, <1>6, <1>7, <1>8, <1>9, MainInvInit DEF ServerInv

LEMMA ServerNext == ServerInv /\ [Next]_vars => ServerInv'
BY NetTypesNext, ConnTypesNext, FlagTypesNext, PoolTypesNext, MainInvNext, AloneNext,
   AcceptingNext, OwnedNext DEF ServerInv

LEMMA ServerInvariant == Spec => []ServerInv
BY ServerInit, ServerNext, PTL DEF Spec

\* Every variable of the server has its type, and the io_service is stopped only
\* when isHandleStop has been set (server.cpp:138-141).
THEOREM ServerTypes == Spec => []TypeOK
<1>1. ServerInv => TypeOK
  <2> SUFFICES ASSUME ServerInv PROVE TypeOK
    OBVIOUS
  <2>1. DOMAIN ops = 1 .. Len(ops) /\ Len(ops) \in Nat /\ DOMAIN queue = 1 .. Len(queue)
    BY LenProperties DEF ServerInv, ConnTypes, HandlerTypes
  <2>2. \A i \in DOMAIN queue :
            queue[i].h \in {"accept", "read", "write", "timer", "stop"}
    BY <2>1, ReadyLabels DEF ServerInv
  <2>3. \A w \in Workers : run[w].c \in DOMAIN ops \cup {0} /\ run[w].h \in Labels
    BY <2>1 DEF ServerInv, HandlerTypes
  <2> QED
    BY <2>1, <2>2, <2>3
       DEF ServerInv, NetTypes, ConnTypes, FlagTypes, PoolTypes, OpKinds, Labels, TypeOK
<1> QED
  BY <1>1, ServerInvariant, PTL

LEMMA AtMostOne ==
    ASSUME NEW S, \A x, y \in S : x = y
    PROVE  Cardinality(S) = IF S = {} THEN 0 ELSE 1
<1>1. CASE S = {}
  BY <1>1, FS_EmptySet
<1>2. CASE S # {}
  <2>1. PICK x : S = {x}
    BY <1>2
  <2> QED
    BY <2>1, FS_Singleton
<1> QED
  BY <1>1, <1>2

\* Three places, of which at most one has something, and that once.
LEMMA OneOfThree ==
    ASSUME NEW A, NEW B, NEW C,
           \A x, y \in A : x = y, \A x, y \in B : x = y, \A x, y \in C : x = y,
           A = {} \/ B = {}, A = {} \/ C = {}, B = {} \/ C = {}
    PROVE  Cardinality(A) + Cardinality(B) + Cardinality(C)
               = IF A = {} /\ B = {} /\ C = {} THEN 0 ELSE 1
BY AtMostOne

\* However many workers there are, no connection object has two handlers or
\* operations at a time, and an accepted one keeps one until it fails or is shut
\* down: the strand has nothing to order, and no shared_ptr is lost early
\* (server.cpp:123-136, connection.cpp:65-75, 95-127).
THEOREM StrandIsIdle == Spec => []OneHandler
<1>1. ServerInv => OneHandler
  <2> SUFFICES ASSUME ServerInv, NEW c \in DOMAIN ops
               PROVE  LET pending == Pending(c, {"accept", "read", "get", "write"})
                      IN  /\ pending <= 1
                          /\ peer[c] # nobody /\ main # "done" =>
                                c \in ended \/ pending = 1
    BY DEF OneHandler
  <2> DEFINE A == ops[c] \cap Kinds
             B == {i \in DOMAIN queue : queue[i].h \in Kinds /\ queue[i].c = c}
             C == {w \in Workers : run[w].h \in Kinds /\ run[w].c = c}
  <2>1. DOMAIN ops = 1 .. Len(ops) /\ DOMAIN queue = 1 .. Len(queue) /\ c \in 1 .. Len(ops)
    BY LenProperties DEF ServerInv, ConnTypes, HandlerTypes
  <2>2. /\ \A x, y \in A : x = y
        /\ \A x, y \in B : x = y
        /\ \A x, y \in C : x = y
    <3>1. c # 0
      BY <2>1 DEF ServerInv, ConnTypes
    <3> QED
      BY <2>1, <3>1 DEF ServerInv, Alone, OpsAlone, ReadyOnce, RunOnce
  <2>3. (A = {} \/ B = {}) /\ (A = {} \/ C = {}) /\ (B = {} \/ C = {})
    BY <2>1 DEF ServerInv, Alone, OpsNotReady, OpsNotRun, ReadyNotRun
  <2>4. Pending(c, Kinds) = Cardinality(A) + Cardinality(B) + Cardinality(C)
    BY DEF Pending
  <2>5. Held(c) => A # {} \/ B # {} \/ C # {}
    <3>1. CASE ops[c] # {}
      <4>1. ops[c] \subseteq Kinds
        BY <2>1, ElementOfSeq DEF ServerInv, ConnTypes, OpKinds, Kinds
      <4> QED
        BY <3>1, <4>1
    <3>2. ASSUME NEW i \in 1 .. Len(queue), queue[i].c = c
          PROVE  B # {}
      <4>1. queue[i].h \in Kinds
        <5>1. c # 0
          BY <2>1 DEF ServerInv, ConnTypes
        <5>2. queue[i].h \in OpKinds
          BY <3>2, <5>1 DEF ServerInv, HandlerTypes
        <5> QED
          BY <5>2 DEF OpKinds, Kinds
      <4> QED
        BY <2>1, <3>2, <4>1
    <3> QED
      BY <3>1, <3>2 DEF Held
  <2>6. peer[c] # nobody /\ main # "done" => c \in ended \/ Held(c)
    BY <2>1 DEF ServerInv, Owned, AcceptedHeld
  <2> HIDE DEF A, B, C
  <2>7. Pending(c, Kinds) = IF A = {} /\ B = {} /\ C = {} THEN 0 ELSE 1
    BY <2>2, <2>3, <2>4, OneOfThree
  <2>8. /\ Pending(c, Kinds) <= 1
        /\ peer[c] # nobody /\ main # "done" => c \in ended \/ Pending(c, Kinds) = 1
    BY <2>5, <2>6, <2>7
  <2> QED
    BY <2>8 DEF Kinds
<1> QED
  BY <1>1, ServerInvariant, PTL

\* The chain of accepts never breaks and never forks, also after errors, until
\* the server is destroyed (server.cpp:96, 125, 134).
THEOREM ChainUnbroken == Spec => []AcceptChain
<1>1. ServerInv => AcceptChain
  <2> SUFFICES ASSUME ServerInv, main # "done"
               PROVE  Cardinality({c \in DOMAIN ops : Pending(c, Accepts) = 1}) = 1
    BY DEF AcceptChain, Accepts
  <2>1. /\ DOMAIN ops = 1 .. Len(ops) /\ DOMAIN queue = 1 .. Len(queue)
        /\ Len(ops) \in 1 .. Len(ops)
    BY LenProperties DEF ServerInv, ConnTypes, HandlerTypes
  <2>2. /\ \A c \in 1 .. Len(ops) : "start_accept" \notin ops[c]
        /\ \A i \in 1 .. Len(queue) : queue[i].h # "start_accept"
    <3>1. \A c \in 1 .. Len(ops) : ops[c] \subseteq OpKinds
      BY ElementOfSeq DEF ServerInv, ConnTypes
    <3>2. \A i \in 1 .. Len(queue) : queue[i].h # "start_accept"
      BY ReadyLabels DEF ServerInv
    <3> QED
      BY <3>1, <3>2 DEF OpKinds
  <2>3. ASSUME NEW c \in 1 .. Len(ops)
        PROVE  Pending(c, Accepts) = IF c = Len(ops) THEN 1 ELSE 0
    <3> DEFINE A == ops[c] \cap Accepts
               B == {i \in DOMAIN queue : queue[i].h \in Accepts /\ queue[i].c = c}
               C == {w \in Workers : run[w].h \in Accepts /\ run[w].c = c}
    <3>1. /\ \A x \in A : x = "accept" /\ "accept" \in ops[c]
          /\ \A i \in B : i \in 1 .. Len(queue) /\ queue[i].h = "accept" /\ queue[i].c = c
      BY <2>1, <2>2 DEF Accepts
    <3>2. CASE c # Len(ops)
      <4>1. A = {} /\ B = {} /\ C = {}
        BY <3>1, <3>2 DEF ServerInv, Accepting, OpsAccept, ReadyAccept, RunAccept
      <4>2. Pending(c, Accepts) = Cardinality(A) + Cardinality(B) + Cardinality(C)
        BY DEF Pending
      <4>3. /\ \A x, y \in A : x = y
            /\ \A x, y \in B : x = y
            /\ \A x, y \in C : x = y
        BY <4>1
      <4> HIDE DEF A, B, C
      <4> QED
        BY <3>2, <4>1, <4>2, <4>3, OneOfThree
    <3>3. CASE c = Len(ops)
      <4>1. /\ \A x, y \in A : x = y
            /\ \A x, y \in B : x = y
            /\ \A x, y \in C : x = y
        BY <3>1, OneAccept DEF ServerInv
      <4>2. (A = {} \/ B = {}) /\ (A = {} \/ C = {}) /\ (B = {} \/ C = {})
        BY <3>1, <3>3, OneAccept DEF ServerInv
      <4>3. A # {} \/ B # {} \/ C # {}
        <5>1. CASE "accept" \in ops[Len(ops)]
          BY <3>3, <5>1 DEF Accepts
        <5>2. ASSUME NEW i \in 1 .. Len(queue), queue[i].h = "accept" PROVE B # {}
          BY <2>1, <3>3, <5>2 DEF ServerInv, Accepting, ReadyAccept, Accepts
        <5>3. ASSUME NEW w \in Workers, run[w].h \in Accepts PROVE C # {}
          BY <3>3, <5>3 DEF ServerInv, Accepting, RunAccept
        <5> QED
          BY <5>1, <5>2, <5>3 DEF ServerInv, Accepting, SomeAccept
      <4>4. Pending(c, Accepts) = Cardinality(A) + Cardinality(B) + Cardinality(C)
        BY DEF Pending
      <4> HIDE DEF A, B, C
      <4> QED
        BY <3>3, <4>1, <4>2, <4>3, <4>4, OneOfThree
    <3> QED
      BY <3>2, <3>3
  <2>4. \A c \in 1 .. Len(ops) : Pending(c, Accepts) = 1 <=> c = Len(ops)
    BY <2>3
  <2>5. {c \in 1 .. Len(ops) : Pending(c, Accepts) = 1} = {Len(ops)}
    BY <2>1, <2>4, Zenon
  <2> QED
    BY <2>1, <2>5, FS_Singleton
<1> QED
  BY <1>1, ServerInvariant, PTL
=============================================================================
