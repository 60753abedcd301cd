----------------------------- MODULE AsControl -----------------------------
(***************************************************************************)
(* The Aerospike handle pool of as_proxyd and the threads that share it:   *)
(*                                                                         *)
(*   - main: server::run spawns the workers, calls AS_CONTROL::Initialize, *)
(*     joins the workers, and main() then deletes the AS_CONTROL;          *)
(*   - the workers: each runs io_service::run, handles requests that call  *)
(*     AS_CONTROL::GetAsObject, and runs the health timer and the signal   *)
(*     handler when the io_service hands them one.                         *)
(*                                                                         *)
(* rAsList is a boost::unordered_map that no lock protects.  operator[] is *)
(* two steps here, the search for the key and the linking of a new node,   *)
(* so that two threads can be inside it at once.  What such a data race    *)
(* can do is a choice: a search may miss a node, an insertion may drop the *)
(* nodes linked since it began, an iteration may miss nodes.  A race may   *)
(* also crash the process, which the specification allows as it allows     *)
(* every behaviour to stop.                                                *)
(***************************************************************************)
EXTENDS Naturals, Sequences, FiniteSets

CONSTANTS
    Workers,    \* the threads of the pool, which are also the keys of rAsList
    Main,       \* the main thread
    NewFirst,   \* in m[k] = new T, does the compiler evaluate new T first?
    MaxAllocs,  \* bound: races misbehave until so many allocations were made
    MaxFlips    \* bound: how often the cluster goes away or comes back

ASSUME ThreadsAssumption == Main \notin Workers /\ IsFiniteSet(Workers)
ASSUME NewFirstAssumption == NewFirst \in BOOLEAN
ASSUME BoundsAssumption == MaxAllocs \in Nat /\ MaxFlips \in Nat

VARIABLES
    pc,           \* where each thread is
    cur,          \* the key Initialize is at, Main when it is at none
    toInit,       \* the keys of mthreadList that Initialize has yet to visit
    held,         \* the AS_OBJECT each thread works with, 0 for NULL
    slot,         \* the node operator[] returned to each thread, 0 for none
    linking,      \* the threads between the two steps of an insertion
    since,        \* the nodes others linked since a thread's insertion began
    node,         \* every node ever allocated: its key and its AS_OBJECT
    linked,       \* the nodes that can be reached in rAsList
    obj,          \* every AS_OBJECT constructed: isalive_, the key it was
                  \* constructed for, and how often it was deleted
    todo,         \* the nodes a BOOST_FOREACH over rAsList has yet to visit
    timer,        \* the health timer: armed, running, or off
    isHandleStop, \* server::isHandleStop
    ioStopped,    \* io_service_.stop() has been called
    up,           \* the Aerospike cluster can be reached
    flips,        \* how often that has changed
    early         \* history: a request came in before Initialize was over

mapVars   == <<slot, linking, since, node, linked>>
initVars  == <<cur, toInit, early>>
timerVars == <<timer, todo>>
sysVars   == <<isHandleStop, ioStopped, up, flips>>
poolVars   == <<held, obj, mapVars>>
serverVars == <<timerVars, sysVars>>
vars == <<pc, poolVars, initVars, serverVars>>

Threads == Workers \cup {Main}
Nodes   == 1 .. Len(node)
Objects == 1 .. Len(obj)

\* Variant: one entry for the whole process.
ProcessKey(t) == CHOOSE w \in Workers : TRUE
\* The boost::thread::id under which t looks its object up.
Key(t) == IF t = Main THEN cur ELSE t

Init ==
    /\ pc = [t \in Threads |-> IF t = Main THEN "spawn" ELSE "new"]
    /\ cur = Main
    /\ toInit = {}
    /\ held = [t \in Threads |-> 0]
    /\ slot = [t \in Threads |-> 0]
    /\ linking = {}
    /\ since = [t \in Threads |-> {}]
    /\ node = << >>
    /\ linked = {}
    /\ obj = << >>
    /\ todo = {}
    /\ timer = "armed"
    /\ isHandleStop = FALSE
    /\ ioStopped = FALSE
    /\ up = TRUE
    /\ flips = 0
    /\ early = FALSE

Goto(t, label) == pc' = [pc EXCEPT ![t] = label]
At(t, label)   == pc[t] = label

-----------------------------------------------------------------------------
(* Searching rAsList *)

\* A thread is inserting while t looks.
Racing(t) == linking \ {t} # {}

\* The node a search for key k reaches: boost links a new node in front.
Newest(k) ==
    LET ns == {n \in linked : node[n].key = k}
    IN  IF ns = {} THEN 0 ELSE CHOOSE n \in ns : \A m \in ns : m <= n

\* MaxAllocs caps the nodes and objects that races can add.
Misbehaves == Len(node) + Len(obj) < MaxAllocs

\* What a search by t may come back with, 0 for the end iterator.
Finds(t, k) ==
    {Newest(k)} \cup (IF Racing(t) /\ Misbehaves THEN {0} ELSE {})

-----------------------------------------------------------------------------
(* server::run and AS_CONTROL::Initialize, on the main thread *)

Spawn(w) ==
    /\ At(Main, "spawn") /\ pc[w] = "new"
    /\ Goto(w, "run")
    /\ toInit' = toInit \cup {w}
    /\ UNCHANGED <<poolVars, cur, early, serverVars>>

Spawned ==
    /\ At(Main, "spawn") /\ toInit = Workers
    /\ Goto(Main, "init")
    /\ UNCHANGED <<poolVars, initVars, serverVars>>

InitPick ==
    /\ At(Main, "init")
    /\ \E k \in toInit : cur' = k /\ toInit' = toInit \ {k}
    /\ Goto(Main, "count")
    /\ UNCHANGED <<poolVars, early, serverVars>>

\* Variant: the loop leaves out the last thread.
InitDoneEarly ==
    /\ At(Main, "init") /\ Cardinality(toInit) = 1
    /\ Goto(Main, "join")
    /\ cur' = Main
    /\ UNCHANGED <<poolVars, toInit, early, serverVars>>

InitDone ==
    /\ At(Main, "init") /\ toInit = {}
    /\ Goto(Main, "join")
    /\ cur' = Main
    /\ UNCHANGED <<poolVars, toInit, early, serverVars>>

-----------------------------------------------------------------------------
(* AS_CONTROL::GetAsObject on a worker, and the body of Initialize's loop *)

Initialized == pc[Main] \in {"join", "delete", "done"}

StartGet(w) ==
    /\ At(w, "run") /\ ~ioStopped
    /\ Goto(w, "count")
    /\ early' = (early \/ ~Initialized)
    /\ UNCHANGED <<poolVars, cur, toInit, serverVars>>

\* Variant: no test before the assignment.
CountIgnored(n) == TRUE

\* if ( rAsList.count(key) <= 0 )
CountMisses(n) == n = 0

Count(t) ==
    /\ At(t, "count")
    /\ \E n \in Finds(t, Key(t)) :
          Goto(t, IF CountMisses(n) THEN "fill"
                  ELSE IF t = Main THEN "init" ELSE "fetch")
    /\ UNCHANGED <<poolVars, initVars, serverVars>>

\* The AS_OBJECT that new returns.
\* Variant: one that is not constructed yet.
NewObjectUnbuilt == Len(obj) + 2
NewObject == Len(obj) + 1

\* rAsList[key] = new AS_OBJECT(...): the language leaves open which side of
\* the assignment comes first.  The constructor connects to the cluster.
Construct(t) ==
    /\ At(t, "fill") /\ held[t] = 0
    /\ NewFirst \/ slot[t] # 0
    /\ obj' = Append(obj, [owner |-> Key(t), alive |-> up, freed |-> 0])
    /\ held' = [held EXCEPT ![t] = NewObject]
    /\ UNCHANGED <<pc, mapVars, initVars, serverVars>>

\* First half of operator[]: search, and start an insertion on a miss.
Subscript(t) ==
    /\ \/ At(t, "fill") /\ (NewFirst => held[t] # 0)
       \/ At(t, "fetch")
    /\ slot[t] = 0 /\ t \notin linking
    /\ \E n \in Finds(t, Key(t)) :
          /\ slot' = [slot EXCEPT ![t] = n]
          /\ linking' = IF n = 0 THEN linking \cup {t} ELSE linking
    /\ UNCHANGED <<pc, held, obj, since, node, linked, initVars, serverVars>>

\* The nodes an iteration in progress may be left with once n is linked: it
\* passed n's bucket already, it will come to it, or it lost its place.
AfterInsert(n) ==
    IF todo = {} THEN {{}} ELSE {todo, todo \cup {n}, {}}

\* Second half: a node with a value-initialised (NULL) mapped pointer is
\* linked; racing insertions may overwrite the links of each other.
Link(t) ==
    LET n == Len(node) + 1
    IN  /\ t \in linking
        /\ node' = Append(node, [key |-> Key(t), val |-> 0])
        /\ \E lost \in SUBSET since[t] :
              /\ lost = {} \/ Misbehaves
              /\ linked' = (linked \ lost) \cup {n}
        /\ slot' = [slot EXCEPT ![t] = n]
        /\ linking' = linking \ {t}
        /\ since' = [u \in Threads |-> IF u \in linking'
                                       THEN since[u] \cup {n} ELSE {}]
        /\ todo' \in AfterInsert(n)
        /\ UNCHANGED <<pc, held, obj, initVars, timer, sysVars>>

Assign(t) ==
    /\ At(t, "fill") /\ held[t] # 0 /\ slot[t] # 0
    /\ node' = [node EXCEPT ![slot[t]].val = held[t]]
    /\ slot' = [slot EXCEPT ![t] = 0]
    /\ held' = [held EXCEPT ![t] = 0]
    /\ Goto(t, IF t = Main THEN "init" ELSE "fetch")
    /\ UNCHANGED <<obj, linking, since, linked, initVars, serverVars>>

\* return rAsList[nThreadID], and the caller's if (as)
UsableHandle(o) == o # 0

Fetch(w) ==
    /\ At(w, "fetch") /\ slot[w] # 0
    /\ LET o == node[slot[w]].val
       IN  IF UsableHandle(o)
           THEN Goto(w, "get") /\ held' = [held EXCEPT ![w] = o]
           ELSE Goto(w, "run") /\ UNCHANGED held
    /\ slot' = [slot EXCEPT ![w] = 0]
    /\ UNCHANGED <<obj, linking, since, node, linked, initVars, serverVars>>

-----------------------------------------------------------------------------
(* AS_OBJECT::GET: isalive_ is read once, before the network call *)

Release(w) == Goto(w, "run") /\ held' = [held EXCEPT ![w] = 0]

GetBegin(w) ==
    /\ At(w, "get")
    /\ IF obj[held[w]].alive
       THEN Goto(w, "getnet") /\ UNCHANGED held
       ELSE Release(w)
    /\ UNCHANGED <<obj, mapVars, initVars, serverVars>>

\* aerospike_key_get has returned, with a record, an error or a timeout.
GetEnd(w) ==
    /\ At(w, "getnet")
    /\ Release(w)
    /\ UNCHANGED <<obj, mapVars, initVars, serverVars>>

-----------------------------------------------------------------------------
(* server::handle_timer and AS_CONTROL::CheckAsServersStatus *)

TimerFire(w) ==
    /\ At(w, "run") /\ timer = "armed" /\ ~ioStopped
    /\ IF isHandleStop
       THEN timer' = "off" /\ UNCHANGED <<pc, todo>>
       ELSE timer' = "running" /\ Goto(w, "tick") /\ todo' = linked
    /\ UNCHANGED <<poolVars, initVars, sysVars>>

\* if ( value && ... )
Checkable(o) == o # 0

TickVisit(w) ==
    /\ At(w, "tick")
    /\ \E n \in todo :
          /\ todo' = todo \ {n}
          /\ IF Checkable(node[n].val)
             THEN /\ Goto(w, "status")
                  /\ held' = [held EXCEPT ![w] = node[n].val]
             ELSE UNCHANGED <<pc, held>>
    /\ UNCHANGED <<obj, mapVars, initVars, timer, sysVars>>

\* AS_OBJECT_STATUS: a dead handle fails at once; a live one is asked for a
\* record, and while the cluster is down the answer may be any error: only
\* ERR_PARAM, ERR_CLIENT and ERR count as a failure.
StatusMayFail(o) == ~obj[o].alive \/ ~up
StatusMayPass(o) == obj[o].alive

Status(w) ==
    /\ At(w, "status")
    /\ \/ StatusMayFail(held[w]) /\ Goto(w, "reconnect") /\ UNCHANGED held
       \/ /\ StatusMayPass(held[w]) /\ Goto(w, "tick")
          /\ held' = [held EXCEPT ![w] = 0]
    /\ UNCHANGED <<obj, mapVars, initVars, serverVars>>

\* AS_OBJECT_RECONNECT: isalive_ is what aerospike_connect returned; an
\* already connected client may say OK while the cluster is down.
Reconnected == IF up THEN {TRUE} ELSE BOOLEAN

Reconnect(w) ==
    /\ At(w, "reconnect")
    /\ \E ok \in Reconnected : obj' = [obj EXCEPT ![held[w]].alive = ok]
    /\ Goto(w, "tick")
    /\ held' = [held EXCEPT ![w] = 0]
    /\ UNCHANGED <<mapVars, initVars, serverVars>>

\* Variant: no async_wait after the check.
NotRearmed == "off"

\* The loop is over: expires_from_now and async_wait.
Rearmed == "armed"

TickDone(w) ==
    /\ At(w, "tick") /\ todo = {}
    /\ timer' = Rearmed
    /\ Goto(w, "run")
    /\ UNCHANGED <<poolVars, initVars, todo, sysVars>>

-----------------------------------------------------------------------------
(* server::handle_stop, the end of server::run, and ~AS_CONTROL *)

Stop(w) ==
    /\ At(w, "run") /\ ~isHandleStop
    /\ isHandleStop' = TRUE
    /\ Goto(w, "stop")
    /\ UNCHANGED <<poolVars, initVars, timerVars, ioStopped, up, flips>>

StopIo(w) ==
    /\ At(w, "stop")
    /\ ioStopped' = TRUE
    /\ Goto(w, "run")
    /\ UNCHANGED <<poolVars, initVars, timerVars, isHandleStop, up, flips>>

\* io_service::run returns between two handlers once the service is stopped.
Exit(w) ==
    /\ At(w, "run") /\ ioStopped
    /\ Goto(w, "exited")
    /\ UNCHANGED <<poolVars, initVars, serverVars>>

\* Variant: one thread is joined.
OneJoined == \E w \in Workers : pc[w] = "exited"

\* Every join has returned; main() goes on to delete asOP.
AllJoined == \A w \in Workers : pc[w] = "exited"

Join ==
    /\ At(Main, "join") /\ AllJoined
    /\ Goto(Main, "delete")
    /\ todo' = linked
    /\ UNCHANGED <<poolVars, initVars, timer, sysVars>>

\* delete rAsList[key]: the key is searched again.
DeletedAt(n) == node[Newest(node[n].key)].val

DeleteNode ==
    /\ At(Main, "delete")
    /\ \E n \in todo :
          /\ todo' = todo \ {n}
          /\ obj' = IF DeletedAt(n) = 0 THEN obj
                    ELSE [obj EXCEPT ![DeletedAt(n)].freed = @ + 1]
    /\ UNCHANGED <<pc, held, mapVars, initVars, timer, sysVars>>

DeleteDone ==
    /\ At(Main, "delete") /\ todo = {}
    /\ Goto(Main, "done")
    /\ UNCHANGED <<poolVars, initVars, serverVars>>

-----------------------------------------------------------------------------
(* The environment *)

ClusterFlips ==
    /\ flips < MaxFlips
    /\ flips' = flips + 1
    /\ up' = ~up
    /\ UNCHANGED <<pc, poolVars, initVars, timerVars, isHandleStop, ioStopped>>

Terminated ==
    /\ At(Main, "done")
    /\ UNCHANGED vars

-----------------------------------------------------------------------------
MapStep(t) == Count(t) \/ Construct(t) \/ Subscript(t) \/ Link(t) \/ Assign(t)

MainStep ==
    \/ Spawned \/ InitPick \/ InitDone \/ Join \/ DeleteNode \/ DeleteDone
    \/ MapStep(Main)
    \/ \E w \in Workers : Spawn(w)

\* What a worker does once a handler has been given to it.
HandlerStep(w) ==
    \/ MapStep(w) \/ Fetch(w) \/ GetBegin(w) \/ GetEnd(w)
    \/ TickVisit(w) \/ Status(w) \/ Reconnect(w) \/ TickDone(w)
    \/ StopIo(w) \/ Exit(w)

Tick == \E w \in Workers : TimerFire(w)

Next ==
    \/ MainStep
    \/ \E w \in Workers : HandlerStep(w) \/ StartGet(w) \/ Stop(w)
    \/ Tick
    \/ ClusterFlips \/ Terminated

Spec == Init /\ [][Next]_vars

(***************************************************************************)
(* Fairness: the operating system runs every thread that can take a step   *)
(* (weak), and the handler of an expired timer waits in the io_service's   *)
(* FIFO queue, so it cannot be overtaken for ever by other handlers        *)
(* (strong).  No request, signal or cluster change has to happen.          *)
(***************************************************************************)
FairSpec ==
    /\ Spec
    /\ WF_vars(MainStep)
    /\ \A w \in Workers : WF_vars(HandlerStep(w))
    /\ SF_vars(Tick)

-----------------------------------------------------------------------------
(* Properties *)

Labels == {"new", "spawn", "run", "init", "count", "fill", "fetch", "get",
           "getnet", "tick", "status", "reconnect", "stop", "exited", "join",
           "delete", "done"}

\* Every variable has its type: handles are 0 or constructed objects, and
\* nodes are 0 or allocated (as_control.hpp:60-71).
TypeOK ==
    /\ pc \in [Threads -> Labels]
    /\ cur \in Threads
    /\ toInit \subseteq Workers
    /\ obj \in Seq([owner : Threads, alive : BOOLEAN, freed : Nat])
    /\ node \in Seq([key : Threads, val : {0} \cup Objects])
    /\ held \in [Threads -> {0} \cup Objects]
    /\ slot \in [Threads -> {0} \cup Nodes]
    /\ linking \subseteq Threads
    /\ since \in [Threads -> SUBSET Nodes]
    /\ linked \subseteq Nodes
    /\ todo \subseteq Nodes
    /\ timer \in {"armed", "running", "off"}
    /\ isHandleStop \in BOOLEAN /\ ioStopped \in BOOLEAN /\ up \in BOOLEAN
    /\ flips \in 0 .. MaxFlips /\ early \in BOOLEAN

InUse(w) == pc[w] \in {"get", "getnet"}

\* No two workers are inside AS_OBJECT::GET on one object at once: the pool
\* gives every thread an AS_OBJECT of its own, which is all that protects the
\* unlocked as_err_ and isalive_ of the object from a second request
\* (as_control.hpp:93-102, request_handler.cpp:166-168).
ExclusiveHandle ==
    \A v, w \in Workers :
        v # w /\ InUse(v) /\ InUse(w) => held[v] # held[w]

\* A request or a health check never works on an AS_OBJECT that ~AS_CONTROL
\* has deleted, or on the NULL that operator[] inserts before the constructor
\* has returned (as_control.hpp:84-91, 97, 146; request_handler.cpp:167).
NoUseAfterFree ==
    \A w \in Workers :
        InUse(w) \/ pc[w] \in {"status", "reconnect"}
            => held[w] # 0 /\ obj[held[w]].freed = 0

\* A handle is reached only through its owner's key: the object of a node was
\* constructed for the node's key, and what a thread constructs, what it is
\* about to assign to and what it passes to GET belong to the thread it acts
\* for (as_control.hpp:96-100, 107-109).
OwnersMatch ==
    /\ \A n \in Nodes :
          node[n].val # 0 => obj[node[n].val].owner = node[n].key
    /\ \A t \in Threads :
          /\ slot[t] # 0 => node[slot[t]].key = Key(t)
          /\ pc[t] = "fill" /\ held[t] # 0 => obj[held[t]].owner = Key(t)
    /\ \A w \in Workers :
          InUse(w) => held[w] # 0 /\ obj[held[w]].owner = w

\* A thread holds a handle, a node or a half-made insertion only where its
\* code is working with one.
HoldsInPlace ==
    /\ pc[Main] \in {"spawn", "init", "count", "fill", "join", "delete",
                     "done"}
    /\ \A t \in Threads :
          /\ slot[t] # 0 \/ t \in linking => pc[t] \in {"fill", "fetch"}
          /\ t \in linking => slot[t] = 0
          /\ held[t] # 0 => pc[t] \in {"fill", "get", "getnet", "status",
                                      "reconnect"}
          /\ pc[t] \in {"get", "getnet", "status", "reconnect"} => held[t] # 0

\* Objects are deleted only after the last worker has left the io_service
\* (server.cpp:117-119, main.cpp:99-101).
DeletedLast ==
    /\ pc[Main] \in {"delete", "done"} =>
          \A w \in Workers : pc[w] = "exited"
    /\ \A o \in Objects :
          obj[o].freed # 0 => pc[Main] \in {"delete", "done"}

\* Together they are inductive, and imply the safety properties above.
PoolInv == TypeOK /\ HoldsInPlace /\ OwnersMatch /\ DeletedLast

\* Initialize is over, every worker can reach an entry, and no thread is in
\* the middle of creating one.
Settled ==
    /\ Initialized
    /\ linking = {}
    /\ \A w \in Workers : pc[w] # "fill" /\ Newest(w) # 0

\* Once it is settled the pool stays settled and is never changed again, so
\* that from then on the unlocked readers of rAsList race with no writer
\* (as_control.hpp:96-100, 145).
SettledStays == Settled => Settled' /\ UNCHANGED <<linked, node>>
PoolSettles == [][SettledStays]_vars

\* If no request came in before Initialize was over, the finished pool holds
\* exactly the objects constructed, one per worker, and a clean shutdown
\* deletes each of them exactly once
\* (as_control.hpp:84-91, 104-113).
Deleted(o) == obj[o].freed = 1
OneObjectEach ==
    /\ Len(obj) = Cardinality(Workers)
    /\ \A w \in Workers : \E n \in linked :
          node[n].key = w /\ node[n].val # 0 /\ obj[node[n].val].owner = w
PoolComplete ==
    ~early => /\ Initialized => OneObjectEach
              /\ pc[Main] = "done" => \A o \in Objects : Deleted(o)

Dead(o) ==
    /\ o \in Objects /\ ~obj[o].alive
    /\ \E n \in linked : node[n].val = o

\* If the cluster comes back and stays up, the health timer brings every dead
\* handle of the pool back to life, unless the server is stopped
\* (server.cpp:36-46, as_control.hpp:141-151).
DeadHandlesRecover ==
    <>[]up => \A o \in 1 .. 2 * Cardinality(Workers) + MaxAllocs :
                 Dead(o) ~> (~Dead(o) \/ isHandleStop)

-----------------------------------------------------------------------------
(* What the pool promises to the requests *)

Handles == INSTANCE HandlePool WITH
    inUse <- [w \in Workers |-> IF InUse(w) THEN held[w] ELSE 0],
    live  <- {o \in Objects : obj[o].freed = 0},
    freed <- {o \in Objects : obj[o].freed > 0}

\* The pool implements HandlePool (as_control.hpp:84-113): the handle of a
\* request is a live one that no other request has, and the deletions wait
\* until no request is left.
ImplementsHandlePool == Handles!Spec
=============================================================================
