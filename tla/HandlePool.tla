----------------------------- MODULE HandlePool -----------------------------
(***************************************************************************)
(* What the pool of Aerospike handles promises to the requests, without    *)
(* its map, its timer and the inner steps of its threads: a worker         *)
(* acquires a live handle that no other worker is using, and a handle is   *)
(* freed once, when no worker uses any.                                    *)
(***************************************************************************)
EXTENDS Naturals

CONSTANT Workers

VARIABLES
    inUse,  \* the handle each worker is using, 0 for none
    live,   \* the handles that can be used
    freed   \* the handles that were deleted

vars == <<inUse, live, freed>>

Init ==
    /\ inUse = [w \in Workers |-> 0]
    /\ live = {}
    /\ freed = {}

Create ==
    /\ live \subseteq live'
    /\ live' \cap freed = {}
    /\ UNCHANGED <<inUse, freed>>

Acquire(w) ==
    /\ inUse[w] = 0
    /\ \E o \in live :
          /\ \A v \in Workers : inUse[v] # o
          /\ inUse' = [inUse EXCEPT ![w] = o]
    /\ UNCHANGED <<live, freed>>

Release(w) ==
    /\ inUse[w] # 0
    /\ inUse' = [inUse EXCEPT ![w] = 0]
    /\ UNCHANGED <<live, freed>>

Free ==
    /\ \A w \in Workers : inUse[w] = 0
    /\ \E o \in live : live' = live \ {o} /\ freed' = freed \cup {o}
    /\ UNCHANGED inUse

Next == Create \/ Free \/ \E w \in Workers : Acquire(w) \/ Release(w)

Spec == Init /\ [][Next]_vars
=============================================================================
