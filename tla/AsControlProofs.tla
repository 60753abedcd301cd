-------------------------- MODULE AsControlProofs --------------------------
(***************************************************************************)
(* Theorems about the handle pool, for every set of workers and every      *)
(* bound: types, the owners of handles, their deletion, and that the     *)
(* finished pool is complete.                                            *)
(***************************************************************************)
EXTENDS AsControl, TLAPS, SequenceTheorems, FiniteSetTheorems,
        WellFoundedInduction

ObjRec  == [owner : Threads, alive : BOOLEAN, freed : Nat]
NodeRec == [key : Threads, val : {0} \cup Objects]

-----------------------------------------------------------------------------
(* Sequences *)

LEMMA AppendFacts ==
    ASSUME NEW R, NEW s \in Seq(R), NEW e \in R
    PROVE  /\ Append(s, e) \in Seq(R)
           /\ Len(Append(s, e)) = Len(s) + 1
           /\ \A i \in 1 .. Len(s) : Append(s, e)[i] = s[i]
           /\ Append(s, e)[Len(s) + 1] = e
OBVIOUS

LEMMA ExceptFacts ==
    ASSUME NEW R, NEW s \in Seq(R), NEW i, NEW e,
           i \in 1 .. Len(s) => e \in R
    PROVE  /\ [s EXCEPT ![i] = e] \in Seq(R)
           /\ Len([s EXCEPT ![i] = e]) = Len(s)
           /\ \A j \in 1 .. Len(s) :
                 [s EXCEPT ![i] = e][j] = IF j = i THEN e ELSE s[j]
<1>1. CASE i \in 1 .. Len(s)
  BY <1>1, ExceptSeq
<1>2. CASE i \notin 1 .. Len(s)
  <2>1. s \in [1 .. Len(s) -> R]
    BY LenProperties
  <2>2. [s EXCEPT ![i] = e] = s
    BY <1>2, <2>1
  <2> QED
    BY <1>2, <2>2
<1> QED
  BY <1>1, <1>2

LEMMA Growing ==
    ASSUME NEW R, NEW T, R \subseteq T, NEW s \in Seq(R)
    PROVE  s \in Seq(T)
BY SeqMonotonic

-----------------------------------------------------------------------------
(* Records: what an assignment to one field keeps *)

LEMMA SetAlive ==
    ASSUME NEW r \in ObjRec, NEW b \in BOOLEAN
    PROVE  /\ [r EXCEPT !.alive = b] \in ObjRec
           /\ [r EXCEPT !.alive = b].owner = r.owner
           /\ [r EXCEPT !.alive = b].freed = r.freed
BY DEF ObjRec

LEMMA SetFreed ==
    ASSUME NEW r \in ObjRec
    PROVE  /\ [r EXCEPT !.freed = @ + 1] \in ObjRec
           /\ [r EXCEPT !.freed = @ + 1].owner = r.owner
           /\ [r EXCEPT !.freed = @ + 1].freed = r.freed + 1
BY DEF ObjRec

LEMMA SetVal ==
    ASSUME NEW r \in NodeRec, NEW v \in {0} \cup Objects
    PROVE  /\ [r EXCEPT !.val = v] \in NodeRec
           /\ [r EXCEPT !.val = v].key = r.key
           /\ [r EXCEPT !.val = v].val = v
BY DEF NodeRec

-----------------------------------------------------------------------------
(* Next as one disjunction over single threads *)

LEMMA NextCases ==
    ASSUME Next
    PROVE  \/ \E t \in Threads : MapStep(t)
           \/ \E w \in Workers : Spawn(w) \/ StartGet(w) \/ Fetch(w)
           \/ \E w \in Workers : GetBegin(w) \/ GetEnd(w) \/ Exit(w)
           \/ \E w \in Workers : TimerFire(w) \/ TickVisit(w) \/ TickDone(w)
           \/ \E w \in Workers : Status(w) \/ Reconnect(w)
           \/ \E w \in Workers : Stop(w) \/ StopIo(w)
           \/ Spawned \/ InitPick \/ InitDone \/ Join \/ DeleteNode
           \/ DeleteDone \/ ClusterFlips \/ Terminated
<1>1. CASE MainStep
  BY <1>1 DEF MainStep, Threads
<1>2. CASE \E w \in Workers : HandlerStep(w) \/ StartGet(w) \/ Stop(w)
  BY <1>2 DEF HandlerStep, Threads
<1> QED
  BY <1>1, <1>2 DEF Next, Tick

-----------------------------------------------------------------------------
(* Type correctness *)

LEMMA InitType == Init => TypeOK
<1> SUFFICES ASSUME Init PROVE TypeOK
    OBVIOUS
<1>1. obj \in Seq([owner : Threads, alive : BOOLEAN, freed : Nat])
  BY EmptySeq DEF Init
<1>2. node \in Seq([key : Threads, val : {0} \cup Objects])
  BY EmptySeq DEF Init
<1>3. pc \in [Threads -> Labels]
  BY DEF Init, Labels
<1>4. /\ held \in [Threads -> {0} \cup Objects]
      /\ slot \in [Threads -> {0} \cup Nodes]
      /\ since \in [Threads -> SUBSET Nodes]
  BY DEF Init
<1>5. flips \in 0 .. MaxFlips
  BY BoundsAssumption DEF Init
<1> QED
  BY <1>1, <1>2, <1>3, <1>4, <1>5 DEF Init, TypeOK, Threads

LEMMA NodeTypes ==
    ASSUME TypeOK, NEW n \in Nodes
    PROVE  node[n].key \in Threads /\ node[n].val \in {0} \cup Objects
<1>1. node \in Seq(NodeRec)
  BY DEF TypeOK, NodeRec
<1>2. node[n] \in NodeRec
  BY <1>1, ElementOfSeq DEF Nodes
<1> QED
  BY <1>2 DEF NodeRec

LEMMA ConstructType ==
    ASSUME TypeOK, NEW t \in Threads, Construct(t)
    PROVE  /\ TypeOK'
           /\ Objects' = Objects \cup {NewObject}
           /\ \A o \in Objects : obj'[o] = obj[o]
           /\ obj'[NewObject].owner = Key(t)
           /\ obj'[NewObject].freed = 0
<1> DEFINE r == [owner |-> Key(t), alive |-> up, freed |-> 0]
<1>1. obj \in Seq(ObjRec) /\ r \in ObjRec /\ node \in Seq(NodeRec)
  BY DEF TypeOK, ObjRec, NodeRec, Key
<1>2. obj' = Append(obj, r)
  BY DEF Construct
<1>r. r.owner = Key(t) /\ r.freed = 0
  OBVIOUS
<1> HIDE DEF r
<1>3. obj' \in Seq(ObjRec) /\ Len(obj') = Len(obj) + 1 /\ Len(obj) \in Nat
  BY <1>1, <1>2, AppendFacts, LenProperties
<1>a. /\ \A o \in Objects : obj'[o] = obj[o]
      /\ obj'[NewObject] = r
  BY <1>1, <1>2, AppendFacts DEF Objects, NewObject
<1>b. Objects' = Objects \cup {NewObject}
  BY <1>3 DEF Objects, NewObject
<1>4. Objects \subseteq Objects' /\ Len(obj) + 1 \in Objects'
  BY <1>3 DEF Objects
<1>5. NodeRec \subseteq NodeRec'
  BY <1>4 DEF NodeRec
<1>6. node' \in Seq(NodeRec') /\ Nodes' = Nodes
  BY <1>1, <1>5, Growing DEF Construct, mapVars, Nodes
<1>7. held' \in [Threads -> {0} \cup Objects']
  BY <1>4 DEF TypeOK, Construct, NewObject
<1> QED
  BY <1>r, <1>a, <1>b, <1>3, <1>6, <1>7
     DEF TypeOK, ObjRec, NodeRec, Construct, mapVars, initVars, serverVars,
         timerVars, sysVars

LEMMA LinkType ==
    ASSUME TypeOK, NEW t \in Threads, Link(t)
    PROVE  /\ TypeOK'
           /\ Len(node) + 1 \notin Nodes
           /\ Nodes' = Nodes \cup {Len(node) + 1}
           /\ \A n \in Nodes : node'[n] = node[n]
           /\ node'[Len(node) + 1].key = Key(t)
           /\ node'[Len(node) + 1].val = 0
<1> DEFINE r == [key |-> Key(t), val |-> 0]
<1>1. node \in Seq(NodeRec) /\ r \in NodeRec
  BY DEF TypeOK, NodeRec, Key
<1>2. node' = Append(node, r)
  BY DEF Link
<1>r. r.key = Key(t) /\ r.val = 0
  OBVIOUS
<1> HIDE DEF r
<1>3. /\ node' \in Seq(NodeRec)
      /\ Len(node') = Len(node) + 1 /\ Len(node) \in Nat
  BY <1>1, <1>2, AppendFacts, LenProperties
<1>a. /\ \A n \in Nodes : node'[n] = node[n]
      /\ node'[Len(node) + 1] = r
  BY <1>1, <1>2, AppendFacts DEF Nodes
<1>b. Nodes' = Nodes \cup {Len(node) + 1} /\ Len(node) + 1 \notin Nodes
  BY <1>3 DEF Nodes
<1>4. Nodes \subseteq Nodes' /\ Len(node) + 1 \in Nodes'
  BY <1>3 DEF Nodes
<1>5. node' \in Seq(NodeRec') /\ Objects' = Objects
  BY <1>3 DEF Link, NodeRec, Objects
<1>6. linked' \subseteq Nodes' /\ todo' \subseteq Nodes'
  BY <1>4 DEF TypeOK, Link, AfterInsert
<1>7. /\ since' \in [Threads -> SUBSET Nodes']
      /\ slot' \in [Threads -> {0} \cup Nodes']
  BY <1>4 DEF TypeOK, Link
<1> QED
  BY <1>r, <1>a, <1>b, <1>3, <1>5, <1>6, <1>7
     DEF TypeOK, ObjRec, NodeRec, Link, initVars, sysVars

LEMMA AssignType ==
    ASSUME TypeOK, NEW t \in Threads, Assign(t)
    PROVE  /\ TypeOK'
           /\ Nodes' = Nodes
           /\ \A n \in Nodes : node'[n].key = node[n].key
           /\ \A n \in Nodes \ {slot[t]} : node'[n] = node[n]
           /\ slot[t] \in Nodes /\ node'[slot[t]].val = held[t]
<1> DEFINE r == [node[slot[t]] EXCEPT !.val = held[t]]
<1>1. node \in Seq(NodeRec) /\ slot[t] \in Nodes /\ held[t] \in {0} \cup Objects
  BY DEF TypeOK, NodeRec, Assign
<1>2. r \in NodeRec /\ r.key = node[slot[t]].key /\ r.val = held[t]
  BY <1>1, ElementOfSeq, SetVal DEF Nodes
<1>3. node' = [node EXCEPT ![slot[t]] = r]
  BY DEF Assign
<1> HIDE DEF r
<1>4. node' \in Seq(NodeRec) /\ Len(node') = Len(node)
  BY <1>1, <1>2, <1>3, ExceptFacts
<1>a. \A n \in Nodes : node'[n] = IF n = slot[t] THEN r ELSE node[n]
  BY <1>1, <1>2, <1>3, ExceptFacts DEF Nodes
<1>b. \A n \in Nodes : node'[n].key = node[n].key
  BY <1>2, <1>a
<1>c. /\ \A n \in Nodes \ {slot[t]} : node'[n] = node[n]
      /\ node'[slot[t]].val = held[t]
  BY <1>1, <1>2, <1>a
<1>5. node' \in Seq(NodeRec') /\ Objects' = Objects /\ Nodes' = Nodes
  BY <1>4 DEF Assign, NodeRec, Objects, Nodes
<1> QED
  BY <1>1, <1>b, <1>c, <1>5 DEF TypeOK, NodeRec, Assign, Goto, Labels, initVars, serverVars,
              timerVars, sysVars

LEMMA ReconnectType ==
    ASSUME TypeOK, NEW w \in Workers, Reconnect(w)
    PROVE  /\ TypeOK' /\ Objects' = Objects
           /\ \A o \in Objects : /\ obj'[o].owner = obj[o].owner
                                 /\ obj'[o].freed = obj[o].freed
<1>1. PICK ok \in Reconnected : obj' = [obj EXCEPT ![held[w]].alive = ok]
  BY DEF Reconnect
<1> DEFINE r == [obj[held[w]] EXCEPT !.alive = ok]
<1>2. obj \in Seq(ObjRec)
  BY DEF TypeOK, ObjRec
<1>3. held[w] \in 1 .. Len(obj) => /\ r \in ObjRec
                                   /\ r.owner = obj[held[w]].owner
                                   /\ r.freed = obj[held[w]].freed
  BY <1>2, ElementOfSeq, SetAlive DEF Reconnected
<1>4. obj' = [obj EXCEPT ![held[w]] = r]
  BY <1>1
<1> HIDE DEF r
<1>5. obj' \in Seq(ObjRec) /\ Len(obj') = Len(obj)
  BY <1>2, <1>3, <1>4, ExceptFacts
<1>6. Objects' = Objects /\ Nodes' = Nodes
  BY <1>5 DEF Reconnect, mapVars, Objects, Nodes
<1>a. \A o \in Objects : obj'[o] = IF o = held[w] THEN r ELSE obj[o]
  BY <1>2, <1>3, <1>4, ExceptFacts DEF Objects
<1>b. \A o \in Objects : /\ obj'[o].owner = obj[o].owner
                         /\ obj'[o].freed = obj[o].freed
  BY <1>3, <1>a DEF Objects
<1> QED
  BY <1>b, <1>5, <1>6 DEF TypeOK, ObjRec, Reconnect, Goto, Labels, Threads, mapVars,
                    initVars, serverVars, timerVars, sysVars

LEMMA DeleteNodeType ==
    ASSUME TypeOK, DeleteNode
    PROVE  /\ TypeOK' /\ Objects' = Objects
           /\ \A o \in Objects : obj'[o].owner = obj[o].owner
<1>1. PICK n \in todo :
          /\ todo' = todo \ {n}
          /\ obj' = IF DeletedAt(n) = 0 THEN obj
                    ELSE [obj EXCEPT ![DeletedAt(n)].freed = @ + 1]
  BY DEF DeleteNode
<1> DEFINE d == DeletedAt(n)
           r == [obj[d] EXCEPT !.freed = @ + 1]
<1>2. obj \in Seq(ObjRec)
  BY DEF TypeOK, ObjRec
<1>3. d \in 1 .. Len(obj) => r \in ObjRec /\ r.owner = obj[d].owner
  BY <1>2, ElementOfSeq, SetFreed
<1>4. obj' = obj \/ obj' = [obj EXCEPT ![d] = r]
  BY <1>1
<1> HIDE DEF d, r
<1>5. obj' \in Seq(ObjRec) /\ Len(obj') = Len(obj)
  BY <1>2, <1>3, <1>4, ExceptFacts
<1>6. Objects' = Objects /\ Nodes' = Nodes
  BY <1>5 DEF DeleteNode, mapVars, Objects, Nodes
<1>a. \/ obj' = obj
      \/ \A o \in Objects : obj'[o] = IF o = d THEN r ELSE obj[o]
  BY <1>2, <1>3, <1>4, ExceptFacts DEF Objects
<1>b. \A o \in Objects : obj'[o].owner = obj[o].owner
  BY <1>3, <1>a DEF Objects
<1> QED
  BY <1>b, <1>1, <1>5, <1>6 DEF TypeOK, ObjRec, DeleteNode, mapVars, initVars, sysVars

\* A nonempty bounded set of numbers has a greatest member.
LEMMA GreatestExists ==
    ASSUME NEW N \in Nat, NEW ns, ns \subseteq 1 .. N, ns # {}
    PROVE  \E n \in ns : \A m \in ns : m <= n
<1> DEFINE R == OpToRel(<, Nat)
           T == {N - n : n \in ns}
<1>2. IsWellFoundedOn(R, Nat)
  BY NatLessThanWellFounded
<1>3. \A x, y \in Nat : <<y, x>> \in R <=> y < x
  BY DEF OpToRel
<1> HIDE DEF R
<1>1. T \subseteq Nat /\ T # {}
  <2>1. \A n \in ns : N - n \in Nat
    OBVIOUS
  <2>2. PICK n \in ns : TRUE
    OBVIOUS
  <2>3. N - n \in T
    BY <2>2
  <2> QED
    BY <2>1, <2>3
<1>4. PICK x \in T : \A y \in T : ~ (<<y, x>> \in R)
  BY <1>1, <1>2, WFMin
<1>5. PICK n \in ns : x = N - n
  BY <1>4
<1>6. ASSUME NEW m \in ns PROVE m <= n
  <2>1. N - m \in T /\ N - m \in Nat /\ x \in Nat
    BY <1>1
  <2>2. ~ (N - m < x)
    BY <2>1, <1>3, <1>4
  <2> QED
    BY <2>1, <2>2, <1>5
<1> QED
  BY <1>6

\* A search ends at a reachable node with the key, or at none.
LEMMA NewestFacts ==
    ASSUME TypeOK, NEW k, Newest(k) # 0
    PROVE  Newest(k) \in linked /\ node[Newest(k)].key = k
<1> DEFINE ns == {n \in linked : node[n].key = k}
           P(n) == \A m \in ns : m <= n
<1>1. ns # {}
  BY DEF Newest
<1>2. Len(node) \in Nat /\ ns \subseteq 1 .. Len(node)
  BY LenProperties DEF TypeOK, Nodes
<1>3. \E n \in ns : P(n)
  BY <1>1, <1>2, GreatestExists
<1>4. Newest(k) = CHOOSE n \in ns : P(n)
  BY <1>1 DEF Newest
<1>5. Newest(k) \in ns
  BY <1>3, <1>4
<1> QED
  BY <1>5

LEMMA SubscriptType ==
    ASSUME TypeOK, NEW t \in Threads, Subscript(t)
    PROVE  TypeOK'
<1>1. Newest(Key(t)) \in {0} \cup Nodes
  BY NewestFacts DEF TypeOK
<1>2. slot' \in [Threads -> {0} \cup Nodes] /\ linking' \subseteq Threads
  BY <1>1 DEF Subscript, Finds, TypeOK
<1>3. Objects' = Objects /\ Nodes' = Nodes
  BY DEF Subscript, Objects, Nodes
<1> QED
  BY <1>2, <1>3 DEF TypeOK, Subscript, initVars, serverVars, timerVars, sysVars

LEMMA OtherType ==
    ASSUME TypeOK,
           \/ \E t \in Threads : Count(t)
           \/ \E w \in Workers : Spawn(w) \/ StartGet(w) \/ Fetch(w)
           \/ \E w \in Workers : GetBegin(w) \/ GetEnd(w) \/ Exit(w)
           \/ \E w \in Workers : TimerFire(w) \/ TickVisit(w) \/ TickDone(w)
           \/ \E w \in Workers : Status(w) \/ Stop(w) \/ StopIo(w)
           \/ Spawned \/ InitPick \/ InitDone \/ Join \/ DeleteDone
           \/ ClusterFlips \/ UNCHANGED vars
    PROVE  TypeOK'
<1> USE DEF TypeOK, At, Goto, Labels, Threads, Objects, Nodes, poolVars,
            mapVars, initVars, serverVars, timerVars, sysVars
<1>0. ASSUME NEW w \in Workers, NEW label \in Labels, Goto(w, label),
             held' = [held EXCEPT ![w] = 0],
             UNCHANGED <<obj, mapVars, initVars, serverVars>>
      PROVE  TypeOK'
  <2>1. held' \in [Threads -> {0} \cup Objects]
    BY <1>0
  <2>2. pc' \in [Threads -> Labels]
    BY <1>0
  <2> QED
    BY <1>0, <2>1, <2>2
<1>1. CASE \E t \in Threads : Count(t)
  BY <1>1 DEF Count
<1>2. CASE \E w \in Workers : Spawn(w) \/ StartGet(w)
  <2>1. CASE \E w \in Workers : Spawn(w)
    BY <2>1 DEF Spawn
  <2>2. CASE \E w \in Workers : StartGet(w)
    BY <2>2 DEF StartGet
  <2> QED
    BY <1>2, <2>1, <2>2
<1>3. CASE \E w \in Workers : Fetch(w)
  <2>1. PICK w \in Workers : Fetch(w)
    BY <1>3
  <2>2. slot[w] \in 1 .. Len(node)
    BY <2>1 DEF Fetch
  <2>3. node[slot[w]].val \in {0} \cup Objects
    BY <2>2, NodeTypes
  <2> QED
    BY <2>1, <2>3 DEF Fetch
<1>4. CASE \E w \in Workers : GetBegin(w) \/ GetEnd(w) \/ Exit(w)
  <2>1. CASE \E w \in Workers : GetBegin(w)
    <3>1. PICK w \in Workers : GetBegin(w)
      BY <2>1
    <3>2. CASE Release(w)
      BY <1>0, <3>1, <3>2 DEF GetBegin, Release
    <3>3. CASE Goto(w, "getnet") /\ UNCHANGED held
      BY <3>1, <3>3 DEF GetBegin
    <3> QED
      BY <3>1, <3>2, <3>3 DEF GetBegin
  <2>2. CASE \E w \in Workers : GetEnd(w)
    BY <1>0, <2>2 DEF GetEnd, Release
  <2>3. CASE \E w \in Workers : Exit(w)
    BY <2>3 DEF Exit
  <2> QED
    BY <1>4, <2>1, <2>2, <2>3
<1>5. CASE \E w \in Workers : TimerFire(w) \/ TickDone(w)
  BY <1>5 DEF TimerFire, TickDone, Rearmed
<1>6. CASE \E w \in Workers : TickVisit(w)
  <2>1. PICK w \in Workers : TickVisit(w)
    BY <1>6
  <2>2. \A n \in todo : node[n].val \in {0} \cup Objects
    BY NodeTypes
  <2> QED
    BY <2>1, <2>2 DEF TickVisit
<1>7. CASE \E w \in Workers : Status(w) \/ Stop(w) \/ StopIo(w)
  <2>1. CASE \E w \in Workers : Status(w)
    <3>1. PICK w \in Workers : Status(w)
      BY <2>1
    <3>2. CASE Goto(w, "reconnect") /\ UNCHANGED held
      BY <3>1, <3>2 DEF Status
    <3>3. CASE Goto(w, "tick") /\ held' = [held EXCEPT ![w] = 0]
      BY <1>0, <3>1, <3>3 DEF Status
    <3> QED
      BY <3>1, <3>2, <3>3 DEF Status
  <2>2. CASE \E w \in Workers : Stop(w)
    BY <2>2 DEF Stop
  <2>3. CASE \E w \in Workers : StopIo(w)
    BY <2>3 DEF StopIo
  <2> QED
    BY <1>7, <2>1, <2>2, <2>3
<1>8. CASE Spawned \/ InitPick \/ InitDone \/ Join \/ DeleteDone
  <2>1. CASE Spawned
    BY <2>1 DEF Spawned
  <2>2. CASE InitPick
    BY <2>2 DEF InitPick
  <2>3. CASE InitDone
    BY <2>3 DEF InitDone
  <2>4. CASE Join
    BY <2>4 DEF Join
  <2>5. CASE DeleteDone
    BY <2>5 DEF DeleteDone
  <2> QED
    BY <1>8, <2>1, <2>2, <2>3, <2>4, <2>5
<1>9. CASE ClusterFlips
  BY <1>9, BoundsAssumption DEF ClusterFlips
<1>10. CASE UNCHANGED vars
  BY <1>10 DEF vars
<1> QED
  BY <1>1, <1>2, <1>3, <1>4, <1>5, <1>6, <1>7, <1>8, <1>9, <1>10

LEMMA TypeStep == TypeOK /\ [Next]_vars => TypeOK'
<1> SUFFICES ASSUME TypeOK, [Next]_vars PROVE TypeOK'
  OBVIOUS
<1>1. CASE \E t \in Threads : MapStep(t)
  BY <1>1, ConstructType, SubscriptType, LinkType, AssignType, OtherType
     DEF MapStep
<1>2. CASE DeleteNode \/ \E w \in Workers : Reconnect(w)
  BY <1>2, DeleteNodeType, ReconnectType
<1> QED
  BY <1>1, <1>2, NextCases, OtherType DEF Terminated

\* Handles, nodes and every other variable keep their types, whatever the
\* number of workers and however the threads race (as_control.hpp:60-71).
THEOREM TypeCorrect == Spec => []TypeOK
  BY InitType, TypeStep, PTL DEF Spec

-----------------------------------------------------------------------------
(* The inductive invariant *)

LEMMA InitInv == Init => PoolInv
<1> SUFFICES ASSUME Init PROVE PoolInv
  OBVIOUS
<1>1. TypeOK
  BY InitType
<1>2. Nodes = {} /\ Objects = {}
  BY EmptySeq DEF Init, Nodes, Objects
<1>3. \A t \in Threads : pc[t] \in {"spawn", "new"}
  BY DEF Init
<1>4. HoldsInPlace
  BY <1>3 DEF Init, HoldsInPlace, Threads
<1>5. OwnersMatch
  BY <1>2, <1>3 DEF Init, OwnersMatch, InUse, Threads
<1>6. DeletedLast
  BY <1>2, <1>3 DEF Init, DeletedLast, Threads
<1> QED
  BY <1>1, <1>4, <1>5, <1>6 DEF PoolInv

LEMMA HoldsStep == TypeOK /\ HoldsInPlace /\ [Next]_vars => HoldsInPlace'
<1> SUFFICES ASSUME TypeOK, HoldsInPlace, [Next]_vars PROVE HoldsInPlace'
  OBVIOUS
<1> USE ThreadsAssumption DEF TypeOK, HoldsInPlace, At, Goto, Threads, poolVars,
        mapVars, initVars, serverVars, timerVars, sysVars
<1>1. ASSUME NEW t \in Threads, Count(t) PROVE HoldsInPlace'
  BY <1>1 DEF Count
<1>2. ASSUME NEW t \in Threads, Construct(t) PROVE HoldsInPlace'
  BY <1>2 DEF Construct
<1>3. ASSUME NEW t \in Threads, Subscript(t) PROVE HoldsInPlace'
  <2>1. pc[t] \in {"fill", "fetch"} /\ pc' = pc /\ held' = held
    BY <1>3 DEF Subscript
  <2>2. /\ \A u \in Threads \ {t} : slot'[u] = slot[u]
        /\ linking' \subseteq linking \cup {t}
        /\ t \in linking' => slot'[t] = 0
    BY <1>3 DEF Subscript
  <2> QED
    BY <2>1, <2>2
<1>4. ASSUME NEW t \in Threads, Link(t) PROVE HoldsInPlace'
  <2>1. pc[t] \in {"fill", "fetch"} /\ pc' = pc /\ held' = held
    BY <1>4 DEF Link
  <2>2. /\ \A u \in Threads \ {t} : slot'[u] = slot[u]
        /\ linking' = linking \ {t}
    BY <1>4 DEF Link
  <2> QED
    BY <2>1, <2>2
<1>5. ASSUME NEW t \in Threads, Assign(t) PROVE HoldsInPlace'
  BY <1>5 DEF Assign
<1>6. CASE \E w \in Workers : Spawn(w) \/ StartGet(w) \/ Fetch(w)
  BY <1>6 DEF Spawn, StartGet, Fetch, UsableHandle
<1>7. CASE \E w \in Workers : GetBegin(w) \/ GetEnd(w) \/ Exit(w)
  <2>1. CASE \E w \in Workers : GetBegin(w)
    BY <2>1 DEF GetBegin, Release
  <2>2. CASE \E w \in Workers : GetEnd(w)
    BY <2>2 DEF GetEnd, Release
  <2>3. CASE \E w \in Workers : Exit(w)
    BY <2>3 DEF Exit
  <2> QED
    BY <1>7, <2>1, <2>2, <2>3
<1>8. CASE \E w \in Workers : TimerFire(w) \/ TickVisit(w) \/ TickDone(w)
  <2>1. CASE \E w \in Workers : TimerFire(w)
    BY <2>1 DEF TimerFire
  <2>2. CASE \E w \in Workers : TickVisit(w)
    BY <2>2 DEF TickVisit, Checkable
  <2>3. CASE \E w \in Workers : TickDone(w)
    BY <2>3 DEF TickDone
  <2> QED
    BY <1>8, <2>1, <2>2, <2>3
<1>9. CASE \E w \in Workers : Status(w) \/ Reconnect(w)
  BY <1>9 DEF Status, Reconnect
<1>10. CASE \E w \in Workers : Stop(w) \/ StopIo(w)
  BY <1>10 DEF Stop, StopIo
<1>11. CASE Spawned \/ InitPick \/ InitDone \/ Join \/ DeleteNode \/ DeleteDone
  BY <1>11 DEF Spawned, InitPick, InitDone, Join, DeleteNode, DeleteDone
<1>12. CASE ClusterFlips \/ Terminated \/ UNCHANGED vars
  BY <1>12 DEF ClusterFlips, Terminated, vars
<1> QED
  BY <1>1, <1>2, <1>3, <1>4, <1>5, <1>6, <1>7, <1>8, <1>9, <1>10, <1>11,
     <1>12, NextCases DEF MapStep

LEMMA DeletedStep == PoolInv /\ [Next]_vars => DeletedLast'
<1> SUFFICES ASSUME PoolInv, [Next]_vars PROVE DeletedLast'
  OBVIOUS
<1> USE ThreadsAssumption DEF PoolInv, DeletedLast, AllJoined
<1>m. ASSUME \A w \in Workers : pc[w] = "exited" => pc'[w] = "exited",
             \/ pc'[Main] = pc[Main]
             \/ pc'[Main] \notin {"delete", "done"}
                /\ pc[Main] \notin {"delete", "done"},
             Objects' = Objects,
             \A o \in Objects : obj'[o].freed = obj[o].freed
      PROVE  DeletedLast'
  BY <1>m
<1>1. ASSUME NEW t \in Threads, MapStep(t) PROVE DeletedLast'
  <2>1. /\ \A w \in Workers : pc[w] = "exited" => pc'[w] = "exited"
        /\ \/ pc'[Main] = pc[Main]
           \/ pc'[Main] \notin {"delete", "done"}
              /\ pc[Main] \notin {"delete", "done"}
    BY <1>1 DEF MapStep, Count, Construct, Subscript, Link, Assign, At, Goto,
                TypeOK, Threads
  <2>2. CASE ~ Construct(t)
    <3>1. obj' = obj
      BY <1>1, <2>2 DEF MapStep, Count, Subscript, Link, Assign, poolVars
    <3> QED
      BY <2>1, <3>1, <1>m DEF Objects
  <2>3. CASE Construct(t)
    BY <2>1, <2>3, ConstructType
  <2> QED
    BY <2>2, <2>3
<1>2. CASE \/ \E w \in Workers : Spawn(w) \/ StartGet(w) \/ Fetch(w)
           \/ \E w \in Workers : GetBegin(w) \/ GetEnd(w) \/ Exit(w)
           \/ \E w \in Workers : TimerFire(w) \/ TickVisit(w) \/ TickDone(w)
           \/ \E w \in Workers : Status(w) \/ Stop(w) \/ StopIo(w)
  <2>1. obj' = obj /\ pc'[Main] = pc[Main]
    BY <1>2 DEF Spawn, StartGet, Fetch, GetBegin, GetEnd, Exit, TimerFire,
       TickVisit, TickDone, Status, Stop, StopIo, Release, Goto, At, TypeOK,
       Threads, poolVars
  <2>2. \A w \in Workers : pc[w] = "exited" => pc'[w] = "exited"
    BY <1>2 DEF Spawn, StartGet, Fetch, GetBegin, GetEnd, Exit, TimerFire,
       TickVisit, TickDone, Status, Stop, StopIo, Release, Goto, At, TypeOK,
       Threads
  <2> QED
    BY <2>1, <2>2, <1>m DEF Objects
<1>3. ASSUME NEW w \in Workers, Reconnect(w) PROVE DeletedLast'
  <2>1. /\ \A v \in Workers : pc[v] = "exited" => pc'[v] = "exited"
        /\ pc'[Main] = pc[Main]
    BY <1>3 DEF Reconnect, At, Goto, TypeOK, Threads
  <2> QED
    BY <1>3, <1>m, <2>1, ReconnectType
<1>4. CASE Spawned \/ InitPick \/ InitDone
  BY <1>4, <1>m DEF Spawned, InitPick, InitDone, At, Goto, TypeOK, Threads,
                    poolVars, Objects
<1>5. CASE Join
  BY <1>5 DEF Join, At, Goto, TypeOK, Threads, poolVars, Objects
<1>6. CASE DeleteNode
  BY <1>6 DEF DeleteNode, At
<1>7. CASE DeleteDone
  BY <1>7 DEF DeleteDone, At, Goto, TypeOK, Threads, poolVars, Objects
<1>8. CASE ClusterFlips \/ Terminated \/ UNCHANGED vars
  BY <1>8, <1>m DEF ClusterFlips, Terminated, vars, poolVars, Objects
<1> QED
  BY <1>1, <1>2, <1>3, <1>4, <1>5, <1>6, <1>7, <1>8, NextCases

\* Steps that keep the nodes, the slots and the owners of objects.
LEMMA OwnersKept ==
    ASSUME PoolInv,
           Nodes' = Nodes, Objects \subseteq Objects',
           \A n \in Nodes : node'[n] = node[n],
           \A o \in Objects : obj'[o].owner = obj[o].owner,
           \A t \in Threads : slot'[t] # 0 =>
              slot'[t] = slot[t] /\ Key(t)' = Key(t),
           \A t \in Threads : pc'[t] = "fill" /\ held'[t] # 0 =>
              held'[t] = held[t] /\ pc[t] = "fill" /\ Key(t)' = Key(t),
           \A w \in Workers : InUse(w)' => InUse(w) /\ held'[w] = held[w]
    PROVE  OwnersMatch'
<1> USE DEF PoolInv, OwnersMatch
<1>1. \A n \in Nodes' :
          node'[n].val # 0 => obj'[node'[n].val].owner = node'[n].key
  BY NodeTypes
<1>2. \A t \in Threads : slot'[t] # 0 => node'[slot'[t]].key = Key(t)'
  BY DEF TypeOK
<1>3. \A t \in Threads : pc'[t] = "fill" /\ held'[t] # 0
                           => obj'[held'[t]].owner = Key(t)'
  BY DEF TypeOK
<1>4. \A w \in Workers :
          InUse(w)' => held'[w] # 0 /\ obj'[held'[w]].owner = w
  BY DEF TypeOK, Threads
<1> QED
  BY <1>1, <1>2, <1>3, <1>4

LEMMA OwnersStep == PoolInv /\ [Next]_vars => OwnersMatch'
<1> SUFFICES ASSUME PoolInv, [Next]_vars PROVE OwnersMatch'
  OBVIOUS
<1> USE ThreadsAssumption DEF PoolInv
<1>1. ASSUME NEW t \in Threads, Count(t) PROVE OwnersMatch'
  BY <1>1, OwnersKept DEF Count, HoldsInPlace, TypeOK, At, Goto, poolVars,
     mapVars, initVars, Nodes, Objects, InUse, Key, Threads
<1>2. ASSUME NEW t \in Threads, Construct(t) PROVE OwnersMatch'
  <2>1. /\ node' = node /\ Nodes' = Nodes /\ slot' = slot /\ pc' = pc
        /\ held' = [held EXCEPT ![t] = NewObject]
        /\ pc[t] = "fill" /\ \A u \in Threads : Key(u)' = Key(u)
    BY <1>2 DEF Construct, At, mapVars, initVars, Nodes, Key
  <2>2. /\ Objects' = Objects \cup {NewObject}
        /\ \A o \in Objects : obj'[o] = obj[o]
        /\ obj'[NewObject].owner = Key(t)
    BY <1>2, ConstructType
  <2>3. \A n \in Nodes' :
            node'[n].val # 0 => obj'[node'[n].val].owner = node'[n].key
    BY <2>1, <2>2, NodeTypes DEF OwnersMatch
  <2>4. \A u \in Threads :
            /\ slot'[u] # 0 => node'[slot'[u]].key = Key(u)'
            /\ pc'[u] = "fill" /\ held'[u] # 0
                  => obj'[held'[u]].owner = Key(u)'
    BY <2>1, <2>2 DEF OwnersMatch, TypeOK
  <2>5. \A w \in Workers :
            InUse(w)' => held'[w] # 0 /\ obj'[held'[w]].owner = w
    BY <2>1, <2>2 DEF OwnersMatch, InUse, TypeOK, Threads
  <2> QED
    BY <2>3, <2>4, <2>5 DEF OwnersMatch
<1>3. ASSUME NEW t \in Threads, Subscript(t) PROVE OwnersMatch'
  <2>1. /\ node' = node /\ Nodes' = Nodes /\ obj' = obj /\ held' = held
        /\ pc' = pc /\ \A u \in Threads : Key(u)' = Key(u)
    BY <1>3 DEF Subscript, initVars, Nodes, Key
  <2>2. \A u \in Threads \ {t} : slot'[u] = slot[u]
    BY <1>3 DEF Subscript, TypeOK
  <2>3. slot'[t] \in {0, Newest(Key(t))}
    BY <1>3 DEF Subscript, Finds, TypeOK
  <2>4. slot'[t] # 0 => node[slot'[t]].key = Key(t)
    BY <2>3, NewestFacts
  <2> QED
    BY <2>1, <2>2, <2>4 DEF OwnersMatch, InUse
<1>4. ASSUME NEW t \in Threads, Link(t) PROVE OwnersMatch'
  <2> DEFINE n == Len(node) + 1
  <2>1. /\ n \notin Nodes /\ Nodes' = Nodes \cup {n}
        /\ \A m \in Nodes : node'[m] = node[m]
        /\ node'[n].key = Key(t) /\ node'[n].val = 0
    BY <1>4, LinkType
  <2>2. /\ obj' = obj /\ held' = held /\ pc' = pc
        /\ slot' = [slot EXCEPT ![t] = n]
        /\ \A u \in Threads : Key(u)' = Key(u)
    BY <1>4 DEF Link, initVars, Key
  <2> HIDE DEF n
  <2>3. \A m \in Nodes' :
            node'[m].val # 0 => obj'[node'[m].val].owner = node'[m].key
    BY <2>1, <2>2 DEF OwnersMatch
  <2>4. \A u \in Threads : slot'[u] # 0 => node'[slot'[u]].key = Key(u)'
    BY <2>1, <2>2 DEF OwnersMatch, TypeOK
  <2> QED
    BY <2>2, <2>3, <2>4 DEF OwnersMatch, InUse
<1>5. ASSUME NEW t \in Threads, Assign(t) PROVE OwnersMatch'
  <2>1. /\ Nodes' = Nodes /\ slot[t] \in Nodes
        /\ \A n \in Nodes : node'[n].key = node[n].key
        /\ \A n \in Nodes \ {slot[t]} : node'[n] = node[n]
        /\ node'[slot[t]].val = held[t]
    BY <1>5, AssignType
  <2>2. /\ obj' = obj /\ held[t] # 0 /\ slot[t] # 0 /\ pc[t] = "fill"
        /\ slot' = [slot EXCEPT ![t] = 0] /\ held' = [held EXCEPT ![t] = 0]
        /\ \A u \in Threads \ {t} : pc'[u] = pc[u]
        /\ pc'[t] \in {"init", "fetch"}
        /\ \A u \in Threads : Key(u)' = Key(u)
    BY <1>5 DEF Assign, At, Goto, initVars, Key, TypeOK
  <2>3. obj[held[t]].owner = node[slot[t]].key
    BY <2>2 DEF OwnersMatch
  <2>4. \A n \in Nodes' :
            node'[n].val # 0 => obj'[node'[n].val].owner = node'[n].key
    BY <2>1, <2>2, <2>3 DEF OwnersMatch
  <2>5. \A u \in Threads : slot'[u] # 0 => node'[slot'[u]].key = Key(u)'
    BY <2>1, <2>2 DEF OwnersMatch, TypeOK
  <2>6. \A u \in Threads : pc'[u] = "fill" /\ held'[u] # 0
                              => obj'[held'[u]].owner = Key(u)'
    BY <2>2 DEF OwnersMatch, TypeOK
  <2>7. \A w \in Workers :
            InUse(w)' => held'[w] # 0 /\ obj'[held'[w]].owner = w
    BY <2>2 DEF OwnersMatch, InUse, TypeOK, Threads
  <2> QED
    BY <2>4, <2>5, <2>6, <2>7 DEF OwnersMatch
<1>6. ASSUME NEW w \in Workers, Fetch(w) PROVE OwnersMatch'
  <2>1. /\ node' = node /\ Nodes' = Nodes /\ obj' = obj
        /\ slot[w] # 0 /\ pc[w] = "fetch"
        /\ slot' = [slot EXCEPT ![w] = 0]
        /\ \A u \in Threads : Key(u)' = Key(u)
        /\ \A u \in Threads \ {w} : pc'[u] = pc[u] /\ held'[u] = held[u]
    BY <1>6 DEF Fetch, At, Goto, initVars, Nodes, Key, TypeOK
  <2>2. \/ pc'[w] = "run"
        \/ /\ pc'[w] = "get" /\ held'[w] = node[slot[w]].val
           /\ node[slot[w]].val # 0
    BY <1>6 DEF Fetch, UsableHandle, At, Goto, TypeOK, Threads
  <2>3. /\ slot[w] \in Nodes /\ node[slot[w]].key = w
        /\ w \in Threads
    BY <2>1 DEF TypeOK, OwnersMatch, Key, Threads
  <2>4. \A u \in Threads : /\ slot'[u] # 0 => slot'[u] = slot[u]
                           /\ slot'[u] # 0 => node'[slot'[u]].key = Key(u)'
    BY <2>1 DEF OwnersMatch, TypeOK
  <2>5. \A u \in Threads : pc'[u] = "fill" /\ held'[u] # 0
                              => obj'[held'[u]].owner = Key(u)'
    BY <2>1, <2>2 DEF OwnersMatch
  <2>6. \A v \in Workers :
            InUse(v)' => held'[v] # 0 /\ obj'[held'[v]].owner = v
    BY <2>1, <2>2, <2>3 DEF OwnersMatch, InUse, Threads
  <2> QED
    BY <2>1, <2>4, <2>5, <2>6 DEF OwnersMatch
<1>7. CASE \/ \E w \in Workers : Spawn(w) \/ StartGet(w)
           \/ \E w \in Workers : GetBegin(w) \/ GetEnd(w) \/ Exit(w)
           \/ \E w \in Workers : TimerFire(w) \/ TickVisit(w) \/ TickDone(w)
           \/ \E w \in Workers : Status(w) \/ Stop(w) \/ StopIo(w)
  <2>1. PICK w \in Workers :
            \/ Spawn(w) \/ StartGet(w) \/ GetBegin(w) \/ GetEnd(w) \/ Exit(w)
            \/ TimerFire(w) \/ TickVisit(w) \/ TickDone(w)
            \/ Status(w) \/ Stop(w) \/ StopIo(w)
    BY <1>7
  <2>2. /\ node' = node /\ Nodes' = Nodes /\ obj' = obj /\ Objects' = Objects
        /\ slot' = slot /\ \A u \in Threads : Key(u)' = Key(u)
    BY <2>1 DEF Spawn, StartGet, GetBegin, GetEnd, Exit, TimerFire, TickVisit,
       TickDone, Status, Stop, StopIo, poolVars, mapVars, initVars, Nodes,
       Objects, Key
  <2>3. \A u \in Threads \ {w} : pc'[u] = pc[u] /\ held'[u] = held[u]
    BY <2>1 DEF Spawn, StartGet, GetBegin, GetEnd, Exit, TimerFire, TickVisit,
       TickDone, Status, Stop, StopIo, Release, poolVars, Goto, TypeOK
  <2>4. /\ pc'[w] # "fill"
        /\ InUse(w)' => InUse(w) /\ held'[w] = held[w]
    BY <2>1 DEF Spawn, StartGet, GetBegin, GetEnd, Exit, TimerFire, TickVisit,
       TickDone, Status, Stop, StopIo, Release, Goto, At, InUse, TypeOK,
       Threads
  <2> QED
    BY <2>2, <2>3, <2>4, OwnersKept DEF InUse, Threads
<1>8. ASSUME NEW w \in Workers, Reconnect(w) PROVE OwnersMatch'
  <2>1. /\ node' = node /\ Nodes' = Nodes /\ slot' = slot
        /\ \A u \in Threads : Key(u)' = Key(u)
        /\ \A u \in Threads \ {w} : pc'[u] = pc[u] /\ held'[u] = held[u]
        /\ pc'[w] = "tick"
    BY <1>8 DEF Reconnect, Goto, mapVars, initVars, Nodes, Key, TypeOK, Threads
  <2>2. Objects' = Objects /\ \A o \in Objects : obj'[o].owner = obj[o].owner
    BY <1>8, ReconnectType
  <2> QED
    BY <2>1, <2>2, OwnersKept DEF InUse, Threads
<1>9. CASE Spawned \/ InitPick \/ InitDone
  <2>1. /\ node' = node /\ Nodes' = Nodes /\ obj' = obj /\ Objects' = Objects
        /\ slot' = slot /\ held' = held
        /\ \A w \in Workers : pc'[w] = pc[w] /\ Key(w)' = Key(w)
        /\ pc[Main] \in {"spawn", "init"} /\ pc'[Main] # "fill"
    BY <1>9 DEF Spawned, InitPick, InitDone, At, Goto, poolVars, mapVars, Nodes,
                Objects, Key, TypeOK, Threads
  <2>2. slot[Main] = 0
    BY <2>1 DEF HoldsInPlace, Threads
  <2> QED
    BY <2>1, <2>2, OwnersKept DEF InUse, Threads
<1>10. CASE Join \/ DeleteNode \/ DeleteDone
  <2>1. /\ node' = node /\ Nodes' = Nodes /\ slot' = slot /\ held' = held
        /\ \A u \in Threads : Key(u)' = Key(u)
        /\ \A w \in Workers : pc'[w] = pc[w]
        /\ pc'[Main] # "fill"
    BY <1>10 DEF Join, DeleteNode, DeleteDone, At, Goto, poolVars, mapVars,
                 initVars, Nodes, Key, TypeOK, Threads
  <2>2. Objects' = Objects /\ \A o \in Objects : obj'[o].owner = obj[o].owner
    BY <1>10, DeleteNodeType DEF Join, DeleteDone, poolVars, Objects
  <2> QED
    BY <2>1, <2>2, OwnersKept DEF InUse, Threads
<1>11. CASE ClusterFlips \/ Terminated \/ UNCHANGED vars
  BY <1>11, OwnersKept DEF ClusterFlips, Terminated, vars, poolVars, mapVars,
     initVars, Nodes, Objects, Key, InUse
<1> QED
  BY <1>1, <1>2, <1>3, <1>4, <1>5, <1>6, <1>7, <1>8, <1>9, <1>10, <1>11,
     NextCases DEF MapStep

LEMMA InvStep == PoolInv /\ [Next]_vars => PoolInv'
  BY TypeStep, HoldsStep, OwnersStep, DeletedStep DEF PoolInv

\* The inductive invariant of the pool holds for every number of workers.
THEOREM PoolInvariant == Spec => []PoolInv
  BY InitInv, InvStep, PTL DEF Spec

\* Every request has a handle to itself: two workers inside GET work on
\* objects constructed for different threads (as_control.hpp:93-102).
THEOREM HandlesAreExclusive == Spec => []ExclusiveHandle
<1>1. PoolInv => ExclusiveHandle
  BY DEF PoolInv, OwnersMatch, ExclusiveHandle
<1> QED
  BY <1>1, PoolInvariant, PTL

\* No request and no health check works on a deleted or a NULL object
\* (main.cpp:99-101, as_control.hpp:146, request_handler.cpp:167).
THEOREM HandlesOutliveUses == Spec => []NoUseAfterFree
<1>1. PoolInv => NoUseAfterFree
  <2> SUFFICES ASSUME PoolInv, NEW w \in Workers,
                      InUse(w) \/ pc[w] \in {"status", "reconnect"}
               PROVE  held[w] # 0 /\ obj[held[w]].freed = 0
    BY DEF NoUseAfterFree
  <2>1. held[w] # 0 /\ held[w] \in Objects
    BY DEF PoolInv, HoldsInPlace, TypeOK, Threads, InUse
  <2>2. pc[w] # "exited"
    BY DEF InUse
  <2> QED
    BY <2>1, <2>2 DEF PoolInv, DeletedLast, AllJoined
<1> QED
  BY <1>1, PoolInvariant, PTL

-----------------------------------------------------------------------------
(* A settled pool stays as it is *)

LEMMA SettledStep ==
    ASSUME PoolInv, Settled, Next
    PROVE  Settled' /\ UNCHANGED <<linked, node>>
<1> USE ThreadsAssumption DEF Settled, Initialized
<1>1. ASSUME linking' = linking, linked' = linked, node' = node,
             \A w \in Workers : pc'[w] # "fill",
             pc'[Main] \in {"join", "delete", "done"}
      PROVE  Settled' /\ UNCHANGED <<linked, node>>
  BY <1>1 DEF Newest
<1>2. ASSUME NEW t \in Threads, MapStep(t)
      PROVE  Settled' /\ UNCHANGED <<linked, node>>
  <2>1. t \in Workers /\ pc[t] # "fill" /\ t \notin linking
    BY <1>2 DEF MapStep, Count, Construct, Subscript, Link, Assign, At, Threads,
                PoolInv, HoldsInPlace
  <2>2. Newest(t) # 0 /\ Finds(t, Key(t)) = {Newest(t)}
    BY <2>1 DEF Finds, Racing, Key
  <2>3. CASE Count(t)
    BY <2>1, <2>2, <2>3, <1>1
       DEF Count, CountMisses, Goto, poolVars, mapVars, PoolInv, TypeOK, Threads
  <2>4. CASE Subscript(t)
    BY <2>1, <2>2, <2>4, <1>1 DEF Subscript, PoolInv
  <2> QED
    BY <1>2, <2>1, <2>3, <2>4 DEF MapStep, Construct, Link, Assign, At
<1>3. CASE \/ \E w \in Workers : Spawn(w) \/ StartGet(w) \/ Fetch(w)
           \/ \E w \in Workers : GetBegin(w) \/ GetEnd(w) \/ Exit(w)
           \/ \E w \in Workers : TimerFire(w) \/ TickVisit(w) \/ TickDone(w)
  BY <1>3, <1>1
     DEF Spawn, StartGet, Fetch, GetBegin, GetEnd, Exit, TimerFire, TickVisit,
         TickDone, Release, Goto, At, poolVars, mapVars, PoolInv, TypeOK, Threads
<1>4. CASE \/ \E w \in Workers : Status(w) \/ Reconnect(w)
           \/ \E w \in Workers : Stop(w) \/ StopIo(w)
           \/ Spawned \/ InitPick \/ InitDone \/ Join \/ DeleteNode
           \/ DeleteDone \/ ClusterFlips \/ Terminated
  BY <1>4, <1>1
     DEF Status, Reconnect, Stop, StopIo, Spawned, InitPick, InitDone, Join,
         DeleteNode, DeleteDone, ClusterFlips, Terminated, Goto, At, poolVars,
         mapVars, vars, PoolInv, TypeOK, Threads
<1> QED
  BY <1>2, <1>3, <1>4, NextCases

\* Once Initialize is over and every worker has its entry, rAsList is never
\* written again, for every number of workers (as_control.hpp:96-100).
THEOREM PoolStaysSettled == Spec => PoolSettles
<1>1. PoolInv /\ [Next]_vars => [SettledStays]_vars
  BY SettledStep DEF SettledStays
<1> QED
  BY <1>1, PoolInvariant, PTL DEF Spec, PoolSettles

-----------------------------------------------------------------------------
(* The pool implements HandlePool *)

InUseBy == [w \in Workers |-> IF InUse(w) THEN held[w] ELSE 0]
Live    == {o \in Objects : obj[o].freed = 0}
Freed   == {o \in Objects : obj[o].freed > 0}

LEMMA InitRefines == Init => Handles!Init
<1> SUFFICES ASSUME Init PROVE Handles!Init
  OBVIOUS
<1>1. Objects = {}
  BY EmptySeq DEF Init, Objects
<1>2. \A w \in Workers : ~ InUse(w)
  BY DEF Init, InUse, Threads
<1> QED
  BY <1>1, <1>2 DEF Handles!Init

\* The steps that HandlePool does not see.
LEMMA Hidden ==
    ASSUME PoolInv, Next,
           \A t \in Threads : ~ Construct(t),
           \A w \in Workers : ~ Fetch(w) /\ ~ GetBegin(w) /\ ~ GetEnd(w),
           ~ DeleteNode
    PROVE  InUseBy' = InUseBy /\ Live' = Live /\ Freed' = Freed
<1> USE ThreadsAssumption
<1>1. /\ Objects' = Objects
      /\ \A o \in Objects : obj'[o].freed = obj[o].freed
  <2>1. CASE \E w \in Workers : Reconnect(w)
    BY <2>1, ReconnectType DEF PoolInv
  <2>2. CASE ~ \E w \in Workers : Reconnect(w)
    <3>1. obj' = obj
      BY <2>2, NextCases DEF MapStep, Count, Subscript, Link, Assign, Spawn,
         StartGet, Exit, TimerFire, TickVisit, TickDone, Status, Stop, StopIo,
         Spawned, InitPick, InitDone, Join, DeleteDone, ClusterFlips,
         Terminated, vars, poolVars
    <3> QED
      BY <3>1 DEF Objects
  <2> QED
    BY <2>1, <2>2
<1>2. \A w \in Workers : InUse(w)' = InUse(w) /\ (InUse(w) => held'[w] = held[w])
  <2> SUFFICES ASSUME NEW w \in Workers
               PROVE  InUse(w)' = InUse(w) /\ (InUse(w) => held'[w] = held[w])
    OBVIOUS
  <2> USE DEF PoolInv, TypeOK, InUse, At, Goto, Threads
  <2>1. CASE \E t \in Threads : MapStep(t)
    BY <2>1 DEF MapStep, Count, Subscript, Link, Assign, poolVars
  <2>2. CASE \E v \in Workers : Spawn(v) \/ StartGet(v) \/ Exit(v)
    BY <2>2 DEF Spawn, StartGet, Exit, poolVars
  <2>3. CASE \E v \in Workers : TimerFire(v) \/ TickVisit(v) \/ TickDone(v)
    BY <2>3 DEF TimerFire, TickVisit, TickDone, poolVars
  <2>4. CASE \/ \E v \in Workers : Status(v) \/ Reconnect(v)
             \/ \E v \in Workers : Stop(v) \/ StopIo(v)
    BY <2>4 DEF Status, Reconnect, Stop, StopIo, poolVars
  <2>5. CASE Spawned \/ InitPick \/ InitDone \/ Join \/ DeleteDone
    BY <2>5 DEF Spawned, InitPick, InitDone, Join, DeleteDone, poolVars
  <2>6. CASE ClusterFlips \/ Terminated
    BY <2>6 DEF ClusterFlips, Terminated, vars, poolVars
  <2> QED
    BY <2>1, <2>2, <2>3, <2>4, <2>5, <2>6, NextCases
<1> QED
  BY <1>1, <1>2 DEF InUseBy, Live, Freed

LEMMA StepRefines ==
    PoolInv /\ [Next]_vars => [Handles!Next]_(Handles!vars)
<1> SUFFICES ASSUME PoolInv, [Next]_vars
             PROVE  Handles!Next \/ UNCHANGED Handles!vars
  OBVIOUS
<1> USE ThreadsAssumption
<1>0. ASSUME InUseBy' = InUseBy, Live' = Live, Freed' = Freed
      PROVE  UNCHANGED Handles!vars
  BY <1>0 DEF Handles!vars, InUseBy, Live, Freed
<1>1. ASSUME NEW t \in Threads, Construct(t) PROVE Handles!Create
  <2>1. /\ Objects' = Objects \cup {NewObject}
        /\ \A o \in Objects : obj'[o] = obj[o]
        /\ obj'[NewObject].freed = 0
    BY <1>1, ConstructType DEF PoolInv
  <2>2. Live' = Live \cup {NewObject} /\ NewObject \notin Freed
    BY <2>1, LenProperties DEF Live, Objects, NewObject, Freed, PoolInv, TypeOK
  <2>3. Freed' = Freed
    BY <2>1, <2>2 DEF Freed, Live
  <2>4. InUseBy' = InUseBy
    BY <1>1 DEF InUseBy, InUse, Construct, At, PoolInv, TypeOK, Threads
  <2> QED
    BY <2>2, <2>3, <2>4 DEF Handles!Create, Live, Freed, InUseBy
<1>2. ASSUME NEW w \in Workers, Fetch(w)
      PROVE  Handles!Acquire(w) \/ UNCHANGED Handles!vars
  <2> DEFINE o == node[slot[w]].val
  <2>1. obj' = obj /\ Objects' = Objects /\ ~ InUse(w)
    BY <1>2 DEF Fetch, At, InUse, Objects
  <2>2. Live' = Live /\ Freed' = Freed
    BY <2>1 DEF Live, Freed
  <2>3. CASE o = 0
    BY <1>2, <2>1, <2>2, <2>3, <1>0
       DEF Fetch, UsableHandle, InUse, Goto, InUseBy, PoolInv, TypeOK, Threads
  <2>4. CASE o # 0
    <3>1. o \in Objects /\ obj[o].owner = w
      BY <1>2, <2>4, NodeTypes
         DEF Fetch, PoolInv, OwnersMatch, TypeOK, Key, Threads
    <3>2. obj[o].freed = 0
      BY <1>2, <3>1 DEF PoolInv, DeletedLast, AllJoined, Fetch, At
    <3>3. \A v \in Workers : InUseBy[v] # o
      BY <2>1, <2>4, <3>1 DEF InUseBy, PoolInv, OwnersMatch
    <3>4. InUseBy' = [InUseBy EXCEPT ![w] = o]
      BY <1>2, <2>4 DEF Fetch, UsableHandle, InUse, Goto, InUseBy, PoolInv,
                        TypeOK, Threads
    <3>5. InUseBy[w] = 0 /\ o \in Live
      BY <2>1, <3>1, <3>2 DEF InUseBy, Live
    <3> HIDE DEF o
    <3> QED
      BY <2>2, <3>3, <3>4, <3>5 DEF Handles!Acquire, Live, Freed, InUseBy
  <2> QED
    BY <2>3, <2>4
<1>3. ASSUME NEW w \in Workers, GetBegin(w) \/ GetEnd(w)
      PROVE  Handles!Release(w) \/ UNCHANGED Handles!vars
  <2>1. /\ obj' = obj /\ Objects' = Objects
        /\ InUse(w) /\ held[w] # 0
    BY <1>3 DEF GetBegin, GetEnd, At, InUse, Objects, PoolInv, HoldsInPlace,
                Threads
  <2>2. Live' = Live /\ Freed' = Freed /\ InUseBy[w] # 0
    BY <2>1 DEF Live, Freed, InUseBy
  <2>3. InUseBy' = InUseBy \/ InUseBy' = [InUseBy EXCEPT ![w] = 0]
    BY <1>3 DEF GetBegin, GetEnd, At, Release, Goto, InUse, InUseBy, PoolInv,
                TypeOK, Threads
  <2> QED
    BY <1>0, <2>2, <2>3 DEF Handles!Release, Live, Freed, InUseBy
<1>4. CASE DeleteNode
  <2>1. /\ Objects' = Objects /\ InUseBy' = InUseBy
        /\ \A w \in Workers : InUseBy[w] = 0
    BY <1>4, DeleteNodeType DEF DeleteNode, At, InUse, InUseBy, PoolInv,
       DeletedLast, AllJoined
  <2>2. CASE obj' = obj
    BY <1>0, <2>1, <2>2 DEF Live, Freed
  <2>3. CASE obj' # obj
    <3>1. PICK d : obj' = [obj EXCEPT ![d].freed = @ + 1]
      BY <1>4, <2>3 DEF DeleteNode
    <3> DEFINE r == [obj[d] EXCEPT !.freed = @ + 1]
    <3>2. obj \in Seq(ObjRec) /\ obj' = [obj EXCEPT ![d] = r]
      BY <3>1 DEF PoolInv, TypeOK, ObjRec
    <3>3. d \in Objects => /\ r \in ObjRec /\ r.freed = obj[d].freed + 1
                           /\ obj[d].freed \in Nat
      <4>1. d \in Objects => obj[d] \in ObjRec
        BY <3>2, ElementOfSeq DEF Objects
      <4>2. \A q \in ObjRec : q.freed \in Nat
        BY DEF ObjRec
      <4> QED
        BY <4>1, <4>2, SetFreed
    <3> HIDE DEF r
    <3>4. \A o \in Objects : obj'[o] = IF o = d THEN r ELSE obj[o]
      BY <3>2, <3>3, ExceptFacts DEF Objects
    <3>5. CASE d \in Live
      <4>1. Live' = Live \ {d} /\ Freed' = Freed \cup {d}
        BY <2>1, <3>3, <3>4, <3>5 DEF Live, Freed
      <4> QED
        BY <2>1, <3>5, <4>1 DEF Handles!Next, Handles!Free, Live, Freed, InUseBy
    <3>6. CASE d \notin Live
      <4>1. Live' = Live /\ Freed' = Freed
        BY <2>1, <3>3, <3>4, <3>6 DEF Live, Freed
      <4> QED
        BY <2>1, <4>1, <1>0
    <3> QED
      BY <3>5, <3>6
  <2> QED
    BY <2>2, <2>3
<1>5. CASE UNCHANGED vars
  BY <1>0, <1>5 DEF vars, poolVars, InUseBy, InUse, Live, Freed, Objects
<1>6. CASE /\ Next
           /\ ~ (\E t \in Threads : Construct(t))
           /\ ~ (\E w \in Workers : Fetch(w))
           /\ ~ (\E w \in Workers : GetBegin(w) \/ GetEnd(w))
           /\ ~ DeleteNode
  BY <1>6, <1>0, Hidden
<1>7. CASE \E t \in Threads : Construct(t)
  BY <1>1, <1>7 DEF Handles!Next
<1>8. CASE \E w \in Workers : Fetch(w)
  BY <1>2, <1>8 DEF Handles!Next
<1>9. CASE \E w \in Workers : GetBegin(w) \/ GetEnd(w)
  BY <1>3, <1>9 DEF Handles!Next
<1> QED
  BY <1>4, <1>5, <1>6, <1>7, <1>8, <1>9

\* The pool of as_control.hpp implements HandlePool: initial states and steps
\* map to initial states and steps or stutters of the abstract pool.
THEOREM PoolRefinesHandlePool == Spec => ImplementsHandlePool
  BY InitRefines, StepRefines, PoolInvariant, PTL
     DEF Spec, ImplementsHandlePool, Handles!Spec

-----------------------------------------------------------------------------
(* The finished pool, when no request came before it was finished *)

\* Until Initialize is over the main thread is alone in rAsList; afterwards it
\* is settled (server.cpp:112-115, as_control.hpp:104-113).
Quiet ==
    /\ ~Initialized => \A w \in Workers :
          pc[w] \notin {"count", "fill", "fetch", "get", "getnet"}
    /\ linking \subseteq {Main}
    /\ Initialized => Settled
    /\ \A t \in Threads : since[t] = {}

\* The workers whose objects Initialize has stored.
Served ==
    IF pc[Main] = "spawn" THEN {}
    ELSE (Workers \ toInit) \ (IF pc[Main] \in {"count", "fill"} THEN {cur} ELSE {})

\* The nodes that have their object.
Entries == linked \ {slot[Main]}

\* Each worker that was served has one node, with an object, and there are no
\* other nodes and objects but the ones that the main thread has in its hands.
Mapped ==
    /\ \A m, n \in linked : node[m].key = node[n].key => m = n
    /\ \A n \in Entries : node[n].key \in Served /\ node[n].val # 0
    /\ \A w \in Served : \E n \in Entries : node[n].key = w
    /\ slot[Main] # 0 => slot[Main] \in linked
    /\ pc[Main] \in {"count", "fill"} => cur \in Workers \ toInit
    /\ Initialized => toInit = {}
    /\ \A o \in Objects : o = held[Main] \/ \E n \in Entries : node[n].val = o

\* The destructor has deleted the objects of the nodes it has visited, once.
Deleting ==
    /\ pc[Main] = "delete" =>
          /\ todo \subseteq linked
          /\ \A n \in linked : obj[node[n].val].freed = IF n \in todo THEN 0 ELSE 1
    /\ pc[Main] = "done" => \A o \in Objects : obj[o].freed = 1

CompleteInv == ~early => Quiet /\ Mapped /\ Deleting

LEMMA InitComplete == Init => CompleteInv
<1> SUFFICES ASSUME Init PROVE Quiet /\ Mapped /\ Deleting
  BY DEF CompleteInv
<1>1. pc[Main] = "spawn" /\ \A w \in Workers : pc[w] = "new"
  BY ThreadsAssumption DEF Init, Threads
<1>2. Objects = {} /\ linked = {} /\ slot[Main] = 0
  BY EmptySeq DEF Init, Objects, Threads
<1>3. Quiet
  BY <1>1 DEF Init, Quiet, Initialized
<1>4. Mapped
  BY <1>1, <1>2 DEF Mapped, Served, Entries, Initialized
<1>5. Deleting
  BY <1>1 DEF Deleting
<1> QED
  BY <1>3, <1>4, <1>5

\* A search for the key of a node ends at this node when keys are not repeated.
LEMMA UniqueNewest ==
    ASSUME TypeOK, Mapped, NEW n \in linked
    PROVE  Newest(node[n].key) = n
<1> DEFINE k == node[n].key
           ns == {m \in linked : node[m].key = k}
<1>1. ns = {n}
  BY DEF Mapped
<1>2. \A m \in ns : m <= n
  BY <1>1 DEF TypeOK, Nodes
<1>3. Newest(k) = CHOOSE m \in ns : \A l \in ns : l <= m
  BY <1>1 DEF Newest
<1>4. Newest(k) \in ns
  BY <1>1, <1>2, <1>3
<1> QED
  BY <1>1, <1>4

\* A node that is not found has no key in rAsList.
LEMMA NewestMisses ==
    ASSUME TypeOK, NEW k, \A n \in linked : node[n].key # k
    PROVE  Newest(k) = 0
BY DEF Newest

-----------------------------------------------------------------------------
(* Steps outside of the map *)

\* What a step that does not change rAsList leaves alone.
Apart ==
    /\ linked' = linked /\ node' = node /\ toInit' = toInit /\ cur' = cur
    /\ slot'[Main] = slot[Main] /\ pc'[Main] = pc[Main]
    /\ held'[Main] = held[Main] /\ Objects' = Objects /\ since' = since

LEMMA ApartMapped ==
    ASSUME Mapped, Apart
    PROVE  Mapped'
BY DEF Mapped, Apart, Served, Entries, Initialized

\* The steps of workers that do not enter rAsList.
Aside(w) ==
    \/ Exit(w) \/ TimerFire(w) \/ TickVisit(w) \/ TickDone(w) \/ Status(w)
    \/ Reconnect(w) \/ Stop(w) \/ StopIo(w)

LEMMA AsideApart ==
    ASSUME PoolInv, NEW w \in Workers, Aside(w)
    PROVE  Apart /\ linking' = linking /\ early' = early /\ pc[w] # "exited"
           /\ pc'[w] \notin {"count", "fill", "fetch", "get", "getnet"}
           /\ \A v \in Workers \ {w} : pc'[v] = pc[v]
<1> USE ThreadsAssumption DEF PoolInv, TypeOK, Threads, Apart, At, Goto, poolVars, mapVars,
        initVars, serverVars, timerVars, sysVars
<1>1. CASE Exit(w) \/ Stop(w) \/ StopIo(w)
  BY <1>1 DEF Exit, Stop, StopIo, Objects
<1>2. CASE TimerFire(w)
  BY <1>2 DEF TimerFire, Objects
<1>3. CASE TickVisit(w)
  BY <1>3 DEF TickVisit, Objects
<1>4. CASE TickDone(w)
  BY <1>4 DEF TickDone, Objects
<1>5. CASE Status(w)
  BY <1>5 DEF Status, Objects
<1>6. CASE Reconnect(w)
  <2>1. Objects' = Objects
    BY <1>6, ReconnectType
  <2> QED
    BY <1>6, <2>1 DEF Reconnect
<1> QED
  BY <1>1, <1>2, <1>3, <1>4, <1>5, <1>6 DEF Aside

\* While main deletes, and afterwards, no worker takes a step.
LEMMA NoWorkerLeft ==
    ASSUME PoolInv, pc[Main] \in {"delete", "done"}, NEW w \in Workers
    PROVE  /\ ~Aside(w) /\ ~MapStep(w) /\ ~Spawn(w) /\ ~StartGet(w) /\ ~Fetch(w)
           /\ ~GetBegin(w) /\ ~GetEnd(w)
<1>1. pc[w] = "exited"
  BY DEF PoolInv, DeletedLast
<1>2. w \notin linking
  BY <1>1 DEF PoolInv, HoldsInPlace, Threads
<1>3. ~MapStep(w)
  BY <1>1, <1>2 DEF MapStep, Count, Construct, Subscript, Link, Assign, At
<1>4. ~Spawn(w) /\ ~StartGet(w) /\ ~Fetch(w) /\ ~GetBegin(w) /\ ~GetEnd(w)
  BY <1>1 DEF Spawn, StartGet, Fetch, GetBegin, GetEnd, At
<1>5. ~Aside(w)
  BY <1>1 DEF Aside, Exit, TimerFire, TickVisit, TickDone, Status, Reconnect, Stop,
              StopIo, At
<1> QED
  BY <1>3, <1>4, <1>5

-----------------------------------------------------------------------------
(* Before Initialize is over *)

LEMMA MainConstructs ==
    ASSUME PoolInv, Mapped, Construct(Main)
    PROVE  Mapped'
<1>1. /\ pc' = pc /\ slot' = slot /\ linked' = linked /\ node' = node
      /\ toInit' = toInit /\ cur' = cur /\ held[Main] = 0
      /\ held'[Main] = NewObject /\ Initialized' = Initialized
  BY DEF Construct, mapVars, initVars, PoolInv, TypeOK, Threads, Initialized
<1>2. Objects' = Objects \cup {NewObject}
  BY ConstructType DEF PoolInv, Threads
<1>3. 0 \notin Objects
  BY DEF Objects
<1>4. Served' = Served /\ Entries' = Entries
  BY <1>1 DEF Served, Entries
<1> QED
  BY <1>1, <1>2, <1>3, <1>4 DEF Mapped

LEMMA MainSearches ==
    ASSUME PoolInv, Mapped, Quiet, Subscript(Main)
    PROVE  slot' = slot /\ linking' = {Main} /\ Newest(cur) = 0
<1>1. pc[Main] = "fill" /\ slot[Main] = 0 /\ Main \notin linking
  BY DEF Subscript, At, PoolInv, HoldsInPlace
<1>2. \A n \in linked : node[n].key # cur
  BY <1>1 DEF Mapped, Served, Entries, PoolInv, TypeOK, Nodes
<1>3. Newest(cur) = 0
  BY <1>2, NewestMisses DEF PoolInv
<1>4. linking = {}
  BY <1>1 DEF Quiet
<1>5. Finds(Main, Key(Main)) = {0}
  BY <1>3, <1>4 DEF Finds, Racing, Key
<1>6. slot' = [slot EXCEPT ![Main] = 0] /\ linking' = linking \cup {Main}
  BY <1>5 DEF Subscript
<1>7. slot' = slot
  BY <1>1, <1>6 DEF PoolInv, TypeOK, Threads
<1> QED
  BY <1>3, <1>4, <1>6, <1>7

LEMMA MainLinks ==
    ASSUME PoolInv, Mapped, Quiet, Link(Main)
    PROVE  Mapped'
<1> DEFINE new == Len(node) + 1
<1>1. /\ new \notin Nodes /\ \A n \in Nodes : node'[n] = node[n]
      /\ node'[new].key = Key(Main) /\ Key(Main) = cur
  BY LinkType DEF PoolInv, Threads, Key
<1>2. /\ pc' = pc /\ held' = held /\ obj' = obj /\ toInit' = toInit /\ cur' = cur
      /\ Main \in linking /\ slot' = [slot EXCEPT ![Main] = new]
  BY DEF Link, initVars
<1>3. \A lost \in SUBSET since[Main] : lost = {}
  BY DEF Quiet, Threads
<1>4. linked' = linked \cup {new}
  BY <1>3 DEF Link
<1> HIDE DEF new
<1>5. pc[Main] = "fill" /\ slot[Main] = 0 /\ slot'[Main] = new
  BY <1>2 DEF PoolInv, HoldsInPlace, TypeOK, Threads
<1>6. linked \subseteq Nodes /\ 0 \notin Nodes
  BY DEF PoolInv, TypeOK, Nodes
<1>7. Entries = linked /\ Entries' = linked
  BY <1>1, <1>4, <1>5, <1>6 DEF Entries
<1>8. Served' = Served /\ cur \notin Served /\ Initialized' = Initialized
      /\ Objects' = Objects
  BY <1>2, <1>5 DEF Served, Initialized, Objects
<1>9. \A n \in linked : node'[n] = node[n] /\ node[n].key # cur
  BY <1>1, <1>6, <1>7, <1>8 DEF Mapped
<1> QED
  BY <1>1, <1>2, <1>4, <1>5, <1>7, <1>8, <1>9 DEF Mapped

LEMMA MainAssigns ==
    ASSUME PoolInv, Mapped, Quiet, Assign(Main)
    PROVE  Mapped' /\ ~Initialized'
<1> DEFINE s == slot[Main]
<1>1. /\ \A n \in Nodes : node'[n].key = node[n].key
      /\ \A n \in Nodes \ {s} : node'[n] = node[n]
      /\ s \in Nodes /\ node'[s].val = held[Main]
  BY AssignType DEF PoolInv, Threads
<1>2. /\ pc[Main] = "fill" /\ pc'[Main] = "init" /\ held[Main] # 0 /\ s # 0
      /\ slot'[Main] = 0 /\ held'[Main] = 0
      /\ toInit' = toInit /\ cur' = cur /\ linked' = linked /\ obj' = obj
  BY DEF Assign, At, Goto, initVars, PoolInv, TypeOK, Threads
<1>3. node[s].key = cur
  BY <1>2 DEF PoolInv, OwnersMatch, Key, Threads
<1>4. linked \subseteq Nodes /\ 0 \notin Nodes /\ s \in linked
  BY <1>2 DEF PoolInv, TypeOK, Nodes, Mapped
<1> HIDE DEF s
<1>5. Entries = linked \ {s} /\ Entries' = linked
  BY <1>2, <1>4 DEF Entries, s
<1>6. Served = (Workers \ toInit) \ {cur} /\ Served' = Workers \ toInit
      /\ cur \in Workers \ toInit
  BY <1>2 DEF Served, Mapped
<1>7. \A n \in Entries' : node'[n].key \in Served' /\ node'[n].val # 0
  BY <1>1, <1>2, <1>3, <1>4, <1>5, <1>6 DEF Mapped
<1>8. \A w \in Served' : \E n \in Entries' : node'[n].key = w
  <2> TAKE w \in Served'
  <2>1. CASE w = cur
    BY <1>1, <1>3, <1>4, <1>5, <2>1
  <2>2. CASE w # cur
    <3>1. PICK n \in Entries : node[n].key = w
      BY <1>6, <2>2 DEF Mapped
    <3> QED
      BY <1>1, <1>4, <1>5, <3>1
  <2> QED
    BY <2>1, <2>2
<1>9. \A o \in Objects' : \E n \in Entries' : node'[n].val = o
  <2> TAKE o \in Objects'
  <2>1. CASE o = held[Main]
    BY <1>1, <1>4, <1>5, <2>1
  <2>2. CASE o # held[Main]
    <3>1. PICK n \in Entries : node[n].val = o
      BY <1>2, <2>2 DEF Mapped, Objects
    <3> QED
      BY <1>1, <1>4, <1>5, <3>1
  <2> QED
    BY <2>1, <2>2
<1>10. \A m, n \in linked' : node'[m].key = node'[n].key => m = n
  BY <1>1, <1>2, <1>4 DEF Mapped
<1>11. ~Initialized'
  BY <1>2 DEF Initialized
<1> QED
  BY <1>2, <1>7, <1>8, <1>9, <1>10, <1>11 DEF Mapped

\* The steps of Initialize that only move the main thread.
LEMMA MainMoves ==
    ASSUME PoolInv, Mapped, Quiet,
           \/ \E w \in Workers : Spawn(w)
           \/ Spawned \/ InitPick \/ InitDone \/ Count(Main)
    PROVE  Mapped' /\ (~Initialized' \/ InitDone)
<1> USE ThreadsAssumption DEF PoolInv, TypeOK, Threads, At, Goto, poolVars, mapVars
<1>0. /\ linked' = linked /\ node' = node /\ slot' = slot /\ held' = held /\ obj' = obj
      /\ Entries' = Entries /\ Objects' = Objects
  BY DEF Spawn, Spawned, InitPick, InitDone, Count, Entries, Objects
<1>m. ASSUME Served' = Served,
             pc'[Main] \in {"count", "fill"} => cur' \in Workers \ toInit',
             Initialized' => toInit' = {}
      PROVE  Mapped'
  BY <1>0, <1>m DEF Mapped
<1>1. ASSUME NEW w \in Workers, Spawn(w) PROVE Mapped' /\ ~Initialized'
  <2>1. pc[Main] = "spawn" /\ pc'[Main] = "spawn"
    BY <1>1 DEF Spawn
  <2> QED
    BY <1>m, <2>1 DEF Served, Initialized
<1>2. CASE Spawned
  <2>1. pc[Main] = "spawn" /\ pc'[Main] = "init" /\ toInit' = Workers
    BY <1>2 DEF Spawned, initVars
  <2> QED
    BY <1>m, <2>1 DEF Served, Initialized
<1>3. CASE InitPick
  <2>1. PICK k \in toInit : cur' = k /\ toInit' = toInit \ {k}
    BY <1>3 DEF InitPick
  <2>2. pc[Main] = "init" /\ pc'[Main] = "count"
    BY <1>3 DEF InitPick
  <2> QED
    BY <1>m, <2>1, <2>2 DEF Served, Initialized
<1>4. CASE InitDone
  <2>1. pc[Main] = "init" /\ pc'[Main] = "join" /\ toInit' = toInit /\ toInit = {}
    BY <1>4 DEF InitDone
  <2> QED
    BY <1>4, <1>m, <2>1 DEF Served
<1>5. CASE Count(Main)
  <2>1. pc[Main] = "count" /\ slot[Main] = 0 /\ linking = {}
    BY <1>5 DEF Count, HoldsInPlace, Quiet
  <2>2. \A n \in linked : node[n].key # cur
    BY <2>1 DEF Mapped, Served, Entries, Nodes
  <2>3. Finds(Main, Key(Main)) = {0}
    BY <2>1, <2>2, NewestMisses DEF Finds, Racing, Key
  <2>4. pc'[Main] = "fill" /\ toInit' = toInit /\ cur' = cur
    BY <1>5, <2>3 DEF Count, CountMisses, initVars
  <2> QED
    BY <1>m, <2>1, <2>4 DEF Served, Initialized, Mapped
<1> QED
  BY <1>1, <1>2, <1>3, <1>4, <1>5

LEMMA BeforeCases ==
    ASSUME PoolInv, Quiet, ~Initialized, [Next]_vars, ~early'
    PROVE  \/ \E w \in Workers : Aside(w) \/ Spawn(w)
           \/ Spawned \/ InitPick \/ InitDone \/ Count(Main) \/ Construct(Main)
           \/ Subscript(Main) \/ Link(Main) \/ Assign(Main)
           \/ ClusterFlips \/ UNCHANGED vars
<1>1. ASSUME NEW w \in Workers
      PROVE  ~MapStep(w) /\ ~Fetch(w) /\ ~GetBegin(w) /\ ~GetEnd(w) /\ ~StartGet(w)
  <2>1. pc[w] \notin {"count", "fill", "fetch", "get", "getnet"}
    BY DEF Quiet
  <2>2. w \notin linking
    BY ThreadsAssumption DEF Quiet
  <2> QED
    BY <2>1, <2>2 DEF MapStep, Count, Construct, Subscript, Link, Assign, Fetch, GetBegin,
                      GetEnd, StartGet, At
<1>2. ~Join /\ ~DeleteNode /\ ~DeleteDone
  BY DEF Join, DeleteNode, DeleteDone, At, Initialized
<1> QED
  BY <1>1, <1>2, NextCases DEF MapStep, Aside, Threads, Terminated

LEMMA BeforeStep ==
    ASSUME PoolInv, Quiet, Mapped, ~Initialized, [Next]_vars, ~early'
    PROVE  Quiet' /\ Mapped'
<1> USE ThreadsAssumption
<1>q. ASSUME ~Initialized', linking' \subseteq {Main}, since' = since,
             \A w \in Workers : pc'[w] = pc[w]
      PROVE  Quiet'
  BY <1>q DEF Quiet
<1>1. ASSUME NEW w \in Workers, Aside(w) PROVE Quiet' /\ Mapped'
  <2>1. Apart /\ linking' = linking
        /\ pc'[w] \notin {"count", "fill", "fetch", "get", "getnet"}
        /\ \A v \in Workers \ {w} : pc'[v] = pc[v]
    BY <1>1, AsideApart
  <2>2. ~Initialized'
    BY <2>1 DEF Apart, Initialized
  <2> QED
    BY <2>1, <2>2, ApartMapped DEF Quiet, Apart
<1>2. ASSUME NEW w \in Workers, Spawn(w) PROVE Quiet' /\ Mapped'
  <2>1. /\ linking' = linking /\ since' = since /\ pc'[w] = "run"
        /\ \A v \in Workers \ {w} : pc'[v] = pc[v]
    BY <1>2 DEF Spawn, Goto, poolVars, mapVars, PoolInv, TypeOK, Threads
  <2>2. Mapped' /\ (~Initialized' \/ InitDone)
    BY <1>2, MainMoves
  <2>3. ~Initialized'
    BY <1>2 DEF Spawn, Goto, At, Initialized, PoolInv, TypeOK, Threads
  <2> QED
    BY <2>1, <2>2, <2>3 DEF Quiet
<1>3. CASE Spawned \/ InitPick \/ Count(Main)
  <2>1. /\ linking' = linking /\ since' = since
        /\ \A v \in Workers : pc'[v] = pc[v]
    BY <1>3 DEF Spawned, InitPick, Count, Goto, poolVars, mapVars, PoolInv, TypeOK, Threads
  <2>2. Mapped' /\ (~Initialized' \/ InitDone)
    BY <1>3, MainMoves
  <2>3. ~InitDone
    BY <1>3 DEF Spawned, InitPick, Count, InitDone, At
  <2> QED
    BY <2>1, <2>2, <2>3, <1>q DEF Quiet
<1>4. CASE InitDone
  <2>1. /\ linking' = linking /\ since' = since /\ linked' = linked /\ node' = node
        /\ slot' = slot /\ pc[Main] = "init" /\ pc'[Main] = "join"
        /\ \A v \in Workers : pc'[v] = pc[v]
    BY <1>4 DEF InitDone, Goto, At, poolVars, mapVars, PoolInv, TypeOK, Threads
  <2>2. Mapped'
    BY <1>4, MainMoves
  <2>3. Initialized' /\ Served' = Workers
    BY <2>1, <2>2 DEF Initialized, Served, Mapped
  <2>4. linking' = {}
    BY <2>1 DEF Quiet, PoolInv, HoldsInPlace, Threads
  <2>5. ASSUME NEW w \in Workers PROVE pc'[w] # "fill" /\ Newest(w)' # 0
    <3>1. w \in Served
      BY <1>4, <2>1 DEF InitDone, Served
    <3>2. PICK n \in Entries : node[n].key = w
      BY <3>1 DEF Mapped
    <3>3. n \in linked /\ n # 0
      BY <3>2 DEF Entries, PoolInv, TypeOK, Nodes
    <3>4. Newest(w) = n
      BY <3>2, <3>3, UniqueNewest DEF PoolInv
    <3>5. Newest(w)' = Newest(w)
      BY <2>1 DEF Newest
    <3> QED
      BY <2>1, <3>3, <3>4, <3>5 DEF Quiet
  <2> QED
    BY <2>1, <2>2, <2>3, <2>4, <2>5 DEF Quiet, Settled
<1>5. CASE Construct(Main)
  <2>1. linking' = linking /\ since' = since /\ pc' = pc
    BY <1>5 DEF Construct, mapVars
  <2> QED
    BY <1>5, <1>q, <2>1, MainConstructs DEF Quiet, Initialized
<1>6. CASE Subscript(Main)
  <2>1. slot' = slot /\ linking' = {Main}
    BY <1>6, MainSearches
  <2>2. /\ pc' = pc /\ held' = held /\ obj' = obj /\ since' = since /\ node' = node
        /\ linked' = linked /\ toInit' = toInit /\ cur' = cur
    BY <1>6 DEF Subscript, initVars
  <2>3. Apart
    BY <2>1, <2>2 DEF Apart, Objects
  <2> QED
    BY <1>q, <2>1, <2>2, <2>3, ApartMapped DEF Initialized
<1>7. CASE Link(Main)
  <2>1. pc' = pc /\ linking' = linking \ {Main}
    BY <1>7 DEF Link
  <2>2. linking' = {}
    BY <2>1 DEF Quiet
  <2>3. \A t \in Threads : since'[t] = {}
    BY <1>7, <2>2 DEF Link
  <2> QED
    BY <1>7, <2>1, <2>2, <2>3, MainLinks DEF Quiet, Initialized
<1>8. CASE Assign(Main)
  <2>1. /\ linking' = linking /\ since' = since
        /\ \A v \in Workers : pc'[v] = pc[v]
    BY <1>8 DEF Assign, Goto, PoolInv, TypeOK, Threads
  <2> QED
    BY <1>8, <1>q, <2>1, MainAssigns DEF Quiet
<1>9. CASE ClusterFlips \/ UNCHANGED vars
  <2>1. Apart /\ linking' = linking /\ pc' = pc
    BY <1>9 DEF ClusterFlips, vars, poolVars, mapVars, initVars, Apart, Objects
  <2> QED
    BY <1>q, <2>1, ApartMapped DEF Quiet, Initialized, Apart
<1> QED
  BY <1>1, <1>2, <1>3, <1>4, <1>5, <1>6, <1>7, <1>8, <1>9, BeforeCases

-----------------------------------------------------------------------------
(* After Initialize *)

LEMMA AfterStep ==
    ASSUME PoolInv, Quiet, Mapped, Initialized, [Next]_vars
    PROVE  Quiet' /\ Mapped'
<1> USE ThreadsAssumption
<1>1. Settled' /\ UNCHANGED <<linked, node>>
  <2>1. CASE Next
    BY <2>1, SettledStep DEF Quiet
  <2>2. CASE UNCHANGED vars
    BY <2>2 DEF Quiet, Settled, Initialized, Newest, vars, poolVars, mapVars
  <2> QED
    BY <2>1, <2>2
<1>2. Initialized' /\ linking = {} /\ linking' = {}
  BY <1>1 DEF Settled, Quiet
<1>3. slot[Main] = 0 /\ slot'[Main] = 0 /\ held[Main] = 0 /\ held'[Main] = 0
  BY <1>2, InvStep DEF PoolInv, HoldsInPlace, Initialized, Threads
<1>4. ASSUME Objects' = Objects, since' = since, toInit' = toInit PROVE Quiet' /\ Mapped'
  <2>1. Entries' = linked /\ Entries = linked
    BY <1>1, <1>3 DEF Entries, PoolInv, TypeOK, Nodes
  <2>2. Served' = Served
    BY <1>2, <1>4 DEF Served, Initialized
  <2> QED
    BY <1>1, <1>2, <1>3, <1>4, <2>1, <2>2 DEF Quiet, Mapped, Initialized
<1>5. ASSUME NEW t \in Threads, MapStep(t) PROVE Quiet' /\ Mapped'
  <2>1. pc[t] # "fill" /\ t \notin linking
    BY <1>2 DEF Quiet, Settled, Initialized, Threads
  <2>2. Count(t) \/ Subscript(t)
    BY <1>5, <2>1 DEF MapStep, Construct, Link, Assign, At
  <2> QED
    BY <1>4, <2>2 DEF Count, Subscript, poolVars, mapVars, initVars, Objects
<1>6. CASE \E w \in Workers : Spawn(w) \/ StartGet(w) \/ Fetch(w)
  BY <1>4, <1>6 DEF Spawn, StartGet, Fetch, poolVars, mapVars, initVars, Objects, At,
                    Initialized
<1>7. ASSUME NEW w \in Workers, GetBegin(w) \/ GetEnd(w) PROVE Quiet' /\ Mapped'
  BY <1>4, <1>7 DEF GetBegin, GetEnd, poolVars, mapVars, initVars, Objects
<1>8. ASSUME NEW w \in Workers, Aside(w) PROVE Quiet' /\ Mapped'
  BY <1>4, <1>8, AsideApart DEF Apart
<1>9. CASE Spawned \/ InitPick \/ InitDone
  BY <1>9 DEF Spawned, InitPick, InitDone, At, Initialized
<1>10. CASE Join \/ DeleteNode \/ DeleteDone
  <2>1. Objects' = Objects
    BY <1>10, DeleteNodeType DEF Join, DeleteDone, poolVars, Objects, PoolInv
  <2> QED
    BY <1>4, <1>10, <2>1 DEF Join, DeleteNode, DeleteDone, poolVars, mapVars, initVars
<1>11. CASE ClusterFlips \/ UNCHANGED vars
  BY <1>4, <1>11 DEF ClusterFlips, vars, poolVars, mapVars, initVars, Objects
<1> QED
  BY <1>5, <1>6, <1>7, <1>8, <1>9, <1>10, <1>11, NextCases DEF Aside, Terminated

-----------------------------------------------------------------------------
(* The deletions *)

LEMMA DeleteNodeStep ==
    ASSUME PoolInv, Mapped, Deleting, DeleteNode
    PROVE  Deleting'
<1>1. PICK n \in todo :
          /\ todo' = todo \ {n}
          /\ obj' = IF DeletedAt(n) = 0 THEN obj
                    ELSE [obj EXCEPT ![DeletedAt(n)].freed = @ + 1]
  BY DEF DeleteNode
<1>2. /\ pc[Main] = "delete" /\ pc' = pc /\ node' = node /\ linked' = linked
      /\ slot[Main] = 0 /\ n \in linked
  BY DEF DeleteNode, At, mapVars, Deleting, PoolInv, HoldsInPlace, Threads
<1> DEFINE d == node[n].val
           r == [obj[d] EXCEPT !.freed = @ + 1]
<1>3. DeletedAt(n) = d
  BY <1>2, UniqueNewest DEF DeletedAt, PoolInv
<1>4. Entries = linked
  BY <1>2 DEF Entries, PoolInv, TypeOK, Nodes
<1>5. \A m \in linked : /\ node[m].val \in Objects
                        /\ obj[node[m].val].owner = node[m].key
  <2> TAKE m \in linked
  <2>1. m \in Nodes /\ node[m].val # 0
    BY <1>4 DEF PoolInv, TypeOK, Mapped
  <2> QED
    BY <2>1, NodeTypes DEF PoolInv, OwnersMatch
<1>6. obj \in Seq(ObjRec) /\ d \in 1 .. Len(obj)
  BY <1>2, <1>5 DEF PoolInv, TypeOK, ObjRec, Objects
<1>7. r \in ObjRec /\ r.freed = obj[d].freed + 1 /\ obj[d].freed = 0
  BY <1>1, <1>2, <1>6, ElementOfSeq, SetFreed DEF Deleting
<1>8. obj' = [obj EXCEPT ![d] = r]
  BY <1>1, <1>3, <1>6
<1> HIDE DEF d, r
<1>9. \A o \in Objects : obj'[o] = IF o = d THEN r ELSE obj[o]
  BY <1>6, <1>7, <1>8, ExceptFacts DEF Objects
<1>10. \A m \in linked : node[m].val = d => m = n
  BY <1>2, <1>5 DEF Mapped, d
<1>11. \A m \in linked : obj'[node'[m].val].freed = IF m \in todo' THEN 0 ELSE 1
  <2> TAKE m \in linked
  <2>1. CASE m = n
    BY <1>1, <1>2, <1>5, <1>7, <1>9, <2>1 DEF d
  <2>2. CASE m # n
    <3>1. node[m].val # d
      BY <1>10, <2>2
    <3>2. obj'[node'[m].val] = obj[node[m].val]
      BY <1>2, <1>5, <1>9, <3>1
    <3>3. m \in todo' <=> m \in todo
      BY <1>1, <2>2
    <3> QED
      BY <1>2, <3>2, <3>3 DEF Deleting
  <2> QED
    BY <2>1, <2>2
<1> QED
  BY <1>1, <1>2, <1>11 DEF Deleting

LEMMA DeletingStep ==
    ASSUME PoolInv, Mapped, Deleting, [Next]_vars
    PROVE  Deleting'
<1> USE ThreadsAssumption
<1>1. ASSUME pc'[Main] \notin {"delete", "done"} PROVE Deleting'
  BY <1>1 DEF Deleting
<1>2. CASE pc[Main] \in {"delete", "done"}
  <2>1. \/ DeleteNode \/ DeleteDone \/ ClusterFlips \/ UNCHANGED vars
    <3>1. ~MapStep(Main) /\ ~Spawned /\ ~InitPick /\ ~InitDone /\ ~Join
      BY <1>2 DEF MapStep, Count, Construct, Subscript, Link, Assign, Spawned, InitPick,
                  InitDone, Join, At, PoolInv, HoldsInPlace, Threads
    <3> QED
      BY <1>2, <3>1, NoWorkerLeft, NextCases DEF Aside, Threads, Terminated
  <2>2. CASE DeleteNode
    BY <2>2, DeleteNodeStep
  <2>3. CASE DeleteDone
    <3>1. /\ pc[Main] = "delete" /\ todo = {} /\ obj' = obj /\ pc'[Main] = "done"
          /\ held[Main] = 0
      BY <2>3 DEF DeleteDone, At, Goto, poolVars, PoolInv, HoldsInPlace, TypeOK, Threads
    <3>2. ASSUME NEW o \in Objects PROVE obj[o].freed = 1
      <4>1. PICK n \in Entries : node[n].val = o
        BY <3>1 DEF Mapped, Objects
      <4> QED
        BY <3>1, <4>1 DEF Deleting, Entries
    <3> QED
      BY <3>1, <3>2 DEF Deleting, Objects
  <2>4. CASE ClusterFlips \/ UNCHANGED vars
    BY <2>4 DEF ClusterFlips, vars, poolVars, mapVars, timerVars, serverVars, Deleting,
                Objects
  <2> QED
    BY <2>1, <2>2, <2>3, <2>4
<1>3. CASE Join
  <2>1. /\ pc[Main] = "join" /\ pc'[Main] = "delete" /\ todo' = linked
        /\ obj' = obj /\ node' = node /\ linked' = linked /\ slot[Main] = 0
    BY <1>3 DEF Join, At, Goto, poolVars, mapVars, PoolInv, HoldsInPlace, TypeOK, Threads
  <2>2. ASSUME NEW n \in linked PROVE obj[node[n].val].freed = 0
    <3>1. n \in Nodes /\ node[n].val # 0
      BY <2>1 DEF PoolInv, TypeOK, Nodes, Mapped, Entries
    <3>2. node[n].val \in Objects
      BY <3>1, NodeTypes DEF PoolInv
    <3> QED
      BY <2>1, <3>2 DEF PoolInv, DeletedLast
  <2> QED
    BY <2>1, <2>2 DEF Deleting
<1>4. CASE pc[Main] \notin {"delete", "done"} /\ ~Join
  <2> USE DEF At, Goto
  <2>0. pc \in [Threads -> Labels] /\ Main \in Threads /\ Workers \subseteq Threads
    BY DEF PoolInv, TypeOK, Threads
  <2>1. ASSUME NEW t \in Threads, MapStep(t) PROVE pc'[Main] \notin {"delete", "done"}
    BY <1>4, <2>0, <2>1 DEF MapStep, Count, Construct, Subscript, Link, Assign
  <2>2. ASSUME NEW w \in Workers,
               \/ Spawn(w) \/ StartGet(w) \/ Fetch(w) \/ GetBegin(w) \/ GetEnd(w)
        PROVE  pc'[Main] \notin {"delete", "done"}
    BY <1>4, <2>0, <2>2 DEF Spawn, StartGet, Fetch, GetBegin, GetEnd, Release
  <2>3. ASSUME NEW w \in Workers, Aside(w) PROVE pc'[Main] \notin {"delete", "done"}
    BY <1>4, <2>3, AsideApart DEF Apart
  <2>4. ASSUME Spawned \/ InitPick \/ InitDone PROVE pc'[Main] \notin {"delete", "done"}
    BY <1>4, <2>0, <2>4 DEF Spawned, InitPick, InitDone
  <2>5. ~DeleteNode /\ ~DeleteDone
    BY <1>4 DEF DeleteNode, DeleteDone
  <2>6. ASSUME ClusterFlips \/ UNCHANGED vars PROVE pc'[Main] \notin {"delete", "done"}
    BY <1>4, <2>6 DEF ClusterFlips, vars
  <2>7. pc'[Main] \notin {"delete", "done"}
    BY <1>4, <2>1, <2>2, <2>3, <2>4, <2>5, <2>6, NextCases DEF Aside, Terminated
  <2> QED
    BY <1>1, <2>7
<1> QED
  BY <1>2, <1>3, <1>4

LEMMA EarlyStays == PoolInv /\ [Next]_vars /\ early => early'
<1> SUFFICES ASSUME PoolInv, [Next]_vars, early PROVE early'
  OBVIOUS
<1> USE DEF initVars
<1>1. ASSUME NEW t \in Threads, MapStep(t) PROVE early'
  BY <1>1 DEF MapStep, Count, Construct, Subscript, Link, Assign
<1>2. ASSUME NEW w \in Workers,
             \/ Spawn(w) \/ StartGet(w) \/ Fetch(w) \/ GetBegin(w) \/ GetEnd(w)
      PROVE  early'
  BY <1>2 DEF Spawn, StartGet, Fetch, GetBegin, GetEnd
<1>3. ASSUME NEW w \in Workers, Aside(w) PROVE early'
  BY <1>3, AsideApart
<1>4. CASE Spawned \/ InitPick \/ InitDone \/ Join \/ DeleteNode \/ DeleteDone
  BY <1>4 DEF Spawned, InitPick, InitDone, Join, DeleteNode, DeleteDone
<1>5. CASE ClusterFlips \/ UNCHANGED vars
  BY <1>5 DEF ClusterFlips, vars
<1> QED
  BY <1>1, <1>2, <1>3, <1>4, <1>5, NextCases DEF Aside, Terminated

LEMMA CompleteStep == PoolInv /\ CompleteInv /\ [Next]_vars => CompleteInv'
<1> SUFFICES ASSUME PoolInv, CompleteInv, [Next]_vars, ~early'
             PROVE  Quiet' /\ Mapped' /\ Deleting'
  BY DEF CompleteInv
<1>1. Quiet /\ Mapped /\ Deleting
  BY EarlyStays DEF CompleteInv
<1> QED
  BY <1>1, BeforeStep, AfterStep, DeletingStep

-----------------------------------------------------------------------------
(* Objects and workers are as many *)

LEMMA OneForEach ==
    ASSUME PoolInv, Mapped, Initialized
    PROVE  OneObjectEach
<1>0. slot[Main] = 0 /\ held[Main] = 0 /\ 0 \notin linked
  BY DEF Initialized, PoolInv, HoldsInPlace, TypeOK, Nodes, Threads
<1>1. Served = Workers /\ Entries = linked
  BY <1>0 DEF Mapped, Initialized, Served, Entries
<1>2. ASSUME NEW n \in linked
      PROVE  /\ node[n].key \in Workers
             /\ node[n].val # 0 /\ node[n].val \in Objects
             /\ obj[node[n].val].owner = node[n].key
  <2>1. n \in Nodes /\ node[n].val # 0 /\ node[n].key \in Workers
    BY <1>1 DEF PoolInv, TypeOK, Mapped
  <2> QED
    BY <2>1, NodeTypes DEF PoolInv, OwnersMatch
<1>3. \A w \in Workers : \E n \in linked : node[n].key = w
  BY <1>1 DEF Mapped
<1>4. \A o \in Objects : \E n \in linked : node[n].val = o
  BY <1>0, <1>1 DEF Mapped, Objects
<1> DEFINE f == [o \in Objects |-> obj[o].owner]
<1>5. f \in Bijection(Objects, Workers)
  <2>1. f \in [Objects -> Workers]
    BY <1>2, <1>4
  <2>2. \A o, p \in Objects : f[o] = f[p] => o = p
    BY <1>2, <1>4 DEF Mapped
  <2>3. \A w \in Workers : \E o \in Objects : f[o] = w
    BY <1>2, <1>3
  <2> QED
    BY <2>1, <2>2, <2>3 DEF Bijection, Injection, Surjection, IsInjective
<1>6. Len(obj) \in Nat
  BY LenProperties DEF PoolInv, TypeOK
<1>7. IsFiniteSet(Objects) /\ Cardinality(Objects) = Len(obj)
  <2>1. PICK k \in Nat : k = Len(obj)
    BY <1>6
  <2>2. IsFiniteSet(1 .. k) /\ Cardinality(1 .. k) = IF 1 > k THEN 0 ELSE k - 1 + 1
    BY ONLY FS_Interval, k \in Nat, 1 \in Int, k \in Int
  <2>3. Cardinality(1 .. k) = k
    BY ONLY <2>2, k \in Nat
  <2> QED
    BY ONLY <2>1, <2>2, <2>3 DEF Objects
<1>8. Cardinality(Workers) = Cardinality(Objects)
  <2>1. ExistsBijection(Objects, Workers)
    BY ONLY <1>5 DEF ExistsBijection
  <2> QED
    BY ONLY <1>7, <2>1, FS_Bijection
<1>9. \A w \in Workers : \E n \in linked :
          node[n].key = w /\ node[n].val # 0 /\ obj[node[n].val].owner = w
  BY <1>2, <1>3
<1>10. Len(obj) = Cardinality(Workers)
  BY ONLY <1>7, <1>8
<1> QED
  BY ONLY <1>9, <1>10 DEF OneObjectEach

\* If no request came in before Initialize was over, the pool has exactly one
\* object for each worker, reachable under the worker's key, and a clean shutdown
\* deletes each object exactly once, for every number of workers
\* (as_control.hpp:84-91, 104-113).
THEOREM PoolIsComplete == Spec => []PoolComplete
<1>1. PoolInv /\ CompleteInv => PoolComplete
  BY OneForEach DEF CompleteInv, PoolComplete, Deleting, Deleted
<1> QED
  BY <1>1, InitInv, InvStep, InitComplete, CompleteStep, PTL DEF Spec
=============================================================================
