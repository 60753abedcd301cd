------------------------------ MODULE HostList ------------------------------
(***************************************************************************)
(* The first half of AS_OBJECT's constructor: it shuffles as_server_list_, *)
(* the one list of the process, in place, and then adds its servers to the *)
(* configuration of the handle.  AS_CONTROL::Initialize and GetAsObject    *)
(* construct handles on different threads, and nothing locks the list.     *)
(***************************************************************************)
EXTENDS Naturals, Sequences, SequencesExt

CONSTANTS
    Servers,   \* the list as it was read, without duplicates
    Builders,  \* the threads that construct a handle
    MaxBuilt   \* bound: the handles a thread constructs

ASSUME ListAssumption == Servers \in Seq(STRING) /\ IsInjective(Servers)
ASSUME BuiltAssumption == MaxBuilt \in Nat

VARIABLES
    list,   \* as_server_list_
    pc,     \* where each thread is in the constructor, "out" when it is not
    i, j,   \* the elements that random_shuffle swaps
    tmp,    \* the one it has put aside
    hosts,  \* the hosts of each thread's last handle
    built,  \* how many handles each thread has constructed
    shared  \* history: two threads were in the constructor at once

positions == <<i, j, tmp>>
hostsVars == <<list, pc, positions, hosts, built, shared>>

HostsInit ==
    /\ list = Servers
    /\ pc = [t \in Builders |-> "out"]
    /\ i = [t \in Builders |-> 0] /\ j = i /\ tmp = [t \in Builders |-> ""]
    /\ hosts = [t \in Builders |-> << >>]
    /\ built = [t \in Builders |-> 0] /\ shared = FALSE

Goto(t, label) == pc' = [pc EXCEPT ![t] = label]

Construct(t) ==
    /\ pc[t] = "out" /\ built[t] < MaxBuilt
    /\ Goto(t, "shuffle")
    /\ i' = [i EXCEPT ![t] = 2]
    /\ hosts' = [hosts EXCEPT ![t] = << >>]
    /\ shared' = (shared \/ \E u \in Builders \ {t} : pc[u] # "out")
    /\ UNCHANGED <<list, j, tmp, built>>

\* Element i changes places with one of those up to it, in three steps.
PutAside(t) ==
    /\ pc[t] = "shuffle" /\ i[t] <= Len(Servers)
    /\ Goto(t, "swap")
    /\ \E k \in 1 .. i[t] : j' = [j EXCEPT ![t] = k]
    /\ tmp' = [tmp EXCEPT ![t] = list[i[t]]]
    /\ UNCHANGED <<list, i, hosts, built, shared>>

MoveUp(t) ==
    /\ pc[t] = "swap" /\ Goto(t, "putBack")
    /\ list' = [list EXCEPT ![i[t]] = list[j[t]]]
    /\ UNCHANGED <<positions, hosts, built, shared>>

\* Variant: the element put aside is the one that was moved.
MovedAgain(t) == list[j[t]]
Aside(t)      == tmp[t]

PutBack(t) ==
    /\ pc[t] = "putBack" /\ Goto(t, "shuffle")
    /\ list' = [list EXCEPT ![j[t]] = Aside(t)]
    /\ i' = [i EXCEPT ![t] = @ + 1]
    /\ UNCHANGED <<j, tmp, hosts, built, shared>>

Shuffled(t) ==
    /\ pc[t] = "shuffle" /\ i[t] > Len(Servers)
    /\ Goto(t, "add")
    /\ UNCHANGED <<list, positions, hosts, built, shared>>

\* BOOST_FOREACH(string& server, as_server_list)
More(t) == Len(hosts[t]) < Len(list)

AddHost(t) ==
    /\ pc[t] = "add" /\ More(t)
    /\ hosts' = [hosts EXCEPT ![t] = Append(@, list[Len(@) + 1])]
    /\ UNCHANGED <<list, pc, positions, built, shared>>

Built(t) ==
    /\ pc[t] = "add" /\ ~More(t)
    /\ Goto(t, "out")
    /\ i' = [i EXCEPT ![t] = 0] /\ j' = [j EXCEPT ![t] = 0]
    /\ tmp' = [tmp EXCEPT ![t] = ""]
    /\ built' = [built EXCEPT ![t] = @ + 1]
    /\ UNCHANGED <<list, hosts, shared>>

Build(t) == Construct(t) \/ PutAside(t) \/ MoveUp(t) \/ PutBack(t)
            \/ Shuffled(t) \/ AddHost(t) \/ Built(t)

HostsNext == \E t \in Builders : Build(t)

HostsSpec == HostsInit /\ [][HostsNext]_hostsVars

-----------------------------------------------------------------------------
(* Properties *)

EachOnce(s) == Len(s) = Len(Servers) /\ ToSet(s) = ToSet(Servers)

\* As long as constructors have taken turns, the list has every server once, and
\* so has every handle.  Constructors that shuffle the list at once may lose
\* servers of it for good, but never its length, and they invent none: a handle
\* has as many hosts as there are servers, and each is one (as_object.hpp:65-70).
HostsAreServers ==
    /\ Len(list) = Len(Servers)
    /\ (\A t \in Builders : pc[t] = "out") /\ ~shared => EachOnce(list)
    /\ \A t \in Builders :
          /\ ToSet(hosts[t]) \subseteq ToSet(Servers)
          /\ pc[t] = "out" /\ built[t] > 0 =>
                IF shared THEN Len(hosts[t]) = Len(Servers) ELSE EachOnce(hosts[t])
=============================================================================
