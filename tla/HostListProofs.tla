---------------------------- MODULE HostListProofs ----------------------------
(***************************************************************************)
(* What constructors make of the one list of servers, for a list of any    *)
(* length and any number of threads and handles; and where that list comes *)
(* from: what the reader of the configuration makes of any file that the   *)
(* writer of IniFile can write, for names, hosts and buffers of any size.  *)
(***************************************************************************)
EXTENDS IniFile, HostList, SequenceTheorems, WellFoundedInduction, TLAPS

Hosts == ToSet(Servers)
N     == Len(Servers)

\* What a thread keeps, by its place p in the constructor: the elements a and b
\* to swap, the one m put aside, its hosts h and the handles c it has constructed.
Place(p, a, b, m, h, c) ==
    /\ p \in {"shuffle", "swap", "putBack"} => a # 0 /\ h = << >>
    /\ p \in {"swap", "putBack"} => a <= N /\ b \in 1 .. N /\ m \in Hosts
    /\ Len(h) <= N
    /\ p = "out" /\ c > 0 => Len(h) = N

Places == {"out", "shuffle", "swap", "putBack", "add"}

\* The type invariant: no constructor leaves the list or changes its length
\* (as_object.hpp:65-70).
HostTypes ==
    /\ list \in Seq(Hosts) /\ Len(list) = N
    /\ pc \in [Builders -> Places]
    /\ i \in [Builders -> Nat] /\ j \in [Builders -> Nat]
    /\ tmp \in [Builders -> Hosts \cup {""}]
    /\ hosts \in [Builders -> Seq(Hosts)]
    /\ built \in [Builders -> Nat] /\ shared \in BOOLEAN
    /\ \A t \in Builders : Place(pc[t], i[t], j[t], tmp[t], hosts[t], built[t])

\* What a thread that is in the constructor alone has made of the list.
Alone(t) ==
    /\ pc[t] # "putBack" => EachOnce(list)
    /\ pc[t] = "swap" => tmp[t] = list[i[t]]
    /\ pc[t] = "putBack" => EachOnce([list EXCEPT ![j[t]] = tmp[t]])
    /\ pc[t] = "add" => \A k \in 1 .. Len(hosts[t]) : hosts[t][k] = list[k]

\* Constructors have taken turns (as_object.hpp:65-70).
Turns ==
    ~shared =>
        /\ \A t, u \in Builders : t # u => pc[t] = "out" \/ pc[u] = "out"
        /\ \A t \in Builders : pc[t] # "out" => Alone(t)
        /\ (\A t \in Builders : pc[t] = "out") => EachOnce(list)
        /\ \A t \in Builders : pc[t] = "out" /\ built[t] > 0 => EachOnce(hosts[t])

-----------------------------------------------------------------------------
(* Sequences of servers *)

LEMMA ServersAreHosts == N \in Nat /\ Servers \in Seq(Hosts) /\ DOMAIN Servers = 1 .. N
<1>1. N \in Nat /\ Servers \in [1 .. N -> STRING]
  BY ListAssumption, LenProperties DEF N
<1>2. \A k \in 1 .. N : Servers[k] \in Hosts  BY <1>1 DEF Hosts, ToSet
<1>3. Servers \in [1 .. N -> Hosts]  BY <1>1, <1>2
<1>4. Servers \in Seq(Hosts)  BY <1>1, <1>3, SeqDef
<1> QED BY <1>1, <1>4

LEMMA SetOf ==
    ASSUME NEW s \in Seq(Hosts)
    PROVE  /\ Len(s) \in Nat /\ DOMAIN s = 1 .. Len(s)
           /\ ToSet(s) = {s[k] : k \in 1 .. Len(s)}
           /\ ToSet(s) \subseteq Hosts
           /\ \A k \in 1 .. Len(s) : s[k] \in Hosts
<1>1. Len(s) \in Nat /\ DOMAIN s = 1 .. Len(s) /\ s \in [1 .. Len(s) -> Hosts]
  BY LenProperties
<1> QED BY <1>1 DEF ToSet

LEMMA ServersEachOnce == EachOnce(Servers)
BY DEF EachOnce

\* A swap of two elements.
LEMMA SwapKeepsEachOnce ==
    ASSUME NEW s \in Seq(Hosts), NEW a \in 1 .. Len(s), NEW b \in 1 .. Len(s),
           EachOnce(s)
    PROVE  EachOnce([[s EXCEPT ![a] = s[b]] EXCEPT ![b] = s[a]])
<1> DEFINE m == [s EXCEPT ![a] = s[b]]
           r == [m EXCEPT ![b] = s[a]]
           D == 1 .. Len(s)
<1>1. s[a] \in Hosts /\ s[b] \in Hosts /\ ToSet(s) = {s[k] : k \in D}  BY SetOf
<1>2. /\ m \in Seq(Hosts) /\ Len(m) = Len(s)
      /\ \A k \in D : m[k] = IF k = a THEN s[b] ELSE s[k]
  BY <1>1, ExceptSeq
<1> HIDE DEF m
<1>3. /\ r \in Seq(Hosts) /\ Len(r) = Len(s)
      /\ \A k \in D : r[k] = IF k = b THEN s[a] ELSE m[k]
  BY <1>1, <1>2, ExceptSeq
<1> HIDE DEF r
<1>4. \A k \in D : r[k] = IF k = b THEN s[a] ELSE IF k = a THEN s[b] ELSE s[k]
  BY <1>2, <1>3
<1>5. ToSet(r) = {r[k] : k \in D}  BY <1>3, SetOf
<1>6. \A k \in D : r[k] \in {s[q] : q \in D}  BY <1>4
<1>7. \A k \in D : s[k] \in {r[q] : q \in D}
  <2> SUFFICES ASSUME NEW k \in D PROVE \E q \in D : r[q] = s[k]  OBVIOUS
  <2>1. CASE k = a  BY <2>1, <1>4
  <2>2. CASE k = b  BY <2>2, <1>4
  <2>3. CASE k # a /\ k # b  BY <2>3, <1>4
  <2> QED BY <2>1, <2>2, <2>3
<1>8. ToSet(r) = ToSet(s)  BY <1>1, <1>5, <1>6, <1>7
<1>9. EachOnce(r)  BY <1>3, <1>8 DEF EachOnce
<1> QED BY <1>9 DEF r, m

\* A copy of the list holds what the list holds.
LEMMA CopyIsEachOnce ==
    ASSUME NEW s \in Seq(Hosts), NEW r \in Seq(Hosts), EachOnce(s),
           Len(r) = Len(s), \A k \in 1 .. Len(r) : r[k] = s[k]
    PROVE  EachOnce(r)
BY SeqEqual

-----------------------------------------------------------------------------
(* Types *)

LEMMA HostTypesInit == HostsInit => HostTypes
<1> SUFFICES ASSUME HostsInit PROVE HostTypes  OBVIOUS
<1>1. list \in Seq(Hosts) /\ Len(list) = N  BY ServersAreHosts DEF HostsInit, N
<1>2. pc \in [Builders -> Places]  BY DEF HostsInit, Places
<1>3. i \in [Builders -> Nat] /\ j \in [Builders -> Nat]  BY DEF HostsInit
<1>4. tmp \in [Builders -> Hosts \cup {""}]  BY DEF HostsInit
<1>5. << >> \in Seq(Hosts) /\ Len(<< >>) = 0  BY EmptySeq
<1>6. hosts \in [Builders -> Seq(Hosts)]  BY <1>5 DEF HostsInit
<1>7. built \in [Builders -> Nat] /\ shared \in BOOLEAN  BY DEF HostsInit
<1>8. ASSUME NEW t \in Builders
      PROVE  Place(pc[t], i[t], j[t], tmp[t], hosts[t], built[t])
  <2>1. pc[t] = "out" /\ built[t] = 0 /\ hosts[t] = << >>  BY DEF HostsInit
  <2>2. Len(hosts[t]) <= N /\ ~(built[t] > 0)  BY <2>1, <1>5, ServersAreHosts
  <2> QED BY <2>1, <2>2 DEF Place
<1> QED BY <1>1, <1>2, <1>3, <1>4, <1>6, <1>7, <1>8 DEF HostTypes

\* What the type invariant says of one thread.
LEMMA Facts ==
    ASSUME HostTypes, NEW t \in Builders
    PROVE  /\ \A k \in 1 .. N : list[k] \in Hosts
           /\ i[t] \in Nat /\ j[t] \in Nat /\ tmp[t] \in Hosts \cup {""}
           /\ hosts[t] \in Seq(Hosts) /\ Len(hosts[t]) \in Nat /\ Len(hosts[t]) <= N
           /\ built[t] \in Nat /\ shared \in BOOLEAN
           /\ Place(pc[t], i[t], j[t], tmp[t], hosts[t], built[t])
<1>1. list \in Seq(Hosts) /\ Len(list) = N  BY DEF HostTypes
<1>2. \A k \in 1 .. N : list[k] \in Hosts  BY <1>1, SetOf
<1>3. /\ i \in [Builders -> Nat]
      /\ j \in [Builders -> Nat] /\ tmp \in [Builders -> Hosts \cup {""}]
      /\ hosts \in [Builders -> Seq(Hosts)]
      /\ built \in [Builders -> Nat] /\ shared \in BOOLEAN
      /\ Place(pc[t], i[t], j[t], tmp[t], hosts[t], built[t])
  BY DEF HostTypes
<1>4. hosts[t] \in Seq(Hosts)  BY <1>3
<1>5. Len(hosts[t]) \in Nat  BY <1>4, SetOf
<1>6. Len(hosts[t]) <= N  BY <1>3 DEF Place
<1>7. i[t] \in Nat /\ j[t] \in Nat /\ tmp[t] \in Hosts \cup {""} /\ built[t] \in Nat
  BY <1>3
<1> QED BY <1>2, <1>3, <1>4, <1>5, <1>6, <1>7

LEMMA ListFacts == HostTypes => list \in Seq(Hosts) /\ Len(list) = N /\ N \in Nat
BY ServersAreHosts DEF HostTypes

\* What a step of a thread leaves alone, it leaves alone for that thread too.
LEMMA Same ==
    ASSUME HostTypes, NEW t \in Builders
    PROVE  /\ i = [i EXCEPT ![t] = i[t]] /\ j = [j EXCEPT ![t] = j[t]]
           /\ tmp = [tmp EXCEPT ![t] = tmp[t]] /\ hosts = [hosts EXCEPT ![t] = hosts[t]]
           /\ built = [built EXCEPT ![t] = built[t]] /\ pc = [pc EXCEPT ![t] = pc[t]]
BY DEF HostTypes

LEMMA Domains ==
    HostTypes => /\ DOMAIN pc = Builders /\ DOMAIN i = Builders /\ DOMAIN j = Builders
                 /\ DOMAIN tmp = Builders /\ DOMAIN hosts = Builders
                 /\ DOMAIN built = Builders
BY DEF HostTypes

\* One element of the list is written.
LEMMA ListWritten ==
    ASSUME HostTypes, NEW x \in 1 .. N, NEW e \in Hosts, list' = [list EXCEPT ![x] = e]
    PROVE  list' \in Seq(Hosts) /\ Len(list') = N
<1>1. list \in Seq(Hosts) /\ Len(list) = N  BY ListFacts
<1>2. x \in 1 .. Len(list)  BY <1>1
<1> QED BY ONLY <1>1, <1>2, e \in Hosts, list' = [list EXCEPT ![x] = e], ExceptSeq

\* A step of one thread, by what it makes of its own place.
LEMMA TypesAfter ==
    ASSUME HostTypes, NEW t \in Builders,
           NEW p \in Places, NEW a \in Nat, NEW b \in Nat, NEW m \in Hosts \cup {""},
           NEW h \in Seq(Hosts), NEW c \in Nat,
           list' \in Seq(Hosts), Len(list') = N,
           pc' = [pc EXCEPT ![t] = p], i' = [i EXCEPT ![t] = a],
           j' = [j EXCEPT ![t] = b], tmp' = [tmp EXCEPT ![t] = m],
           hosts' = [hosts EXCEPT ![t] = h], built' = [built EXCEPT ![t] = c],
           shared' \in BOOLEAN, Place(p, a, b, m, h, c)
    PROVE  HostTypes'
<1>1. /\ pc \in [Builders -> Places] /\ i \in [Builders -> Nat]
      /\ j \in [Builders -> Nat] /\ tmp \in [Builders -> Hosts \cup {""}]
      /\ hosts \in [Builders -> Seq(Hosts)] /\ built \in [Builders -> Nat]
      /\ \A u \in Builders : Place(pc[u], i[u], j[u], tmp[u], hosts[u], built[u])
  BY DEF HostTypes
<1>2. pc' \in [Builders -> Places]  BY <1>1
<1>3. i' \in [Builders -> Nat] /\ j' \in [Builders -> Nat]  BY <1>1
<1>4. tmp' \in [Builders -> Hosts \cup {""}]  BY <1>1
<1>5. hosts' \in [Builders -> Seq(Hosts)]  BY <1>1
<1>6. built' \in [Builders -> Nat]  BY <1>1
<1>7. ASSUME NEW u \in Builders
      PROVE  Place(pc'[u], i'[u], j'[u], tmp'[u], hosts'[u], built'[u])
  <2>1. CASE u = t
    <3>1. /\ pc'[u] = p /\ i'[u] = a /\ j'[u] = b
          /\ tmp'[u] = m /\ hosts'[u] = h /\ built'[u] = c
      BY <1>1, <2>1
    <3> QED BY <3>1
  <2>2. CASE u # t
    <3>1. /\ pc'[u] = pc[u] /\ i'[u] = i[u] /\ j'[u] = j[u]
          /\ tmp'[u] = tmp[u] /\ hosts'[u] = hosts[u] /\ built'[u] = built[u]
      BY <1>1, <2>2
    <3> QED BY <3>1, <1>1
  <2> QED BY <2>1, <2>2
<1>8. (\A t_1 \in Builders : Place(pc[t_1], i[t_1], j[t_1], tmp[t_1], hosts[t_1], built[t_1]))'
  BY <1>7 DEF Place, N, Hosts
<1> QED BY <1>2, <1>3, <1>4, <1>5, <1>6, <1>8 DEF HostTypes, N, Hosts

LEMMA HostTypesConstruct ==
    ASSUME HostTypes, NEW t \in Builders, Construct(t) PROVE HostTypes'
<1>1. /\ list' = list /\ j' = j /\ tmp' = tmp /\ built' = built
      /\ pc' = [pc EXCEPT ![t] = "shuffle"] /\ i' = [i EXCEPT ![t] = 2]
      /\ hosts' = [hosts EXCEPT ![t] = << >>]
      /\ shared' \in BOOLEAN
  BY DEF Construct, Goto
<1>2. << >> \in Seq(Hosts) /\ Len(<< >>) = 0  BY EmptySeq
<1>3. N \in Nat /\ list' \in Seq(Hosts) /\ Len(list') = N  BY <1>1, ListFacts
<1>4. Place("shuffle", 2, j[t], tmp[t], << >>, built[t])
  BY <1>2, <1>3 DEF Place
<1>5. "shuffle" \in Places /\ 2 \in Nat  BY DEF Places
<1>6. j[t] \in Nat /\ tmp[t] \in Hosts \cup {""} /\ built[t] \in Nat  BY Facts
<1>7. /\ j' = [j EXCEPT ![t] = j[t]] /\ tmp' = [tmp EXCEPT ![t] = tmp[t]]
      /\ built' = [built EXCEPT ![t] = built[t]]
  BY <1>1, Same
<1>8. pc' = [pc EXCEPT ![t] = "shuffle"] /\ i' = [i EXCEPT ![t] = 2]  BY <1>1
<1>9. hosts' = [hosts EXCEPT ![t] = << >>] /\ shared' \in BOOLEAN  BY <1>1
<1> QED BY ONLY HostTypes, t \in Builders, <1>2, <1>3, <1>4, <1>5, <1>6, <1>7, <1>8, <1>9,
     TypesAfter

LEMMA HostTypesPutAside ==
    ASSUME HostTypes, NEW t \in Builders, PutAside(t)
    PROVE  HostTypes' /\ i[t] \in 1 .. N /\ j'[t] \in 1 .. N
           /\ tmp'[t] = list[i[t]]
<1>1. /\ pc[t] = "shuffle" /\ i[t] <= Len(Servers)
      /\ \E k \in 1 .. i[t] : j' = [j EXCEPT ![t] = k]
  BY DEF PutAside
<1>2. /\ list' = list /\ i' = i /\ hosts' = hosts /\ built' = built /\ shared' = shared
      /\ pc' = [pc EXCEPT ![t] = "swap"] /\ tmp' = [tmp EXCEPT ![t] = list[i[t]]]
  BY DEF PutAside, Goto
<1>3. PICK k \in 1 .. i[t] : j' = [j EXCEPT ![t] = k]  BY <1>1
<1>4. i[t] \in Nat /\ i[t] <= N /\ N \in Nat  BY <1>1, Facts, ListFacts DEF N
<1>5. i[t] # 0 /\ hosts[t] = << >>  BY <1>1, Facts DEF Place
<1>6. i[t] \in 1 .. N  BY <1>4, <1>5
<1>7. k \in 1 .. N /\ k \in Nat  BY <1>3, <1>4
<1>8. list[i[t]] \in Hosts /\ Len(hosts[t]) <= N  BY <1>6, Facts
<1>9. Place("swap", i[t], k, list[i[t]], hosts[t], built[t])
  BY <1>4, <1>5, <1>7, <1>8 DEF Place
<1>10. "swap" \in Places /\ list[i[t]] \in Hosts \cup {""}  BY <1>8 DEF Places
<1>11. list' \in Seq(Hosts) /\ Len(list') = N  BY <1>2, ListFacts
<1>12. hosts[t] \in Seq(Hosts) /\ built[t] \in Nat /\ shared' \in BOOLEAN
  BY <1>2, Facts
<1>13. /\ i' = [i EXCEPT ![t] = i[t]] /\ hosts' = [hosts EXCEPT ![t] = hosts[t]]
       /\ built' = [built EXCEPT ![t] = built[t]]
  BY <1>2, Same
<1>14. pc' = [pc EXCEPT ![t] = "swap"] /\ tmp' = [tmp EXCEPT ![t] = list[i[t]]]
  BY <1>2
<1>15. i[t] \in Nat /\ j' = [j EXCEPT ![t] = k]  BY <1>3, <1>4
<1>16. HostTypes'
  BY ONLY HostTypes, t \in Builders, <1>7, <1>9, <1>10, <1>11, <1>12,
     <1>13, <1>14, <1>15, TypesAfter
<1>17. j'[t] = k /\ tmp'[t] = list[i[t]]  BY <1>2, <1>3, Domains
<1> QED BY <1>6, <1>7, <1>16, <1>17

LEMMA HostTypesMoveUp ==
    ASSUME HostTypes, NEW t \in Builders, MoveUp(t)
    PROVE  HostTypes' /\ i[t] \in 1 .. N /\ j[t] \in 1 .. N
<1>1. pc[t] = "swap" /\ list' = [list EXCEPT ![i[t]] = list[j[t]]]  BY DEF MoveUp
<1>2. /\ pc' = [pc EXCEPT ![t] = "putBack"] /\ i' = i /\ j' = j /\ tmp' = tmp
      /\ hosts' = hosts /\ built' = built /\ shared' = shared
  BY DEF MoveUp, Goto, positions
<1>3. /\ i[t] # 0 /\ i[t] <= N /\ hosts[t] = << >>
      /\ j[t] \in 1 .. N /\ tmp[t] \in Hosts
  BY <1>1, Facts DEF Place
<1>4. i[t] \in Nat /\ N \in Nat  BY Facts, ListFacts
<1>5. i[t] \in 1 .. N  BY <1>3, <1>4
<1>6. list[j[t]] \in Hosts  BY <1>3, Facts
<1>7. list' \in Seq(Hosts) /\ Len(list') = N  BY <1>1, <1>5, <1>6, ListWritten
<1>8. Len(hosts[t]) <= N  BY Facts
<1>9. Place("putBack", i[t], j[t], tmp[t], hosts[t], built[t])
  BY <1>3, <1>8 DEF Place
<1>10. "putBack" \in Places  BY DEF Places
<1>11. /\ i[t] \in Nat /\ j[t] \in Nat /\ tmp[t] \in Hosts \cup {""}
       /\ hosts[t] \in Seq(Hosts) /\ built[t] \in Nat /\ shared' \in BOOLEAN
  BY <1>2, Facts
<1>12. /\ i' = [i EXCEPT ![t] = i[t]] /\ j' = [j EXCEPT ![t] = j[t]]
       /\ tmp' = [tmp EXCEPT ![t] = tmp[t]] /\ hosts' = [hosts EXCEPT ![t] = hosts[t]]
       /\ built' = [built EXCEPT ![t] = built[t]]
  BY <1>2, Same
<1>13. pc' = [pc EXCEPT ![t] = "putBack"]  BY <1>2
<1>14. HostTypes'
  BY ONLY HostTypes, t \in Builders, <1>7, <1>9, <1>10, <1>11, <1>12, <1>13, TypesAfter
<1> QED BY <1>3, <1>5, <1>14

LEMMA HostTypesPutBack ==
    ASSUME HostTypes, NEW t \in Builders, PutBack(t) PROVE HostTypes'
<1>1. pc[t] = "putBack" /\ list' = [list EXCEPT ![j[t]] = tmp[t]]
  BY DEF PutBack, Aside
<1>2. /\ pc' = [pc EXCEPT ![t] = "shuffle"]
      /\ i' = [i EXCEPT ![t] = i[t] + 1] /\ j' = j /\ tmp' = tmp
      /\ hosts' = hosts /\ built' = built /\ shared' = shared
  BY DEF PutBack, Goto
<1>3. hosts[t] = << >> /\ j[t] \in 1 .. N /\ tmp[t] \in Hosts
  BY <1>1, Facts DEF Place
<1>4. list' \in Seq(Hosts) /\ Len(list') = N  BY <1>1, <1>3, ListWritten
<1>5. i[t] \in Nat /\ Len(hosts[t]) <= N  BY Facts
<1>6. i[t] + 1 \in Nat /\ i[t] + 1 # 0  BY ONLY <1>5
<1>7. Place("shuffle", i[t] + 1, j[t], tmp[t], hosts[t], built[t])
  BY <1>3, <1>5, <1>6 DEF Place
<1>8. "shuffle" \in Places  BY DEF Places
<1>9. /\ j[t] \in Nat /\ tmp[t] \in Hosts \cup {""}
      /\ hosts[t] \in Seq(Hosts) /\ built[t] \in Nat /\ shared' \in BOOLEAN
  BY <1>2, Facts
<1>10. /\ j' = [j EXCEPT ![t] = j[t]] /\ tmp' = [tmp EXCEPT ![t] = tmp[t]]
       /\ hosts' = [hosts EXCEPT ![t] = hosts[t]]
       /\ built' = [built EXCEPT ![t] = built[t]]
  BY <1>2, Same
<1>11. pc' = [pc EXCEPT ![t] = "shuffle"] /\ i' = [i EXCEPT ![t] = i[t] + 1]  BY <1>2
<1> QED BY ONLY HostTypes, t \in Builders, <1>4, <1>6, <1>7, <1>8, <1>9, <1>10, <1>11,
           TypesAfter

LEMMA HostTypesShuffled ==
    ASSUME HostTypes, NEW t \in Builders, Shuffled(t) PROVE HostTypes'
<1>1. /\ pc' = [pc EXCEPT ![t] = "add"] /\ list' = list
      /\ i' = i /\ j' = j /\ tmp' = tmp
      /\ hosts' = hosts /\ built' = built /\ shared' = shared
  BY DEF Shuffled, Goto, positions
<1>2. list' \in Seq(Hosts) /\ Len(list') = N  BY <1>1, ListFacts
<1>3. Len(hosts[t]) <= N  BY Facts
<1>4. Place("add", i[t], j[t], tmp[t], hosts[t], built[t])  BY <1>3 DEF Place
<1>5. "add" \in Places  BY DEF Places
<1>6. /\ i[t] \in Nat /\ j[t] \in Nat /\ tmp[t] \in Hosts \cup {""}
      /\ hosts[t] \in Seq(Hosts) /\ built[t] \in Nat /\ shared' \in BOOLEAN
  BY <1>1, Facts
<1>7. /\ i' = [i EXCEPT ![t] = i[t]] /\ j' = [j EXCEPT ![t] = j[t]]
      /\ tmp' = [tmp EXCEPT ![t] = tmp[t]] /\ hosts' = [hosts EXCEPT ![t] = hosts[t]]
      /\ built' = [built EXCEPT ![t] = built[t]]
  BY <1>1, Same
<1>8. pc' = [pc EXCEPT ![t] = "add"]  BY <1>1
<1> QED BY ONLY HostTypes, t \in Builders, <1>2, <1>4, <1>5, <1>6, <1>7, <1>8, TypesAfter

LEMMA HostTypesAddHost ==
    ASSUME HostTypes, NEW t \in Builders, AddHost(t)
    PROVE  /\ HostTypes'
           /\ Len(hosts'[t]) = Len(hosts[t]) + 1 /\ Len(hosts[t]) + 1 \in 1 .. N
           /\ \A k \in 1 .. Len(hosts[t]) : hosts'[t][k] = hosts[t][k]
           /\ hosts'[t][Len(hosts[t]) + 1] = list[Len(hosts[t]) + 1]
<1> DEFINE h == hosts[t]
           e == list[Len(h) + 1]
<1>1. /\ list' = list /\ pc' = pc /\ i' = i /\ j' = j /\ tmp' = tmp
      /\ built' = built /\ shared' = shared /\ pc[t] = "add"
  BY DEF AddHost, positions
<1>2. Len(h) < Len(list) /\ hosts' = [hosts EXCEPT ![t] = Append(h, e)]
  BY DEF AddHost, More
<1>3. N \in Nat /\ Len(list) = N /\ Len(h) \in Nat  BY Facts, ListFacts
<1>4. h \in Seq(Hosts)  BY Facts
<1> HIDE DEF e, h
<1>5. Len(h) + 1 \in 1 .. N  BY ONLY <1>2, <1>3
<1>6. e \in Hosts  BY <1>5, Facts DEF e
<1>7. /\ Append(h, e) \in Seq(Hosts) /\ Len(Append(h, e)) = Len(h) + 1
      /\ \A k \in 1 .. Len(h) : Append(h, e)[k] = h[k]
      /\ Append(h, e)[Len(h) + 1] = e
  BY ONLY <1>4, <1>6, AppendProperties
<1>8. Len(Append(h, e)) <= N  BY ONLY <1>3, <1>5, <1>7
<1>9. Place("add", i[t], j[t], tmp[t], Append(h, e), built[t])  BY ONLY <1>8 DEF Place
<1>10. pc[t] \in Places /\ pc[t] = "add"  BY <1>1 DEF Places
<1>11. /\ i[t] \in Nat /\ j[t] \in Nat /\ tmp[t] \in Hosts \cup {""}
       /\ built[t] \in Nat /\ shared' \in BOOLEAN
  BY <1>1, Facts
<1>12. /\ pc' = [pc EXCEPT ![t] = pc[t]]
       /\ i' = [i EXCEPT ![t] = i[t]] /\ j' = [j EXCEPT ![t] = j[t]]
       /\ tmp' = [tmp EXCEPT ![t] = tmp[t]] /\ built' = [built EXCEPT ![t] = built[t]]
  BY <1>1, Same
<1>13. list' \in Seq(Hosts) /\ Len(list') = N  BY <1>1, ListFacts
<1>14. Place(pc[t], i[t], j[t], tmp[t], Append(h, e), built[t])  BY <1>9, <1>10
<1>15. /\ Append(h, e) \in Seq(Hosts) /\ hosts' = [hosts EXCEPT ![t] = Append(h, e)]
  BY <1>2, <1>7
<1>16. HostTypes'
  BY ONLY HostTypes, t \in Builders, <1>10, <1>11, <1>12, <1>13, <1>14, <1>15, TypesAfter
<1>17. hosts'[t] = Append(h, e)  BY <1>2, Domains
<1> QED BY <1>5, <1>7, <1>16, <1>17 DEF e, h

LEMMA HostTypesBuilt ==
    ASSUME HostTypes, NEW t \in Builders, Built(t)
    PROVE  HostTypes' /\ Len(hosts[t]) = N
<1>1. ~(Len(hosts[t]) < Len(list))  BY DEF Built, More
<1>2. /\ list' = list /\ hosts' = hosts /\ shared' = shared
      /\ pc' = [pc EXCEPT ![t] = "out"] /\ i' = [i EXCEPT ![t] = 0]
      /\ j' = [j EXCEPT ![t] = 0] /\ tmp' = [tmp EXCEPT ![t] = ""]
      /\ built' = [built EXCEPT ![t] = built[t] + 1]
  BY DEF Built, Goto
<1>3. Len(list) = N /\ N \in Nat /\ Len(hosts[t]) \in Nat /\ Len(hosts[t]) <= N
  BY Facts, ListFacts
<1>4. Len(hosts[t]) = N  BY ONLY <1>1, <1>3
<1>5. Place("out", 0, 0, "", hosts[t], built[t] + 1)  BY ONLY <1>3, <1>4 DEF Place
<1>6. built[t] \in Nat /\ hosts[t] \in Seq(Hosts) /\ shared' \in BOOLEAN
  BY <1>2, Facts
<1>7. "out" \in Places /\ 0 \in Nat /\ built[t] + 1 \in Nat /\ "" \in Hosts \cup {""}
  BY <1>6 DEF Places
<1>8. hosts' = [hosts EXCEPT ![t] = hosts[t]]  BY <1>2, Same
<1>9. list' \in Seq(Hosts) /\ Len(list') = N  BY <1>2, ListFacts
<1>10. HostTypes'
  BY ONLY HostTypes, t \in Builders, <1>2, <1>5, <1>6, <1>7, <1>8, <1>9, TypesAfter
<1> QED BY <1>4, <1>10

LEMMA HostTypesStep == HostTypes /\ [HostsNext]_hostsVars => HostTypes'
<1> SUFFICES ASSUME HostTypes, [HostsNext]_hostsVars PROVE HostTypes'  OBVIOUS
<1>1. CASE UNCHANGED hostsVars
  BY <1>1 DEF hostsVars, positions, HostTypes, Place, N, Hosts
<1>2. ASSUME NEW t \in Builders, Build(t) PROVE HostTypes'
  BY <1>2, HostTypesConstruct, HostTypesPutAside, HostTypesMoveUp, HostTypesPutBack,
     HostTypesShuffled, HostTypesAddHost, HostTypesBuilt DEF Build
<1> QED BY <1>1, <1>2 DEF HostsNext

\* The constructors keep the types of the list, of what they swap and of the
\* hosts they add, whether or not they take turns (as_object.hpp:65-70).
THEOREM HostTypesHold == HostsSpec => []HostTypes
BY HostTypesInit, HostTypesStep, PTL DEF HostsSpec

-----------------------------------------------------------------------------
(* Turns *)

LEMMA TurnsInit == HostsInit => Turns
<1> SUFFICES ASSUME HostsInit PROVE Turns  OBVIOUS
<1>1. EachOnce(list)  BY ServersEachOnce DEF HostsInit
<1>2. \A t \in Builders : pc[t] = "out" /\ built[t] = 0  BY DEF HostsInit
<1> QED BY <1>1, <1>2 DEF Turns

\* As long as threads take turns, the one in the constructor is there alone.
LEMMA InTurn ==
    ASSUME Turns, ~shared, NEW t \in Builders, pc[t] # "out"
    PROVE  Alone(t) /\ \A u \in Builders : u # t => pc[u] = "out"
BY DEF Turns

\* A step of the one thread that may be in the constructor.
LEMMA TurnsAfter ==
    ASSUME Turns, NEW t \in Builders,
           ~shared' => ~shared /\ \A u \in Builders : u # t => pc[u] = "out",
           \A u \in Builders : u # t => /\ pc'[u] = pc[u] /\ hosts'[u] = hosts[u]
                                        /\ built'[u] = built[u],
           ~shared' /\ pc'[t] # "out" => Alone(t)',
           ~shared' /\ pc'[t] = "out" => EachOnce(list)',
           ~shared' /\ pc'[t] = "out" /\ built'[t] > 0 => EachOnce(hosts[t])'
    PROVE  Turns'
<1> SUFFICES ASSUME ~shared'
             PROVE  /\ \A u, v \in Builders : u # v => pc'[u] = "out" \/ pc'[v] = "out"
                    /\ \A u \in Builders : pc'[u] # "out" => Alone(u)'
                    /\ (\A u \in Builders : pc'[u] = "out") => EachOnce(list)'
                    /\ \A u \in Builders : pc'[u] = "out" /\ built'[u] > 0 =>
                          EachOnce(hosts[u])'
  BY DEF Turns
<1>1. ~shared /\ \A u \in Builders : u # t => pc[u] = "out"  OBVIOUS
<1>2. \A u \in Builders : u # t => pc'[u] = "out"  BY <1>1
<1>3. ASSUME NEW u \in Builders, pc'[u] # "out" PROVE Alone(u)'
  <2>1. u = t  BY <1>2, <1>3
  <2> QED BY <2>1, <1>3
<1>4. ASSUME NEW u \in Builders, pc'[u] = "out", built'[u] > 0 PROVE EachOnce(hosts[u])'
  <2>1. CASE u = t  BY <1>4, <2>1
  <2>2. CASE u # t
    <3>1. pc[u] = "out" /\ built[u] > 0 /\ hosts'[u] = hosts[u]  BY <1>4, <2>2
    <3>2. EachOnce(hosts[u])  BY <1>1, <3>1 DEF Turns
    <3> QED BY <3>1, <3>2 DEF EachOnce
  <2> QED BY <2>1, <2>2
<1> QED BY <1>2, <1>3, <1>4

LEMMA TurnsConstruct ==
    ASSUME HostTypes, Turns, NEW t \in Builders, Construct(t) PROVE Turns'
<1>1. /\ pc[t] = "out" /\ list' = list /\ built' = built
      /\ pc' = [pc EXCEPT ![t] = "shuffle"]
      /\ hosts' = [hosts EXCEPT ![t] = << >>]
      /\ shared' = (shared \/ \E u \in Builders \ {t} : pc[u] # "out")
  BY DEF Construct, Goto
<1>2. ~shared' => ~shared /\ \A u \in Builders : u # t => pc[u] = "out"
  BY <1>1
<1>3. \A u \in Builders : u # t => /\ pc'[u] = pc[u] /\ hosts'[u] = hosts[u]
                                   /\ built'[u] = built[u]
  BY <1>1, Domains
<1>4. pc'[t] = "shuffle"  BY <1>1, Domains
<1>5. ASSUME ~shared' PROVE Alone(t)'
  <2>1. \A u \in Builders : pc[u] = "out"  BY <1>1, <1>2, <1>5
  <2>2. EachOnce(list)  BY <2>1, <1>2, <1>5 DEF Turns
  <2> QED BY <1>1, <1>4, <2>2 DEF Alone, EachOnce
<1> QED BY <1>2, <1>3, <1>4, <1>5, TurnsAfter

LEMMA TurnsPutAside ==
    ASSUME HostTypes, Turns, NEW t \in Builders, PutAside(t) PROVE Turns'
<1>1. /\ pc[t] = "shuffle" /\ list' = list /\ i' = i /\ hosts' = hosts
      /\ built' = built /\ shared' = shared /\ pc' = [pc EXCEPT ![t] = "swap"]
  BY DEF PutAside, Goto
<1>2. ASSUME ~shared' PROVE Alone(t) /\ \A u \in Builders : u # t => pc[u] = "out"
  BY <1>1, <1>2, InTurn
<1>3. \A u \in Builders : u # t => /\ pc'[u] = pc[u] /\ hosts'[u] = hosts[u]
                                   /\ built'[u] = built[u]
  BY <1>1, Domains
<1>4. pc'[t] = "swap" /\ tmp'[t] = list[i[t]]  BY <1>1, Domains, HostTypesPutAside
<1>5. ASSUME ~shared' PROVE Alone(t)'
  <2>1. EachOnce(list)  BY <1>1, <1>2, <1>5 DEF Alone
  <2> QED BY <1>1, <1>4, <2>1 DEF Alone, EachOnce
<1>6. ~shared' => ~shared  BY <1>1
<1> QED BY <1>2, <1>3, <1>4, <1>5, <1>6, TurnsAfter

LEMMA TurnsMoveUp ==
    ASSUME HostTypes, Turns, NEW t \in Builders, MoveUp(t) PROVE Turns'
<1>1. /\ pc[t] = "swap" /\ j' = j /\ tmp' = tmp /\ hosts' = hosts
      /\ built' = built /\ shared' = shared /\ pc' = [pc EXCEPT ![t] = "putBack"]
  BY DEF MoveUp, Goto, positions
<1>2. ASSUME ~shared' PROVE Alone(t) /\ \A u \in Builders : u # t => pc[u] = "out"
  BY <1>1, <1>2, InTurn
<1>3. \A u \in Builders : u # t => /\ pc'[u] = pc[u] /\ hosts'[u] = hosts[u]
                                   /\ built'[u] = built[u]
  BY <1>1, Domains
<1>4. pc'[t] = "putBack"  BY <1>1, Domains
<1>5. ASSUME ~shared' PROVE Alone(t)'
  <2> DEFINE a == i[t]
             b == j[t]
             m == tmp[t]
  <2>1. EachOnce(list) /\ m = list[a]  BY <1>1, <1>2, <1>5 DEF Alone
  <2>2. a \in 1 .. N /\ b \in 1 .. N  BY HostTypesMoveUp
  <2>3. list' = [list EXCEPT ![a] = list[b]]  BY DEF MoveUp
  <2>4. list \in Seq(Hosts) /\ Len(list) = N  BY ListFacts
  <2>5. j'[t] = b /\ tmp'[t] = m  BY <1>1
  <2> HIDE DEF a, b, m
  <2>6. EachOnce([[list EXCEPT ![a] = list[b]] EXCEPT ![b] = list[a]])
    BY <2>1, <2>2, <2>4, SwapKeepsEachOnce
  <2>7. EachOnce([list' EXCEPT ![b] = m])  BY <2>1, <2>3, <2>6
  <2>8. EachOnce([list' EXCEPT ![j'[t]] = tmp'[t]])  BY <2>5, <2>7
  <2> QED BY <1>4, <2>8 DEF Alone, EachOnce
<1>6. ~shared' => ~shared  BY <1>1
<1> QED BY <1>2, <1>3, <1>4, <1>5, <1>6, TurnsAfter

LEMMA TurnsPutBack ==
    ASSUME HostTypes, Turns, NEW t \in Builders, PutBack(t) PROVE Turns'
<1>1. /\ pc[t] = "putBack" /\ hosts' = hosts
      /\ built' = built /\ shared' = shared /\ pc' = [pc EXCEPT ![t] = "shuffle"]
      /\ list' = [list EXCEPT ![j[t]] = tmp[t]]
  BY DEF PutBack, Goto, Aside
<1>2. ASSUME ~shared' PROVE Alone(t) /\ \A u \in Builders : u # t => pc[u] = "out"
  BY <1>1, <1>2, InTurn
<1>3. \A u \in Builders : u # t => /\ pc'[u] = pc[u] /\ hosts'[u] = hosts[u]
                                   /\ built'[u] = built[u]
  BY <1>1, Domains
<1>4. pc'[t] = "shuffle"  BY <1>1, Domains
<1>5. ASSUME ~shared' PROVE Alone(t)'
  <2>1. EachOnce([list EXCEPT ![j[t]] = tmp[t]])  BY <1>1, <1>2, <1>5 DEF Alone
  <2>2. EachOnce(list')  BY <1>1, <2>1
  <2> QED BY <1>4, <2>2 DEF Alone, EachOnce
<1>6. ~shared' => ~shared  BY <1>1
<1> QED BY <1>2, <1>3, <1>4, <1>5, <1>6, TurnsAfter

LEMMA TurnsShuffled ==
    ASSUME HostTypes, Turns, NEW t \in Builders, Shuffled(t) PROVE Turns'
<1>1. /\ pc[t] = "shuffle" /\ list' = list /\ hosts' = hosts
      /\ built' = built /\ shared' = shared /\ pc' = [pc EXCEPT ![t] = "add"]
  BY DEF Shuffled, Goto
<1>2. ASSUME ~shared' PROVE Alone(t) /\ \A u \in Builders : u # t => pc[u] = "out"
  BY <1>1, <1>2, InTurn
<1>3. \A u \in Builders : u # t => /\ pc'[u] = pc[u] /\ hosts'[u] = hosts[u]
                                   /\ built'[u] = built[u]
  BY <1>1, Domains
<1>4. pc'[t] = "add"  BY <1>1, Domains
<1>5. ASSUME ~shared' PROVE Alone(t)'
  <2>1. EachOnce(list)  BY <1>1, <1>2, <1>5 DEF Alone
  <2>2. hosts[t] = << >>  BY <1>1, Facts DEF Place
  <2>3. hosts'[t] = << >> /\ Len(<< >>) = 0  BY <1>1, <2>2, EmptySeq
  <2>4. \A k \in 1 .. Len(hosts'[t]) : hosts'[t][k] = list'[k]  BY ONLY <2>3
  <2> QED BY <1>1, <1>4, <2>1, <2>4 DEF Alone, EachOnce
<1>6. ~shared' => ~shared  BY <1>1
<1> QED BY <1>2, <1>3, <1>4, <1>5, <1>6, TurnsAfter

LEMMA TurnsAddHost ==
    ASSUME HostTypes, Turns, NEW t \in Builders, AddHost(t) PROVE Turns'
<1>1. /\ pc[t] = "add" /\ list' = list /\ pc' = pc
      /\ built' = built /\ shared' = shared
      /\ hosts' = [hosts EXCEPT ![t] = Append(@, list[Len(@) + 1])]
  BY DEF AddHost
<1>2. ASSUME ~shared' PROVE Alone(t) /\ \A u \in Builders : u # t => pc[u] = "out"
  BY <1>1, <1>2, InTurn
<1>3. \A u \in Builders : u # t => /\ pc'[u] = pc[u] /\ hosts'[u] = hosts[u]
                                   /\ built'[u] = built[u]
  BY <1>1, Domains
<1>4. ASSUME ~shared' PROVE Alone(t)'
  <2> DEFINE n == Len(hosts[t])
  <2>1. EachOnce(list) /\ \A k \in 1 .. n : hosts[t][k] = list[k]
    BY <1>1, <1>2, <1>4 DEF Alone
  <2>2. /\ Len(hosts'[t]) = n + 1 /\ \A k \in 1 .. n : hosts'[t][k] = hosts[t][k]
        /\ hosts'[t][n + 1] = list[n + 1]
    BY HostTypesAddHost
  <2>3. n \in Nat  BY Facts
  <2> HIDE DEF n
  <2>4. \A k \in 1 .. n + 1 : k \in 1 .. n \/ k = n + 1  BY ONLY <2>3
  <2>5. \A k \in 1 .. Len(hosts'[t]) : hosts'[t][k] = list[k]  BY ONLY <2>1, <2>2, <2>4
  <2> QED BY <1>1, <2>1, <2>5 DEF Alone, EachOnce
<1>5. ~shared' => ~shared  BY <1>1
<1>6. pc'[t] = "add"  BY <1>1
<1> QED BY <1>2, <1>3, <1>4, <1>5, <1>6, TurnsAfter

LEMMA TurnsBuilt ==
    ASSUME HostTypes, Turns, NEW t \in Builders, Built(t) PROVE Turns'
<1>1. /\ pc[t] = "add" /\ list' = list /\ hosts' = hosts /\ shared' = shared
      /\ pc' = [pc EXCEPT ![t] = "out"] /\ built' = [built EXCEPT ![t] = built[t] + 1]
  BY DEF Built, Goto
<1>2. ASSUME ~shared' PROVE Alone(t) /\ \A u \in Builders : u # t => pc[u] = "out"
  BY <1>1, <1>2, InTurn
<1>3. \A u \in Builders : u # t => /\ pc'[u] = pc[u] /\ hosts'[u] = hosts[u]
                                   /\ built'[u] = built[u]
  BY <1>1, Domains
<1>4. pc'[t] = "out"  BY <1>1, Domains
<1>5. ASSUME ~shared' PROVE EachOnce(list)' /\ EachOnce(hosts[t])'
  <2>1. EachOnce(list) /\ \A k \in 1 .. Len(hosts[t]) : hosts[t][k] = list[k]
    BY <1>1, <1>2, <1>5 DEF Alone
  <2>2. Len(hosts[t]) = N  BY HostTypesBuilt
  <2>3. list \in Seq(Hosts) /\ Len(list) = N /\ hosts[t] \in Seq(Hosts)
    BY ListFacts, Facts
  <2>4. EachOnce(hosts[t])  BY <2>1, <2>2, <2>3, CopyIsEachOnce
  <2> QED BY <1>1, <2>1, <2>4 DEF EachOnce
<1>6. ~shared' => ~shared  BY <1>1
<1> QED BY <1>2, <1>3, <1>4, <1>5, <1>6, TurnsAfter

LEMMA TurnsStep == HostTypes /\ Turns /\ [HostsNext]_hostsVars => Turns'
<1> SUFFICES ASSUME HostTypes, Turns, [HostsNext]_hostsVars PROVE Turns'  OBVIOUS
<1>1. CASE UNCHANGED hostsVars
  BY <1>1 DEF hostsVars, positions, Turns, Alone, EachOnce
<1>2. ASSUME NEW t \in Builders, Build(t) PROVE Turns'
  BY <1>2, TurnsConstruct, TurnsPutAside, TurnsMoveUp, TurnsPutBack,
     TurnsShuffled, TurnsAddHost, TurnsBuilt DEF Build
<1> QED BY <1>1, <1>2 DEF HostsNext

LEMMA TurnsMean == HostTypes /\ Turns => HostsAreServers
<1> SUFFICES ASSUME HostTypes, Turns PROVE HostsAreServers  OBVIOUS
<1>1. Len(list) = Len(Servers)  BY ListFacts DEF N
<1>2. (\A t \in Builders : pc[t] = "out") /\ ~shared => EachOnce(list)  BY DEF Turns
<1>3. ASSUME NEW t \in Builders
      PROVE  /\ ToSet(hosts[t]) \subseteq ToSet(Servers)
             /\ pc[t] = "out" /\ built[t] > 0 =>
                   IF shared THEN Len(hosts[t]) = Len(Servers) ELSE EachOnce(hosts[t])
  <2>1. ToSet(hosts[t]) \subseteq Hosts  BY Facts, SetOf
  <2>2. pc[t] = "out" /\ built[t] > 0 => Len(hosts[t]) = N  BY Facts DEF Place
  <2>3. ~shared /\ pc[t] = "out" /\ built[t] > 0 => EachOnce(hosts[t])  BY DEF Turns
  <2> QED BY <2>1, <2>2, <2>3 DEF Hosts, N
<1> QED BY <1>1, <1>2, <1>3 DEF HostsAreServers

\* However many threads construct handles, the list keeps its length and holds
\* servers only, and as long as they take turns it and every handle have each
\* server (as_object.hpp:65-70).
THEOREM HostsStayServers == HostsSpec => []HostsAreServers
<1>1. HostsInit => HostTypes /\ Turns  BY HostTypesInit, TurnsInit
<1>2. HostTypes /\ Turns /\ [HostsNext]_hostsVars => (HostTypes /\ Turns)'
  BY HostTypesStep, TurnsStep
<1> QED BY <1>1, <1>2, TurnsMean, PTL DEF HostsSpec

-----------------------------------------------------------------------------
(* The reading of the configuration: texts *)

Text == Seq(Chars)

-----------------------------------------------------------------------------
(* Induction and recursion *)

LEMMA NatOrder == IsWellFoundedOn({x \in Nat \X Nat : x[1] < x[2]}, Nat)
BY NatLessThanWellFounded DEF OpToRel

\* Induction over the natural numbers, for a set of them.
LEMMA SetInduction ==
    ASSUME NEW P, 0 \in P, \A n \in Nat : n \in P => n + 1 \in P
    PROVE  Nat \subseteq P
<1> DEFINE T == Nat \ P
           R == {x \in Nat \X Nat : x[1] < x[2]}
<1> SUFFICES ASSUME T # {} PROVE FALSE
  OBVIOUS
<1>1. IsWellFoundedOn(R, Nat) /\ T \subseteq Nat
  BY NatOrder
<1> HIDE DEF T, R
<1>2. PICK x \in T : \A y \in T : ~(<<y, x>> \in R)
  BY <1>1, WFMin
<1>3. x \in Nat /\ x \notin P /\ x # 0
  BY <1>2 DEF T
<1>4. x - 1 \in Nat /\ x - 1 + 1 = x
  BY <1>3
<1>5. x - 1 \notin P
  BY <1>3, <1>4
<1>6. x - 1 \in T /\ <<x - 1, x>> \in R
  BY <1>3, <1>4, <1>5 DEF T, R
<1> QED
  BY <1>2, <1>6

Recurs(n, T, b, g) ==
    \E F \in [0 .. n -> T] : F[0] = b /\ \A k \in 1 .. n : F[k] = g[<<k, F[k - 1]>>]

\* A function can be defined by what it makes of its value one place before.
LEMMA Recursion ==
    ASSUME NEW n \in Nat, NEW T, NEW b \in T, NEW g \in [(1 .. n) \X T -> T]
    PROVE  Recurs(n, T, b, g)
<1> DEFINE Upto(F, m) == F[0] = b /\ \A k \in 1 .. m : F[k] = g[<<k, F[k - 1]>>]
           P == {m \in Nat : m <= n => \E F \in [0 .. m -> T] : Upto(F, m)}
<1>1. 0 \in P
  <2>1. [k \in 0 .. 0 |-> b] \in [0 .. 0 -> T] /\ [k \in 0 .. 0 |-> b][0] = b  OBVIOUS
  <2>2. Upto([k \in 0 .. 0 |-> b], 0)  BY <2>1
  <2> QED BY <2>1, <2>2
<1>2. ASSUME NEW m \in Nat, m \in P PROVE m + 1 \in P
  <2> SUFFICES ASSUME m + 1 <= n PROVE \E F \in [0 .. m + 1 -> T] : Upto(F, m + 1)
    OBVIOUS
  <2>1. PICK F \in [0 .. m -> T] : Upto(F, m)  BY <1>2
  <2>2. F[m] \in T /\ g[<<m + 1, F[m]>>] \in T  OBVIOUS
  <2> DEFINE G == [k \in 0 .. m + 1 |-> IF k = m + 1 THEN g[<<m + 1, F[m]>>] ELSE F[k]]
  <2>3. G \in [0 .. m + 1 -> T]  BY <2>2
  <2>4. /\ G[0] = F[0] /\ G[m + 1] = g[<<m + 1, F[m]>>]
        /\ \A k \in 1 .. m : G[k] = F[k] /\ G[k - 1] = F[k - 1]
        /\ G[m] = F[m]
    OBVIOUS
  <2> HIDE DEF G
  <2>5. ASSUME NEW k \in 1 .. m + 1 PROVE G[k] = g[<<k, G[k - 1]>>]
    <3>1. CASE k = m + 1
      <4>1. k - 1 = m  BY <3>1
      <4> QED BY <2>4, <3>1, <4>1
    <3>2. CASE k # m + 1
      <4>1. k \in 1 .. m  BY <3>2
      <4> QED BY <2>1, <2>4, <4>1
    <3> QED BY <3>1, <3>2
  <2>6. Upto(G, m + 1)  BY <2>1, <2>4, <2>5
  <2> QED BY <2>3, <2>6
<1> HIDE DEF Upto
<1>3. n \in P  BY <1>1, <1>2, SetInduction
<1>4. PICK F \in [0 .. n -> T] : Upto(F, n)  BY <1>3
<1> QED BY <1>4 DEF Upto, Recurs

\* It is defined by what it makes of it.
LEMMA SameRecursion ==
    ASSUME NEW n \in Nat, NEW F, NEW G, F[0] = G[0],
           \A k \in 1 .. n : F[k - 1] = G[k - 1] => F[k] = G[k]
    PROVE  F[n] = G[n]
<1> DEFINE P == {m \in Nat : m <= n => F[m] = G[m]}
<1>1. 0 \in P  OBVIOUS
<1>2. ASSUME NEW m \in Nat, m \in P PROVE m + 1 \in P
  <2> SUFFICES ASSUME m + 1 <= n PROVE F[m + 1] = G[m + 1]  OBVIOUS
  <2>1. m + 1 \in 1 .. n /\ (m + 1) - 1 = m  OBVIOUS
  <2>2. F[m] = G[m]  BY <1>2
  <2> QED BY <2>1, <2>2
<1>3. n \in P  BY <1>1, <1>2, SetInduction
<1> QED BY <1>3

\* Induction over the sequences, for a set of them.
LEMMA TextInduction ==
    ASSUME NEW T, NEW P \in SUBSET Seq(T), << >> \in P,
           \A s \in P, c \in T : Append(s, c) \in P
    PROVE  P = Seq(T)
<1> DEFINE Q == {n \in Nat : \A s \in Seq(T) : Len(s) = n => s \in P}
<1>1. 0 \in Q  BY EmptySeq
<1>2. ASSUME NEW n \in Nat, n \in Q PROVE n + 1 \in Q
  <2> SUFFICES ASSUME NEW s \in Seq(T), Len(s) = n + 1 PROVE s \in P  OBVIOUS
  <2>1. PICK t \in Seq(T), c \in T : s = Append(t, c) /\ Len(t) = n
    <3>1. s # << >>  BY EmptySeq
    <3>2. PICK t \in Seq(T), c \in T : s = Append(t, c)
      BY <3>1, SequenceEmptyOrAppend
    <3>3. Len(t) \in Nat /\ Len(s) = Len(t) + 1  BY <3>2, AppendProperties, LenProperties
    <3> QED BY ONLY <3>2, <3>3, Len(s) = n + 1, n \in Nat
  <2>2. t \in P  BY <1>2, <2>1
  <2> QED BY <2>1, <2>2
<1>3. Nat \subseteq Q  BY <1>1, <1>2, SetInduction
<1> QED BY <1>3, LenProperties

-----------------------------------------------------------------------------
(* What is removed from the list of servers *)

\* What the character c adds to the text x.
Kept(x, c) == IF c \in Removed THEN x ELSE Append(x, c)

\* Cleaned, step by step: the CHOOSE of its recursive function is a function.
LEMMA CleanedIs ==
    ASSUME NEW s \in Text
    PROVE  \E F \in [0 .. Len(s) -> Text] :
              /\ F[0] = << >>
              /\ \A k \in 1 .. Len(s) : F[k] = Kept(F[k - 1], s[k])
              /\ Cleaned(s) = F[Len(s)]
<1>1. Len(s) \in Nat  BY LenProperties DEF Text
<1> DEFINE g == [x \in (1 .. Len(s)) \X Text |-> Kept(x[2], s[x[1]])]
           Is(F) == F = [k \in 0 .. Len(s) |->
                           IF k = 0 THEN << >>
                           ELSE IF s[k] \in Removed THEN F[k - 1]
                                ELSE Append(F[k - 1], s[k])]
<1>2. \A x \in (1 .. Len(s)) \X Text : Kept(x[2], s[x[1]]) \in Text
  <2> TAKE x \in (1 .. Len(s)) \X Text
  <2>1. x[1] \in 1 .. Len(s) /\ x[2] \in Seq(Chars)  BY DEF Text
  <2>2. s[x[1]] \in Chars  BY <2>1, ElementOfSeq DEF Text
  <2>3. Append(x[2], s[x[1]]) \in Seq(Chars)  BY <2>1, <2>2, AppendProperties
  <2> QED BY <2>1, <2>3 DEF Kept, Text
<1>3. g \in [(1 .. Len(s)) \X Text -> Text]  BY <1>2
<1>4. << >> \in Text  BY EmptySeq DEF Text
<1>5. \A k \in 1 .. Len(s), x \in Text : g[<<k, x>>] = Kept(x, s[k])  OBVIOUS
<1> HIDE DEF g
<1>6. PICK F \in [0 .. Len(s) -> Text] :
        F[0] = << >> /\ \A k \in 1 .. Len(s) : F[k] = g[<<k, F[k - 1]>>]
  <2>1. Recurs(Len(s), Text, << >>, g)  BY ONLY <1>1, <1>3, <1>4, Recursion, Zenon
  <2> QED BY ONLY <2>1 DEF Recurs
<1>7. \A k \in 1 .. Len(s) : F[k] = Kept(F[k - 1], s[k])
  <2> TAKE k \in 1 .. Len(s)
  <2>1. k - 1 \in 0 .. Len(s)  BY <1>1
  <2> QED BY <1>5, <1>6, <2>1
<1>8. Is(F)
  <2>1. \A k \in 0 .. Len(s) : k = 0 \/ k \in 1 .. Len(s)  BY <1>1
  <2>2. F = [k \in 0 .. Len(s) |-> F[k]]  OBVIOUS
  <2> QED BY <1>6, <1>7, <2>1, <2>2 DEF Kept
<1>9. Cleaned(s) = (CHOOSE G : Is(G))[Len(s)]  BY Zenon DEF Cleaned
<1> HIDE DEF Is
<1>10. PICK G : G = (CHOOSE H : Is(H)) /\ Is(G)  BY <1>8
<1>11. /\ G[0] = << >>
       /\ \A k \in 1 .. Len(s) : G[k] = Kept(G[k - 1], s[k])
  <2>1. \A k \in 0 .. Len(s) : G[k] = IF k = 0 THEN << >>
                           ELSE IF s[k] \in Removed THEN G[k - 1]
                                ELSE Append(G[k - 1], s[k])
    BY ONLY <1>10, Zenon DEF Is
  <2>2. 0 \in 0 .. Len(s) /\ \A k \in 1 .. Len(s) : k \in 0 .. Len(s) /\ k # 0
    BY ONLY <1>1
  <2> QED BY ONLY <2>1, <2>2, Zenon DEF Kept
<1>12. G[Len(s)] = F[Len(s)]
  <2>1. \A k \in 1 .. Len(s) : G[k - 1] = F[k - 1] => G[k] = F[k]  BY ONLY <1>7, <1>11
  <2>2. F[0] = G[0]  BY ONLY <1>6, <1>11
  <2>3. PICK n \in Nat : n = Len(s)  BY ONLY <1>1
  <2> QED BY ONLY <2>1, <2>2, <2>3, SameRecursion
<1> QED BY <1>6, <1>7, <1>9, <1>10, <1>12

LEMMA CleanedEmpty == Cleaned(<< >>) = << >>
BY CleanedIs, EmptySeq DEF Text

LEMMA CleanedText == ASSUME NEW s \in Text PROVE Cleaned(s) \in Text
<1>1. Len(s) \in Nat  BY LenProperties DEF Text
<1> QED BY <1>1, CleanedIs

\* One more character.
LEMMA CleanedGrows ==
    ASSUME NEW s \in Text, NEW c \in Chars
    PROVE  Cleaned(Append(s, c)) = Kept(Cleaned(s), c)
<1>1. PICK t \in Text : t = Append(s, c) /\ Len(t) = Len(s) + 1 /\ Len(s) \in Nat
        /\ t[Len(s) + 1] = c /\ \A k \in 1 .. Len(s) : t[k] = s[k]
  <2>1. s \in Seq(Chars)  BY DEF Text
  <2>2. Len(s) \in Nat  BY <2>1, LenProperties
  <2>3. Append(s, c) \in Seq(Chars) /\ Len(Append(s, c)) = Len(s) + 1
        /\ Append(s, c)[Len(s) + 1] = c /\ \A k \in 1 .. Len(s) : Append(s, c)[k] = s[k]
    BY <2>1, AppendProperties
  <2> QED BY ONLY <2>2, <2>3, Zenon DEF Text
<1>2. PICK F \in [0 .. Len(s) -> Text] :
              /\ F[0] = << >>
              /\ \A k \in 1 .. Len(s) : F[k] = Kept(F[k - 1], s[k])
              /\ Cleaned(s) = F[Len(s)]
  BY CleanedIs
<1>3. PICK G \in [0 .. Len(t) -> Text] :
              /\ G[0] = << >>
              /\ \A k \in 1 .. Len(t) : G[k] = Kept(G[k - 1], t[k])
              /\ Cleaned(t) = G[Len(t)]
  BY CleanedIs
<1>4. \A k \in 1 .. Len(s) : F[k - 1] = G[k - 1] => F[k] = G[k]
  <2>1. \A k \in 1 .. Len(s) : k \in 1 .. Len(t)  BY ONLY <1>1
  <2> QED BY ONLY <1>1, <1>2, <1>3, <2>1
<1>5. F[Len(s)] = G[Len(s)]
  <2>1. Len(s) \in Nat /\ F[0] = G[0]  BY ONLY <1>1, <1>2, <1>3
  <2> QED BY ONLY <1>4, <2>1, SameRecursion
<1>6. Len(t) \in 1 .. Len(t) /\ Len(t) - 1 = Len(s)  BY <1>1
<1>7. G[Len(t)] = Kept(G[Len(t) - 1], t[Len(t)])  BY ONLY <1>3, <1>6
<1> QED BY ONLY <1>1, <1>2, <1>3, <1>5, <1>6, <1>7

\* A sequence without the elements of a set, and one that has no others.
None(D, s) == \A k \in 1 .. Len(s) : s[k] \notin D
Only(D, s) == \A k \in 1 .. Len(s) : s[k] \in D

\* The characters of a text that grows by one.
LEMMA PrefixHas ==
    ASSUME NEW T, NEW s \in Seq(T), NEW c \in T, NEW D
    PROVE  /\ None(D, Append(s, c)) <=> None(D, s) /\ c \notin D
           /\ Only(D, Append(s, c)) <=> Only(D, s) /\ c \in D
<1>1. PICK n \in Nat : n = Len(s)  BY LenProperties
<1>2. PICK t : t = Append(s, c)  OBVIOUS
<1>3. Len(t) = n + 1 /\ t[n + 1] = c /\ \A k \in 1 .. n : t[k] = s[k]
  BY <1>1, <1>2, AppendProperties
<1>4. \A k \in 1 .. n + 1 : k \in 1 .. n \/ k = n + 1  OBVIOUS
<1>5. n + 1 \in 1 .. n + 1 /\ \A k \in 1 .. n : k \in 1 .. n + 1  OBVIOUS
<1> QED BY ONLY <1>1, <1>2, <1>3, <1>4, <1>5 DEF None, Only

Regrouped(a, b, c) == (a \o b) \o c = a \o (b \o c)

LEMMA Regroup ==
    ASSUME NEW a \in Text, NEW b \in Text, NEW c \in Text PROVE Regrouped(a, b, c)
<1>1. a \in Seq(Chars) /\ b \in Seq(Chars) /\ c \in Seq(Chars)  BY DEF Text
<1>2. (a \o b) \o c = a \o (b \o c)  BY ONLY <1>1, ConcatAssociative
<1> QED BY ONLY <1>2 DEF Regrouped

LEMMA ConcatAppend ==
    ASSUME NEW s \in Text, NEW u \in Text, NEW c \in Chars
    PROVE  s \o Append(u, c) = Append(s \o u, c)
<1>1. s \in Seq(Chars) /\ u \in Seq(Chars)  BY DEF Text
<1>2. <<c>> \in Seq(Chars) /\ s \o u \in Seq(Chars)
  <2>1. s \o u \in Seq(Chars)  BY <1>1, ConcatProperties
  <2>2. <<c>> \in Seq(Chars)  OBVIOUS
  <2> QED BY <2>1, <2>2
<1>3. Append(u, c) = u \o <<c>>  BY <1>1, AppendIsConcat
<1>4. Append(s \o u, c) = (s \o u) \o <<c>>  BY <1>2, AppendIsConcat
<1>5. (s \o u) \o <<c>> = s \o (u \o <<c>>)  BY <1>1, <1>2, ConcatAssociative
<1> QED BY ONLY <1>3, <1>4, <1>5

\* Cleaning goes part by part (boost::replace_all of single characters).
LEMMA CleanedConcat ==
    ASSUME NEW s \in Text, NEW t \in Text
    PROVE  Cleaned(s \o t) = Cleaned(s) \o Cleaned(t)
<1> DEFINE P == {u \in Text : Cleaned(s \o u) = Cleaned(s) \o Cleaned(u)}
<1>1. << >> \in P
  <2>1. s \o << >> = s  BY ConcatEmptySeq DEF Text
  <2>2. Cleaned(s) \o << >> = Cleaned(s)  BY CleanedText, ConcatEmptySeq DEF Text
  <2> QED BY <2>1, <2>2, CleanedEmpty, EmptySeq DEF Text
<1>2. ASSUME NEW u \in P, NEW c \in Chars PROVE Append(u, c) \in P
  <2>1. u \in Text /\ Append(u, c) \in Text /\ s \o u \in Text
    BY AppendProperties, ConcatProperties DEF Text
  <2>2. s \o Append(u, c) = Append(s \o u, c)  BY <2>1, ConcatAppend
  <2>3. Cleaned(s \o Append(u, c)) = Kept(Cleaned(s) \o Cleaned(u), c)
    BY <2>1, <2>2, CleanedGrows
  <2>4. Cleaned(Append(u, c)) = Kept(Cleaned(u), c)  BY <2>1, CleanedGrows
  <2>5. PICK x \in Text, y \in Text : x = Cleaned(s) /\ y = Cleaned(u)
    BY <2>1, CleanedText
  <2>6. Append(x \o y, c) = x \o Append(y, c)
    BY ConcatAppend
  <2>7. Kept(x \o y, c) = x \o Kept(y, c)  BY ONLY <2>6 DEF Kept
  <2> QED BY <2>1, <2>3, <2>4, <2>5, <2>7
<1>3. P = Text  BY <1>1, <1>2, TextInduction DEF Text
<1> QED BY <1>3

\* Nothing is left of what is removed,
LEMMA CleanedAll ==
    ASSUME NEW t \in Text, Only(Removed, t) PROVE Cleaned(t) = << >>
<1> DEFINE P == {u \in Text : Only(Removed, u) => Cleaned(u) = << >>}
<1>1. << >> \in P  BY CleanedEmpty, EmptySeq DEF Text
<1>2. ASSUME NEW u \in P, NEW c \in Chars PROVE Append(u, c) \in P
  <2>1. u \in Text /\ Append(u, c) \in Text  BY AppendProperties DEF Text
  <2>2. Cleaned(Append(u, c)) = Kept(Cleaned(u), c)  BY <2>1, CleanedGrows
  <2>3. Only(Removed, Append(u, c)) => Only(Removed, u) /\ c \in Removed
    BY <2>1, PrefixHas DEF Text
  <2> QED BY <2>1, <2>2, <2>3 DEF Kept
<1>3. P = Text  BY <1>1, <1>2, TextInduction DEF Text
<1> QED BY <1>3

\* and all of what is not.
LEMMA CleanedNone ==
    ASSUME NEW t \in Text, None(Removed, t) PROVE Cleaned(t) = t
<1> DEFINE P == {u \in Text : None(Removed, u) => Cleaned(u) = u}
<1>1. << >> \in P  BY CleanedEmpty, EmptySeq DEF Text
<1>2. ASSUME NEW u \in P, NEW c \in Chars PROVE Append(u, c) \in P
  <2>1. u \in Text /\ Append(u, c) \in Text  BY AppendProperties DEF Text
  <2>2. Cleaned(Append(u, c)) = Kept(Cleaned(u), c)  BY <2>1, CleanedGrows
  <2>3. None(Removed, Append(u, c)) => None(Removed, u) /\ c \notin Removed
    BY <2>1, PrefixHas DEF Text
  <2> QED BY <2>1, <2>2, <2>3 DEF Kept
<1>3. P = Text  BY <1>1, <1>2, TextInduction DEF Text
<1> QED BY <1>3

-----------------------------------------------------------------------------
(* The split of the list of servers *)

Lists == Seq(Text) \ {<< >>}

\* A sequence and one more element, taken apart again.
LEMMA OneMore ==
    ASSUME NEW T, NEW s \in Seq(T), NEW c \in T
    PROVE  /\ Append(s, c) \in Seq(T) \ {<< >>}
           /\ Front(Append(s, c)) = s /\ Last(Append(s, c)) = c
           /\ s \o <<c>> = Append(s, c)
<1>1. PICK n \in Nat : n = Len(s)  BY LenProperties
<1>2. PICK t : t = Append(s, c)  OBVIOUS
<1>3. /\ t \in Seq(T) /\ t # << >> /\ Len(t) = n + 1 /\ t[n + 1] = c
      /\ \A k \in 1 .. n : t[k] = s[k]
  BY <1>1, <1>2, AppendProperties
<1>4. /\ SubSeq(t, 1, n) \in Seq(T) /\ Len(SubSeq(t, 1, n)) = n
      /\ \A k \in 1 .. n : SubSeq(t, 1, n)[k] = s[k]
  <2>1. \A k \in 1 .. n : t[k] \in T  BY <1>1, <1>3, ElementOfSeq
  <2>2. /\ SubSeq(t, 1, n) \in Seq(T)
        /\ Len(SubSeq(t, 1, n)) = IF 1 <= n THEN n - 1 + 1 ELSE 0
        /\ \A k \in 1 .. n - 1 + 1 : SubSeq(t, 1, n)[k] = t[1 + k - 1]
    BY ONLY n \in Nat, <2>1, SubSeqProperties
  <2> QED BY ONLY <1>3, <2>2, n \in Nat
<1>5. SubSeq(t, 1, n) = s  BY <1>1, <1>4, SeqEqual
<1>6. Len(t) - 1 = n  BY <1>3
<1>7. Front(t) = s /\ Last(t) = c  BY <1>3, <1>5, <1>6 DEF Front, Last
<1> QED BY <1>2, <1>3, <1>7, AppendIsConcat

Grown(T, s, c) ==
    /\ Front(Append(s, c)) = s /\ Last(Append(s, c)) = c
    /\ s \o <<c>> = Append(s, c)

LEMMA IsGrown == ASSUME NEW T, NEW s \in Seq(T), NEW c \in T PROVE Grown(T, s, c)
BY OneMore DEF Grown

LEMMA FrontAndLast ==
    ASSUME NEW T, NEW s \in Seq(T) \ {<< >>}
    PROVE  Front(s) \in Seq(T) /\ Last(s) \in T /\ s = Append(Front(s), Last(s))
<1>1. PICK t \in Seq(T), c \in T : s = Append(t, c)  BY SequenceEmptyOrAppend
<1> QED BY <1>1, OneMore

\* The split stays a list of texts.
LEMMA GoesOn == ASSUME NEW p \in Lists, NEW c \in Chars PROVE Goes(p, c) \in Lists
<1>1. CASE c = ","
  <2>1. << >> \in Text  BY EmptySeq DEF Text
  <2> QED BY <1>1, <2>1, OneMore DEF Lists, Goes
<1>2. CASE c # ","
  <2>1. Front(p) \in Seq(Text) /\ Last(p) \in Text  BY FrontAndLast DEF Lists
  <2>2. Append(Last(p), c) \in Text  BY <2>1, AppendProperties DEF Text
  <2>3. PICK x \in Text : x = Append(Last(p), c)  BY <2>2
  <2>4. Front(p) \o <<x>> = Append(Front(p), x) /\ Append(Front(p), x) \in Lists
    BY <2>1, OneMore DEF Lists
  <2> QED BY ONLY <1>2, <2>3, <2>4, Zenon DEF Goes
<1> QED BY <1>1, <1>2

LEMMA NoParts == <<<< >>>> \in Lists
<1>1. << >> \in Text /\ << >> \in Seq(Text)  BY EmptySeq DEF Text
<1>2. Append(<< >>, << >>) = <<<< >>>>  OBVIOUS
<1> QED BY <1>1, <1>2, OneMore DEF Lists

\* Parts, step by step.
LEMMA PartsIs ==
    ASSUME NEW s \in Text
    PROVE  \E F \in [0 .. Len(s) -> Lists] :
              /\ F[0] = <<<< >>>>
              /\ \A k \in 1 .. Len(s) : F[k] = Goes(F[k - 1], s[k])
              /\ Parts(s) = F[Len(s)]
<1>1. Len(s) \in Nat  BY LenProperties DEF Text
<1> DEFINE g == [x \in (1 .. Len(s)) \X Lists |-> Goes(x[2], s[x[1]])]
           Is(F) == F = [k \in 0 .. Len(s) |->
                           IF k = 0 THEN <<<< >>>> ELSE Goes(F[k - 1], s[k])]
<1>2. \A x \in (1 .. Len(s)) \X Lists : Goes(x[2], s[x[1]]) \in Lists
  <2> TAKE x \in (1 .. Len(s)) \X Lists
  <2>1. x[1] \in 1 .. Len(s) /\ x[2] \in Lists  OBVIOUS
  <2>2. s[x[1]] \in Chars  BY <2>1, ElementOfSeq DEF Text
  <2> QED BY <2>1, <2>2, GoesOn
<1>3. g \in [(1 .. Len(s)) \X Lists -> Lists]  BY <1>2
<1>4. \A k \in 1 .. Len(s), x \in Lists : g[<<k, x>>] = Goes(x, s[k])  OBVIOUS
<1> HIDE DEF g
<1>5. PICK F \in [0 .. Len(s) -> Lists] :
        F[0] = <<<< >>>> /\ \A k \in 1 .. Len(s) : F[k] = g[<<k, F[k - 1]>>]
  <2>1. Recurs(Len(s), Lists, <<<< >>>>, g)  BY ONLY <1>1, <1>3, NoParts, Recursion, Zenon
  <2> QED BY ONLY <2>1 DEF Recurs
<1>6. \A k \in 1 .. Len(s) : F[k] = Goes(F[k - 1], s[k])
  <2> TAKE k \in 1 .. Len(s)
  <2>1. k - 1 \in 0 .. Len(s)  BY <1>1
  <2> QED BY <1>4, <1>5, <2>1
<1>7. Is(F)
  <2>1. \A k \in 0 .. Len(s) : k = 0 \/ k \in 1 .. Len(s)  BY <1>1
  <2>2. F = [k \in 0 .. Len(s) |-> F[k]]  OBVIOUS
  <2> QED BY <1>5, <1>6, <2>1, <2>2
<1>8. Parts(s) = (CHOOSE G : Is(G))[Len(s)]  BY Zenon DEF Parts
<1> HIDE DEF Is
<1>9. PICK G : G = (CHOOSE H : Is(H)) /\ Is(G)  BY <1>7
<1>10. /\ G[0] = <<<< >>>>
       /\ \A k \in 1 .. Len(s) : G[k] = Goes(G[k - 1], s[k])
  <2>1. \A k \in 0 .. Len(s) : G[k] = IF k = 0 THEN <<<< >>>> ELSE Goes(G[k - 1], s[k])
    BY ONLY <1>9, Zenon DEF Is
  <2>2. 0 \in 0 .. Len(s) /\ \A k \in 1 .. Len(s) : k \in 0 .. Len(s) /\ k # 0
    BY ONLY <1>1
  <2> QED BY ONLY <2>1, <2>2, Zenon
<1>11. G[Len(s)] = F[Len(s)]
  <2>1. \A k \in 1 .. Len(s) : G[k - 1] = F[k - 1] => G[k] = F[k]  BY ONLY <1>6, <1>10
  <2>2. F[0] = G[0]  BY ONLY <1>5, <1>10
  <2>3. PICK n \in Nat : n = Len(s)  BY ONLY <1>1
  <2> QED BY ONLY <2>1, <2>2, <2>3, SameRecursion
<1> QED BY <1>5, <1>6, <1>8, <1>9, <1>11

LEMMA PartsEmpty == Parts(<< >>) = <<<< >>>>
<1>1. << >> \in Text /\ Len(<< >>) = 0  BY EmptySeq DEF Text
<1> QED BY ONLY <1>1, PartsIs

LEMMA PartsLists == ASSUME NEW s \in Text PROVE Parts(s) \in Lists
<1>1. Len(s) \in Nat  BY LenProperties DEF Text
<1> QED BY <1>1, PartsIs

\* One more character.
LEMMA PartsGrows ==
    ASSUME NEW s \in Text, NEW c \in Chars
    PROVE  Parts(Append(s, c)) = Goes(Parts(s), c)
<1>1. PICK t \in Text : t = Append(s, c) /\ Len(t) = Len(s) + 1 /\ Len(s) \in Nat
        /\ t[Len(s) + 1] = c /\ \A k \in 1 .. Len(s) : t[k] = s[k]
  <2>1. s \in Seq(Chars)  BY DEF Text
  <2>2. Len(s) \in Nat  BY <2>1, LenProperties
  <2>3. Append(s, c) \in Seq(Chars) /\ Len(Append(s, c)) = Len(s) + 1
        /\ Append(s, c)[Len(s) + 1] = c /\ \A k \in 1 .. Len(s) : Append(s, c)[k] = s[k]
    BY <2>1, AppendProperties
  <2> QED BY ONLY <2>2, <2>3, Zenon DEF Text
<1>2. PICK F \in [0 .. Len(s) -> Lists] :
              /\ F[0] = <<<< >>>>
              /\ \A k \in 1 .. Len(s) : F[k] = Goes(F[k - 1], s[k])
              /\ Parts(s) = F[Len(s)]
  BY PartsIs
<1>3. PICK G \in [0 .. Len(t) -> Lists] :
              /\ G[0] = <<<< >>>>
              /\ \A k \in 1 .. Len(t) : G[k] = Goes(G[k - 1], t[k])
              /\ Parts(t) = G[Len(t)]
  BY PartsIs
<1>4. \A k \in 1 .. Len(s) : F[k - 1] = G[k - 1] => F[k] = G[k]
  <2>1. \A k \in 1 .. Len(s) : k \in 1 .. Len(t)  BY ONLY <1>1
  <2> QED BY ONLY <1>1, <1>2, <1>3, <2>1
<1>5. F[Len(s)] = G[Len(s)]
  <2>1. Len(s) \in Nat /\ F[0] = G[0]  BY ONLY <1>1, <1>2, <1>3
  <2> QED BY ONLY <1>4, <2>1, SameRecursion
<1>6. Len(t) \in 1 .. Len(t) /\ Len(t) - 1 = Len(s)  BY <1>1
<1>7. G[Len(t)] = Goes(G[Len(t) - 1], t[Len(t)])  BY ONLY <1>3, <1>6
<1> QED BY ONLY <1>1, <1>2, <1>3, <1>5, <1>6, <1>7

\* Characters that are no ',' go to the last part.
LEMMA PartsOfWord ==
    ASSUME NEW s \in Text, NEW t \in Text, None({","}, t)
    PROVE  Parts(s \o t) = Append(Front(Parts(s)), Last(Parts(s)) \o t)
<1>1. PICK f \in Seq(Text), l \in Text : Parts(s) = Append(f, l)
  BY PartsLists, FrontAndLast DEF Lists
<1>2. Front(Parts(s)) = f /\ Last(Parts(s)) = l  BY <1>1, OneMore
<1> DEFINE P == {u \in Text : None({","}, u) => Parts(s \o u) = Append(f, l \o u)}
<1>3. << >> \in P
  <2>1. s \o << >> = s /\ l \o << >> = l  BY ConcatEmptySeq DEF Text
  <2> QED BY <1>1, <2>1, EmptySeq DEF Text
<1>4. ASSUME NEW u \in P, NEW c \in Chars PROVE Append(u, c) \in P
  <2>1. u \in Text /\ Append(u, c) \in Text /\ s \o u \in Text /\ l \o u \in Text
    BY AppendProperties, ConcatProperties DEF Text
  <2> SUFFICES ASSUME None({","}, Append(u, c))
               PROVE  Parts(s \o Append(u, c)) = Append(f, l \o Append(u, c))
    BY <2>1
  <2>2. None({","}, u) /\ c # ","  BY <2>1, PrefixHas DEF Text
  <2>3. Parts(s \o Append(u, c)) = Goes(Parts(s \o u), c)
    BY <2>1, PartsGrows, ConcatAppend
  <2>4. Parts(s \o u) = Append(f, l \o u)  BY <2>2
  <2>5. Goes(Append(f, l \o u), c) = Append(f, Append(l \o u, c))
    <3>1. PICK x \in Text : x = l \o u  BY <2>1
    <3>2. PICK y \in Text : y = Append(x, c)  BY AppendProperties DEF Text
    <3>3. Grown(Text, f, x) /\ Grown(Text, f, y)  BY ONLY f \in Seq(Text), x \in Text, y \in Text, IsGrown
    <3>4. Goes(Append(f, x), c) = Append(f, y)
      BY ONLY <2>2, <3>2, <3>3, Zenon DEF Goes, Grown
    <3> QED BY ONLY <3>1, <3>2, <3>4, Zenon
  <2>6. Append(l \o u, c) = l \o Append(u, c)  BY <2>1, ConcatAppend
  <2> QED BY ONLY <2>3, <2>4, <2>5, <2>6
<1>5. P = Text  BY <1>3, <1>4, TextInduction DEF Text
<1> QED BY <1>2, <1>5

-----------------------------------------------------------------------------
(* The hosts of a line *)

\* Two functions from 1 on with the same steps end in the same.
LEMMA SameFromOne ==
    ASSUME NEW n \in Nat \ {0}, NEW F, NEW G, F[1] = G[1],
           \A k \in 2 .. n : F[k - 1] = G[k - 1] => F[k] = G[k]
    PROVE  F[n] = G[n]
<1> DEFINE P == {m \in Nat : m + 1 <= n => F[m + 1] = G[m + 1]}
<1>1. 0 \in P  OBVIOUS
<1>2. ASSUME NEW m \in Nat, m \in P PROVE m + 1 \in P
  <2> SUFFICES ASSUME m + 1 + 1 <= n PROVE F[m + 1 + 1] = G[m + 1 + 1]  OBVIOUS
  <2>1. m + 1 + 1 \in 2 .. n /\ (m + 1 + 1) - 1 = m + 1  OBVIOUS
  <2>2. F[m + 1] = G[m + 1]  BY <1>2
  <2> QED BY <2>1, <2>2
<1>3. n - 1 \in P
  <2>1. n - 1 \in Nat  OBVIOUS
  <2>2. Nat \subseteq P  BY <1>1, <1>2, SetInduction
  <2> QED BY <2>1, <2>2
<1> QED BY <1>3

\* The text x goes on with the host h.
Another(x, b, h) == x \o <<",">> \o b \o h

LEMMA CommaText == <<",">> \in Text
<1>1. "," \in Chars  BY CharsAssumption DEF NameMarks, HostMarks
<1>2. << >> \in Seq(Chars) /\ Append(<< >>, ",") = <<",">>  BY EmptySeq
<1> QED BY <1>1, <1>2, AppendProperties DEF Text

LEMMA AnotherText ==
    ASSUME NEW x \in Text, NEW b \in Text, NEW h \in Text PROVE Another(x, b, h) \in Text
<1>1. PICK c \in Text : c = <<",">>  BY CommaText
<1>2. x \o c \in Text  BY ConcatProperties DEF Text
<1>3. (x \o c) \o b \in Text  BY <1>2, ConcatProperties DEF Text
<1>4. ((x \o c) \o b) \o h \in Text  BY <1>3, ConcatProperties DEF Text
<1> QED BY ONLY <1>1, <1>4 DEF Another

Joins(hs, b, n) ==
    \E F \in [1 .. n -> Text] :
        /\ F[1] = hs[1]
        /\ \A k \in 2 .. n : F[k] = Another(F[k - 1], b, hs[k])
        /\ Joined(hs, b) = F[n]

\* Joined, step by step.
LEMMA JoinedIs ==
    ASSUME NEW hs \in Lists, NEW b \in Text
    PROVE  Len(hs) \in Nat \ {0} /\ Joins(hs, b, Len(hs))
<1>1. PICK n \in Nat \ {0} : n = Len(hs)  BY EmptySeq DEF Lists
<1>2. \A k \in 1 .. n : hs[k] \in Text  BY <1>1, ElementOfSeq DEF Lists
<1> DEFINE g == [x \in (1 .. n) \X Text |->
                    IF x[1] = 1 THEN hs[1] ELSE Another(x[2], b, hs[x[1]])]
           Is(F) == F = [k \in 1 .. n |->
                           IF k = 1 THEN hs[1]
                           ELSE F[k - 1] \o <<",">> \o b \o hs[k]]
<1>3. g \in [(1 .. n) \X Text -> Text]
  <2>1. \A x \in (1 .. n) \X Text :
          (IF x[1] = 1 THEN hs[1] ELSE Another(x[2], b, hs[x[1]])) \in Text
    <3> TAKE x \in (1 .. n) \X Text
    <3>1. x[1] \in 1 .. n /\ x[2] \in Text  OBVIOUS
    <3>2. 1 \in 1 .. n  OBVIOUS
    <3> QED BY <1>2, <3>1, <3>2, AnotherText
  <2> QED BY <2>1
<1>4. \A k \in 1 .. n, x \in Text :
        g[<<k, x>>] = IF k = 1 THEN hs[1] ELSE Another(x, b, hs[k])
  OBVIOUS
<1> HIDE DEF g
<1>5. << >> \in Text  BY EmptySeq DEF Text
<1>6. PICK F \in [0 .. n -> Text] :
        F[0] = << >> /\ \A k \in 1 .. n : F[k] = g[<<k, F[k - 1]>>]
  <2>1. Recurs(n, Text, << >>, g)  BY ONLY n \in Nat \ {0}, <1>3, <1>5, Recursion
  <2> QED BY ONLY <2>1 DEF Recurs
<1>7. F[1] = hs[1] /\ \A k \in 2 .. n : F[k] = Another(F[k - 1], b, hs[k])
  <2>1. ASSUME NEW k \in 1 .. n
        PROVE  F[k] = IF k = 1 THEN hs[1] ELSE Another(F[k - 1], b, hs[k])
    <3>1. k - 1 \in 0 .. n  OBVIOUS
    <3> QED BY <1>4, <1>6, <3>1
  <2>2. 1 \in 1 .. n /\ \A k \in 2 .. n : k \in 1 .. n /\ k # 1  OBVIOUS
  <2> QED BY ONLY <2>1, <2>2
<1> DEFINE E == [k \in 1 .. n |-> F[k]]
<1>8. E \in [1 .. n -> Text] /\ E[n] = F[n] /\ E[1] = F[1]
      /\ \A k \in 2 .. n : E[k] = F[k] /\ E[k - 1] = F[k - 1]
  OBVIOUS
<1>9. Is(E)
  <2>1. \A k \in 1 .. n : E[k] = IF k = 1 THEN hs[1] ELSE Another(E[k - 1], b, hs[k])
    <3> TAKE k \in 1 .. n
    <3>1. k = 1 \/ k \in 2 .. n  OBVIOUS
    <3> HIDE DEF E
    <3> QED BY ONLY <1>7, <1>8, <3>1
  <2>2. E = [k \in 1 .. n |-> E[k]]  OBVIOUS
  <2> HIDE DEF E
  <2>3. E = [k \in 1 .. n |-> IF k = 1 THEN hs[1] ELSE Another(E[k - 1], b, hs[k])]
    BY ONLY <2>1, <2>2, Zenon
  <2> QED BY ONLY <2>3, Zenon DEF Another
<1>10. Joined(hs, b) = (CHOOSE G : Is(G))[n]  BY <1>1, Zenon DEF Joined
<1> HIDE DEF Is, E
<1>11. PICK G : G = (CHOOSE H : Is(H)) /\ Is(G)  BY <1>9
<1>12. /\ G[1] = hs[1]
       /\ \A k \in 2 .. n : G[k] = Another(G[k - 1], b, hs[k])
  <2>1. \A k \in 1 .. n : G[k] = IF k = 1 THEN hs[1] ELSE Another(G[k - 1], b, hs[k])
    BY ONLY <1>11, Zenon DEF Is, Another
  <2>2. 1 \in 1 .. n /\ \A k \in 2 .. n : k \in 1 .. n /\ k # 1  OBVIOUS
  <2> QED BY ONLY <2>1, <2>2, Zenon
<1>13. G[n] = E[n]
  <2>1. \A k \in 2 .. n : G[k - 1] = E[k - 1] => G[k] = E[k]
    BY ONLY <1>7, <1>8, <1>12
  <2> QED BY ONLY n \in Nat \ {0}, <1>7, <1>8, <1>12, <2>1, SameFromOne
<1>14. \A k \in 2 .. n : E[k] = Another(E[k - 1], b, hs[k])  BY ONLY <1>7, <1>8
<1> QED BY ONLY <1>1, <1>7, <1>8, <1>10, <1>11, <1>13, <1>14, n \in Nat \ {0}, Zenon DEF Joins

LEMMA JoinedText ==
    ASSUME NEW hs \in Lists, NEW b \in Text PROVE Joined(hs, b) \in Text
<1>1. Len(hs) \in 1 .. Len(hs) /\ Joins(hs, b, Len(hs))  BY JoinedIs
<1> QED BY ONLY <1>1 DEF Joins

LEMMA JoinedOne ==
    ASSUME NEW h \in Text, NEW b \in Text PROVE Joined(<<h>>, b) = h
<1>1. <<h>> \in Lists /\ Len(<<h>>) = 1 /\ <<h>>[1] = h
  <2>1. << >> \in Seq(Text) /\ Append(<< >>, h) = <<h>>  BY EmptySeq
  <2> QED BY <2>1, AppendProperties DEF Lists
<1>2. Joins(<<h>>, b, 1)  BY ONLY <1>1, b \in Text, JoinedIs
<1> QED BY ONLY <1>1, <1>2 DEF Joins

\* One more host.
LEMMA JoinedGrows ==
    ASSUME NEW hs \in Lists, NEW h \in Text, NEW b \in Text
    PROVE  Joined(Append(hs, h), b) = Another(Joined(hs, b), b, h)
<1>1. PICK n \in Nat \ {0} : n = Len(hs)  BY JoinedIs
<1>2. PICK t \in Lists : t = Append(hs, h) /\ Len(t) = n + 1
        /\ t[n + 1] = h /\ \A k \in 1 .. n : t[k] = hs[k]
  <2>1. hs \in Seq(Text)  BY DEF Lists
  <2>2. PICK t : t = Append(hs, h)  OBVIOUS
  <2>3. /\ t \in Seq(Text) /\ t # << >> /\ Len(t) = n + 1 /\ t[n + 1] = h
        /\ \A k \in 1 .. n : t[k] = hs[k]
    BY <1>1, <2>1, <2>2, AppendProperties
  <2> QED BY <2>2, <2>3 DEF Lists
<1>3. PICK F \in [1 .. n -> Text] :
              /\ F[1] = hs[1]
              /\ \A k \in 2 .. n : F[k] = Another(F[k - 1], b, hs[k])
              /\ Joined(hs, b) = F[n]
  <2>1. Joins(hs, b, n)  BY <1>1, JoinedIs
  <2> QED BY ONLY <2>1 DEF Joins
<1>4. PICK G \in [1 .. n + 1 -> Text] :
              /\ G[1] = t[1]
              /\ \A k \in 2 .. n + 1 : G[k] = Another(G[k - 1], b, t[k])
              /\ Joined(t, b) = G[n + 1]
  <2>1. Joins(t, b, n + 1)  BY <1>2, JoinedIs
  <2> QED BY ONLY <2>1 DEF Joins
<1>5. \A k \in 2 .. n : F[k - 1] = G[k - 1] => F[k] = G[k]
  <2>1. \A k \in 2 .. n : k \in 1 .. n /\ k \in 2 .. n + 1  OBVIOUS
  <2> QED BY ONLY <1>2, <1>3, <1>4, <2>1
<1>6. F[n] = G[n]
  <2>1. F[1] = G[1]  BY <1>2, <1>3, <1>4
  <2> QED BY ONLY n \in Nat \ {0}, <1>5, <2>1, SameFromOne
<1>7. n + 1 \in 2 .. n + 1 /\ (n + 1) - 1 = n  OBVIOUS
<1>8. G[n + 1] = Another(G[n], b, h)  BY ONLY <1>2, <1>4, <1>7
<1> QED BY ONLY <1>2, <1>3, <1>4, <1>6, <1>8

\* Induction over the sequences that are not empty.
LEMMA ListInduction ==
    ASSUME NEW T, NEW P \in SUBSET Seq(T), \A h \in T : <<h>> \in P,
           \A s \in P, h \in T : s # << >> => Append(s, h) \in P
    PROVE  Seq(T) \ {<< >>} \subseteq P
<1> DEFINE Q == {s \in Seq(T) : s # << >> => s \in P}
<1>1. << >> \in Q  BY EmptySeq
<1>2. ASSUME NEW s \in Q, NEW h \in T PROVE Append(s, h) \in Q
  <2>1. Append(s, h) \in Seq(T)  BY AppendProperties
  <2>2. CASE s = << >>
    <3>1. Append(s, h) = <<h>>  BY <2>2
    <3> QED BY <2>1, <3>1
  <2>3. CASE s # << >>  BY <2>1, <2>3
  <2> QED BY <2>2, <2>3
<1>3. Q = Seq(T)  BY <1>1, <1>2, TextInduction
<1> QED BY <1>3

Host  == {h \in Text : h # << >> /\ None(HostMarks, h)}
HostSeqs == Seq(Host) \ {<< >>}

LEMMA HostsAreLists == Host \subseteq Text /\ HostSeqs \subseteq Lists
<1>1. Host \subseteq Text  BY DEF Host
<1>2. ASSUME NEW s \in Seq(Host) PROVE s \in Seq(Text)  BY <1>1, SeqMonotonic
<1> QED BY <1>1, <1>2 DEF HostSeqs, Lists

\* The characters of two texts.
LEMMA ConcatHas ==
    ASSUME NEW s \in Text, NEW t \in Text, NEW D
    PROVE  /\ None(D, s \o t) <=> None(D, s) /\ None(D, t)
           /\ Only(D, s \o t) <=> Only(D, s) /\ Only(D, t)
<1>1. PICK m \in Nat, n \in Nat : m = Len(s) /\ n = Len(t)  BY LenProperties DEF Text
<1>2. PICK u : u = s \o t  OBVIOUS
<1>3. Len(u) = m + n /\ \A k \in 1 .. m + n : u[k] = IF k <= m THEN s[k] ELSE t[k - m]
  BY <1>1, <1>2, ConcatProperties DEF Text
<1>4. \A k \in 1 .. m : k \in 1 .. m + n /\ u[k] = s[k]  BY ONLY <1>1, <1>3
<1>5. \A k \in 1 .. n : m + k \in 1 .. m + n /\ u[m + k] = t[k]
  <2> TAKE k \in 1 .. n
  <2>1. m + k \in 1 .. m + n /\ ~(m + k <= m) /\ m + k - m = k  OBVIOUS
  <2> QED BY ONLY <1>3, <2>1
<1>6. \A k \in 1 .. m + n : k \in 1 .. m \/ (k - m \in 1 .. n /\ u[k] = t[k - m])
  BY ONLY <1>3, m \in Nat, n \in Nat
<1>7. None(D, u) <=> None(D, s) /\ None(D, t)
  BY ONLY <1>1, <1>3, <1>4, <1>5, <1>6 DEF None
<1>8. Only(D, u) <=> Only(D, s) /\ Only(D, t)
  BY ONLY <1>1, <1>3, <1>4, <1>5, <1>6 DEF Only
<1> QED BY ONLY <1>2, <1>7, <1>8

LEMMA CommaHas ==
    ASSUME NEW D
    PROVE  None(D, <<",">>) <=> "," \notin D
<1>1. Len(<<",">>) = 1 /\ <<",">>[1] = ","  OBVIOUS
<1>2. 1 \in 1 .. 1 /\ \A k \in 1 .. 1 : k = 1  OBVIOUS
<1> QED BY ONLY <1>1, <1>2 DEF None

\* What is in no host, no blank and no ',' is not in the line.
LEMMA JoinedHas ==
    ASSUME NEW b \in Text, NEW D, D \subseteq HostMarks, "," \notin D, None(D, b),
           NEW hs \in HostSeqs
    PROVE  None(D, Joined(hs, b))
<1> DEFINE P == {s \in Seq(Host) : s # << >> => None(D, Joined(s, b))}
<1>1. ASSUME NEW h \in Host PROVE None(D, h)  BY DEF Host, None
<1>2. ASSUME NEW h \in Host PROVE <<h>> \in P
  <2>1. <<h>> \in Seq(Host)  BY ONLY h \in Host
  <2>2. h \in Text  BY DEF Host
  <2>3. Joined(<<h>>, b) = h  BY <2>2, JoinedOne
  <2> QED BY <1>1, <2>1, <2>3
<1>3. ASSUME NEW s \in P, NEW h \in Host, s # << >> PROVE Append(s, h) \in P
  <2>1. s \in Lists /\ h \in Text  BY <1>3, HostsAreLists DEF HostSeqs
  <2>2. Append(s, h) \in Seq(Host)  BY AppendProperties
  <2>3. Joined(Append(s, h), b) = Another(Joined(s, b), b, h)  BY <2>1, JoinedGrows
  <2>4. PICK x \in Text : x = Joined(s, b) /\ None(D, x)  BY <1>3, <2>1, JoinedText
  <2>5. PICK c \in Text : c = <<",">> /\ None(D, c)  BY CommaText, CommaHas
  <2>6. x \o c \in Text /\ None(D, x \o c)
    BY <2>4, <2>5, ConcatHas, ConcatProperties DEF Text
  <2>7. (x \o c) \o b \in Text /\ None(D, (x \o c) \o b)
    BY <2>6, ConcatHas, ConcatProperties DEF Text
  <2>8. None(D, ((x \o c) \o b) \o h)
    BY <1>1, <2>1, <2>7, ConcatHas
  <2> QED BY ONLY <2>2, <2>3, <2>4, <2>5, <2>8 DEF Another, P
<1>4. HostSeqs \subseteq P  BY <1>2, <1>3, ListInduction DEF HostSeqs
<1> QED BY <1>4 DEF HostSeqs

\* The split gives the hosts back.
LEMMA JoinedParts == ASSUME NEW hs \in HostSeqs PROVE Parts(Joined(hs, << >>)) = hs
<1> DEFINE P == {s \in Seq(Host) : s # << >> => Parts(Joined(s, << >>)) = s}
<1>1. << >> \in Text /\ << >> \in Seq(Text)  BY EmptySeq DEF Text
<1>2. ASSUME NEW h \in Host PROVE None({","}, h)  BY DEF Host, None, HostMarks
<1>3. ASSUME NEW h \in Host PROVE <<h>> \in P
  <2>1. <<h>> \in Seq(Host)  BY ONLY h \in Host
  <2>2. h \in Text  BY DEF Host
  <2>3. Joined(<<h>>, << >>) = h  BY <1>1, <2>2, JoinedOne
  <2>4. Parts(<< >> \o h) = Append(Front(Parts(<< >>)), Last(Parts(<< >>)) \o h)
    BY <1>1, <1>2, <2>2, PartsOfWord
  <2>5. << >> \o h = h  BY <2>2, ConcatEmptySeq DEF Text
  <2>6. Parts(<< >>) = Append(<< >>, << >>)  BY PartsEmpty
  <2>7. Grown(Text, << >>, << >>)  BY <1>1, IsGrown
  <2>8. Parts(h) = Append(<< >>, h)
    BY ONLY <2>4, <2>5, <2>6, <2>7, Zenon DEF Grown
  <2>9. Append(<< >>, h) = <<h>>  OBVIOUS
  <2> QED BY <2>1, <2>3, <2>8, <2>9
<1>4. ASSUME NEW s \in P, NEW h \in Host, s # << >> PROVE Append(s, h) \in P
  <2>1. s \in Lists /\ h \in Text  BY <1>4, HostsAreLists DEF HostSeqs
  <2>2. Append(s, h) \in Seq(Host)  BY AppendProperties
  <2>3. Joined(Append(s, h), << >>) = Another(Joined(s, << >>), << >>, h)
    BY <1>1, <2>1, JoinedGrows
  <2>4. PICK x \in Text : x = Joined(s, << >>) /\ Parts(x) = s
    BY <1>1, <1>4, <2>1, JoinedText
  <2>5. PICK c \in Text : c = <<",">>  BY CommaText
  <2>6. x \o c \in Text /\ x \o c = Append(x, ",")
    <3>1. "," \in Chars  BY CharsAssumption DEF NameMarks, HostMarks
    <3>2. x \o c \in Text  BY ConcatProperties DEF Text
    <3>3. Grown(Chars, x, ",")  BY <3>1, IsGrown DEF Text
    <3> QED BY ONLY <2>5, <3>2, <3>3 DEF Grown
  <2>7. Parts(x \o c) = Append(s, << >>)
    <3>1. "," \in Chars  BY CharsAssumption DEF NameMarks, HostMarks
    <3>2. Parts(Append(x, ",")) = Goes(s, ",")  BY <2>4, <3>1, PartsGrows
    <3> QED BY ONLY <2>6, <3>2 DEF Goes
  <2>8. (x \o c) \o << >> = x \o c  BY <2>6, ConcatEmptySeq DEF Text
  <2>9. Parts((x \o c) \o h)
          = Append(Front(Parts(x \o c)), Last(Parts(x \o c)) \o h)
    BY <1>2, <2>1, <2>6, PartsOfWord
  <2>10. Grown(Text, s, << >>)  BY <1>1, <2>1, IsGrown DEF Lists
  <2>11. << >> \o h = h  BY <2>1, ConcatEmptySeq DEF Text
  <2>12. Parts((x \o c) \o h) = Append(s, h)
    BY ONLY <2>7, <2>9, <2>10, <2>11, Zenon DEF Grown
  <2> QED BY ONLY <2>2, <2>3, <2>4, <2>5, <2>8, <2>12 DEF Another, P
<1>5. HostSeqs \subseteq P  BY <1>3, <1>4, ListInduction DEF HostSeqs
<1> QED BY <1>5 DEF HostSeqs

\* Nothing but the blanks between the hosts is removed.
LEMMA JoinedCleaned ==
    ASSUME NEW b \in Text, Only(Removed, b), NEW hs \in HostSeqs
    PROVE  Cleaned(Joined(hs, b)) = Joined(hs, << >>)
<1> DEFINE P == {s \in Seq(Host) : s # << >> => Cleaned(Joined(s, b)) = Joined(s, << >>)}
<1>1. << >> \in Text  BY EmptySeq DEF Text
<1>2. ASSUME NEW h \in Host PROVE h \in Text /\ Cleaned(h) = h
  <2>1. h \in Text /\ None(Removed, h)  BY DEF Host, None, HostMarks, Removed
  <2> QED BY <2>1, CleanedNone
<1>3. ASSUME NEW h \in Host PROVE <<h>> \in P
  <2>1. <<h>> \in Seq(Host)  BY ONLY h \in Host
  <2>2. Joined(<<h>>, << >>) = h /\ Joined(<<h>>, b) = h  BY <1>1, <1>2, JoinedOne
  <2> QED BY <1>2, <2>1, <2>2
<1>4. ASSUME NEW s \in P, NEW h \in Host, s # << >> PROVE Append(s, h) \in P
  <2>1. s \in Lists /\ h \in Text  BY <1>4, HostsAreLists DEF HostSeqs
  <2>2. Append(s, h) \in Seq(Host)  BY AppendProperties
  <2>3. /\ Joined(Append(s, h), << >>) = Another(Joined(s, << >>), << >>, h)
        /\ Joined(Append(s, h), b) = Another(Joined(s, b), b, h)
    BY <1>1, <2>1, JoinedGrows
  <2>4. PICK x \in Text, y \in Text :
          x = Joined(s, b) /\ y = Joined(s, << >>) /\ Cleaned(x) = y
    BY <1>1, <1>4, <2>1, JoinedText
  <2>5. PICK c \in Text : c = <<",">> /\ Cleaned(c) = c
    <3>1. "," \notin Removed  BY DEF Removed
    <3> QED BY <3>1, CommaText, CommaHas, CleanedNone
  <2>6. x \o c \in Text /\ Cleaned(x \o c) = y \o c /\ y \o c \in Text
    BY <2>4, <2>5, CleanedConcat, ConcatProperties DEF Text
  <2>7. (x \o c) \o b \in Text /\ Cleaned((x \o c) \o b) = (y \o c) \o << >>
    BY <2>6, CleanedConcat, CleanedAll, ConcatProperties DEF Text
  <2>8. Cleaned(((x \o c) \o b) \o h) = ((y \o c) \o << >>) \o h
    <3>1. PICK w \in Text : w = (x \o c) \o b /\ Cleaned(w) = (y \o c) \o << >>
      BY ONLY <2>7
    <3>2. Cleaned(w \o h) = Cleaned(w) \o Cleaned(h)  BY <2>1, CleanedConcat
    <3> QED BY ONLY <1>2, <3>1, <3>2
  <2> QED BY ONLY <2>2, <2>3, <2>4, <2>5, <2>8 DEF Another, P
<1>5. HostSeqs \subseteq P  BY <1>3, <1>4, ListInduction DEF HostSeqs
<1> QED BY <1>5 DEF HostSeqs

Flat(s) == Joined(s, << >>)

Grows(s, t, h) == s \o Append(t, h) = Append(s \o t, h)

LEMMA ConcatOneMore ==
    ASSUME NEW T, NEW s \in Seq(T), NEW t \in Seq(T), NEW h \in T
    PROVE  Grows(s, t, h)
<1>1. <<h>> \in Seq(T) /\ s \o t \in Seq(T)  BY ConcatProperties
<1>2. Append(t, h) = t \o <<h>>  BY AppendIsConcat
<1>3. Append(s \o t, h) = (s \o t) \o <<h>>  BY <1>1, AppendIsConcat
<1>4. (s \o t) \o <<h>> = s \o (t \o <<h>>)  BY <1>1, ConcatAssociative
<1> QED BY ONLY <1>2, <1>3, <1>4 DEF Grows

\* What is before a list of hosts stays before it when the list grows.
LEMMA AnotherConcat ==
    ASSUME NEW d \in Text, NEW y \in Text, NEW h \in Text
    PROVE  Another(d \o y, << >>, h) = d \o Another(y, << >>, h)
<1>1. PICK c \in Text : c = <<",">>  BY CommaText
<1>2. y \o c \in Text /\ d \o y \in Text /\ (d \o y) \o c \in Text
  BY ConcatProperties DEF Text
<1>3. (y \o c) \o << >> = y \o c /\ ((d \o y) \o c) \o << >> = (d \o y) \o c
  BY <1>2, ConcatEmptySeq DEF Text
<1>4. (d \o y) \o c = d \o (y \o c)
  <2>1. Regrouped(d, y, c)  BY Regroup
  <2> QED BY ONLY <2>1 DEF Regrouped
<1>5. (d \o (y \o c)) \o h = d \o ((y \o c) \o h)
  <2>1. PICK w \in Text : w = y \o c  BY ONLY <1>2
  <2>2. Regrouped(d, w, h)  BY Regroup
  <2> QED BY ONLY <2>1, <2>2 DEF Regrouped
<1> QED BY ONLY <1>1, <1>3, <1>4, <1>5 DEF Another

LEMMA ConcatIsList ==
    ASSUME NEW s \in HostSeqs, NEW t \in Seq(Host) PROVE s \o t \in HostSeqs
<1>1. s \in Seq(Host) /\ s # << >>  BY DEF HostSeqs
<1>2. s \o t \in Seq(Host)  BY <1>1, ConcatProperties
<1>3. s \o t = << >> <=> s = << >> /\ t = << >>  BY <1>1, ConcatEqualIffEmpty
<1> QED BY <1>1, <1>2, <1>3 DEF HostSeqs

\* Two lists of hosts, one after the other: what a continuation makes.
LEMMA JoinedConcat ==
    ASSUME NEW hs \in HostSeqs, NEW gs \in HostSeqs
    PROVE  Flat(hs \o gs) = Flat(hs) \o <<",">> \o Flat(gs)
<1> DEFINE P == {s \in Seq(Host) :
                   s # << >> => Flat(hs \o s) = Flat(hs) \o <<",">> \o Flat(s)}
<1>1. << >> \in Text /\ hs \in Lists /\ hs \in Seq(Host)
  BY EmptySeq, HostsAreLists DEF Text, HostSeqs
<1>2. PICK x \in Text, c \in Text : x = Flat(hs) /\ c = <<",">>
  BY <1>1, JoinedText, CommaText DEF Flat
<1>3. x \o c \in Text /\ (x \o c) \o << >> = x \o c
  BY ConcatProperties, ConcatEmptySeq DEF Text
<1>4. ASSUME NEW h \in Host PROVE <<h>> \in P
  <2>1. <<h>> \in Seq(Host)  BY ONLY h \in Host
  <2>2. h \in Text  BY DEF Host
  <2>3. Flat(<<h>>) = h  BY <1>1, <2>2, JoinedOne DEF Flat
  <2>4. hs \o <<h>> = Append(hs, h)  BY <1>1, OneMore
  <2>5. Flat(Append(hs, h)) = Another(x, << >>, h)  BY <1>1, <1>2, <2>2, JoinedGrows DEF Flat
  <2>6. Flat(hs \o <<h>>) = (x \o c) \o h  BY ONLY <1>2, <1>3, <2>4, <2>5 DEF Another
  <2> QED BY ONLY <1>2, <2>1, <2>3, <2>6 DEF P
<1>5. ASSUME NEW s \in P, NEW h \in Host, s # << >> PROVE Append(s, h) \in P
  <2>1. s \in Lists /\ h \in Text /\ s \in Seq(Host)  BY <1>5, HostsAreLists DEF HostSeqs
  <2>2. Append(s, h) \in Seq(Host)  BY AppendProperties
  <2>3. hs \o s \in Lists  BY <2>1, ConcatIsList, HostsAreLists
  <2>4. hs \o Append(s, h) = Append(hs \o s, h)  
    <3>1. Grows(hs, s, h)  BY <1>1, <2>1, ConcatOneMore
    <3> QED BY ONLY <3>1 DEF Grows
  <2>5. PICK y \in Text : y = Flat(s)  BY <1>1, <2>1, JoinedText DEF Flat
  <2>6. Flat(hs \o s) = (x \o c) \o y  BY <1>2, <1>5, <2>5
  <2>7. Flat(Append(s, h)) = Another(y, << >>, h)  BY <1>1, <2>1, <2>5, JoinedGrows DEF Flat
  <2>8. Flat(Append(hs \o s, h)) = Another((x \o c) \o y, << >>, h)
    <3>1. PICK z \in Lists : z = hs \o s  BY ONLY <2>3
    <3>2. Flat(Append(z, h)) = Another(Flat(z), << >>, h)
      BY <1>1, <2>1, JoinedGrows DEF Flat
    <3> QED BY ONLY <2>6, <3>1, <3>2
  <2>9. Another((x \o c) \o y, << >>, h) = (x \o c) \o Another(y, << >>, h)
    BY <1>3, <2>1, AnotherConcat
  <2> QED BY ONLY <1>2, <2>2, <2>4, <2>7, <2>8, <2>9 DEF P
<1>6. HostSeqs \subseteq P  BY <1>4, <1>5, ListInduction DEF HostSeqs
<1> QED BY <1>6 DEF HostSeqs

-----------------------------------------------------------------------------
(* The loop of ini_parse_file, for the pieces of a line that fits *)

LEMMA MaxIs ==
    ASSUME NEW D \in SUBSET Nat, NEW m \in D, \A k \in D : k <= m
    PROVE  Max(D) = m
<1>1. m >= m /\ \A k \in D : m >= k  OBVIOUS
<1>2. \A x \in D : (\A y \in D : x >= y) => x = m  OBVIOUS
<1> QED BY <1>1, <1>2, Zenon DEF Max

LEMMA MinIs ==
    ASSUME NEW D \in SUBSET Nat, NEW m \in D, \A k \in D : m <= k
    PROVE  Min(D) = m
<1>1. m <= m /\ \A k \in D : m <= k  OBVIOUS
<1>2. \A x \in D : (\A y \in D : x <= y) => x = m  OBVIOUS
<1> QED BY <1>1, <1>2, Zenon DEF Min

\* The loop of ini_parse_file over one piece and over two.
LEMMA FoldOne ==
    ASSUME NEW p, DOMAIN p = {1}, NEW r
    PROVE  FoldLeft(Line, r, p) = Line(r, p[1])
<1> DEFINE Is(F) == F = [s \in SUBSET {1} |->
                           IF s = {} THEN r ELSE Line(F[s \ {Max(s)}], p[Max(s)])]
           E == [s \in SUBSET {1} |-> IF s = {} THEN r ELSE Line(r, p[1])]
<1>1. Max({1}) = 1  BY MaxIs
<1>2. Is(E)
  <2>1. \A s \in SUBSET {1} : s # {} => s = {1} /\ s \ {1} = {}  OBVIOUS
  <2>2. E[{}] = r  OBVIOUS
  <2>3. \A s \in SUBSET {1} : E[s] = IF s = {} THEN r ELSE Line(E[s \ {Max(s)}], p[Max(s)])
    BY ONLY <1>1, <2>1, <2>2, Zenon DEF E
  <2>4. E = [s \in SUBSET {1} |-> E[s]]  OBVIOUS
  <2> HIDE DEF E
  <2> QED BY ONLY <2>3, <2>4, Zenon
<1>3. FoldLeft(Line, r, p) = (CHOOSE F : Is(F))[{1}]
  BY Zenon DEF FoldLeft, MapThenFoldSet
<1> HIDE DEF Is, E
<1>4. PICK G : G = (CHOOSE F : Is(F)) /\ Is(G)  BY <1>2
<1>5. {} \in SUBSET {1} /\ {1} \in SUBSET {1} /\ {1} \ {1} = {} /\ {1} # {}  OBVIOUS
<1>6. G[{}] = r  BY ONLY <1>4, <1>5, Zenon DEF Is
<1>7. G[{1}] = Line(G[{1} \ {Max({1})}], p[Max({1})])  BY ONLY <1>4, <1>5, Zenon DEF Is
<1> QED BY ONLY <1>1, <1>3, <1>4, <1>5, <1>6, <1>7, Zenon

LEMMA FoldTwo ==
    ASSUME NEW p, DOMAIN p = {1, 2}, NEW r
    PROVE  FoldLeft(Line, r, p) = Line(Line(r, p[1]), p[2])
<1> DEFINE T == SUBSET {1, 2}
           Is(F) == F = [s \in T |->
                           IF s = {} THEN r ELSE Line(F[s \ {Max(s)}], p[Max(s)])]
           E == [s \in T |-> IF s = {} THEN r
                             ELSE IF s = {1} THEN Line(r, p[1])
                             ELSE IF s = {2} THEN Line(r, p[2])
                             ELSE Line(Line(r, p[1]), p[2])]
<1>1. Max({1}) = 1 /\ Max({2}) = 2 /\ Max({1, 2}) = 2  BY MaxIs
<1>2. /\ {} \in T /\ {1} \in T /\ {2} \in T /\ {1, 2} \in T
      /\ {1} \ {1} = {} /\ {2} \ {2} = {} /\ {1, 2} \ {2} = {1}
      /\ {1} # {} /\ {2} # {} /\ {1, 2} # {}
      /\ {1} # {2} /\ {1, 2} # {1} /\ {1, 2} # {2}
  OBVIOUS
<1>3. Is(E)
  <2>1. \A s \in T : s = {} \/ s = {1} \/ s = {2} \/ s = {1, 2}  OBVIOUS
  <2>2. /\ E[{}] = r /\ E[{1}] = Line(r, p[1]) /\ E[{2}] = Line(r, p[2])
        /\ E[{1, 2}] = Line(Line(r, p[1]), p[2])
    BY <1>2
  <2>3. E = [s \in T |-> E[s]]  OBVIOUS
  <2> HIDE DEF E, T
  <2>4. \A s \in T : E[s] = IF s = {} THEN r ELSE Line(E[s \ {Max(s)}], p[Max(s)])
    <3> TAKE s \in T
    <3>1. CASE s = {}  BY ONLY <2>2, <3>1
    <3>2. CASE s = {1}  BY ONLY <1>2, <1>1, <2>2, <3>2
    <3>3. CASE s = {2}  BY ONLY <1>2, <1>1, <2>2, <3>3
    <3>4. CASE s = {1, 2}  BY ONLY <1>2, <1>1, <2>2, <3>4
    <3> QED BY ONLY <2>1, <3>1, <3>2, <3>3, <3>4, s \in T
  <2> QED BY ONLY <2>4, <2>3, Zenon
<1>4. FoldLeft(Line, r, p) = (CHOOSE F : Is(F))[{1, 2}]
  BY Zenon DEF FoldLeft, MapThenFoldSet
<1> HIDE DEF Is, E, T
<1>5. PICK G : G = (CHOOSE F : Is(F)) /\ Is(G)  BY <1>3
<1>6. G[{}] = r  BY ONLY <1>5, <1>2, Zenon DEF Is
<1>7. G[{1}] = Line(G[{1} \ {Max({1})}], p[Max({1})])  BY ONLY <1>5, <1>2, Zenon DEF Is
<1>8. G[{1, 2}] = Line(G[{1, 2} \ {Max({1, 2})}], p[Max({1, 2})])
  BY ONLY <1>5, <1>2, Zenon DEF Is
<1> QED BY ONLY <1>2, <1>1, <1>4, <1>5, <1>6, <1>7, <1>8, Zenon

\* Two texts, taken apart again.
LEMMA Cut ==
    ASSUME NEW u \in Text, NEW w \in Text
    PROVE  /\ SubSeq(u \o w, 1, Len(u)) = u
           /\ SubSeq(u \o w, Len(u) + 1, Len(u \o w)) = w
<1>1. PICK m \in Nat, n \in Nat : m = Len(u) /\ n = Len(w)  BY LenProperties DEF Text
<1>2. PICK s \in Text : s = u \o w  BY ConcatProperties DEF Text
<1>3. Len(s) = m + n /\ \A k \in 1 .. m + n : s[k] = IF k <= m THEN u[k] ELSE w[k - m]
  BY <1>1, <1>2, ConcatProperties DEF Text
<1>4. \A k \in 1 .. m + n : s[k] \in Chars  BY <1>3, ElementOfSeq DEF Text
<1>5. SubSeq(s, 1, m) = u
  <2>1. \A k \in 1 .. m : s[k] \in Chars  BY <1>4
  <2>2. PICK v : v = SubSeq(s, 1, m)  OBVIOUS
  <2>3. /\ v \in Seq(Chars) /\ Len(v) = IF 1 <= m THEN m - 1 + 1 ELSE 0
        /\ \A k \in 1 .. m - 1 + 1 : v[k] = s[1 + k - 1]
    BY ONLY m \in Nat, <2>1, <2>2, SubSeqProperties
  <2>4. Len(v) = m /\ \A k \in 1 .. m : v[k] = u[k]  BY ONLY <1>3, <2>3, m \in Nat, n \in Nat
  <2> QED BY <1>1, <2>2, <2>3, <2>4, SeqEqual DEF Text
<1>6. SubSeq(s, m + 1, m + n) = w
  <2>1. \A k \in m + 1 .. m + n : s[k] \in Chars  BY <1>4
  <2>2. PICK v : v = SubSeq(s, m + 1, m + n)  OBVIOUS
  <2>3. /\ v \in Seq(Chars)
        /\ Len(v) = IF m + 1 <= m + n THEN (m + n) - (m + 1) + 1 ELSE 0
        /\ \A k \in 1 .. (m + n) - (m + 1) + 1 : v[k] = s[(m + 1) + k - 1]
    <3>1. m + 1 \in Int /\ m + n \in Int  OBVIOUS
    <3> QED BY ONLY <3>1, <2>1, <2>2, SubSeqProperties
  <2>4. Len(v) = n /\ \A k \in 1 .. n : v[k] = w[k]
    <3>1. Len(v) = n  BY ONLY <2>3, m \in Nat, n \in Nat
    <3>2. ASSUME NEW k \in 1 .. n PROVE v[k] = w[k]
      <4>1. /\ k \in 1 .. (m + n) - (m + 1) + 1 /\ (m + 1) + k - 1 = m + k
            /\ m + k \in 1 .. m + n /\ ~(m + k <= m) /\ m + k - m = k
        BY ONLY k \in 1 .. n, m \in Nat, n \in Nat
      <4> QED BY ONLY <1>3, <2>3, <4>1
    <3> QED BY <3>1, <3>2
  <2> QED BY <1>1, <2>2, <2>3, <2>4, SeqEqual DEF Text
<1> QED BY ONLY <1>1, <1>2, <1>3, <1>5, <1>6

\* A line that fits the buffer is one piece; one whose newline does not
\* fit is two (ini.c:91).
LEMMA PiecesOne ==
    ASSUME NEW t \in Text, t # << >>, Len(t) < INI_MAX_LINE
    PROVE  DOMAIN Pieces(t) = {1} /\ Pieces(t)[1] = t
<1>1. PICK n \in Nat \ {0} : n = Len(t)  BY EmptySeq DEF Text
<1>2. PICK z \in Nat \ {0} : z = INI_MAX_LINE - 1 /\ n <= z  BY <1>1, SizesAssumption
<1>3. (n + z - 1) \div z = 1
  <2>1. PICK a \in Nat : a = n - 1 /\ n + z - 1 = 1 * z + a /\ a < z  BY <1>2
  <2>2. (1 * z + a) \div z = 1  BY <2>1
  <2> QED BY ONLY <2>1, <2>2, Zenon
<1>4. Pieces(t) = [k \in 1 .. 1 |-> SubSeq(t, (k - 1) * z + 1, Min({k * z, n}))]
  BY ONLY <1>1, <1>2, <1>3 DEF Pieces
<1>5. (1 - 1) * z + 1 = 1 /\ Min({1 * z, n}) = n /\ 1 .. 1 = {1}
  <2>1. 1 * z = z /\ {z, n} \in SUBSET Nat  OBVIOUS
  <2>2. Min({z, n}) = n  BY <1>2, <2>1, MinIs
  <2>3. (1 - 1) * z + 1 = 1 /\ 1 .. 1 = {1}  OBVIOUS
  <2> QED BY ONLY <2>1, <2>2, <2>3
<1>6. SubSeq(t, 1, n) = t  BY <1>1, SubSeqFull DEF Text
<1> QED BY ONLY <1>4, <1>5, <1>6

LEMMA PiecesTwo ==
    ASSUME NEW u \in Text, Len(u) = INI_MAX_LINE - 1, NEW w \in Text, Len(w) = 1
    PROVE  /\ DOMAIN Pieces(u \o w) = {1, 2}
           /\ Pieces(u \o w)[1] = u /\ Pieces(u \o w)[2] = w
<1>1. PICK t \in Text : t = u \o w /\ Len(t) = Len(u) + 1
  <2>1. u \o w \in Text /\ Len(u \o w) = Len(u) + Len(w)
    BY ConcatProperties DEF Text
  <2> QED BY <2>1
<1>2. PICK z \in Nat \ {0} : z = INI_MAX_LINE - 1 /\ Len(u) = z /\ Len(t) = z + 1
  BY <1>1, SizesAssumption
<1>3. ((z + 1) + z - 1) \div z = 2
  <2>1. (z + 1) + z - 1 = 2 * z  OBVIOUS
  <2>2. (2 * z) \div z = 2  OBVIOUS
  <2> QED BY <2>1, <2>2
<1>4. Pieces(t) = [k \in 1 .. 2 |-> SubSeq(t, (k - 1) * z + 1, Min({k * z, z + 1}))]
  BY ONLY <1>1, <1>2, <1>3 DEF Pieces
<1>5. /\ (1 - 1) * z + 1 = 1 /\ Min({1 * z, z + 1}) = z /\ 1 .. 2 = {1, 2}
      /\ (2 - 1) * z + 1 = z + 1 /\ Min({2 * z, z + 1}) = z + 1
  <2>1. 1 * z = z /\ {z, z + 1} \in SUBSET Nat  OBVIOUS
  <2>2. Min({z, z + 1}) = z  BY <2>1, MinIs
  <2>3. {2 * z, z + 1} \in SUBSET Nat /\ z + 1 <= 2 * z  OBVIOUS
  <2>4. Min({2 * z, z + 1}) = z + 1  BY <2>3, MinIs
  <2>5. (1 - 1) * z + 1 = 1 /\ (2 - 1) * z + 1 = z + 1 /\ 1 .. 2 = {1, 2}  OBVIOUS
  <2> QED BY ONLY <2>1, <2>2, <2>4, <2>5
<1>6. SubSeq(t, 1, z) = u /\ SubSeq(t, z + 1, z + 1) = w
  <2>1. /\ SubSeq(u \o w, 1, Len(u)) = u
        /\ SubSeq(u \o w, Len(u) + 1, Len(u \o w)) = w
    BY Cut
  <2> QED BY ONLY <1>1, <1>2, <2>1
<1> QED BY ONLY <1>1, <1>4, <1>5, <1>6

-----------------------------------------------------------------------------
(* Stripping and searching *)

Spaces == {" ", "\t", "\n", "\r", "vt", "ff"}

\* A text that neither begins nor ends with white space.
Solid(s) ==
    /\ s \in Text /\ Len(s) \in Nat \ {0}
    /\ s[1] \notin Spaces /\ s[Len(s)] \notin Spaces

\* rstrip takes the white space at the end, and nothing else; lskip that at
\* the start.
LEMMA Strips ==
    ASSUME NEW u \in Text, Len(u) \in Nat \ {0}, u[Len(u)] \notin Spaces,
           NEW w \in Text, Only(Spaces, w)
    PROVE  rstrip(u \o w) = u
<1>1. PICK m \in Nat \ {0}, n \in Nat : m = Len(u) /\ n = Len(w)
  BY LenProperties DEF Text
<1>2. PICK s \in Text : s = u \o w  BY ConcatProperties DEF Text
<1>3. Len(s) = m + n /\ \A k \in 1 .. m + n : s[k] = IF k <= m THEN u[k] ELSE w[k - m]
  BY <1>1, <1>2, ConcatProperties DEF Text
<1> DEFINE D == {k \in 1 .. m + n : ~isspace(s[k])}
<1>4. m \in D /\ D \in SUBSET Nat
  <2>1. m \in 1 .. m + n /\ s[m] = u[m]  BY ONLY <1>3, m \in Nat \ {0}, n \in Nat
  <2>2. ~isspace(u[m])  BY <1>1 DEF isspace, Spaces
  <2> QED BY <2>1, <2>2
<1>5. \A k \in D : k <= m
  <2> SUFFICES ASSUME NEW k \in 1 .. m + n, k > m PROVE isspace(s[k])  OBVIOUS
  <2>1. k - m \in 1 .. n /\ ~(k <= m)  OBVIOUS
  <2>2. s[k] = w[k - m]  BY ONLY <1>3, <2>1, k \in 1 .. m + n
  <2>3. w[k - m] \in Spaces  BY <1>1, <2>1 DEF Only
  <2> QED BY ONLY <2>2, <2>3 DEF isspace, Spaces
<1>6. Max(D) = m  BY ONLY <1>4, <1>5, MaxIs
<1>7. rstrip(s) = SubSeq(s, 1, IF D # {} THEN Max(D) ELSE 0)
  BY <1>3, Zenon DEF rstrip, SelectLastInSeq
<1>8. SubSeq(u \o w, 1, Len(u)) = u  BY Cut
<1> QED BY ONLY <1>1, <1>2, <1>4, <1>6, <1>7, <1>8

LEMMA StripsAll ==
    ASSUME NEW w \in Text, Only(Spaces, w) PROVE rstrip(w) = << >>
<1> DEFINE D == {k \in 1 .. Len(w) : ~isspace(w[k])}
<1>1. D = {}  BY DEF Only, Spaces, isspace
<1>2. rstrip(w) = SubSeq(w, 1, IF D # {} THEN Max(D) ELSE 0)
  BY Zenon DEF rstrip, SelectLastInSeq
<1>3. SubSeq(w, 1, 0) = << >>  BY SubSeqEmpty
<1> QED BY ONLY <1>1, <1>2, <1>3

LEMMA Skips ==
    ASSUME NEW u \in Text, Len(u) \in Nat \ {0}, u[1] \notin Spaces,
           NEW w \in Text, Only(Spaces, w)
    PROVE  lskip(w \o u) = u
<1>1. PICK m \in Nat \ {0}, n \in Nat : m = Len(u) /\ n = Len(w)
  BY LenProperties DEF Text
<1>2. PICK s \in Text : s = w \o u  BY ConcatProperties DEF Text
<1>3. Len(s) = n + m /\ \A k \in 1 .. n + m : s[k] = IF k <= n THEN w[k] ELSE u[k - n]
  BY <1>1, <1>2, ConcatProperties DEF Text
<1> DEFINE D == {k \in 1 .. n + m : ~isspace(s[k])}
<1>4. n + 1 \in D /\ D \in SUBSET Nat
  <2>1. n + 1 \in 1 .. n + m /\ s[n + 1] = u[1]
    <3>1. n + 1 \in 1 .. n + m /\ ~(n + 1 <= n) /\ n + 1 - n = 1  OBVIOUS
    <3> QED BY ONLY <1>3, <3>1
  <2>2. ~isspace(u[1])  BY <1>1 DEF isspace, Spaces
  <2> QED BY <2>1, <2>2
<1>5. \A k \in D : n + 1 <= k
  <2> SUFFICES ASSUME NEW k \in 1 .. n + m, k <= n PROVE isspace(s[k])  OBVIOUS
  <2>1. k \in 1 .. n  OBVIOUS
  <2>2. s[k] = w[k]  BY ONLY <1>3, <2>1, k \in 1 .. n + m
  <2>3. w[k] \in Spaces  BY <1>1, <2>1 DEF Only
  <2> QED BY ONLY <2>2, <2>3 DEF isspace, Spaces
<1>6. Min(D) = n + 1  BY ONLY <1>4, <1>5, MinIs
<1>7. lskip(s) = LET x == IF D # {} THEN Min(D) ELSE 0
                 IN  IF x = 0 THEN << >> ELSE SubSeq(s, x, Len(s))
  BY <1>3, Zenon DEF lskip, SelectInSeq
<1>8. SubSeq(w \o u, Len(w) + 1, Len(w \o u)) = u  BY Cut
<1>9. n + 1 # 0  OBVIOUS
<1> QED BY ONLY <1>1, <1>2, <1>4, <1>6, <1>7, <1>8, <1>9

LEMMA SkipsAll == lskip(<< >>) = << >>
<1>1. Len(<< >>) = 0 /\ 1 .. 0 = {}  OBVIOUS
<1> DEFINE D == {k \in 1 .. Len(<< >>) : ~isspace(<< >>[k])}
<1>2. D = {}  BY ONLY <1>1
<1>3. lskip(<< >>) = LET x == IF D # {} THEN Min(D) ELSE 0
                 IN  IF x = 0 THEN << >> ELSE SubSeq(<< >>, x, Len(<< >>))
  BY Zenon DEF lskip, SelectInSeq
<1> QED BY ONLY <1>2, <1>3

\* (a name for the character, and one for the characters that end a search for c)
semicolon == ";"
Ends(c) == {c, semicolon}

\* The search ends at a place of which there is none before.
Stops(s, c, k) == s[k] = c \/ (k > 1 /\ s[k] = semicolon /\ isspace(s[k - 1]))

\* The place that find_char_or_comment finds is the first that stops it.
LEMMA FoundAt ==
    ASSUME NEW s \in Text, NEW c, NEW m \in 1 .. Len(s) + 1,
           m = Len(s) + 1 \/ Stops(s, c, m),
           \A k \in 1 .. Len(s) : k < m => s[k] # c /\ s[k] # semicolon
    PROVE  find_char_or_comment(s, c) = m
<1>1. PICK n \in Nat : n = Len(s)  BY LenProperties DEF Text
<1>2. DOMAIN s = 1 .. n  BY <1>1, LenProperties DEF Text
<1> DEFINE D == {n + 1} \cup {k \in 1 .. n : Stops(s, c, k)}
<1>3. find_char_or_comment(s, c) = Min(D)
  BY ONLY <1>1, <1>2, Zenon DEF find_char_or_comment, Stops, semicolon
<1>4. D \in SUBSET Nat  OBVIOUS
<1>5. m \in D  BY <1>1
<1>6. \A k \in D : m <= k
  <2> SUFFICES ASSUME NEW k \in 1 .. n, k < m PROVE ~Stops(s, c, k)  BY <1>1
  <2> QED BY <1>1 DEF Stops
<1> QED BY ONLY <1>3, <1>4, <1>5, <1>6, MinIs

\* Two texts, one after the other.
Glued(u, v, s) ==
    /\ s = u \o v /\ s \in Text /\ Len(s) = Len(u) + Len(v)
    /\ \A k \in 1 .. Len(u) + Len(v) : s[k] = IF k <= Len(u) THEN u[k] ELSE v[k - Len(u)]

LEMMA Glues ==
    ASSUME NEW u \in Text, NEW v \in Text PROVE \E s \in Text : Glued(u, v, s)
<1>1. PICK s \in Text : s = u \o v  BY ConcatProperties DEF Text
<1>2. /\ Len(s) = Len(u) + Len(v)
      /\ \A k \in 1 .. Len(u) + Len(v) : s[k] = IF k <= Len(u) THEN u[k] ELSE v[k - Len(u)]
  BY <1>1, ConcatProperties DEF Text
<1> QED BY <1>1, <1>2 DEF Glued

\* What the search for c finds in u with c and v behind it.
Divides(u, c, v, s) ==
    /\ find_char_or_comment(s, c) = Len(u) + 1
    /\ Len(u) + 1 <= Len(s) /\ s[Len(u) + 1] = c
    /\ UpTo(s, Len(u) + 1) = u /\ After(s, Len(u) + 1) = v

\* A character that the text before it does not have is found, and divides it.
LEMMA FindsChar ==
    ASSUME NEW u \in Text, NEW c \in Chars, NEW v \in Text, None(Ends(c), u)
    PROVE  Divides(u, c, v, (u \o <<c>>) \o v)
<1>1. PICK m \in Nat, n \in Nat : m = Len(u) /\ n = Len(v)  BY LenProperties DEF Text
<1>2. PICK e \in Text : e = <<c>> /\ Len(e) = 1 /\ e[1] = c
  <2>1. <<c>> \in Seq(Chars) /\ Len(<<c>>) = 1 /\ <<c>>[1] = c  BY ONLY c \in Chars
  <2> QED BY <2>1 DEF Text
<1>3. PICK t \in Text : Glued(u, e, t)  BY Glues
<1>4. /\ t = u \o e /\ Len(t) = m + 1
       /\ \A k \in 1 .. m + 1 : t[k] = IF k <= m THEN u[k] ELSE e[k - m]
  BY ONLY <1>1, <1>2, <1>3 DEF Glued
<1>5. PICK s \in Text : Glued(t, v, s)  BY Glues
<1>6. /\ s = t \o v /\ Len(s) = (m + 1) + n
       /\ \A k \in 1 .. (m + 1) + n : s[k] = IF k <= m + 1 THEN t[k] ELSE v[k - (m + 1)]
  BY ONLY <1>1, <1>4, <1>5 DEF Glued
<1>7. t[m + 1] = c
  <2>1. m + 1 \in 1 .. m + 1 /\ ~(m + 1 <= m) /\ m + 1 - m = 1  OBVIOUS
  <2> QED BY ONLY <1>2, <1>4, <2>1
<1>8. \A k \in 1 .. m : s[k] = u[k]
  <2>1. \A k \in 1 .. m : k \in 1 .. m + 1 /\ k \in 1 .. (m + 1) + n /\ k <= m + 1 /\ k <= m
    OBVIOUS
  <2> QED BY ONLY <1>4, <1>6, <2>1
<1>9. s[m + 1] = c /\ m + 1 <= Len(s)
  <2>1. m + 1 \in 1 .. (m + 1) + n /\ m + 1 <= m + 1 /\ m + 1 <= (m + 1) + n  OBVIOUS
  <2> QED BY ONLY <1>6, <1>7, <2>1
<1>10. find_char_or_comment(s, c) = m + 1
  <2>1. m + 1 \in 1 .. Len(s) + 1  BY ONLY <1>6, m \in Nat, n \in Nat
  <2>2. Stops(s, c, m + 1)  BY ONLY <1>9 DEF Stops
  <2>3. ASSUME NEW k \in 1 .. Len(s), k < m + 1 PROVE s[k] # c /\ s[k] # semicolon
    <3>1. k \in 1 .. m  BY ONLY <2>3, <1>6, m \in Nat, n \in Nat, k \in 1 .. Len(s)
    <3> QED BY <1>1, <1>8, <3>1 DEF None, Ends
  <2> QED BY ONLY <2>1, <2>2, <2>3, s \in Text, FoundAt
<1>11. UpTo(s, m + 1) = u
  <2>1. PICK w \in Text : w = e \o v  BY ConcatProperties DEF Text
  <2>2. (u \o e) \o v = u \o (e \o v)
    <3>1. Regrouped(u, e, v)  BY Regroup
    <3> QED BY ONLY <3>1 DEF Regrouped
  <2>3. SubSeq(u \o w, 1, Len(u)) = u  BY Cut
  <2>4. m + 1 - 1 = m  OBVIOUS
  <2> QED BY ONLY <1>1, <1>4, <1>6, <2>1, <2>3, <2>4, <2>2 DEF UpTo
<1>12. After(s, m + 1) = v
  <2>1. SubSeq(t \o v, Len(t) + 1, Len(t \o v)) = v  BY Cut
  <2> QED BY ONLY <1>4, <1>6, <2>1 DEF After
<1> QED BY ONLY <1>1, <1>2, <1>4, <1>6, <1>9, <1>10, <1>11, <1>12 DEF Divides

\* And when it is not there, or comes after a comment.
LEMMA FindsNone ==
    ASSUME NEW u \in Text, NEW c, None(Ends(c), u)
    PROVE  find_char_or_comment(u, c) = Len(u) + 1
<1>1. Len(u) \in Nat  BY LenProperties DEF Text
<1>2. Len(u) + 1 \in 1 .. Len(u) + 1  BY <1>1
<1>3. \A k \in 1 .. Len(u) : u[k] # c /\ u[k] # semicolon  BY DEF None, Ends
<1> QED BY <1>2, <1>3, FoundAt

-----------------------------------------------------------------------------
(* What a line makes of the reader *)

\* The beginning and the end of two texts.
LEMMA Ahead ==
    ASSUME NEW u \in Text, NEW v \in Text, Len(u) \in Nat \ {0}
    PROVE  Len(u \o v) \in Nat \ {0} /\ (u \o v)[1] = u[1]
<1>1. PICK s \in Text : Glued(u, v, s)  BY Glues
<1>2. PICK m \in Nat \ {0}, n \in Nat : m = Len(u) /\ n = Len(v)
  BY LenProperties DEF Text
<1>3. 1 \in 1 .. m + n /\ 1 <= m /\ m + n \in Nat \ {0}  OBVIOUS
<1> QED BY ONLY <1>1, <1>2, <1>3 DEF Glued

LEMMA Behind ==
    ASSUME NEW u \in Text, NEW v \in Text, Len(v) \in Nat \ {0}
    PROVE  Len(u \o v) \in Nat \ {0} /\ (u \o v)[Len(u \o v)] = v[Len(v)]
<1>1. PICK s \in Text : Glued(u, v, s)  BY Glues
<1>2. PICK m \in Nat, n \in Nat \ {0} : m = Len(u) /\ n = Len(v)
  BY LenProperties DEF Text
<1>3. m + n \in 1 .. m + n /\ ~(m + n <= m) /\ m + n - m = n /\ m + n \in Nat \ {0}
  OBVIOUS
<1> QED BY ONLY <1>1, <1>2, <1>3 DEF Glued

LEMMA NoText == << >> \in Text /\ Len(<< >>) = 0 /\ \A D : Only(D, << >>) /\ None(D, << >>)
<1>1. << >> \in Text /\ Len(<< >>) = 0  BY EmptySeq DEF Text
<1>2. 1 .. 0 = {}  OBVIOUS
<1> QED BY <1>1, <1>2 DEF Only, None

LEMMA NotEmpty == ASSUME NEW s \in Text PROVE s # << >> <=> Len(s) \in Nat \ {0}
BY EmptySeq, LenProperties DEF Text

LEMMA OneChar ==
    ASSUME NEW c \in Chars
    PROVE  /\ <<c>> \in Text /\ Len(<<c>>) = 1 /\ <<c>>[1] = c
           /\ \A D : (c \in D => Only(D, <<c>>)) /\ (c \notin D => None(D, <<c>>))
<1>1. <<c>> \in Text /\ Len(<<c>>) = 1 /\ <<c>>[1] = c  BY DEF Text
<1>2. \A k \in 1 .. 1 : k = 1  OBVIOUS
<1> QED BY <1>1, <1>2 DEF Only, None

LEMMA EmptyAhead == ASSUME NEW s \in Text PROVE << >> \o s = s /\ s \o << >> = s
BY ConcatEmptySeq DEF Text

\* The reader, by its parts.
Rec(a, b, c, d, e) ==
    [lineno |-> a, error |-> b, section |-> c, prev_name |-> d, values |-> e]

\* The branches of Line, for the text that it looks at.
Parsed(r, start, indented) ==
    IF start = << >> \/ Head(start) \in {";", "#"} THEN r
    ELSE IF r.prev_name # << >> /\ indented THEN ValueHandler(r, r.prev_name, start)
    ELSE IF Head(start) = "[" THEN SectionLine(r, start)
    ELSE PairLine(r, start)

LEMMA RecCounts ==
    ASSUME NEW a, NEW b, NEW c, NEW d, NEW e
    PROVE  /\ [Rec(a, b, c, d, e) EXCEPT !.lineno = @ + 1] = Rec(a + 1, b, c, d, e)
           /\ Rec(a + 1, b, c, d, e).lineno = a + 1
BY DEF Rec

\* One turn of the loop, by the text that is left of the line.
LEMMA LineIs ==
    ASSUME NEW a, NEW b, NEW c, NEW d, NEW e, NEW line, NEW from, NEW start,
           from = IF a + 1 = 1 /\ Has(line, 1, "bom") THEN 1 ELSE 0,
           start = lskip(rstrip(After(line, from)))
    PROVE  Line(Rec(a, b, c, d, e), line) =
             Parsed(Rec(a + 1, b, c, d, e), start, Len(start) < Len(rstrip(line)))
<1>1. PICK r : r = Rec(a + 1, b, c, d, e)  OBVIOUS
<1>2. PICK r0 : r0 = Rec(a, b, c, d, e)  OBVIOUS
<1>3. r.lineno = a + 1 /\ [r0 EXCEPT !.lineno = @ + 1] = r
  BY <1>1, <1>2, RecCounts
<1>4. from = IF r.lineno = 1 /\ Has(line, 1, "bom") THEN 1 ELSE 0  BY <1>3
<1> DEFINE q == [r0 EXCEPT !.lineno = @ + 1]
           f == IF q.lineno = 1 /\ Has(line, 1, "bom") THEN 1 ELSE 0
           t == lskip(rstrip(After(line, f)))
<1>5. Line(r0, line) = Parsed(q, t, Len(t) < Len(rstrip(line)))
  BY ONLY Zenon DEF Line, Parsed
<1>6. q = r /\ f = from  BY <1>3, <1>4
<1> HIDE DEF q, f
<1>7. t = start  BY <1>6
<1> HIDE DEF t
<1> QED BY ONLY <1>1, <1>2, <1>5, <1>6, <1>7, Zenon

\* The mark at the beginning of the file, and nothing else, is left out.
LEMMA MarkLeftOut ==
    ASSUME NEW a \in Nat, NEW mark \in Text, NEW rest \in Text, NEW line \in Text,
           line = mark \o rest,
           mark = << >> \/ (a = 0 /\ mark = <<"bom">>),
           Len(rest) = 0 \/ rest[1] # "bom"
    PROVE  After(line, IF a + 1 = 1 /\ Has(line, 1, "bom") THEN 1 ELSE 0) = rest
<1>1. SubSeq(mark \o rest, Len(mark) + 1, Len(mark \o rest)) = rest  BY Cut
<1>2. CASE mark = << >>
  <2>1. line = rest  BY <1>2, EmptyAhead
  <2>2. ~Has(line, 1, "bom")  BY <2>1 DEF Has
  <2>3. Len(mark) = 0  BY <1>2
  <2> QED BY ONLY <1>1, <2>2, <2>3, line = mark \o rest DEF After
<1>3. CASE a = 0 /\ mark = <<"bom">>
  <2>1. Len(mark) = 1 /\ mark[1] = "bom"  BY <1>3
  <2>2. Len(line) \in Nat \ {0} /\ line[1] = mark[1]  BY <2>1, Ahead
  <2>3. a + 1 = 1 /\ Has(line, 1, "bom")  BY <1>3, <2>1, <2>2 DEF Has
  <2> QED BY ONLY <1>1, <2>1, <2>3, line = mark \o rest DEF After
<1> QED BY <1>2, <1>3

\* The mark is at the beginning of the file only.
Marked(a, mark) == mark = << >> \/ (a = 0 /\ mark = <<"bom">>)

\* The line comes to parsing the text.
Comes(a, b, c, d, e, line, t, indented) ==
    Line(Rec(a, b, c, d, e), line) = Parsed(Rec(a + 1, b, c, d, e), t, indented)

\* A line that is a text behind a mark and white space, and one of these only.
LEMMA LineStart ==
    ASSUME NEW a \in Nat, NEW b, NEW c, NEW d, NEW e,
           NEW mark \in Text, NEW w \in Text, NEW t \in Text, NEW tail \in Text,
           Marked(a, mark),
           Only(Spaces, w), Solid(t), w = << >> => t[1] # "bom", Only(Spaces, tail)
    PROVE  Comes(a, b, c, d, e, (mark \o (w \o t)) \o tail, t, mark # << >> \/ w # << >>)
<1>1. PICK s \in Text : s = w \o t  BY ConcatProperties DEF Text
<1>2. PICK u \in Text : Glued(mark, s, u)  BY Glues
<1>3. PICK line \in Text : line = u \o tail  BY ConcatProperties DEF Text
<1>4. PICK rest \in Text : rest = s \o tail  BY ConcatProperties DEF Text
<1>5. line = mark \o rest
  <2>1. Regrouped(mark, s, tail)  BY Regroup
  <2>2. u = mark \o s  BY ONLY <1>2 DEF Glued
  <2> QED BY ONLY <1>3, <1>4, <2>1, <2>2 DEF Regrouped
<1>6. PICK k \in Nat, m \in Nat, n \in Nat \ {0} :
        k = Len(mark) /\ m = Len(w) /\ n = Len(t)
  BY LenProperties DEF Text, Solid
<1>7. Len(s) = m + n /\ Len(s) \in Nat \ {0} /\ s[Len(s)] = t[n]
  <2>1. PICK g \in Text : Glued(w, t, g)  BY Glues
  <2>2. Len(s) = m + n  BY ONLY <1>1, <1>6, <2>1 DEF Glued
  <2>3. s[Len(s)] = t[Len(t)]  BY <1>1, <1>6, Behind
  <2> QED BY ONLY <1>6, <2>2, <2>3, m \in Nat, n \in Nat \ {0}
<1>8. Len(u) = k + (m + n)  BY ONLY <1>2, <1>6, <1>7 DEF Glued
<1>9. s[1] # "bom"
  <2>1. CASE m = 0
    <3>1. w = << >>  BY <1>6, <2>1, NotEmpty
    <3> QED BY <1>1, <3>1, EmptyAhead
  <2>2. CASE m # 0
    <3>1. s[1] = w[1] /\ 1 \in 1 .. Len(w)  BY <1>1, <1>6, <2>2, Ahead
    <3>2. w[1] \in Spaces  BY <3>1 DEF Only
    <3> QED BY <3>1, <3>2 DEF Spaces
  <2> QED BY <2>1, <2>2
<1>10. rest[1] # "bom"  BY <1>4, <1>7, <1>9, Ahead
<1> DEFINE from == IF a + 1 = 1 /\ Has(line, 1, "bom") THEN 1 ELSE 0
<1>11. After(line, from) = rest
  <2>1. mark = << >> \/ (a = 0 /\ mark = <<"bom">>)  BY ONLY Marked(a, mark) DEF Marked
  <2> QED BY ONLY a \in Nat, mark \in Text, rest \in Text, line \in Text,
       <1>5, <1>10, <2>1, MarkLeftOut
<1>12. rstrip(rest) = s
  <2>1. s[Len(s)] \notin Spaces  BY <1>6, <1>7 DEF Solid
  <2> QED BY ONLY <1>4, <1>7, <2>1, s \in Text, tail \in Text, Only(Spaces, tail), Strips
<1>13. lskip(s) = t  BY <1>1, Skips DEF Solid
<1>14. rstrip(line) = u
  <2>1. u[Len(u)] = s[Len(s)] /\ Len(u) \in Nat \ {0}
    BY <1>2, <1>7, Behind DEF Glued
  <2>2. u[Len(u)] \notin Spaces  BY <1>6, <1>7, <2>1 DEF Solid
  <2> QED BY ONLY <1>3, <2>1, <2>2, u \in Text, tail \in Text, Only(Spaces, tail), Strips
<1>15. (Len(t) < Len(rstrip(line))) <=> (mark # << >> \/ w # << >>)
  <2>1. mark # << >> <=> k # 0  BY <1>6, NotEmpty
  <2>2. w # << >> <=> m # 0  BY <1>6, NotEmpty
  <2>3. n < k + (m + n) <=> (k # 0 \/ m # 0)  OBVIOUS
  <2> QED BY ONLY <1>6, <1>8, <1>14, <2>1, <2>2, <2>3
<1>16. t = lskip(rstrip(After(line, from)))  BY ONLY <1>11, <1>12, <1>13
<1>17. (Len(t) < Len(rstrip(line))) = (mark # << >> \/ w # << >>)
  BY ONLY <1>15
<1>18. Line(Rec(a, b, c, d, e), line) =
         Parsed(Rec(a + 1, b, c, d, e), t, Len(t) < Len(rstrip(line)))
  BY ONLY <1>16, LineIs
<1>19. line = (mark \o (w \o t)) \o tail  BY ONLY <1>1, <1>2, <1>3 DEF Glued
<1> QED BY ONLY <1>17, <1>18, <1>19 DEF Comes

\* The line is only counted.
Counts(a, b, c, d, e, line) == Line(Rec(a, b, c, d, e), line) = Rec(a + 1, b, c, d, e)

\* A line of white space is counted only.
LEMMA LineBlank ==
    ASSUME NEW a \in Nat, NEW b, NEW c, NEW d, NEW e,
           NEW mark \in Text, NEW w \in Text, NEW tail \in Text,
           Marked(a, mark),
           Only(Spaces, w), Only(Spaces, tail)
    PROVE  Counts(a, b, c, d, e, (mark \o w) \o tail)
<1>1. PICK u \in Text : u = mark \o w  BY ConcatProperties DEF Text
<1>2. PICK line \in Text : line = u \o tail  BY ConcatProperties DEF Text
<1>3. PICK rest \in Text : rest = w \o tail  BY ConcatProperties DEF Text
<1>4. line = mark \o rest
  <2>1. Regrouped(mark, w, tail)  BY Regroup
  <2> QED BY ONLY <1>1, <1>2, <1>3, <2>1 DEF Regrouped
<1>5. Only(Spaces, rest)  BY <1>3, ConcatHas
<1>6. Len(rest) = 0 \/ rest[1] # "bom"
  <2> SUFFICES ASSUME Len(rest) # 0 PROVE rest[1] # "bom"  OBVIOUS
  <2>1. 1 \in 1 .. Len(rest)  BY LenProperties DEF Text
  <2>2. rest[1] \in Spaces  BY <1>5, <2>1 DEF Only
  <2> QED BY <2>2 DEF Spaces
<1> DEFINE from == IF a + 1 = 1 /\ Has(line, 1, "bom") THEN 1 ELSE 0
<1>7. After(line, from) = rest  BY <1>4, <1>6, MarkLeftOut DEF Marked
<1>8. lskip(rstrip(rest)) = << >>  BY <1>5, StripsAll, SkipsAll
<1>9. << >> = lskip(rstrip(After(line, from)))  BY ONLY <1>7, <1>8
<1>10. Line(Rec(a, b, c, d, e), line) =
         Parsed(Rec(a + 1, b, c, d, e), << >>, Len(<< >>) < Len(rstrip(line)))
  BY ONLY <1>9, LineIs
<1> QED BY ONLY <1>1, <1>2, <1>10, Zenon DEF Counts, Parsed

\* What a line makes of the reader, and what the reading of it does.
Gives(r, line, q) == \A tail \in Text : Only(Spaces, tail) => Line(r, line \o tail) = q
Folds(r, line, q) == FoldLeft(Line, r, Pieces(line \o <<"\n">>)) = q

\* A line that fits the buffer is counted once or, when its newline is left
\* over, twice; the second piece is blank.
LEMMA ReadIs ==
    ASSUME NEW r, NEW line \in Text, Len(line) < INI_MAX_LINE,
           NEW a \in Nat, NEW b, NEW c, NEW d, NEW e, Gives(r, line, Rec(a, b, c, d, e))
    PROVE  Folds(r, line, Rec(IF Len(line) = INI_MAX_LINE - 1 THEN a + 1 ELSE a, b, c, d, e))
<1>1. \A tail \in Text : Only(Spaces, tail) => Line(r, line \o tail) = Rec(a, b, c, d, e)
  BY DEF Gives
<1>2. PICK nl \in Text : nl = <<"\n">> /\ Len(nl) = 1 /\ Only(Spaces, nl)
  <2>1. "\n" \in Chars  BY CharsAssumption DEF NameMarks, HostMarks
  <2>2. "\n" \in Spaces  BY DEF Spaces
  <2> QED BY <2>1, <2>2, OneChar
<1>3. CASE Len(line) = INI_MAX_LINE - 1
  <2>1. /\ DOMAIN Pieces(line \o nl) = {1, 2}
        /\ Pieces(line \o nl)[1] = line /\ Pieces(line \o nl)[2] = nl
    BY <1>2, <1>3, PiecesTwo
  <2>2. FoldLeft(Line, r, Pieces(line \o nl)) = Line(Line(r, line), nl)
    BY ONLY <2>1, FoldTwo
  <2>3. Line(r, line) = Rec(a, b, c, d, e)  BY <1>1, NoText, EmptyAhead
  <2>4. Line(Rec(a, b, c, d, e), nl) = Rec(a + 1, b, c, d, e)
    <3>1. (<< >> \o << >>) \o nl = nl  BY NoText, EmptyAhead
    <3>2. Line(Rec(a, b, c, d, e), (<< >> \o << >>) \o nl) = Rec(a + 1, b, c, d, e)
      <4>1. << >> \in Text /\ Only(Spaces, << >>)  BY NoText
      <4>2. PICK x \in Text : x = << >> /\ Only(Spaces, x)  BY <4>1
      <4>3. Counts(a, b, c, d, e, (x \o x) \o nl)
        <5>1. Marked(a, x)  BY <4>2 DEF Marked
        <5>2. Only(Spaces, nl)  BY <1>2
        <5> QED BY ONLY <5>1, <5>2, <4>2, a \in Nat, nl \in Text, LineBlank
      <4> QED BY ONLY <4>2, <4>3 DEF Counts
    <3> QED BY ONLY <3>1, <3>2
  <2> QED BY ONLY <1>2, <1>3, <2>2, <2>3, <2>4 DEF Folds
<1>4. CASE Len(line) # INI_MAX_LINE - 1
  <2>1. PICK t \in Text : Glued(line, nl, t)  BY Glues
  <2>2. Len(t) = Len(line) + 1 /\ t = line \o nl /\ Len(line) \in Nat
    BY ONLY <1>2, <2>1, line \in Text, LenProperties DEF Text, Glued
  <2>3. t # << >> /\ Len(t) < INI_MAX_LINE
    <3>1. Len(t) \in Nat \ {0} /\ Len(t) < INI_MAX_LINE
      BY ONLY <1>4, <2>2, Len(line) < INI_MAX_LINE, SizesAssumption
    <3> QED BY <3>1, NotEmpty
  <2>4. DOMAIN Pieces(t) = {1} /\ Pieces(t)[1] = t  BY <2>3, PiecesOne
  <2>5. FoldLeft(Line, r, Pieces(t)) = Line(r, t)  BY ONLY <2>4, FoldOne
  <2>6. Line(r, t) = Rec(a, b, c, d, e)  BY <1>1, <1>2, <2>2
  <2> QED BY ONLY <1>2, <1>4, <2>2, <2>5, <2>6 DEF Folds
<1> QED BY <1>3, <1>4

-----------------------------------------------------------------------------
(* What a line that the writer writes makes of the reader *)

\* The line is counted, twice when it fills the buffer, and the rest is given.
Advances(b, c, d, e) ==
    /\ lines' = lines + 1
    /\ error' = b /\ section' = c /\ prev_name' = d /\ values' = e
    /\ \E f \in {0, 1} : /\ lineno' = lineno + 1 + f
                         /\ full' = IF bad' = 0 THEN full + f ELSE full

\* The text, parsed, gives the rest of the reader.
Parses(t, indented, b, c, d, e) ==
    Parsed(Rec(lineno + 1, error, section, prev_name, values), t, indented) =
      Rec(lineno + 1, b, c, d, e)

\* The same, for the variables of the reader.
LEMMA ReadAdvances ==
    ASSUME NEW line \in Text, Len(line) < INI_MAX_LINE, lineno \in Nat, full \in Nat,
           NEW b, NEW c, NEW d, NEW e,
           Gives(Rec(lineno, error, section, prev_name, values), line,
                 Rec(lineno + 1, b, c, d, e)),
           Read(line), lines' = lines + 1,
           full' = IF bad' = 0 /\ Len(line) = INI_MAX_LINE - 1 THEN full + 1 ELSE full
    PROVE  Advances(b, c, d, e)
<1>1. PICK r : r = Rec(lineno, error, section, prev_name, values)  OBVIOUS
<1>2. PICK n \in Nat : n = lineno + 1  OBVIOUS
<1>3. Gives(r, line, Rec(n, b, c, d, e))
  BY ONLY <1>1, <1>2, Gives(Rec(lineno, error, section, prev_name, values), line,
                            Rec(lineno + 1, b, c, d, e))
<1>4. Folds(r, line, Rec(IF Len(line) = INI_MAX_LINE - 1 THEN n + 1 ELSE n, b, c, d, e))
  BY ONLY <1>3, line \in Text, Len(line) < INI_MAX_LINE, n \in Nat, ReadIs
<1>5. Reader = r  BY <1>1 DEF Reader, Rec
<1> DEFINE q == FoldLeft(Line, Reader, Pieces(line \o <<"\n">>))
<1>6. /\ lineno' = q.lineno /\ error' = q.error /\ section' = q.section
      /\ prev_name' = q.prev_name /\ values' = q.values
  BY Zenon DEF Read
<1>7. q = Rec(IF Len(line) = INI_MAX_LINE - 1 THEN n + 1 ELSE n, b, c, d, e)
  BY ONLY <1>4, <1>5 DEF Folds
<1> HIDE DEF q
<1>8. /\ lineno' = (IF Len(line) = INI_MAX_LINE - 1 THEN n + 1 ELSE n)
      /\ error' = b /\ section' = c /\ prev_name' = d /\ values' = e
  BY ONLY <1>6, <1>7 DEF Rec
<1>9. \E f \in {0, 1} : /\ lineno' = lineno + 1 + f
                        /\ full' = IF bad' = 0 THEN full + f ELSE full
  <2>1. CASE Len(line) = INI_MAX_LINE - 1
    <3>1. lineno' = lineno + 1 + 1 /\ full' = IF bad' = 0 THEN full + 1 ELSE full
      BY ONLY <1>2, <1>8, <2>1,
         full' = IF bad' = 0 /\ Len(line) = INI_MAX_LINE - 1 THEN full + 1 ELSE full
    <3> QED BY <3>1
  <2>2. CASE Len(line) # INI_MAX_LINE - 1
    <3>1. /\ lineno' = lineno + 1 + 0
          /\ full' = IF bad' = 0 THEN full + 0 ELSE full
      BY ONLY <1>2, <1>8, <2>2, lineno \in Nat, full \in Nat,
         full' = IF bad' = 0 /\ Len(line) = INI_MAX_LINE - 1 THEN full + 1 ELSE full
    <3> QED BY <3>1
  <2> QED BY ONLY <2>1, <2>2
<1> QED BY ONLY <1>8, <1>9, lines' = lines + 1 DEF Advances

\* The writer puts a mark that is allowed before the line.
LEMMA WriteReads ==
    ASSUME NEW line \in Text, Write(line), lineno \in Nat, lines = 0 => lineno = 0
    PROVE  \E mark \in Text, l \in Text :
              /\ Marked(lineno, mark) /\ (mark # << >> => lines = 0) /\ l = mark \o line
              /\ Len(l) < INI_MAX_LINE /\ Read(l) /\ lines' = lines + 1
              /\ full' = IF bad' = 0 /\ Len(l) = INI_MAX_LINE - 1 THEN full + 1 ELSE full
<1>1. PICK mark \in IF lines = 0 THEN {<< >>, <<"bom">>} ELSE {<< >>} :
        /\ lines' = lines + 1 /\ Len(mark \o line) < INI_MAX_LINE
        /\ full' = IF bad' = 0 /\ Len(mark \o line) = INI_MAX_LINE - 1
                   THEN full + 1 ELSE full
        /\ Read(mark \o line)
  BY Zenon DEF Write
<1>2. <<"bom">> \in Text
  <2>1. "bom" \in Chars  BY CharsAssumption DEF NameMarks
  <2> QED BY <2>1, OneChar
<1>3. mark \in Text /\ Marked(lineno, mark) /\ (mark # << >> => lines = 0)
  BY <1>2, NoText DEF Marked
<1>4. PICK l \in Text : l = mark \o line  BY <1>3, ConcatProperties DEF Text
<1> QED BY ONLY <1>1, <1>3, <1>4

\* A line that is written is read as its text, without mark and indentation.
LEMMA WriteIs ==
    ASSUME NEW w \in Text, NEW t \in Text, Only(Spaces, w), Solid(t),
           w = << >> => t[1] # "bom", Write(w \o t), lineno \in Nat, full \in Nat, lines = 0 => lineno = 0,
           NEW b, NEW c, NEW d, NEW e,
           \A x \in BOOLEAN : (w # << >> => x) /\ (x => w # << >> \/ lines = 0)
                                => Parses(t, x, b, c, d, e)
    PROVE  Advances(b, c, d, e)
<1>1. PICK s \in Text : s = w \o t  BY ConcatProperties DEF Text
<1>2. PICK mark \in Text, l \in Text :
        /\ Marked(lineno, mark) /\ (mark # << >> => lines = 0) /\ l = mark \o s
        /\ Len(l) < INI_MAX_LINE /\ Read(l) /\ lines' = lines + 1
        /\ full' = IF bad' = 0 /\ Len(l) = INI_MAX_LINE - 1 THEN full + 1 ELSE full
  BY ONLY <1>1, Write(w \o t), lineno \in Nat, lines = 0 => lineno = 0, WriteReads
<1>3. PICK x \in BOOLEAN : x = (mark # << >> \/ w # << >>)  OBVIOUS
<1>4. Parses(t, x, b, c, d, e)  BY <1>2, <1>3
<1>5. ASSUME NEW tail \in Text, Only(Spaces, tail)
      PROVE  Line(Rec(lineno, error, section, prev_name, values), l \o tail) =
               Rec(lineno + 1, b, c, d, e)
  <2>1. Comes(lineno, error, section, prev_name, values,
              (mark \o (w \o t)) \o tail, t, mark # << >> \/ w # << >>)
    BY <1>2, <1>5, LineStart
  <2>2. Comes(lineno, error, section, prev_name, values, l \o tail, t, x)
    BY ONLY <1>1, <1>2, <1>3, <2>1
  <2> QED BY ONLY <1>4, <2>2 DEF Comes, Parses
<1>6. Gives(Rec(lineno, error, section, prev_name, values), l,
            Rec(lineno + 1, b, c, d, e))
  BY <1>5 DEF Gives
<1> QED BY ONLY <1>2, <1>6, lineno \in Nat, full \in Nat, ReadAdvances

LEMMA WriteBlank ==
    ASSUME NEW w \in Text, Only(Spaces, w), Write(w),
           lineno \in Nat, full \in Nat, lines = 0 => lineno = 0
    PROVE  Advances(error, section, prev_name, values)
<1>1. PICK mark \in Text, l \in Text :
        /\ Marked(lineno, mark) /\ (mark # << >> => lines = 0) /\ l = mark \o w
        /\ Len(l) < INI_MAX_LINE /\ Read(l) /\ lines' = lines + 1
        /\ full' = IF bad' = 0 /\ Len(l) = INI_MAX_LINE - 1 THEN full + 1 ELSE full
  BY ONLY Write(w), w \in Text, lineno \in Nat, lines = 0 => lineno = 0, WriteReads
<1>2. ASSUME NEW tail \in Text, Only(Spaces, tail)
      PROVE  Line(Rec(lineno, error, section, prev_name, values), l \o tail) =
               Rec(lineno + 1, error, section, prev_name, values)
  <2>1. Counts(lineno, error, section, prev_name, values, (mark \o w) \o tail)
    BY <1>1, <1>2, LineBlank
  <2> QED BY ONLY <1>1, <2>1 DEF Counts
<1>3. Gives(Rec(lineno, error, section, prev_name, values), l,
            Rec(lineno + 1, error, section, prev_name, values))
  BY <1>2 DEF Gives
<1> QED BY ONLY <1>1, <1>3, lineno \in Nat, full \in Nat, ReadAdvances

\* The names of sections and pairs, and the texts between.
Word == {s \in Text : s # << >> /\ None(NameMarks, s)}

LEMMA CharsHave == NameMarks \subseteq Chars /\ "n" \in Chars
BY CharsAssumption

\* What the assumptions say of the names.
LEMMA NamesAre ==
    /\ \A s \in Sections : s \in Word /\ Len(s) < MAX_SECTION
    /\ \A n \in Names : n \in Word /\ Len(n) < MAX_NAME
<1>1. ASSUME NEW s, Without(NameMarks, s) PROVE s \in Word
  <2>1. s \in Text /\ s # << >>  BY <1>1 DEF Without, Text
  <2>2. DOMAIN s = 1 .. Len(s)  BY <2>1, LenProperties DEF Text
  <2>3. None(NameMarks, s)  BY <1>1, <2>2 DEF Without, None
  <2> QED BY <2>1, <2>3 DEF Word
<1> QED BY <1>1, NamesAssumption

LEMMA HostsAre == HostLists \subseteq HostSeqs
<1>1. ASSUME NEW s, Without(HostMarks, s) PROVE s \in Host
  <2>1. s \in Text /\ s # << >>  BY <1>1 DEF Without, Text
  <2>2. DOMAIN s = 1 .. Len(s)  BY <2>1, LenProperties DEF Text
  <2>3. None(HostMarks, s)  BY <1>1, <2>2 DEF Without, None
  <2> QED BY <2>1, <2>3 DEF Host
<1>2. ASSUME NEW h \in HostLists PROVE h \in HostSeqs
  <2>1. /\ h \in Seq(Text) /\ h # << >>
        /\ \A k \in DOMAIN h : Without(HostMarks, h[k])
    BY HostsAssumption DEF Text
  <2>2. Len(h) \in Nat /\ DOMAIN h = 1 .. Len(h) /\ h = [k \in 1 .. Len(h) |-> h[k]]
    BY <2>1, LenProperties
  <2>3. \A k \in 1 .. Len(h) : h[k] \in Host  BY <1>1, <2>1, <2>2
  <2>4. h \in Seq(Host)  BY ONLY <2>2, <2>3, SeqDef
  <2> QED BY <2>1, <2>4 DEF HostSeqs
<1> QED BY <1>2

\* strncpy0 copies what fits.
LEMMA Copies ==
    ASSUME NEW s \in Text, NEW size \in Nat, Len(s) < size PROVE strncpy0(s, size) = s
<1>1. PICK n \in Nat : n = Len(s)  BY LenProperties DEF Text
<1>2. PICK m \in Nat : m = size - 1 /\ n <= m  BY <1>1
<1>3. {n, m} \in SUBSET Nat /\ n \in {n, m} /\ \A k \in {n, m} : n <= k  BY <1>2
<1>4. Min({n, m}) = n  BY ONLY <1>3, MinIs
<1>5. SubSeq(s, 1, Len(s)) = s  BY SubSeqFull DEF Text
<1> QED BY ONLY <1>1, <1>2, <1>4, <1>5 DEF strncpy0

LEMMA CommentsAre ==
    ASSUME NEW comment \in Comments
    PROVE  /\ comment \in Text
           /\ comment = << >> \/ (Len(comment) \in Nat \ {0} /\ comment[Len(comment)] \notin Spaces)
<1>1. <<" ", ";", "#">> \in Text
  <2>1. PICK p \in Chars, q \in Chars, r \in Chars : p = " " /\ q = ";" /\ r = "#"
    BY CharsHave DEF NameMarks, HostMarks
  <2>2. <<p, q, r>> \in Text  BY ONLY p \in Chars, q \in Chars, r \in Chars DEF Text
  <2> QED BY ONLY <2>1, <2>2
<1>2. CASE comment = << >>  BY <1>2, NoText
<1>3. CASE comment = <<" ", ";", "#">>
  <2>1. Len(comment) = 3 /\ comment[3] = "#"  BY <1>3
  <2>2. "#" \notin Spaces  BY DEF Spaces
  <2>3. 3 \in Nat \ {0}  OBVIOUS
  <2> QED BY ONLY <1>1, <1>3, <2>1, <2>2, <2>3
<1> QED BY <1>2, <1>3 DEF Comments

\* A solid text stays so with more behind it.
LEMMA SolidWith ==
    ASSUME NEW u \in Text, NEW v \in Text, Solid(u),
           v = << >> \/ (Len(v) \in Nat \ {0} /\ v[Len(v)] \notin Spaces)
    PROVE  Solid(u \o v) /\ (u \o v)[1] = u[1]
<1>1. CASE v = << >>  BY <1>1, EmptyAhead
<1>2. CASE v # << >>
  <2>1. PICK s \in Text : s = u \o v  BY ConcatProperties DEF Text
  <2>2. Len(s) \in Nat \ {0} /\ s[1] = u[1]  BY <2>1, Ahead DEF Solid
  <2>3. s[Len(s)] = v[Len(v)]  BY <1>2, <2>1, Behind
  <2>4. s[1] \notin Spaces /\ s[Len(s)] \notin Spaces  BY <1>2, <2>2, <2>3 DEF Solid
  <2> QED BY ONLY <2>1, <2>2, <2>4 DEF Solid
<1> QED BY <1>1, <1>2

\* A text without white space is solid.
LEMMA SolidWord ==
    ASSUME NEW u \in Text, u # << >>, None(Spaces, u) PROVE Solid(u)
<1>1. Len(u) \in Nat \ {0}  BY NotEmpty
<1>2. 1 \in 1 .. Len(u) /\ Len(u) \in 1 .. Len(u)  BY <1>1
<1> QED BY <1>1, <1>2 DEF Solid, None

LEMMA NewSectionIs ==
    ASSUME NEW a, NEW b, NEW c, NEW d, NEW e, NEW name \in Text, Len(name) < MAX_SECTION
    PROVE  NewSection(Rec(a, b, c, d, e), name) = Rec(a, b, name, << >>, e)
<1>1. strncpy0(name, MAX_SECTION) = name  BY Copies, SizesAssumption
<1>2. PICK r : r = Rec(a, b, c, d, e)  OBVIOUS
<1>3. [r EXCEPT !.section = name, !.prev_name = << >>] = Rec(a, b, name, << >>, e)
  <2>1. [r EXCEPT !.section = name] = Rec(a, b, name, d, e)  BY ONLY <1>2 DEF Rec
  <2>2. [Rec(a, b, name, d, e) EXCEPT !.prev_name = << >>] = Rec(a, b, name, << >>, e)
    BY ONLY DEF Rec
  <2>3. [r EXCEPT !.section = name, !.prev_name = << >>] =
          [[r EXCEPT !.section = name] EXCEPT !.prev_name = << >>]
    OBVIOUS
  <2> QED BY ONLY <2>1, <2>2, <2>3
<1>4. NewSection(r, name) = [r EXCEPT !.section = name, !.prev_name = << >>]
  BY ONLY <1>1, Zenon DEF NewSection
<1> QED BY ONLY <1>2, <1>3, <1>4

\* What is parsed is not a comment.
LEMMA SectionParsed ==
    ASSUME NEW name \in Word, Len(name) < MAX_SECTION, NEW comment \in Comments,
           NEW x, prev_name = << >> \/ ~x, NEW t,
           t = ((<<"[">> \o name) \o <<"]">>) \o comment
    PROVE  /\ t \in Text /\ Solid(t) /\ t[1] = "["
           /\ Parses(t, x, error, name, << >>, values)
<1>1. "[" \in Chars /\ "]" \in Chars  BY CharsHave DEF NameMarks
<1>2. PICK l \in Text : l = <<"[">> /\ Len(l) = 1 /\ l[1] = "["  BY <1>1, OneChar
<1>3. PICK u \in Text : u = l \o name  BY ConcatProperties DEF Text, Word
<1>4. PICK v \in Text : v = comment  BY CommentsAre
<1>5. None(Ends("]"), u)
  <2>1. None(Ends("]"), l)
    <3>1. "[" \notin Ends("]")  BY DEF Ends, semicolon
    <3> QED BY <1>1, <1>2, <3>1, OneChar
  <2>2. None(Ends("]"), name)
    <3>1. Ends("]") \subseteq NameMarks  BY DEF Ends, semicolon, NameMarks, HostMarks
    <3> QED BY <3>1 DEF Word, None
  <2> QED BY <1>3, <2>1, <2>2, ConcatHas DEF Word
<1>6. t = (u \o <<"]">>) \o v  BY <1>2, <1>3, <1>4
<1>7. Divides(u, "]", v, t)
  BY ONLY <1>1, <1>5, <1>6, u \in Text, v \in Text, FindsChar
<1>8. After(u, 1) = name
  <2>1. SubSeq(l \o name, Len(l) + 1, Len(l \o name)) = name  BY Cut DEF Word
  <2> QED BY ONLY <1>2, <1>3, <2>1 DEF After
<1> DEFINE r == Rec(lineno + 1, error, section, prev_name, values)
<1>9. SectionLine(r, t) = NewSection(r, name)
  <2> HIDE DEF r
  <2> QED BY ONLY <1>7, <1>8, Zenon DEF SectionLine, Has, Divides
<1>10. NewSection(r, name) = Rec(lineno + 1, error, name, << >>, values)
  BY NewSectionIs DEF Word
<1>11. Solid(t) /\ t[1] = "[" /\ t \in Text
  <2>1. PICK y \in Text : y = <<"]">> /\ Len(y) = 1 /\ y[1] = "]"  BY <1>1, OneChar
  <2>2. "[" \notin Spaces /\ "]" \notin Spaces  BY DEF Spaces
  <2>3. Solid(l)  BY <1>2, <2>2 DEF Solid
  <2>4. PICK z \in Text : z = name \o y  BY ConcatProperties DEF Word, Text
  <2>5. Len(z) \in Nat \ {0} /\ z[Len(z)] = "]"  BY <2>1, <2>4, Behind DEF Word
  <2>6. u \o y = l \o z
    <3>1. name \in Text  BY DEF Word
    <3>2. Regrouped(l, name, y)  BY <3>1, Regroup
    <3> QED BY ONLY <1>3, <2>4, <3>2 DEF Regrouped
  <2>7. Solid(l \o z) /\ (l \o z)[1] = l[1]  BY <2>2, <2>3, <2>5, SolidWith
  <2>8. PICK q \in Text : q = l \o z  BY ConcatProperties DEF Text
  <2>9. Solid(q) /\ q[1] = "["  BY ONLY <1>2, <2>7, <2>8
  <2>10. t = q \o v  BY ONLY <1>6, <2>1, <2>6, <2>8
  <2>11. v = << >> \/ (Len(v) \in Nat \ {0} /\ v[Len(v)] \notin Spaces)
    BY ONLY <1>4, comment \in Comments, CommentsAre
  <2>12. Solid(q \o v) /\ (q \o v)[1] = q[1]  BY <2>9, <2>11, SolidWith
  <2> QED BY ONLY <2>9, <2>10, <2>12 DEF Solid
<1>12. Head(t) = "[" /\ t # << >> /\ "[" \notin {";", "#"}
  BY <1>11, NotEmpty DEF Solid
<1>13. r.prev_name = prev_name  BY DEF Rec
<1> HIDE DEF r
<1>14. Parsed(r, t, x) = SectionLine(r, t)
  BY ONLY <1>12, <1>13, prev_name = << >> \/ ~x DEF Parsed
<1> QED BY ONLY <1>9, <1>10, <1>11, <1>14 DEF Parses, r

\* The texts of few characters.
LEMMA CharsAre ==
    /\ "#" \in Chars /\ "=" \in Chars /\ ";" \in Chars /\ "[" \in Chars /\ " " \in Chars
    /\ ":" \in Chars /\ "," \in Chars /\ "\"" \in Chars /\ "n" \in Chars
    /\ "#" \notin Spaces /\ "=" \notin Spaces /\ ";" \notin Spaces /\ "[" \notin Spaces
    /\ ":" \notin Spaces /\ "," \notin Spaces /\ "\"" \notin Spaces /\ "n" \notin Spaces
    /\ " " \in Spaces /\ "\t" \in Chars /\ "\t" \in Spaces
<1>1. /\ "\t" \in Chars /\ "#" \in Chars /\ "=" \in Chars /\ ";" \in Chars /\ "[" \in Chars /\ " " \in Chars
      /\ ":" \in Chars /\ "," \in Chars /\ "\"" \in Chars /\ "n" \in Chars
  BY CharsHave DEF NameMarks, HostMarks
<1>2. /\ "#" \notin Spaces /\ "=" \notin Spaces /\ ";" \notin Spaces /\ "[" \notin Spaces
      /\ ":" \notin Spaces /\ "," \notin Spaces /\ "\"" \notin Spaces /\ "n" \notin Spaces
      /\ " " \in Spaces /\ "\t" \in Spaces
  BY DEF Spaces
<1> QED BY ONLY <1>1, <1>2

LEMMA TwoChars ==
    ASSUME NEW p \in Chars, NEW q \in Chars, p \notin Spaces, q \notin Spaces
    PROVE  <<p, q>> \in Text /\ Solid(<<p, q>>)
<1>1. PICK t : t = <<p, q>>  OBVIOUS
<1>2. t \in Seq(Chars) /\ Len(t) = 2 /\ t[1] = p /\ t[2] = q
  BY ONLY <1>1, p \in Chars, q \in Chars
<1>3. 2 \in Nat \ {0}  OBVIOUS
<1> QED BY ONLY <1>1, <1>2, <1>3, p \notin Spaces, q \notin Spaces DEF Text, Solid

LEMMA FourChars ==
    ASSUME NEW p \in Chars, NEW q \in Chars, NEW r \in Chars, NEW s \in Chars,
           p \notin Spaces, s \notin Spaces
    PROVE  <<p, q, r, s>> \in Text /\ Solid(<<p, q, r, s>>)
<1>1. PICK t : t = <<p, q, r, s>>  OBVIOUS
<1>2. t \in Seq(Chars) /\ Len(t) = 4 /\ t[1] = p /\ t[4] = s
  BY ONLY <1>1, p \in Chars, q \in Chars, r \in Chars, s \in Chars
<1>3. 4 \in Nat \ {0}  OBVIOUS
<1> QED BY ONLY <1>1, <1>2, <1>3, p \notin Spaces, s \notin Spaces DEF Text, Solid

\* A comment changes nothing.
LEMMA NothingParsed ==
    ASSUME NEW t, t \in {<<"#", "=">>, <<";", "[">>}, NEW x
    PROVE  /\ t \in Text /\ Solid(t) /\ t[1] # "bom"
           /\ Parses(t, x, error, section, prev_name, values)
<1>1. t \in Text /\ Solid(t)  BY CharsAre, TwoChars
<1>2. Head(t) = t[1] /\ t[1] \in {";", "#"}
  <2>1. CASE t = <<"#", "=">>
    <3>1. Head(t) = "#" /\ t[1] = "#"  BY ONLY <2>1
    <3> QED BY <3>1
  <2>2. CASE t = <<";", "[">>
    <3>1. t = <<semicolon, "[">>  BY <2>2 DEF semicolon
    <3>2. Head(t) = semicolon /\ t[1] = semicolon  BY ONLY <3>1
    <3> QED BY <3>2 DEF semicolon
  <2> QED BY ONLY <2>1, <2>2, t \in {<<"#", "=">>, <<";", "[">>}
<1>3. t[1] # "bom"  BY <1>2
<1> QED BY ONLY <1>1, <1>2, <1>3, Zenon DEF Parses, Parsed

\* if (!error) error = lineno
Erred == IF error = 0 THEN lineno + 1 ELSE error

\* Only the first error is kept.
LEMMA ErrorIs ==
    LET r == Rec(lineno + 1, error, section, prev_name, values)
    IN  Error(r) = Rec(lineno + 1, Erred, section, prev_name, values)
<1> DEFINE r == Rec(lineno + 1, error, section, prev_name, values)
<1>1. r.error = error /\ r.lineno = lineno + 1  BY DEF Rec
<1>2. [r EXCEPT !.error = lineno + 1] = Rec(lineno + 1, lineno + 1, section, prev_name, values)
  BY DEF Rec
<1>3. LastError(r) = Rec(lineno + 1, lineno + 1, section, prev_name, values)
  BY ONLY <1>1, <1>2 DEF LastError
<1> HIDE DEF r
<1>4. Error(r) = IF error = 0 THEN LastError(r) ELSE r  BY ONLY <1>1, Zenon DEF Error
<1> QED BY ONLY <1>3, <1>4 DEF Erred, r

\* (a name for the blank)
blank == " "

\* A bad line is an error and nothing else (ini.c:123-126, 148-151).
LEMMA BadParsed ==
    ASSUME NEW t, t \in {<<"[", "n">>, <<"n">>, <<"n", " ", ";", "=">>},
           NEW x, prev_name = << >> \/ ~x
    PROVE  /\ t \in Text /\ Solid(t) /\ t[1] # "bom"
           /\ Parses(t, x, Erred, section, prev_name, values)
<1> DEFINE r == Rec(lineno + 1, error, section, prev_name, values)
<1>1. r.prev_name = prev_name  BY DEF Rec
<1>2. Error(r) = Rec(lineno + 1, Erred, section, prev_name, values)  BY ErrorIs
<1> HIDE DEF r
<1>3. CASE t = <<"[", "n">>
  <2>1. t \in Text /\ Solid(t)  BY <1>3, CharsAre, TwoChars
  <2>2. Len(t) = 2 /\ t[1] = "[" /\ t[2] = "n" /\ Head(t) = "[" /\ t # << >>
    BY ONLY <1>3
  <2>3. None(Ends("]"), t)
    <3>1. \A k \in 1 .. 2 : k = 1 \/ k = 2  BY ONLY SMT
    <3>2. "[" \notin Ends("]") /\ "n" \notin Ends("]")  BY DEF Ends, semicolon
    <3> QED BY ONLY <2>2, <3>1, <3>2 DEF None
  <2>4. find_char_or_comment(t, "]") = Len(t) + 1  BY <2>1, <2>3, FindsNone
  <2>5. ~Has(t, Len(t) + 1, "]")  BY ONLY <2>2 DEF Has
  <2>6. SectionLine(r, t) = Error(r)  BY ONLY <2>4, <2>5, Zenon DEF SectionLine
  <2>7. "[" \notin {";", "#"} /\ "[" # "bom"  OBVIOUS
  <2>8. Parsed(r, t, x) = SectionLine(r, t)
    BY ONLY <1>1, <2>2, <2>7, prev_name = << >> \/ ~x DEF Parsed
  <2> QED BY ONLY <1>2, <2>1, <2>2, <2>6, <2>7, <2>8 DEF Parses, r
<1>4. ASSUME t \in Text, Head(t) = "n", t # << >>,
             NEW m, find_char_or_comment(t, "=") = m, find_char_or_comment(t, ":") = m,
             ~Has(t, m, "="), ~Has(t, m, ":")
      PROVE  Parses(t, x, Erred, section, prev_name, values)
  <2>1. PairLine(r, t) = Error(r)  BY ONLY <1>4, Zenon DEF PairLine
  <2>2. "n" \notin {";", "#"} /\ "n" # "["  OBVIOUS
  <2>3. Parsed(r, t, x) = PairLine(r, t)
    BY ONLY <1>1, <1>4, <2>2, prev_name = << >> \/ ~x DEF Parsed
  <2> QED BY ONLY <1>2, <2>1, <2>3 DEF Parses, r
<1>5. CASE t = <<"n">>
  <2>1. t \in Text /\ Len(t) = 1 /\ t[1] = "n" /\ Head(t) = "n" /\ t # << >>
    <3>1. "n" \in Chars  BY CharsAre
    <3> QED BY ONLY <1>5, <3>1 DEF Text
  <2>2. Solid(t)
    <3>1. "n" \notin Spaces  BY CharsAre
    <3>2. 1 \in Nat \ {0}  BY ONLY SMT
    <3> QED BY ONLY <2>1, <3>1, <3>2 DEF Solid
  <2>3. None(Ends("="), t) /\ None(Ends(":"), t)
    <3>1. \A k \in 1 .. 1 : k = 1  BY ONLY SMT
    <3>2. "n" \notin Ends("=") /\ "n" \notin Ends(":")  BY DEF Ends, semicolon
    <3> QED BY ONLY <2>1, <3>1, <3>2 DEF None
  <2>4. find_char_or_comment(t, "=") = Len(t) + 1 /\ find_char_or_comment(t, ":") = Len(t) + 1
    BY <2>1, <2>3, FindsNone
  <2>5. ~Has(t, Len(t) + 1, "=") /\ ~Has(t, Len(t) + 1, ":")  BY ONLY <2>1 DEF Has
  <2>6. Parses(t, x, Erred, section, prev_name, values)  BY ONLY <1>4, <2>1, <2>4, <2>5
  <2>7. t[1] # "bom"  BY <2>1
  <2> QED BY ONLY <2>1, <2>2, <2>6, <2>7
<1>6. CASE t = <<"n", " ", ";", "=">>
  <2>1. t \in Text /\ Solid(t)  BY <1>6, CharsAre, FourChars
  <2>2. t = <<"n", blank, semicolon, "=">>  BY <1>6 DEF semicolon, blank
  <2>3. /\ Len(t) = 4 /\ t[1] = "n" /\ t[2] = blank /\ t[3] = semicolon
        /\ Head(t) = "n" /\ t # << >>
    BY ONLY <2>2
  <2>4. ASSUME NEW c, c # "n", c # blank
        PROVE  find_char_or_comment(t, c) = 3
    <3>1. 3 \in 1 .. Len(t) + 1  BY ONLY <2>3
    <3>2. Stops(t, c, 3)
      <4>1. isspace(t[3 - 1])
        <5>1. t[3 - 1] = blank  BY ONLY <2>3
        <5> QED BY ONLY <5>1, Zenon DEF isspace, blank
      <4>2. 3 > 1  BY ONLY SMT
      <4> QED BY ONLY <2>3, <4>1, <4>2 DEF Stops
    <3>3. \A k \in 1 .. Len(t) : k < 3 => t[k] # c /\ t[k] # semicolon
      <4>1. \A k \in 1 .. Len(t) : k < 3 => k = 1 \/ k = 2  BY ONLY <2>3
      <4>2. "n" # semicolon /\ blank # semicolon  BY DEF semicolon, blank
      <4> QED BY ONLY <2>3, <2>4, <4>1, <4>2
    <3> QED BY ONLY <2>1, <3>1, <3>2, <3>3, FoundAt
  <2>5. find_char_or_comment(t, "=") = 3 /\ find_char_or_comment(t, ":") = 3
    <3>1. "=" # "n" /\ ":" # "n" /\ "=" # blank /\ ":" # blank  BY DEF blank
    <3> QED BY <2>4, <3>1
  <2>6. semicolon # "=" /\ semicolon # ":"  BY DEF semicolon
  <2>7. ~Has(t, 3, "=") /\ ~Has(t, 3, ":")  BY ONLY <2>3, <2>6 DEF Has
  <2>8. Parses(t, x, Erred, section, prev_name, values)  BY ONLY <1>4, <2>1, <2>3, <2>5, <2>7
  <2>9. t[1] # "bom"  BY <2>3
  <2> QED BY ONLY <2>1, <2>8, <2>9
<1> QED BY ONLY <1>3, <1>5, <1>6, t \in {<<"[", "n">>, <<"n">>, <<"n", " ", ";", "=">>}

\* The hosts of a line begin and end with a character of a host.
LEMMA JoinedEnds ==
    ASSUME NEW b \in Text, NEW D, D \subseteq HostMarks, NEW hs \in HostSeqs
    PROVE  /\ Joined(hs, b) \in Text /\ Len(Joined(hs, b)) \in Nat \ {0}
           /\ Joined(hs, b)[1] \notin D /\ Joined(hs, b)[Len(Joined(hs, b))] \notin D
<1> DEFINE Good(jn) == /\ jn \in Text /\ Len(jn) \in Nat \ {0}
                      /\ jn[1] \notin D /\ jn[Len(jn)] \notin D
           P == {s \in Seq(Host) : s # << >> => Good(Joined(s, b))}
<1>1. ASSUME NEW h \in Host PROVE Good(h)
  <2>1. h \in Text /\ Len(h) \in Nat \ {0} /\ None(HostMarks, h)  BY NotEmpty DEF Host
  <2>2. 1 \in 1 .. Len(h) /\ Len(h) \in 1 .. Len(h)  BY <2>1
  <2> QED BY <2>1, <2>2 DEF None
<1>2. ASSUME NEW h \in Host PROVE <<h>> \in P
  <2>1. <<h>> \in Seq(Host)  BY ONLY h \in Host
  <2>2. h \in Text  BY DEF Host
  <2>3. Joined(<<h>>, b) = h  BY <2>2, JoinedOne
  <2> QED BY <1>1, <2>1, <2>3
<1>3. ASSUME NEW s \in P, NEW h \in Host, s # << >> PROVE Append(s, h) \in P
  <2>1. s \in Lists /\ h \in Text  BY <1>3, HostsAreLists DEF HostSeqs
  <2>2. Append(s, h) \in Seq(Host)  BY AppendProperties
  <2>3. Joined(Append(s, h), b) = Another(Joined(s, b), b, h)  BY <2>1, JoinedGrows
  <2>4. PICK x \in Text : x = Joined(s, b) /\ Good(x)  BY <1>3, <2>1, JoinedText
  <2>5. PICK c \in Text : c = <<",">>  BY CommaText
  <2>6. PICK y \in Text : y = x \o c  BY ConcatProperties DEF Text
  <2>7. PICK z \in Text : z = y \o b  BY ConcatProperties DEF Text
  <2>8. PICK q \in Text : q = z \o h  BY <2>1, ConcatProperties DEF Text
  <2>9. Good(h)  BY <1>1
  <2>10. Len(y) \in Nat \ {0} /\ y[1] = x[1]  BY <2>4, <2>6, Ahead
  <2>11. Len(z) \in Nat \ {0} /\ z[1] = y[1]  BY <2>7, <2>10, Ahead
  <2>12. Len(q) \in Nat \ {0} /\ q[1] = z[1]  BY <2>1, <2>8, <2>11, Ahead
  <2>13. q[Len(q)] = h[Len(h)]  BY <2>1, <2>8, <2>9, Behind
  <2>14. Good(q)  BY <2>4, <2>9, <2>10, <2>11, <2>12, <2>13
  <2>15. Joined(Append(s, h), b) = q
    BY ONLY <2>3, <2>4, <2>5, <2>6, <2>7, <2>8 DEF Another
  <2> QED BY <2>2, <2>14, <2>15
<1> HIDE DEF Good
<1>4. \A s \in HostSeqs : Good(Joined(s, b))
  <2>1. HostSeqs \subseteq P
    <3>1. P \subseteq Seq(Host)  OBVIOUS
    <3> HIDE DEF P
    <3> QED BY ONLY <1>2, <1>3, <3>1, ListInduction DEF HostSeqs
  <2> QED BY <2>1 DEF HostSeqs
<1> QED BY <1>4 DEF Good

\* What ends the hosts of a line.
LEMMA EndsAre ==
    ASSUME NEW end \in Closings \cup {<<",">>}
    PROVE  end \in Text /\ None(Spaces, end) /\ None({"="}, end)
<1>1. CASE end = <<",">>
  <2>1. "," \in Chars /\ "," \notin Spaces /\ "," \notin {"="}  BY CharsAre
  <2> QED BY <1>1, <2>1, OneChar
<1>2. CASE end \in Closings
  <2> DEFINE M == {"\"", ";"}
  <2>1. end \in Seq(M)  BY <1>2, ClosingsAssumption
  <2>2. M \subseteq Chars /\ \A c \in M : c \notin Spaces /\ c \notin {"="}
    BY CharsAre
  <2> HIDE DEF M
  <2>3. end \in Text  BY <2>1, <2>2, SeqMonotonic DEF Text
  <2>4. \A k \in 1 .. Len(end) : end[k] \in M  BY <2>1, ElementOfSeq
  <2> QED BY <2>2, <2>3, <2>4 DEF None
<1> QED BY <1>1, <1>2

\* The value of a pair is the text before the comment.
ValueOf(text) == rstrip(UpTo(text, find_char_or_comment(text, "")))

\* The value of a pair is what is before its comment.
LEMMA ValueIs ==
    ASSUME NEW v \in Text, Solid(v), None(Ends(""), v), NEW comment \in Comments
    PROVE  ValueOf(v \o comment) = v
<1>1. PICK n \in Nat : n = Len(v)  BY LenProperties DEF Text
<1>2. n + 1 - 1 = n /\ SubSeq(v, 1, n) = v
  <2>1. SubSeq(v, 1, Len(v)) = v  BY SubSeqFull DEF Text
  <2> QED BY ONLY <1>1, <2>1
<1>3. CASE comment = << >>
  <2>1. v \o comment = v  BY <1>3, EmptyAhead
  <2>2. find_char_or_comment(v, "") = Len(v) + 1  BY FindsNone
  <2>3. UpTo(v, n + 1) = v  BY ONLY <1>2 DEF UpTo
  <2>4. rstrip(v) = v
    <3>1. rstrip(v \o << >>) = v  BY NoText, Strips DEF Solid
    <3> QED BY <3>1, EmptyAhead
  <2> QED BY ONLY <1>1, <2>1, <2>2, <2>3, <2>4 DEF ValueOf
<1>4. CASE comment = <<" ", ";", "#">>
  <2>1. PICK s \in Text : s = <<blank>> /\ Len(s) = 1 /\ s[1] = blank /\ Only(Spaces, s)
    <3>1. blank \in Chars /\ blank \in Spaces  BY CharsAre DEF blank
    <3> QED BY <3>1, OneChar
  <2>2. PICK y \in Text : y = <<semicolon, "#">> /\ Len(y) = 2 /\ y[1] = semicolon
    <3>1. PICK p \in Chars, q \in Chars : p = semicolon /\ q = "#"
      BY CharsAre DEF semicolon
    <3>2. PICK y : y = <<p, q>>  OBVIOUS
    <3>3. y \in Seq(Chars) /\ Len(y) = 2 /\ y[1] = p
      BY ONLY <3>2, p \in Chars, q \in Chars
    <3> QED BY ONLY <3>1, <3>2, <3>3 DEF Text
  <2>3. comment = s \o y
    <3>1. comment = <<blank, semicolon, "#">>  BY <1>4 DEF blank, semicolon
    <3>2. \A p, q, r : <<p, q, r>> = <<p>> \o <<q, r>>  BY ONLY SMT
    <3>3. <<blank, semicolon, "#">> = <<blank>> \o <<semicolon, "#">>  BY ONLY <3>2, Zenon
    <3> QED BY ONLY <2>1, <2>2, <3>1, <3>3, Zenon
  <2>4. PICK u \in Text : Glued(v, s, u)  BY Glues
  <2>5. PICK t \in Text : Glued(u, y, t)  BY Glues
  <2>6. t = v \o comment
    <3>1. Regrouped(v, s, y)  BY Regroup
    <3>2. u = v \o s /\ t = u \o y  BY ONLY <2>4, <2>5 DEF Glued
    <3> QED BY ONLY <2>3, <3>1, <3>2 DEF Regrouped
  <2>7. /\ u = v \o s /\ Len(u) = n + 1
        /\ \A k \in 1 .. n + 1 : u[k] = IF k <= n THEN v[k] ELSE s[k - n]
    BY ONLY <1>1, <2>1, <2>4 DEF Glued
  <2>8. /\ t = u \o y /\ Len(t) = (n + 1) + 2
        /\ \A k \in 1 .. (n + 1) + 2 : t[k] = IF k <= n + 1 THEN u[k] ELSE y[k - (n + 1)]
    BY ONLY <2>2, <2>5, <2>7 DEF Glued
  <2>9. t[n + 2] = semicolon
    <3>1. n + 2 \in 1 .. (n + 1) + 2 /\ ~(n + 2 <= n + 1) /\ n + 2 - (n + 1) = 1
      BY ONLY n \in Nat
    <3> QED BY ONLY <2>2, <2>8, <3>1
  <2>10. t[n + 1] = blank
    <3>1. /\ n + 1 \in 1 .. (n + 1) + 2 /\ n + 1 <= n + 1
          /\ n + 1 \in 1 .. n + 1 /\ ~(n + 1 <= n) /\ n + 1 - n = 1
      BY ONLY n \in Nat
    <3> QED BY ONLY <2>1, <2>7, <2>8, <3>1
  <2>11. \A k \in 1 .. n : t[k] = v[k]
    <3>1. \A k \in 1 .. n : /\ k \in 1 .. (n + 1) + 2 /\ k <= n + 1
                            /\ k \in 1 .. n + 1 /\ k <= n
      BY ONLY n \in Nat
    <3> QED BY ONLY <2>7, <2>8, <3>1
  <2>12. find_char_or_comment(t, "") = n + 2
    <3>1. n + 2 \in 1 .. Len(t) + 1  BY ONLY <2>8, n \in Nat
    <3>2. Stops(t, "", n + 2)
      <4>1. isspace(blank)  BY Zenon DEF isspace, blank
      <4>2. n + 2 > 1 /\ n + 2 - 1 = n + 1  BY ONLY n \in Nat
      <4>3. \A c : Stops(t, c, n + 2)
        <5> TAKE c
        <5>1. n + 2 > 1 /\ t[n + 2] = semicolon /\ isspace(t[n + 2 - 1])
          BY ONLY <2>9, <2>10, <4>1, <4>2
        <5> QED BY ONLY <5>1 DEF Stops
      <4> QED BY ONLY <4>3
    <3>3. ASSUME NEW k \in 1 .. Len(t), k < n + 2 PROVE t[k] # "" /\ t[k] # semicolon
      <4>1. k \in 1 .. n \/ k = n + 1  BY ONLY <3>3, <2>8, k \in 1 .. Len(t), n \in Nat
      <4>2. blank # "" /\ blank # semicolon  BY DEF blank, semicolon
      <4>3. ASSUME k \in 1 .. n PROVE v[k] # "" /\ v[k] # semicolon
        BY <1>1, <4>3 DEF None, Ends
      <4> QED BY ONLY <2>10, <2>11, <4>1, <4>2, <4>3
    <3> QED BY ONLY <3>1, <3>2, <3>3, t \in Text, FoundAt
  <2>13. UpTo(t, n + 2) = u
    <3>1. SubSeq(u \o y, 1, Len(u)) = u  BY Cut
    <3>2. n + 2 - 1 = n + 1  BY ONLY n \in Nat
    <3> QED BY ONLY <2>7, <2>8, <3>1, <3>2 DEF UpTo
  <2>14. rstrip(u) = v
    <3>1. Len(v) \in Nat \ {0} /\ v[Len(v)] \notin Spaces  BY DEF Solid
    <3> QED BY ONLY <2>1, <2>7, <3>1, v \in Text, s \in Text, Strips
  <2> QED BY ONLY <2>6, <2>12, <2>13, <2>14 DEF ValueOf
<1> QED BY <1>3, <1>4 DEF Comments

\* A search ends in the text or right behind it.
LEMMA FindsSome ==
    ASSUME NEW s \in Text, NEW c
    PROVE  find_char_or_comment(s, c) \in 1 .. Len(s) + 1
<1>1. PICK n \in Nat : n = Len(s)  BY LenProperties DEF Text
<1>2. DOMAIN s = 1 .. n  BY <1>1, LenProperties DEF Text
<1> DEFINE D == {n + 1} \cup {k \in 1 .. n : Stops(s, c, k)}
<1>3. find_char_or_comment(s, c) = Min(D)
  BY ONLY <1>1, <1>2, Zenon DEF find_char_or_comment, Stops, semicolon
<1>4. D \subseteq 1 .. n + 1 /\ D \subseteq Nat /\ D # {}  OBVIOUS
<1> HIDE DEF D
<1>5. PICK m \in D : \A k \in D : ~(<<k, m>> \in {x \in Nat \X Nat : x[1] < x[2]})
  BY ONLY <1>4, NatOrder, WFMin
<1>6. ASSUME NEW k \in D PROVE m <= k
  <2>1. k \in Nat /\ m \in Nat  BY <1>4
  <2>2. ~(k < m)  BY <1>5, <2>1
  <2> QED BY ONLY <2>1, <2>2
<1>7. Min(D) = m  BY <1>4, <1>6, MinIs
<1> QED BY ONLY <1>1, <1>3, <1>4, <1>7

\* A pair, by the place of its sign.
LEMMA PairLineIs ==
    ASSUME NEW r, NEW t, NEW m, NEW name, NEW text,
           \/ find_char_or_comment(t, "=") = m /\ Has(t, m, "=")
           \/ /\ ~Has(t, find_char_or_comment(t, "="), "=")
              /\ find_char_or_comment(t, ":") = m /\ Has(t, m, ":"),
           rstrip(UpTo(t, m)) = name, lskip(After(t, m)) = text
    PROVE  PairLine(r, t) =
             ValueHandler([r EXCEPT !.prev_name = strncpy0(name, MAX_NAME)],
                          name, ValueOf(text))
BY Zenon DEF PairLine, ValueOf

\* What a value is with one more line.
Longer(old, value) == (IF old = << >> THEN << >> ELSE old \o <<"\n">>) \o value

LEMMA ValueHandlerIs ==
    ASSUME NEW a, NEW b, NEW c, NEW d, NEW e, NEW name, NEW value
    PROVE  ValueHandler(Rec(a, b, c, d, e), name, value) =
             Rec(a, b, c, d, Put(e, MakeKey(c, name),
                                 Longer(Get(e, MakeKey(c, name), << >>), value)))
<1>1. PICK r : r = Rec(a, b, c, d, e)  OBVIOUS
<1>2. r.section = c /\ r.values = e  BY ONLY <1>1 DEF Rec
<1>3. PICK key : key = MakeKey(c, name)  OBVIOUS
<1>4. PICK new : new = Longer(Get(e, key, << >>), value)  OBVIOUS
<1>5. ValueHandler(r, name, value) = [r EXCEPT !.values = Put(r.values, key, new)]
  BY ONLY <1>2, <1>3, <1>4, Zenon DEF ValueHandler, Longer
<1>6. [r EXCEPT !.values = Put(e, key, new)] = Rec(a, b, c, d, Put(e, key, new))
  BY ONLY <1>1 DEF Rec
<1> QED BY ONLY <1>1, <1>2, <1>3, <1>4, <1>5, <1>6

LEMMA NameKept ==
    ASSUME NEW a, NEW b, NEW c, NEW d, NEW e, NEW name \in Text, Len(name) < MAX_NAME
    PROVE  [Rec(a, b, c, d, e) EXCEPT !.prev_name = strncpy0(name, MAX_NAME)] =
             Rec(a, b, c, name, e)
<1>1. strncpy0(name, MAX_NAME) = name  BY Copies, SizesAssumption
<1>2. [Rec(a, b, c, d, e) EXCEPT !.prev_name = name] = Rec(a, b, c, name, e)
  BY ONLY DEF Rec
<1> QED BY ONLY <1>1, <1>2

LEMMA WordIs ==
    ASSUME NEW name \in Word
    PROVE  /\ name \in Text /\ Solid(name) /\ None({"="}, name)
           /\ None(Ends("="), name) /\ None(Ends(":"), name)
           /\ name[1] \notin {"bom", ";", "#", "["}
<1>1. name \in Text /\ name # << >> /\ None(NameMarks, name)  BY DEF Word
<1>2. /\ Spaces \subseteq NameMarks /\ {"="} \subseteq NameMarks
      /\ Ends("=") \subseteq NameMarks /\ Ends(":") \subseteq NameMarks
      /\ {"bom", ";", "#", "["} \subseteq NameMarks
  BY DEF Spaces, Ends, semicolon, NameMarks, HostMarks
<1>3. \A D : D \subseteq NameMarks => None(D, name)  BY <1>1 DEF None
<1>4. Solid(name)  BY <1>1, <1>2, <1>3, SolidWord
<1>5. 1 \in 1 .. Len(name)  BY <1>1, NotEmpty
<1>6. name[1] \notin {"bom", ";", "#", "["}  BY <1>2, <1>3, <1>5 DEF None
<1> QED BY <1>1, <1>2, <1>3, <1>4, <1>6

\* The two signs between a name and its value.
LEMMA ColonFound ==
    ASSUME NEW name \in Word, NEW text \in Text, Solid(text), None({"="}, text),
           NEW t, t = (name \o <<":">>) \o text, NEW r
    PROVE  PairLine(r, t) = ValueHandler([r EXCEPT !.prev_name = strncpy0(name, MAX_NAME)],
                                         name, ValueOf(text))
<1>1. name \in Text /\ Solid(name) /\ None({"="}, name) /\ None(Ends(":"), name)
  BY WordIs
<1>2. PICK l \in Text : l = <<":">> /\ None({"="}, l)
  <2>1. ":" \in Chars /\ ":" \notin {"="}  BY CharsAre
  <2> QED BY <2>1, OneChar
<1>3. PICK u \in Text : u = name \o l  BY <1>1, ConcatProperties DEF Text
<1>4. t \in Text /\ t = u \o text  BY <1>2, <1>3, ConcatProperties DEF Text
<1>5. None({"="}, t)  BY <1>1, <1>2, <1>3, <1>4, ConcatHas
<1>6. ~Has(t, find_char_or_comment(t, "="), "=")
  <2>1. PICK m : m = find_char_or_comment(t, "=") /\ m \in 1 .. Len(t) + 1
    BY <1>4, FindsSome
  <2>2. Len(t) \in Nat  BY <1>4, LenProperties DEF Text
  <2>3. m <= Len(t) => m \in 1 .. Len(t)  BY ONLY <2>1, <2>2
  <2> QED BY ONLY <1>5, <2>1, <2>3 DEF Has, None
<1>7. Divides(name, ":", text, t)
  <2>1. ":" \in Chars  BY CharsAre
  <2> QED BY <1>1, <2>1, FindsChar
<1>8. rstrip(name) = name
  <2>1. rstrip(name \o << >>) = name  BY <1>1, NoText, Strips DEF Solid
  <2> QED BY <1>1, <2>1, EmptyAhead
<1>9. lskip(text) = text
  <2>1. lskip(<< >> \o text) = text  BY NoText, Skips DEF Solid
  <2> QED BY <2>1, EmptyAhead
<1>10. PICK m : m = Len(name) + 1  OBVIOUS
<1>11. /\ find_char_or_comment(t, ":") = m /\ Has(t, m, ":")
       /\ rstrip(UpTo(t, m)) = name /\ lskip(After(t, m)) = text
  BY ONLY <1>7, <1>8, <1>9, <1>10 DEF Divides, Has
<1> QED BY ONLY <1>6, <1>11, PairLineIs

\* A pair with '=', and one with ':' below.
LEMMA EqualFound ==
    ASSUME NEW name \in Word, NEW text \in Text, Solid(text),
           NEW t, t = ((name \o <<" ">>) \o <<"=">>) \o (<<" ">> \o text), NEW r
    PROVE  PairLine(r, t) = ValueHandler([r EXCEPT !.prev_name = strncpy0(name, MAX_NAME)],
                                         name, ValueOf(text))
<1>1. name \in Text /\ Solid(name) /\ None(Ends("="), name)  BY WordIs
<1>2. PICK l \in Text : l = <<" ">> /\ None(Ends("="), l) /\ Only(Spaces, l)
  <2>1. " " \in Chars /\ " " \in Spaces  BY CharsAre
  <2>2. " " \notin Ends("=")  BY DEF Ends, semicolon
  <2> QED BY <2>1, <2>2, OneChar
<1>3. PICK u \in Text : u = name \o l  BY <1>1, ConcatProperties DEF Text
<1>4. PICK v \in Text : v = l \o text  BY ConcatProperties DEF Text
<1>5. None(Ends("="), u)  BY <1>1, <1>2, <1>3, ConcatHas
<1>6. t = (u \o <<"=">>) \o v  BY <1>2, <1>3, <1>4
<1>7. Divides(u, "=", v, t)
  <2>1. "=" \in Chars  BY CharsAre
  <2> QED BY <1>5, <1>6, <2>1, FindsChar
<1>8. rstrip(u) = name  BY <1>1, <1>2, <1>3, Strips DEF Solid
<1>9. lskip(v) = text  BY <1>2, <1>4, Skips DEF Solid
<1>10. PICK m : m = Len(u) + 1  OBVIOUS
<1>11. /\ find_char_or_comment(t, "=") = m /\ Has(t, m, "=")
       /\ rstrip(UpTo(t, m)) = name /\ lskip(After(t, m)) = text
  BY ONLY <1>7, <1>8, <1>9, <1>10 DEF Divides, Has
<1> QED BY ONLY <1>11, PairLineIs

\* The hosts of a line with what is around them: the text, and what is left of
\* it when it is cleaned.
Closed == Closings \subseteq Seq({"\""})
Counted(hs, end) == IF end = <<",">> THEN Flat(hs) \o <<",">> ELSE Flat(hs)

\* (the facts of a text of hosts, without the strings)
Listing(v, hs, end) ==
    /\ v \in Text /\ Solid(v) /\ None({"="}, v)
    /\ Closed => None(Ends(""), v) /\ Cleaned(v) = Counted(hs, end)

LEMMA LastOf ==
    ASSUME NEW s \in Text, NEW D, None(D, s), s # << >>
    PROVE  Len(s) \in Nat \ {0} /\ s[Len(s)] \notin D
<1>1. Len(s) \in Nat \ {0}  BY NotEmpty
<1>2. Len(s) \in 1 .. Len(s)  BY <1>1
<1> QED BY <1>1, <1>2 DEF None

LEMMA QuotesAre ==
    ASSUME NEW q, q \in {<< >>, <<"\"">>}
    PROVE  /\ q \in Text /\ None({"="}, q) /\ None(Ends(""), q) /\ Only(Removed, q)
           /\ q = << >> \/ Solid(q)
<1>1. CASE q = << >>  BY <1>1, NoText
<1>2. CASE q = <<"\"">>
  <2>1. "\"" \in Chars /\ "\"" \notin {"="} /\ "\"" \notin Spaces  BY CharsAre
  <2>2. "\"" \notin Ends("") /\ "\"" \in Removed  BY DEF Ends, semicolon, Removed
  <2>3. q \in Text /\ Len(q) = 1 /\ q[1] = "\""  BY <1>2, <2>1, OneChar
  <2>4. None({"="}, q) /\ None(Ends(""), q) /\ Only(Removed, q) /\ None(Spaces, q)
    BY <1>2, <2>1, <2>2, OneChar
  <2>5. 1 \in Nat \ {0}  BY ONLY SMT
  <2>6. q # << >>  BY ONLY <2>3, <2>5, NotEmpty
  <2>7. Solid(q)  BY <2>3, <2>4, <2>6, SolidWord
  <2> QED BY <2>3, <2>4, <2>7
<1> QED BY <1>1, <1>2

LEMMA BlanksAre ==
    ASSUME NEW b, b \in {<< >>, <<" ">>}
    PROVE  /\ b \in Text /\ None({"="}, b) /\ None(Ends(""), b) /\ Only(Removed, b)
           /\ Only(Spaces, b)
<1>1. CASE b = << >>  BY <1>1, NoText
<1>2. CASE b = <<" ">>
  <2>1. " " \in Chars /\ " " \notin {"="} /\ " " \in Spaces  BY CharsAre
  <2>2. " " \notin Ends("") /\ " " \in Removed  BY DEF Ends, semicolon, Removed
  <2> QED BY <1>2, <2>1, <2>2, OneChar
<1> QED BY <1>1, <1>2

\* What is left of the end of a line, when it has no ';'.
LEMMA ClosedEnds ==
    ASSUME NEW end \in Closings \cup {<<",">>}, Closed
    PROVE  /\ None(Ends(""), end)
           /\ Cleaned(end) = IF end = <<",">> THEN <<",">> ELSE << >>
<1>1. end \in Text  BY EndsAre
<1>2. CASE end = <<",">>
  <2>1. "," \in Chars  BY CharsAre
  <2>2. "," \notin Ends("") /\ "," \notin Removed  BY DEF Ends, semicolon, Removed
  <2>3. None(Ends(""), end) /\ None(Removed, end)  BY <1>2, <2>1, <2>2, OneChar
  <2> QED BY <1>1, <1>2, <2>3, CleanedNone
<1>3. CASE end # <<",">>
  <2> DEFINE M == {"\""}
  <2>1. end \in Seq(M)  BY <1>3 DEF Closed
  <2>2. \A c \in M : c \notin Ends("") /\ c \in Removed  BY DEF Ends, semicolon, Removed
  <2>3. \A k \in 1 .. Len(end) : end[k] \in M  BY <2>1, ElementOfSeq
  <2> HIDE DEF M
  <2>4. None(Ends(""), end) /\ Only(Removed, end)  BY <2>2, <2>3 DEF None, Only
  <2> QED BY <1>1, <1>3, <2>4, CleanedAll
<1> QED BY <1>2, <1>3

\* A line of hosts with its quote, blanks and end.
LEMMA ListingIs ==
    ASSUME NEW q, q \in {<< >>, <<"\"">>}, NEW b, b \in {<< >>, <<" ">>},
           NEW hs \in HostSeqs,
           NEW end \in Closings \cup {<<",">>}
    PROVE  /\ Listing((q \o Joined(hs, b)) \o end, hs, end)
           /\ q = << >> => ((q \o Joined(hs, b)) \o end)[1] \notin {";", "#"}
<1>1. /\ q \in Text /\ None({"="}, q) /\ None(Ends(""), q) /\ Only(Removed, q)
      /\ q = << >> \/ Solid(q)
  BY QuotesAre
<1>2. /\ b \in Text /\ None({"="}, b) /\ None(Ends(""), b) /\ Only(Removed, b)
  BY BlanksAre
<1>3. end \in Text /\ None(Spaces, end) /\ None({"="}, end)  BY EndsAre
<1>4. /\ {"="} \subseteq HostMarks /\ "," \notin {"="}
      /\ Ends("") \subseteq HostMarks /\ "," \notin Ends("")
      /\ Spaces \subseteq HostMarks /\ {";", "#"} \subseteq HostMarks
  BY DEF HostMarks, Ends, semicolon, Spaces
<1>5. PICK jn \in Text : jn = Joined(hs, b)  BY <1>2, JoinedEnds
<1>6. Len(jn) \in Nat \ {0} /\ jn[1] \notin HostMarks /\ jn[Len(jn)] \notin HostMarks
  BY <1>2, <1>5, JoinedEnds
<1>7. Solid(jn)  BY <1>4, <1>5, <1>6 DEF Solid
<1>8. None({"="}, jn)  BY <1>2, <1>4, <1>5, JoinedHas
<1>9. None(Ends(""), jn)  BY <1>2, <1>4, <1>5, JoinedHas
<1>10. Cleaned(jn) = Flat(hs)  BY <1>2, <1>5, JoinedCleaned DEF Flat
<1>11. PICK u \in Text : u = q \o jn  BY <1>1, <1>5, ConcatProperties DEF Text
<1>12. PICK v \in Text : v = u \o end  BY <1>3, <1>11, ConcatProperties DEF Text
<1>13. Solid(u)
  <2>1. CASE q = << >>  BY <1>7, <1>11, <2>1, EmptyAhead
  <2>2. CASE Solid(q)  BY <1>1, <1>7, <1>11, <2>2, SolidWith DEF Solid
  <2> QED BY <1>1, <2>1, <2>2
<1>14. Solid(v) /\ v[1] = u[1]
  <2>1. end = << >> \/ (Len(end) \in Nat \ {0} /\ end[Len(end)] \notin Spaces)
    BY <1>3, LastOf
  <2> QED BY <1>3, <1>12, <1>13, <2>1, SolidWith
<1>15. None({"="}, v)  BY <1>1, <1>3, <1>8, <1>11, <1>12, ConcatHas
<1>16. ASSUME Closed PROVE None(Ends(""), v) /\ Cleaned(v) = Counted(hs, end)
  <2>1. None(Ends(""), end) /\ Cleaned(end) = IF end = <<",">> THEN <<",">> ELSE << >>
    BY <1>16, ClosedEnds
  <2>2. None(Ends(""), v)  BY <1>1, <1>3, <1>9, <1>11, <1>12, <2>1, ConcatHas
  <2>3. Cleaned(u) = Flat(hs)
    <3>1. Cleaned(u) = Cleaned(q) \o Cleaned(jn)  BY <1>1, <1>11, CleanedConcat
    <3>2. Cleaned(q) = << >>  BY <1>1, CleanedAll
    <3>3. Cleaned(jn) \in Text  BY CleanedText
    <3> QED BY <1>10, <3>1, <3>2, <3>3, EmptyAhead
  <2>4. Cleaned(v) = Cleaned(u) \o Cleaned(end)  BY <1>3, <1>12, CleanedConcat
  <2>5. Cleaned(u) \in Text  BY CleanedText
  <2>6. Flat(hs) \o << >> = Flat(hs)  BY <2>3, <2>5, EmptyAhead
  <2>7. Cleaned(v) = Counted(hs, end)
    BY ONLY <2>1, <2>3, <2>4, <2>6 DEF Counted
  <2> QED BY <2>2, <2>7
<1>17. q = << >> => v[1] \notin {";", "#"}
  <2> SUFFICES ASSUME q = << >> PROVE v[1] \notin {";", "#"}  OBVIOUS
  <2>1. u = jn  BY <1>11, EmptyAhead
  <2> QED BY <1>4, <1>6, <1>14, <2>1
<1>18. v = (q \o Joined(hs, b)) \o end  BY ONLY <1>5, <1>11, <1>12
<1>19. Listing(v, hs, end)  BY <1>14, <1>15, <1>16 DEF Listing
<1> QED BY ONLY <1>17, <1>18, <1>19

RegroupedAll(a, b, c, d, e, f, g) ==
    (((((a \o b) \o c) \o d) \o e) \o f) \o g =
      a \o ((b \o c) \o (((d \o e) \o f) \o g))

\* The parts of a line, in the order in which the parser takes them off.
LEMMA Regroups ==
    ASSUME NEW a \in Text, NEW b \in Text, NEW c \in Text, NEW d \in Text,
           NEW e \in Text, NEW f \in Text, NEW g \in Text
    PROVE  RegroupedAll(a, b, c, d, e, f, g)
<1>1. PICK bc \in Text : bc = b \o c  BY ConcatProperties DEF Text
<1>2. PICK de \in Text : de = d \o e  BY ConcatProperties DEF Text
<1>3. PICK def \in Text : def = de \o f  BY ConcatProperties DEF Text
<1>4. PICK defg \in Text : defg = def \o g  BY ConcatProperties DEF Text
<1>5. PICK abc \in Text : abc = a \o bc  BY ConcatProperties DEF Text
<1>6. Regrouped(a, b, c)  BY Regroup
<1>7. Regrouped(abc, d, e)  BY Regroup
<1>8. Regrouped(abc, de, f)  BY Regroup
<1>9. Regrouped(abc, def, g)  BY Regroup
<1>10. Regrouped(a, bc, defg)  BY Regroup
<1>11. (a \o b) \o c = abc  BY ONLY <1>1, <1>5, <1>6 DEF Regrouped
<1>12. (abc \o d) \o e = abc \o de  BY ONLY <1>2, <1>7 DEF Regrouped
<1>13. (abc \o de) \o f = abc \o def  BY ONLY <1>3, <1>8 DEF Regrouped
<1>14. (abc \o def) \o g = abc \o defg  BY ONLY <1>4, <1>9 DEF Regrouped
<1>15. abc \o defg = a \o (bc \o defg)  BY ONLY <1>5, <1>10 DEF Regrouped
<1>16. (((((a \o b) \o c) \o d) \o e) \o f) \o g = a \o (bc \o defg)
  BY ONLY <1>11, <1>12, <1>13, <1>14, <1>15
<1> QED BY ONLY <1>1, <1>2, <1>3, <1>4, <1>16 DEF RegroupedAll

LEMMA HeadIs == ASSUME NEW t \in Text, Solid(t) PROVE Head(t) = t[1] /\ t # << >>
<1>1. Len(t) \in Nat \ {0}  BY DEF Solid
<1>2. t # << >>  BY <1>1, NotEmpty
<1> QED BY <1>2 DEF Text

LEMMA SignsAre ==
    ASSUME NEW sign, sign \in {<<" ", "=", " ">>, <<":">>} PROVE sign \in Text
<1>1. CASE sign = <<":">>
  <2>1. ":" \in Chars  BY CharsAre
  <2> QED BY <1>1, <2>1, OneChar
<1>2. CASE sign = <<" ", "=", " ">>
  <2>1. PICK p \in Chars, q \in Chars : p = blank /\ q = "="  BY CharsAre DEF blank
  <2>2. <<p, q, p>> \in Text  BY ONLY p \in Chars, q \in Chars DEF Text
  <2>3. sign = <<p, q, p>>  BY <1>2, <2>1 DEF blank
  <2> QED BY ONLY <2>2, <2>3
<1> QED BY <1>1, <1>2

\* A pair, and the line that goes on with its value.
LEMMA PairParsed ==
    ASSUME NEW name \in Word, Len(name) < MAX_NAME,
           NEW sign, sign \in {<<" ", "=", " ">>, <<":">>},
           NEW v, NEW hs, NEW end, Listing(v, hs, end), NEW comment \in Comments,
           NEW key, key = MakeKey(section, name), key \notin DOMAIN values,
           NEW t, t = (name \o sign) \o (v \o comment)
    PROVE  /\ t \in Text /\ Solid(t) /\ t[1] # "bom"
           /\ \E value :
                 /\ \A x : prev_name = << >> \/ ~x
                             => Parses(t, x, error, section, name, Put(values, key, value))
                 /\ Closed => value = v
<1>1. v \in Text /\ Solid(v) /\ None({"="}, v)  BY DEF Listing
<1>2. /\ comment \in Text
      /\ comment = << >> \/ (Len(comment) \in Nat \ {0} /\ comment[Len(comment)] \notin Spaces)
  BY CommentsAre
<1>3. PICK text \in Text : text = v \o comment  BY <1>1, <1>2, ConcatProperties DEF Text
<1>4. Solid(text)  BY <1>1, <1>2, <1>3, SolidWith
<1>5. None({"="}, text)
  <2>1. None({"="}, comment)
    <3>1. CASE comment = << >>  BY <3>1, NoText
    <3>2. CASE comment = <<" ", ";", "#">>
      <4>1. comment = <<blank, semicolon, "#">>  BY <3>2 DEF blank, semicolon
      <4>2. Len(comment) = 3 /\ \A k \in 1 .. 3 : comment[k] \in {blank, semicolon, "#"}
        BY ONLY <4>1
      <4>3. "=" \notin {blank, semicolon, "#"}  BY DEF blank, semicolon
      <4>4. \A k \in 1 .. Len(comment) : comment[k] \notin {"="}
        BY ONLY <4>2, <4>3
      <4> QED BY ONLY <4>4 DEF None
    <3> QED BY <3>1, <3>2 DEF Comments
  <2> QED BY <1>1, <1>2, <1>3, <2>1, ConcatHas
<1>6. /\ name \in Text /\ Solid(name) /\ name[1] \notin {"bom", ";", "#", "["}
  BY WordIs
<1>7. ASSUME NEW r
      PROVE  PairLine(r, t) =
               ValueHandler([r EXCEPT !.prev_name = strncpy0(name, MAX_NAME)],
                            name, ValueOf(text))
  <2>1. CASE sign = <<":">>  BY <1>3, <1>4, <1>5, <2>1, ColonFound
  <2>2. CASE sign = <<" ", "=", " ">>
    <3>1. PICK l \in Text, m \in Text : l = <<blank>> /\ m = <<"=">>
      <4>1. blank \in Chars /\ "=" \in Chars  BY CharsAre DEF blank
      <4> QED BY <4>1, OneChar
    <3>2. sign = (l \o m) \o l
      <4>1. sign = <<blank, "=", blank>>  BY <2>2 DEF blank
      <4>2. \A p, q : <<p, q, p>> = (<<p>> \o <<q>>) \o <<p>>  BY ONLY SMT
      <4> QED BY ONLY <3>1, <4>1, <4>2
    <3>3. PICK lm \in Text : lm = l \o m  BY ConcatProperties DEF Text
    <3>4. PICK nl \in Text : nl = name \o l  BY <1>6, ConcatProperties DEF Text
    <3>5. PICK nlm \in Text : nlm = nl \o m  BY ConcatProperties DEF Text
    <3>6. Regrouped(name, l, m) /\ Regrouped(name, lm, l) /\ Regrouped(nlm, l, text)
      BY <1>6, Regroup
    <3>7. nlm = name \o lm  BY ONLY <3>3, <3>4, <3>5, <3>6 DEF Regrouped
    <3>8. name \o sign = nlm \o l  BY ONLY <3>2, <3>3, <3>6, <3>7 DEF Regrouped
    <3>9. t = nlm \o (l \o text)
      BY ONLY <1>3, <3>6, <3>8, t = (name \o sign) \o (v \o comment) DEF Regrouped
    <3>10. t = ((name \o <<" ">>) \o <<"=">>) \o (<<" ">> \o text)
      BY ONLY <3>1, <3>4, <3>5, <3>9, Zenon DEF blank
    <3> QED BY <1>4, <3>10, EqualFound
  <2> QED BY <2>1, <2>2
<1>8. sign \in Text  BY SignsAre
<1>9. /\ t \in Text /\ Solid(t) /\ t[1] = name[1]
  <2>1. PICK z \in Text : z = sign \o text  BY <1>8, ConcatProperties DEF Text
  <2>2. Regrouped(name, sign, text)  BY <1>6, <1>8, Regroup
  <2>3. t = name \o z
    BY ONLY <1>3, <2>1, <2>2, t = (name \o sign) \o (v \o comment) DEF Regrouped
  <2>4. Len(z) \in Nat \ {0} /\ z[Len(z)] \notin Spaces
    BY <1>4, <1>8, <2>1, Behind DEF Solid
  <2>5. Solid(name \o z) /\ (name \o z)[1] = name[1]  BY <1>6, <2>4, SolidWith
  <2> QED BY ONLY <2>3, <2>5 DEF Solid
<1> DEFINE r == Rec(lineno + 1, error, section, prev_name, values)
<1>10. r.prev_name = prev_name  BY DEF Rec
<1>11. [r EXCEPT !.prev_name = strncpy0(name, MAX_NAME)] =
         Rec(lineno + 1, error, section, name, values)
  <2>1. name \in Text  BY <1>6
  <2> QED BY ONLY <2>1, Len(name) < MAX_NAME, NameKept
<1>12. PICK value : value = Longer(Get(values, key, << >>), ValueOf(text))  OBVIOUS
<1>13. ValueHandler(Rec(lineno + 1, error, section, name, values), name, ValueOf(text)) =
         Rec(lineno + 1, error, section, name, Put(values, key, value))
  BY ONLY <1>12, key = MakeKey(section, name), ValueHandlerIs
<1>14. Closed => value = v
  <2>1. Get(values, key, << >>) = << >>  BY DEF Get
  <2>2. value = << >> \o ValueOf(text)  BY ONLY <1>12, <2>1, Zenon DEF Longer
  <2>3. Closed => ValueOf(text) = v  BY <1>1, <1>3, ValueIs DEF Listing
  <2>4. << >> \o v = v  BY <1>1, EmptyAhead
  <2> QED BY ONLY <2>2, <2>3, <2>4
<1> HIDE DEF r
<1>15. Head(t) = t[1] /\ t # << >>  BY <1>9, HeadIs
<1>16. t[1] \notin {"bom", ";", "#", "["}  BY ONLY <1>6, <1>9
<1>17. ASSUME NEW x, prev_name = << >> \/ ~x
       PROVE  Parses(t, x, error, section, name, Put(values, key, value))
  <2>1. Parsed(r, t, x) = PairLine(r, t)
    BY ONLY <1>10, <1>15, <1>16, <1>17, Zenon DEF Parsed
  <2>2. Parsed(r, t, x) = Rec(lineno + 1, error, section, name, Put(values, key, value))
    BY <1>7, <1>11, <1>13, <2>1
  <2> QED BY ONLY <2>2 DEF Parses, r
<1>18. t[1] # "bom"  BY <1>16
<1> QED BY ONLY <1>9, <1>14, <1>17, <1>18

\* A continuation goes to the last key (ini.c:108-113).
LEMMA MoreParsed ==
    ASSUME NEW v \in Text, Solid(v), v[1] \notin {";", "#"}, prev_name # << >>,
           NEW key, key = MakeKey(section, prev_name)
    PROVE  Parses(v, TRUE, error, section, prev_name,
                  Put(values, key, Longer(Get(values, key, << >>), v)))
<1> DEFINE r == Rec(lineno + 1, error, section, prev_name, values)
<1>1. r.prev_name = prev_name  BY DEF Rec
<1>2. ValueHandler(r, prev_name, v) =
        Rec(lineno + 1, error, section, prev_name,
            Put(values, key, Longer(Get(values, key, << >>), v)))
  BY ONLY key = MakeKey(section, prev_name), ValueHandlerIs
<1> HIDE DEF r
<1>3. Head(v) = v[1] /\ v # << >>  BY HeadIs
<1>4. Parsed(r, v, TRUE) = ValueHandler(r, prev_name, v)
  BY ONLY <1>1, <1>3, v[1] \notin {";", "#"}, prev_name # << >>, Zenon DEF Parsed
<1> QED BY ONLY <1>2, <1>4 DEF Parses, r

-----------------------------------------------------------------------------
(* The invariant: the parser counts the lines that were written, it is where *)
(* the writer is, and its values, cleaned, are what the writer means.        *)

\* The number of an error: the parser counts one more for each line before it
\* that left no room for its newline.
Numbered == error = IF bad = 0 THEN 0 ELSE bad + full

\* The counts of lines.
Lined ==
    /\ lineno \in Nat /\ lines \in Nat /\ full \in Nat /\ bad \in Nat
    /\ lines = 0 => lineno = 0
    /\ bad = 0 => lineno = lines + full
    /\ Numbered

\* Where the reader and the writer are.
Placed ==
    /\ section = heading /\ heading \in Text /\ prev_name \in Text
    /\ IF last = << >> THEN prev_name = << >>
       ELSE /\ prev_name # << >> /\ last = MakeKey(section, prev_name)
            /\ last \in DOMAIN meant
    /\ open => last # << >>
    /\ lines = 0 => last = << >>

\* What is left of a value, and what the writer means by it.
Collects(value, hs, goesOn) ==
    value \in Text /\ Cleaned(value) = IF goesOn THEN Flat(hs) \o <<",">> ELSE Flat(hs)

Collected ==
    /\ DOMAIN values = DOMAIN meant
    /\ \A key \in DOMAIN meant : meant[key] \in HostSeqs
    /\ Closed => \A key \in DOMAIN meant :
                    Collects(values[key], meant[key], open /\ key = last)

ReadInv == Lined /\ Placed /\ Collected

IsPut(f, key, v, g) ==
    /\ DOMAIN g = DOMAIN f \cup {key} /\ g[key] = v
    /\ \A k \in DOMAIN f : k # key => g[k] = f[k]

LEMMA PutIs ==
    ASSUME NEW f, NEW key, NEW v, NEW g, g = Put(f, key, v)
    PROVE  IsPut(f, key, v, g)
BY DEF Put, IsPut

\* A key is no empty text, so that "" is free to say that there is none.
LEMMA KeyIs ==
    ASSUME NEW s \in Text, NEW n \in Text PROVE MakeKey(s, n) # << >>
<1>1. PICK l : l = <<".">>  OBVIOUS
<1>2. PICK key : key = s \o l \o n  OBVIOUS
<1>3. 1 \in DOMAIN key
  <2>1. Len(s) \in Nat /\ Len(n) \in Nat /\ Len(l) = 1
    BY ONLY <1>1, s \in Text, n \in Text, LenProperties DEF Text
  <2>2. s \in Seq(Chars \cup {"."}) /\ n \in Seq(Chars \cup {"."}) /\ l \in Seq(Chars \cup {"."})
    BY <1>1, SeqMonotonic DEF Text
  <2>3. PICK u : u = s \o l /\ u \in Seq(Chars \cup {"."}) /\ Len(u) = Len(s) + 1
    <3>1. PICK T : T = Chars \cup {"."}  OBVIOUS
    <3>2. PICK u : u = s \o l  OBVIOUS
    <3>3. u \in Seq(T) /\ Len(u) = Len(s) + Len(l)
      BY ONLY <2>2, <3>1, <3>2, ConcatProperties
    <3> QED BY ONLY <2>1, <3>1, <3>2, <3>3
  <2>4. key = u \o n /\ key \in Seq(Chars \cup {"."}) /\ Len(key) = (Len(s) + 1) + Len(n)
    <3>1. PICK T : T = Chars \cup {"."}  OBVIOUS
    <3>2. PICK k : k = u \o n  OBVIOUS
    <3>3. k \in Seq(T) /\ Len(k) = Len(u) + Len(n)
      BY ONLY <2>2, <2>3, <3>1, <3>2, ConcatProperties
    <3>4. k = key  BY ONLY <1>2, <2>3, <3>2
    <3> QED BY ONLY <2>3, <3>1, <3>2, <3>3, <3>4
  <2>5. 1 \in 1 .. Len(key)  BY ONLY <2>1, <2>4
  <2>6. DOMAIN key = 1 .. Len(key)  BY <2>4, LenProperties
  <2> QED BY ONLY <2>5, <2>6
<1>4. DOMAIN MakeKey(s, n) = DOMAIN key  BY ONLY <1>1, <1>2, Zenon DEF MakeKey
<1>5. DOMAIN << >> = {}  OBVIOUS
<1> QED BY ONLY <1>3, <1>4, <1>5

\* A line that is no error, and one that is.
LEMMA LinedNext ==
    ASSUME Lined, NEW c, NEW d, NEW e, Advances(error, c, d, e), bad' = bad
    PROVE  Lined'
<1>1. PICK f \in {0, 1} : /\ lineno' = lineno + 1 + f
                          /\ full' = IF bad' = 0 THEN full + f ELSE full
  BY DEF Advances
<1>2. lines' = lines + 1 /\ error' = error  BY DEF Advances
<1>3. f \in Nat  OBVIOUS
<1> QED BY ONLY <1>1, <1>2, <1>3, Lined, bad' = bad DEF Lined, Numbered

LEMMA LinedBad ==
    ASSUME Lined, NEW c, NEW d, NEW e, Advances(Erred, c, d, e),
           bad' = IF bad = 0 THEN lines + 1 ELSE bad
    PROVE  Lined'
<1>1. PICK f \in {0, 1} : /\ lineno' = lineno + 1 + f
                          /\ full' = IF bad' = 0 THEN full + f ELSE full
  BY DEF Advances
<1>2. lines' = lines + 1 /\ error' = IF error = 0 THEN lineno + 1 ELSE error
  BY DEF Advances, Erred
<1>3. f \in Nat  OBVIOUS
<1> QED BY ONLY <1>1, <1>2, <1>3, Lined, bad' = IF bad = 0 THEN lines + 1 ELSE bad
        DEF Lined, Numbered

\* White space is put before a line only where nothing can go on.
LEMMA IndentsAre ==
    ASSUME NEW indent \in Indents, Placed
    PROVE  /\ indent \in Text /\ Only(Spaces, indent)
           /\ \A x \in BOOLEAN : (x => indent # << >> \/ lines = 0) => prev_name = << >> \/ ~x
<1>1. indent = << >> \/ (last = << >> /\ indent = <<" ">>)  BY DEF Indents
<1>2. indent \in {<< >>, <<" ">>}  BY <1>1
<1>3. indent \in Text /\ Only(Spaces, indent)  BY <1>2, BlanksAre
<1>4. last = << >> => prev_name = << >>  BY DEF Placed
<1>5. lines = 0 => last = << >>  BY DEF Placed
<1> QED BY ONLY <1>1, <1>3, <1>4, <1>5

\* A section ends the pair before it (ini.c:115-127).
LEMMA SectionNext ==
    ASSUME ReadInv, NEW name \in Sections, WriteSection(name)
    PROVE  ReadInv'
<1>1. PICK indent \in Indents, comment \in Comments :
        Write(indent \o <<"[">> \o name \o <<"]">> \o comment)
  BY DEF WriteSection
<1>2. /\ ~open /\ open' = open /\ meant' = meant /\ bad' = bad
      /\ heading' = name /\ last' = << >>
  BY DEF WriteSection
<1>3. name \in Word /\ Len(name) < MAX_SECTION  BY NamesAre
<1>4. /\ indent \in Text /\ Only(Spaces, indent)
      /\ \A x \in BOOLEAN : (x => indent # << >> \/ lines = 0) => prev_name = << >> \/ ~x
  BY IndentsAre DEF ReadInv
<1>5. name \in Text /\ comment \in Text  BY <1>3, CommentsAre DEF Word
<1>6. PICK l \in Text, m \in Text : l = <<"[">> /\ m = <<"]">>
  <2>1. "[" \in Chars /\ "]" \in Chars  BY CharsHave DEF NameMarks
  <2> QED BY <2>1, OneChar
<1>7. PICK t \in Text : t = ((l \o name) \o m) \o comment
  <2>1. PICK u \in Text : u = l \o name  BY <1>5, ConcatProperties DEF Text
  <2>2. PICK v \in Text : v = u \o m  BY ConcatProperties DEF Text
  <2>3. PICK t \in Text : t = v \o comment  BY <1>5, ConcatProperties DEF Text
  <2> QED BY ONLY <2>1, <2>2, <2>3
<1>8. ((((indent \o l) \o name) \o m) \o comment) = indent \o t
  <2>1. PICK u \in Text : u = l \o name  BY <1>5, ConcatProperties DEF Text
  <2>2. PICK v \in Text : v = u \o m  BY ConcatProperties DEF Text
  <2>3. Regrouped(indent, l, name) /\ Regrouped(indent, u, m) /\ Regrouped(indent, v, comment)
    BY <1>4, <1>5, Regroup
  <2> QED BY ONLY <1>7, <2>1, <2>2, <2>3 DEF Regrouped
<1>9. Write(indent \o t)  BY ONLY <1>1, <1>6, <1>8
<1>10. t = ((<<"[">> \o name) \o <<"]">>) \o comment  BY ONLY <1>6, <1>7
<1>11. \A x : (prev_name = << >> \/ ~x) =>
         Solid(t) /\ t[1] = "[" /\ Parses(t, x, error, name, << >>, values)
  BY ONLY <1>3, <1>10, comment \in Comments, SectionParsed
<1>12. Solid(t) /\ t[1] = "["
  <2>1. prev_name = << >> \/ ~FALSE  OBVIOUS
  <2> QED BY ONLY <1>11, <2>1
<1>13. t[1] # "bom"  BY ONLY <1>12
<1>14. Advances(error, name, << >>, values)
  <2>1. lineno \in Nat /\ full \in Nat /\ (lines = 0 => lineno = 0)  BY DEF ReadInv, Lined
  <2>2. \A x \in BOOLEAN : (indent # << >> => x) /\ (x => indent # << >> \/ lines = 0)
                             => Parses(t, x, error, name, << >>, values)
    BY ONLY <1>4, <1>11
  <2> QED BY ONLY <1>4, <1>9, <1>12, <1>13, <2>1, <2>2, t \in Text, WriteIs
<1>15. Lined'  BY ONLY <1>2, <1>14, ReadInv, LinedNext DEF ReadInv
<1>16. /\ section' = name /\ prev_name' = << >> /\ values' = values /\ lines' = lines + 1
  BY <1>14 DEF Advances
<1>17. Placed'
  <2>1. << >> \in Text  BY NoText
  <2>2. ~open' /\ last' = << >>  BY <1>2
  <2> QED BY ONLY <1>2, <1>5, <1>16, <2>1, <2>2 DEF Placed
<1>18. Collected'
  BY ONLY <1>2, <1>16, ReadInv DEF ReadInv, Collected
<1> QED BY ONLY <1>15, <1>17, <1>18 DEF ReadInv

\* A pair gives the key a value of its own.
LEMMA PairCollects ==
    ASSUME Collected, ~open, NEW key, key \notin DOMAIN meant, NEW hs \in HostSeqs,
           NEW value, values' = Put(values, key, value), meant' = Put(meant, key, hs),
           last' = key, Closed => Collects(value, hs, open')
    PROVE  Collected'
<1>1. PICK m : m = meant'  OBVIOUS
<1>2. PICK v : v = values'  OBVIOUS
<1>3. /\ DOMAIN m = DOMAIN meant \cup {key} /\ m[key] = hs
      /\ \A k \in DOMAIN meant : k # key => m[k] = meant[k]
  <2>1. IsPut(meant, key, hs, m)  BY ONLY <1>1, meant' = Put(meant, key, hs), PutIs
  <2> QED BY ONLY <2>1 DEF IsPut
<1>4. /\ DOMAIN v = DOMAIN values \cup {key} /\ v[key] = value
      /\ \A k \in DOMAIN values : k # key => v[k] = values[k]
  <2>1. IsPut(values, key, value, v)
    BY ONLY <1>2, values' = Put(values, key, value), PutIs
  <2> QED BY ONLY <2>1 DEF IsPut
<1>5. DOMAIN values = DOMAIN meant  BY DEF Collected
<1>6. DOMAIN v = DOMAIN m  BY ONLY <1>3, <1>4, <1>5
<1>7. ASSUME NEW k \in DOMAIN m PROVE m[k] \in HostSeqs
  <2>1. \A q \in DOMAIN meant : meant[q] \in HostSeqs  BY DEF Collected
  <2> QED BY ONLY <1>3, <2>1, k \in DOMAIN m, hs \in HostSeqs
<1>8. ASSUME Closed, NEW k \in DOMAIN m
      PROVE  Collects(v[k], m[k], open' /\ k = last')
  <2>1. CASE k = key
    <3>1. Collects(value, hs, open')  BY <1>8
    <3>2. (open' /\ k = last') <=> open'  BY ONLY <2>1, last' = key
    <3> QED BY ONLY <1>3, <1>4, <2>1, <3>1, <3>2 DEF Collects
  <2>2. CASE k # key
    <3>1. k \in DOMAIN meant  BY ONLY <1>3, <2>2, k \in DOMAIN m
    <3>2. Collects(values[k], meant[k], open /\ k = last)  BY <1>8, <3>1 DEF Collected
    <3>3. v[k] = values[k] /\ m[k] = meant[k]
      BY ONLY <1>3, <1>4, <1>5, <2>2, <3>1
    <3> QED BY ONLY <2>2, <3>2, <3>3, ~open, last' = key DEF Collects
  <2> QED BY ONLY <2>1, <2>2
<1> QED BY ONLY <1>1, <1>2, <1>6, <1>7, <1>8 DEF Collected

\* A pair has a new key, and a value that says its hosts (ini.c:128-152).
LEMMA PairNext ==
    ASSUME ReadInv, NEW name \in Names, NEW hs \in HostLists, WritePair(name, hs)
    PROVE  ReadInv'
<1>1. PICK indent, sign, q, b, end, comment :
        /\ indent \in Indents /\ sign \in {<<" ", "=", " ">>, <<":">>}
        /\ q \in {<< >>, <<"\"">>} /\ b \in {<< >>, <<" ">>}
        /\ end \in Closings \cup {<<",">>} /\ comment \in Comments
        /\ Write(indent \o name \o sign \o q \o Joined(hs, b) \o end \o comment)
        /\ open' = (end = <<",">>)
  <2>1. \E indent \in Indents, sign \in {<<" ", "=", " ">>, <<":">>},
           q \in {<< >>, <<"\"">>}, b \in {<< >>, <<" ">>},
           end \in Closings \cup {<<",">>}, comment \in Comments :
          /\ Write(indent \o name \o sign \o q \o Joined(hs, b) \o end \o comment)
          /\ open' = (end = <<",">>)
    BY ONLY WritePair(name, hs), Zenon DEF WritePair
  <2>2. PICK indent \in Indents, sign \in {<<" ", "=", " ">>, <<":">>},
             q \in {<< >>, <<"\"">>}, b \in {<< >>, <<" ">>},
             end \in Closings \cup {<<",">>}, comment \in Comments :
          /\ Write(indent \o name \o sign \o q \o Joined(hs, b) \o end \o comment)
          /\ open' = (end = <<",">>)
    BY ONLY <2>1, Zenon
  <2>3. /\ indent \in Indents /\ sign \in {<<" ", "=", " ">>, <<":">>}
        /\ q \in {<< >>, <<"\"">>} /\ b \in {<< >>, <<" ">>}
        /\ end \in Closings \cup {<<",">>} /\ comment \in Comments
    OBVIOUS
  <2> QED BY ONLY <2>2, <2>3, Zenon
<1>2. PICK key : key = MakeKey(heading, name)  OBVIOUS
<1>3. /\ ~open /\ key \notin DOMAIN meant /\ last' = key /\ meant' = Put(meant, key, hs)
      /\ heading' = heading /\ bad' = bad
  BY ONLY <1>2, WritePair(name, hs) DEF WritePair
<1>4. name \in Word /\ name \in Text /\ name # << >> /\ Len(name) < MAX_NAME
  BY NamesAre DEF Word
<1>5. /\ indent \in Text /\ Only(Spaces, indent)
      /\ \A x \in BOOLEAN : (x => indent # << >> \/ lines = 0) => prev_name = << >> \/ ~x
  BY <1>1, IndentsAre DEF ReadInv
<1>6. hs \in HostSeqs  BY HostsAre
<1>7. PICK jn \in Text : jn = Joined(hs, b)
  <2>1. b \in Text  BY <1>1, BlanksAre
  <2> QED BY <1>6, <2>1, HostsAreLists, JoinedText
<1>8. q \in Text /\ end \in Text /\ comment \in Text /\ sign \in Text
  BY <1>1, QuotesAre, EndsAre, CommentsAre, SignsAre
<1>9. PICK v : v = (q \o jn) \o end  OBVIOUS
<1>10. Listing(v, hs, end)  BY <1>1, <1>6, <1>7, <1>9, ListingIs
<1>11. PICK t : t = (name \o sign) \o (v \o comment)  OBVIOUS
<1>12. Write(indent \o t)
  <2>1. (((((indent \o name) \o sign) \o q) \o jn) \o end) \o comment =
          indent \o ((name \o sign) \o (((q \o jn) \o end) \o comment))
    <3>1. RegroupedAll(indent, name, sign, q, jn, end, comment)
      BY ONLY <1>4, <1>5, <1>8, jn \in Text, Regroups
    <3> QED BY ONLY <3>1 DEF RegroupedAll
  <2>2. Write(indent \o name \o sign \o q \o jn \o end \o comment)  BY <1>1, <1>7
  <2> QED BY ONLY <1>9, <1>11, <2>1, <2>2
<1>13. section = heading /\ prev_name \in Text /\ heading \in Text
  BY DEF ReadInv, Placed
<1>14. key = MakeKey(section, name) /\ key \notin DOMAIN values
  BY ONLY <1>2, <1>3, <1>13, ReadInv DEF ReadInv, Collected
<1>15. PICK value :
         /\ t \in Text /\ Solid(t) /\ t[1] # "bom"
         /\ \A x : prev_name = << >> \/ ~x
                     => Parses(t, x, error, section, name, Put(values, key, value))
         /\ Closed => value = v
  BY <1>1, <1>4, <1>10, <1>11, <1>14, PairParsed
<1>16. Advances(error, section, name, Put(values, key, value))
  <2>1. lineno \in Nat /\ full \in Nat /\ (lines = 0 => lineno = 0)  BY DEF ReadInv, Lined
  <2>2. \A x \in BOOLEAN : (indent # << >> => x) /\ (x => indent # << >> \/ lines = 0)
                => Parses(t, x, error, section, name, Put(values, key, value))
    BY ONLY <1>5, <1>15
  <2> QED BY ONLY <1>5, <1>12, <1>15, <2>1, <2>2, WriteIs
<1>17. Lined'  BY ONLY <1>3, <1>16, ReadInv, LinedNext DEF ReadInv
<1>18. /\ section' = section /\ prev_name' = name /\ values' = Put(values, key, value)
       /\ lines' = lines + 1
  BY <1>16 DEF Advances
<1>19. Placed'
  <2>1. key # << >>  BY <1>2, <1>4, <1>13, KeyIs
  <2>2. key \in DOMAIN meant'
    <3>1. IsPut(meant, key, hs, meant')  BY ONLY <1>3, PutIs
    <3> QED BY ONLY <3>1 DEF IsPut
  <2>3. lines' # 0  BY <1>18 DEF ReadInv, Lined
  <2> QED BY ONLY <1>3, <1>4, <1>13, <1>14, <1>18, <2>1, <2>2, <2>3 DEF Placed
<1>20. Collected'
  <2>1. Closed => Collects(value, hs, open')
    <3>1. Closed => v \in Text /\ Cleaned(v) = Counted(hs, end)
      BY ONLY <1>10 DEF Listing
    <3>2. open' <=> end = <<",">>  BY <1>1
    <3> QED BY ONLY <1>15, <3>1, <3>2 DEF Collects, Counted
  <2> QED BY ONLY <1>3, <1>6, <1>18, <2>1, ReadInv, PairCollects DEF ReadInv
<1> QED BY ONLY <1>17, <1>19, <1>20 DEF ReadInv

\* A line more goes on with the value and with the hosts.
LEMMA LongerCleaned ==
    ASSUME NEW old \in Text, NEW v \in Text, NEW new, new = Longer(old, v)
    PROVE  new \in Text /\ Cleaned(new) = Cleaned(old) \o Cleaned(v)
<1>1. PICK nl \in Text : nl = <<"\n">> /\ Cleaned(nl) = << >>
  <2>1. "\n" \in Chars  BY CharsAssumption DEF NameMarks, HostMarks
  <2>2. "\n" \in Removed  BY DEF Removed
  <2>3. <<"\n">> \in Text /\ Only(Removed, <<"\n">>)  BY <2>1, <2>2, OneChar
  <2>4. PICK nl \in Text : nl = <<"\n">> /\ Only(Removed, nl)  BY <2>3
  <2> QED BY <2>4, CleanedAll
<1>2. Cleaned(old) \in Text /\ Cleaned(v) \in Text  BY CleanedText
<1>3. CASE old = << >>
  <2>1. new = << >> \o v  BY ONLY <1>3, new = Longer(old, v), Zenon DEF Longer
  <2>2. new = v  BY <2>1, EmptyAhead
  <2>3. Cleaned(old) = << >>  BY <1>3, CleanedEmpty
  <2> QED BY <1>2, <2>2, <2>3, EmptyAhead
<1>4. CASE old # << >>
  <2>1. PICK u \in Text : u = old \o nl  BY ConcatProperties DEF Text
  <2>2. new = u \o v
    BY ONLY <1>1, <1>4, <2>1, new = Longer(old, v), Zenon DEF Longer
  <2>3. Cleaned(u) = Cleaned(old) \o Cleaned(nl)  BY <2>1, CleanedConcat
  <2>4. Cleaned(u) = Cleaned(old)  BY <1>1, <1>2, <2>3, EmptyAhead
  <2>5. Cleaned(new) = Cleaned(u) \o Cleaned(v)  BY <2>2, CleanedConcat
  <2>6. new \in Text  BY <2>2, ConcatProperties DEF Text
  <2> QED BY <2>4, <2>5, <2>6
<1> QED BY <1>3, <1>4

LEMMA FlatText == ASSUME NEW hs \in HostSeqs PROVE Flat(hs) \in Text
BY HostsAreLists, NoText, JoinedText DEF Flat

\* A value that goes on keeps saying what is meant.
LEMMA LongerCollects ==
    ASSUME NEW old, NEW ms \in HostSeqs, Collects(old, ms, TRUE),
           NEW v, NEW hs \in HostSeqs, NEW end, Listing(v, hs, end), Closed,
           NEW new, new = Longer(old, v)
    PROVE  Collects(new, ms \o hs, end = <<",">>)
<1>1. old \in Text /\ Cleaned(old) = Flat(ms) \o <<",">>  BY DEF Collects
<1>2. v \in Text /\ Cleaned(v) = Counted(hs, end)  BY DEF Listing
<1>3. new \in Text /\ Cleaned(new) = Cleaned(old) \o Cleaned(v)
  BY ONLY <1>1, <1>2, new = Longer(old, v), LongerCleaned
<1>4. PICK c \in Text : c = <<",">>  BY CommaText
<1>5. PICK f \in Text, g \in Text : f = Flat(ms) /\ g = Flat(hs)  BY FlatText
<1>6. PICK fc \in Text : fc = f \o c  BY ConcatProperties DEF Text
<1>7. Flat(ms \o hs) = fc \o g
  <2>1. Flat(ms \o hs) = Flat(ms) \o <<",">> \o Flat(hs)  BY JoinedConcat
  <2> QED BY ONLY <1>4, <1>5, <1>6, <2>1
<1>8. CASE end = <<",">>
  <2>1. Cleaned(new) = fc \o (g \o c)
    BY ONLY <1>1, <1>2, <1>3, <1>4, <1>5, <1>6, <1>8 DEF Counted
  <2>2. Regrouped(fc, g, c)  BY Regroup
  <2>3. Cleaned(new) = Flat(ms \o hs) \o <<",">>
    BY ONLY <1>4, <1>7, <2>1, <2>2 DEF Regrouped
  <2> QED BY <1>3, <1>8, <2>3 DEF Collects
<1>9. CASE end # <<",">>
  <2>1. Cleaned(new) = fc \o g
    BY ONLY <1>1, <1>2, <1>3, <1>4, <1>5, <1>6, <1>9 DEF Counted
  <2> QED BY <1>3, <1>7, <1>9, <2>1 DEF Collects
<1> QED BY <1>8, <1>9

LEMMA MoreCollects ==
    ASSUME Collected, open, last \in DOMAIN meant,
           NEW v, NEW hs \in HostSeqs, NEW end, Listing(v, hs, end),
           values' = Put(values, last, Longer(Get(values, last, << >>), v)),
           meant' = [meant EXCEPT ![last] = @ \o hs], last' = last,
           open' <=> end = <<",">>
    PROVE  Collected'
<1>1. PICK m : m = meant'  OBVIOUS
<1>2. PICK w : w = values'  OBVIOUS
<1>3. PICK old : old = values[last]  OBVIOUS
<1>4. PICK new : new = Longer(old, v)  OBVIOUS
<1>5. DOMAIN values = DOMAIN meant /\ \A k \in DOMAIN meant : meant[k] \in HostSeqs
  BY DEF Collected
<1>6. Get(values, last, << >>) = old
  BY ONLY <1>3, <1>5, last \in DOMAIN meant DEF Get
<1>7. /\ DOMAIN w = DOMAIN values \cup {last} /\ w[last] = new
      /\ \A k \in DOMAIN values : k # last => w[k] = values[k]
  <2>1. IsPut(values, last, new, w)
    BY ONLY <1>2, <1>4, <1>6, values' = Put(values, last, Longer(Get(values, last, << >>), v)),
       PutIs
  <2> QED BY ONLY <2>1 DEF IsPut
<1>8. /\ DOMAIN m = DOMAIN meant /\ m[last] = meant[last] \o hs
      /\ \A k \in DOMAIN meant : k # last => m[k] = meant[k]
  BY ONLY <1>1, meant' = [meant EXCEPT ![last] = @ \o hs], last \in DOMAIN meant
<1>9. DOMAIN w = DOMAIN m  BY ONLY <1>5, <1>7, <1>8, last \in DOMAIN meant
<1>10. ASSUME NEW k \in DOMAIN m PROVE m[k] \in HostSeqs
  <2>1. CASE k = last
    <3>1. meant[last] \in HostSeqs /\ hs \in Seq(Host)  BY <1>5 DEF HostSeqs
    <3>2. meant[last] \o hs \in HostSeqs  BY <3>1, ConcatIsList
    <3> QED BY ONLY <1>8, <2>1, <3>2
  <2>2. CASE k # last  BY ONLY <1>5, <1>8, <2>2, k \in DOMAIN m
  <2> QED BY ONLY <2>1, <2>2
<1>11. ASSUME Closed, NEW k \in DOMAIN m
       PROVE  Collects(w[k], m[k], open' /\ k = last')
  <2>1. \A q \in DOMAIN meant : Collects(values[q], meant[q], open /\ q = last)
    BY <1>11 DEF Collected
  <2>2. CASE k = last
    <3>1. Collects(old, meant[last], TRUE)
      BY ONLY <1>3, <2>1, open, last \in DOMAIN meant DEF Collects
    <3>2. meant[last] \in HostSeqs  BY <1>5
    <3>3. Collects(new, meant[last] \o hs, end = <<",">>)
      BY ONLY <1>4, <1>11, <3>1, <3>2, hs \in HostSeqs, Listing(v, hs, end), LongerCollects
    <3>4. (open' /\ k = last') <=> end = <<",">>
      BY ONLY <2>2, last' = last, open' <=> end = <<",">>
    <3> QED BY ONLY <1>7, <1>8, <2>2, <3>3, <3>4 DEF Collects
  <2>3. CASE k # last
    <3>1. k \in DOMAIN meant /\ w[k] = values[k] /\ m[k] = meant[k]
      BY ONLY <1>5, <1>7, <1>8, <2>3, k \in DOMAIN m
    <3>2. Collects(values[k], meant[k], open /\ k = last)  BY ONLY <2>1, <3>1
    <3> QED BY ONLY <2>3, <3>1, <3>2, last' = last DEF Collects
  <2> QED BY ONLY <2>2, <2>3
<1> QED BY ONLY <1>1, <1>2, <1>9, <1>10, <1>11 DEF Collected

\* A continuation adds its hosts to those of the last key.
LEMMA MoreNext ==
    ASSUME ReadInv, NEW hs \in HostLists, WriteMore(hs)
    PROVE  ReadInv'
<1>1. PICK indent, end :
         /\ indent \in {<<" ">>, <<"\t">>} /\ end \in Closings \cup {<<",">>}
         /\ Write(indent \o Joined(hs, << >>) \o end)
         /\ open' = (end = <<",">>)
  BY Zenon DEF WriteMore
<1>2. /\ open /\ meant' = [meant EXCEPT ![last] = @ \o hs]
      /\ heading' = heading /\ last' = last /\ bad' = bad
  BY DEF WriteMore
<1>3. hs \in HostSeqs  BY HostsAre
<1>4. PICK w \in Text : w = indent /\ Only(Spaces, w) /\ w # << >>
  <2>1. PICK c \in Chars : indent = <<c>> /\ c \in Spaces
    BY <1>1, CharsAre
  <2>2. PICK w \in Text : w = indent /\ Only(Spaces, w) /\ Len(w) = 1
    BY <2>1, OneChar
  <2>3. 1 \in Nat \ {0}  BY ONLY SMT
  <2>4. w # << >>  BY ONLY <2>2, <2>3, w \in Text, NotEmpty
  <2> QED BY ONLY <2>2, <2>4
<1>5. PICK jn \in Text : jn = Joined(hs, << >>)
  BY <1>3, NoText, HostsAreLists, JoinedText
<1>6. PICK v : v = jn \o end  OBVIOUS
<1>7. Listing(v, hs, end) /\ v[1] \notin {";", "#"}
  <2>1. PICK q : q = << >>  OBVIOUS
  <2>2. q \in {<< >>, <<"\"">>} /\ q \in {<< >>, <<" ">>}  BY <2>1
  <2>3. /\ Listing((q \o Joined(hs, q)) \o end, hs, end)
        /\ q = << >> => ((q \o Joined(hs, q)) \o end)[1] \notin {";", "#"}
    BY <1>1, <1>3, <2>2, ListingIs
  <2>4. q \o jn = jn  BY <2>1, EmptyAhead
  <2>5. (q \o Joined(hs, q)) \o end = v  BY ONLY <1>5, <1>6, <2>1, <2>4
  <2> QED BY ONLY <2>1, <2>3, <2>5, Zenon
<1>8. v \in Text /\ Solid(v)  BY <1>7 DEF Listing
<1>9. Write(w \o v)
  <2>1. end \in Text  BY <1>1, EndsAre
  <2>2. Regrouped(w, jn, end)  BY <2>1, Regroup
  <2> QED BY ONLY <1>1, <1>4, <1>5, <1>6, <2>2 DEF Regrouped
<1>10. /\ last # << >> /\ prev_name # << >> /\ last = MakeKey(section, prev_name)
       /\ last \in DOMAIN meant
  BY <1>2 DEF ReadInv, Placed
<1>11. PICK new : new = Longer(Get(values, last, << >>), v)  OBVIOUS
<1>12. Parses(v, TRUE, error, section, prev_name, Put(values, last, new))
  BY <1>7, <1>8, <1>10, <1>11, MoreParsed
<1>13. Advances(error, section, prev_name, Put(values, last, new))
  <2>1. lineno \in Nat /\ full \in Nat /\ (lines = 0 => lineno = 0)  BY DEF ReadInv, Lined
  <2>2. \A x \in BOOLEAN : (w # << >> => x) /\ (x => w # << >> \/ lines = 0)
                => Parses(v, x, error, section, prev_name, Put(values, last, new))
    BY <1>4, <1>12
  <2>3. w = << >> => v[1] # "bom"  BY <1>4
  <2> QED BY ONLY <1>4, <1>8, <1>9, <2>1, <2>2, <2>3, w \in Text, WriteIs
<1>14. Lined'  BY ONLY <1>2, <1>13, ReadInv, LinedNext DEF ReadInv
<1>15. /\ section' = section /\ prev_name' = prev_name /\ values' = Put(values, last, new)
       /\ lines' = lines + 1
  BY <1>13 DEF Advances
<1>16. Placed'
  <2>1. DOMAIN meant' = DOMAIN meant  BY <1>2
  <2>2. lines' # 0  BY <1>15 DEF ReadInv, Lined
  <2> QED BY ONLY <1>2, <1>10, <1>15, <2>1, <2>2, ReadInv DEF ReadInv, Placed
<1>17. Collected'
  <2>1. open' <=> end = <<",">>  BY <1>1
  <2> QED BY ONLY <1>2, <1>3, <1>7, <1>10, <1>11, <1>15, <2>1, ReadInv, MoreCollects
          DEF ReadInv
<1> QED BY ONLY <1>14, <1>16, <1>17 DEF ReadInv

\* A line that is only counted.
LEMMA OnlyCounted ==
    ASSUME ReadInv, NEW b, Advances(b, section, prev_name, values), Lined',
           heading' = heading, last' = last, open' = open, meant' = meant
    PROVE  ReadInv'
<1>1. /\ section' = section /\ prev_name' = prev_name /\ values' = values
      /\ lines' = lines + 1
  BY DEF Advances
<1>2. lines' # 0  BY <1>1 DEF ReadInv, Lined
<1>3. Placed'
  BY ONLY <1>1, <1>2, ReadInv, heading' = heading, last' = last, open' = open,
     meant' = meant DEF ReadInv, Placed
<1>4. Collected'
  BY ONLY <1>1, ReadInv, last' = last, open' = open, meant' = meant DEF ReadInv, Collected
<1> QED BY ONLY <1>3, <1>4, Lined' DEF ReadInv

\* A blank line or a comment.
LEMMA NothingNext == ASSUME ReadInv, WriteNothing PROVE ReadInv'
<1>1. PICK line : /\ line \in {<< >>, <<" ">>, <<"#", "=">>, <<" ", ";", "[">>}
                  /\ Write(line)
  BY Zenon DEF WriteNothing
<1>2. /\ heading' = heading /\ last' = last /\ open' = open /\ meant' = meant
      /\ bad' = bad
  BY DEF WriteNothing
<1>3. lineno \in Nat /\ full \in Nat /\ (lines = 0 => lineno = 0)  BY DEF ReadInv, Lined
<1>4. Advances(error, section, prev_name, values)
  <2>1. ASSUME line \in {<< >>, <<" ">>}
        PROVE  Advances(error, section, prev_name, values)
    BY <1>1, <1>3, <2>1, BlanksAre, WriteBlank
  <2>2. ASSUME NEW w, w \in {<< >>, <<" ">>}, NEW t, t \in {<<"#", "=">>, <<";", "[">>},
               Write(w \o t)
        PROVE  Advances(error, section, prev_name, values)
    <3>1. w \in Text /\ Only(Spaces, w)  BY <2>2, BlanksAre
    <3>2. /\ t \in Text /\ Solid(t) /\ t[1] # "bom"
          /\ \A x : Parses(t, x, error, section, prev_name, values)
      BY <2>2, NothingParsed
    <3>3. \A x \in BOOLEAN : (w # << >> => x) /\ (x => w # << >> \/ lines = 0)
                => Parses(t, x, error, section, prev_name, values)
      BY ONLY <3>2
    <3>4. Write(w \o t)  BY <2>2
    <3> QED BY ONLY <1>3, <3>1, <3>2, <3>3, <3>4, WriteIs
  <2>3. CASE line = <<"#", "=">>
    <3>1. PICK t : t = <<"#", "=">>  OBVIOUS
    <3>2. t \in Text  BY <3>1, NothingParsed
    <3>3. << >> \o t = t  BY <3>2, EmptyAhead
    <3>4. Write(<< >> \o t)  BY ONLY <1>1, <2>3, <3>1, <3>3, Zenon
    <3>5. << >> \in {<< >>, <<" ">>} /\ t \in {<<"#", "=">>, <<";", "[">>}  BY <3>1
    <3> QED BY ONLY <2>2, <3>4, <3>5
  <2>4. CASE line = <<" ", ";", "[">>
    <3>1. PICK w, t : w = <<blank>> /\ t = <<semicolon, "[">>  OBVIOUS
    <3>2. line = <<blank, semicolon, "[">>  BY <2>4 DEF blank, semicolon
    <3>3. \A p, q, r : <<p, q, r>> = <<p>> \o <<q, r>>  BY ONLY SMT
    <3>4. line = w \o t  BY ONLY <3>1, <3>2, <3>3
    <3>5. Write(w \o t)  BY ONLY <1>1, <3>4, Zenon
    <3>6. w \in {<< >>, <<" ">>} /\ t \in {<<"#", "=">>, <<";", "[">>}
      BY <3>1 DEF blank, semicolon
    <3> QED BY ONLY <2>2, <3>5, <3>6
  <2> QED BY ONLY <1>1, <2>1, <2>3, <2>4, Zenon
<1>5. Lined'  BY ONLY <1>2, <1>4, ReadInv, LinedNext DEF ReadInv
<1> QED BY ONLY <1>2, <1>4, <1>5, ReadInv, OnlyCounted

\* A bad line.
LEMMA BadNext == ASSUME ReadInv, WriteBad PROVE ReadInv'
<1>1. PICK t : /\ t \in {<<"[", "n">>, <<"n">>, <<"n", " ", ";", "=">>} /\ Write(t)
  BY Zenon DEF WriteBad
<1>2. /\ heading' = heading /\ last' = last /\ open' = open /\ meant' = meant
      /\ bad' = IF bad = 0 THEN lines + 1 ELSE bad
  BY DEF WriteBad
<1>3. lineno \in Nat /\ full \in Nat /\ (lines = 0 => lineno = 0)  BY DEF ReadInv, Lined
<1>4. lines = 0 => prev_name = << >>  BY DEF ReadInv, Placed
<1>5. \A x : prev_name = << >> \/ ~x =>
        /\ t \in Text /\ Solid(t) /\ t[1] # "bom"
        /\ Parses(t, x, Erred, section, prev_name, values)
  BY <1>1, BadParsed
<1>6. t \in Text /\ Solid(t) /\ t[1] # "bom"
  <2>1. prev_name = << >> \/ ~FALSE  OBVIOUS
  <2> QED BY ONLY <1>5, <2>1
<1>7. PICK w : w = << >> /\ w \in Text /\ Only(Spaces, w)  BY NoText
<1>8. w \o t = t  BY <1>6, <1>7, EmptyAhead
<1>9. Write(w \o t)  BY ONLY <1>1, <1>8, Zenon
<1>10. Advances(Erred, section, prev_name, values)
  <2>1. \A x \in BOOLEAN : (w # << >> => x) /\ (x => w # << >> \/ lines = 0)
                => Parses(t, x, Erred, section, prev_name, values)
    BY ONLY <1>4, <1>5, <1>7
  <2> QED BY ONLY <1>3, <1>6, <1>7, <1>9, <2>1, WriteIs
<1>11. Lined'  BY ONLY <1>2, <1>10, ReadInv, LinedBad DEF ReadInv
<1> QED BY ONLY <1>2, <1>10, <1>11, ReadInv, OnlyCounted

LEMMA ReadInvInit == ASSUME IniInit PROVE ReadInv
<1>1. Lined  BY DEF IniInit, Lined, Numbered
<1>2. Placed  BY NoText DEF IniInit, Placed
<1>3. Collected
  <2>1. meant = << >> /\ values = << >>  BY DEF IniInit
  <2>2. DOMAIN << >> = {}  OBVIOUS
  <2> QED BY ONLY <2>1, <2>2 DEF Collected
<1> QED BY <1>1, <1>2, <1>3 DEF ReadInv

\* The invariant of the reader and its writer.
LEMMA ReadInvStays == IniSpec => []ReadInv
<1>1. IniInit => ReadInv  BY ReadInvInit
<1>2. ReadInv /\ [IniNext]_iniVars => ReadInv'
  <2> SUFFICES ASSUME ReadInv, [IniNext]_iniVars PROVE ReadInv'  OBVIOUS
  <2>1. CASE \E s \in Sections : WriteSection(s)  BY <2>1, SectionNext
  <2>2. CASE \E n \in Names, hs \in HostLists : WritePair(n, hs)
    BY <2>2, PairNext
  <2>3. CASE \E hs \in HostLists : WriteMore(hs)  BY <2>3, MoreNext
  <2>4. CASE WriteNothing  BY <2>4, NothingNext
  <2>5. CASE WriteBad  BY <2>5, BadNext
  <2>6. CASE UNCHANGED iniVars
    BY ONLY <2>6, ReadInv
       DEF iniVars, reader, writer, ReadInv, Lined, Numbered, Placed, Collected
  <2> QED BY ONLY <2>1, <2>2, <2>3, <2>4, <2>5, <2>6, [IniNext]_iniVars DEF IniNext
<1> QED BY <1>1, <1>2, PTL DEF IniSpec

\* ini_parse_file returns 0 if and only if no line of the file is bad, and the
\* number of the first bad line, whatever follows it, if no line before it left
\* no room for its newline, for buffers, names and lists of any size
\* (ini.h:29-31, ini.c:91-92, 123-126, 148-151).
THEOREM ErrorIsTheFirst == IniSpec => []FirstErrorKept
<1>1. ReadInv => FirstErrorKept
  <2> SUFFICES ASSUME ReadInv PROVE FirstErrorKept  OBVIOUS
  <2>1. /\ bad \in Nat /\ full \in Nat
        /\ error = IF bad = 0 THEN 0 ELSE bad + full
    BY DEF ReadInv, Lined, Numbered
  <2> QED BY ONLY <2>1 DEF FirstErrorKept
<1> QED BY <1>1, ReadInvStays, PTL

\* Every key that the writer gave has a value, and main and AS_CONTROL make of
\* it the hosts that were meant, in their order, however they were spread over
\* lines, quoted, spaced and commented, provided that no line of hosts ends in
\* a ';', which the cleaning leaves in the last host (ini.c:91-153,
\* INIReader.cpp:59-68, main.cpp:87-91, as_control.hpp:81).
THEOREM HostsAreRead == ASSUME Closed PROVE IniSpec => []HostsRead
<1>1. ReadInv => HostsRead
  <2> SUFFICES ASSUME ReadInv PROVE HostsRead  OBVIOUS
  <2>1. DOMAIN values = DOMAIN meant  BY DEF ReadInv, Collected
  <2>2. ASSUME NEW key \in DOMAIN meant, ~(open /\ key = last)
        PROVE  as_server_list(key) = meant[key]
    <3>1. Collects(values[key], meant[key], open /\ key = last) /\ meant[key] \in HostSeqs
      BY DEF ReadInv, Collected
    <3>2. Cleaned(values[key]) = Flat(meant[key])  BY <2>2, <3>1 DEF Collects
    <3>3. Get(values, key, << >>) = values[key]  BY <2>1 DEF Get
    <3>4. Parts(Flat(meant[key])) = meant[key]  BY <3>1, JoinedParts DEF Flat
    <3> QED BY ONLY <3>2, <3>3, <3>4 DEF as_server_list
  <2> QED BY ONLY <2>1, <2>2, Zenon DEF HostsRead
<1> QED BY <1>1, ReadInvStays, PTL
=============================================================================
