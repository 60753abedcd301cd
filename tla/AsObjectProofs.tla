--------------------------- MODULE AsObjectProofs ---------------------------
(***************************************************************************)
(* Theorems about a handle, for every set of bins and kinds of value: what *)
(* the health check of one thread can and cannot do to the calls of the    *)
(* other, though neither locks isalive_ or as_err_.                        *)
(***************************************************************************)
EXTENDS AsObject, TLAPS

LEMMA BinOfKind == \A k \in Kinds \cup {"none"} : ToBin(k) \in BinKinds
BY KindsAssumption DEF ToBin, BinKinds, JsonKinds, Texts

LEMMA NothingTypes ==
    /\ Nothing \in [Names -> BinKinds]
    /\ Nothing \in [Names -> Shown]
    /\ Nothing \in [Names -> Kinds \cup {"none"}]
BY DEF Nothing, BinKinds, Shown

LEMMA NoWrite == << >> \in Writes
<1>1. << >> \in [{} -> Kinds]
  OBVIOUS
<1> QED
  BY <1>1 DEF Writes

LEMMA WriteTypes ==
    ASSUME json \in Writes
    PROVE  \A n \in DOMAIN json : json[n] \in Kinds
BY DEF Writes

LEMMA WrittenType ==
    ASSUME json \in Writes, store \in [Names -> BinKinds]
    PROVE  Written(store) \in [Names -> BinKinds]
BY WriteTypes, BinOfKind DEF Written

-----------------------------------------------------------------------------
(* Types *)

LEMMA InitTypes == Init => TypeOK
<1> SUFFICES ASSUME Init PROVE TypeOK
  OBVIOUS
<1>1. code \in Codes \ {"none", "dead"} /\ got \in Codes
  BY DEF Init, Codes
<1>2. rec \in [Names -> BinKinds] /\ store \in [Names -> BinKinds]
      /\ bins \in [Names -> Shown]
      /\ put \in [Names -> Kinds \cup {"none"}]
  BY NothingTypes DEF Init
<1>3. json \in Writes
  BY NoWrite DEF Init
<1>4. /\ isalive_ \in BOOLEAN /\ connected \in BOOLEAN /\ up \in BOOLEAN
      /\ doubt \in BOOLEAN /\ mixed \in BOOLEAN
  BY DEF Init
<1> QED
  BY <1>1, <1>2, <1>3, <1>4 DEF Init, TypeOK, Threads, Codes

LEMMA BeginTypes ==
    ASSUME TypeOK, NEW call \in {"GET", "PUT", "REMOVE"}, Begin(call), json' \in Writes
    PROVE  TypeOK'
<1>1. rec' \in [Names -> BinKinds] /\ bins' \in [Names -> Shown]
  BY NothingTypes DEF Begin, EmptyRecord
<1>2. store' \in [Names -> BinKinds] /\ put' \in [Names -> Kinds \cup {"none"}]
  BY DEF Begin, TypeOK
<1>3. pc' \in [Threads -> {"idle", "call", "net", "error", "back"}]
  BY DEF Begin, TypeOK, Threads, Goto
<1>4. got' \in Codes /\ status' \in [Threads -> Codes]
  BY DEF Begin, TypeOK, Threads, Refused, Codes
<1> QED
  BY <1>1, <1>2, <1>3, <1>4 DEF Begin, TypeOK, Threads, handle

LEMMA OwnerTypes ==
    ASSUME TypeOK, Get \/ Put \/ PutNothing \/ Remove \/ Call \/ Stored \/ Removed \/ Return
    PROVE  TypeOK'
<1>1. CASE Get
  BY <1>1, BeginTypes, NoWrite DEF Get
<1>2. CASE Put
  BY <1>2, BeginTypes DEF Put
<1>3. CASE Remove
  BY <1>3, BeginTypes, NoWrite DEF Remove
<1>4. CASE PutNothing
  BY <1>4, NothingTypes, NoWrite DEF PutNothing, TypeOK, Threads, Codes, handle
<1>5. CASE Call
  BY <1>5 DEF Call, Enter, Goto, Mixes, TypeOK, Threads, Codes, data
<1>6. CASE Stored
  <2>1. store' \in [Names -> BinKinds]
    BY <1>6, WrittenType DEF Stored, TypeOK
  <2>2. put' \in [Names -> Kinds \cup {"none"}]
    BY <1>6, WriteTypes DEF Stored, TypeOK
  <2> QED
    BY <1>6, <2>1, <2>2 DEF Stored, Succeed, Got, Goto, TypeOK, Threads, Codes, handle
<1>7. CASE Removed
  BY <1>7, NothingTypes
     DEF Removed, Succeed, Got, Goto, TypeOK, Threads, Codes, handle
<1>8. CASE Return
  <2>1. bins' \in [Names -> Shown]
    BY <1>8 DEF Return, TypeOK
  <2> QED
    BY <1>8, <2>1, NothingTypes, NoWrite DEF Return, Goto, TypeOK, Threads, handle
<1> QED
  BY <1>1, <1>2, <1>3, <1>4, <1>5, <1>6, <1>7, <1>8

LEMMA NetworkTypes ==
    ASSUME TypeOK, NEW t \in Threads, Network(t)
    PROVE  TypeOK'
<1>1. CASE Fail(t)
  <2>1. store' \in [Names -> BinKinds] /\ put' \in [Names -> Kinds \cup {"none"}]
    BY <1>1, WrittenType, NothingTypes DEF Fail, TypeOK
  <2>2. code' \in Codes \ {"none", "dead"} /\ got' \in Codes
    BY <1>1 DEF Fail, Failures, Got, Codes, TypeOK
  <2> QED
    BY <1>1, <2>1, <2>2 DEF Fail, Goto, Mixes, TypeOK, Threads
<1>2. CASE ReturnCode(t)
  BY <1>2 DEF ReturnCode, Goto, TypeOK, Threads, Codes, handle, data
<1>3. CASE NotFound(t)
  BY <1>3 DEF NotFound, Goto, Mixes, Got, TypeOK, Threads, Codes, data
<1>4. CASE Found(t)
  BY <1>4 DEF Found, Succeed, Got, Goto, TypeOK, Threads, Codes, handle
<1> QED
  BY <1>1, <1>2, <1>3, <1>4 DEF Network

\* The timer enters a call.
LEMMA TimerEnters ==
    ASSUME TypeOK, NEW call \in {"STATUS", "RECONNECT"}, Enter("timer", call),
           UNCHANGED <<isalive_, connected, up, json, got, status, data>>
    PROVE  TypeOK'
<1>1. /\ pc' = [pc EXCEPT !["timer"] = "net"]
      /\ op' = [op EXCEPT !["timer"] = call]
      /\ code' = "ok" /\ Mixes("timer")
  BY DEF Enter, Goto
<1>2. /\ pc' \in [Threads -> {"idle", "call", "net", "error", "back"}]
      /\ op' \in [Threads -> {"GET", "PUT", "REMOVE", "STATUS", "RECONNECT"}]
      /\ op'["owner"] = op["owner"] /\ op'["timer"] = call
  BY <1>1 DEF TypeOK, Threads
<1>3. code' \in Codes \ {"none", "dead"} /\ mixed' \in BOOLEAN
  BY <1>1 DEF Mixes, Codes, TypeOK
<1> QED
  BY <1>2, <1>3 DEF TypeOK, data

LEMMA TimerTypes ==
    ASSUME TypeOK, Check \/ Checked \/ Connect \/ Connected \/ IsAliveAsServer
                   \/ ClusterFlips \/ UNCHANGED vars
    PROVE  TypeOK'
<1>1. CASE Check
  BY <1>1, TimerEnters DEF Check, Reconnect
<1>2. CASE Checked
  <2>1. CASE Reconnect
    BY <2>1, TimerEnters DEF Reconnect
  <2>2. CASE TimerIdle /\ UNCHANGED <<handle, up, json, got, data, mixed>>
    BY <2>2 DEF TimerIdle, Goto, TypeOK, Threads, Codes, data, handle
  <2> QED
    BY <1>2, <2>1, <2>2 DEF Checked
<1>3. CASE Connect
  <2>1. CASE connected' = TRUE /\ Succeed("timer") /\ UNCHANGED <<code, mixed>>
    BY <1>3, <2>1 DEF Connect, Succeed, Got, Goto, TypeOK, Threads, Codes, data
  <2>2. CASE /\ Goto("timer", "error") /\ code' = "client" /\ Mixes("timer")
             /\ UNCHANGED <<connected, got, status>>
    BY <1>3, <2>2 DEF Connect, Goto, Mixes, TypeOK, Threads, Codes, data
  <2> QED
    BY <1>3, <2>1, <2>2 DEF Connect
<1>4. CASE Connected
  BY <1>4 DEF Connected, NowAlive, TimerIdle, Goto, TypeOK, Threads, Codes, data
<1>5. CASE IsAliveAsServer
  BY <1>5 DEF IsAliveAsServer, TypeOK, calls, data
<1>6. CASE ClusterFlips
  BY <1>6 DEF ClusterFlips, TypeOK, handle, calls, data
<1>7. CASE UNCHANGED vars
  BY <1>7 DEF vars, TypeOK, handle, calls, data
<1> QED
  BY <1>1, <1>2, <1>3, <1>4, <1>5, <1>6, <1>7

\* The steps of the threads, as the lemmas take them.
LEMMA Steps ==
    ASSUME [Next]_vars
    PROVE  \/ Get \/ Put \/ PutNothing \/ Remove \/ Call \/ Stored \/ Removed \/ Return
           \/ \E t \in Threads : Network(t)
           \/ Check \/ Checked \/ Connect \/ Connected \/ IsAliveAsServer
           \/ ClusterFlips \/ UNCHANGED vars
BY DEF Next, Owner, Begun, Timer, Threads

LEMMA TypeStep == TypeOK /\ [Next]_vars => TypeOK'
BY Steps, OwnerTypes, NetworkTypes, TimerTypes

\* Every variable of a handle and of the calls on it has its type, whatever the
\* two threads do to each other: as_err_ always holds a code of the client
\* library, and a bin put is of a kind the client knows (as_object.hpp:131-145,
\* 261-396).
THEOREM HandleTypes == Spec => []TypeOK
BY InitTypes, TypeStep, PTL DEF Spec

-----------------------------------------------------------------------------
(* The places of the threads *)

\* What the places of the threads say of the client: only a thread that
\* reconnects works without a cluster object, and then no call is under way that
\* could reset the error that it is about to return (as_object.hpp:131-138, 261).
Places ==
    /\ isalive_ => connected
    /\ pc["owner"] # "idle" => connected
    /\ pc["timer"] # "idle" /\ op["timer"] = "STATUS" => connected
    /\ pc["timer"] = "error" /\ op["timer"] = "RECONNECT" =>
          ~connected /\ code = "client"
    /\ pc["timer"] = "back" /\ op["timer"] = "RECONNECT" /\ status["timer"] = "ok" =>
          connected

LEMMA InitPlaces == Init => Places
BY DEF Init, Places, Threads

LEMMA OwnerPlaces ==
    ASSUME TypeOK, Places,
           Get \/ Put \/ PutNothing \/ Remove \/ Call \/ Stored \/ Removed \/ Return
    PROVE  Places'
<1> USE DEF Places, TypeOK, Threads, handle, data
<1>1. CASE Get \/ Put \/ Remove
  BY <1>1 DEF Get, Put, Remove, Begin, Alive, Goto
<1>2. CASE PutNothing
  BY <1>2 DEF PutNothing
<1>3. CASE Call
  BY <1>3 DEF Call, Enter, Goto
<1>4. CASE Stored
  BY <1>4 DEF Stored, Succeed, Goto
<1>5. CASE Removed
  BY <1>5 DEF Removed, Succeed, Goto
<1>6. CASE Return
  BY <1>6 DEF Return, Goto
<1> QED
  BY <1>1, <1>2, <1>3, <1>4, <1>5, <1>6

LEMMA NetworkPlaces ==
    ASSUME TypeOK, Places, NEW t \in Threads, Network(t)
    PROVE  Places'
<1> USE DEF Places, TypeOK, Threads
<1>1. CASE Fail(t)
  BY <1>1 DEF Fail, Goto
<1>2. CASE ReturnCode(t)
  BY <1>2 DEF ReturnCode, Goto, handle
<1>3. CASE NotFound(t)
  BY <1>3 DEF NotFound, Goto
<1>4. CASE Found(t)
  BY <1>4 DEF Found, Succeed, Goto, handle
<1> QED
  BY <1>1, <1>2, <1>3, <1>4 DEF Network

LEMMA TimerPlaces ==
    ASSUME TypeOK, Places,
           Check \/ Checked \/ Connect \/ Connected \/ IsAliveAsServer
           \/ ClusterFlips \/ UNCHANGED vars
    PROVE  Places'
<1> USE DEF Places, TypeOK, Threads
<1>1. CASE Check
  BY <1>1 DEF Check, Dead, Reconnect, Enter, Goto
<1>2. CASE Checked
  BY <1>2 DEF Checked, Reconnect, Enter, TimerIdle, Goto, handle
<1>3. CASE Connect
  BY <1>3 DEF Connect, Succeed, Goto
<1>4. CASE Connected
  BY <1>4 DEF Connected, NowAlive, TimerIdle, Goto
<1>5. CASE IsAliveAsServer
  BY <1>5 DEF IsAliveAsServer, calls
<1>6. CASE ClusterFlips
  BY <1>6 DEF ClusterFlips, handle, calls
<1>7. CASE UNCHANGED vars
  BY <1>7 DEF vars, handle, calls
<1> QED
  BY <1>1, <1>2, <1>3, <1>4, <1>5, <1>6, <1>7

LEMMA PlacesStep == TypeOK /\ Places /\ [Next]_vars => Places'
BY Steps, OwnerPlaces, NetworkPlaces, TimerPlaces

\* The client is asked for records only once it has a cluster object, whatever
\* the two threads do to isalive_ and as_err_ (as_object.hpp:104, 131-138, 261).
THEOREM OnlyConnectedCalls == Spec => []OnlyConnected
<1>1. TypeOK /\ Places => OnlyConnected
  BY DEF TypeOK, Places, OnlyConnected, Threads
<1> QED
  BY InitTypes, TypeStep, InitPlaces, PlacesStep, <1>1, PTL DEF Spec

-----------------------------------------------------------------------------
(* What became of a call *)

\* What the owner's call has come to, until it returns (as_object.hpp:265-284).
Outcome ==
    /\ pc["owner"] # "idle" => bins = Nothing
    /\ rec # Nothing => pc["owner"] = "back" /\ got = "ok"
    /\ pc["owner"] = "error" => got # "ok" /\ (~mixed => code = got)
    /\ pc["owner"] = "back" => /\ ~mixed => status["owner"] = got
                               /\ got = "ok" => status["owner"] = "ok"

CallInv == TypeOK /\ Outcome /\ BinsAreRead /\ OwnStatus

LEMMA InitCalls == Init => Outcome /\ BinsAreRead /\ OwnStatus
BY DEF Init, Outcome, BinsAreRead, OwnStatus, Threads

\* Nothing is made of an empty record.
LEMMA NothingOfNothing ==
    ASSUME NEW b \in [Names -> Shown],
           \A n \in Names : b[n] \in ToJson(Nothing[n])
    PROVE  b = Nothing
<1>1. ToJson("none") = {"none"}
  BY DEF ToJson
<1>2. \A n \in Names : b[n] = "none"
  BY <1>1 DEF Nothing
<1> QED
  BY <1>2 DEF Nothing

LEMMA OwnerCalls ==
    ASSUME CallInv,
           Get \/ Put \/ PutNothing \/ Remove \/ Call \/ Stored \/ Removed \/ Return
    PROVE  Outcome' /\ BinsAreRead' /\ OwnStatus'
<1> USE DEF CallInv, Outcome, BinsAreRead, OwnStatus, TypeOK, Threads
<1>1. CASE Get \/ Put \/ Remove
  BY <1>1 DEF Get, Put, Remove, Begin, EmptyRecord, Refused, Goto
<1>2. CASE PutNothing
  BY <1>2 DEF PutNothing
<1>3. CASE Call
  BY <1>3 DEF Call, Enter, Goto, Mixes, data
<1>4. CASE Stored
  BY <1>4 DEF Stored, Succeed, Got, Goto
<1>5. CASE Removed
  BY <1>5 DEF Removed, Succeed, Got, Goto
<1>6. CASE Return
  <2>1. pc'["owner"] = "idle" /\ got' = got /\ status' = status /\ mixed' = mixed
        /\ rec' = Nothing
    BY <1>6 DEF Return, Goto
  <2>2. bins' # Nothing => rec # Nothing \/ bins # Nothing
    BY <1>6, NothingOfNothing DEF Return
  <2> QED
    BY <1>6, <2>1, <2>2 DEF Return
<1> QED
  BY <1>1, <1>2, <1>3, <1>4, <1>5, <1>6

LEMMA NetworkCalls ==
    ASSUME CallInv, NEW t \in Threads, Network(t)
    PROVE  Outcome' /\ BinsAreRead' /\ OwnStatus'
<1> USE DEF CallInv, Outcome, BinsAreRead, OwnStatus, TypeOK, Threads
<1>1. CASE Fail(t)
  BY <1>1 DEF Fail, Failures, Got, Mixes, Goto
<1>2. CASE ReturnCode(t)
  BY <1>2 DEF ReturnCode, Goto, handle, data
<1>3. CASE NotFound(t)
  BY <1>3 DEF NotFound, Got, Mixes, Goto, data
<1>4. CASE Found(t)
  BY <1>4 DEF Found, Succeed, Got, Goto, handle
<1> QED
  BY <1>1, <1>2, <1>3, <1>4 DEF Network

LEMMA TimerCalls ==
    ASSUME CallInv,
           Check \/ Checked \/ Connect \/ Connected \/ IsAliveAsServer
           \/ ClusterFlips \/ UNCHANGED vars
    PROVE  Outcome' /\ BinsAreRead' /\ OwnStatus'
<1> USE DEF CallInv, Outcome, BinsAreRead, OwnStatus, TypeOK, Threads
<1>1. CASE Check
  BY <1>1 DEF Check, Reconnect, Enter, Mixes, Goto, data
<1>2. CASE Checked
  BY <1>2 DEF Checked, Reconnect, Enter, Mixes, TimerIdle, Goto, handle, data
<1>3. CASE Connect
  BY <1>3 DEF Connect, Succeed, Got, Mixes, Goto, data
<1>4. CASE Connected
  BY <1>4 DEF Connected, TimerIdle, Goto, data
<1>5. CASE IsAliveAsServer
  BY <1>5 DEF IsAliveAsServer, calls, data
<1>6. CASE ClusterFlips
  BY <1>6 DEF ClusterFlips, handle, calls, data
<1>7. CASE UNCHANGED vars
  BY <1>7 DEF vars, handle, calls, data
<1> QED
  BY <1>1, <1>2, <1>3, <1>4, <1>5, <1>6, <1>7

LEMMA CallsStep == CallInv /\ [Next]_vars => CallInv'
BY Steps, TypeStep, OwnerCalls, NetworkCalls, TimerCalls DEF CallInv

LEMMA HandleCalls == Spec => []CallInv
<1>1. Init => CallInv
  BY InitTypes, InitCalls DEF CallInv
<1> QED
  BY <1>1, CallsStep, PTL DEF Spec

\* A reply shows no bins but those the network delivered (as_object.hpp:269-284).
THEOREM OnlyReadBins == Spec => []BinsAreRead
BY HandleCalls, PTL DEF CallInv

\* A call returns what the network made of it, unless the timer wrote their error
\* meanwhile (as_object.hpp:265-291).
THEOREM CallsOwnTheirStatus == Spec => []OwnStatus
BY HandleCalls, PTL DEF CallInv

-----------------------------------------------------------------------------
(* What a GET shows *)

\* The record in the cluster is what was put, and a GET has read this one.
Kept ==
    ~doubt => /\ \A n \in Names : store[n] = ToBin(put[n])
              /\ pc["owner"] = "back" /\ op["owner"] = "GET" /\ got = "ok" => rec = store

\* What GET may show of a value that was put.
IsShown(kind, shown) ==
    \/ shown = Meant(kind)
    \/ shown = "none" /\ kind \in MayBeLost

LEMMA BinsOfValues ==
    ASSUME NEW kind \in Kinds \cup {"none"}, NEW shown \in ToJson(ToBin(kind))
    PROVE  IsShown(kind, shown)
<1>1. kind \in JsonKinds \cup {"none"}
  BY KindsAssumption
<1>2. CASE kind \in {"true", "false"}
  <2>1. ToBin(kind) = "integer" /\ Meant(kind) = "integer"
    BY <1>2 DEF ToBin, Meant
  <2>2. ToJson("integer") = {"integer"}
    BY DEF ToJson
  <2> QED
    BY <2>1, <2>2 DEF IsShown
<1>3. CASE kind = "real"
  <2>1. ToBin(kind) = "digits" /\ Meant(kind) = "string" /\ kind \in MayBeLost
    BY <1>3 DEF ToBin, Meant, MayBeLost
  <2>2. ToJson("digits") = {"string", "none"}
    BY DEF ToJson
  <2>3. shown \in {"string", "none"}
    BY <2>1, <2>2
  <2> QED
    BY <2>1, <2>3 DEF IsShown
<1>4. CASE kind \in {"null", "none"}
  <2>1. ToBin(kind) = "none" /\ Meant(kind) = "none"
    BY <1>4 DEF ToBin, Meant
  <2>2. ToJson("none") = {"none"}
    BY DEF ToJson
  <2> QED
    BY <2>1, <2>2 DEF IsShown
<1>5. CASE kind = "sign"
  <2>1. ToBin(kind) = "sign" /\ Meant(kind) = "string"
    BY <1>5 DEF ToBin, Meant
  <2>2. ToJson("sign") = {"string"}
    BY DEF ToJson
  <2> QED
    BY <2>1, <2>2 DEF IsShown
<1>6. CASE kind \in {"emptyString", "word"}
  <2>1. ToBin(kind) = kind /\ kind \in MayBeLost
    BY <1>6 DEF ToBin, MayBeLost
  <2>2. ToJson(kind) = {"none"}
    BY <1>6 DEF ToJson
  <2> QED
    BY <2>1, <2>2 DEF IsShown
<1>7. CASE kind = "packedObject"
  <2>1. ToBin(kind) = "packedObject" /\ Meant(kind) = "object" /\ kind \in MayBeLost
    BY <1>7 DEF ToBin, Meant, MayBeLost
  <2>2. ToJson("packedObject") = {"object", "none"}
    BY DEF ToJson
  <2>3. shown \in {"object", "none"}
    BY <2>1, <2>2
  <2> QED
    BY <2>1, <2>3 DEF IsShown
<1>8. CASE kind = "packedArray"
  <2>1. ToBin(kind) = "packedArray" /\ Meant(kind) = "array" /\ kind \in MayBeLost
    BY <1>8 DEF ToBin, Meant, MayBeLost
  <2>2. ToJson("packedArray") = {"array", "none"}
    BY DEF ToJson
  <2>3. shown \in {"array", "none"}
    BY <2>1, <2>2
  <2> QED
    BY <2>1, <2>3 DEF IsShown
<1>9. CASE kind \in {"integer", "object", "array"}
  <2>1. ToBin(kind) = kind /\ Meant(kind) = kind
    BY <1>9 DEF ToBin, Meant
  <2>2. ToJson(kind) = {kind}
    BY <1>9 DEF ToJson
  <2> QED
    BY <2>1, <2>2 DEF IsShown
<1> QED
  BY <1>1, <1>2, <1>3, <1>4, <1>5, <1>6, <1>7, <1>8, <1>9 DEF JsonKinds, Texts

LEMMA InitKept == Init => Kept /\ PutIsRead
<1>1. ToBin("none") = "none" /\ Meant("none") = "none"
  BY DEF ToBin, Meant
<1> QED
  BY <1>1 DEF Init, Kept, PutIsRead, Nothing, Threads

LEMMA NothingIsKept == \A n \in Names : Nothing[n] = ToBin(Nothing[n])
BY DEF Nothing, ToBin

LEMMA OwnerKept ==
    ASSUME CallInv, Kept, PutIsRead,
           Get \/ Put \/ PutNothing \/ Remove \/ Call \/ Stored \/ Removed \/ Return
    PROVE  Kept' /\ PutIsRead'
<1> USE DEF CallInv, Outcome, Kept, PutIsRead, TypeOK, Threads
<1>1. CASE Get \/ Put \/ Remove
  BY <1>1 DEF Get, Put, Remove, Begin, Goto
<1>2. CASE PutNothing
  BY <1>2 DEF PutNothing
<1>3. CASE Call
  BY <1>3 DEF Call, Enter, Goto, data
<1>4. CASE Stored
  <2>1. pc'["owner"] = "back" /\ op' = op /\ op["owner"] = "PUT" /\ doubt' = doubt
    BY <1>4 DEF Stored, Succeed, Goto
  <2>2. ASSUME ~doubt, NEW n \in Names PROVE store'[n] = ToBin(put'[n])
    <3>1. store'[n] = IF n \in DOMAIN json THEN ToBin(json[n]) ELSE store[n]
      BY <1>4 DEF Stored, Written
    <3>2. put'[n] = IF n \in DOMAIN json THEN json[n] ELSE put[n]
      BY <1>4, <2>2 DEF Stored
    <3> QED
      BY <2>2, <3>1, <3>2
  <2> QED
    BY <2>1, <2>2
<1>5. CASE Removed
  BY <1>5, NothingIsKept DEF Removed, Succeed, Goto
<1>6. CASE Return
  <2>1. /\ pc'["owner"] = "idle" /\ op' = op /\ got' = got /\ doubt' = doubt
        /\ store' = store /\ put' = put
    BY <1>6 DEF Return, Goto
  <2>2. ASSUME op["owner"] = "GET", got = "ok", ~doubt, NEW n \in Names
        PROVE  IsShown(put[n], bins'[n])
    <3>1. status["owner"] = "ok" /\ rec = store
      BY <1>6, <2>2 DEF Return
    <3>2. bins'[n] \in ToJson(rec[n])
      BY <1>6, <2>2, <3>1 DEF Return
    <3>3. rec[n] = ToBin(put[n]) /\ put[n] \in Kinds \cup {"none"}
      BY <2>2, <3>1
    <3> QED
      BY <3>2, <3>3, BinsOfValues
  <2> QED
    BY <2>1, <2>2 DEF IsShown
<1> QED
  BY <1>1, <1>2, <1>3, <1>4, <1>5, <1>6

LEMMA NetworkKept ==
    ASSUME CallInv, Kept, PutIsRead, NEW t \in Threads, Network(t)
    PROVE  Kept' /\ PutIsRead'
<1> USE DEF CallInv, Outcome, Kept, PutIsRead, TypeOK, Threads
<1>1. CASE Fail(t)
  BY <1>1 DEF Fail, Got, Goto
<1>2. CASE ReturnCode(t)
  BY <1>2 DEF ReturnCode, Goto, handle, data
<1>3. CASE NotFound(t)
  BY <1>3 DEF NotFound, Got, Goto, data
<1>4. CASE Found(t)
  BY <1>4 DEF Found, Succeed, Got, Goto, handle
<1> QED
  BY <1>1, <1>2, <1>3, <1>4 DEF Network

LEMMA TimerKept ==
    ASSUME CallInv, Kept, PutIsRead,
           Check \/ Checked \/ Connect \/ Connected \/ IsAliveAsServer
           \/ ClusterFlips \/ UNCHANGED vars
    PROVE  Kept' /\ PutIsRead'
<1> USE DEF CallInv, Kept, PutIsRead, TypeOK, Threads, data
<1>1. CASE Check
  BY <1>1 DEF Check, Reconnect, Enter, Goto
<1>2. CASE Checked
  BY <1>2 DEF Checked, Reconnect, Enter, TimerIdle, Goto
<1>3. CASE Connect
  BY <1>3 DEF Connect, Succeed, Got, Goto
<1>4. CASE Connected
  BY <1>4 DEF Connected, TimerIdle, Goto
<1>5. CASE IsAliveAsServer
  BY <1>5 DEF IsAliveAsServer, calls
<1>6. CASE ClusterFlips
  BY <1>6 DEF ClusterFlips, calls
<1>7. CASE UNCHANGED vars
  BY <1>7 DEF vars, calls
<1> QED
  BY <1>1, <1>2, <1>3, <1>4, <1>5, <1>6, <1>7

LEMMA KeptStep == CallInv /\ Kept /\ PutIsRead /\ [Next]_vars => Kept' /\ PutIsRead'
BY Steps, OwnerKept, NetworkKept, TimerKept

\* A GET that finds the record shows, of every value that was put there last, this
\* value, or nothing if it is empty, a text that reads as base64 or a real, unless a
\* write has failed (as_object.hpp:182-250, 324-364).
THEOREM PutsAreRead == Spec => []PutIsRead
<1>1. Init => CallInv
  BY InitTypes, InitCalls DEF CallInv
<1> QED
  BY <1>1, CallsStep, InitKept, KeptStep, PTL DEF Spec
=============================================================================
