------------------------------ MODULE AsObject ------------------------------
(***************************************************************************)
(* One Aerospike handle (AS_OBJECT) and the two threads that use it: the   *)
(* worker that owns it, which calls GET, PUT and REMOVE, and the worker    *)
(* that runs the health timer, which calls AS_OBJECT_STATUS and            *)
(* AS_OBJECT_RECONNECT and may ask for GetAsHealthStatus.  Neither locks   *)
(* isalive_ or as_err_.                                                    *)
(*                                                                         *)
(* The Aerospike client is external.  A call of it resets the error it is  *)
(* given, waits for the network and, when that fails, writes the error     *)
(* and returns its code: two steps, between which the other thread may     *)
(* write the same error.                                                   *)
(***************************************************************************)
EXTENDS FiniteSets

CONSTANTS
    Names,  \* the bins of the record that the calls are about
    Kinds   \* the kinds of JSON value that are put

\* A text, by what base64 makes of it: nothing, as of "{" and "x" (a "sign"), the
\* JSON of an object or array, deflated or not, or anything else (a "word").
Texts == {"emptyString", "sign", "word", "packedObject", "packedArray"}

JsonKinds == {"integer", "real", "null", "true", "false", "object", "array"}
             \cup Texts

ASSUME KindsAssumption == Kinds \subseteq JsonKinds /\ IsFiniteSet(Names)

VARIABLES
    isalive_,   \* whether calls are let through
    code,       \* as_err_.code
    connected,  \* the client has a cluster object
    up,         \* the cluster can be reached
    pc,         \* where each thread is: "idle", past the guard, waiting for
                \* the network, between the two steps of an error, or back
                \* from the client
    op,         \* the call each thread is in, or was in last
    json,       \* what the owner puts
    got,        \* history: what became of the owner's call
    status,     \* what the client, or the guard before it, returned
    rec,        \* the record of the owner's call
    bins,       \* what GET has made of it
    store,      \* the record in the cluster
    put,        \* history: what has been put there
    doubt,      \* history: a write has failed, and may have been done or not
    mixed       \* history: the timer wrote as_err_ during the owner's call

handle == <<isalive_, code, connected>>
calls  == <<pc, op, json, got, status>>
data   == <<rec, bins, store, put, doubt>>
vars   == <<handle, up, calls, data, mixed>>

\* What a record can have under a name; "digits" is the text of a real.
BinKinds == {"none", "integer", "digits", "object", "array", "rawBytes"} \cup Texts

\* What GET can show under a name.
Shown == {"none", "integer", "string", "object", "array"}

Threads == {"owner", "timer"}
Writes  == UNION {[ns -> Kinds] : ns \in SUBSET Names}
Nothing == [n \in Names |-> "none"]

Goto(t, label) == pc' = [pc EXCEPT ![t] = label]

\* Every write of as_err_ by the timer.
Mixes(t) == mixed' = (mixed \/ (t = "timer" /\ pc["owner"] # "idle"))

Init ==
    \* The constructor has tried to connect.
    /\ up \in BOOLEAN /\ connected \in {FALSE, up} /\ isalive_ = connected
    /\ code = IF connected THEN "ok" ELSE "client"
    /\ pc = [t \in Threads |-> "idle"]
    /\ op = [t \in Threads |-> IF t = "owner" THEN "GET" ELSE "STATUS"]
    /\ json = << >>
    /\ got = "none" /\ status = [t \in Threads |-> "none"]
    /\ rec = Nothing /\ bins = Nothing
    /\ store = Nothing /\ put = Nothing /\ doubt = FALSE /\ mixed = FALSE

-----------------------------------------------------------------------------
(* The bins of a record, and JSON *)

\* Variant: the bytes end before the NUL.
ToBinUnended(kind) ==
    CASE kind \in {"true", "false"}   -> "integer"
      [] kind = "real"                -> "digits"
      [] kind = "null"                -> "none"
      [] kind \in {"object", "array"} -> "rawBytes"
      [] OTHER                        -> kind
\* The bin that PUT makes of a JSON value.  An object or array is dumped into
\* bytes, with the NUL at its end.
ToBin(kind) ==
    CASE kind \in {"true", "false"} -> "integer"
      [] kind = "real"              -> "digits"
      [] kind = "null"              -> "none"
      [] OTHER                      -> kind

\* What GET makes of a bin.  A text that decodes to something is taken for
\* packed JSON: it is lost when it is none, and when the JSON happens to read as
\* a deflate stream.  Of the digits of a real, those before the point decode to
\* something that is no JSON, unless there is just one or a sign before them.
ToJson(bin) ==
    CASE bin = "sign"                   -> {"string"}
      [] bin = "digits"                 -> {"string", "none"}
      [] bin \in {"emptyString", "word"} -> {"none"}
      [] bin = "packedObject"           -> {"object", "none"}
      [] bin = "packedArray"            -> {"array", "none"}
      [] bin = "rawBytes"               -> {"object", "array", "none"}
      [] OTHER                          -> {bin}

\* The record after a write: a nil bin removes, and the others stay.
Written(record) ==
    [n \in Names |-> IF n \in DOMAIN json THEN ToBin(json[n]) ELSE record[n]]

-----------------------------------------------------------------------------
(* The Aerospike client and the cluster *)

\* The errors of a cluster that can be reached, and of one that cannot.
Failures == IF up THEN {"timeout", "other"}
            ELSE {"timeout", "client", "cluster", "generic"}

\* A thread enters the client, which resets as_err_.
Enter(t, call) ==
    /\ Goto(t, "net") /\ op' = [op EXCEPT ![t] = call]
    /\ code' = "ok" /\ Mixes(t)

Got(t, outcome) == got' = IF t = "owner" THEN outcome ELSE got

\* The network fails a call and the client writes the error.  A write that it
\* gives up may be done all the same.
Fail(t) ==
    /\ pc[t] = "net" /\ op[t] # "RECONNECT"
    /\ Goto(t, "error")
    /\ \E c \in Failures : code' = c /\ Got(t, c)
    /\ Mixes(t)
    /\ IF op[t] \in {"PUT", "REMOVE"}
       THEN /\ store' \in {store, IF op[t] = "PUT" THEN Written(store) ELSE Nothing}
            /\ doubt' = TRUE /\ put' = Nothing
       ELSE UNCHANGED <<store, doubt, put>>
    /\ UNCHANGED <<isalive_, connected, up, op, json, status, rec, bins>>

\* return err->code
ReturnCode(t) ==
    /\ pc[t] = "error" /\ Goto(t, "back")
    /\ status' = [status EXCEPT ![t] = code]
    /\ UNCHANGED <<handle, up, op, json, got, data, mixed>>

Succeed(t) ==
    /\ Goto(t, "back")
    /\ Got(t, "ok") /\ status' = [status EXCEPT ![t] = "ok"]

\* There is no record: an error, too.
NotFound(t) ==
    /\ pc[t] = "net" /\ op[t] \in {"GET", "REMOVE", "STATUS"} /\ up
    /\ t = "owner" => store = Nothing
    /\ Goto(t, "error") /\ Mixes(t)
    /\ code' = "notFound" /\ Got(t, "notFound")
    /\ UNCHANGED <<isalive_, connected, up, op, json, status, data>>

Found(t) ==
    /\ pc[t] = "net" /\ op[t] \in {"GET", "STATUS"} /\ up
    /\ t = "owner" => store # Nothing
    /\ Succeed(t)
    /\ rec' = IF t = "owner" THEN store ELSE rec
    /\ UNCHANGED <<handle, up, op, json, bins, store, put, doubt, mixed>>

Stored ==
    /\ pc["owner"] = "net" /\ op["owner"] = "PUT" /\ up
    /\ Succeed("owner")
    /\ store' = Written(store)
    /\ put' = IF doubt THEN put
              ELSE [n \in Names |-> IF n \in DOMAIN json THEN json[n] ELSE put[n]]
    /\ UNCHANGED <<handle, up, op, json, rec, bins, doubt, mixed>>

Removed ==
    /\ pc["owner"] = "net" /\ op["owner"] = "REMOVE" /\ up /\ store # Nothing
    /\ Succeed("owner")
    /\ store' = Nothing /\ put' = Nothing
    /\ UNCHANGED <<handle, up, op, json, rec, bins, doubt, mixed>>

Network(t) == Fail(t) \/ ReturnCode(t) \/ NotFound(t) \/ Found(t)

-----------------------------------------------------------------------------
(* GET, PUT and REMOVE *)

\* Variant: the guard is left out.
LetThrough == TRUE
\* if ( !isalive_ ) return -1
Alive == isalive_

\* Variant: a refused call looks like one that has succeeded.
RefusedOk == "ok"
Refused   == "dead"

\* Variant: the record is the one that an earlier call left on the stack.
StackRecord == [n \in Names |-> "integer"]
\* as_record_init
EmptyRecord == Nothing

\* A call begins with an empty record and no bins.  What the guard has read of
\* isalive_ may be stale when the client is entered.
Begin(call) ==
    /\ pc["owner"] = "idle"
    /\ rec' = EmptyRecord /\ bins' = Nothing /\ mixed' = FALSE
    /\ IF Alive
       THEN /\ Goto("owner", "call")
            /\ got' = "none" /\ status' = [status EXCEPT !["owner"] = "none"]
       ELSE /\ status' = [status EXCEPT !["owner"] = Refused]
            /\ got' = "dead" /\ UNCHANGED pc
    /\ op' = [op EXCEPT !["owner"] = call]
    /\ UNCHANGED <<handle, up, store, put, doubt>>

Get    == Begin("GET") /\ json' = << >>
Remove == Begin("REMOVE") /\ json' = << >>
Put    == Begin("PUT") /\ json' \in Writes \ {<< >>}

Call ==
    /\ pc["owner"] = "call" /\ Enter("owner", op["owner"])
    /\ UNCHANGED <<isalive_, connected, up, json, got, status, data>>

\* PUT of no bins: if ( nCount <= 0 ) return 0
PutNothing ==
    /\ pc["owner"] = "idle" /\ Alive
    /\ op' = [op EXCEPT !["owner"] = "PUT"] /\ json' = << >>
    /\ got' = "ok" /\ status' = [status EXCEPT !["owner"] = "ok"]
    /\ rec' = Nothing /\ bins' = Nothing /\ mixed' = FALSE
    /\ UNCHANGED <<handle, up, pc, store, put, doubt>>

\* The call returns; GET converts the record of a call that the client has
\* said succeeded.
Return ==
    /\ pc["owner"] = "back" /\ Goto("owner", "idle")
    /\ IF op["owner"] = "GET" /\ status["owner"] = "ok"
       THEN bins' \in {b \in [Names -> Shown] :
                          \A n \in Names : b[n] \in ToJson(rec[n])}
       ELSE UNCHANGED bins
    /\ json' = << >> /\ rec' = Nothing
    /\ UNCHANGED <<handle, up, op, got, status, store, put, doubt, mixed>>

Begun == Call \/ Stored \/ Removed \/ Return \/ Network("owner")
Owner == Get \/ Put \/ PutNothing \/ Remove \/ Begun

-----------------------------------------------------------------------------
(* AS_OBJECT_STATUS, AS_OBJECT_RECONNECT and isAliveAsServer *)

\* AS_OBJECT_STATUS returns false at once.
Dead == ~isalive_

\* aerospike_connect resets as_err_ before it connects.
Reconnect ==
    /\ Enter("timer", "RECONNECT")
    /\ UNCHANGED <<isalive_, connected, up, json, got, status, data>>

Check ==
    /\ pc["timer"] = "idle"
    /\ IF Dead THEN Reconnect
       ELSE /\ Enter("timer", "STATUS")
            /\ UNCHANGED <<isalive_, connected, up, json, got, status, data>>

TimerIdle ==
    /\ Goto("timer", "idle")
    /\ op' = [op EXCEPT !["timer"] = "STATUS"]
    /\ status' = [status EXCEPT !["timer"] = "none"]

\* The codes of AS_OBJECT_STATUS that make the handle be reconnected.
Broken == {"param", "client", "generic"}

Checked ==
    /\ pc["timer"] = "back" /\ op["timer"] = "STATUS"
    /\ IF status["timer"] \in Broken THEN Reconnect
       ELSE /\ TimerIdle
            /\ UNCHANGED <<handle, up, json, got, data, mixed>>

\* A client with a cluster object has nothing to do; one without makes it.
Connect ==
    /\ pc["timer"] = "net" /\ op["timer"] = "RECONNECT"
    /\ \/ /\ connected \/ up
          /\ connected' = TRUE /\ Succeed("timer") /\ UNCHANGED <<code, mixed>>
       \/ /\ ~connected /\ ~up
          /\ Goto("timer", "error")
          /\ code' = "client" /\ Mixes("timer") /\ UNCHANGED <<connected, got, status>>
    /\ UNCHANGED <<isalive_, up, op, json, data>>

\* Variant: a handle that was dead stays dead.
StillAlive == isalive_ /\ status["timer"] = "ok"
\* if (aerospike_connect(as_, &as_err_) == AEROSPIKE_OK)
NowAlive == status["timer"] = "ok"

Connected ==
    /\ pc["timer"] = "back" /\ op["timer"] = "RECONNECT"
    /\ isalive_' = NowAlive
    /\ TimerIdle
    /\ UNCHANGED <<code, connected, up, json, got, data, mixed>>

\* isAliveAsServer judges by the error that was written last.
IsAliveAsServer ==
    /\ pc["timer"] = "idle"
    /\ isalive_' = (isalive_ /\ code \notin {"client", "cluster"})
    /\ UNCHANGED <<code, connected, up, calls, data, mixed>>

Timer == Check \/ Checked \/ Connect \/ Connected \/ Network("timer")

ClusterFlips == up' = ~up /\ UNCHANGED <<handle, calls, data, mixed>>

Next == Owner \/ Timer \/ IsAliveAsServer \/ ClusterFlips

(***************************************************************************)
(* The timer fires again and again, every call of the client returns, and  *)
(* the owner goes on with what it has begun.                               *)
(***************************************************************************)
Spec == Init /\ [][Next]_vars /\ WF_vars(Timer) /\ WF_vars(Begun)

-----------------------------------------------------------------------------
(* Properties *)

Codes == {"none", "dead", "ok", "timeout", "other", "client", "cluster",
          "generic", "notFound"}

\* Every variable has its type (as_object.hpp:421-427).
TypeOK ==
    /\ isalive_ \in BOOLEAN /\ connected \in BOOLEAN /\ up \in BOOLEAN
    /\ code \in Codes \ {"none", "dead"}
    /\ pc \in [Threads -> {"idle", "call", "net", "error", "back"}]
    /\ op \in [Threads -> {"GET", "PUT", "REMOVE", "STATUS", "RECONNECT"}]
    /\ op["owner"] \in {"GET", "PUT", "REMOVE"}
    /\ op["timer"] \in {"STATUS", "RECONNECT"}
    /\ json \in Writes
    /\ rec \in [Names -> BinKinds] /\ store \in [Names -> BinKinds]
    /\ bins \in [Names -> Shown]
    /\ put \in [Names -> Kinds \cup {"none"}]
    /\ got \in Codes /\ status \in [Threads -> Codes]
    /\ doubt \in BOOLEAN /\ mixed \in BOOLEAN

\* The client is asked for records only once it has a cluster object: isalive_
\* stays FALSE until it does, though the owner may reset the very error that
\* aerospike_connect returns the code of (as_object.hpp:85, 104, 131-138, 261).
OnlyConnected ==
    \A t \in Threads :
        pc[t] \in {"net", "error"} /\ op[t] # "RECONNECT" => connected

\* A reply never shows bins that the network did not deliver: when the timer
\* resets the error of a failed GET, so that GET returns OK, the record it
\* converts is the empty one it began with (as_object.hpp:269-284).
BinsAreRead == bins # Nothing => got = "ok"

\* A call returns what the network made of it, unless the timer wrote the error
\* they share meanwhile (as_object.hpp:265-291, 305-376, 385-399).
OwnStatus ==
    pc["owner"] = "idle" /\ ~mixed => status["owner"] = got

\* The value that is meant by what is put, in the JSON that GET can show: texts
\* stand for themselves, packed ones for what is in them.
Meant(kind) ==
    CASE kind \in {"true", "false"}                       -> "integer"
      [] kind = "null"                                    -> "none"
      [] kind \in {"real", "emptyString", "sign", "word"} -> "string"
      [] kind = "packedObject"                            -> "object"
      [] kind = "packedArray"                             -> "array"
      [] OTHER                                            -> kind

\* Texts that GET may take for packed data, or skips.
MayBeLost == {"real", "emptyString", "word", "packedObject", "packedArray"}

\* A GET that finds the record shows, for every name, the value that was put
\* there last, unless a write has failed: exactly that if it is an object, an
\* array, a number without fraction, a truth value or a text that is no base64,
\* and otherwise that or nothing, never another value or an earlier one
\* (as_object.hpp:182-250, 324-364).
PutIsRead ==
    pc["owner"] = "idle" /\ op["owner"] = "GET" /\ got = "ok" /\ ~doubt =>
        \A n \in Names :
            \/ bins[n] = Meant(put[n])
            \/ bins[n] = "none" /\ put[n] \in MayBeLost

\* Once the cluster stays up the handle comes alive and stays so, though
\* isAliveAsServer may still find the error of a call that failed before
\* (as_object.hpp:99-138, 406-419, as_control.hpp:141-151).
ComesAlive == <>[]up => <>[]isalive_
=============================================================================
