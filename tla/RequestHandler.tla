--------------------------- MODULE RequestHandler ---------------------------
(***************************************************************************)
(* request_handler::handle_request on one worker: the dispatch on the path,*)
(* AS_OBJECT::GET with its error paths, the conversion of the bins of a    *)
(* record to JSON, and the ownership of the JSON objects and the record    *)
(* that a request works with.  Other clients of the cluster write the      *)
(* record meanwhile.                                                       *)
(***************************************************************************)
EXTENDS Naturals, Sequences

CONSTANTS
    Apis,     \* the paths requested, in lower case; "" when there is no '?'
    Bins,     \* the kinds of bin that records have
    MaxBins   \* bound: the bins of a record

BinKinds == {"nameless", "scalar", "emptyString", "word", "packed", "sign",
             "emptyBytes", "jsonBytes", "rawBytes", "list", "map", "other"}

ASSUME BinsAssumption == Bins \subseteq BinKinds
ASSUME MaxBinsAssumption == MaxBins \in Nat

VARIABLES
    store,   \* the record the requests name, in the cluster: one or none
    phase,   \* where handle_request is, "idle" before the first request
    api,     \* AS_API
    status,  \* nAsRet: "unset", "dead", "ok" or "failed"
    rec,     \* the record that aerospike_key_get returned
    recRefs, \* how often it must still be destroyed
    next,    \* the bin the iterator returns next
    bins,    \* the names that are in the JSON object of the bins
    fields,  \* the names that are in the JSON object of the reply
    refs     \* the references to the two JSON objects that must be dropped

local == <<status, rec, recRefs, next, bins, fields, refs>>
vars  == <<store, phase, api, local>>

Records == UNION {[1 .. n -> Bins] : n \in 0 .. MaxBins}
Stores  == {{}} \cup {{r} : r \in Records}

Init ==
    /\ store \in Stores
    /\ phase = "idle" /\ api = "" /\ status = "unset"
    /\ rec = << >> /\ recRefs = 0 /\ next = 1
    /\ bins = {} /\ fields = {}
    /\ refs = [root |-> 0, bins |-> 0]

\* Another client of the cluster puts or removes the record.
Write ==
    /\ store' \in Stores
    /\ UNCHANGED <<phase, api, local>>

-----------------------------------------------------------------------------
(* handle_request *)

\* The branch of the path: only /status and /get have one.
Start(path) ==
    /\ phase \in {"idle", "replied"}
    /\ api' = path
    /\ phase' = IF path = "/get" THEN "handle" ELSE "finish"
    /\ fields' = IF path = "/status" THEN {"proxy_code", "proxy_status"} ELSE {}
    /\ refs' = [root |-> 1, bins |-> IF path = "/get" THEN 1 ELSE 0]
    /\ bins' = {} /\ status' = "unset"
    /\ UNCHANGED <<store, rec, recRefs, next>>

\* Variant: the object of the bins is forgotten when there is no handle.
BinsForgotten == UNCHANGED refs
\* json_decref(bins)
DropBins == refs' = [refs EXCEPT !.bins = @ - 1]

\* GetAsObject returned NULL, as it can while rAsList is being filled.
NoHandle ==
    /\ phase = "handle" /\ phase' = "finish"
    /\ DropBins
    /\ UNCHANGED <<store, api, status, rec, recRefs, next, bins, fields>>

-----------------------------------------------------------------------------
(* AS_OBJECT::GET *)

DeadHandle ==
    /\ phase = "handle" /\ phase' = "attach"
    /\ status' = "dead"
    /\ UNCHANGED <<store, api, rec, recRefs, next, bins, fields, refs>>

\* aerospike_key_get returns a copy of the record.
KeyFound ==
    /\ phase = "handle"
    /\ phase' = "convert" /\ status' = "ok"
    /\ rec' \in store /\ recRefs' = 1 /\ next' = 1
    /\ UNCHANGED <<store, api, bins, fields, refs>>

\* There is no record, or the cluster or the network fails.
KeyFailed ==
    /\ phase = "handle" /\ phase' = "attach"
    /\ status' = "failed"
    /\ UNCHANGED <<store, api, rec, recRefs, next, bins, fields, refs>>

-----------------------------------------------------------------------------
(* data_convert_to_json_v1 *)

(***************************************************************************)
(* A string is "empty"; or a "sign" that decodes to nothing as base64, as  *)
(* "{" and "x" do, and is delivered as it is; or "packed", base64 of JSON, *)
(* perhaps deflated, and delivered as that JSON, unless the JSON happens   *)
(* to read as a deflate stream of something else; or a "word" like         *)
(* "user1", whose letters are base64 of something that is not JSON, or a   *)
(* text that is not UTF-8.  json_object_set_new_nocheck does nothing with  *)
(* the NULL that json_string returns for the latter, and json_loads for    *)
(* what is no JSON object or array.  What as_val_tostring makes of a list  *)
(* or map may be JSON or not.                                              *)
(***************************************************************************)
MayDeliver == {"scalar", "sign", "packed", "jsonBytes", "list", "map", "other"}
MayDrop    == {"nameless", "emptyString", "word", "packed", "emptyBytes",
               "rawBytes", "list", "map"}

\* Variant: a skipped bin ends the loop.
ResumeAfterSkip(n) == Len(rec) + 1
\* continue
Resume(n) == n + 1

ConvertBin ==
    /\ phase = "convert" /\ next <= Len(rec)
    /\ \/ /\ rec[next] \in MayDeliver
          /\ bins' = bins \cup {next} /\ next' = next + 1
       \/ /\ rec[next] \in MayDrop
          /\ next' = Resume(next) /\ UNCHANGED bins
    /\ UNCHANGED <<store, phase, api, status, rec, recRefs, fields, refs>>

\* The iterator is at the end; as_record_destroy(rec).
ConvertDone ==
    /\ phase = "convert" /\ next > Len(rec)
    /\ phase' = "attach"
    /\ recRefs' = recRefs - 1
    /\ UNCHANGED <<store, api, status, rec, next, bins, fields, refs>>

-----------------------------------------------------------------------------
(* The end of handle_request *)

\* Variant: the results are attached whatever they are.
AnyBins == TRUE
\* json_object_size(bins) > 0
SomeBins == bins # {}

\* The reply's object takes the reference to the bins over, or it is dropped.
Attach ==
    /\ phase = "attach" /\ phase' = "finish"
    /\ IF SomeBins
       THEN fields' = fields \cup {"results"} /\ UNCHANGED refs
       ELSE DropBins /\ UNCHANGED fields
    /\ UNCHANGED <<store, api, status, rec, recRefs, next, bins>>

\* json_decref(root) drops the references that the reply's object holds.
HeldByReply == IF "results" \in fields THEN 1 ELSE 0

Finish ==
    /\ phase = "finish" /\ phase' = "replied"
    /\ fields' = fields \cup {"took"}
    /\ refs' = [root |-> refs.root - 1, bins |-> refs.bins - HeldByReply]
    /\ UNCHANGED <<store, api, status, rec, recRefs, next, bins>>

Handle == NoHandle \/ DeadHandle \/ KeyFound \/ KeyFailed \/ ConvertBin
          \/ ConvertDone \/ Attach \/ Finish

Next == Write \/ Handle \/ \E path \in Apis : Start(path)

Spec == Init /\ [][Next]_vars

-----------------------------------------------------------------------------
(* Properties *)

\* Every variable has its type; no reference is dropped twice
\* (request_handler.cpp:151-197).
TypeOK ==
    /\ store \in Stores /\ rec \in Records
    /\ phase \in {"idle", "handle", "convert", "attach", "finish", "replied"}
    /\ api \in Apis \cup {""} /\ status \in {"unset", "dead", "ok", "failed"}
    /\ recRefs \in 0 .. 1 /\ next \in 1 .. MaxBins + 1
    /\ bins \subseteq 1 .. MaxBins
    /\ fields \subseteq {"proxy_code", "proxy_status", "results", "took"}
    /\ refs \in [root : 0 .. 1, bins : 0 .. 1]

\* Whatever way a request takes, its JSON objects live as long as it works
\* with them, and both they and the record are freed once it is answered
\* (request_handler.cpp:165-176, 197, as_object.hpp:280-289).
NothingLeaks ==
    /\ phase \in {"handle", "convert", "attach"} =>
          refs = [root |-> 1, bins |-> 1]
    /\ phase = "replied" => refs = [root |-> 0, bins |-> 0] /\ recRefs = 0

\* The bins of a reply are those of the one version of the record that was
\* read: each that has a JSON form, whatever bins come before it, and no other
\* (as_object.hpp:173-257, 284).
BinsComplete ==
    phase = "convert" /\ next > Len(rec) =>
        /\ {i \in DOMAIN rec : rec[i] \notin MayDrop} \subseteq bins
        /\ bins \subseteq {i \in DOMAIN rec : rec[i] \in MayDeliver}

\* A reply has results exactly when the record was read and has bins to show:
\* a failed or refused read shows nothing (request_handler.cpp:167-176).
ResultsWhenFound ==
    phase = "replied" =>
        ("results" \in fields <=> api = "/get" /\ status = "ok" /\ bins # {})

\* README.rst:92-96: the bins of a GET include strings such as "user1".
StringsDelivered ==
    phase = "replied" /\ status = "ok" =>
        \A i \in DOMAIN rec : rec[i] \in {"word", "packed", "sign"} => i \in bins
=============================================================================
