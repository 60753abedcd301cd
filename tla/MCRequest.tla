----------------------------- MODULE MCRequest ------------------------------
(* The TLC instance of the handling of a request: its path through           *)
(* handle_request and GET, and the conversions that its data goes through.   *)
(* They share no state: a behaviour is one of RequestHandler, of Query, of   *)
(* Base64 or of Gzip, and the others stay in an initial state.               *)
EXTENDS RequestHandler, Query, Base64, Gzip

VARIABLE part

handlerVars == vars
mcVars == <<part, handlerVars, queryVars, base64Vars, gzipVars>>

MCInit ==
    /\ part \in {"handler", "query", "base64", "gzip"}
    /\ Init /\ (part # "handler" => store = {})
    /\ QueryInit /\ Base64Init /\ GzipInit

\* A conversion comes to its end; a request handler does not.
Converted == part # "handler" /\ UNCHANGED <<handlerVars, queryVars, base64Vars, gzipVars>>

MCNext ==
    /\ UNCHANGED part
    /\ \/ part = "handler" /\ Next /\ UNCHANGED <<queryVars, base64Vars, gzipVars>>
       \/ part = "query"  /\ QueryNext  /\ UNCHANGED <<handlerVars, base64Vars, gzipVars>>
       \/ part = "base64" /\ Base64Next /\ UNCHANGED <<handlerVars, queryVars, gzipVars>>
       \/ part = "gzip"   /\ GzipNext   /\ UNCHANGED <<handlerVars, queryVars, base64Vars>>
       \/ Converted

MCSpec == MCInit /\ [][MCNext]_mcVars
=============================================================================
