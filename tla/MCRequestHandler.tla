-------------------------- MODULE MCRequestHandler --------------------------
(* The TLC instance of RequestHandler alone, for records of strings. *)
EXTENDS RequestHandler
=============================================================================
