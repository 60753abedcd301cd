-------------------------- MODULE MCRequestParser --------------------------
(* The TLC instance of RequestParser. *)
EXTENDS RequestParser
=============================================================================
