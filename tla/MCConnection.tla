---------------------------- MODULE MCConnection ----------------------------
(* The TLC instances of Connection: clients of any manners send up to three  *)
(* requests, and a read delivers up to three parts.                          *)
EXTENDS Connection
=============================================================================
