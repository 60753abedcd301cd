---------------------------- MODULE MCAsControl ----------------------------
(* TLC instances of AsControl. *)
EXTENDS AsControl, TLC

Threadwise == Permutations(Workers)
=============================================================================
