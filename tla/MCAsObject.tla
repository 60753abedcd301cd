----------------------------- MODULE MCAsObject -----------------------------
(* The TLC instance of AsObject: records of up to two bins, of values that   *)
(* are stored as what they are, as something else, or not at all.            *)
EXTENDS AsObject
=============================================================================
