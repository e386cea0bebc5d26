--------------------------- MODULE MCUpdateRunner ---------------------------
(* Instances of UpdateRunner for TLC. *)
EXTENDS UpdateRunner
=============================================================================
