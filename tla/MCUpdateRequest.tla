-------------------------- MODULE MCUpdateRequest ---------------------------
(* Instances of UpdateRequest for TLC. *)
EXTENDS UpdateRequest
=============================================================================
