---------------------------- MODULE MCRepository ----------------------------
(* Instances of Repository for TLC. *)
EXTENDS Repository
=============================================================================
