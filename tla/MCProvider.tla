----------------------------- MODULE MCProvider -----------------------------
(* Instances of Provider for TLC. *)
EXTENDS Provider, TLC

CONSTANTS c1, c2, c3

AnyCaller == Permutations(Callers)
=============================================================================
