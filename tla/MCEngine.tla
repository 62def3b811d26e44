------------------------------ MODULE MCEngine ------------------------------
(* Instances of Engine for TLC. *)
EXTENDS Engine, TLC

CONSTANTS m1, m2, human

AnyMint == Permutations(Mints)
=============================================================================
