--------------------------- MODULE MCAutonomous ---------------------------
(* Instances of Autonomous for TLC. *)
EXTENDS Autonomous, TLC

CONSTANTS b1, b2, s1, m1, m2

TwoMints == (b1 :> m1) @@ (b2 :> m2)
OneMint == (b1 :> m1) @@ (b2 :> m1)
=============================================================================
