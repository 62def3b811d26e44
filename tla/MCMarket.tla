------------------------------ MODULE MCMarket ------------------------------
(* Instances of Market for TLC. *)
EXTENDS Market

CONSTANTS m1, m2

\* Each of two mints is found once, so that one evicts the other; or one mint is
\* found three times, its record having expired.
OnceOrAgain == {[m \in Mints |-> 1], [m \in Mints |-> IF m = m1 THEN 3 ELSE 0]}
=============================================================================
