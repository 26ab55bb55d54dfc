----------------------------- MODULE MCNumerics -----------------------------
(* All whole numbers of one bit less than a float has.                      *)
EXTENDS Numerics

MCStarts == { n \in -(2 ^ (Prec - 1)) .. 2 ^ (Prec - 1) : Magnitude(n) < 2 ^ (Prec - 1) }
MCDivisors == MCStarts
MCSteps == {-1, 0, 1}
=============================================================================
