------------------------------ MODULE Numerics ------------------------------
(***************************************************************************)
(* mod_floor (numerics/math.go) as an index that is wrapped into a list,   *)
(* again and again.  Numbers are big.Floats: every operation rounds to     *)
(* Prec bits, the quotient before its floor is taken.                      *)
(***************************************************************************)
EXTENDS Integers

CONSTANTS
  Prec,       \* numericPrec: the bits of a number, 256 or more
  Starts,     \* the first indices
  Divisors,   \* the lengths to wrap into, of either sign
  Steps,      \* what is added to an index
  MaxWraps    \* bound: calls of mod_floor

Magnitude(n) == IF n < 0 THEN -n ELSE n

(* The numbers are whole and have a bit to spare, also when one is moved.  *)
ASSUME NumericsBounds ==
  /\ Prec \in Nat \ {0} /\ MaxWraps \in Nat
  /\ Starts \subseteq Int /\ Divisors \subseteq Int /\ Steps \subseteq Int
  /\ \A d \in Divisors : Magnitude(d) < 2 ^ (Prec - 1)
  /\ \A s \in Steps : /\ \A n \in Starts : Magnitude(n + s) <= 2 ^ (Prec - 1)
                      /\ \A d \in Divisors : Magnitude(d) + Magnitude(s) <= 2 ^ (Prec - 1)

VARIABLES
  first, divisor,
  moved,    \* the sum of the steps
  index,    \* the latest result
  wraps     \* bound: the calls made

numericsVars == <<first, divisor, moved, index, wraps>>

Sign(n) == IF n < 0 THEN -1 ELSE IF n > 0 THEN 1 ELSE 0
Pow2(k) == IF k > 0 THEN 2 ^ k ELSE 1

-----------------------------------------------------------------------------
(* math/big.  A float is m * 2^e, without its sign.                        *)

(* To the nearest, and to the even one of two.                             *)
Nearest(n, d) ==
  LET f == n \div d  r == n % d
  IN IF 2 * r > d \/ (2 * r = d /\ f % 2 = 1) THEN f + 1 ELSE f

(* The quotient of two natural numbers in so many bits.                    *)
Quotient(n, d, bits) ==
  IF n = 0 THEN [m |-> 0, e |-> 0]
  ELSE LET e == CHOOSE k \in -4 * Prec .. 4 * Prec :
                  /\ Pow2(bits - 1) * d * Pow2(k) <= n * Pow2(-k)
                  /\ n * Pow2(-k) < Pow2(bits) * d * Pow2(k)
       IN [m |-> Nearest(n * Pow2(-e), d * Pow2(e)), e |-> e]

(* Int: the whole part.                                                    *)
Truncated(x) == (x.m * Pow2(x.e)) \div Pow2(-x.e)
IsWhole(x) == (x.m * Pow2(x.e)) % Pow2(-x.e) = 0

(* A whole number in Prec bits.                                            *)
Rounded(n) == Sign(n) * Truncated(Quotient(Magnitude(n), 1, Prec))

(* A mutant: the quotient has the bits of a float64, fewer than a number.  *)
ModFloorNarrow(a, b) ==
  LET q == Quotient(Magnitude(a), Magnitude(b), Prec - 2)
      sign == Sign(a) * Sign(b)
      floor == sign * Truncated(q) - IF sign < 0 /\ ~IsWhole(q) THEN 1 ELSE 0
  IN Rounded(a - Rounded(b * Rounded(floor)))

(* ModFloorFunction.Run                                                    *)
ModFloor(a, b) ==
  LET q == Quotient(Magnitude(a), Magnitude(b), Prec)
      sign == Sign(a) * Sign(b)
      floor == sign * Truncated(q) - IF sign < 0 /\ ~IsWhole(q) THEN 1 ELSE 0
  IN Rounded(a - Rounded(b * Rounded(floor)))

-----------------------------------------------------------------------------
NumericsInit ==
  /\ first \in Starts /\ divisor \in Divisors
  /\ moved = 0 /\ index = first /\ wraps = 0

(* A call of mod_floor on the latest result moved by a step; a divisor of  *)
(* zero is an error.                                                       *)
Wrap ==
  /\ divisor # 0 /\ wraps < MaxWraps
  /\ \E s \in Steps : moved' = moved + s /\ index' = ModFloor(index + s, divisor)
  /\ wraps' = wraps + 1
  /\ UNCHANGED <<first, divisor>>

NumericsNext == Wrap

NumericsSpec == NumericsInit /\ [][NumericsNext]_numericsVars

-----------------------------------------------------------------------------
(* Properties.                                                             *)

(* However often an index is moved and wrapped, it is the remainder of all *)
(* that was added up, with the sign of the divisor: for whole numbers with *)
(* a bit to spare no rounding of a quotient reaches the next whole number. *)
WrapsAddUp ==
  wraps > 0 => index = Sign(divisor) * ((Sign(divisor) * (first + moved)) % Magnitude(divisor))
=============================================================================
