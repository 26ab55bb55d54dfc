---------------------------- MODULE NumberLemmas ----------------------------
(***************************************************************************)
(* What the proofs need to know of whole numbers, powers of two and        *)
(* sequences, and of functions that are made in steps.  A fact about every *)
(* number is proved from the least number it would not hold for.           *)
(***************************************************************************)
EXTENDS Integers, Sequences, FiniteSets, TLAPS, FiniteSetTheorems, FunctionTheorems,
        SequenceTheorems, WellFoundedInduction

-----------------------------------------------------------------------------
(* Positions and powers of two                                             *)

(* A set of positions that is not empty has a first one.                   *)
LEMMA FirstPosition ==
  ASSUME NEW T, T \subseteq Nat, T # {}
  PROVE  \E x \in T : \A y \in T : x <= y
  <1>1. IsWellFoundedOn(OpToRel(<, Nat), Nat)
    BY NatLessThanWellFounded
  <1>2. PICK x \in T : \A y \in T : <<y, x>> \notin OpToRel(<, Nat)
    BY <1>1, WFMin
  <1>3. \A y \in T : ~(y < x)
    BY <1>2 DEF OpToRel
  <1>4. QED
    BY <1>3

(* Two numbers are within a third.                                         *)
LEMMA Larger ==
  ASSUME NEW a \in Nat, NEW b \in Nat
  PROVE  \E n \in Nat : a <= n /\ b <= n
<1>1. CASE a <= b
  BY <1>1
<1>2. CASE b <= a
  BY <1>2
<1> QED
  BY <1>1, <1>2

(* A set of one more element has twice as many subsets.                    *)
LEMMA TwiceTheSubsets ==
  ASSUME NEW n \in Nat
  PROVE  2 ^ (n + 1) = 2 * 2 ^ n
  <1> DEFINE A == SUBSET (1 .. n)
             B == { X \cup {n + 1} : X \in A }
             f == [X \in A |-> X \cup {n + 1}]
  <1>1. /\ IsFiniteSet(1 .. n) /\ Cardinality(1 .. n) = n
        /\ IsFiniteSet(1 .. n + 1) /\ Cardinality(1 .. n + 1) = n + 1
    <2>1. Cardinality(1 .. n) = n /\ IsFiniteSet(1 .. n)
      BY FS_Interval
    <2>2. Cardinality(1 .. n + 1) = n + 1 /\ IsFiniteSet(1 .. n + 1)
      BY FS_Interval
    <2>3. QED
      BY <2>1, <2>2
  <1>2. /\ IsFiniteSet(A) /\ Cardinality(A) = 2 ^ n
        /\ Cardinality(SUBSET (1 .. n + 1)) = 2 ^ (n + 1)
    BY <1>1, FS_SUBSET
  <1>3. f \in Bijection(A, B)
    <2>1. f \in [A -> B]
      OBVIOUS
    <2>2. \A X, Y \in A : f[X] = f[Y] => X = Y
      <3> SUFFICES ASSUME NEW X \in A, NEW Y \in A, X \cup {n + 1} = Y \cup {n + 1}
                   PROVE  X = Y
        OBVIOUS
      <3>1. n + 1 \notin X /\ n + 1 \notin Y
        OBVIOUS
      <3>2. \A i : i \in X => i \in Y
        BY <3>1
      <3>3. \A i : i \in Y => i \in X
        BY <3>1
      <3>4. QED
        BY <3>2, <3>3
    <2>3. \A Y \in B : \E X \in A : f[X] = Y
      OBVIOUS
    <2>4. QED
      BY <2>1, <2>2, <2>3, Fun_IsBij
  <1>4. IsFiniteSet(B) /\ Cardinality(B) = 2 ^ n
    BY <1>2, <1>3, FS_Bijection, Fun_ExistsBij DEF ExistsBijection
  <1>5. A \cap B = {}
    <2>1. \A X \in A : n + 1 \notin X
      OBVIOUS
    <2>2. \A Y \in B : n + 1 \in Y
      OBVIOUS
    <2>3. QED
      BY <2>1, <2>2
  <1>6. SUBSET (1 .. n + 1) = A \cup B
    <2>1. ASSUME NEW Y \in SUBSET (1 .. n + 1)
          PROVE  Y \in A \cup B
      <3>1. CASE n + 1 \in Y
        <4>1. Y \ {n + 1} \in A
          OBVIOUS
        <4>2. Y = (Y \ {n + 1}) \cup {n + 1}
          BY <3>1
        <4>3. QED
          BY <4>1, <4>2
      <3>2. CASE n + 1 \notin Y
        BY <3>2
      <3>3. QED
        BY <3>1, <3>2
    <2>2. \A Y \in A \cup B : Y \in SUBSET (1 .. n + 1)
      OBVIOUS
    <2>3. QED
      BY <2>1, <2>2
  <1> HIDE DEF A, B
  <1>7. Cardinality(A \cup B) = Cardinality(A) + Cardinality(B) - Cardinality(A \cap B)
    BY <1>2, <1>4, FS_Union
  <1>8. Cardinality(A \cap B) = 0 /\ Cardinality(A) \in Nat
    BY <1>2, <1>5, FS_EmptySet, FS_CardinalityType
  <1>9. Cardinality(A \cup B) = Cardinality(A) + Cardinality(A)
    BY <1>2, <1>4, <1>7, <1>8
  <1>10. \A x \in Nat : x + x = 2 * x
    OBVIOUS
  <1>11. Cardinality(A \cup B) = 2 * Cardinality(A)
    BY <1>8, <1>9, <1>10
  <1>12. QED
    BY <1>2, <1>6, <1>11

(* Powers of two are positive.                                             *)
LEMMA PowerType ==
  ASSUME NEW n \in Nat
  PROVE  2 ^ n \in Nat /\ 2 ^ n >= 1
  <1> DEFINE bad == {k \in Nat : ~(2 ^ k \in Nat /\ 2 ^ k >= 1)}
  <1>1. bad = {}
    <2> SUFFICES ASSUME bad # {}
                 PROVE  FALSE
      OBVIOUS
    <2>1. PICK k \in bad : \A j \in bad : k <= j
      <3>1. bad \subseteq Nat
        OBVIOUS
      <3>2. QED
        BY <3>1, FirstPosition
    <2>2. k # 0
      <3>1. 2 ^ 0 = 1
        OBVIOUS
      <3>2. 2 ^ 0 \in Nat /\ 2 ^ 0 >= 1
        BY <3>1
      <3>3. 0 \notin bad
        BY <3>2
      <3>4. QED
        BY <3>3
    <2>3. k - 1 \in Nat /\ k - 1 \notin bad
      BY <2>1, <2>2
    <2>4. 2 ^ (k - 1 + 1) = 2 * 2 ^ (k - 1)
      BY <2>3, TwiceTheSubsets
    <2>5. k - 1 + 1 = k
      OBVIOUS
    <2>6. 2 ^ k = 2 * 2 ^ (k - 1)
      BY <2>4, <2>5
    <2>7. 2 ^ (k - 1) \in Nat /\ 2 ^ (k - 1) >= 1
      BY <2>3
    <2>8. \A x \in Nat : x >= 1 => 2 * x \in Nat /\ 2 * x >= 1
      OBVIOUS
    <2>9. QED
      BY <2>6, <2>7, <2>8
  <1>2. QED
    BY <1>1

(* They multiply when their exponents are added.                           *)
LEMMA PowerSum ==
  ASSUME NEW n \in Nat, NEW m \in Nat
  PROVE  2 ^ (n + m) = 2 ^ n * 2 ^ m
  <1> DEFINE bad == {k \in Nat : 2 ^ (n + k) # 2 ^ n * 2 ^ k}
  <1>1. bad = {}
    <2> SUFFICES ASSUME bad # {}
                 PROVE  FALSE
      OBVIOUS
    <2>1. PICK k \in bad : \A j \in bad : k <= j
      <3>1. bad \subseteq Nat
        OBVIOUS
      <3>2. QED
        BY <3>1, FirstPosition
    <2>2. k # 0
      <3>1. 2 ^ 0 = 1 /\ n + 0 = n /\ 2 ^ n \in Nat
        BY PowerType
      <3>2. \A x \in Nat : x * 1 = x
        OBVIOUS
      <3>3. QED
        BY <3>1, <3>2
    <2>3. k - 1 \in Nat /\ k - 1 \notin bad
      BY <2>1, <2>2
    <2>4. 2 ^ (k - 1 + 1) = 2 * 2 ^ (k - 1) /\ 2 ^ (n + (k - 1) + 1) = 2 * 2 ^ (n + (k - 1))
      BY <2>3, TwiceTheSubsets
    <2>5. k - 1 + 1 = k /\ n + (k - 1) + 1 = n + k
      OBVIOUS
    <2>6. 2 ^ k = 2 * 2 ^ (k - 1) /\ 2 ^ (n + k) = 2 * 2 ^ (n + (k - 1))
      BY <2>4, <2>5
    <2>7. 2 ^ (n + (k - 1)) = 2 ^ n * 2 ^ (k - 1) /\ 2 ^ n \in Nat /\ 2 ^ (k - 1) \in Nat
      BY <2>3, PowerType
    <2>8. \A x, y \in Nat : 2 * (x * y) = x * (2 * y)
      OBVIOUS
    <2>9. 2 ^ (n + k) = 2 ^ n * 2 ^ k
      BY <2>6, <2>7, <2>8
    <2>10. QED
      BY <2>9
  <1>2. QED
    BY <1>1

(* A larger exponent makes a larger power, at least twice as large.        *)
LEMMA PowerOrder ==
  ASSUME NEW m \in Nat, NEW n \in Nat
  PROVE  /\ m <= n => 2 ^ m <= 2 ^ n
         /\ m < n => 2 * 2 ^ m <= 2 ^ n
         /\ 2 ^ m <= 2 ^ n => m <= n
<1>1. ASSUME NEW x \in Nat, NEW y \in Nat, x <= y
      PROVE  2 ^ x <= 2 ^ y
  <2>1. y - x \in Nat /\ x + (y - x) = y
    BY <1>1
  <2>2. 2 ^ y = 2 ^ x * 2 ^ (y - x)
    BY <2>1, PowerSum
  <2>3. 2 ^ x \in Nat /\ 2 ^ (y - x) \in Nat /\ 2 ^ (y - x) >= 1
    BY <2>1, PowerType
  <2>4. \A a, b \in Nat : b >= 1 => a <= a * b
    OBVIOUS
  <2> QED
    BY <2>2, <2>3, <2>4
<1>2. ASSUME NEW x \in Nat, NEW y \in Nat, x < y
      PROVE  2 * 2 ^ x <= 2 ^ y
  <2>1. x + 1 \in Nat /\ x + 1 <= y
    BY <1>2
  <2>2. 2 ^ (x + 1) <= 2 ^ y
    BY <1>1, <2>1
  <2> QED
    BY <2>2, TwiceTheSubsets
<1>3. ASSUME 2 ^ m <= 2 ^ n, n < m
      PROVE  FALSE
  <2>1. 2 * 2 ^ n <= 2 ^ m
    BY <1>2, <1>3
  <2>2. 2 ^ n \in Nat /\ 2 ^ n >= 1 /\ 2 ^ m \in Nat
    BY PowerType
  <2>3. \A a, b \in Nat : a >= 1 /\ b <= a => ~(2 * a <= b)
    OBVIOUS
  <2> QED
    BY <1>3, <2>1, <2>2, <2>3
<1> QED
  BY <1>1, <1>2, <1>3

(* Products with one factor in common compare as the other factors do.     *)
LEMMA ProductOrder ==
  ASSUME NEW x \in Nat, NEW y \in Nat, NEW s \in Nat, s >= 1
  PROVE  (x <= y => x * s <= y * s) /\ (x * s < y * s => x < y)
<1>1. ASSUME NEW u \in Nat, NEW v \in Nat, u <= v
      PROVE  u * s <= v * s
  <2>1. v - u \in Nat /\ v = u + (v - u)
    BY <1>1
  <2>2. \A a, b, c \in Nat : (a + b) * c = a * c + b * c /\ a * c \in Nat /\ b * c \in Nat
    OBVIOUS
  <2>3. v * s = u * s + (v - u) * s /\ u * s \in Nat /\ (v - u) * s \in Nat
    BY <2>1, <2>2
  <2> QED
    BY <2>3
<1>2. x * s \in Nat /\ y * s \in Nat
  OBVIOUS
<1> QED
  BY <1>1, <1>2

(* A quotient is the number whose multiples enclose the dividend.          *)
LEMMA QuotientIs ==
  ASSUME NEW x \in Nat, NEW d \in Nat, d >= 1, NEW t \in Nat, t * d <= x, x < (t + 1) * d
  PROVE  x \div d = t
<1> DEFINE u == x \div d
<1>1. u \in Nat /\ u * d <= x /\ x < (u + 1) * d
  OBVIOUS
<1> HIDE DEF u
<1>2. t * d < (u + 1) * d /\ u * d < (t + 1) * d
  <2>1. \A a, b \in Nat : a * b \in Nat
    OBVIOUS
  <2> QED
    BY <1>1, <2>1
<1>3. t < u + 1 /\ u < t + 1
  BY <1>1, <1>2, ProductOrder
<1> QED
  BY <1>1, <1>3 DEF u

-----------------------------------------------------------------------------
(* Sequences and functions made in steps                                   *)

(* A function on the first numbers is a sequence.                          *)
LEMMA FunctionsAreSequences ==
  ASSUME NEW S, NEW n \in Nat, NEW f \in [1 .. n -> S]
  PROVE  f \in Seq(S) /\ Len(f) = n
<1>1. f \in Seq(S)
  BY SeqDef
<1>2. Len(f) \in Nat /\ 1 .. Len(f) = 1 .. n
  BY <1>1, LenProperties
<1>3. ASSUME NEW m \in Nat, 1 .. m = 1 .. n
      PROVE  m = n
  <2>1. m >= 1 => m \in 1 .. n
    BY <1>3
  <2>2. n >= 1 => n \in 1 .. m
    BY <1>3
  <2> QED
    BY <2>1, <2>2
<1> QED
  BY <1>1, <1>2, <1>3

(* The sequences of a set, their tails, and two of them joined.            *)
LEMMA SequencesAre == \A S : Seq(S) = UNION {[1 .. n -> S] : n \in Nat}
  OBVIOUS

LEMMA TailOfSequence ==
  ASSUME NEW S, NEW s \in Seq(S), s # <<>>
  PROVE  /\ Tail(s) \in Seq(S) /\ Len(Tail(s)) = Len(s) - 1
         /\ \A i \in 1 .. Len(Tail(s)) : Tail(s)[i] = s[i + 1]
  OBVIOUS

LEMMA SequencesJoined ==
  ASSUME NEW S, NEW s \in Seq(S), NEW t \in Seq(S)
  PROVE  /\ s \o t \in Seq(S) /\ Len(s \o t) = Len(s) + Len(t)
         /\ \A i \in 1 .. Len(s) + Len(t) : (s \o t)[i] = IF i <= Len(s) THEN s[i] ELSE t[i - Len(s)]
  OBVIOUS

(* The function whose values are made in steps from the ones before.       *)
IsStepwise(g, n, S, s0, F) ==
  /\ g \in [0 .. n -> S] /\ g[0] = s0
  /\ \A i \in 1 .. n : g[i] = F[<<i, g[i - 1]>>]

Stepwise(n, S, s0, F) == CHOOSE g : IsStepwise(g, n, S, s0, F)

(* There is such a function, for any number of steps.                      *)
LEMMA StepwiseExists ==
  ASSUME NEW n \in Nat, NEW S, NEW s0 \in S, NEW F \in [(1 .. n) \X S -> S]
  PROVE  IsStepwise(Stepwise(n, S, s0, F), n, S, s0, F)
<1> DEFINE Made(m, g) == IsStepwise(g, m, S, s0, F)
           bad == {m \in 0 .. n : ~ \E g : Made(m, g)}
<1> HIDE DEF Made
<1>1. bad = {}
  <2> SUFFICES ASSUME bad # {}
               PROVE  FALSE
    OBVIOUS
  <2>1. PICK m \in bad : \A j \in bad : m <= j
    <3>1. bad \subseteq Nat
      OBVIOUS
    <3> QED
      BY <3>1, FirstPosition
  <2>2. m # 0
    <3>1. Made(0, [i \in 0 .. 0 |-> s0])
      BY DEF Made, IsStepwise
    <3>2. 0 \notin bad
      BY <3>1
    <3> QED
      BY <3>2
  <2>3. m \in 1 .. n /\ m - 1 \in 0 .. n /\ m - 1 \notin bad
    BY <2>1, <2>2
  <2>0a. PICK g : Made(m - 1, g)
    BY <2>3
  <2>4. /\ g \in [0 .. m - 1 -> S] /\ g[0] = s0
        /\ \A i \in 1 .. m - 1 : g[i] = F[<<i, g[i - 1]>>]
    BY <2>0a DEF Made, IsStepwise
  <2> DEFINE h == [i \in 0 .. m |-> IF i < m THEN g[i] ELSE F[<<m, g[m - 1]>>]]
  <2>5. \A i \in 0 .. m - 1 : h[i] = g[i] /\ g[i] \in S
    BY <2>3, <2>4
  <2>6. h[m] = F[<<m, g[m - 1]>>] /\ g[m - 1] \in S
    BY <2>3, <2>4
  <2>7. <<m, g[m - 1]>> \in (1 .. n) \X S
    BY <2>3, <2>6
  <2>8. h[m] \in S
    BY <2>6, <2>7
  <2>9. h \in [0 .. m -> S]
    <3>1. h = [i \in 0 .. m |-> h[i]]
      OBVIOUS
    <3> HIDE DEF h
    <3>2. ASSUME NEW i \in 0 .. m
          PROVE  h[i] \in S
      <4>1. i \in 0 .. m - 1 \/ i = m
        BY <2>3
      <4> QED
        BY <2>5, <2>8, <4>1
    <3> QED
      BY <3>1, <3>2
  <2> HIDE DEF h
  <2>10. ASSUME NEW i \in 1 .. m
         PROVE  h[i] = F[<<i, h[i - 1]>>]
    <3>1. i - 1 \in 0 .. m - 1 /\ h[i - 1] = g[i - 1]
      BY <2>3, <2>5
    <3>2. CASE i = m
      BY <2>6, <3>1, <3>2
    <3>3. CASE i # m
      <4>1. i \in 1 .. m - 1 /\ i \in 0 .. m - 1
        BY <2>3, <3>3
      <4> QED
        BY <2>4, <2>5, <3>1, <4>1
    <3> QED
      BY <3>2, <3>3
  <2>11. h[0] = s0
    BY <2>3, <2>4, <2>5
  <2>12. Made(m, h)
    BY <2>9, <2>10, <2>11 DEF Made, IsStepwise
  <2>13. m \notin bad
    BY <2>12
  <2> QED
    BY <2>1, <2>13
<1>2. PICK g : Made(n, g)
  <2>1. n \notin bad /\ n \in 0 .. n
    BY <1>1
  <2> QED
    BY <2>1
<1>3. Made(n, CHOOSE h : Made(n, h))
  BY <1>2
<1> QED
  BY <1>3 DEF Made, Stepwise
=============================================================================
