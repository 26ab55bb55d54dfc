------------------------------- MODULE Stages -------------------------------
(***************************************************************************)
(* What a recursive function of the code makes, stage by stage: Start is   *)
(* what stands for its results before anything is computed, and each stage *)
(* computes them from those of the stage before.                           *)
(***************************************************************************)
EXTENDS Integers

CONSTANTS Start(_), Step(_, _)

Stage(x) == LET stage[n \in Nat] == IF n = 0 THEN Start(x) ELSE Step(x, stage[n - 1]) IN stage

-----------------------------------------------------------------------------
(* The first m stages.                                                     *)
Stages(x, m, g) == g = [i \in 0 .. m |-> IF i = 0 THEN Start(x) ELSE Step(x, g[i - 1])]

(* The theorems below are by induction: they ask that a set of numbers     *)
(* with an element has a least one, which a module with the library's      *)
(* theorems at hand proves once for all its copies of this one.            *)

(* Whichever way the first stages are made, they are the same.             *)
LEMMA SameStages ==
  ASSUME NEW x, NEW m \in Nat, NEW g, Stages(x, m, g), NEW l \in Nat, NEW h, Stages(x, l, h),
         NEW i \in Nat, i <= m, i <= l, \A T \in SUBSET Nat : T # {} => \E n \in T : \A k \in T : n <= k
  PROVE  g[i] = h[i]
<1> DEFINE bad == {k \in 0 .. i : g[k] # h[k]}
<1>1. SUFFICES ASSUME bad # {}
               PROVE  FALSE
  OBVIOUS
<1>2. PICK k \in bad : \A j \in bad : k <= j
  <2>1. bad \subseteq Nat
    OBVIOUS
  <2> QED
    BY <1>1, <2>1
<1>3. k \in 0 .. m /\ k \in 0 .. l /\ k \in Nat
  OBVIOUS
<1>4. /\ g[k] = IF k = 0 THEN Start(x) ELSE Step(x, g[k - 1])
      /\ h[k] = IF k = 0 THEN Start(x) ELSE Step(x, h[k - 1])
  BY <1>3 DEF Stages
<1>5. k # 0
  BY <1>4
<1>6. k - 1 \in 0 .. i /\ ~(k <= k - 1)
  BY <1>5
<1>7. k - 1 \notin bad
  BY <1>2, <1>6
<1>8. g[k - 1] = h[k - 1]
  BY <1>6, <1>7
<1> QED
  BY <1>4, <1>8

(* There are as many stages as one asks for.                               *)
LEMMA StagesExist ==
  ASSUME NEW x, NEW m \in Nat, \A T \in SUBSET Nat : T # {} => \E n \in T : \A k \in T : n <= k
  PROVE  \E g : Stages(x, m, g)
<1> DEFINE bad == {k \in Nat : ~ \E g : Stages(x, k, g)}
<1>1. SUFFICES ASSUME bad # {}
               PROVE  FALSE
  OBVIOUS
<1>2. PICK k \in bad : \A j \in bad : k <= j
  <2>1. bad \subseteq Nat
    OBVIOUS
  <2> QED
    BY <1>1, <2>1
<1>3. CASE k = 0
  <2>1. Stages(x, 0, [i \in 0 .. 0 |-> Start(x)])
    BY DEF Stages
  <2> QED
    BY <1>3, <2>1
<1>4. CASE k # 0
  <2>1. k - 1 \in Nat /\ ~(k <= k - 1)
    BY <1>4
  <2>2. PICK g : Stages(x, k - 1, g)
    BY <1>2, <2>1
  <2> DEFINE h == [i \in 0 .. k |-> IF i = 0 THEN Start(x) ELSE Step(x, g[i - 1])]
  <2>3. ASSUME NEW i \in 0 .. k - 1
        PROVE  h[i] = g[i]
    <3>1. g[i] = IF i = 0 THEN Start(x) ELSE Step(x, g[i - 1])
      BY <2>2 DEF Stages
    <3>2. i \in 0 .. k
      BY <2>1
    <3> QED
      BY <3>1, <3>2
  <2>4. ASSUME NEW i \in 0 .. k, i # 0
        PROVE  h[i - 1] = g[i - 1]
    <3>1. i - 1 \in 0 .. k - 1
      BY <2>1, <2>4
    <3> QED
      BY <2>3, <3>1
  <2>5. h = [i \in 0 .. k |-> IF i = 0 THEN Start(x) ELSE Step(x, h[i - 1])]
    BY <2>4
  <2>6. Stages(x, k, h)
    BY <2>5 DEF Stages
  <2> QED
    BY <2>6
<1> QED
  BY <1>3, <1>4

(* Every stage is made of the one before: what a model defines by stages   *)
(* exists, whatever the steps are.                                         *)
THEOREM StageIs ==
  ASSUME NEW x, \A T \in SUBSET Nat : T # {} => \E n \in T : \A k \in T : n <= k
  PROVE  Stage(x)[0] = Start(x) /\ \A n \in Nat : Stage(x)[n + 1] = Step(x, Stage(x)[n])
<1> DEFINE first(m) == CHOOSE g : Stages(x, m, g)
           all == [n \in Nat |-> first(n)[n]]
           Whole(f) == f = [n \in Nat |-> IF n = 0 THEN Start(x) ELSE Step(x, f[n - 1])]
<1>1. ASSUME NEW n \in Nat
      PROVE  Stages(x, n, first(n))
  BY StagesExist
<1>2. ASSUME NEW n \in Nat
      PROVE  all[n] = IF n = 0 THEN Start(x) ELSE Step(x, all[n - 1])
  <2> HIDE DEF first
  <2>1. n \in 0 .. n
    OBVIOUS
  <2>2. first(n)[n] = IF n = 0 THEN Start(x) ELSE Step(x, first(n)[n - 1])
    BY <1>1, <2>1 DEF Stages
  <2>3. CASE n # 0
    <3>1. n - 1 \in Nat /\ n - 1 <= n /\ n - 1 <= n - 1
      BY <2>3
    <3>2. first(n)[n - 1] = first(n - 1)[n - 1]
      BY <1>1, <3>1, SameStages
    <3> QED
      BY <2>2, <2>3, <3>1, <3>2
  <2> QED
    BY <2>2, <2>3
<1>3. Whole(all)
  <2> HIDE DEF first
  <2>1. all = [n \in Nat |-> all[n]]
    OBVIOUS
  <2> HIDE DEF all
  <2> QED
    BY <1>2, <2>1
<1>4. Whole(Stage(x))
  <2> HIDE DEF all
  <2>1. Stage(x) = CHOOSE f : Whole(f)
    BY DEF Stage
  <2> HIDE DEF Whole
  <2> QED
    BY <1>3, <2>1
<1>5. ASSUME NEW n \in Nat
      PROVE  Stage(x)[n] = IF n = 0 THEN Start(x) ELSE Step(x, Stage(x)[n - 1])
  BY <1>4
<1>6. Stage(x)[0] = Start(x)
  BY <1>5
<1>7. ASSUME NEW n \in Nat
      PROVE  Stage(x)[n + 1] = Step(x, Stage(x)[n])
  <2>1. n + 1 \in Nat /\ n + 1 # 0 /\ n + 1 - 1 = n
    OBVIOUS
  <2> QED
    BY <1>5, <2>1
<1> QED
  BY <1>6, <1>7
=============================================================================
