--------------------------- MODULE Network_proofs ---------------------------
(***************************************************************************)
(* The network family for words and address spaces of any size: chains of  *)
(* ip_add and ip_subtract, nptv6_translate, the allocation of subnets, the *)
(* listing of a block's parts, addresses embedded for NAT64 and addresses  *)
(* in code points.                                                         *)
(***************************************************************************)
EXTENDS Network, NumberLemmas

-----------------------------------------------------------------------------
(* ip_add and ip_subtract                                                  *)

(* The part of the assumption the arithmetic below uses.                   *)
LEMMA WordFacts ==
  /\ Word \in Nat /\ V4 \in Nat /\ V4 > 0 /\ Mapped \in Nat
  /\ Word \div 2 \in Nat /\ 2 * (Word \div 2) = Word
  /\ 2 * V4 <= Word /\ Mapped + V4 <= Word /\ Word >= 2
  BY WordAssumption

-----------------------------------------------------------------------------
(* The operators                                                           *)

(* Parsing an address yields an address that is not IPv4-mapped.           *)
LEMMA ParseType ==
  ASSUME NEW a \in Addr
  PROVE  /\ ParseAddr(a) \in Addr4 \/ ParseAddr(a) \in Addr6
         /\ ParseAddr(a) \in Addr
         /\ ParseAddr(a).fam = 4 <=> ParseAddr(a) \in Addr4
         /\ a.fam = 4 => ParseAddr(a) = a
         /\ ~IsMapped(a) => ParseAddr(a) = a
         /\ IsMapped(a) => ParseAddr(a).fam = 4
<1>1. CASE IsMapped(a)
  <2>1. a.lo - Mapped \in 0 .. V4 - 1 /\ a.fam = 6
    BY <1>1, WordFacts DEF IsMapped, Addr, Addr4, Addr6, Words
  <2>2. ParseAddr(a) = AddrFrom4(a.lo - Mapped)
    BY <1>1 DEF ParseAddr
  <2> QED
    BY <1>1, <2>1, <2>2 DEF Addr, Addr4, AddrFrom4
<1>2. CASE ~IsMapped(a)
  <2>1. ParseAddr(a) = a
    BY <1>2 DEF ParseAddr
  <2>2. a.fam = 4 <=> a \in Addr4
    BY DEF Addr, Addr4, Addr6
  <2> QED
    BY <1>2, <2>1, <2>2 DEF Addr
<1> QED
  BY <1>1, <1>2

(* An IPv4 sum is exact, and refused exactly when it is no IPv4 address.   *)
LEMMA Add4Exact ==
  ASSUME NEW a \in Addr4, NEW n \in Int64
  PROVE  /\ Add4(a, n) = Error <=> a.lo + n \notin 0 .. V4 - 1
         /\ Add4(a, n) # Error => /\ Add4(a, n) \in Addr4
                                  /\ Add4(a, n).hi = 0
                                  /\ Add4(a, n).lo = a.lo + n
<1>1. /\ a = AddrFrom4(a.lo) /\ a.lo \in 0 .. V4 - 1
      /\ n \in Int
  BY WordFacts DEF Addr4, Int64, AddrFrom4
<1>2. n >= 0 => Wrap(a.lo + n) = a.lo + n
  <2>1. 2 * n <= Word - 2 /\ 2 * a.lo <= Word - 2
    BY <1>1, WordFacts DEF Int64
  <2> QED
    BY <1>1, <2>1, WordFacts DEF Wrap
<1>3. CASE a.lo + n \in 0 .. V4 - 1
  <2>1. Add4(a, n) = AddrFrom4(a.lo + n)
    BY <1>1, <1>2, <1>3, WordFacts DEF Add4
  <2> QED
    BY <1>3, <2>1 DEF Addr4, Error, AddrFrom4
<1>4. CASE a.lo + n \notin 0 .. V4 - 1
  <2>1. Add4(a, n) = Error
    BY <1>1, <1>2, <1>4, WordFacts DEF Add4
  <2> QED
    BY <1>4, <2>1
<1> QED
  BY <1>3, <1>4

(* An IPv6 sum is exact on the two words together, and refused exactly     *)
(* when the high word would leave its range.                               *)
LEMMA Add6Exact ==
  ASSUME NEW a \in Addr6, NEW n \in Int64
  PROVE  /\ Add6(a, n) = Error <=> Value(a) + n \notin 0 .. Word * Word - 1
         /\ Add6(a, n) # Error => /\ Add6(a, n) \in Addr6
                                  /\ Value(Add6(a, n)) = Value(a) + n
<1>0. PICK h \in 0 .. Word - 1, l \in 0 .. Word - 1 : a = AddrFrom16(h, l)
  BY DEF Addr6, Words, AddrFrom16
<1>1. /\ a.hi = h /\ a.lo = l /\ h \in 0 .. Word - 1 /\ l \in 0 .. Word - 1
      /\ n \in Int /\ -Word < n /\ n < Word
  BY <1>0, WordFacts DEF Int64, AddrFrom16
<1>2. Word \in Nat /\ Word >= 2
  BY WordFacts
<1>3. ASSUME NEW x \in 0 .. Word - 1, NEW y \in 0 .. Word - 1
      PROVE  /\ AddrFrom16(x, y) \in Addr6 /\ AddrFrom16(x, y) # Error
             /\ Value(AddrFrom16(x, y)) = x * Word + y
  BY <1>2 DEF Addr6, Words, Error, Value, AddrFrom16
<1>4. ASSUME NEW x \in 0 .. Word - 1, NEW y \in 0 .. Word - 1
      PROVE  x * Word + y \in 0 .. Word * Word - 1
  <2>1. x * Word \in Nat /\ x * Word <= (Word - 1) * Word
    BY <1>2
  <2>2. (Word - 1) * Word = Word * Word - Word /\ Word * Word \in Nat
    BY <1>2
  <2> QED
    BY <1>2, <2>1, <2>2
<1>5. Value(a) = h * Word + l /\ h * Word \in Nat
  BY <1>1, <1>2 DEF Value
<1>6. CASE l + n \in 0 .. Word - 1
  <2>1. Add6(a, n) = AddrFrom16(h, l + n)
    BY <1>1, <1>2, <1>6 DEF Add6, Wrap, Carry, Borrow
  <2>2. Value(a) + n = h * Word + (l + n)
    BY <1>1, <1>2, <1>5
  <2>3. /\ AddrFrom16(h, l + n) \in Addr6 /\ AddrFrom16(h, l + n) # Error
        /\ Value(AddrFrom16(h, l + n)) = h * Word + (l + n)
        /\ h * Word + (l + n) \in 0 .. Word * Word - 1
    BY <1>1, <1>3, <1>4, <1>6
  <2> QED
    BY <2>1, <2>2, <2>3
<1>7. CASE l + n >= Word
  <2>1. n > 0 /\ Wrap(l + n) = l + n - Word /\ l + n - Word \in 0 .. Word - 1
        /\ l + n - Word < l
    BY <1>1, <1>2, <1>7 DEF Wrap
  <2>2. Value(a) + n = h * Word + Word + (l + n - Word)
    BY <1>1, <1>2, <1>5
  <2>3. CASE h = Word - 1
    <3>1. Add6(a, n) = Error
      BY <1>1, <1>2, <2>1, <2>3 DEF Add6, Wrap, Carry, Borrow
    <3>2. h * Word + Word = Word * Word
      BY <1>1, <1>2, <2>3
    <3> QED
      BY <1>1, <1>2, <2>1, <2>2, <3>1, <3>2
  <2>4. CASE h # Word - 1
    <3>1. h + 1 \in 0 .. Word - 1 /\ Wrap(h + 1) = h + 1
      BY <1>1, <1>2, <2>4 DEF Wrap
    <3>2. Add6(a, n) = AddrFrom16(h + 1, l + n - Word)
      BY <1>1, <1>2, <2>1, <3>1 DEF Add6, Wrap, Carry, Borrow
    <3>3. (h + 1) * Word = h * Word + Word
      BY <1>1, <1>2
    <3>4. Value(a) + n = (h + 1) * Word + (l + n - Word)
      BY <2>2, <3>3
    <3>5. /\ AddrFrom16(h + 1, l + n - Word) \in Addr6 /\ AddrFrom16(h + 1, l + n - Word) # Error
          /\ Value(AddrFrom16(h + 1, l + n - Word)) = (h + 1) * Word + (l + n - Word)
          /\ (h + 1) * Word + (l + n - Word) \in 0 .. Word * Word - 1
      BY <1>3, <1>4, <2>1, <3>1
    <3> QED
      BY <3>2, <3>4, <3>5
  <2> QED
    BY <2>3, <2>4
<1>8. CASE l + n < 0
  <2>1. n < 0  /\ Wrap(l + n) = l + n + Word
        /\ l + n + Word \in 0 .. Word - 1 /\ l + n + Word > l
    BY <1>1, <1>2, <1>8 DEF Wrap
  <2>2. Value(a) + n = h * Word - Word + (l + n + Word)
    BY <1>1, <1>2, <1>5
  <2>3. CASE h = 0
    <3>1. Add6(a, n) = Error
      BY <1>1, <1>2, <2>1, <2>3 DEF Add6, Wrap, Carry, Borrow
    <3>2. Value(a) + n < 0
      BY <1>1, <1>2, <1>5, <1>8, <2>3
    <3> QED
      BY <1>1, <1>2, <1>5, <3>1, <3>2
  <2>4. CASE h # 0
    <3>1. h - 1 \in 0 .. Word - 1
      BY <1>1, <1>2, <2>4
    <3>2. Add6(a, n) = AddrFrom16(h - 1, l + n + Word)
      BY <1>1, <1>2, <2>1, <2>4 DEF Add6, Wrap, Carry, Borrow
    <3>3. (h - 1) * Word = h * Word - Word
      BY <1>1, <1>2
    <3>4. Value(a) + n = (h - 1) * Word + (l + n + Word)
      BY <2>2, <3>3
    <3>5. /\ AddrFrom16(h - 1, l + n + Word) \in Addr6 /\ AddrFrom16(h - 1, l + n + Word) # Error
          /\ Value(AddrFrom16(h - 1, l + n + Word)) = (h - 1) * Word + (l + n + Word)
          /\ (h - 1) * Word + (l + n + Word) \in 0 .. Word * Word - 1
      BY <1>3, <1>4, <2>1, <3>1
    <3> QED
      BY <3>2, <3>4, <3>5
  <2> QED
    BY <2>3, <2>4
<1> QED
  BY <1>1, <1>2, <1>6, <1>7, <1>8

(* ip_add on a parsed address of either family.                            *)
LEMMA IPAddExact ==
  ASSUME NEW written \in Addr, NEW n \in Int64
  PROVE  LET a == ParseAddr(written)
             r == IPAdd(written, n)
         IN  /\ r = Error <=> Value(a) + n \notin Space(a)
             /\ r # Error => r \in Addr /\ r.fam = a.fam /\ Value(r) = Value(a) + n
<1> DEFINE a == ParseAddr(written)
<1>1. CASE a \in Addr4
  <2>1. a.fam = 4 /\ a.hi = 0 /\ a.lo \in 0 .. V4 - 1 /\ n \in Int
    BY <1>1, WordFacts DEF Addr4, Int64
  <2>2. IPAdd(written, n) = Add4(a, n) /\ Space(a) = 0 .. V4 - 1 /\ Value(a) = a.lo
    BY <2>1, WordFacts DEF IPAdd, Space, Value
  <2>3. ASSUME Add4(a, n) # Error
        PROVE  Add4(a, n) \in Addr4 /\ Value(Add4(a, n)) = a.lo + n
    BY <1>1, <2>1, <2>3, Add4Exact, WordFacts DEF Value
  <2>4. \A x \in Addr4 : x.fam = 4 /\ x \in Addr
    BY DEF Addr4, Addr
  <2> QED
    BY <1>1, <2>1, <2>2, <2>3, <2>4, Add4Exact
<1>2. CASE a \in Addr6
  <2>1. a.fam = 6
    BY <1>2 DEF Addr6
  <2>2. IPAdd(written, n) = Add6(a, n) /\ Space(a) = 0 .. Word * Word - 1
    BY <2>1 DEF IPAdd, Space
  <2>3. \A x \in Addr6 : x.fam = 6 /\ x \in Addr
    BY DEF Addr6, Addr
  <2> QED
    BY <1>2, <2>1, <2>2, <2>3, Add6Exact
<1> QED
  BY <1>1, <1>2, ParseType

-----------------------------------------------------------------------------
(* The chain                                                               *)

(* A chain that began in IPv4 stays there, and the offsets add up.         *)
AddInv ==
  /\ AddTypeOK
  /\ ParseAddr(start).fam = 4 => ParseAddr(cur).fam = 4
  /\ OffsetsAddUp

(* The invariant of a chain of ip_add calls.                               *)
LEMMA AddInductive == AddSpec => []AddInv
<1>1. AddInit => AddInv
  <2> SUFFICES ASSUME AddInit PROVE AddInv
    OBVIOUS
  <2>1. ParseAddr(start) \in Addr /\ start \in Addr /\ cur = start /\ moved = 0
    BY ParseType DEF AddInit
  <2>2. Value(ParseAddr(start)) \in Int
    BY <2>1, WordFacts DEF Addr, Addr4, Addr6, Words, Value
  <2> QED
    BY <2>1, <2>2 DEF AddInv, AddTypeOK, OffsetsAddUp
<1>2. ASSUME AddInv, NEW n \in Int64, Add(n)
      PROVE  AddInv'
  <2> DEFINE a == ParseAddr(cur)
             r == IPAdd(cur, n)
  <2>1. /\ cur \in Addr /\ start \in Addr /\ moved \in Int /\ n \in Int
        /\ r # Error /\ cur' = r /\ moved' = moved + n /\ start' = start
    BY <1>2, WordFacts DEF AddInv, AddTypeOK, Add, Int64
  <2>2. r \in Addr /\ r.fam = a.fam /\ Value(r) = Value(a) + n
    BY <2>1, IPAddExact
  <2>3. a.fam = 4 => ParseAddr(r).fam = 4
    BY <2>2, ParseType
  <2>4. \/ ParseAddr(r) = r
        \/ ParseAddr(r).fam = 4 /\ a.fam # 4
    <3>1. CASE IsMapped(r)
      <4>1. r.fam = 6
        BY <3>1 DEF IsMapped
      <4>2. ParseAddr(r).fam = 4
        BY <2>2, <3>1, ParseType
      <4>3. a.fam # 4
        BY <2>2, <4>1
      <4> QED
        BY <4>2, <4>3
    <3>2. CASE ~IsMapped(r)
      BY <2>2, <3>2, ParseType
    <3> QED
      BY <3>1, <3>2
  <2>5. AddTypeOK'
    BY <2>1, <2>2 DEF AddTypeOK
  <2>6. (ParseAddr(start).fam = 4 => ParseAddr(cur).fam = 4)'
    BY <1>2, <2>1, <2>3 DEF AddInv
  <2>7. OffsetsAddUp'
    <3> SUFFICES ASSUME ParseAddr(r).fam = ParseAddr(start).fam
                 PROVE  Value(ParseAddr(r)) = Value(ParseAddr(start)) + (moved + n)
      BY <2>1 DEF OffsetsAddUp, SameFamily
    <3>1. ParseAddr(r) = r
      BY <1>2, <2>1, <2>2, <2>4 DEF AddInv
    <3>2. Value(a) = Value(ParseAddr(start)) + moved
      BY <1>2, <2>2, <3>1 DEF AddInv, OffsetsAddUp, SameFamily
    <3>3. Value(ParseAddr(start)) \in Int
      BY <2>1, ParseType, WordFacts DEF Addr, Addr4, Addr6, Words, Value
    <3> QED
      BY <2>1, <2>2, <3>1, <3>2, <3>3
  <2> QED
    BY <2>5, <2>6, <2>7 DEF AddInv
<1>3. AddInv /\ UNCHANGED addVars => AddInv'
  BY DEF AddInv, addVars, AddTypeOK, OffsetsAddUp, SameFamily
<1>4. AddInv /\ [AddNext]_addVars => AddInv'
  BY <1>2, <1>3 DEF AddNext
<1> QED
  BY <1>1, <1>4, PTL DEF AddSpec

(* Chains of ip_add stay within the addresses.                             *)
THEOREM AddTypeCorrect == AddSpec => []AddTypeOK
<1>1. AddInv => AddTypeOK
  BY DEF AddInv
<1> QED
  BY <1>1, AddInductive, PTL

(* A chain of ip_add calls ends where its offsets add up to, for words of  *)
(* any size.                                                               *)
THEOREM ChainsAddUp == AddSpec => []OffsetsAddUp
<1>1. AddInv => OffsetsAddUp
  BY DEF AddInv
<1> QED
  BY <1>1, AddInductive, PTL

(* ip_add fails exactly when the sum is outside the address space.         *)
THEOREM FailsOnlyOutside == AddSpec => []FailsExactlyOutside
<1>1. AddTypeOK => FailsExactlyOutside
  BY IPAddExact DEF AddTypeOK, FailsExactlyOutside
<1> QED
  BY <1>1, AddTypeCorrect, PTL

(* ip_subtract returns the sum of the offsets of a chain of ip_add calls   *)
(* whose ends have the same high word.                                     *)
THEOREM SubtractIsInverse == AddSpec => []SubtractUndoesAdd
<1>1. AddInv => SubtractUndoesAdd
  <2> DEFINE a == ParseAddr(cur)
             b == ParseAddr(start)
  <2> SUFFICES ASSUME AddInv, a.fam = b.fam, a.hi = b.hi, moved \in Int64
               PROVE  IPSubtract(cur, start) = moved
    BY DEF SubtractUndoesAdd, SameFamily
  <2>1. /\ a.lo \in Int /\ b.lo \in Int /\ a.hi \in Int
        /\ a.fam = 4 \/ a.fam = 6
    BY ParseType, WordFacts DEF AddInv, AddTypeOK, Addr4, Addr6, Words
  <2>2. a.hi * Word + a.lo = (a.hi * Word + b.lo) + moved
    BY DEF AddInv, OffsetsAddUp, SameFamily, Value
  <2>3. moved \in Int /\ -(MaxInt64 + 1) <= moved /\ moved <= MaxInt64 /\ MaxInt64 \in Int
    BY WordFacts DEF Int64, MaxInt64
  <2>4. a.hi * Word \in Int
    BY <2>1, WordFacts
  <2>5. a.lo - b.lo = moved
    BY <2>1, <2>2, <2>3, <2>4
  <2>6. CASE a.fam = 4
    BY <2>1, <2>5, <2>6 DEF IPSubtract
  <2>7. CASE a.fam = 6
    <3>1. CASE a.lo >= b.lo
      <4>1. a.lo - b.lo <= MaxInt64 /\ Signed(a.lo - b.lo) = moved
        BY <2>1, <2>3, <2>5 DEF Signed
      <4> QED
        BY <2>1, <2>3, <2>7, <3>1, <4>1 DEF IPSubtract
    <3>2. CASE a.lo < b.lo
      <4>1. b.lo - a.lo = -moved /\ -moved <= MaxInt64 + 1 /\ ~(a.lo >= b.lo)
        BY <2>1, <2>3, <2>5, <3>2
      <4>2. Word = 2 * (MaxInt64 + 1)
        BY WordFacts DEF MaxInt64
      <4>3. Negate(Signed(-moved)) = moved
        BY <2>3, <3>2, <4>1, <4>2 DEF Signed, Negate
      <4>4. ~(b.lo - a.lo > MaxInt64 + 1)
        BY <2>3, <4>1
      <4> QED
        BY <2>1, <2>3, <2>7, <4>1, <4>3, <4>4 DEF IPSubtract
    <3> QED
      BY <2>1, <3>1, <3>2
  <2> QED
    BY <2>1, <2>6, <2>7
<1> QED
  BY <1>1, AddInductive, PTL

-----------------------------------------------------------------------------
(* nptv6_translate                                                         *)

-----------------------------------------------------------------------------
(* One's complement arithmetic                                             *)

(* Two rounds of folding take a sum of up to three words back to a word,   *)
(* by taking away the word of all ones once or twice.                      *)
LEMMA FoldTwice ==
  ASSUME NEW acc \in 0 .. 3 * Max
  PROVE  /\ Fold(Fold(acc)) \in Words16
         /\ acc <= Max => Fold(Fold(acc)) = acc
         /\ Max < acc /\ acc <= 2 * Max => Fold(Fold(acc)) = acc - Max
<1>0. Word16 \in Nat /\ Word16 >= 2 /\ Max = Word16 - 1 /\ acc \in Nat /\ acc <= 3 * Word16 - 3
  BY SiteAssumption DEF Max
<1>1. ASSUME NEW x \in Int, 0 <= x, x < Word16
      PROVE  Fold(x) = x
  <2>1. x \div Word16 = 0 /\ x % Word16 = x
    BY <1>0, <1>1
  <2> QED
    BY <1>1, <2>1 DEF Fold
<1>2. ASSUME NEW x \in Int, Word16 <= x, x < 2 * Word16
      PROVE  Fold(x) = x - Max
  <2>1. x \div Word16 = 1 /\ x % Word16 = x - Word16
    BY <1>0, <1>2
  <2> QED
    BY <1>0, <1>2, <2>1 DEF Fold
<1>3. ASSUME NEW x \in Int, 2 * Word16 <= x, x < 3 * Word16
      PROVE  Fold(x) = x - 2 * Max
  <2>1. x \div Word16 = 2 /\ x % Word16 = x - 2 * Word16
    BY <1>0, <1>3
  <2> QED
    BY <1>0, <1>3, <2>1 DEF Fold
<1>4. CASE acc < Word16
  BY <1>0, <1>1, <1>4 DEF Words16
<1>5. CASE Word16 <= acc /\ acc < 2 * Word16
  <2>1. Fold(acc) = acc - Max
    BY <1>0, <1>2, <1>5
  <2>2. CASE acc = 2 * Word16 - 1
    <3>1. Fold(acc) = Word16 /\ Fold(Word16) = 1
      BY <1>0, <1>2, <2>1, <2>2
    <3> QED
      BY <1>0, <2>2, <3>1 DEF Words16
  <2>3. CASE acc < 2 * Word16 - 1
    <3>1. Fold(acc - Max) = acc - Max /\ acc - Max \in Words16
      BY <1>0, <1>1, <1>5, <2>3 DEF Words16
    <3> QED
      BY <1>0, <1>5, <2>1, <3>1
  <2> QED
    BY <1>0, <1>5, <2>2, <2>3
<1>6. CASE 2 * Word16 <= acc
  <2>1. Fold(acc) = acc - 2 * Max /\ acc > 2 * Max
    BY <1>0, <1>3, <1>6
  <2>2. Fold(acc - 2 * Max) = acc - 2 * Max /\ acc - 2 * Max \in Words16
    BY <1>0, <1>1, <1>6 DEF Words16
  <2> QED
    BY <1>0, <2>1, <2>2
<1> QED
  BY <1>0, <1>4, <1>5, <1>6

(* The one's complement sum of two words.                                  *)
LEMMA OcsAddFacts ==
  ASSUME NEW a \in Words16, NEW b \in Words16
  PROVE  /\ OcsAdd(a, b) \in Words16
         /\ OcsAdd(a, b) \in {a + b, a + b - Max}
<1>1. a + b \in 0 .. 3 * Max /\ a + b <= 2 * Max
  BY SiteAssumption DEF Words16, Max
<1>2. Max \in Int /\ a \in Int /\ b \in Int
  BY SiteAssumption DEF Words16, Max
<1>3. OcsAdd(a, b) = Fold(Fold(a + b))
  BY DEF OcsAdd
<1>4. CASE a + b <= Max
  BY <1>1, <1>3, <1>4, FoldTwice
<1>5. CASE Max < a + b
  <2>1. Fold(Fold(a + b)) \in Words16 /\ Fold(Fold(a + b)) = (a + b) - Max
    BY <1>1, <1>5, FoldTwice
  <2>2. (a + b) - Max = a + b - Max
    BY <1>2
  <2> QED
    BY <1>3, <2>1, <2>2
<1> QED
  BY <1>2, <1>4, <1>5

(* The sum of a prefix is a word.                                          *)
LEMMA OcsSumType ==
  ASSUME NEW t \in Top
  PROVE  OcsSum(t) \in Words16
<1>1. t[1] \in Words16 /\ t[2] \in Words16 /\ t[3] \in Words16
  BY SiteAssumption DEF Words16, Max
<1>2. t[1] + t[2] + t[3] \in 0 .. 3 * Max
  BY <1>1, SiteAssumption DEF Words16, Max
<1> QED
  BY <1>2, FoldTwice DEF OcsSum

(* The adjusted subnet word is never all ones, and makes up for what the   *)
(* prefixes differ by.                                                     *)
LEMMA AdjustedFacts ==
  ASSUME NEW sub \in Words16, NEW from \in Top, NEW to \in Top
  PROVE  /\ Adjusted(sub, from, to) \in Words16 \ {Max}
         /\ Congruent(OcsSum(to) + Adjusted(sub, from, to), OcsSum(from) + sub)
<1> DEFINE f == OcsSum(from)
           t == OcsSum(to)
           delta == OcsAdd(t, Complement(f))
           raw == OcsAdd(sub, Complement(delta))
<1>0. Max \in Nat /\ Max >= 1
  BY SiteAssumption DEF Max
<1>1. f \in Words16 /\ t \in Words16 /\ Complement(f) \in Words16
  BY <1>0, OcsSumType DEF Words16, Complement
<1>2. delta \in Words16 /\ delta \in {t + (Max - f), t + (Max - f) - Max}
  BY <1>1, OcsAddFacts DEF Complement
<1>3. Complement(delta) \in Words16
  BY <1>0, <1>2 DEF Words16, Complement
<1>4. raw \in Words16 /\ raw \in {sub + (Max - delta), sub + (Max - delta) - Max}
  BY <1>2, <1>3, OcsAddFacts DEF Complement
<1>5. /\ Positive(raw) \in Words16 \ {Max}
      /\ Positive(raw) = raw \/ Positive(raw) = raw - Max
  BY <1>0, <1>4 DEF Positive, Words16
<1>6. Adjusted(sub, from, to) = Positive(raw)
  BY DEF Adjusted
<1> HIDE DEF f, t, delta, raw
<1>7. f \in Int /\ t \in Int /\ delta \in Int /\ raw \in Int /\ sub \in Int
  BY <1>0, <1>1, <1>2, <1>4 DEF Words16
<1>8. (t + Positive(raw)) - (f + sub) \in {-2 * Max, -Max, 0, Max, 2 * Max}
  BY <1>0, <1>2, <1>4, <1>5, <1>7
<1> QED
  BY <1>5, <1>6, <1>8 DEF Congruent, f, t

(* Two words that are not all ones and congruent are equal, also when the  *)
(* same prefix is added to both.                                           *)
LEMMA SameResidue ==
  ASSUME NEW x \in Words16 \ {Max}, NEW y \in Words16 \ {Max},
         NEW s \in Words16, NEW z \in Int,
         Congruent(s + x, z), Congruent(s + y, z)
  PROVE  x = y
<1>1. Max \in Nat /\ x \in 0 .. Max - 1 /\ y \in 0 .. Max - 1 /\ s \in Int
  BY SiteAssumption DEF Words16, Max
<1>2. x - y \in {(s + x - z) - (s + y - z)}
  BY <1>1
<1>3. /\ (s + x) - z \in {-2 * Max, -Max, 0, Max, 2 * Max}
      /\ (s + y) - z \in {-2 * Max, -Max, 0, Max, 2 * Max}
  BY DEF Congruent
<1> QED
  BY <1>1, <1>3

(* Congruence is transitive among sums of two words.                       *)
LEMMA CongruentTrans ==
  ASSUME NEW x \in 0 .. 2 * Max, NEW y \in 0 .. 2 * Max, NEW z \in 0 .. 2 * Max,
         Congruent(x, y), Congruent(y, z)
  PROVE  Congruent(x, z)
<1>1. Max \in Nat /\ Max >= 1
  BY SiteAssumption DEF Max
<1> QED
  BY <1>1 DEF Congruent

-----------------------------------------------------------------------------
(* The chain                                                               *)

(* Where the address is, it has that site's prefix; only the address it    *)
(* started as can have the subnet of all ones.                             *)
PlaceInv ==
  /\ host.top = prefix[at].top /\ origin.top = prefix[home].top
  /\ host.iid = origin.iid
  /\ \/ host = origin /\ at = home /\ \A s \in Site : seen[s] = None
     \/ host.sub # Max

(* The subnet any site gave balances its prefix against the origin.         *)
SeenInv ==
  \A s \in Site :
    seen[s] # None => /\ seen[s] \in Words16 \ {Max}
                      /\ Congruent(OcsSum(prefix[s].top) + seen[s], Sum(origin))

SiteInv == SiteTypeOK /\ PlaceInv /\ SeenInv /\ ChecksumNeutral

(* The sums in question are sums of two words.                             *)
LEMMA SumType ==
  ASSUME NEW a \in SiteAddr
  PROVE  Sum(a) \in 0 .. 2 * Max
<1>1. a.top \in Top /\ a.sub \in Words16
  BY DEF SiteAddr
<1>2. OcsSum(a.top) \in Words16
  BY <1>1, OcsSumType
<1> QED
  BY <1>1, <1>2, SiteAssumption DEF Sum, Words16, Max

(* The invariant of a chain of translations.                               *)
LEMMA SiteInductive == SiteSpec => []SiteInv
<1>1. SiteInit => SiteInv
  <2> SUFFICES ASSUME SiteInit PROVE SiteInv
    OBVIOUS
  <2>1. origin \in SiteAddr /\ host = origin /\ at = home /\ home \in Site
        /\ origin.top = prefix[home].top /\ prefix \in [Site -> SitePrefix]
        /\ seen = [s \in Site |-> None]
    BY DEF SiteInit
  <2>2. Sum(origin) \in Int
    BY <2>1, SumType, SiteAssumption DEF Max
  <2> QED
    BY <2>1, <2>2 DEF SiteInv, SiteTypeOK, PlaceInv, SeenInv, ChecksumNeutral, Congruent
<1>2. ASSUME SiteInv, NEW to \in Site, Translate(to)
      PROVE  SiteInv'
  <2> DEFINE r == NPTv6Translate(host, prefix[at], prefix[to])
             new == Adjusted(host.sub, prefix[at].top, prefix[to].top)
  <2>1. /\ r # NoAddr /\ host' = r /\ at' = to
        /\ seen' = [seen EXCEPT ![to] = IF seen[to] = None THEN r.sub ELSE seen[to]]
        /\ prefix' = prefix /\ home' = home /\ origin' = origin
    BY <1>2 DEF Translate
  <2>2. r = [top |-> prefix[to].top, sub |-> new, iid |-> host.iid]
    BY <2>1 DEF NPTv6Translate
  <2>3. /\ prefix[at].top \in Top /\ prefix[to].top \in Top /\ host.sub \in Words16
        /\ host.iid \in Iids /\ host \in SiteAddr /\ origin \in SiteAddr
    BY <1>2 DEF SiteInv, SiteTypeOK, SitePrefix, SiteAddr
  <2>4. /\ new \in Words16 \ {Max}
        /\ Congruent(OcsSum(prefix[to].top) + new, OcsSum(prefix[at].top) + host.sub)
    BY <2>3, AdjustedFacts
  <2> HIDE DEF r, new
  <2>5. r \in SiteAddr /\ r.sub = new /\ r.top = prefix[to].top /\ r.iid = host.iid
    BY <2>2, <2>3, <2>4 DEF SiteAddr
  <2>6. Congruent(Sum(r), Sum(host))
    BY <1>2, <2>4, <2>5 DEF SiteInv, PlaceInv, Sum
  <2>7. Congruent(Sum(r), Sum(origin))
    BY <1>2, <2>3, <2>5, <2>6, SumType, CongruentTrans DEF SiteInv, ChecksumNeutral
  <2>8. SiteTypeOK'
    <3>1. seen' \in [Site -> Words16 \cup {None}]
      BY <1>2, <2>1, <2>4, <2>5 DEF SiteInv, SiteTypeOK
    <3> QED
      BY <1>2, <2>1, <2>5, <3>1 DEF SiteInv, SiteTypeOK
  <2>9. PlaceInv'
    BY <1>2, <2>1, <2>4, <2>5 DEF SiteInv, PlaceInv
  <2>10. SeenInv'
    <3> SUFFICES ASSUME NEW s \in Site, seen'[s] # None
                 PROVE  /\ seen'[s] \in Words16 \ {Max}
                        /\ Congruent(OcsSum(prefix[s].top) + seen'[s], Sum(origin))
      BY <2>1 DEF SeenInv, Sum
    <3>1. \/ seen'[s] = seen[s] /\ seen[s] # None
          \/ s = to /\ seen'[s] = new
      BY <1>2, <2>1, <2>5 DEF SiteInv, SiteTypeOK
    <3>2. CASE seen'[s] = seen[s] /\ seen[s] # None
      BY <1>2, <3>2 DEF SiteInv, SeenInv
    <3>3. CASE s = to /\ seen'[s] = new
      BY <2>4, <2>5, <2>7, <3>3 DEF Sum
    <3> QED
      BY <3>1, <3>2, <3>3
  <2>11. ChecksumNeutral'
    BY <2>1, <2>7 DEF ChecksumNeutral, Sum
  <2> QED
    BY <2>8, <2>9, <2>10, <2>11 DEF SiteInv
<1>3. SiteInv /\ UNCHANGED siteVars => SiteInv'
  BY DEF SiteInv, siteVars, SiteTypeOK, PlaceInv, SeenInv, ChecksumNeutral, Sum
<1>4. SiteInv /\ [SiteNext]_siteVars => SiteInv'
  BY <1>2, <1>3 DEF SiteNext
<1> QED
  BY <1>1, <1>4, PTL DEF SiteSpec

(* A chain of translations stays within the addresses.                     *)
THEOREM SiteTypeCorrect == SiteSpec => []SiteTypeOK
<1>1. SiteInv => SiteTypeOK
  BY DEF SiteInv
<1> QED
  BY <1>1, SiteInductive, PTL

(* No chain of translations changes the one's complement sum.              *)
THEOREM AlwaysNeutral == SiteSpec => []ChecksumNeutral
<1>1. SiteInv => ChecksumNeutral
  BY DEF SiteInv
<1> QED
  BY <1>1, SiteInductive, PTL

(* The address of a host at a site does not depend on the route to it.     *)
THEOREM RouteIndependent == SiteSpec => []RoutesAgree
<1>1. SiteInv => RoutesAgree
  <2> SUFFICES ASSUME SiteInv PROVE RoutesAgree
    OBVIOUS
  <2>1. /\ host \in SiteAddr /\ origin \in SiteAddr /\ at \in Site /\ home \in Site
        /\ prefix[at].top \in Top /\ host.sub \in Words16 /\ origin.sub \in Words16
    BY DEF SiteInv, SiteTypeOK, SitePrefix, SiteAddr
  <2>2. Sum(origin) \in Int /\ OcsSum(prefix[at].top) \in Words16
    BY <2>1, SumType, OcsSumType, SiteAssumption DEF Max
  <2>3. Congruent(OcsSum(prefix[at].top) + host.sub, Sum(origin))
    BY DEF SiteInv, PlaceInv, ChecksumNeutral, Sum
  <2>4. ASSUME seen[at] # None
        PROVE  seen[at] = host.sub
    <3>1. host.sub # Max
      BY <2>1, <2>4 DEF SiteInv, PlaceInv
    <3>2. /\ seen[at] \in Words16 \ {Max}
          /\ Congruent(OcsSum(prefix[at].top) + seen[at], Sum(origin))
      BY <2>1, <2>4 DEF SiteInv, SeenInv
    <3> QED
      BY <2>1, <2>2, <2>3, <3>1, <3>2, SameResidue
  <2>5. ASSUME at = home, origin.sub # Max
        PROVE  host = origin
    <3>1. CASE host.sub # Max
      <4>1. Congruent(OcsSum(prefix[at].top) + origin.sub, Sum(origin))
        BY <2>2, <2>5 DEF SiteInv, PlaceInv, Sum, Congruent
      <4>2. host.sub = origin.sub
        BY <2>1, <2>2, <2>3, <2>5, <3>1, <4>1, SameResidue
      <4>3. host.top = origin.top /\ host.iid = origin.iid
        BY <2>5 DEF SiteInv, PlaceInv
      <4> QED
        BY <2>1, <4>2, <4>3 DEF SiteAddr
    <3>2. CASE host.sub = Max
      BY <3>2 DEF SiteInv, PlaceInv
    <3> QED
      BY <3>1, <3>2
  <2> QED
    BY <2>4, <2>5 DEF RoutesAgree
<1> QED
  BY <1>1, SiteInductive, PTL

-----------------------------------------------------------------------------
(* cidr_find_free and the list functions                                   *)

Disjoint(b, c) == Addrs(b) \cap Addrs(c) = {}

SetTypes ==
  /\ used \in Seq(Cidr \cup {Invalid})
  /\ retired \in Seq(Cidr)

(* What is in the pool's reach is the caller's and not retired.            *)
PoolFree ==
  /\ BuildSet(pool) \subseteq whole
  /\ \A i \in DOMAIN retired : BuildSet(pool) \cap Addrs(retired[i]) = {}

UsedApart ==
  /\ \A i \in DOMAIN used : Addrs(used[i]) \subseteq whole
  /\ \A i, j \in DOMAIN used : i # j => Disjoint(used[i], used[j])

RetiredApart ==
  /\ \A i \in DOMAIN retired : Addrs(retired[i]) \subseteq whole
  /\ \A i, j \in DOMAIN retired : i # j => Disjoint(retired[i], retired[j])

Across ==
  \A i \in DOMAIN used : \A j \in DOMAIN retired : Disjoint(used[i], retired[j])

SetInv == SetTypes /\ PoolFree /\ UsedApart /\ RetiredApart /\ Across

-----------------------------------------------------------------------------

LEMMA PrefixesInside ==
  ASSUME NEW S PROVE BuildSet(Prefixes(S)) \subseteq S
BY Zenon DEF BuildSet, Prefixes

(* The rewriting of the pool only takes addresses away.                    *)
LEMMA Shrinks ==
  ASSUME SetInv, UNCHANGED <<whole, used, retired>>,
         BuildSet(pool') \subseteq BuildSet(pool)
  PROVE  SetInv'
<1>1. SetTypes' BY DEF SetInv, SetTypes
<1>2. PoolFree' BY DEF SetInv, PoolFree
<1>3. UsedApart' BY DEF SetInv, UsedApart, Disjoint
<1>4. RetiredApart' BY DEF SetInv, RetiredApart, Disjoint
<1>5. Across' BY DEF SetInv, Across, Disjoint
<1> QED BY <1>1, <1>2, <1>3, <1>4, <1>5 DEF SetInv

LEMMA NotCidr == Invalid \notin Cidr /\ NullElement \notin Cidr /\ Refused \notin Cidr
BY DEF Invalid, NullElement, Refused, Cidr, Fams

(* An answer that joins the used list is free: outside what is used.       *)
LEMMA AnswerIsFree ==
  ASSUME NEW len, NEW c, c \in FindFreeCIDR(pool, Items(used), len),
         c \notin {NullElement, Refused}
  PROVE  /\ c \in Cidr \cup {Invalid}
         /\ Addrs(c) \subseteq BuildSet(pool) \ BuildSet(Items(used))
<1>1. CASE len \in 0 .. MaxLen /\ Parses(pool) /\ Parses(Items(used))
  <2> DEFINE free == BuildSet(pool) \ BuildSet(Items(used))
  <2>1. c \in RemoveFreePrefix(free, len)
    BY <1>1 DEF FindFreeCIDR
  <2>2. c = Invalid \/ (c \in Cidr /\ Addrs(c) \subseteq free)
    BY <2>1, Zenon DEF RemoveFreePrefix
  <2>3. Addrs(Invalid) = {} BY NotCidr DEF Addrs
  <2> QED BY <2>2, <2>3
<1>2. CASE ~(len \in 0 .. MaxLen /\ Parses(pool) /\ Parses(Items(used)))
  BY <1>2 DEF FindFreeCIDR
<1> QED BY <1>1, <1>2

LEMMA AllocatePreserves ==
  ASSUME SetInv, NEW len, Allocate(len) PROVE SetInv'
<1>1. CASE answer' \in {NullElement, Refused}
  <2>1. UNCHANGED <<whole, pool, used, retired>> BY <1>1 DEF Allocate
  <2> QED BY <2>1, Shrinks
<1>2. CASE answer' \notin {NullElement, Refused}
  <2> DEFINE c == answer'
  <2>1. /\ used' = Append(used, c)
        /\ UNCHANGED <<whole, pool, retired>>
    BY <1>2 DEF Allocate
  <2>2. /\ c \in Cidr \cup {Invalid}
        /\ Addrs(c) \subseteq BuildSet(pool) \ BuildSet(Items(used))
    BY <1>2, AnswerIsFree DEF Allocate
  <2>3. used \in Seq(Cidr \cup {Invalid}) /\ retired \in Seq(Cidr)
    BY DEF SetInv, SetTypes
  <2>4. /\ DOMAIN used' = 1 .. Len(used) + 1
        /\ DOMAIN used = 1 .. Len(used)
        /\ Len(used) \in Nat
        /\ used'[Len(used) + 1] = c
        /\ \A i \in DOMAIN used : used'[i] = used[i]
    BY <2>1, <2>2, <2>3
  <2>5. \A i \in DOMAIN used : Addrs(used[i]) \cap Addrs(c) = {}
    <3> SUFFICES ASSUME NEW i \in DOMAIN used PROVE Addrs(used[i]) \cap Addrs(c) = {}
      OBVIOUS
    <3>1. Addrs(used[i]) \subseteq BuildSet(Items(used)) BY Zenon DEF BuildSet, Items
    <3> QED BY <3>1, <2>2
  <2>6. SetTypes' BY <2>1, <2>2, <2>3 DEF SetTypes
  <2>7. PoolFree' BY <2>1 DEF SetInv, PoolFree
  <2>8. UsedApart'
    <3>1. Addrs(c) \subseteq whole BY <2>2 DEF SetInv, PoolFree
    <3>2. \A i \in DOMAIN used' : Addrs(used'[i]) \subseteq whole
      BY <3>1, <2>4 DEF SetInv, UsedApart
    <3>3. ASSUME NEW i \in DOMAIN used', NEW j \in DOMAIN used', i # j
          PROVE  Disjoint(used'[i], used'[j])
      <4>1. CASE i \in DOMAIN used /\ j \in DOMAIN used
        BY <4>1, <3>3, <2>4 DEF SetInv, UsedApart
      <4>2. CASE i = Len(used) + 1 /\ j \in DOMAIN used
        BY <4>2, <2>4, <2>5 DEF Disjoint
      <4>3. CASE i \in DOMAIN used /\ j = Len(used) + 1
        BY <4>3, <2>4, <2>5 DEF Disjoint
      <4> QED BY <4>1, <4>2, <4>3, <3>3, <2>4
    <3>4. whole' = whole BY <2>1
    <3> QED BY <3>2, <3>3, <3>4 DEF UsedApart
  <2>9. RetiredApart' BY <2>1 DEF SetInv, RetiredApart, Disjoint
  <2>10. Across'
    <3>1. \A j \in DOMAIN retired : Disjoint(c, retired[j])
      BY <2>2 DEF SetInv, PoolFree, Disjoint
    <3>2. \A i \in DOMAIN used' : \A j \in DOMAIN retired : Disjoint(used'[i], retired[j])
      BY <3>1, <2>4 DEF SetInv, Across
    <3>3. retired' = retired BY <2>1
    <3> QED BY <3>2, <3>3 DEF Across
  <2> QED BY <2>6, <2>7, <2>8, <2>9, <2>10 DEF SetInv
<1> QED BY <1>1, <1>2

LEMMA ReleasePreserves ==
  ASSUME SetInv, NEW k \in DOMAIN used, Release(k) PROVE SetInv'
<1> DEFINE shift(j) == IF j < k THEN j ELSE j + 1
<1>1. /\ used' = [j \in 1 .. Len(used) - 1 |-> used[shift(j)]]
      /\ UNCHANGED <<whole, pool, retired>>
  BY DEF Release
<1>2. used \in Seq(Cidr \cup {Invalid}) /\ Len(used) \in Nat /\ DOMAIN used = 1 .. Len(used)
  BY DEF SetInv, SetTypes
<1>3. Len(used) - 1 \in Nat /\ k \in 1 .. Len(used) BY <1>2
<1>4. \A j \in 1 .. Len(used) - 1 : shift(j) \in DOMAIN used BY <1>2, <1>3
<1>5. \A i, j \in 1 .. Len(used) - 1 : i # j => shift(i) # shift(j) BY <1>2, <1>3
<1>6. DOMAIN used' = 1 .. Len(used) - 1 BY <1>1
<1>7. \A j \in DOMAIN used' : used'[j] = used[shift(j)] BY <1>1, <1>6
<1> HIDE DEF shift
<1>8. SetTypes'
  <2>1. \A j \in 1 .. Len(used) - 1 : used[shift(j)] \in Cidr \cup {Invalid} BY <1>2, <1>4
  <2> QED BY <2>1, <1>1, <1>3 DEF SetInv, SetTypes
<1>9. PoolFree' BY <1>1 DEF SetInv, PoolFree
<1>10. UsedApart'
  <2>1. \A j \in DOMAIN used' : Addrs(used'[j]) \subseteq whole
    BY <1>4, <1>6, <1>7 DEF SetInv, UsedApart
  <2>2. \A i, j \in DOMAIN used' : i # j => Disjoint(used'[i], used'[j])
    BY <1>4, <1>5, <1>6, <1>7 DEF SetInv, UsedApart
  <2>3. whole' = whole BY <1>1
  <2> QED BY <2>1, <2>2, <2>3 DEF UsedApart
<1>11. RetiredApart' BY <1>1 DEF SetInv, RetiredApart, Disjoint
<1>12. Across'
  <2>1. \A i \in DOMAIN used' : \A j \in DOMAIN retired : Disjoint(used'[i], retired[j])
    BY <1>4, <1>6, <1>7 DEF SetInv, Across
  <2>2. retired' = retired BY <1>1
  <2> QED BY <2>1, <2>2 DEF Across
<1> QED BY <1>8, <1>9, <1>10, <1>11, <1>12 DEF SetInv

LEMMA RetirePreserves ==
  ASSUME SetInv, Retire PROVE SetInv'
<1>1. /\ pool' = SubtractCIDRs(pool, Items(used))
      /\ retired' = retired \o used
      /\ used' = <<>>
      /\ whole' = whole
      /\ Parses(Items(used))
  BY DEF Retire
<1>2. used \in Seq(Cidr \cup {Invalid}) /\ retired \in Seq(Cidr)
  BY DEF SetInv, SetTypes
<1>3. \A i \in DOMAIN used : used[i] \in Cidr
  BY <1>1, <1>2 DEF Parses, Items
<1>4. used \in Seq(Cidr) BY <1>2, <1>3
<1> DEFINE m == Len(retired)
           n == Len(used)
<1>5. /\ m \in Nat /\ n \in Nat
      /\ DOMAIN retired = 1 .. m /\ DOMAIN used = 1 .. n
      /\ DOMAIN retired' = 1 .. m + n
      /\ \A i \in 1 .. m : retired'[i] = retired[i]
      /\ \A i \in m + 1 .. m + n : retired'[i] = used[i - m]
  BY <1>1, <1>2, <1>4
<1> HIDE DEF m, n
<1>6. \A i \in DOMAIN retired' :
        (i \in DOMAIN retired /\ retired'[i] = retired[i])
        \/ (i - m \in DOMAIN used /\ retired'[i] = used[i - m])
  BY <1>5
<1>7. SetTypes' BY <1>1, <1>2, <1>4 DEF SetTypes
<1>8. BuildSet(pool') \subseteq BuildSet(pool) \ BuildSet(Items(used))
  BY <1>1, PrefixesInside DEF SubtractCIDRs
<1>9. PoolFree'
  <2>1. \A i \in DOMAIN used : Addrs(used[i]) \subseteq BuildSet(Items(used))
    BY Zenon DEF BuildSet, Items
  <2>2. \A i \in DOMAIN retired' : BuildSet(pool') \cap Addrs(retired'[i]) = {}
    <3> SUFFICES ASSUME NEW i \in DOMAIN retired'
                 PROVE  BuildSet(pool') \cap Addrs(retired'[i]) = {}
      OBVIOUS
    <3>1. CASE i \in DOMAIN retired /\ retired'[i] = retired[i]
      BY <3>1, <1>8 DEF SetInv, PoolFree
    <3>2. CASE i - m \in DOMAIN used /\ retired'[i] = used[i - m]
      BY <3>2, <2>1, <1>8
    <3> QED BY <3>1, <3>2, <1>6
  <2>3. BuildSet(pool') \subseteq whole' BY <1>1, <1>8 DEF SetInv, PoolFree
  <2> QED BY <2>2, <2>3 DEF PoolFree
<1>10. UsedApart' /\ Across' BY <1>1 DEF UsedApart, Across
<1>11. RetiredApart'
  <2>1. \A i \in DOMAIN retired' : Addrs(retired'[i]) \subseteq whole
    BY <1>6 DEF SetInv, RetiredApart, UsedApart
  <2>2. ASSUME NEW i \in DOMAIN retired', NEW j \in DOMAIN retired', i # j
        PROVE  Disjoint(retired'[i], retired'[j])
    <3>1. CASE i \in 1 .. m /\ j \in 1 .. m
      BY <3>1, <2>2, <1>5 DEF SetInv, RetiredApart
    <3>2. CASE i \in 1 .. m /\ j \in m + 1 .. m + n
      <4>1. j - m \in DOMAIN used /\ i \in DOMAIN retired BY <3>2, <1>5
      <4> QED BY <4>1, <3>2, <1>5 DEF SetInv, Across, Disjoint
    <3>3. CASE i \in m + 1 .. m + n /\ j \in 1 .. m
      <4>1. i - m \in DOMAIN used /\ j \in DOMAIN retired BY <3>3, <1>5
      <4> QED BY <4>1, <3>3, <1>5 DEF SetInv, Across, Disjoint
    <3>4. CASE i \in m + 1 .. m + n /\ j \in m + 1 .. m + n
      <4>1. i - m \in DOMAIN used /\ j - m \in DOMAIN used /\ i - m # j - m
        BY <3>4, <2>2, <1>5
      <4> QED BY <4>1, <3>4, <1>5 DEF SetInv, UsedApart
    <3> QED BY <3>1, <3>2, <3>3, <3>4, <1>5
  <2>3. whole' = whole BY <1>1
  <2> QED BY <2>1, <2>2, <2>3 DEF RetiredApart
<1> QED BY <1>7, <1>9, <1>10, <1>11 DEF SetInv

LEMMA InitEstablishes ==
  ASSUME SetInit PROVE SetInv
<1>1. /\ used = <<>> /\ retired = <<>> /\ whole = BuildSet(pool)
  BY DEF SetInit
<1> QED BY <1>1 DEF SetInv, SetTypes, PoolFree, UsedApart, RetiredApart, Across

LEMMA StepPreserves ==
  ASSUME SetInv, [SetNext]_setVars PROVE SetInv'
<1>1. ASSUME NEW len, Allocate(len) PROVE SetInv' BY <1>1, AllocatePreserves
<1>2. ASSUME NEW i \in DOMAIN used, Release(i) PROVE SetInv' BY <1>2, ReleasePreserves
<1>3. CASE Merge
  BY <1>3, Shrinks, PrefixesInside DEF Merge, MergeCIDRs
<1>4. CASE Retire BY <1>4, RetirePreserves
<1>5. ASSUME NEW b, Narrow(b) PROVE SetInv'
  <2>1. BuildSet(pool') \subseteq BuildSet(pool) \cap BuildSet({b})
    BY <1>5, PrefixesInside DEF Narrow, IntersectCIDRs
  <2> QED BY <2>1, <1>5, Shrinks DEF Narrow
<1>6. ASSUME NEW version, OnlyVersion(version) PROVE SetInv'
  <2>1. pool' \subseteq pool BY <1>6 DEF OnlyVersion, FilterCIDRsByVersion
  <2>2. BuildSet(pool') \subseteq BuildSet(pool) BY <2>1, Zenon DEF BuildSet
  <2> QED BY <2>2, <1>6, Shrinks DEF OnlyVersion
<1>7. CASE UNCHANGED setVars
  BY <1>7, Shrinks DEF setVars
<1> QED BY <1>1, <1>2, <1>3, <1>4, <1>5, <1>6, <1>7 DEF SetNext

LEMMA InvImplies ==
  ASSUME SetInv PROVE AllocationsDisjoint
<1> DEFINE m == Len(retired)
           n == Len(used)
<1>1. /\ m \in Nat /\ n \in Nat
      /\ DOMAIN retired = 1 .. m /\ DOMAIN used = 1 .. n
      /\ DOMAIN Given = 1 .. m + n
      /\ \A i \in 1 .. m : Given[i] = retired[i]
      /\ \A i \in m + 1 .. m + n : Given[i] = used[i - m]
  <2>1. used \in Seq(Cidr \cup {Invalid}) /\ retired \in Seq(Cidr \cup {Invalid})
    BY DEF SetInv, SetTypes
  <2> QED BY <2>1 DEF Given
<1> HIDE DEF m, n
<1>2. ASSUME NEW i \in DOMAIN Given PROVE Addrs(Given[i]) \subseteq whole
  <2>1. CASE i \in 1 .. m BY <2>1, <1>1 DEF SetInv, RetiredApart
  <2>2. CASE i \in m + 1 .. m + n
    <3>1. i - m \in DOMAIN used BY <2>2, <1>1
    <3> QED BY <3>1, <2>2, <1>1 DEF SetInv, UsedApart
  <2> QED BY <2>1, <2>2, <1>1
<1>3. ASSUME NEW i \in DOMAIN Given, NEW j \in DOMAIN Given, i # j
      PROVE  Addrs(Given[i]) \cap Addrs(Given[j]) = {}
  <2>1. CASE i \in 1 .. m /\ j \in 1 .. m
    BY <2>1, <1>3, <1>1 DEF SetInv, RetiredApart, Disjoint
  <2>2. CASE i \in 1 .. m /\ j \in m + 1 .. m + n
    <3>1. j - m \in DOMAIN used /\ i \in DOMAIN retired BY <2>2, <1>1
    <3> QED BY <3>1, <2>2, <1>1 DEF SetInv, Across, Disjoint
  <2>3. CASE i \in m + 1 .. m + n /\ j \in 1 .. m
    <3>1. i - m \in DOMAIN used /\ j \in DOMAIN retired BY <2>3, <1>1
    <3> QED BY <3>1, <2>3, <1>1 DEF SetInv, Across, Disjoint
  <2>4. CASE i \in m + 1 .. m + n /\ j \in m + 1 .. m + n
    <3>1. i - m \in DOMAIN used /\ j - m \in DOMAIN used /\ i - m # j - m
      BY <2>4, <1>3, <1>1
    <3> QED BY <3>1, <2>4, <1>1 DEF SetInv, UsedApart, Disjoint
  <2> QED BY <2>1, <2>2, <2>3, <2>4, <1>1
<1> QED BY <1>2, <1>3 DEF AllocationsDisjoint

(* Subnets handed out by cidr_find_free never overlap: not after any       *)
(* sequence of allocations, releases and rewritings of the pool by         *)
(* cidr_merge, cidr_subtract, cidr_intersect and cidr_filter_version.      *)
THEOREM NeverTwice == SetSpec => []AllocationsDisjoint
<1>1. SetInit => SetInv BY InitEstablishes
<1>2. SetInv /\ [SetNext]_setVars => SetInv' BY StepPreserves
<1>3. SetInv => AllocationsDisjoint BY InvImplies
<1> QED BY <1>1, <1>2, <1>3, PTL DEF SetSpec

-----------------------------------------------------------------------------
(* The questions about the lists                                           *)

(* Of two aligned blocks that meet, the larger holds the smaller.          *)
LEMMA AlignedBlocksNest ==
  ASSUME NEW s \in Nat, s >= 1, NEW k \in Nat, NEW q \in Nat, NEW r \in Nat, NEW m \in Nat,
         q * (k * s) <= m, m < (q + 1) * (k * s), r * s <= m, m < (r + 1) * s
  PROVE  q * (k * s) <= r * s /\ (r + 1) * s <= (q + 1) * (k * s)
<1> DEFINE x == q * k
           y == (q + 1) * k
<1>1. /\ \A a, b, c \in Nat : a * (b * c) = (a * b) * c
      /\ \A a, b \in Nat : a * b \in Nat
  OBVIOUS
<1>2. x \in Nat /\ y \in Nat /\ q * (k * s) = x * s /\ (q + 1) * (k * s) = y * s
  BY <1>1
<1> HIDE DEF x, y
<1>3. x * s \in Nat /\ y * s \in Nat /\ r * s \in Nat /\ (r + 1) * s \in Nat
  BY <1>1, <1>2
<1>4. x * s < (r + 1) * s /\ r * s < y * s
  BY <1>2, <1>3
<1>5. x < r + 1 /\ r < y
  BY <1>2, <1>4, ProductOrder
<1>6. x <= r /\ r + 1 <= y
  BY <1>2, <1>5
<1> QED
  BY <1>2, <1>6, ProductOrder

(* A block is an aligned interval of the addresses of its family.          *)
LEMMA CidrFacts ==
  ASSUME NEW b \in Cidr
  PROVE  /\ b.fam \in {4, 6} /\ b.addr \in Nat
         /\ SetBits[b.fam] - b.bits \in Nat
         /\ SizeOf(b.fam, b.bits) \in Nat /\ SizeOf(b.fam, b.bits) >= 1
         /\ \E q \in Nat : b.addr = q * SizeOf(b.fam, b.bits)
         /\ \A a : a \in Addrs(b) =>
              /\ a.n \in Nat /\ b.addr <= a.n /\ a.n < b.addr + SizeOf(b.fam, b.bits)
              /\ a = [fam |-> b.fam, n |-> a.n]
         /\ \A m \in Nat : b.addr <= m /\ m < b.addr + SizeOf(b.fam, b.bits)
              => [fam |-> b.fam, n |-> m] \in Addrs(b)
<1> DEFINE size == SizeOf(b.fam, b.bits)
<1>1. SetBits[4] \in Nat /\ SetBits[6] \in Nat
  BY SetBitsAssumption
<1>2. /\ b.fam \in {4, 6} /\ b.bits \in 0 .. MaxLen /\ b.bits <= SetBits[b.fam]
      /\ b.addr \in 0 .. 2 ^ MaxLen - 1 /\ b.addr % size = 0
  BY DEF Cidr, Fams
<1>3. SetBits[b.fam] - b.bits \in Nat
  BY <1>1, <1>2 DEF MaxLen
<1>4. size \in Nat /\ size >= 1
  BY <1>3, PowerType DEF SizeOf
<1>5. b.addr \in Nat
  <2>1. 2 ^ MaxLen \in Nat
    BY <1>1, PowerType DEF MaxLen
  <2> QED
    BY <1>2, <2>1
<1> HIDE DEF size
<1>6. \E q \in Nat : b.addr = q * size
  <2>1. \A x, s \in Nat : s >= 1 /\ x % s = 0 => x = (x \div s) * s /\ x \div s \in Nat
    OBVIOUS
  <2> QED
    BY <1>2, <1>4, <1>5, <2>1
<1>7. Addrs(b) = {[fam |-> b.fam, n |-> m] : m \in b.addr .. b.addr + size - 1}
  BY DEF Addrs, size
<1>8. ASSUME NEW a \in Addrs(b)
      PROVE  /\ a.n \in Nat /\ b.addr <= a.n /\ a.n < b.addr + size
             /\ a = [fam |-> b.fam, n |-> a.n]
  <2>1. PICK m \in b.addr .. b.addr + size - 1 : a = [fam |-> b.fam, n |-> m]
    BY <1>7
  <2> QED
    BY <1>4, <1>5, <2>1
<1>9. ASSUME NEW m \in Nat, b.addr <= m, m < b.addr + size
      PROVE  [fam |-> b.fam, n |-> m] \in Addrs(b)
  <2>1. m \in b.addr .. b.addr + size - 1
    BY <1>4, <1>5, <1>9
  <2> QED
    BY <1>7, <2>1
<1> QED
  BY <1>2, <1>3, <1>4, <1>5, <1>6, <1>8, <1>9 DEF size

(* One interval is inside another when its ends are.                       *)
LEMMA EndsDecide ==
  ASSUME NEW b \in Cidr, NEW r \in Cidr,
         CIDRFirstIP(b) \in Addrs(r), CIDRLastIP(b) \in Addrs(r)
  PROVE  Addrs(b) \subseteq Addrs(r)
<1> DEFINE sb == SizeOf(b.fam, b.bits)
           sr == SizeOf(r.fam, r.bits)
           last == b.addr + sb - 1
<1>1. b.addr \in Nat /\ r.addr \in Nat /\ sb \in Nat /\ sb >= 1 /\ sr \in Nat /\ sr >= 1
  BY CidrFacts
<1>2. CIDRFirstIP(b) = [fam |-> b.fam, n |-> b.addr] /\ CIDRLastIP(b) = [fam |-> b.fam, n |-> last]
  BY DEF CIDRFirstIP, CIDRLastIP
<1> HIDE DEF sb, sr, last
<1>3. /\ CIDRFirstIP(b).n = b.addr /\ CIDRFirstIP(b).fam = b.fam
      /\ CIDRLastIP(b).n = last
  BY <1>2
<1>4. r.addr <= b.addr /\ last < r.addr + sr /\ b.fam = r.fam
  <2>1. \A a : a \in Addrs(r) => /\ r.addr <= a.n /\ a.n < r.addr + sr
                                 /\ a = [fam |-> r.fam, n |-> a.n]
    BY CidrFacts DEF sr
  <2>2. \A a : a \in Addrs(r) => a.fam = r.fam
    BY <2>1
  <2> QED
    BY <1>3, <2>1, <2>2
<1>5. ASSUME NEW a \in Addrs(b)
      PROVE  a \in Addrs(r)
  <2>1. a.n \in Nat /\ b.addr <= a.n /\ a.n < b.addr + sb /\ a = [fam |-> b.fam, n |-> a.n]
    BY CidrFacts DEF sb
  <2>2. r.addr <= a.n /\ a.n < r.addr + sr
    BY <1>1, <1>4, <2>1 DEF last
  <2>3. [fam |-> r.fam, n |-> a.n] \in Addrs(r)
    BY <2>1, <2>2, CidrFacts DEF sr
  <2> QED
    BY <1>4, <2>1, <2>3
<1> QED
  BY <1>5

(* The ends of a block are addresses of it.                                *)
LEMMA EndsInside ==
  ASSUME NEW b \in Cidr
  PROVE  CIDRFirstIP(b) \in Addrs(b) /\ CIDRLastIP(b) \in Addrs(b)
<1> DEFINE s == SizeOf(b.fam, b.bits)
           last == b.addr + s - 1
<1>1. b.addr \in Nat /\ s \in Nat /\ s >= 1
  BY CidrFacts
<1>2. CIDRFirstIP(b) = [fam |-> b.fam, n |-> b.addr] /\ CIDRLastIP(b) = [fam |-> b.fam, n |-> last]
  BY DEF CIDRFirstIP, CIDRLastIP
<1>3. \A m \in Nat : b.addr <= m /\ m < b.addr + s => [fam |-> b.fam, n |-> m] \in Addrs(b)
  BY CidrFacts
<1> HIDE DEF s
<1>4. last \in Nat /\ b.addr <= last /\ last < b.addr + s /\ b.addr < b.addr + s
  BY <1>1
<1> HIDE DEF last
<1> QED
  BY <1>1, <1>2, <1>3, <1>4

(* Two blocks that meet are nested, the one with more bits in the other.   *)
LEMMA MeetingBlocksNest ==
  ASSUME NEW b \in Cidr, NEW c \in Cidr, Addrs(b) \cap Addrs(c) # {}, b.bits <= c.bits
  PROVE  Addrs(c) \subseteq Addrs(b)
<1> DEFINE sb == SizeOf(b.fam, b.bits)
           sc == SizeOf(c.fam, c.bits)
           k == 2 ^ (c.bits - b.bits)
<1>1. PICK a : a \in Addrs(b) /\ a \in Addrs(c)
  OBVIOUS
<1> DEFINE m == a.n
<1>2. /\ m \in Nat /\ b.addr <= m /\ m < b.addr + sb /\ a = [fam |-> b.fam, n |-> m]
      /\ c.addr <= m /\ m < c.addr + sc /\ a = [fam |-> c.fam, n |-> m]
  BY <1>1, CidrFacts
<1>3. b.fam = c.fam
  <2>1. a.fam = b.fam /\ a.fam = c.fam
    BY <1>2
  <2> QED
    BY <2>1
<1>4. /\ b.addr \in Nat /\ c.addr \in Nat /\ sb \in Nat /\ sc \in Nat /\ sc >= 1
      /\ SetBits[b.fam] - b.bits \in Nat /\ SetBits[c.fam] - c.bits \in Nat
      /\ c.bits \in Nat /\ b.bits \in Nat
  <2>1. b.bits \in 0 .. MaxLen /\ c.bits \in 0 .. MaxLen /\ MaxLen \in Nat
    BY SetBitsAssumption DEF Cidr, MaxLen
  <2> QED
    BY <2>1, CidrFacts
<1>5. k \in Nat /\ sb = k * sc
  <2> DEFINE w == SetBits[c.fam]
  <2>1. w \in Nat /\ w - c.bits \in Nat /\ w - b.bits \in Nat
    BY <1>3, <1>4, CidrFacts, SetBitsAssumption
  <2> HIDE DEF w
  <2>2. c.bits - b.bits \in Nat /\ w - b.bits = (c.bits - b.bits) + (w - c.bits)
    BY <1>4, <2>1
  <2>3. 2 ^ ((c.bits - b.bits) + (w - c.bits)) = 2 ^ (c.bits - b.bits) * 2 ^ (w - c.bits)
    BY <2>1, <2>2, PowerSum
  <2>4. sb = 2 ^ (w - b.bits) /\ sc = 2 ^ (w - c.bits)
    BY <1>3 DEF SizeOf, w
  <2> QED
    BY <2>2, <2>3, <2>4, PowerType
<1>6. PICK q \in Nat : b.addr = q * sb
  BY CidrFacts
<1>7. PICK r \in Nat : c.addr = r * sc
  BY CidrFacts
<1> HIDE DEF sb, sc, k, m
<1>8. b.addr + sb = (q + 1) * sb /\ c.addr + sc = (r + 1) * sc
  <2>1. \A x, s \in Nat : x * s + s = (x + 1) * s
    OBVIOUS
  <2> QED
    BY <1>4, <1>6, <1>7, <2>1
<1>9. b.addr <= c.addr /\ c.addr + sc <= b.addr + sb
  <2>1. q * (k * sc) <= m /\ m < (q + 1) * (k * sc) /\ r * sc <= m /\ m < (r + 1) * sc
    BY <1>2, <1>5, <1>6, <1>7, <1>8
  <2>2. q * (k * sc) <= r * sc /\ (r + 1) * sc <= (q + 1) * (k * sc)
    BY <1>2, <1>4, <1>5, <2>1, AlignedBlocksNest
  <2> QED
    BY <1>5, <1>6, <1>7, <1>8, <2>2
<1>10. ASSUME NEW d \in Addrs(c)
       PROVE  d \in Addrs(b)
  <2>1. d.n \in Nat /\ c.addr <= d.n /\ d.n < c.addr + sc /\ d = [fam |-> c.fam, n |-> d.n]
    BY CidrFacts DEF sc
  <2>2. b.addr <= d.n /\ d.n < b.addr + sb
    BY <1>4, <1>9, <2>1
  <2>3. [fam |-> b.fam, n |-> d.n] \in Addrs(b)
    BY <2>1, <2>2, CidrFacts DEF sb
  <2> QED
    BY <1>3, <2>1, <2>3
<1> QED
  BY <1>10

(* Two texts overlap exactly when one of them holds the other's addresses, *)
(* and a text that is no CIDR has none.                                    *)
LEMMA OverlapIsNesting ==
  ASSUME NEW b \in Cidr \cup {Invalid}, NEW c \in Cidr \cup {Invalid}
  PROVE  CIDROverlaps(b, c) <=> \/ CIDRContains(b, c) /\ Addrs(c) # {}
                                \/ CIDRContains(c, b) /\ Addrs(b) # {}
<1>1. Addrs(Invalid) = {}
  BY NotCidr DEF Addrs
<1>2. CIDROverlaps(b, c) => \/ CIDRContains(b, c) /\ Addrs(c) # {}
                            \/ CIDRContains(c, b) /\ Addrs(b) # {}
  <2> SUFFICES ASSUME Addrs(b) \cap Addrs(c) # {}
               PROVE  Addrs(c) \subseteq Addrs(b) \/ Addrs(b) \subseteq Addrs(c)
    BY DEF CIDROverlaps, CIDRContains
  <2>1. b \in Cidr /\ c \in Cidr
    BY <1>1
  <2>2. b.bits \in Int /\ c.bits \in Int
    BY <2>1 DEF Cidr
  <2>3. b.bits <= c.bits \/ c.bits <= b.bits
    BY <2>2
  <2> QED
    BY <2>1, <2>3, MeetingBlocksNest
<1> QED
  BY <1>2 DEF CIDROverlaps, CIDRContains

(* Blocks that are apart are found disjoint, up to the first text that is  *)
(* no CIDR.                                                                *)
LEMMA DisjointListAnswers ==
  ASSUME NEW us \in Seq(Cidr \cup {Invalid}),
         \A i, j \in DOMAIN us : i # j => Disjoint(us[i], us[j])
  PROVE  CIDRsAreDisjoint(us) = IF Invalid \in Items(us) THEN "error" ELSE "true"
<1> DEFINE stops == {i \in DOMAIN us : us[i] = Invalid \/ Overlapping(us, i)}
<1>1. DOMAIN us = 1 .. Len(us) /\ Len(us) \in Nat
  OBVIOUS
<1>2. ASSUME NEW i \in DOMAIN us
      PROVE  ~Overlapping(us, i)
  <2> SUFFICES ASSUME NEW j \in 1 .. i - 1, NEW a, a \in Addrs(us[j]), a \in Addrs(us[i])
               PROVE  FALSE
    BY Zenon DEF Overlapping, BuildSet
  <2>1. j \in DOMAIN us /\ j # i
    BY <1>1
  <2> QED
    BY <2>1 DEF Disjoint
<1>3. stops = {i \in DOMAIN us : us[i] = Invalid}
  BY <1>2
<1>4. CIDRsAreDisjoint(us) = CASE stops = {} -> "true"
                               [] stops # {} /\ us[FirstOf(stops)] = Invalid -> "error"
                               [] OTHER -> "false"
  BY DEF CIDRsAreDisjoint
<1> HIDE DEF stops
<1>5. CASE Invalid \in Items(us)
  <2>1. stops # {}
    BY <1>3, <1>5 DEF Items
  <2>2. stops \subseteq Nat
    BY <1>1, <1>3
  <2>3. \E i \in stops : \A j \in stops : i <= j
    BY <2>1, <2>2, FirstPosition
  <2>4. FirstOf(stops) \in stops
    BY <2>3 DEF FirstOf
  <2> QED
    BY <1>3, <1>4, <1>5, <2>1, <2>4
<1>6. CASE Invalid \notin Items(us)
  <2>1. stops = {}
    BY <1>3, <1>6 DEF Items
  <2> QED
    BY <1>4, <1>6, <2>1
<1> QED
  BY <1>5, <1>6

(* The pool is always a list of CIDRs.                                     *)
PoolParses == pool \subseteq Cidr

LEMMA PoolStaysParsed ==
  ASSUME PoolParses, [SetNext]_setVars
  PROVE  PoolParses'
<1>1. \A S : Prefixes(S) \subseteq Cidr
  BY DEF Prefixes
<1>2. CASE Merge \/ Retire
  BY <1>1, <1>2 DEF Merge, Retire, MergeCIDRs, SubtractCIDRs, PoolParses
<1>3. ASSUME NEW b, Narrow(b)
      PROVE  PoolParses'
  BY <1>1, <1>3 DEF Narrow, IntersectCIDRs, PoolParses
<1>4. ASSUME NEW version, OnlyVersion(version)
      PROVE  PoolParses'
  BY <1>4 DEF OnlyVersion, FilterCIDRsByVersion, PoolParses
<1>5. CASE UNCHANGED pool
  BY <1>5 DEF PoolParses
<1> QED
  BY <1>2, <1>3, <1>4, <1>5 DEF SetNext, setVars, Allocate, Release

LEMMA QueriesFollow ==
  ASSUME SetInv, PoolParses
  PROVE  QueriesConfirm
<1>1. /\ used \in Seq(Cidr \cup {Invalid}) /\ retired \in Seq(Cidr)
      /\ Invalid \notin Cidr /\ NullElement \notin Cidr
  BY NotCidr DEF SetInv, SetTypes
<1>2. CIDRsAreDisjoint(used) = IF Invalid \in Items(used) THEN "error" ELSE "true"
  BY <1>1, DisjointListAnswers DEF SetInv, UsedApart
<1>3. \A i \in DOMAIN retired : retired[i] \in Cidr /\ BuildSet(pool) \cap Addrs(retired[i]) = {}
  BY <1>1 DEF SetInv, PoolFree
<1>4. CIDRsOverlapAny(pool, retired) = "false"
  <2>1. Parses(pool)
    BY <1>1 DEF Parses, CidrListArg, PoolParses
  <2>2. {i \in DOMAIN retired : retired[i] = Invalid
                                \/ BuildSet(pool) \cap Addrs(retired[i]) # {}} = {}
    BY <1>1, <1>3
  <2> QED
    BY <2>1, <2>2 DEF CIDRsOverlapAny
<1>5. ASSUME NEW b \in Items(retired)
      PROVE  CIDRsContainingIP(CIDRFirstIP(b), pool) \cup CIDRsContainingIP(CIDRLastIP(b), pool) = {}
  <2>1. b \in Cidr /\ BuildSet(pool) \cap Addrs(b) = {}
    BY <1>3 DEF Items
  <2>2. CIDRFirstIP(b) \in Addrs(b) /\ CIDRLastIP(b) \in Addrs(b)
    BY <2>1, EndsInside
  <2>3. \A a \in Addrs(b) : \A c \in pool : a \notin Addrs(c)
    BY <2>1, Zenon DEF BuildSet
  <2> QED
    BY <2>2, <2>3 DEF CIDRsContainingIP, IPInCIDR
<1>6. ASSUME NEW b \in pool \cup Items(Given), NEW c \in pool \cup Items(Given)
      PROVE  CIDROverlaps(b, c) <=> \/ CIDRContains(b, c) /\ Addrs(c) # {}
                                    \/ CIDRContains(c, b) /\ Addrs(b) # {}
  <2>1. Given \in Seq(Cidr \cup {Invalid})
    <3>1. retired \in Seq(Cidr \cup {Invalid})
      BY <1>1
    <3> QED
      BY <1>1, <3>1 DEF Given
  <2>2. Items(Given) \subseteq Cidr \cup {Invalid}
    BY <2>1 DEF Items
  <2> QED
    BY <2>2, OverlapIsNesting DEF PoolParses
<1>7. ASSUME NEW b \in pool, CIDRIsPrivate(b), NEW a \in Addrs(b)
      PROVE  IPIsPrivate(a)
  <2>1. PICK r \in Private : CIDRFirstIP(b) \in Addrs(r) /\ CIDRLastIP(b) \in Addrs(r)
    BY <1>7 DEF CIDRIsPrivate, IPInCIDR
  <2>2. r \in Cidr /\ b \in Cidr
    BY <2>1 DEF Addrs, PoolParses
  <2>3. a \in Addrs(r)
    BY <2>1, <2>2, EndsDecide
  <2> QED
    BY <2>1, <2>3 DEF IPIsPrivate, IPInCIDR
<1> QED
  BY <1>2, <1>4, <1>5, <1>6, <1>7 DEF QueriesConfirm

(* Through every sequence of calls the questions about the lists answer as *)
(* the sets of addresses do: the used list is disjoint, the pool is clear  *)
(* of what was taken out of it, blocks overlap only by nesting, and the    *)
(* two ends of a block decide whether it is private.                       *)
THEOREM QueriesAreRight == SetSpec => []QueriesConfirm
<1>1. SetInit => SetInv /\ PoolParses
  <2>1. ASSUME SetInit
        PROVE  PoolParses
    BY <2>1 DEF SetInit, RangeToCIDRs, Prefixes, PoolParses
  <2> QED
    BY <2>1, InitEstablishes
<1>2. (SetInv /\ PoolParses) /\ [SetNext]_setVars => (SetInv /\ PoolParses)'
  BY StepPreserves, PoolStaysParsed
<1>3. SetInv /\ PoolParses => QueriesConfirm
  BY QueriesFollow
<1> QED
  BY <1>1, <1>2, <1>3, PTL DEF SetSpec

-----------------------------------------------------------------------------
(* cidr_enumerate, cidr_expand and the counts                              *)

(* The constants, as numbers.                                              *)
LEMMA BlockFacts ==
  /\ IntBits \in Nat /\ LimitBits \in Nat /\ LimitBits >= 1 /\ LimitBits + 2 <= IntBits
  /\ MaxInt \in Nat /\ Limit \in Nat /\ Limit >= 2 /\ MaxInt > Limit
  /\ \A fam \in {4, 6} : Width[fam] \in Nat /\ Width[fam] + LimitBits <= MaxInt
<1>1. /\ IntBits \in Nat /\ LimitBits \in Nat /\ LimitBits >= 1 /\ LimitBits + 2 <= IntBits
      /\ \A fam \in {4, 6} : Width[fam] \in 1 .. 2 ^ (IntBits - 1) - 1 - LimitBits
  BY WidthAssumption
<1>2. 2 ^ LimitBits \in Nat /\ 2 ^ LimitBits >= 2
  <2>1. 2 ^ 0 = 1 /\ 0 < LimitBits /\ 0 \in Nat
    BY <1>1
  <2>2. 2 * 2 ^ 0 <= 2 ^ LimitBits
    BY <1>1, <2>1, PowerOrder
  <2> QED
    BY <1>1, <2>1, <2>2, PowerType
<1>3. 2 * 2 ^ LimitBits <= 2 ^ (IntBits - 1) /\ 2 ^ (IntBits - 1) \in Nat
  <2>1. IntBits - 1 \in Nat /\ LimitBits < IntBits - 1
    BY <1>1
  <2> QED
    BY <1>1, <2>1, PowerOrder, PowerType
<1>4. \A a, b \in Nat : a >= 2 /\ 2 * a <= b => b - 1 \in Nat /\ b - 1 > a
  OBVIOUS
<1>5. MaxInt \in Nat /\ MaxInt > 2 ^ LimitBits
  BY <1>2, <1>3, <1>4 DEF MaxInt
<1>6. MaxInt = 2 ^ (IntBits - 1) - 1
  BY DEF MaxInt
<1>7. ASSUME NEW fam \in {4, 6}
      PROVE  Width[fam] \in Nat /\ Width[fam] + LimitBits <= MaxInt
  <2>1. Width[fam] \in 1 .. MaxInt - LimitBits
    BY <1>1, <1>6
  <2> QED
    BY <1>1, <1>5, <2>1
<1> QED
  BY <1>1, <1>2, <1>5, <1>7 DEF Limit

(* What is shifted by is less than an int's bits where the result is       *)
(* within the limit and positive.                                          *)
LEMMA ShiftFacts ==
  ASSUME NEW n \in Nat
  PROVE  /\ Shift(n) \in Int
         /\ n <= LimitBits <=> 0 < Shift(n) /\ Shift(n) <= Limit
         /\ n <= IntBits - 2 => Shift(n) = 2 ^ n
<1>1. IntBits \in Nat /\ LimitBits \in Nat /\ LimitBits + 2 <= IntBits /\ MaxInt \in Nat
  BY BlockFacts
<1>2. 2 ^ n \in Nat /\ 2 ^ n >= 1
  BY PowerType
<1>3. 2 ^ n <= 2 ^ LimitBits <=> n <= LimitBits
  BY <1>1, PowerOrder
<1>4. CASE n < IntBits - 1
  <2>1. Shift(n) = 2 ^ n
    BY <1>4 DEF Shift
  <2> QED
    BY <1>1, <1>2, <1>3, <1>4, <2>1 DEF Limit
<1>5. CASE n = IntBits - 1
  <2>1. Shift(n) = -MaxInt - 1
    BY <1>5 DEF Shift
  <2> QED
    BY <1>1, <1>5, <2>1
<1>6. CASE n > IntBits - 1
  <2>1. Shift(n) = 0
    BY <1>1, <1>6 DEF Shift
  <2> QED
    BY <1>1, <1>6, <2>1
<1> QED
  BY <1>1, <1>4, <1>5, <1>6

(* Clearing the host bits leaves a multiple of the block's size, and the   *)
(* block ends within the address space.                                    *)
LEMMA MaskedFacts ==
  ASSUME NEW fam \in {4, 6}, NEW plen \in 0 .. Width[fam], NEW addr \in 0 .. 2 ^ Width[fam] - 1
  PROVE  \E k \in Nat : /\ Masked(fam, addr, plen).addr = k * 2 ^ (Width[fam] - plen)
                        /\ (k + 1) * 2 ^ (Width[fam] - plen) <= 2 ^ Width[fam]
<1> DEFINE q == 2 ^ (Width[fam] - plen)
           b == 2 ^ plen
           k == addr \div q
<1>1. /\ Width[fam] \in Nat /\ plen \in Nat /\ Width[fam] - plen \in Nat
      /\ plen + (Width[fam] - plen) = Width[fam]
  BY BlockFacts
<1>2. 2 ^ Width[fam] = b * q
  BY <1>1, PowerSum
<1>3. q \in Nat /\ q >= 1 /\ b \in Nat
  BY <1>1, PowerType
<1>4. addr \in Nat /\ addr < b * q
  BY <1>2, <1>3
<1>5. Masked(fam, addr, plen).addr = addr - (addr % q)
  BY DEF Masked
<1> HIDE DEF q, b
<1>6. k \in Nat /\ addr = k * q + (addr % q) /\ addr % q \in 0 .. q - 1
  BY <1>3, <1>4
<1>7. k * q \in Nat /\ addr - (addr % q) = k * q
  BY <1>3, <1>6
<1>8. k < b
  <2>1. SUFFICES ASSUME k >= b
                 PROVE  FALSE
    BY <1>3, <1>6
  <2>2. k * q >= b * q
    BY <1>3, <1>6, <2>1
  <2> QED
    BY <1>3, <1>4, <1>6, <1>7, <2>2
<1>9. (k + 1) * q <= b * q
  BY <1>3, <1>6, <1>8
<1> QED
  BY <1>2, <1>5, <1>6, <1>7, <1>9 DEF q

-----------------------------------------------------------------------------

(* The size of what is listed, once nothing is refused.                    *)
PieceBits == IF op = "enumerate" THEN Width[p.fam] - NewPrefixLen ELSE 0
Piece == 2 ^ PieceBits

(* The i-th element of the list.                                           *)
Element(i) == [fam |-> p.fam, addr |-> p.addr + (i - 1) * Piece,
               bits |-> Width[p.fam] - PieceBits]

BlockTypes ==
  /\ op \in {"enumerate", "expand"}
  /\ p.fam \in {4, 6} /\ p.bits \in 0 .. Width[p.fam]
  /\ \E k \in Nat : /\ p.addr = k * 2 ^ HostBits(p)
                    /\ (k + 1) * 2 ^ HostBits(p) <= 2 ^ Width[p.fam]
  /\ newbits \in IntRange

Refuses == IF op = "enumerate" THEN EnumerateRefuses ELSE ExpandRefuses

(* The list so far is the first elements, one after another.               *)
Listing ==
  /\ ~Refuses /\ Count >= 0
  /\ list \in Seq([fam : {4, 6}, addr : Nat, bits : Nat]) /\ Len(list) <= Count
  /\ \A i \in DOMAIN list : list[i] = Element(i)

BlockInv ==
  /\ BlockTypes
  /\ pc \in {"check", "loop", "done"}
  /\ pc = "check" => list = <<>> /\ pos = p.addr /\ outcome = "none"
  /\ pc = "loop" => Listing /\ pos = p.addr + Len(list) * Piece /\ outcome = "none"
  /\ pc = "done" => \/ outcome = "error" /\ Refuses
                    \/ outcome = "panic" /\ ~Refuses /\ Count < 0
                    \/ outcome = "list" /\ Listing /\ Len(list) = Count

(* A multiple leaves no rest.                                              *)
LEMMA MultiplesAreAligned ==
  ASSUME NEW m \in Nat, NEW s \in Nat, s >= 1
  PROVE  (m * s) % s = 0
<1> DEFINE x == m * s
           r == x % s
           q == x \div s
<1>1. x \in Nat
  OBVIOUS
<1>2. r \in 0 .. s - 1 /\ q \in Int /\ x = s * q + r
  BY <1>1
<1> HIDE DEF r, q
<1>3. s * (m - q) = r
  BY <1>2
<1>4. CASE m - q >= 1
  BY <1>2, <1>3, <1>4
<1>5. CASE m - q <= -1
  BY <1>2, <1>3, <1>5
<1>6. CASE m - q = 0
  BY <1>2, <1>3, <1>6 DEF r
<1> QED
  BY <1>2, <1>4, <1>5, <1>6

(* The numbers at hand.                                                    *)
LEMMA BlockNumbers ==
  ASSUME BlockTypes
  PROVE  /\ Width[p.fam] \in Nat /\ HostBits(p) \in Nat /\ p.bits \in Nat
         /\ HostBits(p) = Width[p.fam] - p.bits /\ newbits \in Int
         /\ 2 ^ HostBits(p) \in Nat /\ 2 ^ HostBits(p) >= 1
         /\ p.addr \in Nat /\ p.addr + 2 ^ HostBits(p) <= 2 ^ Width[p.fam]
         /\ p.addr % 2 ^ HostBits(p) = 0
<1>1. Width[p.fam] \in Nat /\ HostBits(p) \in Nat /\ p.bits \in Nat
      /\ HostBits(p) = Width[p.fam] - p.bits /\ newbits \in Int
  BY BlockFacts DEF BlockTypes, HostBits, IntRange
<1>2. 2 ^ HostBits(p) \in Nat /\ 2 ^ HostBits(p) >= 1
  BY <1>1, PowerType
<1>3. PICK k \in Nat : /\ p.addr = k * 2 ^ HostBits(p)
                       /\ (k + 1) * 2 ^ HostBits(p) <= 2 ^ Width[p.fam]
  BY DEF BlockTypes
<1>4. p.addr \in Nat /\ (k + 1) * 2 ^ HostBits(p) = p.addr + 2 ^ HostBits(p)
  BY <1>2, <1>3
<1>5. p.addr % 2 ^ HostBits(p) = 0
  BY <1>2, <1>3, MultiplesAreAligned
<1> QED
  BY <1>1, <1>2, <1>3, <1>4, <1>5

(* Whatever is not refused and does not panic is cut into equal pieces,    *)
(* which are the block together.                                           *)
LEMMA PieceFacts ==
  ASSUME BlockTypes, ~Refuses, Count >= 0
  PROVE  /\ Count \in Nat /\ PieceBits \in Nat /\ Piece \in Nat /\ Piece >= 1
         /\ Count > 0 =>
              /\ PieceBits <= Width[p.fam] /\ Count * Piece = 2 ^ HostBits(p)
              /\ op = "enumerate" =>
                   newbits \in 1 .. LimitBits /\ Count = 2 ^ newbits
                     /\ NewPrefixLen = p.bits + newbits
              /\ op = "expand" => Count = 2 ^ HostBits(p)
<1>1. Width[p.fam] \in Nat /\ HostBits(p) \in Nat /\ p.bits \in Nat
      /\ HostBits(p) = Width[p.fam] - p.bits /\ newbits \in Int
  BY BlockNumbers
<1>2. /\ IntBits \in Nat /\ LimitBits \in Nat /\ LimitBits + 2 <= IntBits
      /\ MaxInt \in Nat /\ Width[p.fam] + LimitBits <= MaxInt
  BY BlockFacts DEF BlockTypes
<1>3. op \in {"enumerate", "expand"}
  BY DEF BlockTypes
<1>4. CASE op = "enumerate"
  <2>0. ~(newbits <= 0) /\ ~(NewPrefixLen > Width[p.fam]) /\ ~(Count > Limit)
    BY <1>4 DEF Refuses, EnumerateRefuses
  <2>1. newbits \in Nat /\ newbits >= 1
    BY <1>1, <2>0
  <2>2. Count = Shift(newbits)
    BY <1>4 DEF Count
  <2>3. Count \in Nat /\ (Count > 0 => newbits <= LimitBits)
    BY <1>3, <2>0, <2>1, <2>2, ShiftFacts, BlockFacts
  <2>4. NewPrefixLen \in Int /\ (p.bits + newbits <= MaxInt => NewPrefixLen = p.bits + newbits)
    BY <1>1, <1>2 DEF NewPrefixLen, WrapInt
  <2>5. PieceBits \in Nat /\ PieceBits = Width[p.fam] - NewPrefixLen
    BY <1>1, <1>4, <2>0, <2>4 DEF PieceBits
  <2>6. Piece \in Nat /\ Piece >= 1
    BY <2>5, PowerType DEF Piece
  <2>7. ASSUME Count > 0
        PROVE  /\ newbits \in 1 .. LimitBits /\ Count = 2 ^ newbits
               /\ NewPrefixLen = p.bits + newbits
               /\ PieceBits <= Width[p.fam] /\ Count * Piece = 2 ^ HostBits(p)
    <3>1. newbits \in 1 .. LimitBits
      BY <1>2, <2>1, <2>3, <2>7
    <3>2. newbits <= IntBits - 2 /\ Count = 2 ^ newbits
      BY <1>2, <2>1, <2>2, <3>1, ShiftFacts
    <3>3. NewPrefixLen = p.bits + newbits
      <4>1. p.bits <= Width[p.fam]
        BY <1>1
      <4> QED
        BY <1>1, <1>2, <2>4, <3>1, <4>1
    <3>4. newbits + PieceBits = HostBits(p) /\ PieceBits <= Width[p.fam]
      BY <1>1, <2>1, <2>5, <3>3
    <3>5. 2 ^ HostBits(p) = 2 ^ newbits * 2 ^ PieceBits
      BY <2>1, <2>5, <3>4, PowerSum
    <3> QED
      BY <3>1, <3>2, <3>3, <3>4, <3>5 DEF Piece
  <2> QED
    BY <1>4, <2>3, <2>5, <2>6, <2>7
<1>5. CASE op = "expand"
  <2>1. HostBits(p) <= LimitBits
    BY <1>1, <1>2, <1>5 DEF Refuses, ExpandRefuses
  <2>2. Count = 2 ^ HostBits(p)
    BY <1>1, <1>2, <1>5, <2>1, ShiftFacts DEF Count
  <2>3. 2 ^ HostBits(p) \in Nat
    BY <1>1, PowerType
  <2>4. PieceBits = 0 /\ Piece = 1
    <3>1. 2 ^ 0 = 1
      OBVIOUS
    <3> QED
      BY <1>5, <3>1 DEF PieceBits, Piece
  <2> QED
    BY <1>1, <1>5, <2>2, <2>3, <2>4
<1> QED
  BY <1>3, <1>4, <1>5

(* One more element.                                                       *)
LEMMA ListGrows ==
  ASSUME BlockTypes, Listing, Len(list) < Count, UNCHANGED <<op, p, newbits>>,
         list' = Append(list, Element(Len(list) + 1))
  PROVE  Listing' /\ Len(list') = Len(list) + 1
<1> DEFINE n == Len(list)
           Block == [fam : {4, 6}, addr : Nat, bits : Nat]
<1>1. ~Refuses /\ Count >= 0 /\ list \in Seq(Block)
  BY DEF Listing
<1>2. n \in Nat /\ n < Count /\ Count \in Nat /\ DOMAIN list = 1 .. n
      /\ PieceBits \in Nat /\ PieceBits <= Width[p.fam] /\ Piece \in Nat
  BY <1>1, PieceFacts
<1>3. p.fam \in {4, 6} /\ p.addr \in Nat /\ Width[p.fam] \in Nat
  BY BlockNumbers DEF BlockTypes
<1>4. Element(n + 1) \in Block
  <2>1. (n + 1 - 1) * Piece \in Nat
    BY <1>2
  <2>2. p.addr + (n + 1 - 1) * Piece \in Nat /\ Width[p.fam] - PieceBits \in Nat
    BY <1>2, <1>3, <2>1
  <2> QED
    BY <1>3, <2>2 DEF Element
<1>5. Refuses' = Refuses /\ Count' = Count /\ \A i : Element(i)' = Element(i)
  BY DEF Refuses, EnumerateRefuses, ExpandRefuses, Count, NewPrefixLen, HostBits,
         Element, Piece, PieceBits
<1> HIDE DEF Block
<1>6. /\ list' \in Seq(Block) /\ Len(list') = n + 1 /\ DOMAIN list' = 1 .. n + 1
      /\ list'[n + 1] = Element(n + 1) /\ \A i \in 1 .. n : list'[i] = list[i]
  BY <1>1, <1>2, <1>4
<1>7. \A i \in DOMAIN list' : list'[i] = Element(i)
  <2> SUFFICES ASSUME NEW i \in 1 .. n + 1
               PROVE  list'[i] = Element(i)
    BY <1>6
  <2>1. CASE i = n + 1
    BY <1>6, <2>1
  <2>2. CASE i # n + 1
    <3>1. i \in 1 .. n
      BY <1>2, <2>2
    <3> QED
      BY <1>2, <1>6, <3>1 DEF Listing
  <2> QED
    BY <2>1, <2>2
<1> QED
  BY <1>1, <1>2, <1>5, <1>6, <1>7 DEF Listing, Block

(* The loop of cidr_enumerate adds the next piece, and ends early only     *)
(* where the block ends.                                                   *)
LEMMA EnumerateKeeps ==
  ASSUME BlockInv, EnumerateStep
  PROVE  BlockInv'
<1> DEFINE n == Len(list)
           subnet == Masked(p.fam, pos, NewPrefixLen)
           next == LastIP(subnet) + 1
<1>1. /\ pc = "loop" /\ op = "enumerate" /\ n < Count
      /\ list' = Append(list, subnet)
      /\ IF IsValid(p.fam, next) THEN pos' = next /\ UNCHANGED <<pc, outcome>>
                                 ELSE Done("list") /\ UNCHANGED pos
      /\ UNCHANGED <<op, p, newbits>>
  BY DEF EnumerateStep
<1>2. BlockTypes /\ Listing /\ pos = p.addr + n * Piece /\ outcome = "none"
  BY <1>1 DEF BlockInv
<1>3. ~Refuses /\ Count >= 0 /\ n \in Nat
  BY <1>2 DEF Listing
<1>4. /\ Count \in Nat /\ Count > 0 /\ PieceBits \in Nat /\ Piece \in Nat /\ Piece >= 1
      /\ PieceBits <= Width[p.fam] /\ Count * Piece = 2 ^ HostBits(p)
      /\ newbits \in 1 .. LimitBits /\ NewPrefixLen = p.bits + newbits
  BY <1>1, <1>2, <1>3, PieceFacts
<1>5. PICK k \in Nat : /\ p.addr = k * 2 ^ HostBits(p)
                       /\ (k + 1) * 2 ^ HostBits(p) <= 2 ^ Width[p.fam]
  BY <1>2 DEF BlockTypes
<1>6. /\ p.addr \in Nat /\ Width[p.fam] \in Nat /\ p.bits \in Nat
      /\ p.addr + Count * Piece <= 2 ^ Width[p.fam]
  BY <1>2, <1>4, BlockNumbers
<1>7. PieceBits = Width[p.fam] - NewPrefixLen /\ NewPrefixLen \in Nat
  BY <1>1, <1>4, <1>6, SMTT(20) DEF PieceBits
<1>8. pos = (k * Count + n) * Piece
  <2>1. \A a, b, c, d \in Nat : a * (b * c) + d * c = (a * b + d) * c
    OBVIOUS
  <2> QED
    BY <1>2, <1>3, <1>4, <1>5, <2>1
<1>9. pos % Piece = 0
  <2>1. k * Count + n \in Nat
    BY <1>3, <1>4
  <2> QED
    BY <1>4, <1>8, <2>1, MultiplesAreAligned
<1>10. pos \in Nat
  BY <1>2, <1>3, <1>4, <1>6, SMTT(20)
<1>11. subnet = [fam |-> p.fam, addr |-> pos, bits |-> NewPrefixLen]
  <2>1. Piece = 2 ^ (Width[p.fam] - NewPrefixLen)
    BY <1>7 DEF Piece
  <2>2. pos - (pos % Piece) = pos
    BY <1>9, <1>10
  <2> QED
    BY <2>1, <2>2 DEF Masked
<1>12. subnet = Element(n + 1)
  <2>1. n + 1 - 1 = n /\ Width[p.fam] - PieceBits = NewPrefixLen
    BY <1>3, <1>6, <1>7
  <2> QED
    BY <1>2, <1>11, <2>1 DEF Element
<1>13. next = pos + Piece
  <2>1. HostBits(subnet) = PieceBits /\ subnet.addr = pos
    BY <1>7, <1>11 DEF HostBits
  <2>2. LastIP(subnet) = pos + Piece - 1
    BY <2>1 DEF LastIP, Piece
  <2> QED
    BY <1>4, <1>10, <2>2
<1> HIDE DEF subnet, next
<1>14. Listing' /\ Len(list') = n + 1
  BY <1>1, <1>2, <1>12, ListGrows
<1>15. BlockTypes' /\ Piece' = Piece /\ Count' = Count
  BY <1>1, <1>2 DEF BlockTypes, HostBits, Piece, PieceBits, NewPrefixLen, Count
<1>16. next = p.addr + (n + 1) * Piece
  <2>1. \A a, b, c \in Nat : (a + b * c) + c = a + (b + 1) * c
    OBVIOUS
  <2>2. p.addr \in Nat /\ n \in Nat /\ Piece \in Nat
    BY <1>3, <1>4, <1>6
  <2>3. (p.addr + n * Piece) + Piece = p.addr + (n + 1) * Piece
    BY <2>1, <2>2
  <2> QED
    BY <1>2, <1>13, <2>3
<1>17. CASE IsValid(p.fam, next)
  <2>1. pos' = next /\ UNCHANGED <<pc, outcome>>
    BY <1>1, <1>17
  <2>2. pos' = (p.addr + Len(list) * Piece)'
    BY <1>1, <1>14, <1>15, <1>16, <2>1
  <2> QED
    BY <1>1, <1>2, <1>14, <1>15, <2>1, <2>2 DEF BlockInv
<1>18. CASE ~IsValid(p.fam, next)
  <2>1. pc' = "done" /\ outcome' = "list"
    BY <1>1, <1>18 DEF Done
  <2>2. (n + 1) * Piece >= Count * Piece
    <3>1. ~(next < 2 ^ Width[p.fam]) /\ 2 ^ Width[p.fam] \in Nat
      BY <1>6, <1>18, PowerType DEF IsValid
    <3>2. (n + 1) * Piece \in Nat /\ Count * Piece \in Nat
      BY <1>3, <1>4
    <3> QED
      BY <1>6, <1>16, <3>1, <3>2
  <2>3. n + 1 >= Count
    <3> SUFFICES ASSUME n + 1 < Count
                 PROVE  FALSE
      BY <1>3, <1>4
    <3>1. \A a, b, c \in Nat : a < b /\ c >= 1 => a * c < b * c
      OBVIOUS
    <3>2. (n + 1) * Piece < Count * Piece
      BY <1>3, <1>4, <3>1
    <3>3. (n + 1) * Piece \in Nat /\ Count * Piece \in Nat
      BY <1>3, <1>4
    <3> QED
      BY <2>2, <3>2, <3>3
  <2>4. Len(list') = Count'
    BY <1>1, <1>3, <1>4, <1>14, <1>15, <2>3
  <2> QED
    BY <1>14, <1>15, <2>1, <2>4 DEF BlockInv
<1> QED
  BY <1>17, <1>18

(* The loop of cidr_expand adds the next address.                          *)
LEMMA ExpandKeeps ==
  ASSUME BlockInv, ExpandStep
  PROVE  BlockInv'
<1> DEFINE n == Len(list)
<1>1. /\ pc = "loop" /\ op = "expand" /\ n < Count
      /\ list' = Append(list, [fam |-> p.fam, addr |-> pos, bits |-> Width[p.fam]])
      /\ pos' = pos + 1
      /\ UNCHANGED <<op, p, newbits, pc, outcome>>
  BY DEF ExpandStep
<1>2. BlockTypes /\ Listing /\ pos = p.addr + n * Piece /\ outcome = "none"
  BY <1>1 DEF BlockInv
<1>3. n \in Nat
  BY <1>2 DEF Listing
<1>4. Piece = 1 /\ PieceBits = 0
  <2>1. 2 ^ 0 = 1
    OBVIOUS
  <2> QED
    BY <1>1, <2>1 DEF Piece, PieceBits
<1>5. p.addr \in Nat /\ Width[p.fam] \in Nat
  BY <1>2, BlockNumbers
<1>6. [fam |-> p.fam, addr |-> pos, bits |-> Width[p.fam]] = Element(n + 1)
  <2>1. n + 1 - 1 = n /\ Width[p.fam] - 0 = Width[p.fam]
    BY <1>3, <1>5
  <2> QED
    BY <1>2, <1>4, <2>1 DEF Element
<1>7. Listing' /\ Len(list') = n + 1
  BY <1>1, <1>2, <1>6, ListGrows
<1>8. BlockTypes' /\ Piece' = Piece
  BY <1>1, <1>2 DEF BlockTypes, HostBits, Piece, PieceBits
<1>9. pos' = (p.addr + Len(list) * Piece)'
  BY <1>1, <1>2, <1>3, <1>4, <1>5, <1>7, <1>8
<1> QED
  BY <1>1, <1>2, <1>7, <1>8, <1>9 DEF BlockInv

LEMMA CheckKeeps ==
  ASSUME BlockInv, Check
  PROVE  BlockInv'
<1>1. /\ pc = "check" /\ BlockTypes /\ list = <<>> /\ pos = p.addr /\ outcome = "none"
      /\ UNCHANGED <<op, p, newbits, list, pos>>
  BY DEF Check, BlockInv
<1>2. BlockTypes' /\ Refuses' = Refuses /\ Count' = Count /\ Piece' = Piece
  BY <1>1 DEF BlockTypes, Refuses, EnumerateRefuses, ExpandRefuses, Count, NewPrefixLen,
              HostBits, Piece, PieceBits
<1>i. ~Refuses => Count \in Int
  <2>1. newbits \in Int /\ HostBits(p) \in Nat
    BY <1>1, BlockNumbers
  <2>2. CASE op = "enumerate"
    <3>1. ~Refuses => newbits \in Nat
      BY <2>1, <2>2 DEF Refuses, EnumerateRefuses
    <3> QED
      BY <2>2, <3>1, ShiftFacts DEF Count
  <2>3. CASE op # "enumerate"
    BY <2>1, <2>3, ShiftFacts DEF Count
  <2> QED
    BY <2>2, <2>3
<1>c. (CASE Refuses -> Done("error")
        [] ~Refuses /\ Count < 0 -> Done("panic")
        [] ~Refuses /\ Count >= 0 -> pc' = "loop" /\ UNCHANGED outcome)
  BY DEF Check, Refuses
<1>3. CASE Refuses
  <2>1. pc' = "done" /\ outcome' = "error"
    BY <1>c, <1>3 DEF Done
  <2> QED
    BY <1>2, <1>3, <2>1 DEF BlockInv
<1>4. CASE ~Refuses /\ Count < 0
  <2>0. Count \in Int /\ Count < 0 /\ ~(Count >= 0)
    BY <1>i, <1>4
  <2>1. pc' = "done" /\ outcome' = "panic"
    BY <1>c, <1>4, <2>0 DEF Done
  <2> QED
    BY <1>2, <1>4, <2>1 DEF BlockInv
<1>5. CASE ~Refuses /\ Count >= 0
  <2>0. Count \in Nat /\ Piece \in Nat /\ p.addr \in Nat
    BY <1>1, <1>5, PieceFacts, BlockNumbers
  <2>1. pc' = "loop" /\ outcome' = outcome
    BY <1>c, <1>5, <2>0 DEF Done
  <2>2. /\ list' = <<>> /\ Len(list') = 0 /\ DOMAIN list' = {}
        /\ list' \in Seq([fam : {4, 6}, addr : Nat, bits : Nat])
    BY <1>1
  <2>3. Listing'
    BY <1>2, <1>5, <2>0, <2>2 DEF Listing
  <2>4. pos' = (p.addr + Len(list) * Piece)'
    BY <1>1, <1>2, <2>0, <2>2
  <2> QED
    BY <1>1, <1>2, <2>1, <2>3, <2>4 DEF BlockInv
<1> QED
  BY <1>i, <1>3, <1>4, <1>5

(* However a block is cut, the invariant stays.                            *)
LEMMA BlockInductive == BlockSpec => []BlockInv
<1>1. BlockInit => BlockInv
  <2> SUFFICES ASSUME BlockInit
               PROVE  BlockInv
    OBVIOUS
  <2>0. PICK fam \in {4, 6} :
          \E plen \in 0 .. Width[fam] : \E addr \in 0 .. 2 ^ Width[fam] - 1 :
            p = Masked(fam, addr, plen)
    BY DEF BlockInit
  <2>1. PICK plen \in 0 .. Width[fam], addr \in 0 .. 2 ^ Width[fam] - 1 :
          p = Masked(fam, addr, plen)
    BY <2>0
  <2>2. p.fam = fam /\ p.bits = plen /\ HostBits(p) = Width[fam] - plen
    BY <2>1 DEF Masked, HostBits
  <2>3. \E k \in Nat : /\ p.addr = k * 2 ^ HostBits(p)
                       /\ (k + 1) * 2 ^ HostBits(p) <= 2 ^ Width[p.fam]
    BY <2>1, <2>2, MaskedFacts
  <2>4. newbits \in IntRange
    <3>1. 0 \in IntRange
      BY BlockFacts DEF IntRange
    <3> QED
      BY <3>1 DEF BlockInit
  <2>5. BlockTypes
    BY <2>2, <2>3, <2>4 DEF BlockInit, BlockTypes
  <2> QED
    BY <2>5 DEF BlockInit, BlockInv
<1>2. BlockInv /\ [BlockNext]_blockVars => BlockInv'
  <2> SUFFICES ASSUME BlockInv, [BlockNext]_blockVars
               PROVE  BlockInv'
    OBVIOUS
  <2>1. CASE Check
    BY <2>1, CheckKeeps
  <2>2. CASE EnumerateStep
    BY <2>2, EnumerateKeeps
  <2>3. CASE ExpandStep
    BY <2>3, ExpandKeeps
  <2>4. CASE Return
    <3>1. /\ pc = "loop" /\ Len(list) >= Count /\ pc' = "done" /\ outcome' = "list"
          /\ UNCHANGED <<op, p, newbits, list, pos>>
      BY <2>4 DEF Return, Done
    <3>2. Listing /\ BlockTypes
      BY <3>1 DEF BlockInv
    <3>3. Len(list) = Count
      BY <3>1, <3>2, PieceFacts DEF Listing
    <3>4. BlockTypes' /\ Listing' /\ Count' = Count
      BY <3>1, <3>2 DEF BlockTypes, Listing, Refuses, EnumerateRefuses, ExpandRefuses, Count,
                        NewPrefixLen, HostBits, Element, Piece, PieceBits
    <3> QED
      BY <3>1, <3>3, <3>4 DEF BlockInv
  <2>5. CASE UNCHANGED blockVars
    <3>1. UNCHANGED <<op, p, newbits, pc, outcome, list, pos>>
      BY <2>5 DEF blockVars
    <3>2. /\ BlockTypes' = BlockTypes /\ Listing' = Listing /\ Count' = Count
          /\ Refuses' = Refuses /\ Piece' = Piece
      BY <3>1 DEF BlockTypes, Listing, Refuses, EnumerateRefuses, ExpandRefuses, Count,
                  NewPrefixLen, HostBits, Element, Piece, PieceBits
    <3> QED
      BY <3>1, <3>2 DEF BlockInv
  <2> QED
    BY <2>1, <2>2, <2>3, <2>4, <2>5 DEF BlockNext
<1> QED
  BY <1>1, <1>2, PTL DEF BlockSpec

(* The list of cidr_enumerate or cidr_expand, when it is not empty, is the *)
(* whole block in order, cut without gap or overlap, for any widths of an  *)
(* int and of the addresses.                                               *)
THEOREM ListsAreWhole == BlockSpec => []ListIsPartition
<1>1. BlockInv => ListIsPartition
  <2> SUFFICES ASSUME BlockInv, outcome = "list", list # <<>>
               PROVE  /\ list[1].addr = p.addr
                      /\ \A i \in 1 .. Len(list) - 1 : list[i + 1].addr = LastIP(list[i]) + 1
                      /\ LastIP(list[Len(list)]) = LastIP(p)
                      /\ \A i \in DOMAIN list : list[i].addr % 2 ^ HostBits(list[i]) = 0
    BY DEF ListIsPartition, Listed
  <2> DEFINE n == Len(list)
  <2>1. BlockTypes /\ Listing /\ n = Count
    BY DEF BlockInv
  <2>2. n \in Nat /\ n >= 1 /\ DOMAIN list = 1 .. n
    BY <2>1 DEF Listing
  <2>3. /\ PieceBits \in Nat /\ Piece \in Nat /\ Piece >= 1 /\ PieceBits <= Width[p.fam]
        /\ n * Piece = 2 ^ HostBits(p)
    BY <2>1, <2>2, PieceFacts DEF Listing
  <2>4. PICK k \in Nat : p.addr = k * 2 ^ HostBits(p)
    BY <2>1 DEF BlockTypes
  <2>5. p.addr \in Nat /\ Width[p.fam] \in Nat
    BY <2>1, BlockNumbers
  <2>6. ASSUME NEW i \in 1 .. n
        PROVE  /\ list[i].addr = p.addr + (i - 1) * Piece /\ (i - 1) * Piece \in Nat
               /\ 2 ^ HostBits(list[i]) = Piece
               /\ LastIP(list[i]) = p.addr + (i - 1) * Piece + Piece - 1
    <3>1. list[i] = Element(i)
      BY <2>1, <2>2 DEF Listing
    <3>2. list[i].addr = p.addr + (i - 1) * Piece /\ list[i].fam = p.fam
          /\ list[i].bits = Width[p.fam] - PieceBits
      BY <3>1 DEF Element
    <3>3. HostBits(list[i]) = PieceBits
      BY <2>3, <2>5, <3>2 DEF HostBits
    <3>4. (i - 1) * Piece \in Nat
      BY <2>2, <2>3
    <3> QED
      BY <3>2, <3>3, <3>4 DEF LastIP, Piece
  <2>7. list[1].addr = p.addr
    BY <2>2, <2>3, <2>5, <2>6
  <2>8. ASSUME NEW i \in 1 .. n - 1
        PROVE  list[i + 1].addr = LastIP(list[i]) + 1
    <3>1. i \in 1 .. n /\ i + 1 \in 1 .. n /\ (i + 1) - 1 = i
      BY <2>2
    <3>2. list[i + 1].addr = p.addr + i * Piece
      BY <2>6, <3>1
    <3>3. LastIP(list[i]) = p.addr + (i - 1) * Piece + Piece - 1
      BY <2>6, <3>1
    <3>4. \A a, b \in Nat : b >= 1 => a + b * Piece = (a + (b - 1) * Piece + Piece - 1) + 1
      BY <2>3
    <3> QED
      BY <2>2, <2>5, <3>2, <3>3, <3>4
  <2>9. LastIP(list[n]) = LastIP(p)
    <3>1. LastIP(list[n]) = p.addr + (n - 1) * Piece + Piece - 1
      BY <2>2, <2>6
    <3>2. (n - 1) * Piece + Piece = n * Piece /\ (n - 1) * Piece \in Nat
      BY <2>2, <2>3
    <3> QED
      BY <2>3, <2>5, <3>1, <3>2 DEF LastIP
  <2>10. ASSUME NEW i \in DOMAIN list
         PROVE  list[i].addr % 2 ^ HostBits(list[i]) = 0
    <3>1. i \in 1 .. n
      BY <2>2
    <3>2. k * n + (i - 1) \in Nat
      BY <2>2, <3>1
    <3>3. \A a, b, c, d \in Nat : a * (b * c) + d * c = (a * b + d) * c
      OBVIOUS
    <3>4. i - 1 \in Nat
      BY <3>1
    <3>5. list[i].addr = k * (n * Piece) + (i - 1) * Piece
      BY <2>3, <2>4, <2>6, <3>1
    <3>6. list[i].addr = (k * n + (i - 1)) * Piece
      BY <2>2, <2>3, <3>3, <3>4, <3>5
    <3> QED
      BY <2>3, <2>6, <3>1, <3>2, <3>6, MultiplesAreAligned
  <2> QED
    BY <2>2, <2>7, <2>8, <2>9, <2>10
<1> QED
  BY <1>1, BlockInductive, PTL

(* cidr_enumerate refuses exactly what does not fit or is over the limit.  *)
LEMMA EnumerateIsRight ==
  ASSUME BlockInv
  PROVE  EnumerateDecides
<1> SUFFICES ASSUME op = "enumerate", pc = "done", newbits \in 1 .. IntBits - 2
             PROVE  /\ outcome \in {"list", "error"}
                    /\ outcome = "error" <=> p.bits + newbits > Width[p.fam] \/ 2 ^ newbits > Limit
                    /\ outcome = "list" => Len(list) = 2 ^ newbits
  BY DEF EnumerateDecides
<1>1. /\ BlockTypes
      /\ \/ outcome = "error" /\ Refuses
         \/ outcome = "panic" /\ ~Refuses /\ Count < 0
         \/ outcome = "list" /\ ~Refuses /\ Len(list) = Count
  BY DEF BlockInv, Listing
<1>2. /\ IntBits \in Nat /\ LimitBits \in Nat /\ LimitBits + 2 <= IntBits /\ Limit \in Nat
      /\ MaxInt \in Nat /\ Width[p.fam] + LimitBits <= MaxInt /\ Width[p.fam] \in Nat
      /\ p.bits \in Nat /\ p.bits <= Width[p.fam]
  <2>1. p.fam \in {4, 6} /\ p.bits \in 0 .. Width[p.fam]
    BY <1>1 DEF BlockTypes
  <2> QED
    BY <2>1, BlockFacts
<1>3. newbits \in Nat /\ newbits >= 1 /\ Count = 2 ^ newbits /\ 2 ^ newbits \in Nat
  BY <1>2, ShiftFacts, PowerType DEF Count
<1>4. 2 ^ newbits > Limit <=> newbits > LimitBits
  <2>1. 2 ^ newbits <= 2 ^ LimitBits <=> newbits <= LimitBits
    BY <1>2, <1>3, PowerOrder
  <2> QED
    BY <1>2, <1>3, <2>1 DEF Limit
<1>5. Refuses <=> NewPrefixLen > Width[p.fam] \/ 2 ^ newbits > Limit
  BY <1>3 DEF Refuses, EnumerateRefuses
<1>6. newbits <= LimitBits => NewPrefixLen = p.bits + newbits
  BY <1>2, <1>3 DEF NewPrefixLen, WrapInt
<1>7. p.bits + newbits > MaxInt => newbits > LimitBits
  BY <1>2, <1>3
<1>8. p.bits + newbits <= MaxInt => NewPrefixLen = p.bits + newbits
  BY <1>2, <1>3 DEF NewPrefixLen, WrapInt
<1>9. Refuses <=> p.bits + newbits > Width[p.fam] \/ 2 ^ newbits > Limit
  <2>1. CASE p.bits + newbits <= MaxInt
    BY <1>5, <1>8, <2>1
  <2>2. CASE p.bits + newbits > MaxInt
    BY <1>4, <1>5, <1>7, <2>2
  <2> QED
    BY <1>2, <1>3, <2>1, <2>2
<1>10. ~(Count < 0)
  BY <1>3
<1> QED
  BY <1>1, <1>3, <1>9, <1>10

(* cidr_expand refuses exactly what cidr_host_count says is too much.      *)
LEMMA ExpandIsRight ==
  ASSUME BlockInv
  PROVE  ExpandAgreesWithCount
<1> DEFINE ends == IF p.fam = 4 /\ Len(list) > 2 THEN {p.addr, LastIP(p)} ELSE {}
           h == HostBits(p)
           n == Len(list)
           inner == {i \in DOMAIN list : list[i].addr \notin ends}
<1> SUFFICES ASSUME op = "expand", pc = "done"
             PROVE  /\ outcome = "error" <=> CIDRHostCount(p) > Limit
                    /\ outcome = "list" =>
                         /\ n = CIDRHostCount(p)
                         /\ \A i \in DOMAIN list : list[i].addr = p.addr + i - 1
                         /\ CIDRUsableHostCount(p) = Cardinality(inner)
  BY DEF ExpandAgreesWithCount
<1>1. /\ BlockTypes
      /\ \/ outcome = "error" /\ Refuses
         \/ outcome = "panic" /\ ~Refuses /\ Count < 0
         \/ outcome = "list" /\ ~Refuses /\ Listing /\ n = Count
  BY DEF BlockInv, Listing
<1>2. /\ IntBits \in Nat /\ LimitBits \in Nat /\ LimitBits + 2 <= IntBits /\ Limit \in Nat
      /\ MaxInt \in Nat /\ MaxInt > Limit
  BY <1>1, BlockFacts DEF BlockTypes
<1>3. h \in Nat /\ 2 ^ h \in Nat /\ 2 ^ h >= 1 /\ p.addr \in Nat
  BY <1>1, BlockNumbers
<1>4. 2 ^ h <= Limit <=> h <= LimitBits
  BY <1>2, <1>3, PowerOrder DEF Limit
<1>5. CIDRHostCount(p) > Limit <=> h > LimitBits
  <2>1. CASE h >= IntBits - 1
    BY <1>2, <1>3, <2>1 DEF CIDRHostCount
  <2>2. CASE ~(h >= IntBits - 1)
    BY <1>2, <1>3, <1>4, <2>2 DEF CIDRHostCount
  <2> QED
    BY <2>1, <2>2
<1>6. h <= LimitBits => Count = 2 ^ h
  BY <1>2, <1>3, ShiftFacts DEF Count
<1>7. Refuses <=> h > LimitBits
  BY <1>2, <1>3, <1>4, <1>6 DEF Refuses, ExpandRefuses
<1>8. ASSUME outcome = "list"
      PROVE  /\ n = CIDRHostCount(p)
             /\ \A i \in DOMAIN list : list[i].addr = p.addr + i - 1
             /\ CIDRUsableHostCount(p) = Cardinality(inner)
  <2>1. h <= LimitBits /\ n = 2 ^ h /\ Listing
    BY <1>1, <1>2, <1>3, <1>6, <1>7, <1>8
  <2>2. CIDRHostCount(p) = 2 ^ h
    BY <1>2, <1>3, <2>1 DEF CIDRHostCount
  <2>3. DOMAIN list = 1 .. n /\ n \in Nat /\ n >= 1
    BY <1>3, <2>1 DEF Listing
  <2>4. ASSUME NEW i \in 1 .. n
        PROVE  list[i].addr = p.addr + i - 1
    <3>1. Piece = 1
      <4>1. 2 ^ 0 = 1
        OBVIOUS
      <4> QED
        BY <4>1 DEF Piece, PieceBits
    <3>2. list[i] = Element(i)
      BY <2>1, <2>3 DEF Listing
    <3>3. list[i].addr = p.addr + (i - 1) * 1
      BY <3>1, <3>2 DEF Element
    <3> QED
      BY <1>3, <2>3, <3>3
  <2>5. LastIP(p) = p.addr + n - 1
    BY <1>3, <2>1 DEF LastIP
  <2>6. 2 <= h <=> n > 2
    <3>1. 2 ^ 1 = 2 /\ 2 ^ 0 = 1
      OBVIOUS
    <3>2. 2 <= h => 2 * 2 ^ 1 <= 2 ^ h
      <4>1. 1 \in Nat /\ (2 <= h => 1 < h)
        BY <1>3
      <4> QED
        BY <1>3, <4>1, PowerOrder
    <3>3. h <= 1 => 2 ^ h <= 2 ^ 1
      <4>1. 1 \in Nat
        OBVIOUS
      <4> QED
        BY <1>3, <4>1, PowerOrder
    <3> QED
      BY <1>3, <2>1, <3>1, <3>2, <3>3
  <2>7. CASE p.fam = 4 /\ n > 2
    <3>1. CIDRUsableHostCount(p) = n - 2
      BY <1>2, <1>3, <2>1, <2>6, <2>7 DEF CIDRUsableHostCount
    <3>2. ends = {p.addr, p.addr + n - 1}
      BY <2>5, <2>7
    <3> HIDE DEF ends, n
    <3>3. inner = 2 .. n - 1
      <4>1. \A i \in 1 .. n : p.addr + i - 1 \notin ends <=> i \in 2 .. n - 1
        BY <1>3, <2>3, <3>2
      <4>2. \A i \in 2 .. n - 1 : i \in 1 .. n
        BY <2>3
      <4> QED
        BY <2>3, <2>4, <4>1, <4>2
    <3>4. 2 \in Int /\ n - 1 \in Int /\ n - 1 >= 2 /\ (n - 1) - 2 + 1 = n - 2
      BY <2>3, <2>7
    <3>5. Cardinality(2 .. n - 1) = n - 2
      BY <3>4, FS_Interval
    <3> QED
      BY <2>1, <2>2, <2>3, <2>4, <3>1, <3>3, <3>5
  <2>8. CASE ~(p.fam = 4 /\ n > 2)
    <3>1. CIDRUsableHostCount(p) = n
      BY <1>2, <1>3, <2>1, <2>2, <2>6, <2>8 DEF CIDRUsableHostCount
    <3>2. inner = 1 .. n
      BY <2>3, <2>8
    <3>3. Cardinality(1 .. n) = n
      <4>1. 1 \in Int /\ n \in Int /\ ~(1 > n) /\ n - 1 + 1 = n
        BY <2>3
      <4> QED
        BY <4>1, FS_Interval
    <3> QED
      BY <2>1, <2>2, <2>3, <2>4, <3>1, <3>2, <3>3
  <2> QED
    BY <2>7, <2>8
<1>9. outcome = "error" <=> CIDRHostCount(p) > Limit
  <2>1. ~Refuses => ~(Count < 0)
    BY <1>2, <1>3, <1>6, <1>7
  <2> QED
    BY <1>1, <1>2, <1>3, <1>5, <1>7, <2>1
<1> QED
  BY <1>8, <1>9

(* cidr_enumerate and cidr_expand refuse what is over the limit and only   *)
(* that, and the counts agree with the lists.                              *)
THEOREM RefusalsAreRight == BlockSpec => []ListingDecides
<1>1. BlockInv => ListingDecides
  BY EnumerateIsRight, ExpandIsRight DEF ListingDecides
<1> QED
  BY <1>1, BlockInductive, PTL

-----------------------------------------------------------------------------
(* nat64_synthesize and nat64_extract                                      *)

(* A run of zeros that is there is found, and is one.                      *)
LEMMA BestRunExists ==
  ASSUME NEW groups, Runs(groups) # {}
  PROVE  BestRun(groups) \in Runs(groups)
<1> DEFINE R == Runs(groups)
           rank(r) == 10 * (6 - r.len) + r.from
           T == { rank(r) : r \in R }
<1>1. \A r \in R : r.from \in 1 .. 6 /\ r.len \in 2 .. 6
  BY DEF Runs
<1>2. T \subseteq Nat /\ T # {}
  BY <1>1
<1>3. PICK x \in T : \A y \in T : x <= y
  BY <1>2, FirstPosition
<1>4. PICK r \in R : x = rank(r)
  OBVIOUS
<1>5. \A q \in R : rank(r) <= rank(q)
  BY <1>3, <1>4
<1>6. ASSUME NEW q \in R
      PROVE  q.len < r.len \/ (q.len = r.len /\ q.from >= r.from)
  <2>1. 10 * (6 - r.len) + r.from <= 10 * (6 - q.len) + q.from
    BY <1>5
  <2>2. /\ r.from \in 1 .. 6 /\ r.len \in 2 .. 6
        /\ q.from \in 1 .. 6 /\ q.len \in 2 .. 6
    BY <1>1, Zenon
  <2> QED
    BY <2>1, <2>2, SMTT(20)
<1> QED
  BY <1>4, <1>6 DEF BestRun

(* A sequence with a stretch of one value written anew is the sequence.    *)
LEMMA CutAndJoined ==
  ASSUME NEW S, NEW s \in Seq(S), NEW x \in S, NEW from \in 1 .. Len(s), NEW len \in Nat,
         from + len <= Len(s) + 1, \A g \in from .. from + len - 1 : s[g] = x
  PROVE  /\ SubSeq(s, 1, from - 1) \o [g \in 1 .. len |-> x] \o SubSeq(s, from + len, Len(s)) = s
         /\ Len(SubSeq(s, 1, from - 1)) = from - 1
         /\ Len(SubSeq(s, from + len, Len(s))) = Len(s) + 1 - from - len
<1> DEFINE same == [g \in 1 .. len |-> x]
           mid == SubSeq(s, from, from + len - 1)
<1>1. Len(s) \in Nat /\ \A g \in 1 .. Len(s) : s[g] \in S
  BY LenProperties, ElementOfSeq
<1>2. same \in Seq(S) /\ Len(same) = len /\ \A g \in 1 .. len : same[g] = x
  OBVIOUS
<1> HIDE DEF same
<1>3. /\ mid \in Seq(S) /\ Len(mid) = len
      /\ \A g \in 1 .. len : mid[g] = s[from + g - 1]
  <2>1. \A g \in from .. from + len - 1 : s[g] \in S
    BY <1>1
  <2>2. /\ mid \in Seq(S)
        /\ Len(mid) = IF from <= from + len - 1 THEN (from + len - 1) - from + 1 ELSE 0
        /\ \A g \in 1 .. (from + len - 1) - from + 1 : mid[g] = s[from + g - 1]
    <3>1. from \in Int /\ from + len - 1 \in Int
      BY <1>1
    <3> QED
      BY <2>1, <3>1, SubSeqProperties
  <2>3. (from + len - 1) - from + 1 = len
    BY <1>1
  <2> QED
    BY <1>1, <2>2, <2>3
<1> HIDE DEF mid
<1>4. same = mid
  <2>1. \A g \in 1 .. len : mid[g] = x
    BY <1>1, <1>3
  <2> QED
    BY <1>2, <1>3, <2>1, SeqEqual
<1>5. SubSeq(s, 1, from - 1) \o mid = SubSeq(s, 1, from + len - 1)
  <2>1. from - 1 \in 1 - 1 .. Len(s) /\ from + len - 1 \in from - 1 .. Len(s)
        /\ 1 \in 1 .. Len(s) + 1 /\ (from - 1) + 1 = from
    BY <1>1
  <2> QED
    BY <2>1, ConcatAdjacentSubSeq DEF mid
<1>6. SubSeq(s, 1, from + len - 1) \o SubSeq(s, from + len, Len(s)) = SubSeq(s, 1, Len(s))
  <2>1. from + len - 1 \in 1 - 1 .. Len(s) /\ Len(s) \in from + len - 1 .. Len(s)
        /\ 1 \in 1 .. Len(s) + 1 /\ (from + len - 1) + 1 = from + len
    BY <1>1
  <2> QED
    BY <2>1, ConcatAdjacentSubSeq
<1>7. SubSeq(s, 1, Len(s)) = s
  BY SubSeqFull
<1>8. Len(SubSeq(s, 1, from - 1)) = from - 1
  <2>1. \A g \in 1 .. from - 1 : s[g] \in S
    BY <1>1
  <2>2. Len(SubSeq(s, 1, from - 1)) = IF 1 <= from - 1 THEN (from - 1) - 1 + 1 ELSE 0
    <3>1. from - 1 \in Int /\ 1 \in Int
      BY <1>1
    <3> QED
      BY <2>1, <3>1, SubSeqProperties
  <2> QED
    BY <1>1, <2>2
<1>9. Len(SubSeq(s, from + len, Len(s))) = Len(s) + 1 - from - len
  <2>1. \A g \in from + len .. Len(s) : s[g] \in S
    BY <1>1
  <2>2. Len(SubSeq(s, from + len, Len(s)))
          = IF from + len <= Len(s) THEN Len(s) - (from + len) + 1 ELSE 0
    <3>1. from + len \in Int /\ Len(s) \in Int
      BY <1>1
    <3> QED
      BY <2>1, <3>1, SubSeqProperties
  <2> QED
    BY <1>1, <2>2
<1> QED
  BY <1>4, <1>5, <1>6, <1>7, <1>8, <1>9 DEF same

(* The text of an address is read as that address.                         *)
LEMMA ReadsBack ==
  ASSUME NEW raw \in [0 .. 15 -> Octets]
  PROVE  ReadMixed(MixedNotation(raw)) = raw
<1> DEFINE groups == Groups(raw)
           Group == Octets \X Octets
           m == MixedNotation(raw)
           hidden == 6 - Len(m.left) - Len(m.right)
           joined == m.left \o [g \in 1 .. hidden |-> <<0, 0>>] \o m.right
<1>1. groups \in Seq(Group) /\ Len(groups) = 6
  <2>1. \A g \in 1 .. 6 : <<raw[2 * g - 2], raw[2 * g - 1]>> \in Group
    OBVIOUS
  <2>2. groups = [g \in 1 .. 6 |-> <<raw[2 * g - 2], raw[2 * g - 1]>>]
    BY DEF Groups
  <2> HIDE DEF groups, Group
  <2>3. groups \in [1 .. 6 -> Group]
    BY <2>1, <2>2
  <2>4. \A n \in Nat : \A f \in [1 .. n -> Group] : f \in Seq(Group) /\ Len(f) = n
    BY FunctionsAreSequences, Zenon
  <2> QED
    BY <2>3, <2>4
<1>z. <<0, 0>> \in Group
  BY DEF Octets
<1>2. joined = groups
  <2>1. CASE Runs(groups) = {}
    <3>1. m.left = groups /\ m.right = <<>>
      BY <2>1 DEF MixedNotation
    <3> HIDE DEF groups, m, Group
    <3>2. hidden = 0 /\ [g \in 1 .. 0 |-> <<0, 0>>] = <<>>
      BY <1>1, <3>1
    <3>3. joined = groups \o <<>> \o <<>>
      BY <3>1, <3>2
    <3> QED
      BY <1>1, <3>3, ConcatEmptySeq
  <2>2. CASE Runs(groups) # {}
    <3> DEFINE r == BestRun(groups)
    <3>1. r \in Runs(groups)
      BY <2>2, BestRunExists
    <3>2. /\ r.from \in 1 .. 6 /\ r.len \in 2 .. 6 /\ r.from + r.len <= 7
          /\ \A g \in r.from .. r.from + r.len - 1 : groups[g] = <<0, 0>>
      BY <3>1 DEF Runs
    <3>3. /\ m.left = SubSeq(groups, 1, r.from - 1)
          /\ m.right = SubSeq(groups, r.from + r.len, 6)
      BY <2>2 DEF MixedNotation
    <3> HIDE DEF r, groups, m, Group
    <3>4. r.from \in 1 .. Len(groups) /\ r.len \in Nat /\ r.from + r.len <= Len(groups) + 1
      BY <1>1, <3>2
    <3>5. \A g \in r.from .. r.from + r.len - 1 : groups[g] = <<0, 0>>
      BY <3>2
    <3>6. /\ SubSeq(groups, 1, r.from - 1) \o [g \in 1 .. r.len |-> <<0, 0>>]
               \o SubSeq(groups, r.from + r.len, Len(groups)) = groups
          /\ Len(SubSeq(groups, 1, r.from - 1)) = r.from - 1
          /\ Len(SubSeq(groups, r.from + r.len, Len(groups))) = Len(groups) + 1 - r.from - r.len
      BY <1>1, <1>z, <3>4, <3>5, CutAndJoined
    <3>7. Len(m.left) = r.from - 1 /\ Len(m.right) = 6 + 1 - r.from - r.len
      BY <1>1, <3>3, <3>6
    <3>8. hidden = r.len
      <4>1. \A x, y \in Int : 6 - (x - 1) - (6 + 1 - x - y) = y
        OBVIOUS
      <4>2. r.from \in Int /\ r.len \in Int
        BY <3>2
      <4> QED
        BY <3>7, <4>1, <4>2
    <3> QED
      BY <1>1, <3>3, <3>6, <3>8
  <2> QED
    BY <2>1, <2>2
<1>3. m.quad = [k \in 0 .. 3 |-> raw[12 + k]]
  BY DEF MixedNotation
<1>4. ReadMixed(m) = [i \in 0 .. 15 |->
        IF i < 12 THEN joined[i \div 2 + 1][(i % 2) + 1] ELSE m.quad[i - 12]]
  BY DEF ReadMixed
<1> HIDE DEF m, hidden, joined
<1>5. ASSUME NEW i \in 0 .. 15
      PROVE  ReadMixed(m)[i] = raw[i]
  <2>1. CASE i < 12
    <3>1. i \div 2 + 1 \in 1 .. 6 /\ i \div 2 \in Int /\ i % 2 \in {0, 1}
          /\ 2 * (i \div 2) + (i % 2) = i
      BY <2>1
    <3>2. ReadMixed(m)[i] = groups[i \div 2 + 1][(i % 2) + 1]
      BY <1>2, <1>4, <2>1, <3>1
    <3>3. groups[i \div 2 + 1] = <<raw[2 * (i \div 2 + 1) - 2], raw[2 * (i \div 2 + 1) - 1]>>
      BY <3>1 DEF Groups
    <3>4. 2 * (i \div 2 + 1) - 2 = 2 * (i \div 2) /\ 2 * (i \div 2 + 1) - 1 = 2 * (i \div 2) + 1
      BY <3>1
    <3> QED
      BY <3>1, <3>2, <3>3, <3>4
  <2>2. CASE i >= 12
    BY <1>3, <1>4, <2>2
  <2> QED
    BY <2>1, <2>2
<1> QED
  BY <1>4, <1>5 DEF m

(* The four places of an IPv4 address are apart, and none is the u-octet.  *)
LEMMA LayoutFacts ==
  ASSUME NEW pl \in ValidLengths
  PROVE  /\ \A k \in 1 .. 4 : Layout(pl)[k] \in 0 .. 15 \ {8}
         /\ \A j, k \in 1 .. 4 : Layout(pl)[j] = Layout(pl)[k] => j = k
<1>1. Layout(pl) \in { <<4, 5, 6, 7>>, <<5, 6, 7, 9>>, <<6, 7, 9, 10>>, <<7, 9, 10, 11>>,
                       <<9, 10, 11, 12>>, <<12, 13, 14, 15>> }
  BY DEF Layout
<1> QED
  BY <1>1

(* What is placed is found again, and the result is an address.            *)
LEMMA PlacedIsExtracted ==
  ASSUME NEW raw \in [0 .. 15 -> Octets], NEW a \in [0 .. 3 -> Octets],
         NEW pl \in ValidLengths
  PROVE  /\ PlaceIPv4(raw, a, pl) \in [0 .. 15 -> Octets]
         /\ ExtractIPv4(PlaceIPv4(raw, a, pl), pl) = a
<1> DEFINE there(i) == \E k \in 1 .. 4 : Layout(pl)[k] = i
           which(i) == CHOOSE k \in 1 .. 4 : Layout(pl)[k] = i
           placed == PlaceIPv4(raw, a, pl)
<1>1. placed = [i \in 0 .. 15 |->
                  IF there(i) THEN a[which(i) - 1] ELSE IF i = 8 THEN 0 ELSE raw[i]]
  BY DEF PlaceIPv4
<1>2. \A i \in 0 .. 15 : there(i) => which(i) \in 1 .. 4
  OBVIOUS
<1>3. \A k \in 1 .. 4 : there(Layout(pl)[k]) /\ which(Layout(pl)[k]) = k
  BY LayoutFacts
<1> HIDE DEF there, which
<1>4. \A i \in 0 .. 15 : placed[i] \in Octets
  <2> SUFFICES ASSUME NEW i \in 0 .. 15 PROVE placed[i] \in Octets
    OBVIOUS
  <2>1. CASE there(i)
    <3>1. which(i) - 1 \in 0 .. 3
      BY <1>2, <2>1
    <3> QED
      BY <1>1, <2>1, <3>1
  <2>2. CASE ~there(i)
    <3>1. 0 \in Octets /\ raw[i] \in Octets
      BY DEF Octets
    <3> QED
      BY <1>1, <2>2, <3>1
  <2> QED
    BY <2>1, <2>2
<1>5. ASSUME NEW k \in 0 .. 3
      PROVE  placed[Layout(pl)[k + 1]] = a[k]
  <2>1. k + 1 \in 1 .. 4 /\ (k + 1) - 1 = k
    OBVIOUS
  <2>2. Layout(pl)[k + 1] \in 0 .. 15
    BY <2>1, LayoutFacts
  <2> QED
    BY <1>1, <1>3, <2>1, <2>2
<1>6. placed \in [0 .. 15 -> Octets]
  BY <1>1, <1>4
<1> HIDE DEF placed
<1>7. ExtractIPv4(placed, pl) = [k \in 0 .. 3 |-> placed[Layout(pl)[k + 1]]]
  BY DEF ExtractIPv4
<1>8. ExtractIPv4(placed, pl) = a
  BY <1>5, <1>7
<1> QED
  BY <1>6, <1>8 DEF placed

(* What is given does not change, and what is answered is about it.        *)
Nat64Inv ==
  /\ v4 \in V4Addrs /\ nat64 \in [raw : Raws, bits : PrefixBits]
  /\ step = "synthesize" => text = <<>> /\ back = <<>>
  /\ step # "synthesize" => text = NAT64Synthesize(v4, nat64)
  /\ step = "extract" => text # <<>>
  /\ step = "done" => back = IF text = <<>> THEN <<>> ELSE NAT64Extract(text[1], nat64, named)

(* The octets of a prefix stay octets when those beyond it are cleared.    *)
LEMMA MaskedType ==
  ASSUME NEW raw \in [0 .. 15 -> Octets], NEW n
  PROVE  MaskedRaw(raw, n) \in [0 .. 15 -> Octets]
<1>1. ASSUME NEW i \in 0 .. 15
      PROVE  (IF 8 * i < n THEN raw[i] ELSE 0) \in Octets
  <2>1. raw[i] \in Octets
    OBVIOUS
  <2>2. 0 \in Octets
    BY DEF Octets
  <2> QED
    BY <2>1, <2>2, Zenon
<1> QED
  BY <1>1, Zenon DEF MaskedRaw

LEMMA Nat64Inductive == Nat64Spec => []Nat64Inv
<1>1. Nat64Init => Nat64Inv
  BY DEF Nat64Init, Nat64Inv
<1>2. Nat64Inv /\ [Nat64Next]_nat64Vars => Nat64Inv'
  <2> SUFFICES ASSUME Nat64Inv, [Nat64Next]_nat64Vars
               PROVE  Nat64Inv'
    OBVIOUS
  <2>1. CASE Synthesize
    BY <2>1 DEF Synthesize, Nat64Inv
  <2>2. CASE Extract
    BY <2>2 DEF Extract, Nat64Inv
  <2>3. CASE UNCHANGED nat64Vars
    BY <2>3 DEF nat64Vars, Nat64Inv
  <2> QED
    BY <2>1, <2>2, <2>3 DEF Nat64Next
<1> QED
  BY <1>1, <1>2, PTL DEF Nat64Spec

(* nat64_extract gives back what nat64_synthesize embedded, from the text  *)
(* of its answer, for any address and prefix of a valid length; only an    *)
(* IPv4-mapped answer is refused.                                          *)
THEOREM ExtractIsInverse == Nat64Spec => []ExtractUndoesSynthesize
<1>1. Nat64Inv => ExtractUndoesSynthesize
  <2> SUFFICES ASSUME Nat64Inv, step = "done", nat64.bits \in ValidLengths
               PROVE  IF IsMapped4In6(ReadMixed(text[1]))
                      THEN back = <<>> /\ (nat64.bits = 96 => text = <<IPv4ToIPv4Mapped(v4)>>)
                      ELSE named \/ nat64.bits = 96 => back = <<v4>>
    BY Zenon DEF ExtractUndoesSynthesize
  <2> DEFINE masked == MaskedRaw(nat64.raw, nat64.bits)
             raw == PlaceIPv4(masked, v4, nat64.bits)
  <2>1. v4 \in [0 .. 3 -> Octets] /\ nat64.raw \in [0 .. 15 -> Octets]
    <3>1. v4 \in V4Addrs /\ nat64.raw \in Raws
      BY DEF Nat64Inv
    <3> QED
      BY <3>1, Nat64Assumption DEF Octets
  <2>2. masked \in [0 .. 15 -> Octets]
    BY <2>1, MaskedType
  <2>3. text = <<MixedNotation(raw)>> /\ back = NAT64Extract(text[1], nat64, named)
    <3>1. /\ text = NAT64Synthesize(v4, nat64)
          /\ back = IF text = <<>> THEN <<>> ELSE NAT64Extract(text[1], nat64, named)
      BY DEF Nat64Inv
    <3>2. text = <<MixedNotation(raw)>>
      BY <3>1 DEF NAT64Synthesize
    <3> HIDE DEF raw
    <3> QED
      BY <3>1, <3>2
  <2>4. raw \in [0 .. 15 -> Octets] /\ ExtractIPv4(raw, nat64.bits) = v4
    BY <2>1, <2>2, PlacedIsExtracted
  <2>5. ReadMixed(text[1]) = raw
    BY <2>3, <2>4, ReadsBack
  <2>6. nat64.bits = 96 => \A k \in 0 .. 3 : raw[12 + k] = v4[k]
    <3> SUFFICES ASSUME nat64.bits = 96, NEW k \in 0 .. 3
                 PROVE  raw[12 + k] = v4[k]
      OBVIOUS
    <3>1. Layout(96) = <<12, 13, 14, 15>>
      BY DEF Layout
    <3>2. ExtractIPv4(raw, 96)[k] = raw[Layout(96)[k + 1]] /\ Layout(96)[k + 1] = 12 + k
      BY <3>1 DEF ExtractIPv4
    <3> QED
      BY <2>4, <3>2
  <2> HIDE DEF raw
  <2>7. CASE IsMapped4In6(raw)
    <3>1. back = <<>>
      BY <2>3, <2>5, <2>7 DEF NAT64Extract
    <3>2. ASSUME nat64.bits = 96
          PROVE  raw = [i \in 0 .. 15 |-> IF i < 10 THEN 0 ELSE IF i < 12 THEN 255 ELSE v4[i - 12]]
      <4> SUFFICES ASSUME NEW i \in 0 .. 15
                   PROVE  raw[i] = IF i < 10 THEN 0 ELSE IF i < 12 THEN 255 ELSE v4[i - 12]
        BY <2>4
      <4>1. CASE i < 12
        BY <2>7, <4>1 DEF IsMapped4In6
      <4>2. CASE i >= 12
        <5>1. i - 12 \in 0 .. 3 /\ 12 + (i - 12) = i
          BY <4>2
        <5> QED
          BY <2>6, <3>2, <4>2, <5>1
      <4> QED
        BY <4>1, <4>2
    <3> QED
      BY <2>3, <2>5, <2>7, <3>1, <3>2 DEF IPv4ToIPv4Mapped
  <2>8. CASE ~IsMapped4In6(raw)
    <3>1. CASE named
      BY <2>3, <2>4, <2>5, <2>8, <3>1 DEF NAT64Extract
    <3>2. CASE ~named /\ nat64.bits = 96
      <4>1. back = <<[k \in 0 .. 3 |-> raw[12 + k]]>>
        BY <2>3, <2>5, <2>8, <3>2 DEF NAT64Extract
      <4>2. [k \in 0 .. 3 |-> raw[12 + k]] = v4
        BY <2>1, <2>6, <3>2
      <4> QED
        BY <2>5, <2>8, <4>1, <4>2
    <3> QED
      BY <2>5, <2>8, <3>1, <3>2
  <2> QED
    BY <2>7, <2>8
<1> QED
  BY <1>1, Nat64Inductive, PTL

-----------------------------------------------------------------------------
(* The CIDR form                                                           *)

(* Low bits that are cleared are not seen in the bits above them.          *)
LEMMA ClearedBelow ==
  ASSUME NEW x \in Nat, NEW l \in Nat, NEW e \in Nat, l <= e
  PROVE  /\ x - (x % 2 ^ l) \in 0 .. x
         /\ (x - (x % 2 ^ l)) \div 2 ^ e = x \div 2 ^ e
<1> DEFINE L == 2 ^ l
           C == 2 ^ (e - l)
           D == 2 ^ e
           q == x \div L
           t == x \div D
<1>1. L \in Nat /\ L >= 1 /\ C \in Nat /\ C >= 1 /\ D \in Nat /\ D >= 1
  BY PowerType
<1>2. D = C * L
  <2>1. e - l \in Nat /\ e = (e - l) + l
    OBVIOUS
  <2> QED
    BY <2>1, PowerSum
<1> HIDE DEF L, C, D
<1>3. /\ q \in Nat /\ x - (x % L) = q * L /\ x % L \in 0 .. L - 1
      /\ q * L <= x /\ x < (q + 1) * L
  <2>1. \A a, b \in Nat : b >= 1 => /\ a \div b \in Nat /\ a - (a % b) = (a \div b) * b
                                    /\ a % b \in 0 .. b - 1
                                    /\ (a \div b) * b <= a /\ a < ((a \div b) + 1) * b
    OBVIOUS
  <2> QED
    BY <1>1, <2>1
<1>4. t \in Nat /\ t * D <= x /\ x < (t + 1) * D
  <2>1. \A a, b \in Nat : b >= 1 => a \div b \in Nat /\ (a \div b) * b <= a /\ a < ((a \div b) + 1) * b
    OBVIOUS
  <2> QED
    BY <1>1, <2>1
<1> HIDE DEF q, t
<1>5. /\ t * D = (t * C) * L /\ (t + 1) * D = ((t + 1) * C) * L
      /\ t * C \in Nat /\ (t + 1) * C \in Nat
  <2>1. \A a, b, c \in Nat : a * (b * c) = (a * b) * c /\ a * b \in Nat
    OBVIOUS
  <2> QED
    BY <1>1, <1>2, <1>4, <2>1
<1>6. t * D <= q * L
  <2>1. (t * C) * L < (q + 1) * L
    BY <1>1, <1>3, <1>4, <1>5
  <2>2. t * C < q + 1
    BY <1>1, <1>3, <1>5, <2>1, ProductOrder
  <2>3. t * C <= q
    BY <1>3, <1>5, <2>2
  <2> QED
    BY <1>1, <1>3, <1>5, <2>3, ProductOrder
<1>7. q * L \in Nat /\ q * L < (t + 1) * D
  BY <1>1, <1>3, <1>4, <1>5
<1>8. (q * L) \div D = t
  BY <1>1, <1>4, <1>6, <1>7, QuotientIs
<1>9. x - (x % L) \in 0 .. x
  BY <1>1, <1>3, <1>7
<1> QED
  BY <1>3, <1>8, <1>9 DEF t, L, D

(* The bits of an address that a mask keeps.                               *)
LEMMA MaskKeepsBits ==
  ASSUME NEW w \in Nat, NEW a \in [0 .. w - 1 -> Octets], NEW m \in Nat
  PROVE  /\ MaskBits(a, m, w) \in [0 .. w - 1 -> Octets]
         /\ \A i \in 0 .. 8 * w - 1 : i < m => BitOf(MaskBits(a, m, w), i) = BitOf(a, i)
<1> DEFINE z == MaskBits(a, m, w)
<1>0. /\ \A y \in Octets : y \in Nat /\ y <= 255
      /\ \A x \in Nat : \A y \in 0 .. x : x <= 255 => y \in Octets
  BY DEF Octets
<1>1. \A o \in 0 .. w - 1 : z[o] = IF 8 * o + 8 <= m THEN a[o]
                                   ELSE IF 8 * o >= m THEN 0
                                   ELSE a[o] - (a[o] % 2 ^ (8 * o + 8 - m))
  BY DEF MaskBits
<1>2. ASSUME NEW o \in 0 .. w - 1
      PROVE  z[o] \in Octets
  <2>0. a[o] \in Octets
    OBVIOUS
  <2>1. a[o] \in Nat /\ a[o] <= 255
    BY <1>0, <2>0, Zenon
  <2>2. CASE 8 * o + 8 <= m
    BY <1>1, <2>0, <2>2
  <2>3. CASE ~(8 * o + 8 <= m) /\ 8 * o >= m
    BY <1>1, <2>3 DEF Octets
  <2>4. CASE ~(8 * o + 8 <= m) /\ ~(8 * o >= m)
    <3> DEFINE l == 8 * o + 8 - m
    <3>1. l \in Nat
      BY <2>4
    <3>2. z[o] = a[o] - (a[o] % 2 ^ l)
      BY <1>1, <2>4
    <3> DEFINE x == a[o]
    <3>3. x \in Nat /\ x <= 255 /\ z[o] = x - (x % 2 ^ l) /\ l <= l
      BY <2>1, <3>1, <3>2
    <3> HIDE DEF l, x
    <3>4. x - (x % 2 ^ l) \in 0 .. x
      BY <3>1, <3>3, ClearedBelow, Zenon
    <3> QED
      BY <1>0, <3>3, <3>4, Zenon
  <2> QED
    BY <2>2, <2>3, <2>4
<1>3. z \in [0 .. w - 1 -> Octets]
  <2>1. z = [o \in 0 .. w - 1 |-> z[o]]
    BY DEF MaskBits
  <2> QED
    BY <1>2, <2>1
<1> HIDE DEF z
<1>4. ASSUME NEW i \in 0 .. 8 * w - 1, i < m
      PROVE  BitOf(z, i) = BitOf(a, i)
  <2> DEFINE o == i \div 8
             e == 7 - (i % 8)
             l == 8 * o + 8 - m
  <2>1. o \in 0 .. w - 1 /\ e \in Nat /\ ~(8 * o >= m) /\ e = 7 - (i - 8 * o)
    BY <1>4
  <2>2. BitOf(z, i) = (z[o] \div 2 ^ e) % 2 /\ BitOf(a, i) = (a[o] \div 2 ^ e) % 2
    BY DEF BitOf
  <2> HIDE DEF o, e
  <2>3. CASE 8 * o + 8 <= m
    BY <1>1, <2>1, <2>2, <2>3
  <2>4. CASE ~(8 * o + 8 <= m)
    <3>1. l \in Nat /\ l <= e
      BY <1>4, <2>1, <2>4
    <3>2. z[o] = a[o] - (a[o] % 2 ^ l)
      BY <1>1, <2>1, <2>4
    <3> DEFINE x == a[o]
    <3>3. x \in Nat /\ z[o] = x - (x % 2 ^ l)
      <4>1. a[o] \in Octets
        BY <2>1
      <4>2. a[o] \in Nat
        BY <1>0, <4>1, Zenon
      <4> QED
        BY <3>2, <4>2
    <3> HIDE DEF l, x
    <3>4. (x - (x % 2 ^ l)) \div 2 ^ e = x \div 2 ^ e
      BY <2>1, <3>1, <3>3, ClearedBelow, Zenon
    <3> QED
      BY <2>2, <3>3, <3>4 DEF x
  <2> QED
    BY <2>3, <2>4
<1> QED
  BY <1>3, <1>4 DEF z

(* Where the octets of the IPv4 address are in one piece, they begin here. *)
FirstBit(pl) == IF pl = 96 THEN 96 ELSE 72

(* The bits of an embedded address are the prefix's and then its own.      *)
LEMMA PlacedBits ==
  ASSUME NEW raw \in [0 .. 15 -> Octets], NEW a \in [0 .. 3 -> Octets],
         NEW c \in [0 .. 3 -> Octets], NEW pl \in {64, 96}
  PROVE  /\ \A i \in 0 .. FirstBit(pl) - 1 :
              BitOf(PlaceIPv4(raw, a, pl), i) = BitOf(PlaceIPv4(raw, c, pl), i)
         /\ \A j \in 0 .. 31 :
              BitOf(PlaceIPv4(raw, a, pl), FirstBit(pl) + j) = BitOf(a, j)
<1> DEFINE pa == PlaceIPv4(raw, a, pl)
           pc0 == PlaceIPv4(raw, c, pl)
           oct == IF pl = 96 THEN 12 ELSE 9
<1>1. /\ FirstBit(pl) = 8 * oct /\ oct \in {9, 12}
      /\ \A k \in 1 .. 4 : Layout(pl)[k] = oct + k - 1
  BY DEF FirstBit, Layout
<1>2. \A k \in 0 .. 3 : pa[oct + k] = a[k]
  <2> SUFFICES ASSUME NEW k \in 0 .. 3
               PROVE  pa[oct + k] = a[k]
    OBVIOUS
  <2>1. pl \in ValidLengths
    BY DEF ValidLengths
  <2>2. ExtractIPv4(pa, pl)[k] = pa[Layout(pl)[k + 1]] /\ ExtractIPv4(pa, pl) = a
    BY <2>1, PlacedIsExtracted DEF ExtractIPv4
  <2>3. k + 1 \in 1 .. 4 /\ Layout(pl)[k + 1] = oct + k
    BY <1>1
  <2> QED
    BY <2>2, <2>3
<1>3. ASSUME NEW o \in 0 .. oct - 1
      PROVE  pa[o] = pc0[o]
  <2>1. o \in 0 .. 15 /\ ~(\E k \in 1 .. 4 : Layout(pl)[k] = o)
    BY <1>1
  <2> QED
    BY <2>1 DEF PlaceIPv4
<1> HIDE DEF pa, pc0, oct
<1>4. ASSUME NEW i \in 0 .. FirstBit(pl) - 1
      PROVE  BitOf(pa, i) = BitOf(pc0, i)
  <2>1. i \div 8 \in 0 .. oct - 1
    BY <1>1
  <2> QED
    BY <1>3, <2>1 DEF BitOf
<1>5. ASSUME NEW j \in 0 .. 31
      PROVE  BitOf(pa, FirstBit(pl) + j) = BitOf(a, j)
  <2>1. /\ (FirstBit(pl) + j) \div 8 = oct + (j \div 8) /\ j \div 8 \in 0 .. 3
        /\ (FirstBit(pl) + j) % 8 = j % 8
    BY <1>1
  <2> QED
    BY <1>2, <2>1 DEF BitOf
<1> QED
  BY <1>4, <1>5 DEF pa, pc0

(* An embedded address is in the block of an IPv4 block exactly when the   *)
(* IPv4 address is in that one, whatever the length.                       *)
LEMMA BlockHolds ==
  ASSUME NEW raw \in [0 .. 15 -> Octets], NEW a \in [0 .. 3 -> Octets],
         NEW net \in [0 .. 3 -> Octets], NEW pl \in {64, 96}, NEW len \in 0 .. 32
  PROVE  SameBits(PlaceIPv4(raw, a, pl),
                  MaskBits(PlaceIPv4(raw, MaskBits(net, len, 4), pl), FirstBit(pl) + len, 16),
                  FirstBit(pl) + len)
           <=> SameBits(a, net, len)
<1> DEFINE cut == MaskBits(net, len, 4)
           pa == PlaceIPv4(raw, a, pl)
           pn == PlaceIPv4(raw, cut, pl)
           far == FirstBit(pl) + len
           block == MaskBits(pn, far, 16)
<1>1. FirstBit(pl) \in {72, 96} /\ far \in 0 .. 128 /\ len \in Nat /\ 4 \in Nat /\ 16 \in Nat
  BY DEF FirstBit
<1>2. cut \in [0 .. 3 -> Octets] /\ \A j \in 0 .. 31 : j < len => BitOf(cut, j) = BitOf(net, j)
  <2>1. 0 .. 8 * 4 - 1 = 0 .. 31 /\ 0 .. 4 - 1 = 0 .. 3
    OBVIOUS
  <2>2. net \in [0 .. 4 - 1 -> Octets]
    BY <2>1, Zenon
  <2>3. /\ cut \in [0 .. 4 - 1 -> Octets]
        /\ \A j \in 0 .. 8 * 4 - 1 : j < len => BitOf(cut, j) = BitOf(net, j)
    BY <1>1, <2>2, MaskKeepsBits, Zenon
  <2> QED
    BY <2>1, <2>3, Zenon
<1> HIDE DEF cut
<1>3. pl \in ValidLengths
  BY DEF ValidLengths
<1>4. pn \in [0 .. 15 -> Octets]
  BY <1>2, <1>3, PlacedIsExtracted
<1>5. /\ \A i \in 0 .. FirstBit(pl) - 1 : BitOf(pa, i) = BitOf(pn, i)
      /\ \A j \in 0 .. 31 : BitOf(pa, FirstBit(pl) + j) = BitOf(a, j)
      /\ \A j \in 0 .. 31 : BitOf(pn, FirstBit(pl) + j) = BitOf(cut, j)
  BY <1>2, PlacedBits
<1> HIDE DEF pa, pn, far
<1>6. \A i \in 0 .. far - 1 : BitOf(block, i) = BitOf(pn, i)
  <2>1. 0 .. 8 * 16 - 1 = 0 .. 127 /\ 0 .. 16 - 1 = 0 .. 15 /\ far \in Nat
    BY <1>1
  <2>2. pn \in [0 .. 16 - 1 -> Octets]
    BY <1>4, <2>1, Zenon
  <2>3. \A i \in 0 .. 8 * 16 - 1 : i < far => BitOf(block, i) = BitOf(pn, i)
    BY <1>1, <2>1, <2>2, MaskKeepsBits, Zenon
  <2>4. \A i \in 0 .. 127 : i < far => BitOf(block, i) = BitOf(pn, i)
    BY <2>1, <2>3, Zenon
  <2> QED
    BY <1>1, <2>4
<1> HIDE DEF block
<1>7. ASSUME SameBits(pa, block, far)
      PROVE  SameBits(a, net, len)
  <2> SUFFICES ASSUME NEW j \in 0 .. len - 1
               PROVE  BitOf(a, j) = BitOf(net, j)
    BY DEF SameBits
  <2>1. FirstBit(pl) + j \in 0 .. far - 1 /\ j \in 0 .. 31 /\ j < len
    BY <1>1 DEF far
  <2> QED
    BY <1>2, <1>5, <1>6, <1>7, <2>1 DEF SameBits
<1>8. ASSUME SameBits(a, net, len)
      PROVE  SameBits(pa, block, far)
  <2> SUFFICES ASSUME NEW i \in 0 .. far - 1
               PROVE  BitOf(pa, i) = BitOf(pn, i)
    BY <1>6 DEF SameBits
  <2>1. CASE i \in 0 .. FirstBit(pl) - 1
    BY <1>5, <2>1
  <2>2. CASE i \notin 0 .. FirstBit(pl) - 1
    <3> DEFINE j == i - FirstBit(pl)
    <3>1. j \in 0 .. len - 1 /\ j \in 0 .. 31 /\ j < len /\ i = FirstBit(pl) + j
      BY <1>1, <2>2 DEF far
    <3> HIDE DEF j
    <3> QED
      BY <1>2, <1>5, <1>8, <3>1 DEF SameBits
  <2> QED
    BY <2>1, <2>2
<1> QED
  BY <1>7, <1>8 DEF pa, pn, far, block, cut

(* The IPv6 block of an IPv4 block holds exactly the addresses of its      *)
(* hosts, and a valid prefix holds every address embedded under it.        *)
THEOREM CidrFormIsRight == Nat64Spec => []CidrFormAgrees
<1>1. Nat64Inv => CidrFormAgrees
  <2> SUFFICES ASSUME Nat64Inv, step = "extract"
               PROVE  CidrFormAgrees
    BY Zenon DEF CidrFormAgrees
  <2> DEFINE pl == nat64.bits
             masked == MaskedRaw(nat64.raw, pl)
             raw == PlaceIPv4(masked, v4, pl)
  <2>1. /\ v4 \in [0 .. 3 -> Octets] /\ nat64.raw \in [0 .. 15 -> Octets]
        /\ V4Addrs \subseteq [0 .. 3 -> Octets]
    <3>1. v4 \in V4Addrs /\ nat64.raw \in Raws
      BY DEF Nat64Inv
    <3> QED
      BY <3>1, Nat64Assumption DEF Octets
  <2>2. masked \in [0 .. 15 -> Octets]
    BY <2>1, MaskedType
  <2>3. pl \in ValidLengths /\ text = <<MixedNotation(raw)>>
    BY DEF Nat64Inv, NAT64Synthesize
  <2>4. raw \in [0 .. 15 -> Octets]
    BY <2>1, <2>2, <2>3, PlacedIsExtracted
  <2>5. ReadMixed(text[1]) = raw
    BY <2>3, <2>4, ReadsBack
  <2>6. ASSUME NAT64PrefixValid(nat64)
        PROVE  SameBits(raw, nat64.raw, pl)
    <3> SUFFICES ASSUME NEW i \in 0 .. pl - 1
                 PROVE  raw[i \div 8] = nat64.raw[i \div 8]
      BY DEF SameBits, BitOf
    <3> DEFINE o == i \div 8
    <3>1. pl \in {32, 40, 48, 56, 64, 96} /\ o \in 0 .. 15 /\ 8 * o < pl
      BY <2>3 DEF ValidLengths
    <3> HIDE DEF o
    <3>2. ~(\E k \in 1 .. 4 : Layout(pl)[k] = o)
      BY <3>1 DEF Layout
    <3>3. raw[o] = IF o = 8 THEN 0 ELSE masked[o]
      BY <3>1, <3>2 DEF PlaceIPv4
    <3>4. masked[o] = nat64.raw[o]
      BY <3>1 DEF MaskedRaw
    <3> QED
      BY <2>6, <3>3, <3>4 DEF NAT64PrefixValid, o
  <2>7. ASSUME NEW net \in V4Addrs, NEW len \in {0, 7, 8, 15, 31, 32}
        PROVE  IF NAT64SynthesizeCIDR(net, len, nat64) = <<>> THEN pl \notin {64, 96}
               ELSE SameBits(raw, NAT64SynthesizeCIDR(net, len, nat64)[1].raw,
                             NAT64SynthesizeCIDR(net, len, nat64)[1].bits)
                      <=> SameBits(v4, net, len)
    <3> DEFINE placed == PlaceIPv4(masked, MaskBits(net, len, 4), pl)
               far == FirstBit(pl) + len
    <3>1. CASE pl \in {64, 96}
      <4>1. CidrLength(pl, len) = far /\ far # -1
        BY <3>1 DEF CidrLength, FirstBit
      <4>2. NAT64SynthesizeCIDR(net, len, nat64) = <<[raw |-> MaskBits(placed, far, 16), bits |-> far]>>
        BY <4>1 DEF NAT64SynthesizeCIDR
      <4>3. net \in [0 .. 3 -> Octets] /\ len \in 0 .. 32
        BY <2>1
      <4>4. SameBits(raw, MaskBits(placed, far, 16), far) <=> SameBits(v4, net, len)
        BY <2>1, <2>2, <3>1, <4>3, BlockHolds
      <4> HIDE DEF placed, far, raw
      <4> QED
        BY <4>2, <4>4
    <3>2. CASE pl \notin {64, 96}
      <4>1. CidrLength(pl, len) = -1
        BY <3>2 DEF CidrLength
      <4>2. NAT64SynthesizeCIDR(net, len, nat64) = <<>>
        BY <4>1 DEF NAT64SynthesizeCIDR
      <4> QED
        BY <3>2, <4>2
    <3> QED
      BY <3>1, <3>2
  <2> HIDE DEF raw
  <2> QED
    BY <2>5, <2>6, <2>7 DEF CidrFormAgrees
<1> QED
  BY <1>1, Nat64Inductive, PTL

-----------------------------------------------------------------------------
(* ip_idunno_encode and ip_idunno_decode                                   *)

(* Where the chunks of a layout start.                                     *)
LEMMA StartFacts ==
  ASSUME NEW layout \in Seq(Nat)
  PROVE  /\ \A i \in 1 .. Len(layout) + 1 : StartOf(layout)[i] \in Nat
         /\ StartOf(layout)[1] = 0
         /\ \A i \in 1 .. Len(layout) : StartOf(layout)[i + 1] = StartOf(layout)[i] + layout[i]
<1> DEFINE n == Len(layout)
           Starts(g) == g = [i \in 1 .. n + 1 |-> IF i = 1 THEN 0 ELSE g[i - 1] + layout[i - 1]]
           F == [x \in (1 .. n) \X Nat |-> x[2] + layout[x[1]]]
<1>1. n \in Nat /\ \A i \in 1 .. n : layout[i] \in Nat
  BY LenProperties, ElementOfSeq
<1> HIDE DEF n
<1>2. F \in [(1 .. n) \X Nat -> Nat]
  BY <1>1
<1>3. \A i \in 1 .. n : \A y \in Nat : F[<<i, y>>] = y + layout[i]
  BY <1>1
<1> HIDE DEF F
<1> DEFINE h == Stepwise(n, Nat, 0, F)
<1>4. h \in [0 .. n -> Nat] /\ h[0] = 0 /\ \A i \in 1 .. n : h[i] = F[<<i, h[i - 1]>>]
  <2>1. 0 \in Nat
    OBVIOUS
  <2>2. IsStepwise(h, n, Nat, 0, F)
    BY <1>1, <1>2, <2>1, StepwiseExists, Zenon
  <2> HIDE DEF h
  <2> QED
    BY <2>2 DEF IsStepwise
<1> HIDE DEF h
<1>5. \A i \in 1 .. n : h[i] = h[i - 1] + layout[i]
  <2> SUFFICES ASSUME NEW i \in 1 .. n
               PROVE  h[i] = h[i - 1] + layout[i]
    OBVIOUS
  <2>1. h[i - 1] \in Nat /\ h[i] = F[<<i, h[i - 1]>>]
    BY <1>1, <1>4
  <2> QED
    BY <1>3, <2>1
<1>6. Starts([i \in 1 .. n + 1 |-> h[i - 1]])
  <2> DEFINE g == [i \in 1 .. n + 1 |-> h[i - 1]]
  <2>1. \A i \in 1 .. n + 1 : g[i] = h[i - 1]
    OBVIOUS
  <2>2. \A i \in 1 .. n + 1 : g[i] = IF i = 1 THEN 0 ELSE g[i - 1] + layout[i - 1]
    <3> SUFFICES ASSUME NEW i \in 1 .. n + 1
                 PROVE  g[i] = IF i = 1 THEN 0 ELSE g[i - 1] + layout[i - 1]
      OBVIOUS
    <3>1. CASE i = 1
      BY <1>4, <2>1, <3>1
    <3>2. CASE i # 1
      <4>1. i - 1 \in 1 .. n /\ i - 1 \in 1 .. n + 1
        BY <1>1, <3>2
      <4> HIDE DEF g
      <4> QED
        BY <1>5, <2>1, <3>2, <4>1
    <3> QED
      BY <3>1, <3>2
  <2>3. g = [i \in 1 .. n + 1 |-> g[i]]
    OBVIOUS
  <2> HIDE DEF g
  <2>4. g = [i \in 1 .. n + 1 |-> IF i = 1 THEN 0 ELSE g[i - 1] + layout[i - 1]]
    BY <2>2, <2>3
  <2> QED
    BY <2>4 DEF g
<1>7. StartOf(layout) = CHOOSE g : Starts(g)
  BY DEF StartOf, n
<1> DEFINE st == StartOf(layout)
<1>8. st = [i \in 1 .. n + 1 |-> IF i = 1 THEN 0 ELSE st[i - 1] + layout[i - 1]]
  BY <1>6, <1>7
<1> HIDE DEF st
<1>9. st[1] = 0
  BY <1>1, <1>8
<1>10. \A i \in 1 .. n : st[i + 1] = st[i] + layout[i]
  <2> SUFFICES ASSUME NEW i \in 1 .. n
               PROVE  st[i + 1] = st[i] + layout[i]
    OBVIOUS
  <2>1. i + 1 \in 1 .. n + 1 /\ i + 1 # 1 /\ (i + 1) - 1 = i
    BY <1>1
  <2> QED
    BY <1>8, <2>1
<1>11. \A i \in 1 .. n + 1 : st[i] \in Nat
  <2> DEFINE bad == {i \in 1 .. n + 1 : st[i] \notin Nat}
  <2> SUFFICES ASSUME bad # {}
               PROVE  FALSE
    OBVIOUS
  <2>1. PICK i \in bad : \A j \in bad : i <= j
    <3>1. bad \subseteq Nat
      OBVIOUS
    <3> QED
      BY <3>1, FirstPosition
  <2>2. i \in 2 .. n + 1
    BY <1>1, <1>9, <2>1
  <2>3. i - 1 \in 1 .. n /\ i - 1 \in 1 .. n + 1 /\ i - 1 \notin bad
    BY <1>1, <2>1, <2>2
  <2>4. st[i - 1] \in Nat /\ layout[i - 1] \in Nat
    BY <1>1, <2>3
  <2>5. st[i] = st[i - 1] + layout[i - 1]
    <3>1. (i - 1) + 1 = i
      BY <2>2
    <3> QED
      BY <1>10, <2>3, <3>1
  <2> QED
    BY <2>4, <2>5
<1> QED
  BY <1>9, <1>10, <1>11 DEF st, n

(* The number some bits are, and the bits of that number.                  *)
LEMMA BitsToIntFacts ==
  ASSUME NEW b \in Seq({0, 1})
  PROVE  /\ BitsToInt(b) \in Nat
         /\ \A i \in 1 .. Len(b) : (BitsToInt(b) \div 2 ^ (Len(b) - i)) % 2 = b[i]
<1> DEFINE n == Len(b)
           Values(g) == g = [i \in 0 .. n |-> IF i = 0 THEN 0 ELSE 2 * g[i - 1] + b[i]]
           F == [x \in (1 .. n) \X Nat |-> 2 * x[2] + b[x[1]]]
<1>1. n \in Nat /\ \A i \in 1 .. n : b[i] \in {0, 1}
  BY LenProperties, ElementOfSeq
<1> HIDE DEF n
<1>2. F \in [(1 .. n) \X Nat -> Nat]
  BY <1>1
<1>3. \A i \in 1 .. n : \A y \in Nat : F[<<i, y>>] = 2 * y + b[i]
  BY <1>1
<1> HIDE DEF F
<1> DEFINE g == Stepwise(n, Nat, 0, F)
<1>4. g \in [0 .. n -> Nat] /\ g[0] = 0 /\ \A i \in 1 .. n : g[i] = F[<<i, g[i - 1]>>]
  <2>1. 0 \in Nat
    OBVIOUS
  <2>2. IsStepwise(g, n, Nat, 0, F)
    BY <1>1, <1>2, <2>1, StepwiseExists, Zenon
  <2> HIDE DEF g
  <2> QED
    BY <2>2 DEF IsStepwise
<1> HIDE DEF g
<1>5. Values(g)
  <2>1. \A i \in 0 .. n : g[i] = IF i = 0 THEN 0 ELSE 2 * g[i - 1] + b[i]
    <3> SUFFICES ASSUME NEW i \in 0 .. n
                 PROVE  g[i] = IF i = 0 THEN 0 ELSE 2 * g[i - 1] + b[i]
      OBVIOUS
    <3>1. CASE i = 0
      BY <1>4, <3>1
    <3>2. CASE i # 0
      <4>1. i \in 1 .. n /\ g[i - 1] \in Nat
        BY <1>1, <1>4, <3>2
      <4> QED
        BY <1>3, <1>4, <3>2, <4>1
    <3> QED
      BY <3>1, <3>2
  <2>2. g = [i \in 0 .. n |-> g[i]]
    BY <1>4
  <2> QED
    BY <2>1, <2>2
<1> DEFINE v == CHOOSE h : Values(h)
<1>6. BitsToInt(b) = v[n]
  BY DEF BitsToInt, n
<1>7. v = [i \in 0 .. n |-> IF i = 0 THEN 0 ELSE 2 * v[i - 1] + b[i]]
  BY <1>5
<1> HIDE DEF v
<1>8. v[0] = 0 /\ \A i \in 1 .. n : v[i] = 2 * v[i - 1] + b[i]
  BY <1>1, <1>7
<1>9. \A i \in 0 .. n : v[i] \in Nat
  <2> DEFINE bad == {i \in 0 .. n : v[i] \notin Nat}
  <2> SUFFICES ASSUME bad # {}
               PROVE  FALSE
    OBVIOUS
  <2>1. PICK i \in bad : \A j \in bad : i <= j
    <3>1. bad \subseteq Nat
      OBVIOUS
    <3> QED
      BY <3>1, FirstPosition
  <2>2. i \in 1 .. n /\ i - 1 \in 0 .. n /\ i - 1 \notin bad
    BY <1>1, <1>8, <2>1
  <2>3. v[i - 1] \in Nat
    BY <2>2
  <2>4. b[i] \in {0, 1}
    BY <1>1, <2>2
  <2>5. v[i] = 2 * v[i - 1] + b[i]
    BY <1>8, <2>2
  <2>6. v[i] \in Nat
    BY <2>3, <2>4, <2>5
  <2> QED
    BY <2>1, <2>6
<1>10. ASSUME NEW i \in 1 .. n
       PROVE  \A k \in i .. n : v[i] * 2 ^ (k - i) <= v[k] /\ v[k] < (v[i] + 1) * 2 ^ (k - i)
  <2> DEFINE Within(k) == v[i] * 2 ^ (k - i) <= v[k] /\ v[k] < (v[i] + 1) * 2 ^ (k - i)
             bad == {k \in i .. n : ~Within(k)}
  <2> SUFFICES ASSUME bad # {}
               PROVE  FALSE
    OBVIOUS
  <2>1. PICK k \in bad : \A j \in bad : k <= j
    <3>1. bad \subseteq Nat
      OBVIOUS
    <3> QED
      BY <3>1, FirstPosition
  <2>2. k # i
    <3>1. 2 ^ 0 = 1 /\ i - i = 0 /\ v[i] \in Nat
      BY <1>9
    <3>2. 2 ^ (i - i) = 1
      BY <3>1
    <3>3. v[i] * 1 <= v[i] /\ v[i] < (v[i] + 1) * 1
      BY <3>1
    <3>4. Within(i)
      BY <3>2, <3>3
    <3> HIDE DEF Within
    <3>5. i \notin bad
      BY <3>4
    <3> QED
      BY <2>1, <3>5
  <2>3. k \in 1 .. n /\ k - 1 \in i .. n /\ k - 1 \notin bad /\ k - 1 \in 0 .. n
    BY <1>1, <2>1, <2>2
  <2>4. Within(k - 1)
    BY <2>3
  <2> DEFINE e == k - 1 - i
             d == 2 ^ e
             x == v[k - 1]
             y == v[i]
  <2>5. e \in Nat /\ d \in Nat /\ 2 ^ (k - i) = 2 * d
    <3>1. e \in Nat /\ k - i = e + 1
      BY <2>3
    <3> QED
      BY <3>1, PowerType, TwiceTheSubsets
  <2>6. x \in Nat /\ y \in Nat /\ v[k] = 2 * x + b[k] /\ b[k] \in {0, 1}
    BY <1>1, <1>8, <1>9, <2>3
  <2>7. y * d <= x /\ x < (y + 1) * d
    BY <2>4
  <2> HIDE DEF d, x, y
  <2>8. y * (2 * d) = 2 * (y * d) /\ (y + 1) * (2 * d) = 2 * ((y + 1) * d)
        /\ y * d \in Nat /\ (y + 1) * d \in Nat
    <3>1. \A r, s \in Nat : r * (2 * s) = 2 * (r * s) /\ r * s \in Nat
      OBVIOUS
    <3>2. y + 1 \in Nat
      BY <2>6
    <3>3. y * (2 * d) = 2 * (y * d) /\ y * d \in Nat
      BY <2>5, <2>6, <3>1
    <3>4. (y + 1) * (2 * d) = 2 * ((y + 1) * d) /\ (y + 1) * d \in Nat
      BY <2>5, <3>1, <3>2
    <3> QED
      BY <3>3, <3>4
  <2>9. y * (2 * d) <= v[k] /\ v[k] < (y + 1) * (2 * d)
    BY <2>6, <2>7, <2>8, SMTT(20)
  <2>10. Within(k)
    BY <2>5, <2>9 DEF y
  <2> HIDE DEF Within
  <2>11. k \notin bad
    BY <2>10
  <2> QED
    BY <2>1, <2>11
<1>11. ASSUME NEW i \in 1 .. n
       PROVE  (v[n] \div 2 ^ (n - i)) % 2 = b[i]
  <2>1. n \in i .. n /\ n - i \in Nat
    BY <1>1
  <2>2. v[i] * 2 ^ (n - i) <= v[n] /\ v[n] < (v[i] + 1) * 2 ^ (n - i)
    BY <1>10, <2>1
  <2>3. v[n] \in Nat /\ v[i] \in Nat /\ 2 ^ (n - i) \in Nat /\ 2 ^ (n - i) >= 1
    BY <1>1, <1>9, <2>1, PowerType
  <2>4. v[n] \div 2 ^ (n - i) = v[i]
    BY <2>2, <2>3, QuotientIs
  <2>5. v[i] = 2 * v[i - 1] + b[i] /\ v[i - 1] \in Nat /\ b[i] \in {0, 1}
    BY <1>1, <1>8, <1>9
  <2>6. \A r \in Nat : \A c \in {0, 1} : (2 * r + c) % 2 = c
    OBVIOUS
  <2> QED
    BY <2>4, <2>5, <2>6
<1> QED
  BY <1>1, <1>6, <1>9, <1>11 DEF n

(* The sizes of chunks: the bits of a code point in UTF-8.                 *)
Sizes == {7, 11, 16, 21}

(* A code point that is valid for a chunk is read as bits of that length.  *)
LEMMA ValidBits ==
  ASSUME NEW v \in Nat, NEW n \in Sizes, ValidCP(v, n)
  PROVE  /\ BitsOf(v) = [j \in 1 .. n |-> (v \div 2 ^ (n - j)) % 2]
         /\ BitsOf(v) \in Seq({0, 1}) /\ Len(BitsOf(v)) = n
<1>1. BitsForCodepoint(v) = n
  <2>1. CASE n = 7
    <3>1. v < 128 /\ ~(128 <= v) /\ ~(2048 <= v)
      BY <2>1 DEF ValidCP
    <3> QED
      BY <2>1, <3>1 DEF BitsForCodepoint
  <2>2. CASE n = 11
    <3>1. ~(v < 128) /\ 128 <= v /\ v < 2048 /\ ~(2048 <= v)
      BY <2>2 DEF ValidCP
    <3> QED
      BY <2>2, <3>1 DEF BitsForCodepoint
  <2>3. CASE n = 16
    <3>1. ~(v < 128) /\ ~(v < 2048) /\ 2048 <= v /\ v < 65536
      BY <2>3 DEF ValidCP
    <3> QED
      BY <2>3, <3>1 DEF BitsForCodepoint
  <2>4. CASE n = 21
    <3>1. ~(v < 128) /\ ~(v < 2048) /\ ~(v < 65536)
      BY <2>4 DEF ValidCP
    <3> QED
      BY <2>4, <3>1 DEF BitsForCodepoint
  <2> QED
    BY <2>1, <2>2, <2>3, <2>4 DEF Sizes
<1>2. BitsOf(v) = [j \in 1 .. n |-> (v \div 2 ^ (n - j)) % 2]
  BY <1>1 DEF BitsOf
<1>3. ASSUME NEW j \in 1 .. n
      PROVE  (v \div 2 ^ (n - j)) % 2 \in {0, 1}
  <2>1. n - j \in Nat
    BY DEF Sizes
  <2>2. 2 ^ (n - j) \in Nat /\ 2 ^ (n - j) >= 1
    BY <2>1, PowerType
  <2>3. v \div 2 ^ (n - j) \in Nat
    BY <2>2
  <2> QED
    BY <2>3
<1>4. BitsOf(v) \in [1 .. n -> {0, 1}]
  BY <1>2, <1>3
<1>5. n \in Nat
  BY DEF Sizes
<1> QED
  BY <1>2, <1>4, <1>5, FunctionsAreSequences

(* Padding leaves the bits before it as they were.                         *)
LEMMA PaddedQuotient ==
  ASSUME NEW x \in Nat, NEW pad \in Nat, NEW k \in Nat, NEW v \in Nat,
         x * 2 ^ pad <= v, v < x * 2 ^ pad + 2 ^ pad
  PROVE  v \div 2 ^ (pad + k) = x \div 2 ^ k
<1> DEFINE P == 2 ^ pad
           C == 2 ^ k
           t == x \div C
<1>1. P \in Nat /\ P >= 1 /\ C \in Nat /\ C >= 1 /\ 2 ^ (pad + k) = P * C
  BY PowerType, PowerSum
<1> HIDE DEF P, C
<1>2. t \in Nat /\ t * C <= x /\ x + 1 <= (t + 1) * C
  <2>1. \A a, b \in Nat : b >= 1 => /\ a \div b \in Nat /\ (a \div b) * b <= a
                                    /\ a < ((a \div b) + 1) * b
    OBVIOUS
  <2>2. t \in Nat /\ t * C <= x /\ x < (t + 1) * C
    BY <1>1, <2>1
  <2>3. (t + 1) * C \in Nat
    BY <1>1, <2>2
  <2> QED
    BY <2>2, <2>3
<1> HIDE DEF t
<1>3. /\ \A a, b, c \in Nat : a * (b * c) = (a * c) * b /\ a * b \in Nat
      /\ \A a, b \in Nat : (a + 1) * b = a * b + b
  OBVIOUS
<1>4. /\ t * C \in Nat /\ (t + 1) * C \in Nat
      /\ t * (P * C) = (t * C) * P /\ (t + 1) * (P * C) = ((t + 1) * C) * P
      /\ (x + 1) * P = x * P + P /\ P * C \in Nat /\ P * C >= 1
  <2>1. \A a, b \in Nat : a >= 1 /\ b >= 1 => a * b >= 1
    OBVIOUS
  <2> QED
    BY <1>1, <1>2, <1>3, <2>1
<1>5. (t * C) * P <= x * P
  BY <1>1, <1>2, <1>4, ProductOrder
<1>6. (x + 1) * P <= ((t + 1) * C) * P
  <2>1. x + 1 \in Nat
    OBVIOUS
  <2> QED
    BY <1>1, <1>2, <1>4, <2>1, ProductOrder
<1>7. x * P <= v /\ v < x * P + P /\ x * P \in Nat
  BY <1>1, <1>3 DEF P
<1>8. (t * C) * P \in Nat /\ ((t + 1) * C) * P \in Nat
  BY <1>1, <1>3, <1>4
<1>9. t * (P * C) <= v /\ v < (t + 1) * (P * C)
  BY <1>1, <1>4, <1>5, <1>6, <1>7, <1>8
<1>10. v \div (P * C) = t
  BY <1>2, <1>4, <1>9, QuotientIs
<1> QED
  BY <1>1, <1>10 DEF t, C

(* What padding is picked is valid and behind the bits of the chunk.       *)
LEMMA PaddingFacts ==
  ASSUME NEW chunk \in Seq({0, 1}), NEW pad \in Nat, NEW n,
         PickPaddingValue(chunk, pad, n) # -1
  PROVE  /\ PickPaddingValue(chunk, pad, n) \in Nat
         /\ ValidCP(PickPaddingValue(chunk, pad, n), n)
         /\ BitsToInt(chunk) * 2 ^ pad <= PickPaddingValue(chunk, pad, n)
         /\ PickPaddingValue(chunk, pad, n) < BitsToInt(chunk) * 2 ^ pad + 2 ^ pad
<1> DEFINE base == BitsToInt(chunk) * 2 ^ pad
           good == {v \in base .. base + 2 ^ pad - 1 : ValidCP(v, n)}
           odd == {v \in good : Disallowed(v)}
           FirstIn(V) == CHOOSE v \in V : \A w \in V : v <= w
           picked == PickPaddingValue(chunk, pad, n)
<1>1. base \in Nat /\ 2 ^ pad \in Nat
  <2>1. BitsToInt(chunk) \in Nat /\ 2 ^ pad \in Nat
    BY BitsToIntFacts, PowerType
  <2>2. \A a, b \in Nat : a * b \in Nat
    OBVIOUS
  <2> QED
    BY <2>1, <2>2
<1>2. picked = IF odd # {} THEN FirstIn(odd) ELSE IF good # {} THEN FirstIn(good) ELSE -1
  BY DEF PickPaddingValue
<1> HIDE DEF base, picked
<1>3. good \subseteq Nat /\ odd \subseteq good /\ odd \subseteq Nat
  BY <1>1
<1>4. ASSUME NEW V, V \subseteq Nat, V # {}
      PROVE  FirstIn(V) \in V
  <2>1. \E v \in V : \A w \in V : v <= w
    BY <1>4, FirstPosition
  <2> QED
    BY <2>1
<1> HIDE DEF FirstIn, good, odd
<1>5. picked \in good
  <2>1. CASE odd # {}
    <3>1. picked = FirstIn(odd) /\ FirstIn(odd) \in odd
      BY <1>2, <1>3, <1>4, <2>1
    <3> QED
      BY <1>3, <3>1
  <2>2. CASE odd = {} /\ good # {}
    BY <1>2, <1>3, <1>4, <2>2
  <2>3. CASE odd = {} /\ good = {}
    <3>1. picked = -1
      BY <1>2, <2>3
    <3> QED
      BY <3>1 DEF picked
  <2> QED
    BY <2>1, <2>2, <2>3
<1>6. picked \in base .. base + 2 ^ pad - 1 /\ ValidCP(picked, n)
  BY <1>5 DEF good
<1>7. picked \in Nat /\ base <= picked /\ picked < base + 2 ^ pad
  BY <1>1, <1>6
<1> QED
  BY <1>6, <1>7 DEF base, picked

(* Only the last chunk reaches beyond the address.                         *)
LEMMA ChunksInside ==
  ASSUME NEW layout \in Seq(Sizes), bits \in Seq({0, 1}),
         \A i \in 1 .. Len(layout) : Chunk(layout, i) # -1
  PROVE  \A i \in 1 .. Len(layout) : StartOf(layout)[i] \in 0 .. Len(bits)
<1> SUFFICES ASSUME NEW i \in 1 .. Len(layout)
             PROVE  StartOf(layout)[i] \in 0 .. Len(bits)
  OBVIOUS
<1>1. Len(layout) \in Nat /\ Len(bits) \in Nat /\ layout \in Seq(Nat)
  BY DEF Sizes
<1>2. StartOf(layout)[i] \in Nat /\ StartOf(layout)[1] = 0
  <2>1. i \in 1 .. Len(layout) + 1
    BY <1>1
  <2> QED
    BY <1>1, <2>1, StartFacts
<1>3. CASE i = 1
  BY <1>1, <1>2, <1>3
<1>4. CASE i # 1
  <2> DEFINE k == i - 1
  <2>1. k \in 1 .. Len(layout) /\ k < Len(layout) /\ k + 1 = i
    BY <1>1, <1>4
  <2>2. Chunk(layout, k) # -1
    BY <2>1
  <2> HIDE DEF k
  <2>3. StartOf(layout)[k + 1] <= Len(bits)
    BY <2>1, <2>2 DEF Chunk
  <2> QED
    BY <1>1, <1>2, <2>1, <2>3
<1> QED
  BY <1>3, <1>4

(* A chunk is the bits of the address at its place.                        *)
LEMMA ChunkBits ==
  ASSUME NEW layout \in Seq(Sizes), bits \in Seq({0, 1}),
         \A k \in 1 .. Len(layout) : Chunk(layout, k) # -1,
         NEW i \in 1 .. Len(layout)
  PROVE  /\ Chunk(layout, i) \in Nat
         /\ BitsOf(Chunk(layout, i)) \in Seq({0, 1})
         /\ Len(BitsOf(Chunk(layout, i))) = layout[i]
         /\ \A j \in 1 .. layout[i] : StartOf(layout)[i] + j <= Len(bits)
              => BitsOf(Chunk(layout, i))[j] = bits[StartOf(layout)[i] + j]
<1> DEFINE v == Chunk(layout, i)
           n == layout[i]
           from == StartOf(layout)[i]
           to == StartOf(layout)[i + 1]
           size == Len(bits)
<1>1. /\ layout \in Seq(Nat) /\ n \in Sizes /\ n \in Nat /\ n >= 1 /\ size \in Nat
      /\ from \in 0 .. size /\ to = from + n /\ v # -1
  <2>1. layout \in Seq(Nat)
    BY DEF Sizes
  <2>2. n \in Sizes
    OBVIOUS
  <2>3. n \in Nat /\ n >= 1
    BY <2>2 DEF Sizes
  <2>4. from \in 0 .. size
    BY ChunksInside, Zenon
  <2>5. to = from + n
    BY <2>1, StartFacts
  <2>6. size \in Nat /\ v # -1
    BY LenProperties
  <2> QED
    BY <2>1, <2>2, <2>3, <2>4, <2>5, <2>6
<1>2. v = LET chunk == SubSeq(bits, from + 1, to) IN
            IF to <= size
            THEN IF ValidCP(BitsToInt(chunk), n) THEN BitsToInt(chunk) ELSE -1
            ELSE IF i < Len(layout) THEN -1
            ELSE PickPaddingValue(SubSeq(bits, from + 1, size), to - size, n)
  BY DEF Chunk
<1> HIDE DEF v, n, from, to, size
<1>b. \A k \in 1 .. size : bits[k] \in {0, 1}
  BY LenProperties, ElementOfSeq DEF size
<1>c. ASSUME NEW stop \in from .. size
      PROVE  /\ SubSeq(bits, from + 1, stop) \in Seq({0, 1})
             /\ Len(SubSeq(bits, from + 1, stop)) = stop - from
             /\ \A j \in 1 .. stop - from : SubSeq(bits, from + 1, stop)[j] = bits[from + j]
  <2> DEFINE s == SubSeq(bits, from + 1, stop)
  <2>1. from + 1 \in Int /\ stop \in Int /\ \A k \in from + 1 .. stop : bits[k] \in {0, 1}
    BY <1>1, <1>b
  <2>2. /\ s \in Seq({0, 1})
        /\ Len(s) = IF from + 1 <= stop THEN stop - (from + 1) + 1 ELSE 0
        /\ \A j \in 1 .. stop - (from + 1) + 1 : s[j] = bits[from + 1 + j - 1]
    BY <2>1, SubSeqProperties
  <2>3. Len(s) = stop - from /\ stop - (from + 1) + 1 = stop - from
    BY <1>1, <2>2
  <2>4. \A j \in 1 .. stop - from : from + 1 + j - 1 = from + j
    BY <1>1
  <2> HIDE DEF s
  <2> QED
    BY <2>2, <2>3, <2>4 DEF s
<1>3. CASE to <= size
  <2> DEFINE chunk == SubSeq(bits, from + 1, to)
  <2>1. to \in from .. size /\ to - from = n
    BY <1>1, <1>3
  <2>2. /\ chunk \in Seq({0, 1}) /\ Len(chunk) = n
        /\ \A j \in 1 .. n : chunk[j] = bits[from + j]
    BY <1>c, <2>1
  <2>3. v = BitsToInt(chunk) /\ ValidCP(v, n)
    BY <1>1, <1>2, <1>3
  <2> HIDE DEF chunk
  <2>4. v \in Nat /\ \A j \in 1 .. n : (v \div 2 ^ (n - j)) % 2 = chunk[j]
    BY <2>2, <2>3, BitsToIntFacts
  <2>5. /\ BitsOf(v) = [j \in 1 .. n |-> (v \div 2 ^ (n - j)) % 2]
        /\ BitsOf(v) \in Seq({0, 1}) /\ Len(BitsOf(v)) = n
    BY <1>1, <2>3, <2>4, ValidBits
  <2>6. \A j \in 1 .. n : BitsOf(v)[j] = bits[from + j]
    BY <2>2, <2>4, <2>5
  <2> QED
    BY <2>4, <2>5, <2>6 DEF v, n, from
<1>4. CASE ~(to <= size)
  <2> DEFINE chunk == SubSeq(bits, from + 1, size)
             l == size - from
             pad == to - size
             x == BitsToInt(chunk)
  <2>1. size \in from .. size /\ l \in Nat /\ pad \in Nat /\ l + pad = n
    BY <1>1, <1>4
  <2>2. /\ chunk \in Seq({0, 1}) /\ Len(chunk) = l
        /\ \A j \in 1 .. l : chunk[j] = bits[from + j]
    BY <1>c, <2>1
  <2>3. v = PickPaddingValue(chunk, pad, n)
    BY <1>1, <1>2, <1>4
  <2> HIDE DEF chunk, pad, l
  <2>4. v \in Nat /\ ValidCP(v, n) /\ x * 2 ^ pad <= v /\ v < x * 2 ^ pad + 2 ^ pad
    BY <1>1, <2>1, <2>2, <2>3, PaddingFacts
  <2>5. x \in Nat /\ \A j \in 1 .. l : (x \div 2 ^ (l - j)) % 2 = chunk[j]
    BY <2>2, BitsToIntFacts
  <2> HIDE DEF x
  <2>6. /\ BitsOf(v) = [j \in 1 .. n |-> (v \div 2 ^ (n - j)) % 2]
        /\ BitsOf(v) \in Seq({0, 1}) /\ Len(BitsOf(v)) = n
    BY <1>1, <2>4, ValidBits
  <2>7. ASSUME NEW j \in 1 .. n, from + j <= size
        PROVE  BitsOf(v)[j] = bits[from + j]
    <3>1. j \in 1 .. l /\ l - j \in Nat /\ n - j = pad + (l - j)
      BY <1>1, <2>1, <2>7 DEF l
    <3>2. v \div 2 ^ (pad + (l - j)) = x \div 2 ^ (l - j)
      <4> DEFINE k == l - j
      <4>1. k \in Nat
        BY <3>1
      <4> HIDE DEF k
      <4>2. x * 2 ^ pad <= v /\ v < x * 2 ^ pad + 2 ^ pad
        BY <2>4 DEF x
      <4>3. v \div 2 ^ (pad + k) = x \div 2 ^ k
        <5>1. x \in Nat /\ pad \in Nat /\ v \in Nat
          BY <2>1, <2>4, <2>5
        <5>2. \A x0 \in Nat : \A p0 \in Nat : \A k0 \in Nat : \A v0 \in Nat :
                x0 * 2 ^ p0 <= v0 /\ v0 < x0 * 2 ^ p0 + 2 ^ p0
                  => v0 \div 2 ^ (p0 + k0) = x0 \div 2 ^ k0
          BY PaddedQuotient
        <5> QED
          <6>1. \A k0 \in Nat : \A v0 \in Nat :
                  x * 2 ^ pad <= v0 /\ v0 < x * 2 ^ pad + 2 ^ pad
                    => v0 \div 2 ^ (pad + k0) = x \div 2 ^ k0
            BY <5>1, <5>2, Zenon
          <6>2. x * 2 ^ pad <= v /\ v < x * 2 ^ pad + 2 ^ pad
                    => v \div 2 ^ (pad + k) = x \div 2 ^ k
            BY <4>1, <5>1, <6>1, Zenon
          <6> QED
            BY <4>2, <6>2, Zenon
      <4> QED
        BY <4>3 DEF k
    <3>3. BitsOf(v)[j] = (v \div 2 ^ (n - j)) % 2
      BY <2>6
    <3> QED
      BY <2>2, <2>5, <3>1, <3>2, <3>3
  <2> QED
    BY <2>4, <2>6, <2>7 DEF v, n, from, size
<1> QED
  BY <1>3, <1>4

(* Joined, the chunks are the address and what was added to it.            *)
LEMMA AllBitsFacts ==
  ASSUME NEW layout \in Seq(Sizes), bits \in Seq({0, 1}), NEW points,
         points = [i \in DOMAIN layout |-> Chunk(layout, i)],
         \A i \in DOMAIN points : points[i] # -1
  PROVE  /\ AllBits(points) \in Seq({0, 1})
         /\ Len(AllBits(points)) = StartOf(layout)[Len(layout) + 1]
         /\ \A j \in 1 .. Len(AllBits(points)) : j <= Len(bits) => AllBits(points)[j] = bits[j]
<1> DEFINE n == Len(layout)
           Bits == Seq({0, 1})
           st == StartOf(layout)
           Joined(g) == g = [i \in 0 .. n |-> IF i = 0 THEN <<>> ELSE g[i - 1] \o BitsOf(points[i])]
           F == [x \in (1 .. n) \X Bits |-> x[2] \o BitsOf(points[x[1]])]
<1>1. /\ n \in Nat /\ DOMAIN layout = 1 .. n /\ DOMAIN points = 1 .. n
      /\ \A i \in 1 .. n : points[i] = Chunk(layout, i) /\ Chunk(layout, i) # -1
  <2>1. DOMAIN layout = 1 .. n /\ n \in Nat
    BY LenProperties
  <2>2. DOMAIN points = 1 .. n /\ \A i \in 1 .. n : points[i] = Chunk(layout, i)
    BY <2>1
  <2> HIDE DEF n
  <2> QED
    BY <2>1, <2>2
<1>2. /\ \A i \in 1 .. n + 1 : st[i] \in Nat
      /\ st[1] = 0 /\ \A i \in 1 .. n : st[i + 1] = st[i] + layout[i]
  <2>1. layout \in Seq(Nat)
    BY DEF Sizes
  <2> QED
    BY <2>1, StartFacts
<1>3. ASSUME NEW i \in 1 .. n
      PROVE  /\ points[i] \in Nat /\ BitsOf(points[i]) \in Bits
             /\ Len(BitsOf(points[i])) = layout[i]
             /\ \A j \in 1 .. layout[i] : st[i] + j <= Len(bits)
                  => BitsOf(points[i])[j] = bits[st[i] + j]
  BY <1>1, ChunkBits
<1>4. Len(points) = n
  <2>1. points \in [1 .. n -> Nat]
    <3>1. points = [i \in 1 .. n |-> points[i]]
      BY <1>1
    <3> QED
      BY <1>3, <3>1
  <2> QED
    BY <1>1, <2>1, FunctionsAreSequences
<1>l. \A i \in 1 .. n : layout[i] \in Nat
  BY DEF Sizes
<1> HIDE DEF n, st, Bits
<1>5. <<>> \in Bits /\ \A s, t : s \in Bits /\ t \in Bits => s \o t \in Bits
  BY DEF Bits
<1>6. F \in [(1 .. n) \X Bits -> Bits]
  BY <1>3, <1>5
<1>7. \A i \in 1 .. n : \A y \in Bits : F[<<i, y>>] = y \o BitsOf(points[i])
  OBVIOUS
<1> HIDE DEF F
<1> DEFINE g == Stepwise(n, Bits, <<>>, F)
<1>8. g \in [0 .. n -> Bits] /\ g[0] = <<>> /\ \A i \in 1 .. n : g[i] = F[<<i, g[i - 1]>>]
  <2>1. IsStepwise(g, n, Bits, <<>>, F)
    BY <1>1, <1>5, <1>6, StepwiseExists, Zenon
  <2> HIDE DEF g
  <2> QED
    BY <2>1 DEF IsStepwise
<1> HIDE DEF g
<1>9. Joined(g)
  <2>1. \A i \in 0 .. n : g[i] = IF i = 0 THEN <<>> ELSE g[i - 1] \o BitsOf(points[i])
    <3> SUFFICES ASSUME NEW i \in 0 .. n
                 PROVE  g[i] = IF i = 0 THEN <<>> ELSE g[i - 1] \o BitsOf(points[i])
      OBVIOUS
    <3>1. CASE i = 0
      BY <1>8, <3>1
    <3>2. CASE i # 0
      <4>1. i \in 1 .. n /\ i - 1 \in 0 .. n
        BY <1>1, <3>2
      <4>2. g[i - 1] \in Bits
        BY <1>8, <4>1
      <4> QED
        BY <1>7, <1>8, <3>2, <4>1, <4>2
    <3> QED
      BY <3>1, <3>2
  <2>2. g = [i \in 0 .. n |-> g[i]]
    BY <1>8
  <2> QED
    BY <2>1, <2>2
<1> DEFINE h == CHOOSE f : Joined(f)
<1>10. AllBits(points) = h[n]
  BY <1>4, Zenon DEF AllBits
<1>11. h = [i \in 0 .. n |-> IF i = 0 THEN <<>> ELSE h[i - 1] \o BitsOf(points[i])]
  BY <1>9
<1> HIDE DEF h
<1>12. h[0] = <<>> /\ \A i \in 1 .. n : h[i] = h[i - 1] \o BitsOf(points[i])
  BY <1>1, <1>11
<1> DEFINE Whole(i) == /\ h[i] \in Bits /\ Len(h[i]) = st[i + 1]
                       /\ \A j \in 1 .. st[i + 1] : j <= Len(bits) => h[i][j] = bits[j]
<1>13. ASSUME NEW i \in 1 .. n, Whole(i - 1)
       PROVE  Whole(i)
  <2> DEFINE s == h[i - 1]
             b == BitsOf(points[i])
             m == layout[i]
  <2>1. /\ s \in Bits /\ Len(s) = st[i] /\ i - 1 + 1 = i
        /\ \A j \in 1 .. st[i] : j <= Len(bits) => s[j] = bits[j]
    <3>1. i - 1 + 1 = i
      OBVIOUS
    <3> QED
      BY <1>13, <3>1
  <2>2. /\ b \in Bits /\ Len(b) = m
        /\ \A j \in 1 .. m : st[i] + j <= Len(bits) => b[j] = bits[st[i] + j]
    BY <1>3
  <2>3. h[i] = s \o b /\ st[i + 1] = st[i] + m /\ st[i] \in Nat /\ m \in Nat
    <3>1. i \in 1 .. n + 1
      BY <1>1
    <3> QED
      BY <1>2, <1>12, <1>l, <3>1
  <2> HIDE DEF s, b, m
  <2>4. /\ s \o b \in Bits /\ Len(s \o b) = st[i] + m
        /\ \A j \in 1 .. st[i] + m : (s \o b)[j] = IF j <= st[i] THEN s[j] ELSE b[j - st[i]]
    <3>1. s \in Seq({0, 1}) /\ b \in Seq({0, 1})
      BY <2>1, <2>2 DEF Bits
    <3>2. /\ s \o b \in Seq({0, 1}) /\ Len(s \o b) = Len(s) + Len(b)
          /\ \A j \in 1 .. Len(s) + Len(b) :
               (s \o b)[j] = IF j <= Len(s) THEN s[j] ELSE b[j - Len(s)]
      BY <3>1, ConcatProperties, Zenon
    <3> QED
      BY <2>1, <2>2, <3>2 DEF Bits
  <2>5. ASSUME NEW j \in 1 .. st[i] + m, j <= Len(bits)
        PROVE  (s \o b)[j] = bits[j]
    <3>1. CASE j <= st[i]
      <4>1. j \in 1 .. st[i]
        BY <2>3, <3>1
      <4> QED
        BY <2>1, <2>4, <2>5, <3>1, <4>1
    <3>2. CASE ~(j <= st[i])
      <4>1. j - st[i] \in 1 .. m /\ st[i] + (j - st[i]) = j
        BY <2>3, <3>2
      <4> QED
        BY <2>2, <2>4, <2>5, <3>2, <4>1
    <3> QED
      BY <3>1, <3>2
  <2> QED
    BY <2>3, <2>4, <2>5
<1>14. Whole(0)
  <2>1. h[0] \in Bits /\ Len(h[0]) = 0 /\ st[0 + 1] = 0 /\ 1 .. 0 = {}
    BY <1>2, <1>5, <1>12
  <2> QED
    BY <2>1
<1> DEFINE bad == {i \in 0 .. n : ~Whole(i)}
<1> HIDE DEF Whole
<1>15. bad = {}
  <2> SUFFICES ASSUME bad # {}
               PROVE  FALSE
    OBVIOUS
  <2>1. PICK i \in bad : \A k \in bad : i <= k
    <3>1. bad \subseteq Nat
      OBVIOUS
    <3> QED
      BY <3>1, FirstPosition
  <2>2. i # 0
    BY <1>14, <2>1
  <2>3. i \in 1 .. n /\ i - 1 \in 0 .. n /\ i - 1 \notin bad
    BY <1>1, <2>1, <2>2
  <2>4. Whole(i - 1)
    BY <2>3
  <2> QED
    BY <1>13, <2>1, <2>3, <2>4
<1>16. Whole(n)
  <2>1. n \in 0 .. n /\ n \notin bad
    BY <1>1, <1>15
  <2> QED
    BY <2>1
<1> QED
  BY <1>10, <1>16 DEF Whole, n, st, Bits

(* What is decoded from the chunks of a layout that fits is the address.   *)
LEMMA DecodedIsAddress ==
  ASSUME NEW layout \in Seq(Sizes), bits \in Seq({0, 1}), Len(bits) \in {32, 128},
         Fits(layout), NEW points,
         points = [i \in DOMAIN layout |-> Chunk(layout, i)],
         \A i \in DOMAIN points : points[i] # -1
  PROVE  IDunnoDecode(points) = Unmapped(bits)
<1> DEFINE all == AllBits(points)
           size == Len(bits)
           sum == StartOf(layout)[Len(layout) + 1]
<1>1. /\ all \in Seq({0, 1}) /\ Len(all) = sum
      /\ \A j \in 1 .. Len(all) : j <= size => all[j] = bits[j]
  BY AllBitsFacts
<1>2. size \in {32, 128} /\ sum >= size /\ sum - size <= 20
  BY DEF Fits, MaxPad
<1>3. IDunnoDecode(points) =
        CASE Len(all) \in 32 .. 32 + MaxPad   -> SubSeq(all, 1, 32)
          [] Len(all) \in 128 .. 128 + MaxPad -> Unmapped(SubSeq(all, 1, 128))
          [] OTHER -> <<>>
  BY DEF IDunnoDecode
<1> HIDE DEF all, size, sum
<1>4. Len(all) \in Nat /\ sum \in Nat /\ bits \in Seq({0, 1})
  BY <1>1, LenProperties
<1>5. SubSeq(all, 1, size) = bits
  <2>1. \A k \in 1 .. size : all[k] \in {0, 1}
    BY <1>1, <1>2, <1>4, ElementOfSeq
  <2> DEFINE s == SubSeq(all, 1, size)
  <2>2. 1 \in Int /\ size \in Int
    BY <1>2
  <2>3. /\ s \in Seq({0, 1}) /\ Len(s) = IF 1 <= size THEN size - 1 + 1 ELSE 0
        /\ \A i \in 1 .. size - 1 + 1 : s[i] = all[1 + i - 1]
    BY <2>1, <2>2, SubSeqProperties
  <2> HIDE DEF s
  <2>4. size - 1 + 1 = size /\ 1 <= size
    BY <1>2
  <2>5. Len(s) = size
    BY <2>3, <2>4
  <2>6. \A i \in 1 .. size : s[i] = bits[i]
    <3> SUFFICES ASSUME NEW i \in 1 .. size
                 PROVE  s[i] = bits[i]
      OBVIOUS
    <3>1. 1 + i - 1 = i /\ i \in 1 .. Len(all) /\ i <= size
      BY <1>1, <1>2, <1>4
    <3> QED
      BY <1>1, <2>3, <2>4, <3>1
  <2>7. s = bits
    BY <1>4, <2>3, <2>5, <2>6, SeqEqual DEF size
  <2> QED
    BY <2>7 DEF s
<1>6. CASE size = 32
  <2>1. Len(all) \in 32 .. 32 + MaxPad /\ ~(Len(all) \in 128 .. 128 + MaxPad)
    BY <1>1, <1>2, <1>4, <1>6 DEF MaxPad
  <2>2. IDunnoDecode(points) = SubSeq(all, 1, 32)
    BY <1>3, <2>1
  <2>3. Unmapped(bits) = bits
    <3>1. Len(bits) # 128
      BY <1>6 DEF size
    <3> QED
      BY <3>1 DEF Unmapped
  <2> QED
    BY <1>5, <1>6, <2>2, <2>3
<1>7. CASE size = 128
  <2>1. Len(all) \in 128 .. 128 + MaxPad /\ ~(Len(all) \in 32 .. 32 + MaxPad)
    BY <1>1, <1>2, <1>4, <1>7 DEF MaxPad
  <2>2. IDunnoDecode(points) = Unmapped(SubSeq(all, 1, 128))
    BY <1>3, <2>1
  <2> QED
    BY <1>5, <1>7, <2>2
<1> QED
  BY <1>2, <1>6, <1>7

(* Every layout is of chunks a code point can be.                          *)
LEMMA LayoutsAreSizes == \A i \in 1 .. Len(Layouts) : Layouts[i] \in Seq(Sizes)
<1> DEFINE Some == Seq(Sizes)
<1>1. \A m \in Nat : \A size \in Sizes : Many(m, size) \in Some
  <2> SUFFICES ASSUME NEW m \in Nat, NEW size \in Sizes
               PROVE  Many(m, size) \in Some
    OBVIOUS
  <2>1. Many(m, size) \in [1 .. m -> Sizes]
    BY DEF Many
  <2> QED
    BY <2>1, FunctionsAreSequences
<1>2. \A s, t : s \in Some /\ t \in Some => s \o t \in Some
  OBVIOUS
<1>3. 7 \in Sizes /\ 11 \in Sizes /\ 16 \in Sizes /\ 21 \in Sizes
  BY DEF Sizes
<1>4. \A i \in 1 .. Len(IPv4Layouts) : IPv4Layouts[i] \in Some
  <2>1. /\ <<7, 7, 7, 11>> \in Some /\ <<16, 16>> \in Some /\ <<21, 11>> \in Some
        /\ <<11, 21>> \in Some /\ <<11, 11, 11, 7>> \in Some /\ <<7, 11, 7, 7>> \in Some
    BY <1>3
  <2>2. /\ <<7, 7, 11, 7>> \in Some /\ <<11, 7, 7, 7>> \in Some
        /\ <<7, 7, 7, 7, 11>> \in Some /\ <<7, 7, 7, 16>> \in Some
    BY <1>3
  <2>3. <<7, 7, 7, 21>> \in Some /\ <<7, 7, 7, 7, 16>> \in Some
    BY <1>3
  <2> HIDE DEF Some
  <2> QED
    BY <2>1, <2>2, <2>3, SMTT(20) DEF IPv4Layouts
<1>5. <<21>> \in Some /\ <<11>> \in Some /\ <<7>> \in Some /\ <<16>> \in Some
      /\ <<16, 16>> \in Some /\ <<7, 11>> \in Some
  BY <1>3
<1> HIDE DEF Some
<1>6. \A i \in 1 .. Len(IPv6Layouts) : IPv6Layouts[i] \in Some
  <2>1. /\ Many(8, 16) \in Some /\ Many(6, 16) \in Some /\ Many(6, 21) \in Some
        /\ Many(5, 21) \in Some /\ Many(11, 11) \in Some /\ Many(7, 16) \in Some
        /\ Many(9, 16) \in Some /\ Many(18, 7) \in Some
    BY <1>1, <1>3
  <2>2. /\ <<21>> \o Many(6, 16) \in Some /\ <<21>> \o Many(6, 16) \o <<11>> \in Some
        /\ Many(6, 21) \o <<7>> \in Some /\ Many(6, 21) \o <<11>> \in Some
        /\ Many(5, 21) \o <<16, 16>> \in Some /\ Many(11, 11) \o <<7>> \in Some
        /\ Many(7, 16) \o <<7, 11>> \in Some /\ Many(8, 16) \o <<7>> \in Some
        /\ Many(8, 16) \o <<11>> \in Some /\ Many(18, 7) \o <<11>> \in Some
        /\ Many(18, 7) \o <<16>> \in Some
    BY <1>2, <1>5, <2>1
  <2> DEFINE a == Many(8, 16)
             b == <<21>> \o Many(6, 16) \o <<11>>
             c == Many(6, 21) \o <<7>>
             d == Many(6, 21) \o <<11>>
             e == Many(5, 21) \o <<16, 16>>
             f == Many(11, 11) \o <<7>>
             g == Many(7, 16) \o <<7, 11>>
             h == Many(8, 16) \o <<7>>
             k == Many(8, 16) \o <<11>>
             l == Many(9, 16)
             m == Many(18, 7) \o <<11>>
             n == Many(18, 7) \o <<16>>
  <2>3. IPv6Layouts = <<a, b, c, d, e, f, g, h, k, l, m, n>>
    BY DEF IPv6Layouts
  <2>4. /\ a \in Some /\ b \in Some /\ c \in Some /\ d \in Some /\ e \in Some /\ f \in Some
        /\ g \in Some /\ h \in Some /\ k \in Some /\ l \in Some /\ m \in Some /\ n \in Some
    BY <2>1, <2>2, Zenon
  <2> HIDE DEF a, b, c, d, e, f, g, h, k, l, m, n
  <2> QED
    BY <2>3, <2>4
<1> QED
  BY <1>4, <1>6 DEF Layouts, Some

(* The code points of an answer are the chunks of the layout tried last.   *)
Answered(layout) ==
  /\ Fits(layout)
  /\ cps = [i \in DOMAIN layout |-> Chunk(layout, i)]
  /\ \A i \in DOMAIN cps : cps[i] # -1
  /\ SatisfiesMinCL(cps)

IdunnoInv ==
  /\ bits \in Hosts
  /\ turn \in Nat \ {0}
  /\ stage \in {"encode", "decode", "done", "failed"}
  /\ stage \in {"decode", "done"} => turn <= Len(Layouts) /\ Answered(Layouts[turn])
  /\ stage = "done" => decoded = IDunnoDecode(cps)

LEMMA IdunnoInductive == IdunnoSpec => []IdunnoInv
<1>1. IdunnoInit => IdunnoInv
  BY DEF IdunnoInit, IdunnoInv
<1>2. IdunnoInv /\ [IdunnoNext]_idunnoVars => IdunnoInv'
  <2> SUFFICES ASSUME IdunnoInv, [IdunnoNext]_idunnoVars
               PROVE  IdunnoInv'
    OBVIOUS
  <2> USE DEF IdunnoInv
  <2>1. ASSUME UNCHANGED <<table, bits>>
        PROVE  /\ Layouts' = Layouts
               /\ \A layout : Fits(layout)' = Fits(layout)
               /\ \A layout, i : Chunk(layout, i)' = Chunk(layout, i)
               /\ \A points : SatisfiesMinCL(points)' = SatisfiesMinCL(points)
    BY <2>1
       DEF Layouts, Fits, Chunk, SatisfiesMinCL, Disallowed, StartOf, PickPaddingValue,
           BitsToInt, ValidCP
  <2>2. CASE TryLayout
    <3> DEFINE layout == Layouts[turn]
               points == [i \in DOMAIN layout |-> Chunk(layout, i)]
               valid == Fits(layout) /\ \A i \in DOMAIN points : points[i] # -1
    <3>1. /\ stage = "encode" /\ turn <= Len(Layouts) /\ UNCHANGED <<table, bits, decoded>>
          /\ IF valid /\ SatisfiesMinCL(points)
             THEN cps' = points /\ stage' = "decode" /\ UNCHANGED turn
             ELSE turn' = turn + 1 /\ UNCHANGED <<cps, stage>>
      BY <2>2 DEF TryLayout
    <3>2. CASE valid /\ SatisfiesMinCL(points)
      <4>1. cps' = points /\ stage' = "decode" /\ turn' = turn
        BY <3>1, <3>2
      <4>2. Layouts' = Layouts /\ Layouts'[turn'] = layout
        BY <2>1, <3>1, <4>1
      <4>3. Answered(layout)' /\ layout' = layout
        BY <2>1, <3>1, <3>2, <4>1, <4>2 DEF Answered
      <4> QED
        BY <3>1, <4>1, <4>2, <4>3
    <3>3. CASE ~(valid /\ SatisfiesMinCL(points))
      <4>1. turn' = turn + 1 /\ stage' = "encode"
        BY <3>1, <3>3
      <4> QED
        BY <3>1, <4>1
    <3> QED
      BY <3>2, <3>3
  <2>3. CASE NoLayout
    BY <2>3 DEF NoLayout
  <2>4. CASE Decode
    BY <2>1, <2>4 DEF Decode, Answered
  <2>5. CASE UNCHANGED idunnoVars
    BY <2>1, <2>5 DEF idunnoVars, Answered
  <2> QED
    BY <2>2, <2>3, <2>4, <2>5 DEF IdunnoNext
<1> QED
  BY <1>1, <1>2, PTL DEF IdunnoSpec

(* For any addresses, any version of the Unicode tables and any opinion of *)
(* theirs on the code points beyond ASCII: whatever layout and padding     *)
(* IDunnoEncode settles on, IDunnoDecode returns the address (unmapped),   *)
(* and the answer is confusing enough.                                     *)
THEOREM DecodeIsInverse == IdunnoSpec => []DecodeUndoesEncode
<1>1. IdunnoInv => DecodeUndoesEncode
  <2> SUFFICES ASSUME IdunnoInv, stage = "done"
               PROVE  decoded = Unmapped(bits) /\ SatisfiesMinCL(cps)
    BY DEF DecodeUndoesEncode
  <2> DEFINE layout == Layouts[turn]
  <2>1. /\ bits \in Hosts /\ turn \in Nat \ {0} /\ turn <= Len(Layouts)
        /\ Answered(layout) /\ decoded = IDunnoDecode(cps)
    BY DEF IdunnoInv
  <2>2. bits \in Seq({0, 1}) /\ Len(bits) \in {32, 128}
    <3>1. bits \in [1 .. 32 -> {0, 1}] \/ bits \in [1 .. 128 -> {0, 1}]
      BY <2>1, IdunnoAssumption
    <3>2. \A m \in Nat : bits \in [1 .. m -> {0, 1}] => bits \in Seq({0, 1}) /\ Len(bits) = m
      BY FunctionsAreSequences
    <3>3. 32 \in Nat /\ 128 \in Nat
      OBVIOUS
    <3>4. \/ bits \in Seq({0, 1}) /\ Len(bits) = 32
          \/ bits \in Seq({0, 1}) /\ Len(bits) = 128
      BY <3>1, <3>2, <3>3, Zenon
    <3> QED
      BY <3>4
  <2>3. layout \in Seq(Sizes)
    <3>1. Len(Layouts) \in Nat
      BY DEF Layouts, IPv4Layouts, IPv6Layouts
    <3>2. turn \in 1 .. Len(Layouts)
      BY <2>1, <3>1
    <3> QED
      BY <3>2, LayoutsAreSizes
  <2> HIDE DEF layout
  <2>4. IDunnoDecode(cps) = Unmapped(bits)
    BY <2>1, <2>2, <2>3, DecodedIsAddress DEF Answered
  <2> QED
    BY <2>1, <2>4 DEF Answered
<1> QED
  BY <1>1, IdunnoInductive, PTL

-----------------------------------------------------------------------------
(* The family as a whole                                                   *)

(* A behaviour whose part is "add" is one of AddSpec.                    *)
LEMMA AddRuns == Spec /\ part = "add" => AddSpec
<1>1. Init /\ part = "add" => AddInit
  BY DEF Init, AddInitial
<1>2. part = "add" /\ [Next]_vars => [AddNext]_addVars /\ (part = "add")'
  BY DEF Next, vars, Adds, Translates, Lists, Allocates, Embeds, Confuses
<1> QED
  BY <1>1, <1>2, PTL DEF Spec, AddSpec

(* In any other behaviour that part stays as it is.                      *)
LEMMA AddRests == Spec /\ ~(part = "add") => []AddIdle
<1>1. Init /\ ~(part = "add") => AddIdle
  BY DEF Init, AddInitial, SiteInitial, BlockInitial, SetInitial, Nat64Initial, IdunnoInitial
<1>2. ~(part = "add") /\ AddIdle /\ [Next]_vars => AddIdle' /\ (~(part = "add"))'
  <2> SUFFICES ASSUME ~(part = "add"), AddIdle, [Next]_vars
               PROVE  UNCHANGED <<addVars, part>>
    BY DEF AddIdle, addVars
  <2> QED
    BY DEF Next, vars, Adds, Translates, Lists, Allocates, Embeds, Confuses
<1> QED
  BY <1>1, <1>2, PTL DEF Spec

(* A behaviour whose part is "site" is one of SiteSpec.                  *)
LEMMA SiteRuns == Spec /\ part = "site" => SiteSpec
<1>1. Init /\ part = "site" => SiteInit
  BY DEF Init, SiteInitial
<1>2. part = "site" /\ [Next]_vars => [SiteNext]_siteVars /\ (part = "site")'
  BY DEF Next, vars, Adds, Translates, Lists, Allocates, Embeds, Confuses
<1> QED
  BY <1>1, <1>2, PTL DEF Spec, SiteSpec

(* In any other behaviour that part stays as it is.                      *)
LEMMA SiteRests == Spec /\ ~(part = "site") => []SiteIdle
<1>1. Init /\ ~(part = "site") => SiteIdle
  BY DEF Init, AddInitial, SiteInitial, BlockInitial, SetInitial, Nat64Initial, IdunnoInitial
<1>2. ~(part = "site") /\ SiteIdle /\ [Next]_vars => SiteIdle' /\ (~(part = "site"))'
  <2> SUFFICES ASSUME ~(part = "site"), SiteIdle, [Next]_vars
               PROVE  UNCHANGED <<siteVars, part>>
    BY DEF SiteIdle, siteVars
  <2> QED
    BY DEF Next, vars, Adds, Translates, Lists, Allocates, Embeds, Confuses
<1> QED
  BY <1>1, <1>2, PTL DEF Spec

(* A behaviour whose part is "block" is one of BlockSpec.                *)
LEMMA BlockRuns == Spec /\ part = "block" => BlockSpec
<1>1. Init /\ part = "block" => BlockInit
  BY DEF Init, BlockInitial
<1>2. part = "block" /\ [Next]_vars => [BlockNext]_blockVars /\ (part = "block")'
  BY DEF Next, vars, Adds, Translates, Lists, Allocates, Embeds, Confuses
<1> QED
  BY <1>1, <1>2, PTL DEF Spec, BlockSpec

(* In any other behaviour that part stays as it is.                      *)
LEMMA BlockRests == Spec /\ ~(part = "block") => []BlockIdle
<1>1. Init /\ ~(part = "block") => BlockIdle
  BY DEF Init, AddInitial, SiteInitial, BlockInitial, SetInitial, Nat64Initial, IdunnoInitial
<1>2. ~(part = "block") /\ BlockIdle /\ [Next]_vars => BlockIdle' /\ (~(part = "block"))'
  <2> SUFFICES ASSUME ~(part = "block"), BlockIdle, [Next]_vars
               PROVE  UNCHANGED <<blockVars, part>>
    BY DEF BlockIdle, blockVars
  <2> QED
    BY DEF Next, vars, Adds, Translates, Lists, Allocates, Embeds, Confuses
<1> QED
  BY <1>1, <1>2, PTL DEF Spec

(* A behaviour whose part is "set" is one of SetSpec.                    *)
LEMMA SetRuns == Spec /\ part = "set" => SetSpec
<1>1. Init /\ part = "set" => SetInit
  BY DEF Init, SetInitial
<1>2. part = "set" /\ [Next]_vars => [SetNext]_setVars /\ (part = "set")'
  BY DEF Next, vars, Adds, Translates, Lists, Allocates, Embeds, Confuses
<1> QED
  BY <1>1, <1>2, PTL DEF Spec, SetSpec

(* In any other behaviour that part stays as it is.                      *)
LEMMA SetRests == Spec /\ ~(part = "set") => []SetIdle
<1>1. Init /\ ~(part = "set") => SetIdle
  BY DEF Init, AddInitial, SiteInitial, BlockInitial, SetInitial, Nat64Initial, IdunnoInitial
<1>2. ~(part = "set") /\ SetIdle /\ [Next]_vars => SetIdle' /\ (~(part = "set"))'
  <2> SUFFICES ASSUME ~(part = "set"), SetIdle, [Next]_vars
               PROVE  UNCHANGED <<setVars, part>>
    BY DEF SetIdle, setVars
  <2> QED
    BY DEF Next, vars, Adds, Translates, Lists, Allocates, Embeds, Confuses
<1> QED
  BY <1>1, <1>2, PTL DEF Spec

(* A behaviour whose part is "nat64" is one of Nat64Spec.                *)
LEMMA Nat64Runs == Spec /\ part = "nat64" => Nat64Spec
<1>1. Init /\ part = "nat64" => Nat64Init
  BY DEF Init, Nat64Initial
<1>2. part = "nat64" /\ [Next]_vars => [Nat64Next]_nat64Vars /\ (part = "nat64")'
  BY DEF Next, vars, Adds, Translates, Lists, Allocates, Embeds, Confuses
<1> QED
  BY <1>1, <1>2, PTL DEF Spec, Nat64Spec

(* In any other behaviour that part stays as it is.                      *)
LEMMA Nat64Rests == Spec /\ ~(part = "nat64") => []Nat64Idle
<1>1. Init /\ ~(part = "nat64") => Nat64Idle
  BY DEF Init, AddInitial, SiteInitial, BlockInitial, SetInitial, Nat64Initial, IdunnoInitial
<1>2. ~(part = "nat64") /\ Nat64Idle /\ [Next]_vars => Nat64Idle' /\ (~(part = "nat64"))'
  <2> SUFFICES ASSUME ~(part = "nat64"), Nat64Idle, [Next]_vars
               PROVE  UNCHANGED <<nat64Vars, part>>
    BY DEF Nat64Idle, nat64Vars
  <2> QED
    BY DEF Next, vars, Adds, Translates, Lists, Allocates, Embeds, Confuses
<1> QED
  BY <1>1, <1>2, PTL DEF Spec

(* A behaviour whose part is "idunno" is one of IdunnoSpec.              *)
LEMMA IdunnoRuns == Spec /\ part = "idunno" => IdunnoSpec
<1>1. Init /\ part = "idunno" => IdunnoInit
  BY DEF Init, IdunnoInitial
<1>2. part = "idunno" /\ [Next]_vars => [IdunnoNext]_idunnoVars /\ (part = "idunno")'
  BY DEF Next, vars, Adds, Translates, Lists, Allocates, Embeds, Confuses
<1> QED
  BY <1>1, <1>2, PTL DEF Spec, IdunnoSpec

(* In any other behaviour that part stays as it is.                      *)
LEMMA IdunnoRests == Spec /\ ~(part = "idunno") => []IdunnoIdle
<1>1. Init /\ ~(part = "idunno") => IdunnoIdle
  BY DEF Init, AddInitial, SiteInitial, BlockInitial, SetInitial, Nat64Initial, IdunnoInitial
<1>2. ~(part = "idunno") /\ IdunnoIdle /\ [Next]_vars => IdunnoIdle' /\ (~(part = "idunno"))'
  <2> SUFFICES ASSUME ~(part = "idunno"), IdunnoIdle, [Next]_vars
               PROVE  UNCHANGED <<idunnoVars, part>>
    BY DEF IdunnoIdle, idunnoVars
  <2> QED
    BY DEF Next, vars, Adds, Translates, Lists, Allocates, Embeds, Confuses
<1> QED
  BY <1>1, <1>2, PTL DEF Spec

(* What the checks ask of each part holds of one that rests.               *)
LEMMA RestingIsRight ==
  /\ AddIdle => OffsetsAddUp /\ FailsExactlyOutside /\ SubtractUndoesAdd
  /\ SiteIdle => ChecksumNeutral /\ RoutesAgree
  /\ BlockIdle => ListIsPartition /\ ListingDecides
  /\ SetIdle => AllocationsDisjoint /\ QueriesConfirm
  /\ Nat64Idle => ExtractUndoesSynthesize /\ CidrFormAgrees
  /\ IdunnoIdle => DecodeUndoesEncode
<1>1. ASSUME AddIdle
      PROVE  OffsetsAddUp /\ FailsExactlyOutside /\ SubtractUndoesAdd
  <2>1. start \in Addr4 /\ start.fam = 4 /\ start.lo = 0 /\ start.hi = 0
    BY <1>1, WordFacts, WordAssumption DEF AddIdle, AddrFrom4, Addr4
  <2>2. ParseAddr(start) = start
    BY <2>1 DEF ParseAddr, IsMapped
  <2>3. cur = start /\ cur \in Addr /\ moved = 0
    BY <1>1, <2>1 DEF AddIdle, Addr
  <2>4. OffsetsAddUp
    <3>1. Value(start) \in Int
      BY <2>1, WordFacts DEF Value
    <3> QED
      BY <2>2, <2>3, <3>1 DEF OffsetsAddUp
  <2>5. FailsExactlyOutside
    BY <2>3, IPAddExact DEF FailsExactlyOutside
  <2>6. SubtractUndoesAdd
    BY <2>1, <2>2, <2>3 DEF SubtractUndoesAdd, IPSubtract
  <2> QED
    BY <2>4, <2>5, <2>6
<1>2. ASSUME SiteIdle
      PROVE  ChecksumNeutral /\ RoutesAgree
  <2>1. home \in Site /\ at = home /\ host = origin /\ seen[at] = None
    BY <1>2, SiteAssumption DEF SiteIdle
  <2>2. origin.sub = 0 /\ \E t \in Top : origin.top = t
    BY <1>2, SiteAssumption DEF SiteIdle
  <2>3. Sum(origin) \in Int
    <3>1. PICK t \in Top : origin.top = t
      BY <2>2
    <3>2. OcsSum(t) \in Words16
      BY OcsSumType
    <3> QED
      BY <2>2, <3>1, <3>2, SiteAssumption DEF Sum, Words16, Max
  <2>4. Congruent(Sum(origin), Sum(origin))
    BY <2>3 DEF Congruent
  <2>5. ChecksumNeutral
    BY <2>1, <2>4 DEF ChecksumNeutral
  <2> QED
    BY <2>1, <2>5 DEF RoutesAgree
<1>3. BlockIdle => ListIsPartition /\ ListingDecides
  BY DEF BlockIdle, ListIsPartition, Listed, ListingDecides, EnumerateDecides, ExpandAgreesWithCount
<1>4. ASSUME SetIdle
      PROVE  AllocationsDisjoint /\ QueriesConfirm
  <2>1. Given = <<>> /\ Items(<<>>) = {} /\ pool = {} /\ used = <<>> /\ retired = <<>>
    BY <1>4 DEF SetIdle, Given, Items
  <2>2. AllocationsDisjoint
    BY <2>1 DEF AllocationsDisjoint
  <2>3. CIDRsAreDisjoint(<<>>) = "true"
    BY DEF CIDRsAreDisjoint
  <2>4. CIDRsOverlapAny({}, <<>>) = "false"
    BY DEF CIDRsOverlapAny, Parses, CidrListArg
  <2> QED
    BY <2>1, <2>2, <2>3, <2>4 DEF QueriesConfirm
<1>5. Nat64Idle => ExtractUndoesSynthesize /\ CidrFormAgrees
  BY DEF Nat64Idle, ExtractUndoesSynthesize, CidrFormAgrees
<1>6. IdunnoIdle => DecodeUndoesEncode
  BY DEF IdunnoIdle, DecodeUndoesEncode
<1> QED
  BY <1>1, <1>2, <1>3, <1>4, <1>5, <1>6

(* All that the run checks holds of the family as the run composes it: of  *)
(* whichever function is evaluated and of those that rest meanwhile.       *)
THEOREM FamilyIsRight ==
  Spec => /\ []OffsetsAddUp /\ []FailsExactlyOutside /\ []SubtractUndoesAdd
          /\ []ChecksumNeutral /\ []RoutesAgree
          /\ []ListIsPartition /\ []ListingDecides
          /\ []AllocationsDisjoint /\ []QueriesConfirm
          /\ []ExtractUndoesSynthesize /\ []CidrFormAgrees
          /\ []DecodeUndoesEncode
<1>1. Spec => []OffsetsAddUp /\ []FailsExactlyOutside /\ []SubtractUndoesAdd
  BY AddRuns, AddRests, RestingIsRight, ChainsAddUp, FailsOnlyOutside, SubtractIsInverse, PTL
<1>2. Spec => []ChecksumNeutral /\ []RoutesAgree
  BY SiteRuns, SiteRests, RestingIsRight, AlwaysNeutral, RouteIndependent, PTL
<1>3. Spec => []ListIsPartition /\ []ListingDecides
  BY BlockRuns, BlockRests, RestingIsRight, ListsAreWhole, RefusalsAreRight, PTL
<1>4. Spec => []AllocationsDisjoint /\ []QueriesConfirm
  BY SetRuns, SetRests, RestingIsRight, NeverTwice, QueriesAreRight, PTL
<1>5. Spec => []ExtractUndoesSynthesize /\ []CidrFormAgrees
  BY Nat64Runs, Nat64Rests, RestingIsRight, ExtractIsInverse, CidrFormIsRight, PTL
<1>6. Spec => []DecodeUndoesEncode
  BY IdunnoRuns, IdunnoRests, RestingIsRight, DecodeIsInverse, PTL
<1> QED
  BY <1>1, <1>2, <1>3, <1>4, <1>5, <1>6
=============================================================================
