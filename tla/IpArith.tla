------------------------------ MODULE IpArith ------------------------------
(***************************************************************************)
(* network/iputil/iputil.go: ip_add and ip_subtract.  An address is a      *)
(* family and two machine words; IPv4 uses the low one only.  The sums are *)
(* made in unsigned words that wrap around and the carry is read off the   *)
(* wrapped result, as in the code.                                         *)
(*                                                                         *)
(* A behaviour is a chain of ip_add calls, each on the text the last one   *)
(* returned: what an expression like ip_add(ip_add(x, 5), -3) evaluates.   *)
(* Every call parses its argument again, and ParseAddr turns an            *)
(* IPv4-mapped IPv6 address into the IPv4 address.                         *)
(***************************************************************************)
EXTENDS Integers

CONSTANTS
  Word,    \* 2^64: the values of a machine word
  V4,      \* 2^32: the number of IPv4 addresses
  Mapped   \* the low word of ::ffff:0.0.0.0

(* uint64(cur) + uint64(n) cannot wrap for an IPv4 cur; the mapped block   *)
(* lies within the low words.                                              *)
ASSUME WordAssumption ==
  /\ Word \in Nat /\ V4 \in Nat \ {0} /\ Mapped \in Nat
  /\ Word % 2 = 0
  /\ 2 * V4 <= Word
  /\ Mapped + V4 <= Word

VARIABLES
  start,  \* the address the chain began with
  cur,    \* the text the last call returned
  moved   \* the sum of the offsets so far

addVars == <<start, cur, moved>>

-----------------------------------------------------------------------------

Words == 0 .. Word - 1
Int64 == -(Word \div 2) .. (Word \div 2) - 1
MaxInt64 == (Word \div 2) - 1

Addr4 == [fam : {4}, hi : {0}, lo : 0 .. V4 - 1]
Addr6 == [fam : {6}, hi : Words, lo : Words]
Addr  == Addr4 \cup Addr6

AddrFrom4(lo) == [fam |-> 4, hi |-> 0, lo |-> lo]
AddrFrom16(hi, lo) == [fam |-> 6, hi |-> hi, lo |-> lo]

IsMapped(a) == a.fam = 6 /\ a.hi = 0 /\ a.lo \in Mapped .. Mapped + V4 - 1

(* ParseAddr: IPv4-mapped addresses are unmapped.                          *)
ParseAddr(a) ==
  IF IsMapped(a) THEN AddrFrom4(a.lo - Mapped) ELSE a

(* What ParseAddr can return.                                              *)
Parsed == {a \in Addr : ~IsMapped(a)}

Error == [fam |-> 0, hi |-> 0, lo |-> 0]

(* uint64 arithmetic, and uint64(-n) for a negative n, MinInt64 included.  *)
Wrap(x) == IF x < 0 THEN x + Word ELSE IF x >= Word THEN x - Word ELSE x

(* Mutant of Add4: the last IPv4 address is out of bounds.                 *)
Add4ShortOfLast(a, n) ==
  IF IF n >= 0 THEN Wrap(a.lo + n) >= V4 - 1 ELSE -n > a.lo
  THEN Error ELSE AddrFrom4(a.lo + n)

(* An IPv4 sum is made in a 64-bit word, where it cannot wrap.             *)
Add4(a, n) ==
  IF IF n >= 0 THEN Wrap(a.lo + n) > V4 - 1 ELSE -n > a.lo
  THEN Error ELSE AddrFrom4(a.lo + n)

(* Mutant of Carry: not seen when the low word wraps to zero exactly.      *)
CarryPastZero(lo, newLo) == IF newLo < lo /\ newLo # 0 THEN 1 ELSE 0

(* That the low word got smaller by adding is the carry, and larger by     *)
(* subtracting the borrow.                                                 *)
Carry(lo, newLo) == IF newLo < lo THEN 1 ELSE 0

Borrow(lo, newLo) == IF newLo > lo THEN 1 ELSE 0

Add6(a, n) ==
  LET newLo  == Wrap(a.lo + n)
      carry  == Carry(a.lo, newLo)
      borrow == Borrow(a.lo, newLo)
      newHi  == Wrap(a.hi + carry)
  IN  IF n >= 0
      THEN IF newHi < a.hi THEN Error ELSE AddrFrom16(newHi, newLo)
      ELSE IF borrow > a.hi THEN Error ELSE AddrFrom16(a.hi - borrow, newLo)

IPAdd(text, n) ==
  LET a == ParseAddr(text) IN IF a.fam = 4 THEN Add4(a, n) ELSE Add6(a, n)

(* IPSubtract's error, as a number that is no int64.                       *)
Unrepresentable == Word

Signed(d) == IF d > MaxInt64 THEN d - Word ELSE d

(* Mutant of Negate: the negation of the smallest int64 is clamped.        *)
NegateClamped(x) == IF x = -(MaxInt64 + 1) THEN MaxInt64 ELSE -x

(* int64(d) and -x: a difference of 2^63 turns into the smallest int64,    *)
(* which is its own negation.                                              *)
Negate(x) == IF x = -(MaxInt64 + 1) THEN x ELSE -x

(* The high words must agree; the smaller low word is taken from the       *)
(* larger, and a difference of 2^63 is representable only when negative.   *)
IPSubtract(ta, tb) ==
  LET a == ParseAddr(ta)  b == ParseAddr(tb) IN
  IF a.fam # b.fam \/ a.hi # b.hi THEN Unrepresentable
  ELSE IF a.fam = 4 THEN a.lo - b.lo
  ELSE IF a.lo >= b.lo
       THEN IF a.lo - b.lo > MaxInt64 THEN Unrepresentable
            ELSE Signed(a.lo - b.lo)
       ELSE IF b.lo - a.lo > MaxInt64 + 1 THEN Unrepresentable
            ELSE Negate(Signed(b.lo - a.lo))

-----------------------------------------------------------------------------

AddInit ==
  /\ start \in Addr
  /\ cur = start
  /\ moved = 0

Add(n) ==
  /\ IPAdd(cur, n) # Error
  /\ cur' = IPAdd(cur, n)
  /\ moved' = moved + n
  /\ UNCHANGED start

AddNext == \E n \in Int64 : Add(n)

AddSpec == AddInit /\ [][AddNext]_addVars

-----------------------------------------------------------------------------

(* The position of a parsed address in its family's space.                 *)
Value(a) == a.hi * Word + a.lo

Space(a) == IF a.fam = 4 THEN 0 .. V4 - 1 ELSE 0 .. Word * Word - 1

AddTypeOK == start \in Addr /\ cur \in Addr /\ moved \in Int

SameFamily == ParseAddr(cur).fam = ParseAddr(start).fam

(* However a chain of ip_add calls carries and borrows between the words,  *)
(* it ends exactly as far from its start as the offsets add up to, unless  *)
(* it walked into the IPv4-mapped block, where the family changes.         *)
OffsetsAddUp ==
  SameFamily => Value(ParseAddr(cur)) = Value(ParseAddr(start)) + moved

(* ip_add fails exactly when the sum is outside the address space of its   *)
(* argument's family: "Fails if the result would fall outside the address  *)
(* space" (descriptions/ip_add.md), and not sooner.                        *)
FailsExactlyOutside ==
  LET a == ParseAddr(cur) IN
  \A n \in Int64 : IPAdd(cur, n) = Error <=> Value(a) + n \notin Space(a)

(* ip_subtract undoes a chain of ip_add: it returns the sum of the offsets *)
(* whenever the two ends have the same high word and that sum fits int64,  *)
(* the smallest int64 included.                                            *)
SubtractUndoesAdd ==
  LET a == ParseAddr(cur)  b == ParseAddr(start) IN
  SameFamily /\ a.hi = b.hi /\ moved \in Int64 => IPSubtract(cur, start) = moved
=============================================================================
