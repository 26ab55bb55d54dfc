----------------------------- MODULE CidrBlocks -----------------------------
(***************************************************************************)
(* network/iputil/iputil.go: the calls that list the inside of a CIDR,     *)
(* cidr_enumerate its subnets and cidr_expand its addresses, and the       *)
(* counts cidr_host_count and cidr_usable_host_count to compare with.      *)
(*                                                                         *)
(* An address is its number within its family; an address in a list is     *)
(* written as the block of that one address.  newbits is an int64, and     *)
(* what is computed from it wraps around or is shifted out as in Go.       *)
(***************************************************************************)
EXTENDS Integers, Sequences, FiniteSets

CONSTANTS
  IntBits,   \* 64: the bits of an int
  Width,     \* the address bits of each family: 32 for 4, 128 for 6
  LimitBits  \* 16: both limits, maxEnumerate and maxExpand, are 2^16

ASSUME WidthAssumption ==
  /\ IntBits \in Nat /\ LimitBits \in Nat \ {0} /\ LimitBits + 1 < IntBits
  /\ Width \in [{4, 6} -> 1 .. 2 ^ (IntBits - 1) - 1 - LimitBits]

VARIABLES
  op,       \* "enumerate" or "expand"
  p,        \* the parsed CIDR
  newbits,  \* cidr_enumerate's second argument
  pc,       \* "check", "loop", "done"
  outcome,  \* "none" before the end, then "list", "error" or "panic"
  list,     \* result
  pos       \* the address the loop is at

blockVars == <<op, p, newbits, pc, outcome, list, pos>>

-----------------------------------------------------------------------------

MaxInt == 2 ^ (IntBits - 1) - 1
IntRange == -MaxInt - 1 .. MaxInt
Limit == 2 ^ LimitBits

Prefix == {b \in [fam : {4, 6}, addr : Nat, bits : Nat] :
             b.bits <= Width[b.fam] /\ b.addr < 2 ^ Width[b.fam]}

HostBits(b) == Width[b.fam] - b.bits

(* Mutant of Masked: the host bits stay.                                   *)
MaskedNot(fam, addr, bits) == [fam |-> fam, addr |-> addr, bits |-> bits]

(* netip.PrefixFrom(...).Masked(), as ParsePrefix normalises its argument. *)
Masked(fam, addr, bits) ==
  [fam |-> fam, addr |-> addr - (addr % 2 ^ (Width[fam] - bits)), bits |-> bits]

LastIP(b) == b.addr + 2 ^ HostBits(b) - 1

IsValid(fam, addr) == addr < 2 ^ Width[fam]

(* int64(1) << uint(n): the sign bit, and then nothing.                    *)
Shift(n) == IF n < IntBits - 1 THEN 2 ^ n
            ELSE IF n = IntBits - 1 THEN -MaxInt - 1 ELSE 0

WrapInt(x) == IF x > MaxInt THEN x - 2 * (MaxInt + 1) ELSE x

NewPrefixLen == WrapInt(p.bits + newbits)

Count == IF op = "enumerate" THEN Shift(newbits) ELSE Shift(HostBits(p))

CIDRHostCount(b) ==
  IF HostBits(b) >= IntBits - 1 THEN MaxInt ELSE 2 ^ HostBits(b)

(* For IPv4 without the network and the broadcast address, where a block   *)
(* has room for hosts besides them.                                        *)
CIDRUsableHostCount(b) ==
  IF b.fam = 4 /\ HostBits(b) \in 2 .. IntBits - 2
  THEN 2 ^ HostBits(b) - 2 ELSE CIDRHostCount(b)

-----------------------------------------------------------------------------

BlockInit ==
  /\ op \in {"enumerate", "expand"}
  /\ \E fam \in {4, 6} : \E bits \in 0 .. Width[fam] :
       \E addr \in 0 .. 2 ^ Width[fam] - 1 : p = Masked(fam, addr, bits)
  /\ newbits \in IF op = "enumerate" THEN IntRange ELSE {0}
  /\ pc = "check" /\ outcome = "none"
  /\ list = <<>> /\ pos = p.addr

(* Mutant of Done: a result is recorded and the code goes on.              *)
DoneWithoutReturn(result) ==
  /\ outcome' = result
  /\ UNCHANGED pc

Done(result) ==
  /\ pc' = "done"
  /\ outcome' = result

(* Mutant of EnumerateRefuses: the limit itself is refused too.            *)
EnumerateRefusesLimit ==
  newbits <= 0 \/ NewPrefixLen > Width[p.fam] \/ Count >= Limit

EnumerateRefuses ==
  \/ newbits <= 0
  \/ NewPrefixLen > Width[p.fam]
  \/ Count > Limit

ExpandRefuses ==
  \/ HostBits(p) >= LimitBits + 1
  \/ Count > Limit

(* The checks; a negative capacity makes make([]string, 0, count) panic.   *)
Check ==
  /\ pc = "check"
  /\ LET refused == IF op = "enumerate" THEN EnumerateRefuses ELSE ExpandRefuses
     IN  CASE refused -> Done("error")
           [] ~refused /\ Count < 0 -> Done("panic")
           [] ~refused /\ Count >= 0 -> pc' = "loop" /\ UNCHANGED outcome
  /\ UNCHANGED <<op, p, newbits, list, pos>>

(* One subnet; the loop also ends at the end of the address space.         *)
EnumerateStep ==
  /\ pc = "loop" /\ op = "enumerate" /\ Len(list) < Count
  /\ LET subnet == Masked(p.fam, pos, NewPrefixLen)
         next   == LastIP(subnet) + 1
     IN  /\ list' = Append(list, subnet)
         /\ IF IsValid(p.fam, next)
            THEN pos' = next /\ UNCHANGED <<pc, outcome>>
            ELSE Done("list") /\ UNCHANGED pos
  /\ UNCHANGED <<op, p, newbits>>

(* One address; past the last one pos is the invalid address, written as   *)
(* the number it would have.                                               *)
ExpandStep ==
  /\ pc = "loop" /\ op = "expand" /\ Len(list) < Count
  /\ list' = Append(list, [fam |-> p.fam, addr |-> pos, bits |-> Width[p.fam]])
  /\ pos' = pos + 1
  /\ UNCHANGED <<op, p, newbits, pc, outcome>>

Return ==
  /\ pc = "loop" /\ Len(list) >= Count
  /\ Done("list")
  /\ UNCHANGED <<op, p, newbits, list, pos>>

BlockNext == Check \/ EnumerateStep \/ ExpandStep \/ Return

BlockSpec == BlockInit /\ [][BlockNext]_blockVars

-----------------------------------------------------------------------------

Listed == outcome = "list" /\ list # <<>>

(* A list that is not empty is the whole block in order: it starts at the  *)
(* block's first address, every element starts where the one before it     *)
(* ended, and the last one ends where the block does.  Neither the limit   *)
(* nor the end of the address space cuts it short.                         *)
ListIsPartition ==
  Listed =>
    /\ list[1].addr = p.addr
    /\ \A i \in 1 .. Len(list) - 1 : list[i + 1].addr = LastIP(list[i]) + 1
    /\ LastIP(list[Len(list)]) = LastIP(p)
    /\ \A i \in DOMAIN list : list[i].addr % 2 ^ HostBits(list[i]) = 0

(* cidr_enumerate refuses what it should, no more and no less, as long as  *)
(* the count fits an int.                                                  *)
EnumerateDecides ==
  op = "enumerate" /\ pc = "done" /\ newbits \in 1 .. IntBits - 2 =>
    /\ outcome \in {"list", "error"}
    /\ outcome = "error" <=> p.bits + newbits > Width[p.fam] \/ 2 ^ newbits > Limit
    /\ outcome = "list" => Len(list) = 2 ^ newbits

(* cidr_expand lists as many addresses as cidr_host_count counts, refuses  *)
(* when those are more than the limit, and cidr_usable_host_count counts   *)
(* the ones that are neither the network nor the broadcast address.        *)
ExpandAgreesWithCount ==
  op = "expand" /\ pc = "done" =>
    /\ outcome = "error" <=> CIDRHostCount(p) > Limit
    /\ outcome = "list" =>
         LET ends == IF p.fam = 4 /\ Len(list) > 2 THEN {p.addr, LastIP(p)} ELSE {}
         IN  /\ Len(list) = CIDRHostCount(p)
             /\ \A i \in DOMAIN list : list[i].addr = p.addr + i - 1
             /\ CIDRUsableHostCount(p) =
                  Cardinality({i \in DOMAIN list : list[i].addr \notin ends})

(* What the three functions say of one block agrees.                       *)
ListingDecides == EnumerateDecides /\ ExpandAgreesWithCount

(* descriptions/cidr_enumerate.md: "Returns an error if the result would   *)
(* exceed 65536 subnets."                                                  *)
TooManyIsAnError ==
  op = "enumerate" /\ pc = "done" /\ newbits > LimitBits => outcome = "error"
=============================================================================
