------------------------------ MODULE CidrSets ------------------------------
(***************************************************************************)
(* network/iputil/iputil.go: the functions on lists of CIDRs, used as the  *)
(* documentation suggests: cidr_find_free hands out one subnet after       *)
(* another, each answer joining the used list of the next call, and        *)
(* cidr_merge, cidr_subtract and cidr_intersect rewrite the pool between   *)
(* the calls.                                                              *)
(*                                                                         *)
(* The sets of addresses are go4.org/netipx's (external): a set, its       *)
(* largest aligned blocks, and any free block of it.                       *)
(***************************************************************************)
EXTENDS Integers, Sequences

CONSTANTS
  SetBits,  \* the address bits of each family: 32 for 4, 128 for 6
  Private,  \* privateRanges
  MaxGiven  \* bound: the subnets handed out and not given up

ASSUME SetBitsAssumption ==
  /\ SetBits \in [{4, 6} -> Nat]
  /\ SetBits[4] <= SetBits[6]

VARIABLES
  whole,    \* the pool the calls began with
  pool,     \* cidr_find_free's first argument
  used,     \* and its second: the answers so far, in order
  retired,  \* answers that cidr_subtract has taken out of the pool
  answer    \* what the last call returned

setVars == <<whole, pool, used, retired, answer>>

-----------------------------------------------------------------------------

Fams == {4, 6}
MaxLen == SetBits[6]
SizeOf(fam, bits) == 2 ^ (SetBits[fam] - bits)

Cidr == {b \in [fam : Fams, addr : 0 .. 2 ^ MaxLen - 1, bits : 0 .. MaxLen] :
           /\ b.bits <= SetBits[b.fam]
           /\ b.addr < 2 ^ SetBits[b.fam]
           /\ b.addr % SizeOf(b.fam, b.bits) = 0}

(* Texts that are not a CIDR: "invalid Prefix", and a null element.        *)
Invalid == [fam |-> 0, addr |-> 0, bits |-> 0]
NullElement == [fam |-> 0, addr |-> 0, bits |-> 1]
Refused == [fam |-> 0, addr |-> 0, bits |-> 2]

Addrs(b) ==
  IF b \in Cidr
  THEN {[fam |-> b.fam, n |-> n] : n \in b.addr .. b.addr + SizeOf(b.fam, b.bits) - 1}
  ELSE {}

Items(list) == {list[i] : i \in DOMAIN list}

CidrListArg(elements) == NullElement \notin elements
Parses(elements) == CidrListArg(elements) /\ Invalid \notin elements

BuildSet(elements) == UNION {Addrs(b) : b \in elements}

Parent(b) ==
  [b EXCEPT !.bits = @ - 1, !.addr = @ - (@ % SizeOf(b.fam, b.bits - 1))]

Prefixes(set) ==
  {b \in Cidr : /\ Addrs(b) \subseteq set
                /\ b.bits > 0 => ~(Addrs(Parent(b)) \subseteq set)}

MergeCIDRs(list) == Prefixes(BuildSet(list))

(* Mutant of SubtractCIDRs: only whole elements are taken out.             *)
SubtractWhole(inputs, excludes) == inputs \ excludes

SubtractCIDRs(inputs, excludes) == Prefixes(BuildSet(inputs) \ BuildSet(excludes))

IntersectCIDRs(as, bs) == Prefixes(BuildSet(as) \cap BuildSet(bs))

(* The order is tested first, and an IPv4 address is before any IPv6 one.  *)
RangeToCIDRs(first, last) ==
  IF first.fam # last.fam \/ first.n > last.n THEN {Refused}
  ELSE Prefixes({[fam |-> first.fam, n |-> n] : n \in first.n .. last.n})

-----------------------------------------------------------------------------
(* The questions about lists stop at the first element that decides them,  *)
(* be it the answer or an element that does not parse.                     *)

FirstOf(S) == CHOOSE i \in S : \A j \in S : i <= j

(* Mutant of Overlapping: an element joins the union before it is tested.  *)
OverlappingItself(list, i) ==
  BuildSet({list[j] : j \in 1 .. i}) \cap Addrs(list[i]) # {}

Overlapping(list, i) == BuildSet({list[j] : j \in 1 .. i - 1}) \cap Addrs(list[i]) # {}

CIDRsAreDisjoint(list) ==
  LET stops == {i \in DOMAIN list : list[i] = Invalid \/ Overlapping(list, i)}
  IN  CASE stops = {} -> "true"
        [] stops # {} /\ list[FirstOf(stops)] = Invalid -> "error"
        [] OTHER -> "false"

CIDRsOverlapAny(as, bs) ==
  LET stops == {i \in DOMAIN bs : bs[i] = Invalid \/ BuildSet(as) \cap Addrs(bs[i]) # {}}
  IN  CASE ~Parses(as) -> "error"
        [] Parses(as) /\ stops = {} -> "false"
        [] Parses(as) /\ stops # {} /\ bs[FirstOf(stops)] = Invalid -> "error"
        [] OTHER -> "true"

CIDRContains(b, c) == Addrs(c) \subseteq Addrs(b)
CIDROverlaps(b, c) == Addrs(b) \cap Addrs(c) # {}
IPInCIDR(a, b) == a \in Addrs(b)
CIDRFirstIP(b) == [fam |-> b.fam, n |-> b.addr]
CIDRLastIP(b) == [fam |-> b.fam, n |-> b.addr + SizeOf(b.fam, b.bits) - 1]
IPIsPrivate(a) == \E r \in Private : IPInCIDR(a, r)

(* Both ends are looked up, in one and the same range.                     *)
CIDRIsPrivate(b) ==
  \E r \in Private : IPInCIDR(CIDRFirstIP(b), r) /\ IPInCIDR(CIDRLastIP(b), r)

CIDRsContainingIP(a, list) == {b \in list : IPInCIDR(a, b)}
FilterCIDRsByVersion(list, version) == {b \in list : b.fam = version}

-----------------------------------------------------------------------------

(* IPSet.RemoveFreePrefix: a free block of the length, whichever the       *)
(* library prefers; or none.  A length beyond the addresses of a family    *)
(* that has free ones gives no prefix, which is printed as one.            *)
RemoveFreePrefix(available, len) ==
  LET free  == {b \in Cidr : b.bits = len /\ Addrs(b) \subseteq available}
      short == {a \in available : SetBits[a.fam] < len}
  IN  IF free = {} /\ short = {} THEN {NullElement}
      ELSE free \cup IF short = {} THEN {} ELSE {Invalid}

(* Mutant of FindFreeCIDR: the used blocks are not removed from the pool.  *)
FindFreeUsed(pl, us, len) ==
  IF ~(len \in 0 .. MaxLen /\ Parses(pl) /\ Parses(us)) THEN {Refused}
  ELSE RemoveFreePrefix(BuildSet(pl), len)

FindFreeCIDR(pl, us, len) ==
  IF ~(len \in 0 .. MaxLen /\ Parses(pl) /\ Parses(us)) THEN {Refused}
  ELSE RemoveFreePrefix(BuildSet(pl) \ BuildSet(us), len)

(* A pool as range_to_cidrs writes it, or two of them.                     *)
SetInit ==
  /\ LET all == UNION {Addrs(b) : b \in Cidr}
     IN  \E lo1, hi1, lo2, hi2 \in all :
           pool = (RangeToCIDRs(lo1, hi1) \cup RangeToCIDRs(lo2, hi2)) \ {Refused}
  /\ whole = BuildSet(pool)
  /\ used = <<>> /\ retired = <<>>
  /\ answer = NullElement

(* One allocation.  A null answer joins no list; "invalid Prefix" does.    *)
Allocate(len) ==
  /\ Len(retired) + Len(used) < MaxGiven
  /\ answer' \in FindFreeCIDR(pool, Items(used), len)
  /\ used' = IF answer' \in {NullElement, Refused} THEN used ELSE Append(used, answer')
  /\ UNCHANGED <<whole, pool, retired>>

(* An allocation is given up: its line is deleted from the configuration.  *)
Release(i) ==
  /\ used' = [j \in 1 .. Len(used) - 1 |-> used[IF j < i THEN j ELSE j + 1]]
  /\ answer' = Refused
  /\ UNCHANGED <<whole, pool, retired>>

Merge ==
  /\ Parses(pool)
  /\ pool' = MergeCIDRs(pool)
  /\ answer' = Refused
  /\ UNCHANGED <<whole, used, retired>>

(* The pool is written anew without what was handed out.                   *)
Retire ==
  /\ used # <<>> /\ Parses(pool) /\ Parses(Items(used))
  /\ pool' = SubtractCIDRs(pool, Items(used))
  /\ retired' = retired \o used
  /\ used' = <<>>
  /\ answer' = Refused
  /\ UNCHANGED whole

Narrow(b) ==
  /\ Parses(pool)
  /\ pool' = IntersectCIDRs(pool, {b})
  /\ answer' = Refused
  /\ UNCHANGED <<whole, used, retired>>

OnlyVersion(version) ==
  /\ Parses(pool)
  /\ pool' = FilterCIDRsByVersion(pool, version)
  /\ answer' = Refused
  /\ UNCHANGED <<whole, used, retired>>

SetNext ==
  \/ \E len \in 0 .. MaxLen + 1 : Allocate(len)
  \/ \E i \in DOMAIN used : Release(i)
  \/ Merge
  \/ Retire
  \/ \E b \in Cidr : Narrow(b)
  \/ \E version \in Fams : OnlyVersion(version)

SetSpec == SetInit /\ [][SetNext]_setVars

-----------------------------------------------------------------------------

Given == retired \o used

(* However the lists are rewritten between the calls, no two subnets that  *)
(* were handed out and not given up share an address, and all of them are  *)
(* inside the pool the calls began with.                                   *)
AllocationsDisjoint ==
  /\ \A i \in DOMAIN Given : Addrs(Given[i]) \subseteq whole
  /\ \A i, j \in DOMAIN Given : i # j => Addrs(Given[i]) \cap Addrs(Given[j]) = {}

(* The questions confirm it: the used list is found disjoint, as long as   *)
(* every answer in it was a CIDR; the pool overlaps none of what was taken *)
(* out of it, nor holds the ends of any; two blocks overlap exactly when   *)
(* one contains the other; and the addresses of a private block are        *)
(* private.                                                                *)
QueriesConfirm ==
  /\ Invalid \notin Items(used) => CIDRsAreDisjoint(used) = "true"
  /\ CIDRsOverlapAny(pool, retired) = "false"
  /\ \A b \in Items(retired) :
       CIDRsContainingIP(CIDRFirstIP(b), pool) \cup CIDRsContainingIP(CIDRLastIP(b), pool) = {}
  /\ \A b, c \in pool \cup Items(Given) :
       CIDROverlaps(b, c) <=> \/ CIDRContains(b, c) /\ Addrs(c) # {}
                              \/ CIDRContains(c, b) /\ Addrs(b) # {}
  /\ \A b \in pool : CIDRIsPrivate(b) => \A a \in Addrs(b) : IPIsPrivate(a)

(* cidr_find_free answers with a CIDR, or with null: it "returns `null` if *)
(* no prefix of that size is available in the pool"                        *)
(* (docs/functions/cidr_find_free.md), and every text it does return can   *)
(* join the used list of the next call.                                    *)
NoRoomIsNull == answer # Invalid
=============================================================================
