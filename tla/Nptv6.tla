------------------------------- MODULE Nptv6 -------------------------------
(***************************************************************************)
(* nptv6_translate (network/iputil/iputil.go): one host's address carried  *)
(* from site to site by a chain of calls, each from the prefix it has to   *)
(* another one, back and forth in any order.                               *)
(*                                                                         *)
(* An address is the three 16-bit words of its /48, the subnet word that   *)
(* the translation adjusts, and the interface identifier it leaves alone.  *)
(***************************************************************************)
EXTENDS Integers

CONSTANTS
  Word16,           \* 2^16: the values of an address word
  Top,            \* the first 48 bits an address can have, as three words
  Site,           \* the sites whose prefixes the calls name
  PrefixLengths,  \* the lengths a prefix may be written with
  Iids,           \* interface identifiers
  MappedIid       \* the last 64 bits of an IPv4-mapped address

ASSUME SiteAssumption ==
  /\ Word16 \in Nat /\ Word16 >= 2
  /\ Top \subseteq [1 .. 3 -> 0 .. Word16 - 1]
  /\ Top # {} /\ Site # {}

VARIABLES
  prefix,  \* the prefix of each site
  home,    \* the site the address began at
  origin,   \* and the address it was
  at,      \* the site it is at now
  host,     \* its address there: the result of the last call
  seen     \* the subnet word each site first got from a translation

siteVars == <<prefix, home, origin, at, host, seen>>

-----------------------------------------------------------------------------

Max == Word16 - 1
Words16 == 0 .. Max

SitePrefix == [bits : PrefixLengths, top : Top]
SiteAddr == [top : Top, sub : Words16, iid : Iids]
None == -1
NoAddr == [top |-> <<>>, sub |-> None, iid |-> MappedIid]

(* Mutant of Fold: the carry is dropped.                                   *)
FoldWithoutCarry(acc) == acc % Word16

(* One round of the loops that fold the carries back in.                   *)
Fold(acc) == (acc \div Word16) + (acc % Word16)

(* The loops end after two rounds: the sums are of three words at most.    *)
OcsSum(top) == Fold(Fold(top[1] + top[2] + top[3]))

(* Mutant of OcsAdd: the sum is not folded into a word.                    *)
OcsAddWide(a, b) == a + b

OcsAdd(a, b) == Fold(Fold(a + b))

Complement(x) == Max - x

(* Mutant of Positive: the word of all ones is left as it is.              *)
PositiveNot(x) == x

(* All ones is the other zero, and is written as zero.                     *)
Positive(x) == IF x = Max THEN 0 ELSE x

(* Mutant of Adjusted: the difference of the sums is added.                *)
AdjustedWrongWay(sub, from, to) ==
  Positive(OcsAdd(sub, OcsAdd(OcsSum(to), Complement(OcsSum(from)))))

Adjusted(sub, from, to) ==
  LET delta == OcsAdd(OcsSum(to), Complement(OcsSum(from)))
  IN  Positive(OcsAdd(sub, Complement(delta)))

(* ParseAddr turns such an address into an IPv4 one, which is refused.     *)
IsMappedSite(ip) ==
  ip.top = [i \in 1 .. 3 |-> 0] /\ ip.sub = 0 /\ ip.iid = MappedIid

NPTv6Translate(ip, from, to) ==
  IF \/ IsMappedSite(ip)
     \/ from.bits # 48 \/ to.bits # 48
     \/ ip.top # from.top
  THEN NoAddr
  ELSE [top |-> to.top, sub |-> Adjusted(ip.sub, from.top, to.top), iid |-> ip.iid]

-----------------------------------------------------------------------------

SiteInit ==
  /\ prefix \in [Site -> SitePrefix]
  /\ home \in Site
  /\ origin \in {a \in SiteAddr : a.top = prefix[home].top}
  /\ at = home
  /\ host = origin
  /\ seen = [s \in Site |-> None]

Translate(to) ==
  LET r == NPTv6Translate(host, prefix[at], prefix[to]) IN
  /\ r # NoAddr
  /\ host' = r
  /\ at' = to
  /\ seen' = [seen EXCEPT ![to] = IF @ = None THEN r.sub ELSE @]
  /\ UNCHANGED <<prefix, home, origin>>

SiteNext == \E to \in Site : Translate(to)

SiteSpec == SiteInit /\ [][SiteNext]_siteVars

-----------------------------------------------------------------------------

SiteTypeOK ==
  /\ prefix \in [Site -> SitePrefix]
  /\ home \in Site /\ at \in Site
  /\ origin \in SiteAddr /\ host \in SiteAddr
  /\ seen \in [Site -> Words16 \cup {None}]

(* What an address adds to a TCP or UDP checksum; the interface            *)
(* identifier adds the same before and after.                              *)
Sum(a) == OcsSum(a.top) + a.sub

(* Equal as one's complement numbers, where all ones is a zero; no sum     *)
(* exceeds twice that.                                                     *)
Congruent(x, y) == x - y \in {-2 * Max, -Max, 0, Max, 2 * Max}

(* "the one's complement sum of all 128 bits is preserved"                 *)
(* (descriptions/nptv6_translate.md), through any chain of translations.   *)
ChecksumNeutral == Congruent(Sum(host), Sum(origin))

(* Whatever sites an address passes through, a site always gives it the    *)
(* same subnet, so that the address of a host does not depend on the       *)
(* route; and it comes home to its own, if that was not the word of all    *)
(* ones.                                                                   *)
RoutesAgree ==
  /\ seen[at] \in {None, host.sub}
  /\ at = home /\ origin.sub # Max => host = origin
=============================================================================
