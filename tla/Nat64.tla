------------------------------- MODULE Nat64 -------------------------------
(***************************************************************************)
(* nat64_synthesize, nat64_extract, nat64_prefix_valid and the CIDR form   *)
(* (network/iputil/iputil.go): an IPv4 address embedded under a prefix,    *)
(* the text of the result handed to nat64_extract, and the blocks.         *)
(*                                                                         *)
(* An address is its octets, numbered from 0 as in the code.               *)
(***************************************************************************)
EXTENDS Integers, Sequences

CONSTANTS
  V4Addrs,     \* the IPv4 addresses to embed
  Raws,        \* the IPv6 addresses prefixes are written with
  PrefixBits   \* and the lengths they are written with

ASSUME Nat64Assumption ==
  /\ V4Addrs \subseteq [0 .. 3 -> 0 .. 255]
  /\ Raws \subseteq [0 .. 15 -> 0 .. 255]
  /\ PrefixBits \subseteq 0 .. 128

VARIABLES
  v4,         \* the IPv4 address
  nat64,      \* the prefix as it is written: raw and bits
  named,      \* whether nat64_extract is given the prefix
  text,       \* nat64_synthesize's answer, or <<>>
  back,       \* nat64_extract's answer
  step        \* "synthesize", "extract", "done"

nat64Vars == <<v4, nat64, named, text, back, step>>

-----------------------------------------------------------------------------

Octets == 0 .. 255
ValidLengths == {32, 40, 48, 56, 64, 96}
Failed == "error"

(* Where the octets of the IPv4 address go: around octet 8, the u-octet.   *)
Layout(pl) ==
  CASE pl = 32 -> <<4, 5, 6, 7>>
    [] pl = 40 -> <<5, 6, 7, 9>>
    [] pl = 48 -> <<6, 7, 9, 10>>
    [] pl = 56 -> <<7, 9, 10, 11>>
    [] pl = 64 -> <<9, 10, 11, 12>>
    [] OTHER   -> <<12, 13, 14, 15>>

(* Masked() of an address with a prefix of whole octets.                   *)
MaskedRaw(raw, bits) == [i \in 0 .. 15 |-> IF 8 * i < bits THEN raw[i] ELSE 0]

(* Mutant of PlaceIPv4: the u-octet is not skipped in the layout of /40.   *)
PlaceOverU(raw, a, pl) ==
  LET at == IF pl = 40 THEN <<5, 6, 7, 8>> ELSE Layout(pl)
  IN  [i \in 0 .. 15 |->
         IF \E k \in 1 .. 4 : at[k] = i
         THEN a[(CHOOSE k \in 1 .. 4 : at[k] = i) - 1]
         ELSE IF i = 8 THEN 0 ELSE raw[i]]

PlaceIPv4(raw, a, pl) ==
  [i \in 0 .. 15 |->
     IF \E k \in 1 .. 4 : Layout(pl)[k] = i
     THEN a[(CHOOSE k \in 1 .. 4 : Layout(pl)[k] = i) - 1]
     ELSE IF i = 8 THEN 0 ELSE raw[i]]

ExtractIPv4(raw, pl) == [k \in 0 .. 3 |-> raw[Layout(pl)[k + 1]]]

(* The unmasked u-octet is tested: masking would hide it.                  *)
NAT64PrefixValid(pre) == pre.bits \in ValidLengths /\ pre.raw[8] = 0

-----------------------------------------------------------------------------
(* Mixed notation: six groups of two octets with the first longest run of  *)
(* zeros left out, when it is of two groups or more, and a dotted quad.    *)

Groups(raw) == [g \in 1 .. 6 |-> <<raw[2 * g - 2], raw[2 * g - 1]>>]

Runs(groups) ==
  {r \in [from : 1 .. 6, len : 2 .. 6] :
     /\ r.from + r.len <= 7
     /\ \A g \in r.from .. r.from + r.len - 1 : groups[g] = <<0, 0>>}

BestRun(groups) ==
  CHOOSE r \in Runs(groups) :
    \A q \in Runs(groups) : q.len < r.len \/ (q.len = r.len /\ q.from >= r.from)

MixedNotation(raw) ==
  LET groups == Groups(raw)
      quad   == [k \in 0 .. 3 |-> raw[12 + k]]
  IN  IF Runs(groups) = {}
      THEN [left |-> groups, gap |-> FALSE, right |-> <<>>, quad |-> quad]
      ELSE LET r == BestRun(groups)
           IN  [left |-> SubSeq(groups, 1, r.from - 1), gap |-> TRUE,
                right |-> SubSeq(groups, r.from + r.len, 6), quad |-> quad]

(* netip.ParseAddr of such a text (external).                              *)
ReadMixed(t) ==
  LET hidden == 6 - Len(t.left) - Len(t.right)
      groups == t.left \o [g \in 1 .. hidden |-> <<0, 0>>] \o t.right
  IN  [i \in 0 .. 15 |->
         IF i < 12 THEN groups[i \div 2 + 1][(i % 2) + 1] ELSE t.quad[i - 12]]

IsMapped4In6(raw) ==
  (\A i \in 0 .. 9 : raw[i] = 0) /\ raw[10] = 255 /\ raw[11] = 255

(* ip_to_ipv4_mapped.                                                      *)
IPv4ToIPv4Mapped(a) ==
  MixedNotation([i \in 0 .. 15 |->
    IF i < 10 THEN 0 ELSE IF i < 12 THEN 255 ELSE a[i - 12]])

-----------------------------------------------------------------------------

NAT64Synthesize(a, pre) ==
  IF pre.bits \notin ValidLengths THEN <<>>
  ELSE <<MixedNotation(PlaceIPv4(MaskedRaw(pre.raw, pre.bits), a, pre.bits))>>

(* ParseAddr unmaps: an IPv4-mapped text is an IPv4 address by then, which *)
(* is refused.  Without a prefix the last four octets are taken.           *)
NAT64Extract(t, pre, given) ==
  LET raw == ReadMixed(t) IN
  CASE IsMapped4In6(raw) -> <<>>
    [] ~IsMapped4In6(raw) /\ ~given -> <<[k \in 0 .. 3 |-> raw[12 + k]]>>
    [] ~IsMapped4In6(raw) /\ given /\ pre.bits \notin ValidLengths -> <<>>
    [] OTHER -> <<ExtractIPv4(raw, pre.bits)>>

(* Mutant of CidrLength: the u-octet before the IPv4 bits is not counted.  *)
CidrLengthPastU(pl, v4Bits) ==
  CASE pl = 96 -> 96 + v4Bits
    [] pl = 64 -> 64 + v4Bits
    [] OTHER -> -1

(* nat64IPv6PrefixLenForIPv4: only where the IPv4 bits are contiguous.     *)
CidrLength(pl, v4Bits) ==
  CASE pl = 96 -> 96 + v4Bits
    [] pl = 64 -> 72 + v4Bits
    [] OTHER -> -1

(* Bit n of an address, the first being bit 0.                             *)
BitOf(o, n) == (o[n \div 8] \div 2 ^ (7 - (n % 8))) % 2

SameBits(a, b, n) == \A i \in 0 .. n - 1 : BitOf(a, i) = BitOf(b, i)

MaskBits(a, n, width) ==
  [i \in 0 .. width - 1 |->
     IF 8 * i + 8 <= n THEN a[i]
     ELSE IF 8 * i >= n THEN 0
     ELSE LET low == 2 ^ (8 * i + 8 - n) IN a[i] - (a[i] % low)]

(* The block of IPv6 addresses for an IPv4 block, or <<>>.                 *)
NAT64SynthesizeCIDR(a, v4Bits, pre) ==
  LET len == CidrLength(pre.bits, v4Bits) IN
  IF len = -1 THEN <<>>
  ELSE LET net == MaskBits(a, v4Bits, 4)
           raw == PlaceIPv4(MaskedRaw(pre.raw, pre.bits), net, pre.bits)
       IN  <<[raw |-> MaskBits(raw, len, 16), bits |-> len]>>

-----------------------------------------------------------------------------

Nat64Init ==
  /\ v4 \in V4Addrs
  /\ nat64 \in [raw : Raws, bits : PrefixBits]
  /\ named \in BOOLEAN
  /\ text = <<>> /\ back = <<>>
  /\ step = "synthesize"

Synthesize ==
  /\ step = "synthesize"
  /\ text' = NAT64Synthesize(v4, nat64)
  /\ step' = IF text' = <<>> THEN "done" ELSE "extract"
  /\ UNCHANGED <<v4, nat64, named, back>>

Extract ==
  /\ step = "extract"
  /\ back' = NAT64Extract(text[1], nat64, named)
  /\ step' = "done"
  /\ UNCHANGED <<v4, nat64, named, text>>

Nat64Next == Synthesize \/ Extract

Nat64Spec == Nat64Init /\ [][Nat64Next]_nat64Vars

-----------------------------------------------------------------------------

(* What nat64_synthesize embeds, nat64_extract gives back from the text of *)
(* the answer: with the same prefix for every length, and without one for  *)
(* a /96.  The exception is an answer that is an IPv4-mapped address, as   *)
(* ip_to_ipv4_mapped writes it: it is read as the IPv4 address.            *)
ExtractUndoesSynthesize ==
  step = "done" /\ nat64.bits \in ValidLengths =>
    IF IsMapped4In6(ReadMixed(text[1]))
    THEN back = <<>> /\ (nat64.bits = 96 => text = <<IPv4ToIPv4Mapped(v4)>>)
    ELSE named \/ nat64.bits = 96 => back = <<v4>>

(* The address of a host is in the IPv6 block of an IPv4 block exactly     *)
(* when the host is in the IPv4 block, and a valid prefix holds them all.  *)
CidrFormAgrees ==
  step = "extract" =>
    LET raw == ReadMixed(text[1]) IN
    /\ NAT64PrefixValid(nat64) => SameBits(raw, nat64.raw, nat64.bits)
    /\ \A net \in V4Addrs : \A bits \in {0, 7, 8, 15, 31, 32} :
         LET block == NAT64SynthesizeCIDR(net, bits, nat64) IN
         IF block = <<>> THEN nat64.bits \notin {64, 96}
         ELSE SameBits(raw, block[1].raw, block[1].bits) <=> SameBits(v4, net, bits)
=============================================================================
