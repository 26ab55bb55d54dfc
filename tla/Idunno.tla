------------------------------- MODULE Idunno -------------------------------
(***************************************************************************)
(* ip_idunno_encode and ip_idunno_decode (network/iputil/idunno.go): the   *)
(* bits of an address cut into code points by the first layout that gives  *)
(* valid ones and enough confusion, and put together again.                *)
(*                                                                         *)
(* An address is its bits; a code point is a number.  The Unicode tables   *)
(* are external: PValid says which code points beyond ASCII are letters,   *)
(* marks or digits in a version of the tables, and the round trip may not  *)
(* depend on what it says.                                                 *)
(***************************************************************************)
EXTENDS Integers, Sequences

CONSTANTS
  Hosts,       \* the addresses to encode: sequences of 32 or 128 bits
  Tables,      \* the versions of the Unicode tables
  PValid(_,_)  \* whether a code point from U+00A0 on is PVALID in a version

ASSUME IdunnoAssumption ==
  Hosts \subseteq [1 .. 32 -> {0, 1}] \cup [1 .. 128 -> {0, 1}]

VARIABLES
  table,   \* the tables the binary is built with
  bits,    \* the address to encode
  turn,    \* the layout being tried
  cps,     \* the code points of the answer, <<>> while there is none
  decoded, \* ip_idunno_decode's answer to them
  stage    \* "encode", "decode", "done", "failed"

idunnoVars == <<table, bits, turn, cps, decoded, stage>>

-----------------------------------------------------------------------------

MaxPad == 20

IPv4Layouts == <<
  <<7, 7, 7, 11>>, <<16, 16>>, <<21, 11>>, <<11, 21>>, <<11, 11, 11, 7>>,
  <<7, 11, 7, 7>>, <<7, 7, 11, 7>>, <<11, 7, 7, 7>>, <<7, 7, 7, 7, 11>>,
  <<7, 7, 7, 16>>, <<7, 7, 7, 21>>, <<7, 7, 7, 7, 16>> >>

Many(n, size) == [i \in 1 .. n |-> size]

IPv6Layouts == <<
  Many(8, 16), <<21>> \o Many(6, 16) \o <<11>>, Many(6, 21) \o <<7>>,
  Many(6, 21) \o <<11>>, Many(5, 21) \o <<16, 16>>, Many(11, 11) \o <<7>>,
  Many(7, 16) \o <<7, 11>>, Many(8, 16) \o <<7>>, Many(8, 16) \o <<11>>,
  Many(9, 16), Many(18, 7) \o <<11>>, Many(18, 7) \o <<16>> >>

Layouts == IF Len(bits) = 32 THEN IPv4Layouts ELSE IPv6Layouts

(* Where chunk i starts, less one: the sum of the sizes before it.         *)
StartOf(layout) ==
  LET start[i \in 1 .. Len(layout) + 1] ==
        IF i = 1 THEN 0 ELSE start[i - 1] + layout[i - 1]
  IN  start

(* bitsToInt                                                               *)
BitsToInt(b) ==
  LET value[i \in 0 .. Len(b)] == IF i = 0 THEN 0 ELSE 2 * value[i - 1] + b[i]
  IN  value[Len(b)]

(* Mutant of ValidCP: a sequence longer than the code point needs.         *)
ValidCPOverlong(v, size) ==
  \/ size = 7 /\ v < 128
  \/ size = 11 /\ v < 2048
  \/ size = 16 /\ 2048 <= v /\ v < 65536 /\ ~(55296 <= v /\ v < 57344)
  \/ size = 21 /\ 65536 <= v /\ v < 1114112

(* A code point whose UTF-8 form has exactly the length the chunk is for.  *)
ValidCP(v, size) ==
  \/ size = 7 /\ v < 128
  \/ size = 11 /\ 128 <= v /\ v < 2048
  \/ size = 16 /\ 2048 <= v /\ v < 65536 /\ ~(55296 <= v /\ v < 57344)
  \/ size = 21 /\ 65536 <= v /\ v < 1114112

Disallowed(cp) ==
  IF cp < 160 THEN ~(cp = 45 \/ cp \in 48 .. 57 \/ cp \in 97 .. 122)
  ELSE ~PValid(table, cp)

(* The padding: the first that makes the last code point disallowed, else  *)
(* the first that makes it valid; -1 when none does.                       *)
PickPaddingValue(part, pad, size) ==
  LET base == BitsToInt(part) * 2 ^ pad
      good == {v \in base .. base + 2 ^ pad - 1 : ValidCP(v, size)}
      odd  == {v \in good : Disallowed(v)}
      FirstIn(S) == CHOOSE v \in S : \A w \in S : v <= w
  IN  IF odd # {} THEN FirstIn(odd) ELSE IF good # {} THEN FirstIn(good) ELSE -1

(* The value of chunk i, or -1 where the layout does not fit: only the     *)
(* last chunk may reach beyond the address.                                *)
Chunk(layout, i) ==
  LET from == StartOf(layout)[i]
      to   == StartOf(layout)[i + 1]
      part == SubSeq(bits, from + 1, to)
  IN  IF to <= Len(bits)
      THEN IF ValidCP(BitsToInt(part), layout[i]) THEN BitsToInt(part) ELSE -1
      ELSE IF i < Len(layout) THEN -1
      ELSE PickPaddingValue(SubSeq(bits, from + 1, Len(bits)), to - Len(bits), layout[i])

SatisfiesMinCL(points) ==
  /\ \E i \in DOMAIN points : points[i] >= 128
  /\ \E i \in DOMAIN points : Disallowed(points[i])

Fits(layout) ==
  LET sum == StartOf(layout)[Len(layout) + 1]
  IN  sum >= Len(bits) /\ sum - Len(bits) <= MaxPad

BitsForCodepoint(cp) ==
  CASE cp < 128 -> 7
    [] 128 <= cp /\ cp < 2048 -> 11
    [] 2048 <= cp /\ cp < 65536 -> 16
    [] OTHER -> 21

BitsOf(cp) ==
  LET n == BitsForCodepoint(cp) IN [i \in 1 .. n |-> (cp \div 2 ^ (n - i)) % 2]

AllBits(points) ==
  LET joined[i \in 0 .. Len(points)] ==
        IF i = 0 THEN <<>> ELSE joined[i - 1] \o BitsOf(points[i])
  IN  joined[Len(points)]

(* Unmap: an IPv4-mapped address is printed as the IPv4 address.           *)
Unmapped(b) ==
  IF Len(b) = 128 /\ SubSeq(b, 1, 96) = Many(80, 0) \o Many(16, 1)
  THEN SubSeq(b, 97, 128) ELSE b

(* The length tells the families apart; <<>> is the error.                 *)
IDunnoDecode(points) ==
  LET all == AllBits(points) IN
  CASE Len(all) \in 32 .. 32 + MaxPad   -> SubSeq(all, 1, 32)
    [] Len(all) \in 128 .. 128 + MaxPad -> Unmapped(SubSeq(all, 1, 128))
    [] OTHER -> <<>>

-----------------------------------------------------------------------------

IdunnoInit ==
  /\ table \in Tables /\ bits \in Hosts
  /\ turn = 1 /\ cps = <<>> /\ decoded = <<>>
  /\ stage = "encode"

(* One layout is tried; the next one is, when it does not give an answer.  *)
TryLayout ==
  /\ stage = "encode" /\ turn <= Len(Layouts)
  /\ \E layout \in {Layouts[turn]} :
     LET points == [i \in DOMAIN layout |-> Chunk(layout, i)]
         valid  == Fits(layout) /\ \A i \in DOMAIN points : points[i] # -1
     IN  IF valid /\ SatisfiesMinCL(points)
         THEN cps' = points /\ stage' = "decode" /\ UNCHANGED turn
         ELSE turn' = turn + 1 /\ UNCHANGED <<cps, stage>>
  /\ UNCHANGED <<table, bits, decoded>>

NoLayout ==
  /\ stage = "encode" /\ turn > Len(Layouts)
  /\ stage' = "failed"
  /\ UNCHANGED <<table, bits, turn, cps, decoded>>

Decode ==
  /\ stage = "decode"
  /\ decoded' = IDunnoDecode(cps)
  /\ stage' = "done"
  /\ UNCHANGED <<table, bits, turn, cps>>

IdunnoNext == TryLayout \/ NoLayout \/ Decode

IdunnoSpec == IdunnoInit /\ [][IdunnoNext]_idunnoVars

-----------------------------------------------------------------------------

(* Whatever layout and padding the encoder settles on, the decoder finds   *)
(* the lengths of the chunks again, tells the family, drops the padding    *)
(* and returns the address; and the answer is confusing enough.            *)
DecodeUndoesEncode ==
  stage = "done" => decoded = Unmapped(bits) /\ SatisfiesMinCL(cps)
=============================================================================
