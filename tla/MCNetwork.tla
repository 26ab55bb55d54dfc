----------------------------- MODULE MCNetwork -----------------------------
(* The network family on short words.  The NPTv6 prefixes have words that  *)
(* add up to every kind of sum the folding tells apart: either zero, one   *)
(* round, two rounds, and the largest.  NAT64 and I-DUNNO run on addresses *)
(* of full length.                                                         *)
EXTENDS Network, MCCidrBlocks, MCCidrSets

MCTop == { <<0, 0, 0>>, <<0, 1, Max>>, <<Max, Max, Max>>, <<Max, Max, 1>>, <<1, 2, 4>> }

MCV4Addrs == {a \in [0 .. 3 -> {0, 129, 255}] : a[1] = a[2]}

(* The unspecified address, one with host bits, the mapped block, one with *)
(* a u-octet, one without a run of zeros and one with two such runs.       *)
Zeros == [i \in 0 .. 15 |-> 0]
MCRaws == { Zeros, [Zeros EXCEPT ![0] = 1, ![15] = 2],
            [Zeros EXCEPT ![10] = 255, ![11] = 255],
            [Zeros EXCEPT ![1] = 1, ![8] = 1],
            [i \in 0 .. 15 |-> IF i % 4 = 1 THEN 0 ELSE 255],
            [i \in 0 .. 15 |-> IF i \in {3, 7} THEN 1 ELSE 0] }

(* Addresses of control characters, digits, letters and large octets, and  *)
(* one that no layout confuses when every character is a letter.           *)
FromOctets(o, n) ==
  [i \in 1 .. 8 * n |-> (o[(i - 1) \div 8] \div 2 ^ (7 - ((i - 1) % 8))) % 2]

MCQuads ==
  { [k \in 0 .. 3 |-> IF k = i THEN x ELSE IF k > i THEN z ELSE y] :
      i \in 0 .. 3, x, y, z \in {0, 48, 97, 217, 255} }
    \cup { [k \in 0 .. 3 |-> <<217, 189, 182, 98>>[k + 1]] }

Wide(q, from) ==
  [i \in 0 .. 15 |-> IF i < from THEN q[0] ELSE IF i < 12 THEN q[1] ELSE q[i - 12]]

MCHosts == { FromOctets(q, 4) : q \in MCQuads }
   \cup { FromOctets(Wide(q, from), 16) : q \in MCQuads, from \in {0, 10, 12} }

MCPValid(t, cp) ==
  \/ t = "all letters"
  \/ cp \in 223 .. 687 \/ cp \in 1072 .. 1919
  \/ cp \in 12353 .. 40959 \/ cp \in 44032 .. 55203
=============================================================================
