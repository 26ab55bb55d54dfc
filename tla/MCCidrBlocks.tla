---------------------------- MODULE MCCidrBlocks ----------------------------
(* CidrBlocks with an IPv4 of a few bits and an IPv6 wider than an int.    *)
EXTENDS CidrBlocks

MCWidth == [fam \in {4, 6} |-> IF fam = 4 THEN 4 ELSE IntBits + 2]
=============================================================================
