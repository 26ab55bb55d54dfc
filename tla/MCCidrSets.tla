----------------------------- MODULE MCCidrSets -----------------------------
(* CidrSets with two IPv4 and four IPv6 addresses.                         *)
EXTENDS CidrSets

MCSetBits == [fam \in {4, 6} |-> IF fam = 4 THEN 1 ELSE 2]

MCPrivate == {[fam |-> 4, addr |-> 1, bits |-> 1], [fam |-> 6, addr |-> 1, bits |-> 2],
              [fam |-> 6, addr |-> 2, bits |-> 1]}
=============================================================================
