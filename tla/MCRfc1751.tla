----------------------------- MODULE MCRfc1751 -----------------------------
(* Keys of one bit each, of all, none and mixed bits, of two blocks, and    *)
(* of lengths that are no blocks.                                           *)
EXTENDS Rfc1751

Bits(b) == {n \in 0 .. 7 : (b \div 2 ^ n) % 2 = 1}
OneBit(n) == [i \in 1 .. 8 |-> IF i = n \div 8 + 1 THEN {7 - (n % 8)} ELSE {}]
Mixed == [i \in 1 .. 8 |-> Bits(<<209, 133, 66, 24, 235, 187, 11, 81>>[i])]
Full == [i \in 1 .. 8 |-> 0 .. 7]

MCKeys == { OneBit(n) : n \in 0 .. 63 }
            \cup { Mixed, Full, Mixed \o Full, OneBit(63) \o Mixed, <<>>, SubSeq(Mixed, 1, 7) }
=============================================================================
