------------------------------- MODULE MCAsn1 -------------------------------
(* Every shape of three levels with two children each, below one more level *)
(* and alone, and wide ones: below, at and above both limits.               *)
EXTENDS Asn1

(* Values in a constructed one.                                             *)
Holding(body) == <<Constructed>> \o [i \in DOMAIN body |-> [body[i] EXCEPT !.level = @ + 1]]

Integer(good) == Prim("universal", "INTEGER", good)
Leaves == { <<v>> : v \in {Integer(TRUE), Integer(FALSE), Prim("context", "INTEGER", FALSE),
                           Broken, Constructed} }
Over(ts) == Leaves \cup { Holding(t) : t \in ts } \cup { Holding(t \o u) : t, u \in ts }
Shapes == Over(Over(Leaves))

Wide == { Holding([i \in 1 .. n |-> Prim("universal", "NULL", FALSE)]) : n \in 3 .. 7 }

MCDers ==
  {<<>>} \cup Shapes \cup Wide
    \cup { Holding(t) : t \in Shapes \cup Wide }
    \cup { t \o <<Broken>> : t \in Leaves \cup Wide }
=============================================================================
