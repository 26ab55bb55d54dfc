-------------------------------- MODULE Asn1 --------------------------------
(***************************************************************************)
(* asn1_decode (cryptography/asn1.go): DER becomes a tree, by a recursion  *)
(* that is bounded twice, by its depth and by the nodes of the whole tree. *)
(* The bytes are what encoding/asn1 makes of them: values in the order of  *)
(* their headers, each as deep as the values it lies in, up to a place     *)
(* where the bytes are broken.  A tree is written in the same way.         *)
(***************************************************************************)
EXTENDS Integers, Sequences

CONSTANTS
  Ders,        \* the inputs: sequences of values
  Asn1Depth,   \* asn1MaxDepth
  Asn1Nodes    \* asn1MaxNodes

(* A value is primitive, with contents that are good for its tag or not,   *)
(* or constructed; a broken one is where the bytes stop being DER.         *)
Value(k, class, tag, good) ==
  [k |-> k, class |-> class, tag |-> tag, good |-> good, level |-> 0]
Prim(class, tag, good) == Value("primitive", class, tag, good)
Constructed == Value("constructed", "universal", "SEQUENCE", TRUE)
Broken == Value("broken", "universal", "none", FALSE)

(* The first value lies in none, and each other one in the value before it *)
(* or in one that contains that.                                           *)
IsDer(d) ==
  /\ d \in Seq([k : STRING, class : STRING, tag : STRING, good : BOOLEAN, level : Nat])
  /\ \A i \in DOMAIN d :
       /\ i = 1 => d[i].level = 0
       /\ i > 1 => \/ d[i].level <= d[i - 1].level
                   \/ d[i - 1].k = "constructed" /\ d[i].level = d[i - 1].level + 1

ASSUME Asn1Assumption ==
  /\ Asn1Depth \in Nat \ {0} /\ Asn1Nodes \in Nat \ {0}
  /\ \A d \in Ders : IsDer(d)

VARIABLES
  der,     \* the input
  passed,  \* how many of its values were read
  opened,  \* how many calls of decodeChildren have not returned
  nodes,   \* the counter they share
  walk,    \* "walking", "done" or an error
  tree     \* the nodes made so far, and in the end the answer

asn1Vars == <<der, passed, opened, nodes, walk, tree>>

(* decodePrimitive: the contents of these tags are read; all else is text  *)
(* or hexadecimal whatever it holds.                                       *)
Parsed == {"BOOLEAN", "INTEGER", "ENUMERATED", "OBJECT IDENTIFIER", "BMPString",
           "BIT STRING", "UTCTime", "GeneralizedTime"}
DecodePrimitive(raw) == raw.class = "universal" /\ raw.tag \in Parsed => raw.good

(* What Unmarshal is called on, and whether nothing is left of the body of *)
(* the innermost decodeChildren.  A node lies in all that is open.         *)
Coming == der[passed + 1]
UsedUp == passed < Len(der) => Coming.level < opened
AsNode(raw) == [raw EXCEPT !.level = opened]

Asn1Init ==
  /\ der \in Ders
  /\ passed = 0 /\ opened = 0 /\ nodes = 0 /\ walk = "walking" /\ tree = <<>>

-----------------------------------------------------------------------------
(* Unmarshal finds no value.                                               *)
Unreadable ==
  /\ walk = "walking"
  /\ der = <<>> \/ (~UsedUp /\ Coming.k = "broken")
  /\ walk' = "broken"
  /\ UNCHANGED <<der, passed, opened, nodes, tree>>

(* The depth is looked at before anything else.                            *)
TooDeep ==
  /\ opened >= Asn1Depth
  /\ walk' = "too deep"
  /\ UNCHANGED <<passed, opened, nodes, tree>>

(* The value is counted, and then read.                                    *)
Counted ==
  /\ opened < Asn1Depth
  /\ nodes' = nodes + 1
  /\ \/ /\ nodes' > Asn1Nodes
        /\ walk' = "too many" /\ UNCHANGED <<passed, opened, tree>>
     \/ /\ nodes' <= Asn1Nodes /\ Coming.k = "primitive" /\ ~DecodePrimitive(Coming)
        /\ walk' = "misfit" /\ UNCHANGED <<passed, opened, tree>>
     \/ /\ nodes' <= Asn1Nodes /\ Coming.k = "primitive" /\ DecodePrimitive(Coming)
        /\ passed' = passed + 1 /\ tree' = Append(tree, AsNode(Coming))
        /\ walk' = IF opened = 0 THEN "done" ELSE walk
        /\ UNCHANGED opened
     \/ /\ nodes' <= Asn1Nodes /\ Coming.k = "constructed"
        /\ passed' = passed + 1 /\ tree' = Append(tree, AsNode(Coming))
        /\ opened' = opened + 1
        /\ UNCHANGED walk

(* rawValueToNode.                                                         *)
RawValueToNode ==
  /\ walk = "walking" /\ ~UsedUp /\ Coming.k # "broken"
  /\ TooDeep \/ Counted
  /\ UNCHANGED der

(* A mutant: what was counted in a decodeChildren is forgotten with it, as *)
(* if the counter were passed by value.                                    *)
CountedByBranch ==
  /\ walk = "walking" /\ opened > 0 /\ UsedUp
  /\ opened' = opened - 1
  /\ walk' = IF opened' = 0 THEN "done" ELSE walk
  /\ nodes' = opened
  /\ UNCHANGED <<der, passed, tree>>

(* decodeChildren returns once its bytes are used up; the first value is   *)
(* the answer, and what follows it is ignored.                             *)
ChildrenDecoded ==
  /\ walk = "walking" /\ opened > 0 /\ UsedUp
  /\ opened' = opened - 1
  /\ walk' = IF opened' = 0 THEN "done" ELSE walk
  /\ UNCHANGED <<der, passed, nodes, tree>>

Asn1Next == Unreadable \/ RawValueToNode \/ ChildrenDecoded

Asn1Spec == Asn1Init /\ [][Asn1Next]_asn1Vars

-----------------------------------------------------------------------------
(* Properties.                                                             *)

(* What the input says, read without any limit: the i-th value lies in the *)
(* first one, and can be part of an answer.                                *)
OfFirst(i) == \A j \in 2 .. i : der[j].level > 0
Decodable(i) ==
  /\ der[i].k # "broken"
  /\ der[i].k = "primitive" => DecodePrimitive(der[i])
  /\ der[i].level < Asn1Depth /\ i <= Asn1Nodes

(* The answer is the whole tree of the first value, exactly when that is   *)
(* sound and within both limits, whatever its shape: the nodes of siblings *)
(* count together, and no depth or count below its limit is refused.       *)
WholeTreeWithinLimits ==
  walk # "walking" =>
    IF der # <<>> /\ \A i \in DOMAIN der : OfFirst(i) => Decodable(i)
    THEN /\ walk = "done"
         /\ DOMAIN tree = { i \in DOMAIN der : OfFirst(i) }
         /\ \A i \in DOMAIN tree : tree[i] = der[i]
    ELSE walk # "done"
=============================================================================
