-------------------------------- MODULE Tree --------------------------------
(***************************************************************************)
(* The data trees of the expression languages (cel, oel, promql, cedar):   *)
(* what the encode functions read and the decode functions give, as Go     *)
(* values, and their way to Terraform and back (the families' convert.go   *)
(* and nodevalue.go).                                                      *)
(*                                                                         *)
(* A string is the sequence of its parts between dots; one that is the     *)
(* text of an expression is that expression.  A number is a kind, "fin"    *)
(* for the finite ones, and a count of thousandths.                        *)
(*                                                                         *)
(* What the code computes by recursion over a tree is made in stages, as   *)
(* many as the tree is high (Stages).                                      *)
(***************************************************************************)
EXTENDS Integers, Sequences, FiniteSets, TLC

CONSTANTS
  TreeDepth,   \* the nesting the conversions support (1024)
  TreeNodes    \* the nodes they visit (1,000,000)

ASSUME TreeLimits == TreeDepth \in Nat \ {0} /\ TreeNodes \in Nat \ {0}

Nil == [k |-> "nil"]
Bool(b) == [k |-> "bool", b |-> b]
Str(parts) == [k |-> "str", s |-> parts]
Name(x) == Str(<<x>>)
Source(ast) == [k |-> "source", ast |-> ast]
Num(kind, n) == [k |-> "num", x |-> <<kind, n>>]
Count(n) == Num("fin", 1000 * n)
Span(neg, n) == [k |-> "span", neg |-> neg, n |-> n]   \* the text of a duration
List(e) == [k |-> "list", e |-> e]
Obj(f) == [k |-> "obj", f |-> f]
Node(key, v) == Obj([x \in {key} |-> v])

NoFields == [x \in {} |-> Nil]
EmptyName == Name("")

IsInt(v) == v.x[1] = "fin" /\ v.x[2] % 1000 = 0

(* The members of a set, in one order that depends on nothing else.        *)
InOrder(set) ==
  CHOOSE s \in [1 .. Cardinality(set) -> set] : \A x \in set : \E i \in DOMAIN s : s[i] = x

(* Fields of a tree that are absent, or null where null is taken as such.  *)
Has(f, key) == key \in DOMAIN f
Present(f, key) == Has(f, key) /\ f[key] # Nil
NameOf(f, key) == IF Has(f, key) /\ f[key].k = "str" THEN f[key] ELSE EmptyName
Only(v, allowed) == v.k = "obj" /\ DOMAIN v.f \subseteq allowed
IsToken(v, tokens) == v.k = "str" /\ Len(v.s) = 1 /\ v.s[1] \in tokens

(* The one field of an object.                                             *)
Sole(v) == v.k = "obj" /\ \E x \in DOMAIN v.f : DOMAIN v.f = {x}
SoleKey(v) == CHOOSE x \in DOMAIN v.f : TRUE

(* The fields that a decode writes: an optional one only when it says more *)
(* than its absence would.                                                 *)
Written(f, unsaid) == [x \in {y \in DOMAIN f : Has(unsaid, y) => f[y] # unsaid[y]} |-> f[x]]

-----------------------------------------------------------------------------
(* An expression: the AST node that a library makes of a text.  Its        *)
(* attributes are trees; a node that could not be built is Bad.            *)

Ast(t, at, a) == [k |-> "ast", t |-> t, at |-> at, a |-> a]
Bad == Ast("bad", NoFields, <<>>)
Lit(t, v) == Ast(t, [x \in {"value"} |-> v], <<>>)

(* The shape of a node: its attributes by name, and its operands in order. *)
IsSequence(s) == Len(s) \in Nat /\ s = [i \in 1 .. Len(s) |-> s[i]]
IsNode(e) == e = Ast(e.t, e.at, e.a) /\ IsSequence(e.a)
HasAttributes(e, names) == e.at = [x \in names |-> e.at[x]]
IsLiteral(e) == HasAttributes(e, {"value"}) /\ e.a = <<>>
IsBool(v) == v \in {Bool(TRUE), Bool(FALSE)}

(* The node, when everything under it could be built.                      *)
Of(t, at, a) == IF \E i \in DOMAIN a : a[i] = Bad THEN Bad ELSE Ast(t, at, a)

-----------------------------------------------------------------------------
(* The parts of a tree or an expression, layer by layer.                   *)

(* The elements of a list, the fields of an object, the operands of a node.*)
Held(x) == CASE x.k = "list" -> x.e
             [] x.k = "obj" -> x.f
             [] x.k = "ast" -> x.a
             [] OTHER -> <<>>

FirstLayer(x) == [layer |-> {x}, above |-> {}]
NextLayer(x, s) ==
  [layer |-> UNION {{Held(w)[i] : i \in DOMAIN Held(w)} : w \in s.layer}, above |-> s.above \cup s.layer]
Layers == INSTANCE Stages WITH Start <- FirstLayer, Step <- NextLayer
Layer(x, n) == Layers!Stage(x)[n].layer

(* A number of layers below which there is nothing, found three at a time: *)
(* a node of an expression makes about that many of its tree.              *)
Height(x) ==
  LET below[n \in Nat] == IF Layer(x, n) = {} THEN n ELSE below[n + 3] IN below[0]

Parts(x) == Layers!Stage(x)[Height(x)].above

(* The nodes of a tree, each as often as it is there.                      *)
NoSizes(U) == [w \in U |-> 0]
SizeNode(held, size) ==
  LET sum[d \in SUBSET DOMAIN held] ==
        IF d = {} THEN 0 ELSE LET i == CHOOSE i \in d : TRUE IN size[held[i]] + sum[d \ {i}]
  IN 1 + sum[DOMAIN held]
NextSizes(U, size) == [w \in U |-> SizeNode(Held(w), size)]
Sizes == INSTANCE Stages WITH Start <- NoSizes, Step <- NextSizes
TreeSize(v) == Sizes!Stage(Parts(v))[Height(v)][v]

HasNumber(v, kinds) == \E w \in Parts(v) : w.k = "num" /\ w.x[1] \in kinds

(* What is known of the trees and nodes of parts before any is computed.   *)
NothingDecoded(A) == [e \in A |-> Nil]
NothingBuilt(U) == [v \in U |-> Bad]

(* The nodes b of the elements of a list.                                  *)
BuildList(e, b) == [i \in DOMAIN e |-> b[e[i]]]

-----------------------------------------------------------------------------
(* Terraform's value of a tree has the same shape, so it is written as the *)
(* tree; what each family's own copies of the conversions look at is how   *)
(* far the tree goes, and whether a part of it is not known yet.           *)

UnknownTree == [k |-> "unknown"]

TreeUnknown(v) == UnknownTree \in Parts(v)

PastLimits(v) == Layer(v, TreeDepth) # {} \/ TreeSize(v) > TreeNodes

ToNode(v) ==
  IF TreeUnknown(v) THEN "unknown" ELSE IF PastLimits(v) THEN "refused" ELSE "done"

-----------------------------------------------------------------------------
(* What the proofs say of trees: what a tree holds, how many layers it     *)
(* has, and the numbers in them.                                           *)

HeldBy(x) == {Held(x)[i] : i \in DOMAIN Held(x)}
Short(x, n) == Layer(x, n) = {}
Closed(U) == \A x \in U : HeldBy(x) \subseteq U

Finite(x) == \E n \in Nat : Short(x, n)

(* A tree of so many layers without a number of some kinds.                *)
Odd(v, kinds) == v.k = "num" /\ v.x[1] \in kinds
Mild(v, n, kinds) == Short(v, n) /\ \A i \in Nat : \A w \in Layer(v, i) : ~Odd(w, kinds)

MildAll(s, n, kinds) == \A i \in DOMAIN s : Mild(s[i], n, kinds)
=============================================================================
