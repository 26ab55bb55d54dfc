--------------------------------- MODULE Oel ---------------------------------
(***************************************************************************)
(* oel/encode.go and oel/decode.go: the data tree of an Okta expression    *)
(* and the nodes of the parser, both ways.  The parser and its printer are *)
(* a library's, taken as each other's inverse.                             *)
(***************************************************************************)
EXTENDS Tree

(* comparisonOps and logicalOps: every spelling of a canonical operator.   *)
SpellingsOf(op) ==
  CASE op = "==" -> {"==", "eq"} [] op = "!=" -> {"!=", "ne"} [] op = "<" -> {"<", "lt"}
    [] op = ">" -> {">", "gt"} [] op = "<=" -> {"<=", "le"} [] op = ">=" -> {">=", "ge"}
    [] op = "AND" -> {"AND", "and", "&&"} [] op = "OR" -> {"OR", "or", "||"}

ComparisonOps == {"==", "!=", "<", ">", "<=", ">="}
LogicalOps == {"AND", "OR"}
Spells(key, ops) == \E op \in ops : key \in SpellingsOf(op)
Spelled(key, ops) == CHOOSE op \in ops : key \in SpellingsOf(op)

MemberOfKinds == {"isMemberOfGroup", "isMemberOfAnyGroup", "isMemberOfGroupName",
                  "isMemberOfGroupNameStartsWith", "isMemberOfGroupNameContains",
                  "isMemberOfGroupNameRegex"}

NonEmpty(f, key) == NameOf(f, key) # EmptyName

(* numberLiteral: the text of a number is an int when it has no point.     *)
NumberLiteral(v) == Lit(IF IsInt(v) THEN "Int" ELSE "Float", v)

(* buildIdent                                                              *)
BuildIdent(v) ==
  IF v.k = "str" /\ v # EmptyName
  THEN Ast("Path", [user |-> Bool(v.s[1] = "user"), root |-> Name(IF v.s[1] = "user" THEN "" ELSE v.s[1]),
                    hops |-> List([i \in 1 .. Len(v.s) - 1 |-> Name(v.s[i + 1])])], <<>>)
  ELSE Bad

(* argsToNode: nothing, the argument, or a comma list.                     *)
ArgsToNode(args) ==
  CASE Len(args) = 0 -> <<>>
    [] Len(args) = 1 -> args
    [] OTHER -> <<Of("CommaList", NoFields, args)>>

(* The node that n operands make, joined two by two from the left:         *)
(* buildAdditive.                                                          *)
FirstOperand(x) == [n |-> 1, e |-> x.a[1]]
NextOperand(x, s) == [n |-> s.n + 1, e |-> Of(x.t, x.at, <<s.e, x.a[s.n + 1]>>)]
Joins == INSTANCE Stages WITH Start <- FirstOperand, Step <- NextOperand
BuildAdditive(a) == Joins!Stage(Ast("Additive", NoFields, a))[Len(a) - 1].e

(* An operator with its operands.                                          *)
BuildOperator(key, a) ==
  CASE Spells(key, ComparisonOps) ->
         IF Len(a) = 2 THEN Of("Comparison", [x \in {"op"} |-> Name(Spelled(key, ComparisonOps))], a) ELSE Bad
    [] Spells(key, LogicalOps) ->
         IF Len(a) = 0 THEN Bad ELSE IF Len(a) = 1 THEN a[1]
         ELSE Of("Logical", [x \in {"op"} |-> Name(Spelled(key, LogicalOps))], a)
    [] key = "+" -> IF Len(a) < 2 THEN Bad ELSE BuildAdditive(a)
    [] key \in {"?:", "cond"} -> IF Len(a) = 3 THEN Of("Ternary", NoFields, a) ELSE Bad
    [] key \in {"elvis", "matches"} -> IF Len(a) = 2 THEN Of(key, NoFields, a) ELSE Bad
    [] OTHER -> Bad

(* buildCall: a class's method, a function, or a method of a value.        *)
ClassCall(f, args) ==
  IF NonEmpty(f, "class") /\ NonEmpty(f, "method")
  THEN Of("ClassCall", [class |-> f["class"], method |-> f["method"]], args) ELSE Bad

MethodCall(f, target, args) ==
  IF NonEmpty(f, "method")
  THEN Of("MethodCall", [x \in {"method"} |-> f[x]], <<target>> \o args) ELSE Bad

FunctionCall(f, args) ==
  IF ~NonEmpty(f, "function") THEN Bad
  ELSE IF IsToken(f["function"], MemberOfKinds)
  THEN IF args = <<>> THEN Bad ELSE Of("MemberOf", [x \in {"kind"} |-> f["function"]], args)
  ELSE Of("FuncCall", [x \in {"name"} |-> f["function"]], args)

OelCall(v, b) ==
  IF \/ ~Only(v, {"class", "method", "function", "target", "args"})
     \/ Cardinality(DOMAIN v.f \cap {"class", "function", "target"}) # 1
     \/ Present(v.f, "args") /\ v.f["args"].k # "list"
  THEN Bad
  ELSE LET f == v.f
           args == ArgsToNode(BuildList(IF Present(f, "args") THEN f["args"].e ELSE <<>>, b))
       IN CASE Has(f, "class") -> ClassCall(f, args)
            [] Has(f, "target") -> MethodCall(f, b[f["target"]], args)
            [] OTHER -> FunctionCall(f, args)

(* The nodes that are two named parts: buildSelect, buildIndex and         *)
(* buildProjection.                                                        *)
BuildParts(t, v, x, y, b) ==
  IF Only(v, {x, y}) /\ {x, y} \subseteq DOMAIN v.f
  THEN Of(t, NoFields, <<b[v.f[x]], b[v.f[y]]>>) ELSE Bad

BuildSelect(v, b) ==
  IF Only(v, {"operand", "field"}) /\ NonEmpty(v.f, "field") /\ Has(v.f, "operand")
  THEN Of("Field", [x \in {"field"} |-> v.f[x]], <<b[v.f["operand"]]>>) ELSE Bad

(* buildMap: the entries in their order, under keys that are not empty.    *)
OelEntry(v, b) ==
  IF Only(v, {"key", "value"}) /\ NonEmpty(v.f, "key") /\ Has(v.f, "value")
  THEN Of("Entry", NoFields, <<Lit("String", v.f["key"]), b[v.f["value"]]>>) ELSE Bad

BuildMap(v, b) ==
  IF v.k = "list" THEN Of("MapLit", NoFields, [i \in DOMAIN v.e |-> OelEntry(v.e[i], b)]) ELSE Bad

OelRaw(v) == IF v.k = "source" THEN v.ast ELSE Bad

(* buildObject: the construct that the one key names, of w.                *)
OelBuildKeyed(key, w, b) ==
  CASE key = "ident" -> BuildIdent(w)
    [] key = "raw" -> OelRaw(w)
    [] key = "call" -> OelCall(w, b)
    [] key = "select" -> BuildSelect(w, b)
    [] key = "index" -> BuildParts("Index", w, "base", "index", b)
    [] key = "project" -> BuildParts("Projection", w, "base", "expr", b)
    [] key = "map" -> BuildMap(w, b)
    [] key \in {"!", "not"} -> Of("Not", NoFields, <<b[w]>>)
    [] OTHER -> IF w.k = "list" THEN BuildOperator(key, BuildList(w.e, b)) ELSE Bad

(* build: the node of a tree, from the nodes b of its parts.               *)
OelBuildNode(v, b) ==
  CASE v.k = "nil" -> Lit("Null", v)
    [] v.k = "bool" -> Lit("Bool", v)
    [] v.k \in {"str", "source"} -> Lit("String", v)
    [] v.k = "num" -> NumberLiteral(v)
    [] v.k = "list" -> Of("ArrayLit", NoFields, BuildList(v.e, b))
    [] Sole(v) -> OelBuildKeyed(SoleKey(v), v.f[SoleKey(v)], b)
    [] OTHER -> Bad

OelBuildMore(U, b) == [v \in U |-> OelBuildNode(v, b)]
OelBuilds == INSTANCE Stages WITH Start <- NothingBuilt, Step <- OelBuildMore
OelBuild(v) == OelBuilds!Stage(Parts(v))[Height(v)][v]

-----------------------------------------------------------------------------
(* Decode.                                                                 *)

(* decodePath: a hop that is not a name has no place in an ident.          *)
DecodePath(e) ==
  LET hops == e.at["hops"].e
      first == IF e.at["user"].b THEN "user" ELSE e.at["root"].s[1]
  IN IF \E i \in DOMAIN hops : hops[i].k # "str" THEN Node("raw", Source(e))
     ELSE Node("ident", Str([i \in 1 .. Len(hops) + 1 |-> IF i = 1 THEN first ELSE hops[i - 1].s[1]]))

(* decodeMap: a key that is not a string makes the whole map raw.          *)
DecodeMap(e, k) ==
  IF \E i \in DOMAIN e.a : e.a[i].a[1].t # "String" THEN Node("raw", Source(e))
  ELSE Node("map", List(k))

(* A mutant: a comma list is one argument, a list.                         *)
ArgsAsOne(a, k) == IF a = <<>> THEN Nil ELSE List(k)

(* withArgs: a comma list is flattened; its tree is the list it holds.     *)
ArgsTree(a, k) == IF a = <<>> THEN Nil ELSE IF a[1].t = "CommaList" THEN k[1] ELSE List(k)

CallTree(spec) == Node("call", Obj(Written(spec, [x \in {"args"} |-> Nil])))

(* decodeNode: the tree of a node, from the trees k of its operands; the   *)
(* tree of a map's entry is what decodeMap makes of it.                    *)
OelTreeNode(e, k) ==
  CASE e.t \in {"Null", "Bool", "String", "Int", "Float"} -> e.at["value"]
    [] e.t \in {"ArrayLit", "CommaList"} -> List(k)
    [] e.t = "Path" -> DecodePath(e)
    [] e.t \in {"Comparison", "Logical"} -> Node(e.at["op"].s[1], List(k))
    [] e.t = "Additive" -> Node("+", List(k))
    [] e.t = "Not" -> Node("!", k[1])
    [] e.t = "Ternary" -> Node("cond", List(k))
    [] e.t \in {"elvis", "matches"} -> Node(e.t, List(k))
    [] e.t = "ClassCall" -> 
         CallTree([class |-> e.at["class"], method |-> e.at["method"], args |-> ArgsTree(e.a, k)])
    [] e.t = "MemberOf" -> CallTree([function |-> e.at["kind"], args |-> ArgsTree(e.a, k)])
    [] e.t = "FuncCall" -> CallTree([function |-> e.at["name"], args |-> ArgsTree(e.a, k)])
    [] e.t = "MethodCall" ->
         CallTree([target |-> k[1], method |-> e.at["method"], args |-> ArgsTree(Tail(e.a), Tail(k))])
    [] e.t = "Field" -> Node("select", Obj([operand |-> k[1], field |-> e.at["field"]]))
    [] e.t = "Index" -> Node("index", Obj([base |-> k[1], index |-> k[2]]))
    [] e.t = "Projection" -> Node("project", Obj([base |-> k[1], expr |-> k[2]]))
    [] e.t = "MapLit" -> DecodeMap(e, k)
    [] e.t = "Entry" -> Obj([key |-> k[1], value |-> k[2]])
    [] OTHER -> Node("raw", Source(e))

OelTreeMore(A, tree) == [e \in A |-> OelTreeNode(e, [i \in DOMAIN e.a |-> tree[e.a[i]]])]
OelTrees == INSTANCE Stages WITH Start <- NothingDecoded, Step <- OelTreeMore
OelTree(e) == OelTrees!Stage(Parts(e))[Height(e)][e]

-----------------------------------------------------------------------------
(* The nodes that the library's parser makes; its printer writes a whole   *)
(* number without a point, so that one is never a Float.                   *)

IsName(v) == v.k = "str" /\ v # EmptyName

(* A dotted path: from the user or from a name, over names and other hops. *)
IsPath(at) ==
  /\ IsBool(at["user"]) /\ at["root"] = Name(at["root"].s[1])
  /\ IF at["user"].b THEN at["root"] = EmptyName ELSE at["root"] \notin {EmptyName, Name("user")}
  /\ at["hops"] = List(at["hops"].e) /\ IsSequence(at["hops"].e)
  /\ \A i \in DOMAIN at["hops"].e :
       LET hop == at["hops"].e[i] IN hop.k = "str" => hop = Name(hop.s[1])

(* What may stand for the arguments of a call: nothing, an argument, or    *)
(* several in a comma list.                                                *)
AreArguments(a) == a = <<>> \/ (Len(a) = 1 /\ a[1].t # "Entry")

OelValues(a) == \A i \in DOMAIN a : a[i].t \notin {"Entry", "CommaList"}
OperandsOf(e, n) == e.at = NoFields /\ Len(e.a) = n /\ OelValues(e.a)

OelNode(e) ==
  CASE e.t = "Null" -> IsLiteral(e) /\ e.at["value"] = Nil
    [] e.t = "Bool" -> IsLiteral(e) /\ IsBool(e.at["value"])
    [] e.t = "String" -> IsLiteral(e) /\ e.at["value"].k \in {"str", "source"}
    [] e.t \in {"Int", "Float"} ->
         IsLiteral(e) /\ e.at["value"].k = "num" /\ (IsInt(e.at["value"]) <=> e.t = "Int")
    [] e.t = "ArrayLit" -> e.at = NoFields /\ OelValues(e.a)
    [] e.t = "CommaList" -> e.at = NoFields /\ Len(e.a) >= 2 /\ OelValues(e.a)
    [] e.t = "Path" -> HasAttributes(e, {"user", "root", "hops"}) /\ IsPath(e.at) /\ e.a = <<>>
    [] e.t = "Comparison" ->
         /\ HasAttributes(e, {"op"}) /\ \E op \in ComparisonOps : e.at["op"] = Name(op)
         /\ Len(e.a) = 2 /\ OelValues(e.a)
    [] e.t = "Logical" ->
         /\ HasAttributes(e, {"op"}) /\ \E op \in LogicalOps : e.at["op"] = Name(op)
         /\ Len(e.a) >= 2 /\ OelValues(e.a)
    [] e.t \in {"Additive", "elvis", "matches", "Index", "Projection"} -> OperandsOf(e, 2)
    [] e.t = "Not" -> OperandsOf(e, 1)
    [] e.t = "Ternary" -> OperandsOf(e, 3)
    [] e.t = "ClassCall" ->
         /\ HasAttributes(e, {"class", "method"}) /\ IsName(e.at["class"]) /\ IsName(e.at["method"])
         /\ AreArguments(e.a)
    [] e.t = "MemberOf" -> HasAttributes(e, {"kind"}) /\ IsToken(e.at["kind"], MemberOfKinds) /\ AreArguments(e.a)
    [] e.t = "FuncCall" ->
         /\ HasAttributes(e, {"name"}) /\ IsName(e.at["name"]) /\ ~IsToken(e.at["name"], MemberOfKinds)
         /\ AreArguments(e.a)
    [] e.t = "MethodCall" ->
         /\ HasAttributes(e, {"method"}) /\ IsName(e.at["method"])
         /\ Len(e.a) >= 1 /\ e.a[1].t \notin {"Entry", "CommaList"} /\ AreArguments(Tail(e.a))
    [] e.t = "Field" ->
         HasAttributes(e, {"field"}) /\ IsName(e.at["field"]) /\ Len(e.a) = 1 /\ OelValues(e.a)
    [] e.t = "MapLit" -> e.at = NoFields /\ \A i \in DOMAIN e.a : e.a[i].t = "Entry"
    [] e.t = "Entry" ->
         /\ OperandsOf(e, 2)
         /\ e.a[1].t = "String" => e.a[1].at["value"].k = "str"
    [] OTHER -> FALSE

-----------------------------------------------------------------------------
(* nodeToAttr: a number that is not finite is an error.                    *)
OelToAttr(v) == IF HasNumber(v, {"nan", "inf"}) THEN "refused" ELSE "done"

(* hasUnknown, then terraformToNode.                                       *)
OelToNode(v) == ToNode(v)
=============================================================================
