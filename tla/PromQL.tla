------------------------------- MODULE PromQL -------------------------------
(***************************************************************************)
(* promql/encode.go and promql/decode.go: the data tree of a query and the *)
(* Prometheus AST, both ways.  The library's parser and printer are taken  *)
(* as each other's inverse, so a node that is built is the one the parser  *)
(* reads back: a selector with a name also has the matcher of that name.   *)
(***************************************************************************)
EXTENDS Tree

CONSTANTS
  AtLimit,        \* the largest @ timestamp encode takes, in seconds (1e15)
  PromFunctions   \* the functions of the library that are not experimental

BinaryOps == {"+", "-", "*", "/", "%", "^", "atan2", "==", "!=", "<", "<=", ">", ">=",
              "and", "or", "unless"}
AggOps == {"sum", "avg", "min", "max", "count", "count_values", "quantile", "stddev", "stdvar",
           "topk", "bottomk", "group"}
MatcherTypes == {"=", "!=", "=~", "!~"}

Matchers(set) == [k |-> "matchers", m |-> set]
Matcher(name, type, v) == [name |-> name, type |-> type, value |-> v]
OneToOne == Obj([on |-> Bool(FALSE), labels |-> List(<<>>), card |-> Name("one"), include |-> List(<<>>)])

NamesOnly(v) == v.k = "list" /\ \A i \in DOMAIN v.e : v.e[i].k = "str"

Wrong == [k |-> "wrong"]
AnyWrong(at) == \E x \in DOMAIN at : at[x] = Wrong
Made(t, at, a) == IF AnyWrong(at) THEN Bad ELSE Of(t, at, a)

(* duration: a sign and a text that the library parses.                    *)
Duration(v) == IF v.k = "span" THEN v ELSE Wrong
OptionalSpan(f, key) == IF Present(f, key) THEN Duration(f[key]) ELSE Nil
DurationOf(f, key) == IF Present(f, key) THEN Duration(f[key]) ELSE Wrong

(* The timestamps of an @, in thousandths.                                *)
AtTimes == -1000 * AtLimit .. 1000 * AtLimit

(* parseAt, when an at is given.                                           *)
ParseAt(f) ==
  IF ~Present(f, "at") THEN Nil
  ELSE LET at == f["at"] IN
       IF IsToken(at, {"start", "end"}) THEN at
       ELSE IF at.k = "num" /\ at.x[1] \in {"fin", "-0"} /\ at.x[2] \in AtTimes
       THEN Num("fin", at.x[2]) ELSE Wrong

(* buildMatchers                                                           *)
MatcherOf(v) ==
  IF /\ Only(v, {"name", "type", "value"})
     /\ NameOf(v.f, "name") # EmptyName
     /\ IsToken(NameOf(v.f, "type"), MatcherTypes)
  THEN Matcher(NameOf(v.f, "name"), NameOf(v.f, "type"), NameOf(v.f, "value"))
  ELSE Wrong

BuildMatchers(f) ==
  IF ~Present(f, "matchers") THEN Matchers({})
  ELSE IF f["matchers"].k # "list" THEN Wrong
  ELSE LET e == f["matchers"].e
       IN IF \E i \in DOMAIN e : MatcherOf(e[i]) = Wrong THEN Wrong
          ELSE Matchers({MatcherOf(e[i]) : i \in DOMAIN e})

(* vectorSelectorFields, and the matcher the parser adds for a name.       *)
NameMatcher(name) == Matcher(Name("__name__"), Name("="), name)
NameMatchers(name) == IF name = EmptyName THEN {} ELSE {NameMatcher(name)}

SelectorAt(f) ==
  LET named == NameOf(f, "name")  given == BuildMatchers(f) IN
  [name |-> named,
   matchers |-> IF given = Wrong THEN Wrong ELSE Matchers(given.m \cup NameMatchers(named)),
   offset |-> OptionalSpan(f, "offset"), at |-> ParseAt(f)]

BuildVectorSelector(v) ==
  IF Only(v, {"name", "matchers", "offset", "at"})
  THEN Made("VectorSelector", SelectorAt(v.f), <<>>) ELSE Bad

BuildMatrixSelector(v) ==
  IF Only(v, {"name", "matchers", "offset", "at", "range"})
  THEN Made("MatrixSelector",
            [x \in {"name", "matchers", "offset", "at", "range"} |->
               IF x = "range" THEN DurationOf(v.f, x) ELSE SelectorAt(v.f)[x]], <<>>)
  ELSE Bad

(* buildVectorMatching: a label list that is given must be one.            *)
LabelsOf(f, key) == IF NamesOnly(f[key]) THEN f[key] ELSE Wrong

VectorMatchingAt(f) ==
  IF {"on", "ignoring"} \subseteq DOMAIN f \/ {"group_left", "group_right"} \subseteq DOMAIN f
  THEN Wrong
  ELSE LET at == [on |-> Bool(Has(f, "on")),
                  labels |-> IF Has(f, "on") THEN LabelsOf(f, "on")
                             ELSE IF Has(f, "ignoring") THEN LabelsOf(f, "ignoring") ELSE List(<<>>),
                  card |-> Name(IF Has(f, "group_left") THEN "left"
                                ELSE IF Has(f, "group_right") THEN "right" ELSE "one"),
                  include |-> IF Has(f, "group_left") THEN LabelsOf(f, "group_left")
                              ELSE IF Has(f, "group_right") THEN LabelsOf(f, "group_right")
                              ELSE List(<<>>)]
       IN IF AnyWrong(at) THEN Wrong ELSE Obj(at)

(* The grouping of an aggregation.                                         *)
GroupingOf(f) ==
  IF {"by", "without"} \subseteq DOMAIN f THEN Wrong
  ELSE IF Has(f, "by") THEN LabelsOf(f, "by")
  ELSE IF Has(f, "without") THEN LabelsOf(f, "without") ELSE List(<<>>)

BuildCall(v, b) ==
  IF /\ Only(v, {"func", "args"})
     /\ IsToken(NameOf(v.f, "func"), PromFunctions)
     /\ Present(v.f, "args") => v.f["args"].k = "list"
  THEN LET args == IF Present(v.f, "args") THEN v.f["args"].e ELSE <<>>
       IN Of("Call", [x \in {"func"} |-> v.f["func"]], [i \in DOMAIN args |-> b[args[i]]])
  ELSE Bad

BuildAggregation(v, b) ==
  IF /\ Only(v, {"op", "expr", "param", "by", "without"})
     /\ IsToken(NameOf(v.f, "op"), AggOps) /\ Has(v.f, "expr")
  THEN Made("Aggregate",
            [op |-> v.f["op"], without |-> Bool(Has(v.f, "without")), grouping |-> GroupingOf(v.f)],
            IF Present(v.f, "param") THEN <<b[v.f["expr"]], b[v.f["param"]]>> ELSE <<b[v.f["expr"]]>>)
  ELSE Bad

BuildBinary(v, b) ==
  IF /\ Only(v, {"op", "lhs", "rhs", "bool", "on", "ignoring", "group_left", "group_right"})
     /\ IsToken(NameOf(v.f, "op"), BinaryOps) /\ {"lhs", "rhs"} \subseteq DOMAIN v.f
  THEN Made("Binary",
            [op |-> v.f["op"], bool |-> Bool(Has(v.f, "bool") /\ v.f["bool"] = Bool(TRUE)),
             matching |-> VectorMatchingAt(v.f)],
            <<b[v.f["lhs"]], b[v.f["rhs"]]>>)
  ELSE Bad

BuildSubquery(v, b) ==
  IF Only(v, {"expr", "range", "step", "offset", "at"}) /\ Has(v.f, "expr")
  THEN Made("Subquery",
            [range |-> DurationOf(v.f, "range"), step |-> OptionalSpan(v.f, "step"),
             offset |-> OptionalSpan(v.f, "offset"), at |-> ParseAt(v.f)],
            <<b[v.f["expr"]]>>)
  ELSE Bad

BuildRaw(v) == IF v.k = "source" THEN v.ast ELSE Bad

(* buildObject: the construct that the one key names, of w.                *)
PromBuildKeyed(key, w, b) ==
  CASE key = "vectorSelector" -> BuildVectorSelector(w)
    [] key = "matrixSelector" -> BuildMatrixSelector(w)
    [] key = "call" -> BuildCall(w, b)
    [] key = "aggregation" -> BuildAggregation(w, b)
    [] key = "binaryExpr" -> BuildBinary(w, b)
    [] key = "subquery" -> BuildSubquery(w, b)
    [] key = "paren" -> Of("Paren", NoFields, <<b[w]>>)
    [] key \in {"neg", "pos"} -> Of("Unary", [x \in {"op"} |-> Name(key)], <<b[w]>>)
    [] key = "raw" -> BuildRaw(w)
    [] OTHER -> Bad

(* build: the node of a tree, from the nodes b of its parts.               *)
PromBuildNode(v, b) ==
  CASE v.k \in {"str", "span", "source"} -> Lit("String", v)
    [] v.k = "num" -> Lit("Number", v)
    [] Sole(v) -> PromBuildKeyed(SoleKey(v), v.f[SoleKey(v)], b)
    [] OTHER -> Bad

PromBuildMore(U, b) == [v \in U |-> PromBuildNode(v, b)]
PromBuilds == INSTANCE Stages WITH Start <- NothingBuilt, Step <- PromBuildMore
PromBuild(v) == PromBuilds!Stage(Parts(v))[Height(v)][v]

-----------------------------------------------------------------------------
(* Decode.                                                                 *)

(* The matchers come sorted: in one order that depends on nothing else.    *)
DecodeMatchers(e) ==
  LET shown == InOrder(e.at["matchers"].m \ NameMatchers(e.at["name"]))
  IN List([i \in DOMAIN shown |-> Obj(shown[i])])

SelectorFields(e) ==
  [name |-> e.at["name"], matchers |-> DecodeMatchers(e), offset |-> e.at["offset"], at |-> e.at["at"]]

PlainSelector == [name |-> EmptyName, matchers |-> List(<<>>), offset |-> Nil, at |-> Nil]

DecodeVectorSelector(e) == Node("vectorSelector", Obj(Written(SelectorFields(e), PlainSelector)))

DecodeMatrixSelector(e) ==
  Node("matrixSelector",
       Obj(Written([x \in {"name", "matchers", "offset", "at", "range"} |->
                      IF x = "range" THEN e.at[x] ELSE SelectorFields(e)[x]], PlainSelector)))

DecodeCall(e, k) == Node("call", Obj([func |-> e.at["func"], args |-> List(k)]))

DecodeAggregation(e, k) ==
  LET without == e.at["without"].b IN
  Node("aggregation",
       Obj(Written([op |-> e.at["op"], expr |-> k[1],
                    param |-> IF Len(k) = 2 THEN k[2] ELSE Nil,
                    without |-> IF without THEN e.at["grouping"] ELSE Nil,
                    by |-> IF without THEN List(<<>>) ELSE e.at["grouping"]],
                   [param |-> Nil, without |-> Nil, by |-> List(<<>>)])))

(* The fields of a binary expression that say how its sides are matched.   *)
DecodeBinary(e, k) ==
  LET vm == e.at["matching"].f IN
  Node("binaryExpr",
       Obj(Written([op |-> e.at["op"], lhs |-> k[1], rhs |-> k[2], bool |-> e.at["bool"],
                    on |-> IF vm["on"].b THEN vm["labels"] ELSE Nil,
                    ignoring |-> IF vm["on"].b THEN List(<<>>) ELSE vm["labels"],
                    group_left |-> IF vm["card"] = Name("left") THEN vm["include"] ELSE Nil,
                    group_right |-> IF vm["card"] = Name("right") THEN vm["include"] ELSE Nil],
                   [bool |-> Bool(FALSE), on |-> Nil, ignoring |-> List(<<>>),
                    group_left |-> Nil, group_right |-> Nil])))

DecodeSubquery(e, k) ==
  Node("subquery",
       Obj(Written([expr |-> k[1], range |-> e.at["range"], step |-> e.at["step"],
                    offset |-> e.at["offset"], at |-> e.at["at"]],
                   [step |-> Nil, offset |-> Nil, at |-> Nil])))

(* nodeToTree: the tree of a node, from the trees k of its operands.       *)
PromTreeNode(e, k) ==
  CASE e.t \in {"String", "Number"} -> e.at["value"]
    [] e.t = "VectorSelector" -> DecodeVectorSelector(e)
    [] e.t = "MatrixSelector" -> DecodeMatrixSelector(e)
    [] e.t = "Call" -> DecodeCall(e, k)
    [] e.t = "Aggregate" -> DecodeAggregation(e, k)
    [] e.t = "Binary" -> DecodeBinary(e, k)
    [] e.t = "Subquery" -> DecodeSubquery(e, k)
    [] e.t = "Paren" -> Node("paren", k[1])
    [] e.t = "Unary" -> Node(e.at["op"].s[1], k[1])
    [] OTHER -> Nil

PromTreeMore(A, tree) == [e \in A |-> PromTreeNode(e, [i \in DOMAIN e.a |-> tree[e.a[i]]])]
PromTrees == INSTANCE Stages WITH Start <- NothingDecoded, Step <- PromTreeMore
PromTree(e) == PromTrees!Stage(Parts(e))[Height(e)][e]

-----------------------------------------------------------------------------
(* The nodes that the Prometheus parser makes.                             *)

IsAt(v) == v = Nil \/ IsToken(v, {"start", "end"}) \/ (v.k = "num" /\ v = Num("fin", v.x[2]))
IsSpan(v) == v.k = "span"
IsOptionalSpan(v) == v = Nil \/ IsSpan(v)

IsMatcher(m) ==
  /\ m = Matcher(m.name, m.type, m.value)
  /\ m.name.k = "str" /\ m.name # EmptyName /\ IsToken(m.type, MatcherTypes) /\ m.value.k = "str"

IsSelector(at) ==
  /\ at["name"].k = "str" /\ IsOptionalSpan(at["offset"]) /\ IsAt(at["at"])
  /\ at["matchers"] = Matchers(at["matchers"].m) /\ IsFiniteSet(at["matchers"].m)
  /\ NameMatchers(at["name"]) \subseteq at["matchers"].m
  /\ \A m \in at["matchers"].m : IsMatcher(m)

IsMatching(v) ==
  /\ v = Obj([on |-> v.f["on"], labels |-> v.f["labels"], card |-> v.f["card"], include |-> v.f["include"]])
  /\ IsBool(v.f["on"]) /\ NamesOnly(v.f["labels"]) /\ NamesOnly(v.f["include"])
  /\ v.f["card"] \in {Name("one"), Name("left"), Name("right")}
  /\ v.f["card"] = Name("one") => v.f["include"] = List(<<>>)

PromNode(e) ==
  CASE e.t = "String" -> IsLiteral(e) /\ e.at["value"].k \in {"str", "span", "source"}
    [] e.t = "Number" -> IsLiteral(e) /\ e.at["value"].k = "num"
    [] e.t = "VectorSelector" ->
         HasAttributes(e, {"name", "matchers", "offset", "at"}) /\ IsSelector(e.at) /\ e.a = <<>>
    [] e.t = "MatrixSelector" ->
         /\ HasAttributes(e, {"name", "matchers", "offset", "at", "range"}) /\ IsSelector(e.at)
         /\ IsSpan(e.at["range"]) /\ e.a = <<>>
    [] e.t = "Call" -> HasAttributes(e, {"func"}) /\ IsToken(e.at["func"], PromFunctions)
    [] e.t = "Aggregate" ->
         /\ HasAttributes(e, {"op", "without", "grouping"}) /\ IsToken(e.at["op"], AggOps)
         /\ IsBool(e.at["without"]) /\ NamesOnly(e.at["grouping"]) /\ Len(e.a) \in {1, 2}
    [] e.t = "Binary" ->
         /\ HasAttributes(e, {"op", "bool", "matching"}) /\ IsToken(e.at["op"], BinaryOps)
         /\ IsBool(e.at["bool"]) /\ IsMatching(e.at["matching"]) /\ Len(e.a) = 2
    [] e.t = "Subquery" ->
         /\ HasAttributes(e, {"range", "step", "offset", "at"}) /\ IsSpan(e.at["range"])
         /\ IsOptionalSpan(e.at["step"]) /\ IsOptionalSpan(e.at["offset"]) /\ IsAt(e.at["at"])
         /\ Len(e.a) = 1
    [] e.t = "Paren" -> e.at = NoFields /\ Len(e.a) = 1
    [] e.t = "Unary" ->
         HasAttributes(e, {"op"}) /\ e.at["op"] \in {Name("neg"), Name("pos")} /\ Len(e.a) = 1
    [] OTHER -> FALSE

-----------------------------------------------------------------------------
(* nodeToAttr: big.NewFloat panics on a NaN; an infinity is a big.Float.   *)
PromToAttr(v) == IF HasNumber(v, {"nan"}) THEN "panic" ELSE "done"

(* hasUnknown, then terraformToNode.                                       *)
PromToNode(v) == ToNode(v)
=============================================================================
