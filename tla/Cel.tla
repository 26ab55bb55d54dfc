--------------------------------- MODULE Cel ---------------------------------
(***************************************************************************)
(* cel/encode.go, operators.go, literals.go, canonical.go and decode.go:   *)
(* the data tree of a CEL expression, in its three notations, and cel-go's *)
(* AST, both ways.  The parser and its printer are the library's, taken as *)
(* each other's inverse, but for how a chain of && or || is nested, and    *)
(* has(), which is a select that only tests: a node that is built is the   *)
(* one the parser reads back.  Any other macro is the call it is written   *)
(* as.                                                                     *)
(***************************************************************************)
EXTENDS Tree

CONSTANTS Int64Limit   \* a CEL int is in -Int64Limit .. Int64Limit - 1 (2^63)

ASSUME Int64Range == Int64Limit \in Nat \ {0}

Variadic == {"&&", "||"}
Unary == {"!", "neg"}
Binary == {"==", "!=", "<", "<=", ">", ">=", "in", "+", "*", "/", "%", "sub", "[]"}
OperatorFunctions == Variadic \cup Unary \cup Binary \cup {"?:"}   \* cel-go's operator functions

(* fnToAlias, and with it the word aliases of opTable.                     *)
Alias ==
  [func \in OperatorFunctions |->
     CASE func = "==" -> "eq" [] func = "!=" -> "ne" [] func = "<" -> "lt" [] func = "<=" -> "le"
       [] func = ">" -> "gt" [] func = ">=" -> "ge" [] func = "&&" -> "and" [] func = "||" -> "or"
       [] func = "!" -> "not" [] func = "?:" -> "cond" [] func = "+" -> "add" [] func = "*" -> "mul"
       [] func = "/" -> "div" [] func = "%" -> "mod" [] func = "[]" -> "index" [] OTHER -> func]

(* opTable: an operator's function, or its alias.                          *)
Aliased(func, key) == func = key \/ Alias[func] = key
IsOperator(key) == key = "-" \/ \E func \in OperatorFunctions : Aliased(func, key)
Named(key) == CHOOSE func \in OperatorFunctions : Aliased(func, key)

Token(func) == IF func \in {"neg", "sub"} THEN "-" ELSE func

CallOf(func, a) == Ast("Call", [x \in {"fn"} |-> func], a)
ConstantKinds == {"null_value", "bool_value", "int64_value", "uint64_value", "double_value",
                  "string_value", "bytes_value"}

InInt64(v) == IsInt(v) /\ v.x[2] \div 1000 \in -Int64Limit .. Int64Limit - 1
InUint64(v) == IsInt(v) /\ v.x[2] \div 1000 \in 0 .. 2 * Int64Limit - 1

(* numberLiteral: an int when it is whole, and then within an int64.       *)
CelNumber(v) ==
  IF IsInt(v) THEN IF InInt64(v) THEN Lit("int64_value", v) ELSE Bad
  ELSE Lit("double_value", v)

(* encode, of what holds nothing.                                          *)
CelScalar(v) ==
  CASE v.k = "nil" -> Lit("null_value", v)
    [] v.k = "bool" -> Lit("bool_value", v)
    [] v.k \in {"str", "source"} -> Lit("string_value", v)
    [] v.k = "num" -> CelNumber(v)
    [] OTHER -> Bad

(* typedConst                                                              *)
HasKind(kind, v) ==
  CASE kind = "bool_value" -> v.k = "bool"
    [] kind \in {"string_value", "bytes_value"} -> v.k = "str"
    [] kind = "int64_value" -> v.k = "num" /\ InInt64(v)
    [] kind = "uint64_value" -> v.k = "num" /\ InUint64(v)
    [] kind = "double_value" -> v.k = "num"
    [] OTHER -> FALSE

TypedConst(kind, v) ==
  CASE kind = "null_value" -> Lit(kind, Nil)
    [] HasKind(kind, v) -> Lit(kind, v)
    [] OTHER -> Bad

IsTyped(v) == Sole(v) /\ SoleKey(v) \in ConstantKinds

(* isReferencePath: a name, a field or an index of a reference.            *)
RefersNode(e, refers) ==
  CASE e.t = "Ident" -> TRUE
    [] e.t = "Select" -> e.at["test_only"] = Bool(FALSE) /\ refers[e.a[1]]
    [] e.t = "Call" -> e.at["fn"] \in {Name("[]"), Name("[?]"), Name("?.")}
                         /\ Len(e.a) = 2 /\ refers[e.a[1]]
    [] OTHER -> FALSE

NoneRefers(A) == [e \in A |-> FALSE]
RefersMore(A, refers) == [e \in A |-> RefersNode(e, refers)]
References == INSTANCE Stages WITH Start <- NoneRefers, Step <- RefersMore
IsReference(e) == References!Stage(Parts(e))[Height(e)][e]

-----------------------------------------------------------------------------
(* What the parser makes of the text of a call.                            *)

IsCall(e, func) == e.t = "Call" /\ e.at["fn"] = Name(func)
IsChain(e, func) == e.t = "Call" /\ e.at["fn"] = func

Tested(e) == Ast("Select", [field |-> e.at["field"], test_only |-> Bool(TRUE)], e.a)

(* A chain is nested from the left: that of the second operand goes on     *)
(* from the first one.                                                     *)
NothingJoined(x) == NothingDecoded(Parts(x.a[2]))
JoinMore(x, joined) ==
  [e \in Parts(x.a[2]) |->
     IF IsChain(e, x.at["fn"]) THEN CallOf(x.at["fn"], <<joined[e.a[1]], e.a[2]>>)
     ELSE CallOf(x.at["fn"], <<x.a[1], e>>)]
Chains == INSTANCE Stages WITH Start <- NothingJoined, Step <- JoinMore
Joined(func, l, r) == Chains!Stage(CallOf(func, <<l, r>>))[Height(r)][r]

ParsedCall(func, a) ==
  CASE \E i \in DOMAIN a : a[i] = Bad -> Bad
    [] func = Name("has") /\ Len(a) = 1 /\ a[1].t = "Select" -> Tested(a[1])
    [] IsToken(func, Variadic) /\ Len(a) = 2 -> Joined(func, a[1], a[2])
    [] OTHER -> CallOf(func, a)

-----------------------------------------------------------------------------
(* encodeList: an element may be marked as optional, or is one of marked.  *)
IsOptional(v) == Sole(v) /\ SoleKey(v) = "optional"

EncodeList(e, marked, b) ==
  Of("List",
     [x \in {"optional"} |-> List([i \in DOMAIN e |-> Bool(i \in marked \/ IsOptional(e[i]))])],
     [i \in DOMAIN e |-> b[IF i \notin marked /\ IsOptional(e[i]) THEN e[i].f["optional"] ELSE e[i]]])

(* encodeListExpr: the optional ones are named by their index.             *)
Indices(v) == {v.e[i].x[2] \div 1000 : i \in DOMAIN v.e}

EncodeListExpr(v, b) ==
  IF v.k # "obj" \/ ~Has(v.f, "elements") \/ v.f["elements"].k # "list" THEN Bad
  ELSE LET e == v.f["elements"].e IN
       IF ~Has(v.f, "optional_indices") THEN EncodeList(e, {}, b)
       ELSE LET indices == v.f["optional_indices"] IN
            IF \/ indices.k # "list"
               \/ \E i \in DOMAIN indices.e : indices.e[i].k # "num" \/ ~InInt64(indices.e[i])
            THEN Bad
            ELSE EncodeList(e, {i \in DOMAIN e : i - 1 \in Indices(indices)}, b)

(* encodeCall: a function of the arguments, or a method of the target.     *)
EncodeCall(v, b) ==
  IF \/ ~Only(v, {"function", "target", "args"})
     \/ ~Has(v.f, "function") \/ v.f["function"].k # "str"
     \/ Has(v.f, "args") /\ v.f["args"].k # "list"
  THEN Bad
  ELSE LET args == BuildList(IF Has(v.f, "args") THEN v.f["args"].e ELSE <<>>, b)
       IN IF Has(v.f, "target")
          THEN Of("Member", [x \in {"fn"} |-> v.f["function"]], <<b[v.f["target"]]>> \o args)
          ELSE ParsedCall(v.f["function"], args)

(* operandsList                                                            *)
OperandsList(v) == IF v.k = "list" THEN v.e ELSE <<v>>

(* A chain of && or || over any number of operands.                        *)
ChainStart(x) == [n |-> 1, e |-> x.a[1]]
ChainStep(x, s) == [n |-> s.n + 1, e |-> ParsedCall(x.at["fn"], <<s.e, x.a[s.n + 1]>>)]
Links == INSTANCE Stages WITH Start <- ChainStart, Step <- ChainStep
ChainOf(func, ops) == Links!Stage(CallOf(func, ops))[Len(ops) - 1].e

(* buildOperator: "-" is two operators, and a chain of && or || is nested  *)
(* from the left.                                                          *)
Arity(func) == IF func \in Unary THEN 1 ELSE IF func \in Binary THEN 2 ELSE 3

CelOperator(key, v, b) ==
  LET ops == BuildList(OperandsList(v), b)
      func == IF key # "-" THEN Named(key) ELSE IF Len(ops) = 1 THEN "neg" ELSE "sub"
  IN CASE func \in Variadic -> IF ops = <<>> THEN Bad ELSE ChainOf(Name(func), ops)
       [] Len(ops) = Arity(func) /\ func \notin Variadic -> ParsedCall(Name(func), ops)
       [] OTHER -> Bad

EncodeSelectExpr(v, b) ==
  IF v.k = "obj" /\ {"operand", "field"} \subseteq DOMAIN v.f /\ v.f["field"].k = "str"
  THEN Of("Select", [field |-> v.f["field"],
                     test_only |-> Bool(Has(v.f, "test_only") /\ v.f["test_only"] = Bool(TRUE))],
          <<b[v.f["operand"]]>>)
  ELSE Bad

Ident(name) == Ast("Ident", [x \in {"name"} |-> name], <<>>)

EncodeIdent(v) ==
  CASE v.k = "source" /\ IsReference(v.ast) -> v.ast
    [] v.k = "str" -> Ident(v)
    [] OTHER -> Bad

EncodeIdentExpr(v) ==
  IF v.k = "obj" /\ Has(v.f, "name") /\ v.f["name"].k = "str" THEN Ident(v.f["name"]) ELSE Bad

(* encodeStructExpr: fields make a message, keys a map, and never both.    *)
CelEntry(v, b) ==
  LET optional == Bool(Has(v.f, "optional_entry") /\ v.f["optional_entry"] = Bool(TRUE))
      held == IF Has(v.f, "value") THEN b[v.f["value"]] ELSE Lit("null_value", Nil)
  IN CASE v.k = "obj" /\ Has(v.f, "field_key") /\ v.f["field_key"].k = "str" ->
            Of("Field", [name |-> v.f["field_key"], optional |-> optional], <<held>>)
       [] v.k = "obj" /\ Has(v.f, "map_key") /\ ~(Has(v.f, "field_key") /\ v.f["field_key"].k = "str") ->
            Of("Pair", [x \in {"optional"} |-> optional], <<b[v.f["map_key"]], held>>)
       [] OTHER -> Bad

EncodeStructExpr(v, b) ==
  IF v.k # "obj" \/ ~Has(v.f, "entries") \/ v.f["entries"].k # "list" THEN Bad
  ELSE LET e == v.f["entries"].e
           entries == [i \in DOMAIN e |-> CelEntry(e[i], b)]
           kinds == {entries[i].t : i \in DOMAIN e}
           name == NameOf(v.f, "message_name")
       IN CASE kinds = {"Pair"} \/ (kinds = {} /\ name = EmptyName) -> Of("Map", NoFields, entries)
            [] kinds \subseteq {"Field"} /\ name # EmptyName ->
                 Of("Struct", [x \in {"name"} |-> name], entries)
            [] OTHER -> Bad

(* encodeStruct: the fields of an object, sorted.                          *)
EncodeStruct(v, b) ==
  IF /\ Only(v, {"message_name", "fields"}) /\ NameOf(v.f, "message_name") # EmptyName
     /\ Has(v.f, "fields") /\ v.f["fields"].k = "obj"
  THEN LET names == InOrder(DOMAIN v.f["fields"].f)
       IN Of("Struct", [x \in {"name"} |-> v.f["message_name"]],
             [i \in DOMAIN names |-> Of("Field", [name |-> Name(names[i]), optional |-> Bool(FALSE)],
                                        <<b[v.f["fields"].f[names[i]]]>>)])
  ELSE Bad

(* literalize: objects are maps, unless their one key is a constant kind.  *)
LiteralNode(v, b) ==
  CASE IsTyped(v) -> TypedConst(SoleKey(v), v.f[SoleKey(v)])
    [] v.k = "obj" /\ ~IsTyped(v) ->
         LET names == InOrder(DOMAIN v.f)
         IN Of("Map", NoFields,
               [i \in DOMAIN names |-> Of("Pair", [x \in {"optional"} |-> Bool(FALSE)],
                                          <<Lit("string_value", Name(names[i])), b[v.f[names[i]]]>>)])
    [] v.k = "list" -> Of("List", [x \in {"optional"} |-> List([i \in DOMAIN v.e |-> Bool(FALSE)])],
                          BuildList(v.e, b))
    [] OTHER -> CelScalar(v)

LiteralMore(U, b) == [v \in U |-> LiteralNode(v, b)]
Literals == INSTANCE Stages WITH Start <- NothingBuilt, Step <- LiteralMore
Literalize(v) == Literals!Stage(Parts(v))[Height(v)][v]

(* encodeObject: the construct that the one key names, of w.               *)
CelBuildKeyed(key, w, b) ==
  CASE key = "ident" -> EncodeIdent(w)
    [] key \in {"call", "call_expr"} -> EncodeCall(w, b)
    [] key = "const" -> Literalize(w)
    [] key = "const_expr" -> IF IsTyped(w) THEN TypedConst(SoleKey(w), w.f[SoleKey(w)]) ELSE Bad
    [] key = "struct" -> EncodeStruct(w, b)
    [] key \in {"select", "select_expr"} -> EncodeSelectExpr(w, b)
    [] key \in {"list", "list_expr"} -> EncodeListExpr(w, b)
    [] key = "ident_expr" -> EncodeIdentExpr(w)
    [] key = "struct_expr" -> EncodeStructExpr(w, b)
    [] key = "raw" -> IF w.k = "source" THEN w.ast ELSE Bad
    [] IsOperator(key) -> CelOperator(key, w, b)
    [] OTHER -> Bad

(* encode: the node of a tree, from the nodes b of its parts.              *)
CelBuildNode(v, b) ==
  CASE v.k = "list" -> EncodeList(v.e, {}, b)
    [] Sole(v) -> CelBuildKeyed(SoleKey(v), v.f[SoleKey(v)], b)
    [] OTHER -> CelScalar(v)

CelBuildMore(U, b) == [v \in U |-> CelBuildNode(v, b)]
CelBuilds == INSTANCE Stages WITH Start <- NothingBuilt, Step <- CelBuildMore
CelBuild(v) == CelBuilds!Stage(Parts(v))[Height(v)][v]

-----------------------------------------------------------------------------
(* Decode, in the notation "canonical", "standard" or "aliased".           *)

(* constNode: the canonical form, or the surface one, which is bare where  *)
(* encode would read the same kind again.                                  *)
ConstNode(nt, e) ==
  LET kind == e.t  v == e.at["value"] IN
  CASE kind = "bytes_value" -> Node("raw", Source(e))
    [] nt = "canonical" /\ kind # "bytes_value" -> Node("const_expr", Node(kind, v))
    [] nt # "canonical" /\ kind \in {"uint64_value", "double_value"} -> Node("const", Node(kind, v))
    [] OTHER -> v

OpKey(nt, func) == IF nt = "aliased" THEN Alias[func] ELSE Token(func)

(* flatten: a chain of the same operator is one list; k are the trees of   *)
(* the operands.                                                           *)
LinkTrees(nt, func, x, tree) ==
  IF IsCall(x, func) THEN tree.f[OpKey(nt, func)].e ELSE <<tree>>
ChainTrees(nt, func, e, k) == LinkTrees(nt, func, e.a[1], k[1]) \o LinkTrees(nt, func, e.a[2], k[2])

(* A mutant: the operand of a unary operator is left a bare list.          *)
OperatorBare(nt, func, e, k) ==
  Node(OpKey(nt, func),
       CASE func \in Unary -> k[1]
         [] func \in Variadic -> List(ChainTrees(nt, func, e, k))
         [] OTHER -> List(k))

(* decodeOperator: a bare list under a unary operator would be read as its *)
(* operands.                                                               *)
DecodeOperator(nt, func, e, k) ==
  Node(OpKey(nt, func),
       CASE func \in Unary -> IF k[1].k = "list" THEN Node("list_expr", Node("elements", k[1])) ELSE k[1]
         [] func \in Variadic -> List(ChainTrees(nt, func, e, k))
         [] OTHER -> List(k))

(* decodeCall: a reference is an ident, an operator its own node, and in   *)
(* the canonical notation has() the select that it stands for.             *)
CallKey(nt) == IF nt = "canonical" THEN "call_expr" ELSE "call"

CelCall(nt, e, k) ==
  LET func == e.at["fn"] IN
  CASE nt # "canonical" /\ IsReference(e) -> Node("ident", Source(e))
    [] IsToken(func, OperatorFunctions) /\ ~(nt # "canonical" /\ IsReference(e)) ->
         IF nt = "canonical" THEN Node("call_expr", Obj([function |-> func, args |-> List(k)]))
         ELSE DecodeOperator(nt, func.s[1], e, k)
    [] OTHER -> Node(CallKey(nt), Obj(Written([function |-> func, args |-> List(k)],
                                              [x \in {"args"} |-> List(<<>>)])))

CelMember(nt, e, k) ==
  Node(CallKey(nt),
       Obj(Written([function |-> e.at["fn"], target |-> k[1], args |-> List(Tail(k))],
                   [x \in {"args"} |-> List(<<>>)])))

(* The has() macro is a call outside the canonical notation.               *)
SelectTree(nt, e, k) ==
  IF nt # "canonical" /\ IsReference(e) THEN Node("ident", Source(e))
  ELSE Node("select_expr", Obj(Written([operand |-> k[1], field |-> e.at["field"], test_only |-> e.at["test_only"]],
                                       [x \in {"test_only"} |-> Bool(FALSE)])))

CelSelect(nt, e, k) ==
  IF e.at["test_only"] = Bool(TRUE) /\ nt # "canonical"
  THEN LET whole == Ast("Select", [field |-> e.at["field"], test_only |-> Bool(FALSE)], e.a)
       IN Node("call", Obj([function |-> Name("has"), args |-> List(<<SelectTree(nt, whole, k)>>)]))
  ELSE SelectTree(nt, e, k)

(* decodeList                                                              *)
DecodeList(nt, e, k) ==
  LET marked == {i \in DOMAIN k : e.at["optional"].e[i] = Bool(TRUE)}
      indices == InOrder(marked)
  IN IF nt # "canonical"
     THEN List([i \in DOMAIN k |-> IF i \in marked THEN Node("optional", k[i]) ELSE k[i]])
     ELSE Node("list_expr",
               Obj(Written([elements |-> List(k),
                            optional_indices |-> List([j \in DOMAIN indices |-> Count(indices[j] - 1)])],
                           [x \in {"optional_indices"} |-> List(<<>>)])))

(* decodeMap and decodeStruct, and of these the entries.                   *)
Marked(f) == Obj(Written(f, [x \in {"optional_entry"} |-> Bool(FALSE)]))

(* nodeToTree: the tree of a node, from the trees k of its operands.       *)
CelTreeNode(nt, e, k) ==
  CASE e.t \in ConstantKinds -> ConstNode(nt, e)
    [] e.t = "Ident" -> IF nt = "canonical" THEN Node("ident_expr", Node("name", e.at["name"]))
                        ELSE Node("ident", e.at["name"])
    [] e.t = "Select" -> CelSelect(nt, e, k)
    [] e.t = "Call" -> CelCall(nt, e, k)
    [] e.t = "Member" -> CelMember(nt, e, k)
    [] e.t = "List" -> DecodeList(nt, e, k)
    [] e.t = "Map" -> Node("struct_expr", Node("entries", List(k)))
    [] e.t = "Struct" -> Node("struct_expr", Obj([entries |-> List(k), message_name |-> e.at["name"]]))
    [] e.t = "Pair" -> Marked([map_key |-> k[1], value |-> k[2], optional_entry |-> e.at["optional"]])
    [] e.t = "Field" -> Marked([field_key |-> e.at["name"], value |-> k[1], optional_entry |-> e.at["optional"]])
    [] OTHER -> Nil

CelTreeMore(x, tree) == [e \in Parts(x.e) |-> CelTreeNode(x.nt, e, [i \in DOMAIN e.a |-> tree[e.a[i]]])]
NothingRead(x) == NothingDecoded(Parts(x.e))
CelTrees == INSTANCE Stages WITH Start <- NothingRead, Step <- CelTreeMore
CelTree(nt, e) == CelTrees!Stage([nt |-> nt, e |-> e])[Height(e)][e]

-----------------------------------------------------------------------------
(* The nodes that cel-go's parser makes.                                   *)

CelValues(a) == \A i \in DOMAIN a : a[i].t \notin {"Pair", "Field"}
IsStr(v) == v.k = "str" /\ v = Str(v.s) /\ IsSequence(v.s)

IsConstant(e) ==
  /\ IsLiteral(e)
  /\ IF e.t = "null_value" THEN e.at["value"] = Nil ELSE HasKind(e.t, e.at["value"])
  /\ e.t = "bool_value" => IsBool(e.at["value"])

(* A chain is nested from the left, has() is no call, and the negative of  *)
(* a number is a number.                                                   *)
IsParsedCall(e) ==
  /\ HasAttributes(e, {"fn"}) /\ IsStr(e.at["fn"]) /\ CelValues(e.a)
  /\ IsToken(e.at["fn"], Variadic) => Len(e.a) = 2 /\ ~IsChain(e.a[2], e.at["fn"])
  /\ IsToken(e.at["fn"], OperatorFunctions \ Variadic) => Len(e.a) = Arity(e.at["fn"].s[1])
  /\ IsCall(e, "has") => ~(Len(e.a) = 1 /\ e.a[1].t = "Select")
  /\ IsCall(e, "neg") => e.a[1].t \notin ConstantKinds

CelNode(e) ==
  CASE e.t \in ConstantKinds -> IsConstant(e)
    [] e.t = "Ident" -> HasAttributes(e, {"name"}) /\ IsStr(e.at["name"]) /\ e.a = <<>>
    [] e.t = "Select" ->
         /\ HasAttributes(e, {"field", "test_only"}) /\ IsStr(e.at["field"]) /\ IsBool(e.at["test_only"])
         /\ Len(e.a) = 1 /\ CelValues(e.a)
    [] e.t = "Call" -> IsParsedCall(e)
    [] e.t = "Member" -> HasAttributes(e, {"fn"}) /\ IsStr(e.at["fn"]) /\ Len(e.a) >= 1 /\ CelValues(e.a)
    [] e.t = "List" ->
         /\ HasAttributes(e, {"optional"}) /\ e.at["optional"] = List(e.at["optional"].e)
         /\ IsSequence(e.at["optional"].e) /\ Len(e.at["optional"].e) = Len(e.a)
         /\ Len(e.a) <= Int64Limit
         /\ (\A i \in DOMAIN e.a : IsBool(e.at["optional"].e[i])) /\ CelValues(e.a)
    [] e.t = "Map" -> e.at = NoFields /\ \A i \in DOMAIN e.a : e.a[i].t = "Pair"
    [] e.t = "Struct" ->
         /\ HasAttributes(e, {"name"}) /\ IsStr(e.at["name"]) /\ e.at["name"] # EmptyName
         /\ \A i \in DOMAIN e.a : e.a[i].t = "Field"
    [] e.t = "Pair" -> HasAttributes(e, {"optional"}) /\ IsBool(e.at["optional"]) /\ Len(e.a) = 2 /\ CelValues(e.a)
    [] e.t = "Field" ->
         /\ HasAttributes(e, {"name", "optional"}) /\ IsStr(e.at["name"]) /\ IsBool(e.at["optional"])
         /\ Len(e.a) = 1 /\ CelValues(e.a)
    [] OTHER -> FALSE

-----------------------------------------------------------------------------
(* nodeToAttr: a number that is not finite is an error.                    *)
CelToAttr(v) == IF HasNumber(v, {"nan", "inf"}) THEN "refused" ELSE "done"

(* hasUnknown, then terraformToNode.                                       *)
CelToNode(v) == ToNode(v)
=============================================================================
