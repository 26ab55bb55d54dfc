------------------------------ MODULE Languages ------------------------------
(***************************************************************************)
(* A configuration that edits an expression: it decodes a text into data,  *)
(* puts the data into more data, and encodes the whole (Run of             *)
(* promqldecode.go, oelencode.go, celdecode.go and their counterparts).    *)
(* The text of an expression is the AST the library makes of it; "meant"   *)
(* is what the user wrote, put together without any conversion.            *)
(***************************************************************************)
EXTENDS PromQL, Oel, Cel

CONSTANTS
  Texts,       \* per language, the expressions a chain starts with
  MaxSplices   \* bound: how often the data is put into more data

(* A text is one that the language's parser makes, and ends.               *)
IsLanguageNode(l, e) ==
  CASE l = "promql" -> PromNode(e)
    [] l = "oel" -> OelNode(e)
    [] l = "cel" -> CelNode(e)

IsParsed(l, e) ==
  /\ Height(e) \in Nat /\ Layer(e, Height(e)) = {}
  /\ \A x \in Parts(e) : IsNode(x) /\ IsLanguageNode(l, x)
  /\ l = "oel" => OelValues(<<e>>)
  /\ l = "cel" => CelValues(<<e>>)

ASSUME TextsParsed ==
  /\ DOMAIN Texts \subseteq {"promql", "oel", "cel"}
  /\ \A l \in DOMAIN Texts : \A e \in Texts[l] : IsParsed(l, e)

(* The function that PromContexts puts a range in.                         *)
ASSUME RateIsAFunction == "rate" \in PromFunctions

VARIABLES
  lang,       \* "promql", "oel" or "cel"
  notation,   \* the notation celdecode is asked for
  source,     \* the AST of the text
  meant,      \* the AST of what the user means
  data,       \* the decoded tree
  phase,      \* what there is: "text", "data", "unknown", "refused" or "panic"
  splices     \* bound: the contexts added

languagesVars == <<lang, notation, source, meant, data, phase, splices>>

-----------------------------------------------------------------------------
(* The contexts a user puts an expression in: the tree around the tree,    *)
(* and the AST around the AST.  A PromQL operand is put in parentheses, as *)
(* the library's printer leaves the grouping to them.                      *)

PromTypeNode(e, type) ==
  CASE e.t = "String" -> "string"
    [] e.t = "Number" -> "scalar"
    [] e.t \in {"MatrixSelector", "Subquery"} -> "range"
    [] e.t \in {"Paren", "Unary"} -> type[e.a[1]]
    [] e.t = "Binary" /\ type[e.a[1]] = "scalar" /\ type[e.a[2]] = "scalar" -> "scalar"
    [] OTHER -> "vector"

PromTypeMore(A, type) == [e \in A |-> PromTypeNode(e, type)]
PromTypes == INSTANCE Stages WITH Start <- NothingDecoded, Step <- PromTypeMore
PromType(e) == PromTypes!Stage(Parts(e))[Height(e)][e]

PromContexts(v, e) ==
  LET type == PromType(e)
      rate == <<Node("call", Obj([func |-> Name("rate"), args |-> List(<<v>>)])),
                Ast("Call", [x \in {"func"} |-> Name("rate")], <<e>>)>>
      paren == <<Node("paren", v), Ast("Paren", NoFields, <<e>>)>>
      neg == <<Node("neg", paren[1]), Ast("Unary", [x \in {"op"} |-> Name("neg")], <<paren[2]>>)>>
      plus == <<Node("binaryExpr", Obj([op |-> Name("+"), lhs |-> Count(1), rhs |-> paren[1]])),
                Ast("Binary", [op |-> Name("+"), bool |-> Bool(FALSE), matching |-> OneToOne],
                    <<Lit("Number", Count(1)), paren[2]>>)>>
      sum == <<Node("aggregation", Obj([op |-> Name("sum"), expr |-> v])),
               Ast("Aggregate", [op |-> Name("sum"), without |-> Bool(FALSE), grouping |-> List(<<>>)], <<e>>)>>
  IN CASE type = "range" -> {rate}
       [] type = "scalar" -> {paren, neg, plus}
       [] type = "vector" -> {paren, neg, plus, sum}
       [] OTHER -> {}

OelContexts(v, e) ==
  LET b == Node("ident", Name("b"))
      path == Ast("Path", [user |-> Bool(FALSE), root |-> Name("b"), hops |-> List(<<>>)], <<>>)
      call(spec) == Node("call", Obj(spec))
  IN { <<Node("not", v), Ast("Not", NoFields, <<e>>)>>,
       <<Node("cond", List(<<b, v, Nil>>)), Ast("Ternary", NoFields, <<path, e, Lit("Null", Nil)>>)>>,
       <<Node("eq", List(<<v, b>>)), Ast("Comparison", [x \in {"op"} |-> Name("==")], <<e, path>>)>>,
       <<call([function |-> Name("f"), args |-> List(<<v>>)]), Ast("FuncCall", [x \in {"name"} |-> Name("f")], <<e>>)>>,
       <<call([class |-> Name("String"), method |-> Name("len"), args |-> List(<<v, b>>)]),
         Ast("ClassCall", [class |-> Name("String"), method |-> Name("len")],
             <<Ast("CommaList", NoFields, <<e, path>>)>>)>>,
       <<Node("map", List(<<Obj([key |-> Name("k"), value |-> v])>>)),
         Ast("MapLit", NoFields, <<Ast("Entry", NoFields, <<Lit("String", Name("k")), e>>)>>)>> }

(* A list under a unary operator would be read as its operands.            *)
CelContexts(v, e) ==
  LET b == Node("ident", Name("b"))
      ident == Ident(Name("b"))
      field(test) == Ast("Select", [field |-> Name("f"), test_only |-> Bool(test)], <<e>>)
      select == Node("select", Obj([operand |-> v, field |-> Name("f")]))
      fn(name) == [x \in {"fn"} |-> Name(name)]
  IN { <<Node("and", List(<<b, v>>)), ParsedCall(Name("&&"), <<ident, e>>)>>,
       <<Node("!", List(<<v>>)), Ast("Call", fn("!"), <<e>>)>>,
       <<Node("-", List(<<v, b>>)), Ast("Call", fn("sub"), <<e, ident>>)>>,
       <<List(<<Node("optional", v)>>), Ast("List", [x \in {"optional"} |-> List(<<Bool(TRUE)>>)], <<e>>)>>,
       <<Node("call", Obj([function |-> Name("m"), target |-> v])), Ast("Member", fn("m"), <<e>>)>>,
       <<Node("call", Obj([function |-> Name("has"), args |-> List(<<select>>)])), field(TRUE)>>,
       <<select, field(FALSE)>> }

Contexts(l, v, e) ==
  CASE l = "promql" -> PromContexts(v, e)
    [] l = "cel" -> CelContexts(v, e)
    [] OTHER -> OelContexts(v, e)

-----------------------------------------------------------------------------
LanguagesInit ==
  /\ lang \in DOMAIN Texts
  /\ notation \in (IF lang = "cel" THEN {"canonical", "standard", "aliased"} ELSE {"standard"})
  /\ source \in Texts[lang]
  /\ meant = source
  /\ data = Nil /\ phase = "text" /\ splices = 0

(* A decode: the tree, when Terraform has a value for it.                  *)
Decode(v, outcome) ==
  /\ IF outcome = "done" THEN phase' = "data" /\ data' = v
     ELSE phase' = outcome /\ UNCHANGED data
  /\ UNCHANGED <<lang, notation, source, meant, splices>>

PromQLDecodeRun ==
  /\ lang = "promql" /\ phase = "text"
  /\ \E v \in {PromTree(source)} : Decode(v, PromToAttr(v))

OELDecodeRun ==
  /\ lang = "oel" /\ phase = "text"
  /\ \E v \in {OelTree(source)} : Decode(v, OelToAttr(v))

CELDecodeRun ==
  /\ lang = "cel" /\ phase = "text"
  /\ \E v \in {CelTree(notation, source)} : Decode(v, CelToAttr(v))

(* The user puts the data into more of it, or beside a value that is not   *)
(* known yet.                                                              *)
Splice ==
  /\ phase = "data" /\ splices < MaxSplices
  /\ \E c \in Contexts(lang, data, meant) : data' = c[1] /\ meant' = c[2]
  /\ splices' = splices + 1
  /\ UNCHANGED <<lang, notation, source, phase>>

SpliceUnknown ==
  /\ phase = "data" /\ splices < MaxSplices
  /\ data' = Node("call", IF lang = "promql"
                          THEN Obj([func |-> Name("f"), args |-> List(<<data, UnknownTree>>)])
                          ELSE Obj([function |-> Name("f"), args |-> List(<<data, UnknownTree>>)]))
  /\ splices' = splices + 1
  /\ UNCHANGED <<lang, notation, source, meant, phase>>

(* An encode: an unknown answer for an unknown part, and an error, with no *)
(* text, for a tree that cannot be read or built.                          *)
Encode(asRead, built) ==
  /\ \E e \in {IF asRead = "done" THEN built ELSE Bad} :
       IF e # Bad THEN phase' = "text" /\ source' = e /\ data' = Nil
       ELSE /\ phase' = IF asRead = "unknown" THEN "unknown" ELSE "refused"
            /\ UNCHANGED <<source, data>>
  /\ UNCHANGED <<lang, notation, meant, splices>>

PromQLEncodeRun == lang = "promql" /\ phase = "data" /\ Encode(PromToNode(data), PromBuild(data))
OELEncodeRun    == lang = "oel"    /\ phase = "data" /\ Encode(OelToNode(data), OelBuild(data))
CELEncodeRun    == lang = "cel"    /\ phase = "data" /\ Encode(CelToNode(data), CelBuild(data))

LanguagesNext ==
  \/ PromQLDecodeRun \/ OELDecodeRun \/ CELDecodeRun
  \/ Splice \/ SpliceUnknown
  \/ PromQLEncodeRun \/ OELEncodeRun \/ CELEncodeRun

LanguagesSpec == LanguagesInit /\ [][LanguagesNext]_languagesVars

-----------------------------------------------------------------------------
(* Properties.                                                             *)

(* An encoded text is the expression the user means: decoding loses no     *)
(* part of an expression, and no tree put around it changes what it says,  *)
(* in any notation.                                                        *)
EncodedAsMeant == phase = "text" => source = meant

(* The nodes of an expression that decode gives and encode does not take.  *)
OneWay(l, e) ==
  CASE l = "promql" -> \E x \in DOMAIN e.at : x = "at" /\ e.at[x].k = "num"
                         /\ e.at[x].x[2] \notin AtTimes
    [] l = "oel" -> \/ e.t = "Entry" /\ e.a[1] = Lit("String", EmptyName)
                    \/ e.t = "MemberOf" /\ e.a = <<>>
    [] OTHER -> FALSE

SomeOneWay(l, e) == \E x \in Parts(e) : OneWay(l, x)
SomeNumber(e, kinds) ==
  \E x \in Parts(e) : "value" \in DOMAIN x.at /\ HasNumber(x.at["value"], kinds)

(* A text stops on its way for these reasons and for no other, however its *)
(* data was put into more: a number that no Terraform value holds, nesting *)
(* past the limit, an @ beyond the years, an empty key, and a built-in     *)
(* without its argument; and an unknown part leaves the text unknown, not  *)
(* wrong.  Some of these stop what was decoded from a valid text and never *)
(* edited, which the documentation says comes back: the next property.     *)
StoppedForAReason ==
  /\ phase = "unknown" => TreeUnknown(data)
  /\ phase \in {"text", "refused"} => ~TreeUnknown(data)
  /\ phase = "panic" => lang = "promql" /\ SomeNumber(meant, {"nan"})
  /\ phase = "refused" =>
       \/ lang # "promql" /\ SomeNumber(meant, {"nan", "inf"})
       \/ PastLimits(data)
       \/ SomeOneWay(lang, meant)

(* A PromQL query that is decoded and not edited comes back: "for any      *)
(* valid query q, Encode(Decode(q)) equals Format(q)" (promql/decode.go).  *)
QueriesReturn ==
  lang = "promql" /\ splices = 0 =>
    phase \in {"text", "data"} /\ (phase = "text" => source = meant)

-----------------------------------------------------------------------------
(* The inductive invariant behind the two safety properties.               *)

(* A node: what was to be built, or nothing when there is a reason.        *)
Gets(built, e, reason) == built = e \/ (built = Bad /\ reason)

(* An expression of the language of so many layers.                        *)
Legal(l, e, n) ==
  Short(e, n) /\ \A i \in Nat : \A x \in Layer(e, i) : IsNode(x) /\ IsLanguageNode(l, x)

(* What a build of a tree gives, wherever the tree is: the expression, or  *)
(* nothing for a reason.                                                   *)
PromGood(e, v, reason) ==
  \A U : Closed(U) /\ v \in U =>
    \A m \in Nat : Short(v, m) => Gets(PromBuilds!Stage(U)[m][v], e, reason)

(* The data of an expression.                                              *)
PromCarried(e, v) == v # Nil /\ PromGood(e, v, SomeOneWay("promql", e))

OelResult(e, v, b) ==
  CASE e.t = "Entry" -> OelEntry(v, b)
    [] e.t = "CommaList" -> Of("CommaList", NoFields, BuildList(v.e, b))
    [] OTHER -> b[v]

(* Nothing is promised of an entry whose key is no string.                 *)
OelReads(e) == e.t = "Entry" => e.a[1].t = "String"

OelShape(e, v) ==
  /\ e.t = "CommaList" => v = List(v.e) /\ IsSequence(v.e) /\ Len(v.e) >= 2
  /\ e.t = "String" => v = e.at["value"]

(* What a build of a tree gives, wherever the tree is: the expression, or  *)
(* nothing for a reason.                                                   *)
OelGood(e, v, reason) ==
  \A U : Closed(U) /\ v \in U =>
    \A m \in Nat : Short(v, m) /\ OelReads(e) => Gets(OelResult(e, v, OelBuilds!Stage(U)[m]), e, reason)

(* The data of an expression.                                              *)
OelCarried(e, v) == OelShape(e, v) /\ OelGood(e, v, SomeOneWay("oel", e))

(* CEL: what a build makes of a tree, wherever the tree is.                *)
Makes(U, t, x) == \A m \in Nat : t \in U /\ Short(t, m) => CelBuilds!Stage(U)[m][t] = x

(* Nothing in C is built wrong.                                            *)
Knows(U, b, C) == Closed(C) /\ \A w, y : w \in C /\ Makes(U, w, y) => b[w] = y

(* The tree of a node, and that of an entry, which its holder reads.       *)
CelGood(e, v) ==
  \A U : Closed(U) =>
    IF e.t \in {"Pair", "Field"}
    THEN \A b, C : Knows(U, b, C) /\ v \in C => CelEntry(v, b) = e
    ELSE Makes(U, v, e)

(* The data of an expression.                                              *)
CelCarried(e, v) == CelGood(e, v) /\ ~IsOptional(v)

WholeText(l, e) ==
  /\ \E n \in Nat : Legal(l, e, n)
  /\ l = "oel" => e.t \notin {"Entry", "CommaList"}
  /\ l = "cel" => e.t \notin {"Pair", "Field"}

HoldsUnknown(v) == \E n \in Nat : UnknownTree \in Layer(v, n)

(* The data of what the user means.                                        *)
CarriedBy(l, e, v) ==
  /\ l = "promql" => PromCarried(e, v)
  /\ l = "oel" => OelCarried(e, v)
  /\ l = "cel" => CelCarried(e, v)

(* The inductive invariant: the text is what the user means, and the data  *)
(* is carried by it, or has a part that is not known.                      *)
LanguagesInv ==
  /\ lang \in {"promql", "oel", "cel"}
  /\ WholeText(lang, meant)
  /\ phase = "text" => source = meant /\ data = Nil
  /\ phase = "data" => HoldsUnknown(data) \/ CarriedBy(lang, meant, data)
  /\ StoppedForAReason
=============================================================================
