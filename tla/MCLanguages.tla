----------------------------- MODULE MCLanguages -----------------------------
(* Expressions of the three languages: every node and every leaf, those    *)
(* that do not return among them, and two levels of the nodes whose        *)
(* decoding looks at what is below.                                        *)
EXTENDS Languages

Half == Num("fin", 500)
OddNumbers == {Num("nan", 0), Num("inf", 0)}

-----------------------------------------------------------------------------
Job == Matcher(Name("job"), Name("=~"), Name("a"))
Up(m, offset, at) == [name |-> Name("up"), matchers |-> Matchers(m \cup NameMatchers(Name("up"))), offset |-> offset, at |-> at]

PromLeaves ==
  { Lit("Number", v) : v \in {Count(1), Half, Num("-0", 0)} \cup OddNumbers }
    \cup { Ast("VectorSelector", Up(m, offset, at), <<>>) :
             m \in {{}, {Job}}, offset \in {Nil, Span(TRUE, 5)}, at \in {Nil, Count(AtLimit + 1)} }
    \cup { Ast("VectorSelector", Up({}, Nil, at), <<>>) :
             at \in {Name("start"), Count(AtLimit), Num("fin", -500)} }
    \cup { Ast("VectorSelector", [Up({Job}, Nil, Nil)
                                    EXCEPT !.name = EmptyName], <<>>) }

PromUp == Ast("VectorSelector", Up({}, Nil, Nil), <<>>)
PromOne == Lit("Number", Count(1))

Matching(on, labels, card, include) ==
  Obj([on |-> Bool(on), labels |-> List(labels), card |-> Name(card), include |-> List(include)])

PromPairs ==
  { Ast("Binary", [op |-> Name("=="), bool |-> Bool(vm.f["on"] = Bool(TRUE)), matching |-> vm], <<PromUp, PromUp>>) :
      vm \in { Matching(on, labels, card, include) : on \in BOOLEAN, labels \in {<<>>, <<Name("l")>>},
                 card \in {"left", "right"}, include \in {<<>>, <<Name("m")>>} }
             \cup { Matching(on, labels, "one", <<>>) : on \in BOOLEAN, labels \in {<<>>, <<Name("l")>>} } }
    \cup { Ast("Binary", [op |-> Name("*"), bool |-> Bool(FALSE), matching |-> OneToOne], <<e, PromOne>>) :
             e \in PromLeaves }

PromRanges ==
  { Ast("MatrixSelector", Up({Job}, offset, Nil) @@ ("range" :> Span(FALSE, 5)), <<>>) :
      offset \in {Nil, Span(FALSE, 1)} }
    \cup { Ast("Subquery", [range |-> Span(FALSE, 5), step |-> step, offset |-> Nil, at |-> at], <<e>>) :
             step \in {Nil, Span(FALSE, 1)}, at \in {Nil, Count(1), Count(AtLimit + 1)},
             e \in {PromUp} }

PromAggregates ==
  { Ast("Aggregate", [op |-> Name("topk"), without |-> Bool(w), grouping |-> List(g)], <<PromUp>> \o p) :
      w \in BOOLEAN, g \in {<<>>, <<Name("l")>>}, p \in {<<>>, <<PromOne>>} }
    \cup { Ast("Aggregate", [op |-> Name("count_values"), without |-> Bool(FALSE), grouping |-> List(<<>>)],
               <<PromUp, Lit("String", Name("label"))>>) }

PromTexts ==
  PromLeaves \cup PromPairs \cup PromRanges \cup PromAggregates
    \cup { Ast("Call", "func" :> Name("rate"), <<e>>) : e \in PromRanges }
    \cup { Ast("Call", "func" :> Name("time"), <<>>) }
    \cup { Ast("Unary", "op" :> Name(op), <<PromUp>>) : op \in {"neg", "pos"} }
    \cup { Ast("Paren", NoFields, <<e>>) : e \in PromAggregates }

-----------------------------------------------------------------------------
OelLeaves ==
  { Lit("Null", Nil), Lit("Bool", Bool(TRUE)), Lit("String", Name("s")), Lit("String", EmptyName),
    Lit("Int", Count(1)), Lit("Float", Half) }
    \cup { Lit("Float", v) : v \in OddNumbers }
    \cup { Ast("Path", [user |-> Bool(root = ""), root |-> Name(root), hops |-> List(hops)], <<>>) :
             root \in {"", "app"}, hops \in {<<Name("x")>>, <<Name("x"), Name("y")>>, <<Count(1)>>} }

\* One leaf of each fate: it returns, it is no key, no number holds it.
OelSome == { Lit("String", Name("s")), Lit("String", EmptyName), Lit("Float", Num("nan", 0)) }

OelOne == Lit("Int", Count(1))
OelPath == Ast("Path", [user |-> Bool(TRUE), root |-> Name(""), hops |-> List(<<Name("x")>>)], <<>>)

Lists(S) == {<<>>} \cup {<<e>> : e \in S} \cup {<<e, OelOne>> : e \in S}
OelArgs == {<<>>} \cup {<<e>> : e \in OelSome} \cup {<<Ast("CommaList", NoFields, <<e, OelOne>>)>> : e \in OelSome}
             \cup {<<Ast("ArrayLit", NoFields, <<OelPath, OelOne>>)>>}

OelTexts ==
  OelLeaves
    \cup { Ast("ArrayLit", NoFields, a) : a \in Lists(OelSome) }
    \cup { Ast("Comparison", "op" :> Name("<="), <<e, OelPath>>) : e \in OelLeaves }
    \cup { Ast("Logical", "op" :> Name(op), <<OelPath, OelPath, e>>) : op \in {"AND", "OR"}, e \in OelSome }
    \cup { Ast("Additive", NoFields, <<Ast("Additive", NoFields, <<OelPath, OelOne>>), OelPath>>) }
    \cup { Ast("Not", NoFields, <<e>>) : e \in OelSome }
    \cup { Ast(t, NoFields, <<OelPath, e>>) : t \in {"elvis", "matches", "Index", "Projection"}, e \in OelSome }
    \cup { Ast("Ternary", NoFields, <<OelPath, OelPath, OelOne>>) }
    \cup { Ast("ClassCall", [class |-> Name("String"), method |-> Name("len")], a) : a \in OelArgs }
    \cup { Ast("MemberOf", "kind" :> Name("isMemberOfGroup"), a) : a \in OelArgs }
    \cup { Ast("FuncCall", "name" :> Name("f"), a) : a \in OelArgs }
    \cup { Ast("MethodCall", "method" :> Name("m"), <<OelPath>> \o a) : a \in OelArgs }
    \cup { Ast("Field", "field" :> Name("g"), <<Ast("FuncCall", "name" :> Name("f"), a)>>) : a \in OelArgs }
    \cup { Ast("MapLit", NoFields, <<Ast("Entry", NoFields, <<key, OelPath>>)>>) :
             key \in {Lit("String", Name("k")), Lit("String", EmptyName), OelPath} }

-----------------------------------------------------------------------------
Selected(e, test) == Ast("Select", [field |-> Name("f"), test_only |-> Bool(test)], <<e>>)
Listed(a, mark) == Ast("List", "optional" :> List([i \in DOMAIN a |-> Bool(i = mark)]), a)
Op(func, a) == Ast("Call", "fn" :> Name(func), a)

CelLeaves ==
  { Lit("null_value", Nil), Lit("bool_value", Bool(TRUE)), Lit("string_value", Name("s")),
    Lit("bytes_value", Name("s")), Lit("int64_value", Count(-Int64Limit)),
    Lit("uint64_value", Count(2 * Int64Limit - 1)), Lit("double_value", Count(1)), Lit("double_value", Half),
    Ident(Name("a")) }

CelKids ==
  CelLeaves
    \cup { Selected(Ident(Name("a")), test) : test \in BOOLEAN }
    \cup { Listed(<<>>, 0), Listed(<<Ident(Name("a")), Ident(Name("b"))>>, 0), Listed(<<Ident(Name("a"))>>, 1),
           Listed(<<Ident(Name("a")), Lit("int64_value", Count(1))>>, 2) }
    \cup { Op("[]", <<Ident(Name("a")), Lit("int64_value", Count(1))>>), Op("[?]", <<Ident(Name("a")), Ident(Name("b"))>>),
           Op("f", <<Ident(Name("a"))>>), Op("&&", <<Ident(Name("a")), Ident(Name("b"))>>),
           Op("&&", <<Ident(Name("a")), Op("||", <<Ident(Name("a")), Ident(Name("b"))>>)>>) }
    \cup { Ast("Map", NoFields, <<Ast("Pair", "optional" :> Bool(b), <<Lit("string_value", Name("k")), Ident(Name("a"))>>)>>) :
             b \in BOOLEAN }
    \cup { Ast("Map", NoFields, <<>>), Ast("Struct", "name" :> Name("M"), <<>>),
           Ast("Struct", "name" :> Name("M"),
               <<Ast("Field", [name |-> Name("f"), optional |-> Bool(FALSE)], <<Ident(Name("a"))>>)>>) }

CelSome ==
  { Ident(Name("a")), Selected(Ident(Name("a")), TRUE), Op("&&", <<Ident(Name("a")), Ident(Name("b"))>>) }

CelTexts ==
  CelKids
    \cup { Op(func, <<e>>) : func \in {"!", "neg"}, e \in CelSome }
    \cup { Op(func, <<e, Ident(Name("b"))>>) : func \in {"==", "sub", "in", "&&", "||", "[]", "?."}, e \in CelSome }
    \cup { Op("?:", <<Ident(Name("c")), e, Ident(Name("b"))>>) : e \in CelSome }
    \cup { Ast("Member", "fn" :> Name("map"), <<e, Ident(Name("x")), Ident(Name("b"))>>) : e \in CelSome }
    \cup { Selected(e, test) : e \in CelSome, test \in BOOLEAN }
    \cup { Listed(<<e>>, mark) : e \in CelSome, mark \in {0, 1} }

MCTexts == ("promql" :> PromTexts) @@ ("oel" :> OelTexts) @@ ("cel" :> CelTexts)
=============================================================================
