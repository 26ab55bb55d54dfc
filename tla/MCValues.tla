------------------------------ MODULE MCValues ------------------------------
(* Values of every kind, a few levels deep, with numbers on both sides of  *)
(* what a float64 and an int64 hold.                                       *)
EXTENDS Values, TLC

MCMaxDepth == [transform |-> 4, dataformat |-> 4, jose |-> 3, options |-> 2]

Nums == { Just(Number(n)) : n \in {0, 1, -3, 14, 17, 18, 22, 60, 62, 63, -64, 64, -66, 90, 91} }
Scalars == Nums \cup { Just(Null), Just(Truth("true")), Just(Text("plain", "s")) }
UnknownValue == Just(NotKnown)
NumberValue(n) == Just(Number(n))

Places == <<"0", "1", "2", "3", "4", "5">>
Elements(as, vs) ==
  Branch(Sequence(as), [x \in { Places[i] : i \in DOMAIN vs } |->
                          vs[CHOOSE i \in DOMAIN vs : Places[i] = x]])
One(as, v) == Elements(as, <<v>>)
Field(as, v) == Branch(Mapping(as), "a" :> v)
Fields(as, v, w) == Branch(Mapping(as), ("a" :> v) @@ ("b" :> w))

RECURSIVE Deep(_, _)
Deep(n, v) == IF n = 0 THEN v
              ELSE IF n % 2 = 0 THEN Field("map", Deep(n - 1, v)) ELSE One("list", Deep(n - 1, v))

MCSpelling == ("2025.5" :> "2025") @@ ("2025+1" :> "2025") @@ ("AA EC" :> "AAEC")

MCKeyNames == {"a", "b", TypeKey, ValueKey} \cup { Places[i] : i \in DOMAIN Places }

MCGiven ==
  Scalars
    \cup { One(as, v) : as \in {"tuple", "list", "set"}, v \in Scalars \cup {UnknownValue} }
    \cup { Field(as, v) : as \in {"object", "map"}, v \in Scalars \cup {UnknownValue} }
    \cup { Elements("tuple", <<v, w>>) :
             v \in Scalars, w \in {NumberValue(1), UnknownValue, Field("object", NumberValue(22))} }
    \cup { Fields("object", v, One("set", w)) :
             v \in {Just(Null), NumberValue(17)}, w \in {NumberValue(90), UnknownValue} }
    \cup { Deep(n, v) :
             n \in 2 .. 5,
             v \in {NumberValue(18), NumberValue(90), UnknownValue, Just(Sequence("tuple"))} }
    \cup { PlistDate(Text("date", s)) : s \in {"2025", "2025+1"} }
    \cup { PlistData(Text("base64", s)) : s \in {"AAEC", "AA EC"} }
    \cup { One("list", PlistDate(Text("date", "2025.5"))), Just(Text("date", "2025.5")),
           MakePlistTag("date", Text("plain", "s")) }
    \cup { PlistReal(n) : n \in {4, 5, 34} }
    \cup { Branch(Mapping("map"),
                  (TypeKey :> Just(Text("plain", "date"))) @@ (ValueKey :> Just(Text(as, "2025")))) :
             as \in {"plain", "date"} }
    \cup { Elements("list", [i \in 1 .. 6 |-> NumberValue(2 * i - 1)]) }

PlistLeaves ==
  { Just(Go("int64", -64)) } \cup { Just(Go("uint64", n)) : n \in {4, 90} }
    \cup { Just(Go("float", n)) : n \in {5, 12} }
    \cup { Just(Opaque("date", s)) : s \in {"2025", "2025.5"} }
    \cup { Just(Opaque("data", "AAEC")), Just(Text("plain", "date")), Just(Truth("true")) }

TagLike ==
  { MakePlistTag("date", Text("date", "2025+1")), MakePlistTag("date", Text("plain", "date")),
    MakePlistTag("data", Text("base64", "AA EC")), MakePlistTag("real", Digits(17)) }

MCDocuments ==
  PlistLeaves \cup TagLike
    \cup { Elements("tuple", <<v, w>>) : v \in PlistLeaves, w \in PlistLeaves \cup TagLike }
    \cup { Fields("object", v, Field("object", w)) : v, w \in PlistLeaves }
    \cup { Field("object", One("tuple", Field("object", v))) : v \in PlistLeaves }
    \cup { Branch(Mapping("object"), (TypeKey :> v) @@ (ValueKey :> w)) :
             v \in {Just(Text("plain", "other")), Just(Go("float", 12))}, w \in PlistLeaves }
=============================================================================
