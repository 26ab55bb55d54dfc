------------------------------- MODULE Values -------------------------------
(***************************************************************************)
(* Terraform values on their way through the provider: each family turns a *)
(* value into Go's JSON value space, hands it to a library and turns the   *)
(* result back (transform/convert.go, dataformat/convert.go,               *)
(* cryptography/jsonvalue.go, optionsutil/optionsutil.go).  A chain of     *)
(* calls gives each call the result of the one before.                     *)
(*                                                                         *)
(* A number is counted in halves, so an odd one has a fraction.  A float64 *)
(* holds FloatBits bits of it; an int64 has Int64Bits bits.                *)
(***************************************************************************)
EXTENDS Integers, Sequences, FiniteSets

CONSTANTS
  FloatBits,   \* the mantissa of a float64 (53)
  Int64Bits,   \* the width of an int64 (64)
  MaxDepth,    \* per family, the nesting it supports
  MaxNodes,    \* the nodes terraformToJSON visits (1,000,000)
  CborLevels,  \* the nesting the CBOR library reads (256)
  KeyNames,    \* the keys of mappings, and positions
  Spelling,    \* what the code writes for a date or data spelt otherwise
  Given,       \* the Terraform values a chain starts with
  Documents,   \* the Go trees that a decoder reads
  MaxCalls     \* bound: the calls of a chain

VARIABLES
  origin,   \* the value the chain started with
  read,     \* the decoder the chain started with, or "none"
  value,    \* the latest result
  sight,    \* what the latest engine was handed
  reply,    \* "done", "unknown", "refused"
  last,     \* the function that gave it
  edge,     \* what int64(2^63) is on the machine that runs
  calls     \* bound: calls made

valuesVars == <<origin, read, value, sight, reply, last, edge, calls>>

-----------------------------------------------------------------------------
(* Values.  One is its items by their paths: the keys on the way from the  *)
(* root, in which the position of an element is a key too.  A Go tree has  *)
(* the same shapes as a Terraform value: "seq" is []interface{}, "map" is  *)
(* map[string]interface{}.                                                 *)

Item(k, as, n, s) == [k |-> k, as |-> as, n |-> n, s |-> s]

Null           == Item("null", "none", 0, "")
NotKnown       == Item("unknown", "none", 0, "")
Truth(b)       == Item("bool", "none", 0, b)
Number(n)      == Item("num", "number", n, "")
Go(as, n)      == Item("num", as, n, "")   \* json.Number, int64, uint64, *big.Int, float64
Text(as, s)    == Item("string", as, 0, s)
Digits(n)      == Item("string", "digits", n, "")
Opaque(k, s)   == Item(k, "none", 0, s)    \* "date": time.Time, "data": []byte
Real(n)        == Item("real", "none", n, "")
Sequence(as)   == Item("seq", as, 0, "")
Mapping(as)    == Item("map", as, 0, "")
Misfit         == Item("misfit", "none", 0, "")

(* A value of one item, and one made of parts under their keys.            *)
Just(x) == [p \in {<<>>} |-> x]
Branch(root, part) ==
  [p \in {<<>>} \cup UNION { {<<x>> \o q : q \in DOMAIN part[x]} : x \in DOMAIN part } |->
     IF p = <<>> THEN root ELSE part[Head(p)][Tail(p)]]

(* What there is in place of a value after an error.                       *)
Rejected == [p \in {} |-> Null]

Parent(p) == SubSeq(p, 1, Len(p) - 1)
Kids(v, p) == { q \in DOMAIN v : q # <<>> /\ Parent(q) = p }

(* More than n levels, and the number of items.                            *)
Deeper(v, n) == \E p \in DOMAIN v : Len(p) >= n
Size(v) == Cardinality(DOMAIN v)

Walked(x) ==
  \/ x.k = "seq" /\ x.as \in {"tuple", "list", "set"}
  \/ x.k = "map" /\ x.as \in {"object", "map"}

(* A mutant: the walk leaves out sets.                                     *)
UnknownButInSets(v) ==
  \E p \in DOMAIN v :
    /\ v[p].k = "unknown"
    /\ \A i \in 0 .. Len(p) - 1 :
         Walked(v[SubSeq(p, 1, i)]) /\ v[SubSeq(p, 1, i)].as # "set"

(* The walk that every family has its own copy of.                         *)
HasUnknown(v) ==
  \E p \in DOMAIN v :
    /\ v[p].k = "unknown"
    /\ \A i \in 0 .. Len(p) - 1 : Walked(v[SubSeq(p, 1, i)])

-----------------------------------------------------------------------------
(* Numbers.                                                                *)

Whole(n) == n % 2 = 0
Fits64(n) == Whole(n) /\ n \div 2 \in -(2 ^ (Int64Bits - 1)) .. 2 ^ (Int64Bits - 1) - 1

Abs(n) == IF n < 0 THEN -n ELSE n

(* The nearest float64, ties to even; bound: the units, which end at the   *)
(* square of what an int64 holds.                                          *)
Units == { 2 ^ j : j \in 0 .. 2 * Int64Bits }
Reaches(m, unit) == unit = 1 \/ m >= unit * 2 ^ (FloatBits - 1)
UnitOf(m) ==
  CHOOSE unit \in Units :
    Reaches(m, unit) /\ \A other \in Units : other > unit => ~Reaches(m, other)
NearUnit(m, unit) ==
  LET q == m \div unit
      rest == m % unit
      up == 2 * rest > unit \/ (2 * rest = unit /\ q % 2 = 1)
  IN (q + (IF up THEN 1 ELSE 0)) * unit
Near(n) ==
  LET r == NearUnit(Abs(n), UnitOf(Abs(n))) IN IF n < 0 THEN -r ELSE r

-----------------------------------------------------------------------------
(* The leaves of each conversion.                                          *)

(* A number becomes its digits; null and unknown become nil.               *)
ToJSONLeaf(x) ==
  CASE x.k \in {"null", "unknown"} -> Null
    [] x.k = "num" -> Go("json", x.n)
    [] OTHER -> x

(* The digits are parsed into a Float that big.NewFloat(0) gave 53 bits.   *)
FromJSONLeaf(g) ==
  CASE g.k = "num" /\ g.as = "json"  -> Number(Near(g.n))
    [] g.k = "num" /\ g.as = "float" -> Number(g.n)
    [] OTHER -> g

(* A date is written in UTC and to the second, data as unbroken base64.    *)
Canonical(s) == IF s \in DOMAIN Spelling THEN Spelling[s] ELSE s

GoToTerraformLeaf(g) ==
  CASE g.k = "num" /\ g.as = "json" -> Number(Near(g.n))
    [] g.k = "num" /\ g.as # "json" -> Number(g.n)
    [] g.k = "date" -> Text("date", Canonical(g.s))
    [] g.k = "data" -> Text("base64", Canonical(g.s))
    [] OTHER -> g

TerraformToGoLeaf(x) ==
  CASE x.k \in {"null", "unknown"} -> Null
    [] x.k = "num" -> IF Fits64(x.n) THEN Go("int64", x.n)
                      ELSE IF Whole(x.n) THEN Go("big", x.n)
                      ELSE Go("float", Near(x.n))
    [] OTHER -> x

(* Whole float64s become int64 before they are encoded; a plistRealValue   *)
(* passes through.  The largest int64 is not a float64: the comparison     *)
(* lets 2^63 through, and its conversion depends on the machine.           *)
Top63 == 2 * 2 ^ (Int64Bits - 1)
AsInt64(g) == Go("int64", IF g.n = Top63 THEN edge ELSE g.n)

PrepareBinaryLeaf(g) ==
  IF g.k = "num" /\ g.as = "float" /\ Whole(g.n) /\ g.n \in -Top63 .. Top63
  THEN AsInt64(g) ELSE g

PreparePlistLeaf(g) ==
  IF g.k = "num" /\ g.as = "float" /\ Whole(g.n) /\ g.n \in -Top63 .. Top63
  THEN AsInt64(g) ELSE g

PrepareJSONLeaf(g) ==
  IF g.k = "num" /\ g.as = "float" /\ Whole(g.n) /\ Abs(g.n) <= 2 * 2 ^ FloatBits
  THEN Go("int64", g.n) ELSE g

NormalizeForJMESPathLeaf(g) == IF g.k = "num" THEN Go("float", Near(g.n)) ELSE g

(* Float.Int64 stops at the ends.                                          *)
Clamped(n) == IF n >= Top63 THEN Top63 - 2 ELSE IF n < -Top63 THEN -Top63 ELSE n

(* A mutant: the error of Int64 is not looked at.                          *)
GojqClamped(g) ==
  IF g.k # "num" THEN g
  ELSE IF Whole(g.n) THEN Go("int", Clamped(g.n)) ELSE Go("float", Near(g.n))

NormalizeForGojqLeaf(g) ==
  IF g.k # "num" THEN g
  ELSE IF Fits64(g.n) THEN Go("int", g.n)
  ELSE IF Whole(g.n) THEN Go("big", g.n)
  ELSE Go("float", Near(g.n))

NormalizeFromGojqLeaf(g) == IF g.k = "num" THEN Go("json", g.n) ELSE g

(* toGoValue of the evaluators.                                            *)
ToGoValueLeaf(x) ==
  IF x.k # "num" THEN x
  ELSE IF Whole(x.n) THEN Go("int", Clamped(x.n)) ELSE Go("float", Near(x.n))

(* The libraries' text: every number as its digits.                        *)
JSONTextLeaf(g) == IF g.k = "num" THEN Go("json", g.n) ELSE g

(* What the plist library reads of what it wrote.                          *)
PlistTextLeaf(g) == IF g.k = "real" THEN Go("float", g.n) ELSE g

-----------------------------------------------------------------------------
(* The shapes.  A conversion keeps them: sequences become []interface{}    *)
(* and, on the way back, tuples; mappings become objects.                  *)
Each(v, Leaf(_)) ==
  [p \in DOMAIN v |->
     IF v[p].k = "seq" THEN Sequence("tuple")
     ELSE IF v[p].k = "map" THEN Mapping("object")
     ELSE Leaf(v[p])]

(* The list of a library's one result.                                     *)
InList(g) ==
  IF g = Rejected THEN Rejected ELSE Branch(Sequence("tuple"), [x \in {"0"} |-> g])

(* A property list's tags: objects of two strings.                         *)
TypeKey == "__plist_type"
ValueKey == "value"
TagTypes == {"date", "data", "real"}

MakePlistTag(type, text) ==
  Branch(Mapping("object"),
         [x \in {TypeKey, ValueKey} |-> Just(IF x = TypeKey THEN Text("plain", type) ELSE text)])

HasTagKeys(v, p) ==
  /\ Kids(v, p) = {Append(p, TypeKey), Append(p, ValueKey)}
  /\ \A q \in Kids(v, p) : v[q].k = "string"
  /\ \E type \in TagTypes : v[Append(p, TypeKey)] = Text("plain", type)

IsTag(v, p) == v[p] = Mapping("object") /\ HasTagKeys(v, p)

(* The Go value it stands for: an error when the text under the tag is not *)
(* of its type.                                                            *)
TryUnpack(v, p) ==
  LET type == v[Append(p, TypeKey)].s  text == v[Append(p, ValueKey)] IN
  CASE type = "date" /\ text.as = "date"   -> Opaque("date", text.s)
    [] type = "data" /\ text.as = "base64" -> Opaque("data", text.s)
    [] type = "real" /\ text.as = "digits" -> Real(Near(text.n))
    [] OTHER -> Misfit

Untagged(v) ==
  [p \in { q \in DOMAIN v : q = <<>> \/ ~IsTag(v, Parent(q)) } |->
     IF IsTag(v, p) THEN TryUnpack(v, p) ELSE v[p]]

(* A mutant: a whole real is a plain number.                               *)
PlainReals(g) == g.k \in {"date", "data"}

(* What of a property list becomes a tagged object.                        *)
Taggable(g) ==
  g.k \in {"date", "data"} \/ (g.k = "num" /\ g.as = "float" /\ Whole(g.n))

TagText(g) ==
  CASE g.k = "date" -> Text("date", Canonical(g.s))
    [] g.k = "data" -> Text("base64", Canonical(g.s))
    [] OTHER -> Digits(g.n)

WithTags(g) ==
  LET tagged == { p \in DOMAIN g : Taggable(g[p]) } IN
  [p \in DOMAIN g \cup { Append(q, x) : q \in tagged, x \in {TypeKey, ValueKey} } |->
     IF p \in tagged THEN Mapping("object")
     ELSE IF p \in DOMAIN g THEN g[p]
     ELSE IF p[Len(p)] = TypeKey
     THEN Text("plain", IF g[Parent(p)].k = "num" THEN "real" ELSE g[Parent(p)].k)
     ELSE TagText(g[Parent(p)])]

-----------------------------------------------------------------------------
(* The conversions of each family, with the nesting each refuses.  A tag   *)
(* is a leaf to the plist conversions, so nesting is counted on Go's side. *)

TerraformToJSON(v) ==
  IF Deeper(v, MaxDepth["transform"]) \/ Size(v) > MaxNodes THEN Rejected
  ELSE Each(v, ToJSONLeaf)

(* A mutant: one level past the limit comes back.                          *)
BackPastLimit(g) ==
  IF Deeper(g, MaxDepth["transform"] + 1) THEN Rejected ELSE Each(g, FromJSONLeaf)

JSONToTerraform(g) ==
  IF Deeper(g, MaxDepth["transform"]) THEN Rejected ELSE Each(g, FromJSONLeaf)

GoToTerraformValue(g, plist) ==
  IF Deeper(g, MaxDepth["dataformat"]) THEN Rejected
  ELSE Each(IF plist THEN WithTags(g) ELSE g, GoToTerraformLeaf)

(* The elements of a slice start at depth 0 again.                         *)
GoSliceToTuple(g) ==
  IF Deeper(g, MaxDepth["dataformat"] + 1) THEN Rejected ELSE Each(g, GoToTerraformLeaf)

TerraformValueToGo(v, plist) ==
  LET g == Each(IF plist THEN Untagged(v) ELSE v, TerraformToGoLeaf)
  IN IF Deeper(g, MaxDepth["dataformat"]) \/ \E p \in DOMAIN g : g[p] = Misfit
     THEN Rejected ELSE g

TerraformToGoJSON(v) ==
  IF Deeper(v, MaxDepth["jose"]) THEN Rejected ELSE Each(v, ToJSONLeaf)

GoJSONToTerraform(g) ==
  IF Deeper(g, MaxDepth["jose"]) THEN Rejected ELSE Each(g, FromJSONLeaf)

(* The engines' inputs must be known, and the limit itself is allowed.     *)
AttrToGo(v) ==
  IF Deeper(v, MaxDepth["options"] + 1) \/ HasUnknown(v) THEN Rejected
  ELSE Each(v, ToJSONLeaf)

ToGoValue(v) == Each(v, ToGoValueLeaf)

(* The constructors of tagged objects check what they tag.                 *)
PlistDate(text) == IF text.as = "date" THEN MakePlistTag("date", text) ELSE Rejected
PlistData(text) == IF text.as = "base64" THEN MakePlistTag("data", text) ELSE Rejected
PlistReal(n) == MakePlistTag("real", Digits(Near(n)))

-----------------------------------------------------------------------------
(* What a chain starts with.                                               *)

(* What an item lies in is there, and is a sequence or a mapping.          *)
IsTree(v) ==
  /\ DOMAIN v \subseteq Seq(KeyNames) /\ <<>> \in DOMAIN v
  /\ \A p \in DOMAIN v \ {<<>>} :
       Parent(p) \in DOMAIN v /\ v[Parent(p)].k \in {"seq", "map"}

IsItem(x) == x = Item(x.k, x.as, x.n, x.s) /\ x.n \in Int

(* Only the digits of a number are told apart by the number they stand for. *)
IsText(x) == IF x.as = "digits" THEN x = Digits(x.n) ELSE x = Text(x.as, x.s)

IsTerraformItem(x) ==
  /\ IsItem(x)
  /\ \/ x = Null \/ x = NotKnown \/ x = Truth(x.s) \/ x = Number(x.n)
     \/ x.k = "string" /\ IsText(x)
     \/ x = Sequence(x.as) /\ Walked(x)
     \/ x = Mapping(x.as) /\ Walked(x)

(* What the plist library gives for a document: its integers are unsigned  *)
(* unless they are negative.  The UIDs of keyed archives and numbers that  *)
(* are not finite, which are refused, are left out.                        *)
Unsigned(n) == Whole(n) /\ n \div 2 \in 0 .. 2 ^ Int64Bits - 1

IsPlistItem(g) ==
  /\ IsItem(g)
  /\ \/ g = Truth(g.s)
     \/ g.k = "string" /\ IsText(g)
     \/ g \in {Opaque("date", g.s), Opaque("data", g.s)}
     \/ g = Go("int64", g.n) /\ Fits64(g.n)
     \/ g = Go("uint64", g.n) /\ Unsigned(g.n)
     \/ g = Go("float", g.n) /\ Near(g.n) = g.n
     \/ g \in {Sequence("tuple"), Mapping("object")}

ASSUME ValuesAssumption ==
  /\ FloatBits \in Nat \ {0} /\ Int64Bits \in Nat \ {0}
  /\ {"0", TypeKey, ValueKey} \subseteq KeyNames
  /\ \A family \in {"transform", "dataformat", "jose", "options"} : MaxDepth[family] \in Nat
  /\ MaxNodes \in Nat /\ CborLevels \in Nat /\ MaxCalls \in Nat
  /\ \A v \in Given : IsTree(v) /\ \A p \in DOMAIN v : IsTerraformItem(v[p])
  /\ \A d \in Documents : IsTree(d) /\ \A p \in DOMAIN d : IsPlistItem(d[p])
  /\ \A s \in DOMAIN Spelling : Spelling[s] \notin DOMAIN Spelling

-----------------------------------------------------------------------------
(* The functions.  A query or patch asks for the whole value, and a        *)
(* document is written and read again.                                     *)

Nothing == Rejected

ValuesInit ==
  /\ sight = Nothing /\ last = "none" /\ calls = 0
  /\ edge \in {-Top63, Top63 - 2}
  /\ \/ origin \in Given /\ read = "none" /\ value = origin /\ reply = "done"
     \/ /\ origin \in Documents /\ read = "plist"
        /\ value = GoToTerraformValue(origin, TRUE)
        /\ reply = IF value = Rejected THEN "refused" ELSE "done"

(* A call with an unknown inside its argument answers unknown before it    *)
(* converts anything.                                                      *)
Deliver(f, s, r) ==
  /\ reply = "done" /\ calls < MaxCalls
  /\ calls' = calls + 1 /\ last' = f
  /\ IF HasUnknown(value)
     THEN value' = Just(NotKnown) /\ reply' = "unknown" /\ sight' = Nothing
     ELSE IF Rejected \in {s, r}
     THEN value' = Rejected /\ reply' = "refused" /\ sight' = Nothing
     ELSE value' = r /\ reply' = "done" /\ sight' = s
  /\ UNCHANGED <<origin, read, edge>>

JMESPathQuery ==
  LET s == Each(TerraformToJSON(value), NormalizeForJMESPathLeaf)
  IN Deliver("jmespath_query", s, JSONToTerraform(s))

(* The nodes that match, in a list.                                        *)
JSONPathQuery ==
  LET s == TerraformToJSON(value)
  IN Deliver("jsonpath_query", s, JSONToTerraform(InList(s)))

JSONataQuery ==
  LET s == TerraformToJSON(value)
  IN Deliver("jsonata_query", s, JSONToTerraform(s))

(* Every output of the program, in a list.                                 *)
NormalizeFromGojq(g) ==
  IF Deeper(g, MaxDepth["transform"]) THEN Rejected ELSE Each(g, NormalizeFromGojqLeaf)

JqQuery ==
  LET s == Each(TerraformToJSON(value), NormalizeForGojqLeaf)
  IN Deliver("jq", s, JSONToTerraform(InList(NormalizeFromGojq(s))))

(* A patch of no operations, applied to the document's text.               *)
JSONPatch ==
  LET s == TerraformToJSON(value)
  IN Deliver("json_patch", s, JSONToTerraform(s))

JSONWritten(v) ==
  Each(Each(TerraformValueToGo(v, FALSE), PrepareJSONLeaf), JSONTextLeaf)

JSONEncodeDecode ==
  LET s == JSONWritten(value)
  IN Deliver("hujsondecode", s, GoToTerraformValue(s, FALSE))

(* One line for each element of a list.                                    *)
NDJSONWritten(v) == IF v[<<>>].k = "seq" THEN JSONWritten(v) ELSE Rejected

NDJSONEncodeDecode ==
  LET s == NDJSONWritten(value)
  IN Deliver("ndjsondecode", s, GoSliceToTuple(s))

BinaryWritten(v) == Each(TerraformValueToGo(v, FALSE), PrepareBinaryLeaf)

CBORDecode(g) == IF Deeper(g, CborLevels) THEN Rejected ELSE GoToTerraformValue(g, FALSE)

CBOREncodeDecode ==
  LET s == BinaryWritten(value) IN Deliver("cbordecode", s, CBORDecode(s))

(* How these two libraries write a big integer, and a plist a nil, is not  *)
(* the provider's code.                                                    *)
NoBigs(v) == \A p \in DOMAIN v : v[p].k = "num" /\ Whole(v[p].n) => Fits64(v[p].n)
NoNulls(v) == \A p \in DOMAIN v : v[p].k # "null"

MsgpackWritten(v) == BinaryWritten(v)

MsgpackEncodeDecode ==
  /\ NoBigs(value)
  /\ LET s == MsgpackWritten(value)
     IN Deliver("msgpackdecode", s, GoToTerraformValue(s, FALSE))

PlistWritten(v) ==
  Each(Each(TerraformValueToGo(v, TRUE), PreparePlistLeaf), PlistTextLeaf)

PlistEncodeDecode ==
  /\ NoBigs(value) /\ NoNulls(value)
  /\ LET s == PlistWritten(value)
     IN Deliver("plistdecode", s, GoToTerraformValue(s, TRUE))

(* The claims of a token, which must be an object.                         *)
JWTSignDecode ==
  LET s == IF value[<<>>].k = "map" THEN TerraformToGoJSON(value) ELSE Rejected
  IN Deliver("jwt_decode", s, GoJSONToTerraform(s))

(* The data handed to an engine; the caller keeps its value.               *)
TypstInputs == Deliver("typst", AttrToGo(value), value)

PolicyContext == Deliver("oelevaluate", ToGoValue(value), value)

ValuesNext ==
  \/ JMESPathQuery \/ JSONPathQuery \/ JSONataQuery \/ JqQuery \/ JSONPatch
  \/ JSONEncodeDecode \/ NDJSONEncodeDecode \/ CBOREncodeDecode
  \/ MsgpackEncodeDecode \/ PlistEncodeDecode \/ JWTSignDecode
  \/ TypstInputs \/ PolicyContext

ValuesSpec == ValuesInit /\ [][ValuesNext]_valuesVars

-----------------------------------------------------------------------------
(* Properties.                                                             *)

(* The item x is y, its number perhaps rounded.                            *)
Drift(n) == {n, Near(n)}
Same(x, y) ==
  /\ x.k = y.k /\ x.s = y.s /\ y.n \in Drift(x.n)
  /\ x.k = "string" => x.as = y.as

(* The text of a date or of data, as the code writes it.                   *)
Respelt(x) == Item(x.k, x.as, x.n, Canonical(x.s))
InTag(v, p) == p # <<>> /\ HasTagKeys(v, Parent(p))

(* The item of v at p is y: only under a tag may its text be respelt.      *)
As(v, p, y) ==
  \/ Same(v[p], y)
  \/ InTag(v, p) /\ v[p].as \in {"date", "base64"} /\ Same(Respelt(v[p]), y)

(* The item y is read from the tag at p: it is what that stands for, or a  *)
(* number in place of a real, a whole one only while it is a float64.      *)
ReadFrom(v, p, y) ==
  LET g == TryUnpack(v, p) IN
  /\ HasTagKeys(v, p)
  /\ \/ y = g
     \/ g.k \in {"date", "data"} /\ y = Respelt(g)
     \/ g.k = "real" /\ y.k = "num" /\ y.n = g.n /\ (y.as = "float" \/ ~Whole(y.n))

(* The value v is in w, under n lists of one element.                      *)
Under(n, p) == [i \in 1 .. n |-> "0"] \o p
InsideBy(v, w, n) ==
  /\ \A p \in DOMAIN w :
       \/ Len(p) < n /\ p = Under(Len(p), <<>>) /\ w[p].k = "seq"
       \/ \E q \in DOMAIN v : p = Under(n, q) /\ (As(v, q, w[p]) \/ ReadFrom(v, q, w[p]))
  /\ \A q \in DOMAIN v :
       \/ Under(n, q) \in DOMAIN w
       \/ /\ q # <<>> /\ Under(n, Parent(q)) \in DOMAIN w
          /\ ReadFrom(v, Parent(q), w[Under(n, Parent(q))])
Inside(v, w) == \E n \in 0 .. MaxCalls : InsideBy(v, w, n)

(* However many families a value goes through, its shape and its scalars   *)
(* stay, and every number is the one given or that number rounded once to  *)
(* a float64; and that is also what each library saw.  The one text that   *)
(* changes is that under the tag of a date or of data, respelt the way the *)
(* code writes it: a date loses its offset and what is below a second.     *)
(* Left out are a fraction that rounds to a whole number past an int64,    *)
(* which on some machines comes back negative and from a property list as  *)
(* a tag, and a whole number past an int64 given to the evaluators, which  *)
(* hold no other.                                                          *)
Past(n) == Near(n) >= Top63 \/ Near(n) < -Top63
RoundsPast(v) == \E p \in DOMAIN v : v[p].k = "num" /\ ~Whole(v[p].n) /\ Past(v[p].n)
WholePast(v) ==
  \E p \in DOMAIN v : v[p].k = "num" /\ Whole(v[p].n) /\ (~Fits64(v[p].n) \/ Past(v[p].n))

RoundedAtMostOnce ==
  read = "none" /\ reply = "done" /\ ~RoundsPast(origin) =>
    /\ Inside(origin, value)
    /\ sight = Nothing \/ Inside(origin, sight)
       \/ (last = "oelevaluate" /\ WholePast(origin))

(* A value that is not known throughout reaches no library, and nothing    *)
(* concrete is made of it: the answer is unknown.                          *)
Open(v) == \E p \in DOMAIN v : v[p].k = "unknown"

UnknownNeverConcrete ==
  Open(origin) /\ calls > 0 => reply = "unknown" /\ sight = Nothing

(* The limits of the two directions agree: what a function returned, its   *)
(* family's reader does not find too deep.  A dictionary with the keys of  *)
(* a tag and a text that does not fit is read, and then not written.       *)
Readable(f, v) ==
  CASE f \in {"jmespath_query", "jsonpath_query", "jsonata_query", "jq", "json_patch"} ->
         ~Deeper(v, MaxDepth["transform"])
    [] f \in {"hujsondecode", "ndjsondecode", "cbordecode", "msgpackdecode"} ->
         TerraformValueToGo(v, FALSE) # Rejected
    [] f = "plistdecode" ->
         \/ TerraformValueToGo(v, TRUE) # Rejected
         \/ \E p \in DOMAIN sight : IsTag(sight, p) /\ TryUnpack(sight, p) = Misfit
    [] f = "jwt_decode" -> TerraformToGoJSON(v) # Rejected
    [] f = "typst" -> AttrToGo(v) # Rejected
    [] OTHER -> TRUE

ReturnedIsReadable == reply = "done" => Readable(last, value)

(* A property list that was read is written as it was, with its reals,     *)
(* whole ones among them, its integers of either sign and its data.  Its   *)
(* dates are written to the second.  A dictionary with the keys of a tag   *)
(* is taken for the tag: it is written as what that stands for, and when   *)
(* its text does not fit the list is refused.                              *)
AsReadLeaf(g) ==
  CASE g.k \in {"date", "data"}       -> Respelt(g)
    [] g.k = "num" /\ g.as = "uint64" -> Go(IF Fits64(g.n) THEN "int64" ELSE "big", g.n)
    [] OTHER -> g

LooksMistagged(d) == \E p \in DOMAIN d : IsTag(d, p) /\ TryUnpack(d, p) = Misfit

PlistDocumentReturns ==
  read = "plist" /\ reply = "done" /\ calls = 0 =>
    PlistWritten(value) =
      IF LooksMistagged(origin) THEN Rejected
      ELSE Each(Untagged(Each(origin, AsReadLeaf)), PlistTextLeaf)

(* The queries document that an integer they merely extract keeps its full *)
(* precision.                                                              *)
ExtractedExactly ==
  /\ read = "none" /\ reply = "done" /\ calls = 1
  /\ last \in {"jsonpath_query", "jsonata_query", "jq"}
  /\ origin[<<>>].k = "num" /\ Whole(origin[<<>>].n)
  => value \in {origin, InList(origin)}
=============================================================================
