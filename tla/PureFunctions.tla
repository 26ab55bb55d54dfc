--------------------------- MODULE PureFunctions ---------------------------
(***************************************************************************)
(* The functions that keep nothing between calls, outside the network      *)
(* family: values on their way through the converters, expressions that    *)
(* are decoded, edited and encoded, tokens, keys in words, DER, indices    *)
(* that are wrapped, and a call's options while planning and applying.     *)
(* They share nothing, so one chain of calls runs at a time and the other  *)
(* parts keep still.                                                       *)
(***************************************************************************)
EXTENDS Values, Languages, Jose, Rfc1751, Asn1, Numerics, PlanApply

(* The chain of calls that runs.                                           *)
VARIABLE chain

pureVars == <<valuesVars, languagesVars, joseVars, rfc1751Vars, asn1Vars, numericsVars, vars, chain>>

(* The parts that do not run, in a state that leaves nothing to check.     *)
ValuesIdle ==
  /\ origin = Just(Null) /\ read = "none" /\ value = Just(Null) /\ sight = Nothing
  /\ reply = "done" /\ last = "none" /\ edge = -Top63 /\ calls = 0

LanguagesIdle ==
  /\ lang = "none" /\ notation = "none" /\ source = Nil /\ meant = Nil
  /\ data = Nil /\ phase = "none" /\ splices = 0

JoseIdle ==
  /\ material = Secret("") /\ algorithm = "none" /\ extra = <<>> /\ claims = <<>>
  /\ token = NoToken /\ signer = NoKey /\ altered = FALSE
  /\ asked = [algorithm |-> Absent, now |-> Absent] /\ verdict = "none" /\ checks = 0

Rfc1751Idle ==
  /\ key = <<>> /\ phrase = NoPhrase /\ typed = NoPhrase
  /\ slip = "none" /\ restored = NoBytes("none")

Asn1Idle ==
  /\ der = <<>> /\ passed = 0 /\ opened = 0 /\ nodes = 0 /\ walk = "walking" /\ tree = <<>>

NumericsIdle == first = 0 /\ divisor = 0 /\ moved = 0 /\ index = 0 /\ wraps = 0

OptionsIdle ==
  /\ fn = CHOOSE f \in Functions : TRUE
  /\ form = "object" /\ given = <<>> /\ shown = <<>> /\ turn = "over"
  /\ reading = FALSE /\ todo = {} /\ got = {}
  /\ answer = [plan |-> NoAnswer, apply |-> NoAnswer]

ValuesInitial ==
  /\ ValuesInit
  /\ LanguagesIdle /\ JoseIdle /\ Rfc1751Idle /\ Asn1Idle /\ NumericsIdle /\ OptionsIdle

LanguagesInitial ==
  /\ LanguagesInit
  /\ ValuesIdle /\ JoseIdle /\ Rfc1751Idle /\ Asn1Idle /\ NumericsIdle /\ OptionsIdle

JoseInitial ==
  /\ JoseInit
  /\ ValuesIdle /\ LanguagesIdle /\ Rfc1751Idle /\ Asn1Idle /\ NumericsIdle /\ OptionsIdle

Rfc1751Initial ==
  /\ Rfc1751Init
  /\ ValuesIdle /\ LanguagesIdle /\ JoseIdle /\ Asn1Idle /\ NumericsIdle /\ OptionsIdle

Asn1Initial ==
  /\ Asn1Init
  /\ ValuesIdle /\ LanguagesIdle /\ JoseIdle /\ Rfc1751Idle /\ NumericsIdle /\ OptionsIdle

NumericsInitial ==
  /\ NumericsInit
  /\ ValuesIdle /\ LanguagesIdle /\ JoseIdle /\ Rfc1751Idle /\ Asn1Idle /\ OptionsIdle

OptionsInitial ==
  /\ Init
  /\ ValuesIdle /\ LanguagesIdle /\ JoseIdle /\ Rfc1751Idle /\ Asn1Idle /\ NumericsIdle

PureInit ==
  \/ chain = "values"    /\ ValuesInitial
  \/ chain = "languages" /\ LanguagesInitial
  \/ chain = "tokens"    /\ JoseInitial
  \/ chain = "words"     /\ Rfc1751Initial
  \/ chain = "der"       /\ Asn1Initial
  \/ chain = "indices"   /\ NumericsInitial
  \/ chain = "options"   /\ OptionsInitial

Converts ==
  /\ chain = "values" /\ ValuesNext
  /\ UNCHANGED <<languagesVars, joseVars, rfc1751Vars, asn1Vars, numericsVars, vars, chain>>

Edits ==
  /\ chain = "languages" /\ LanguagesNext
  /\ UNCHANGED <<valuesVars, joseVars, rfc1751Vars, asn1Vars, numericsVars, vars, chain>>

Signs ==
  /\ chain = "tokens" /\ JoseNext
  /\ UNCHANGED <<valuesVars, languagesVars, rfc1751Vars, asn1Vars, numericsVars, vars, chain>>

WritesDown ==
  /\ chain = "words" /\ Rfc1751Next
  /\ UNCHANGED <<valuesVars, languagesVars, joseVars, asn1Vars, numericsVars, vars, chain>>

Walks ==
  /\ chain = "der" /\ Asn1Next
  /\ UNCHANGED <<valuesVars, languagesVars, joseVars, rfc1751Vars, numericsVars, vars, chain>>

WrapsAround ==
  /\ chain = "indices" /\ NumericsNext
  /\ UNCHANGED <<valuesVars, languagesVars, joseVars, rfc1751Vars, asn1Vars, vars, chain>>

Evaluates ==
  /\ chain = "options" /\ Next
  /\ UNCHANGED <<valuesVars, languagesVars, joseVars, rfc1751Vars, asn1Vars, numericsVars, chain>>

PureNext == Converts \/ Edits \/ Signs \/ WritesDown \/ Walks \/ WrapsAround \/ Evaluates

PureSpec == PureInit /\ [][PureNext]_pureVars
=============================================================================
