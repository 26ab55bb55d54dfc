------------------------------ MODULE PlanApply ------------------------------
(* One call of a function with an options object, evaluated twice as        *)
(* Terraform does: while planning, when parts of the arguments may not be   *)
(* known yet, and while applying, with the same arguments all known.  A     *)
(* function answers "unknown" (to be asked again), refuses, or settles what *)
(* its options mean; the rest of its work is a function of those settings   *)
(* and is not modelled here.  Go ranges over the options in an order that   *)
(* changes from one evaluation to the next.                                 *)
EXTENDS OptionTable

CONSTANTS
  Functions,  \* the records of OptionTable under study
  Exposed,    \* those whose arguments may be known only in part
  MaxGiven    \* the most options given in one call

ASSUME TableAssumption ==
  /\ Exposed \subseteq Functions
  /\ MaxGiven \in Nat

Stray == "another key"
Forms == {"object", "two objects", "not an object", "null object"}

\* Values as the program sees them: the wrong type, an error of the right
\* type, a typed null, the zero value, any other value.
Final == {"wrong", "bad", "null", "zero", "usual"}
\* Unknown of the right type, unknown of no type yet, known with an unknown
\* element or attribute inside.
Holes == {"unknown", "untyped", "holed"}

Finals(f, k) ==
  IF k = Stray THEN {"usual"}
  ELSE IF k \in f.inputs \cup f.trees THEN {"zero", "usual"}
  ELSE {"wrong", "zero", "usual"}
         \cup (IF k \in f.picky THEN {"bad"} ELSE {})
         \cup (IF k \in f.unguarded THEN {} ELSE {"null"})

\* What the plan may see of a part that will turn out to be v.  Terraform
\* itself answers for a call with a whole argument unknown.
Plans(f, k, v) ==
  {v} \cup
  IF f \notin Exposed THEN {}
  ELSE (IF k \in f.inputs THEN {} ELSE {"untyped"})
         \cup (IF k \in f.inputs \/ (v = "wrong") THEN {} ELSE {"unknown"})
         \cup (IF /\ k \in f.lists \cup f.objects \cup f.trees \cup {Stray}
                  /\ v \in {"bad", "usual"}
               THEN {"holed"} ELSE {})

-----------------------------------------------------------------------------
VARIABLES
  fn,      \* the function called
  form,    \* what was passed for the options
  given,   \* the options and arguments, as they are when applying
  shown,   \* the same as the plan sees them
  turn,    \* "plan", "apply", or "over"
  reading, \* whether this evaluation has begun to read the options
  todo,    \* the parts it has still to read
  got,     \* the settings it has read, as pairs of a part and a value
  answer   \* the answers given so far

vars == <<fn, form, given, shown, turn, reading, todo, got, answer>>

NoAnswer == [kind |-> "none", got |-> {}]
Unknown == [kind |-> "unknown", got |-> {}]
Refused == [kind |-> "refused", got |-> {}]
Settled(s) == [kind |-> "settled", got |-> s]

Init ==
  /\ fn \in Functions
  /\ form \in Forms
  /\ \E K \in {S \in SUBSET (fn.keys \cup {Stray}) :
                 /\ Cardinality(S) <= MaxGiven
                 /\ form # "object" => S = {} } :
       /\ given \in [K \cup fn.inputs -> Final]
       /\ \A k \in DOMAIN given : given[k] \in Finals(fn, k)
       /\ shown \in [K \cup fn.inputs -> Final \cup Holes]
       /\ \A k \in DOMAIN given : shown[k] \in Plans(fn, k, given[k])
  /\ turn = "plan" /\ reading = FALSE /\ todo = {} /\ got = {}
  /\ answer = [plan |-> NoAnswer, apply |-> NoAnswer]

Seen == IF turn = "plan" THEN shown ELSE given

\* The search for unknown values ahead of everything else (as a bug, one
\* that is given the value and not the options).
SearchedInputs(f, k) == f.defers = "all" /\ k \in f.inputs

Searched(f, k) == \/ f.defers = "all"
                  \/ /\ f.defers = "options"
                     /\ k \notin f.inputs

\* It enters lists and objects (as a bug, it looks at the parts themselves).
NoticedShallow(f, v) == v \in {"unknown", "untyped"}

Noticed(f, v) == \/ v \in {"unknown", "untyped"}
                 \/ /\ v = "holed"
                    /\ ~f.shallow

Deferred(f, seen) == \E k \in DOMAIN seen : Searched(f, k) /\ Noticed(f, seen[k])

\* No options, one object, or what the family takes for no options.
FormAccepted(f) == \/ form = "object"
                   \/ /\ form = "null object"
                      /\ f.legacy

\* The value an accessor returns: that of a null or of an unknown is zero.
Setting(v) == IF v \in {"null", "unknown"} THEN "zero" ELSE v

Accepts(f, k, v) ==
  /\ k = Stray => f.legacy
  /\ k \notin f.trees \cup {Stray} => v \notin {"wrong", "bad", "untyped"}
  /\ v = "null" => k \in f.nulls
  /\ v = "unknown" => k \notin f.refuses \ f.lists
  /\ v = "holed" => k \notin f.refuses
  /\ Setting(v) = "zero" => k \notin f.nonzero

-----------------------------------------------------------------------------
Reply(a) ==
  /\ answer' = [answer EXCEPT ![turn] = a]
  /\ turn' = IF turn = "plan" THEN "apply" ELSE "over"
  /\ reading' = FALSE /\ todo' = {} /\ got' = {}

\* Run up to its loop over the options.
Begin ==
  /\ turn # "over" /\ ~reading
  /\ IF Deferred(fn, Seen) THEN Reply(Unknown)
     ELSE IF ~FormAccepted(fn) THEN Reply(Refused)
     ELSE /\ reading' = TRUE /\ todo' = DOMAIN given /\ got' = {}
          /\ UNCHANGED <<turn, answer>>
  /\ UNCHANGED <<fn, form, given, shown>>

\* The loop takes whichever part is next in this evaluation's order.
Visit(k) ==
  /\ reading /\ k \in todo
  /\ IF ~Accepts(fn, k, Seen[k]) THEN Reply(Refused)
     ELSE /\ got' = got \cup (IF k = Stray THEN {} ELSE {<<k, Setting(Seen[k])>>})
          /\ todo' = IF fn.first /\ k \notin fn.inputs THEN todo \cap fn.inputs
                     ELSE todo \ {k}
          /\ UNCHANGED <<turn, reading, answer>>
  /\ UNCHANGED <<fn, form, given, shown>>

Finish ==
  /\ reading /\ todo = {}
  /\ Reply(Settled(got))
  /\ UNCHANGED <<fn, form, given, shown>>

Next == Begin \/ (\E k \in todo : Visit(k)) \/ Finish

Spec == Init /\ [][Next]_vars

\* What a table of functions F, of which E may be called with arguments known
\* in part, must keep to for its answers to last.  A search that does not
\* enter lists is enough where a list could only be an error.
Honest(F, E) ==
  \A f \in F :
    /\ f.first = FALSE
    /\ f \in E =>
         /\ f.defers = "all"
         /\ f.shallow = TRUE => /\ f.legacy = FALSE
                                /\ f.lists \cup f.objects \cup f.trees = {}

-----------------------------------------------------------------------------
\* Everything is of its type, and an answer settles only parts of the call
\* that the function knows, with values it does not refuse.
Pairs == { <<k, v>> : k \in fn.keys \cup fn.inputs, v \in Final \cup Holes }

TypeOK ==
  /\ fn \in Functions /\ form \in Forms
  /\ DOMAIN given \subseteq fn.keys \cup fn.inputs \cup {Stray}
  /\ DOMAIN shown = DOMAIN given
  /\ \A k \in DOMAIN given : given[k] \in Final /\ shown[k] \in Final \cup Holes
  /\ turn \in {"plan", "apply", "over"} /\ reading \in BOOLEAN
  /\ todo \subseteq DOMAIN given /\ got \subseteq Pairs
  /\ DOMAIN answer = {"plan", "apply"}
  /\ \A t \in DOMAIN answer :
       /\ answer[t].kind \in {"none", "unknown", "refused", "settled"}
       /\ answer[t].got \subseteq { p \in Pairs : Accepts(fn, p[1], p[2]) }

\* What a function settles while planning is what it settles when applying:
\* a value in a plan never changes, and an apply never fails where the plan
\* went through ("the output always matches apply", docs/index.md).
KnownPlanIsFinal ==
  answer["plan"].kind = "settled" /\ answer["apply"].kind # "none"
    => answer["apply"] = answer["plan"]

\* A plan is refused only for what an apply would refuse as well: an argument
\* that is not known yet never stops a plan (every hasUnknown of the code
\* runs before its parser).
RefusalIsFinal ==
  answer["plan"].kind = "refused" /\ answer["apply"].kind # "none"
    => answer["apply"].kind = "refused"
=============================================================================
