-------------------------------- MODULE Calls --------------------------------
(***************************************************************************)
(* The two functions that run somebody else's code inside a call of their  *)
(* own and keep no engine for it: slugify, whose library reads a global    *)
(* that concurrent calls share, and jq, whose program may never end.  They *)
(* share no state, so a behaviour has one of the two: any number of calls  *)
(* of slugify at once, or one call of jq.                                  *)
(***************************************************************************)
EXTENDS Slugify, JqRun

VARIABLE called  \* "slugify" or "jq"

callsVars == <<called, vars, jqVars>>

(* No call of jq is under way: the last one has returned.                  *)
JqIdle ==
  /\ call = [unknown |-> TRUE, options |-> "none", convertible |-> TRUE, program |-> "ok"]
  /\ stage = "done" /\ answer = Result("unknown")
  /\ results = <<>> /\ emitted = <<>> /\ ended = ""
  /\ timer = "off" /\ ctxDone = FALSE

CallsInit ==
  /\ Init
  /\ \/ called = "slugify" /\ JqIdle
     \/ called = "jq" /\ JqInit

CallsNext ==
  \/ called = "slugify" /\ Next /\ UNCHANGED <<called, jqVars>>
  \/ called = "jq" /\ JqNext /\ UNCHANGED <<called, vars>>

CallsSpec ==
  CallsInit /\ [][CallsNext]_callsVars /\ SlugifyFairness /\ Fairness
=============================================================================
