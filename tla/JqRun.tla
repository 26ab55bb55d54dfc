------------------------------- MODULE JqRun -------------------------------
(***************************************************************************)
(* transform/jq.go: one call of jq.  The program is somebody else's and    *)
(* may emit values for ever, fail, or compute without ever emitting; the   *)
(* call bounds it by a deadline, a number of values and a nesting depth.   *)
(* The deadline and the caller's cancellation may come at any point.       *)
(*                                                                         *)
(* A value is its nesting depth and whether its numbers are finite.        *)
(***************************************************************************)
EXTENDS Integers, Sequences

CONSTANTS
  MaxOutputs,  \* jqMaxOutputs
  MaxDepth     \* transformMaxDepth

ASSUME LimitsAssumption == MaxOutputs \in Nat /\ MaxDepth \in Nat \ {0}

VARIABLES
  call,     \* what the call was made with
  stage,    \* "args", "parse", "compile", "loop", "convert", "done"
  results,  \* results
  emitted,  \* every value the program has emitted
  ended,    \* how the program ended, if it did: "", "end", "error"
  timer,    \* the deadline: "off", "armed"
  ctxDone,  \* the context given to gojq is done
  answer    \* resp: "none", "unknown", "value", or an error

jqVars == <<call, stage, results, emitted, ended, timer, ctxDone, answer>>

-----------------------------------------------------------------------------

(* The options: none, a good object, or one of the things refused by       *)
(* optionsutil ("two" and "scalar") and by jqOptions ("key" and "vars").   *)
JqCall == [unknown : BOOLEAN,
           options : {"none", "ok", "two", "scalar", "key", "vars"},
           convertible : BOOLEAN,
           program : {"ok", "unparsable", "uncompilable"}]

Value == [depth : 0 .. MaxDepth, finite : BOOLEAN]

(* The arguments an error can name: value, program and options.            *)
ArgError(arg) == [error |-> TRUE, arg |-> arg]
Result(kind) == [error |-> FALSE, arg |-> kind]
FuncError == [error |-> TRUE, arg |-> "none"]

Answers ==
  {Result(k) : k \in {"none", "unknown", "value"}}
    \cup {ArgError(a) : a \in {"value", "program", "options"}} \cup {FuncError}

JqInit ==
  /\ call \in JqCall
  /\ stage = "args"
  /\ results = <<>> /\ emitted = <<>> /\ ended = ""
  /\ timer = "off"
  /\ ctxDone = FALSE
  /\ answer = Result("none")

Respond(a) == stage' = "done" /\ answer' = a

(* Run, up to runJQ; optionsutil takes the options to be argument 1.       *)
Arguments ==
  /\ stage = "args"
  /\ CASE call.unknown -> Respond(Result("unknown"))
       [] ~call.unknown /\ call.options \in {"two", "scalar"} -> Respond(ArgError("program"))
       [] ~call.unknown /\ call.options \in {"key", "vars"} -> Respond(ArgError("options"))
       [] ~call.unknown /\ call.options \in {"none", "ok"} ->
            IF call.convertible THEN stage' = "parse" /\ UNCHANGED answer
            ELSE Respond(ArgError("value"))
  /\ UNCHANGED <<call, results, emitted, ended, timer, ctxDone>>

(* Mutant of Parse: the program runs under the caller's context alone.     *)
ParseUnbounded ==
  /\ stage = "parse"
  /\ IF call.program = "unparsable" THEN Respond(ArgError("program"))
     ELSE stage' = "compile" /\ UNCHANGED answer
  /\ UNCHANGED <<call, results, emitted, ended, timer, ctxDone>>

(* gojq.Parse, then context.WithTimeout.                                   *)
Parse ==
  /\ stage = "parse"
  /\ IF call.program = "unparsable" THEN Respond(ArgError("program")) /\ UNCHANGED timer
     ELSE stage' = "compile" /\ timer' = "armed" /\ UNCHANGED answer
  /\ UNCHANGED <<call, results, emitted, ended, ctxDone>>

Compile ==
  /\ stage = "compile"
  /\ IF call.program = "uncompilable" THEN Respond(ArgError("program"))
     ELSE stage' = "loop" /\ UNCHANGED answer
  /\ UNCHANGED <<call, results, emitted, ended, timer, ctxDone>>

(* Mutant of Emit: past the limit the loop stops, with what it has.        *)
EmitTruncating(v) ==
  /\ stage = "loop"
  /\ emitted' = Append(emitted, v)
  /\ IF Len(results) >= MaxOutputs
     THEN stage' = "convert" /\ UNCHANGED <<results, answer>>
     ELSE results' = Append(results, v) /\ UNCHANGED <<stage, answer>>
  /\ UNCHANGED <<call, ended, timer, ctxDone>>

(* A mutant of Emit: the limit is one too low.                             *)
EmitOneShort(v) ==
  /\ stage = "loop"
  /\ emitted' = Append(emitted, v)
  /\ IF Len(results) + 1 >= MaxOutputs \/ v.depth >= MaxDepth
     THEN Respond(ArgError("program")) /\ UNCHANGED results
     ELSE results' = Append(results, v) /\ UNCHANGED <<stage, answer>>
  /\ UNCHANGED <<call, ended, timer, ctxDone>>

(* The program emits v: the limit, then normalizeFromGojq.                 *)
Emit(v) ==
  /\ stage = "loop"
  /\ emitted' = Append(emitted, v)
  /\ IF Len(results) >= MaxOutputs \/ v.depth >= MaxDepth
     THEN Respond(ArgError("program")) /\ UNCHANGED results
     ELSE results' = Append(results, v) /\ UNCHANGED <<stage, answer>>
  /\ UNCHANGED <<call, ended, timer, ctxDone>>

(* The program comes to its end, or emits an error.                        *)
End(how) ==
  /\ stage = "loop"
  /\ ended' = how
  /\ IF how = "error" THEN Respond(ArgError("program"))
     ELSE stage' = "convert" /\ UNCHANGED answer
  /\ UNCHANGED <<call, results, emitted, timer, ctxDone>>

(* The deadline passes, or the caller's context is done.                   *)
Interrupt ==
  /\ stage # "done" /\ ~ctxDone
  /\ ctxDone' = TRUE
  /\ UNCHANGED <<call, stage, results, emitted, ended, timer, answer>>

(* gojq looks at its context between two instructions and emits its error. *)
Notice ==
  /\ stage = "loop" /\ ctxDone
  /\ Respond(ArgError("program"))
  /\ UNCHANGED <<call, results, emitted, ended, timer, ctxDone>>

(* jsonToTerraform of the list: what was one value is now an element, one  *)
(* level deeper.                                                           *)
Convert ==
  /\ stage = "convert"
  /\ IF \E i \in DOMAIN results : results[i].depth + 1 >= MaxDepth \/ ~results[i].finite
     THEN Respond(FuncError) ELSE Respond(Result("value"))
  /\ UNCHANGED <<call, results, emitted, ended, timer, ctxDone>>

JqNext ==
  \/ Arguments \/ Parse \/ Compile \/ Convert
  \/ \E v \in Value : Emit(v)
  \/ \E how \in {"end", "error"} : End(how)
  \/ Interrupt \/ Notice

(* The code runs on, an armed deadline passes, and gojq does look at its   *)
(* context; nothing is assumed of the program.                             *)
Fairness ==
  /\ WF_jqVars(Arguments \/ Parse \/ Compile \/ Convert)
  /\ WF_jqVars(timer = "armed" /\ Interrupt)
  /\ WF_jqVars(Notice)

JqSpec == JqInit /\ [][JqNext]_jqVars /\ Fairness

-----------------------------------------------------------------------------

JqTypeOK ==
  /\ call \in JqCall
  /\ stage \in {"args", "parse", "compile", "loop", "convert", "done"}
  /\ results \in Seq(Value) /\ emitted \in Seq(Value)
  /\ Len(results) <= MaxOutputs
  /\ ended \in {"", "end", "error"}
  /\ timer \in {"off", "armed"} /\ ctxDone \in BOOLEAN
  /\ answer \in Answers
  /\ stage = "done" <=> answer # Result("none")

(* A list that is returned is the program's whole output in order: neither *)
(* the deadline nor a limit nor a value that cannot be represented cuts it *)
(* short without an error, and the list is within the limit.               *)
CompleteOrError ==
  answer = Result("value") =>
    ended = "end" /\ results = emitted /\ Len(results) <= MaxOutputs

(* And a call is refused only for a reason: a bad argument, a failing      *)
(* program, a deadline, more than MaxOutputs values, or a value that the   *)
(* result cannot hold.  Exactly MaxOutputs values are fine.                *)
ErrorsAreEarned ==
  answer.error =>
    \/ call.options \notin {"none", "ok"} \/ ~call.convertible
    \/ call.program # "ok"
    \/ ended = "error" \/ ctxDone
    \/ Len(emitted) > MaxOutputs
    \/ \E i \in DOMAIN emitted : ~emitted[i].finite \/ emitted[i].depth + 1 >= MaxDepth

(* Every call returns, whatever the program does: "A program that runs     *)
(* longer than 30 seconds is cancelled and returns an error, guarding      *)
(* against non-terminating programs" (descriptions/jq.md).                 *)
CallReturns == <>(stage = "done")

-----------------------------------------------------------------------------
(* The inductive invariant behind the two.                                 *)

(* Until it answers, the call has kept all that was emitted, and nothing   *)
(* has been emitted before the loop.                                       *)
Kept ==
  stage # "done" =>
    /\ answer = Result("none")
    /\ results = emitted
    /\ ended = IF stage = "convert" THEN "end" ELSE ""

(* Past the arguments, they and the program were good.                     *)
Checked ==
  /\ stage \in {"parse", "compile", "loop", "convert"} =>
       ~call.unknown /\ call.options \in {"none", "ok"} /\ call.convertible
  /\ stage = "compile" => call.program # "unparsable"
  /\ stage \in {"loop", "convert"} => call.program = "ok"

JqInv == JqTypeOK /\ Kept /\ Checked /\ CompleteOrError /\ ErrorsAreEarned
=============================================================================
