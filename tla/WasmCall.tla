------------------------------ MODULE WasmCall ------------------------------
(***************************************************************************)
(* The part of a WASM-backed function call that the three embedded engines *)
(* share (regex/engine.go runOp, documents/typst/engine.go callWasm,       *)
(* image/resvg/renderer.go Render): once the engine is set up, a call      *)
(* instantiates its own module, copies its inputs into that module's       *)
(* memory, runs the exported function, copies the result out and unwinds   *)
(* its deferred cleanups.  The set-up itself differs and lives in          *)
(* WasmEngine (mutex and retry) and ResvgEngine (sync.Once).               *)
(*                                                                         *)
(* A caller is a goroutine in which Terraform evaluates one provider       *)
(* function at a time.  wazero and the Rust shim are external: an external *)
(* operation may fail because the caller's context is done, or because of  *)
(* one of at most MaxFaults host faults (out of memory, a broken build).   *)
(***************************************************************************)
EXTENDS Naturals

CONSTANTS
  Callers,      \* goroutines evaluating provider functions
  None,         \* nil: no runtime, no lock holder
  Inputs,       \* strings a call copies into the module (regex 3, typst 1)
  CloseOnDone,  \* the runtime was configured WithCloseOnContextDone(true)
  MaxFaults     \* bound on the host faults of a behaviour

ASSUME CallAssumption ==
  /\ None \notin Callers
  /\ Inputs \in Nat \ {0}
  /\ CloseOnDone \in BOOLEAN
  /\ MaxFaults \in Nat

VARIABLES
  pc,        \* where each caller is
  ctx,       \* "live" or "done": the context handed to the caller
  want,      \* the reply the caller's request deserves from the engine
  empty,     \* which of the caller's inputs are empty strings
  struck,    \* an external operation of this very call has failed
  outcome,   \* what the call returns: "none" until decided
  deferred,  \* how many of the call's cleanups are registered
  held,      \* the buffers allocated and not freed in the caller's module
  written,   \* whose request each module's memory holds
  reply,     \* the envelope the caller has read back
  mods,      \* the module instances their calls have not closed yet
  runtime,   \* the package's runtime global
  compiled,  \* the package's compiled global, named by its runtime
  open,      \* the runtimes created and not closed, named by their creator
  faults     \* host faults that may still happen

callVars == <<want, empty, struck, outcome, deferred, held, written, reply,
              mods, faults>>

-----------------------------------------------------------------------------

(* The buffers of one call: its inputs 1 .. Inputs, out_len, the result.   *)
OutLen == Inputs + 1
Result == Inputs + 2

Deserved == {"value", "userError"}
Replies  == Deserved \cup {"none", "garbled"}
Outcomes == {"none", "value", "argError", "fault"}

CallSteps == {"inst", "put", "outlen", "run", "collect", "decode", "unwind"}

CallTypeOK ==
  /\ ctx \in [Callers -> {"live", "done"}]
  /\ want \in [Callers -> Deserved]
  /\ empty \in [Callers -> SUBSET (1 .. Inputs)]
  /\ struck \in [Callers -> BOOLEAN]
  /\ outcome \in [Callers -> Outcomes]
  /\ deferred \in [Callers -> Nat]
  /\ held \in [Callers -> SUBSET Nat]
  /\ written \in [Callers -> Deserved \cup {"none"}]
  /\ reply \in [Callers -> Replies]
  /\ mods \subseteq Callers
  /\ runtime \in Callers \cup {None}
  /\ compiled \in Callers \cup {None}
  /\ open \subseteq Callers
  /\ faults \in 0 .. MaxFaults

CallInit ==
  /\ pc = [c \in Callers |-> "idle"]
  /\ ctx = [c \in Callers |-> "live"]
  /\ want = [c \in Callers |-> "value"]
  /\ empty = [c \in Callers |-> {}]
  /\ struck = [c \in Callers |-> FALSE]
  /\ outcome = [c \in Callers |-> "none"]
  /\ deferred = [c \in Callers |-> 0]
  /\ held = [c \in Callers |-> {}]
  /\ written = [c \in Callers |-> "none"]
  /\ reply = [c \in Callers |-> "none"]
  /\ mods = {}
  /\ runtime = None
  /\ compiled = None
  /\ open = {}
  /\ faults = MaxFaults

-----------------------------------------------------------------------------

Goto(c, label) == pc' = [pc EXCEPT ![c] = label]

(* An external operation of caller c returns an error, and the call takes  *)
(* the early return at label.  byCtx says whether a done context can make  *)
(* that operation fail.                                                    *)
Fail(c, byCtx, label) ==
  /\ \/ byCtx /\ ctx[c] = "done" /\ UNCHANGED faults
     \/ faults > 0 /\ faults' = faults - 1
  /\ struck' = [struck EXCEPT ![c] = TRUE]
  /\ outcome' = [outcome EXCEPT ![c] = "fault"]
  /\ Goto(c, label)

(* Terraform calls a function whose request deserves reply w, with a       *)
(* context that may already be cancelled.                                  *)
Call(c, w, e, x, label) ==
  /\ pc[c] = "idle"
  /\ ctx' = [ctx EXCEPT ![c] = x]
  /\ want' = [want EXCEPT ![c] = w]
  /\ empty' = [empty EXCEPT ![c] = e]
  /\ Goto(c, label)
  /\ UNCHANGED <<struck, outcome, reply, deferred, held, written, mods, runtime,
                 compiled, open, faults>>

(* Terraform cancels the plan, or a deadline passes, during the call.      *)
Cancel(c) ==
  /\ pc[c] # "idle"
  /\ ctx[c] = "live"
  /\ ctx' = [ctx EXCEPT ![c] = "done"]
  /\ UNCHANGED <<pc, callVars, runtime, compiled, open>>

(* The globals name a runtime that is still open and a module compiled for *)
(* it: what InstantiateModule needs in order to work at all.               *)
EngineUsable ==
  /\ compiled # None
  /\ runtime = compiled
  /\ runtime \in open

(* The module a call runs in: every call instantiates its own.             *)
ModuleOf(c) == c

(* InstantiateModule, `defer mod.Close` and the check of the exports; with *)
(* nil or mismatched globals it would panic, so no step is given for them. *)
Instantiate(c) ==
  /\ pc[c] = "inst"
  /\ \/ /\ EngineUsable
        /\ mods' = mods \cup {ModuleOf(c)}
        /\ deferred' = [deferred EXCEPT ![c] = 1]
        /\ Goto(c, "put")
        /\ UNCHANGED <<struck, outcome, faults>>
     \/ /\ EngineUsable
        /\ Fail(c, CloseOnDone, "unwind")
        /\ UNCHANGED <<mods, deferred>>
     \/ /\ EngineUsable              \* instantiated, but an export is missing
        /\ Fail(c, FALSE, "unwind")
        /\ mods' = mods \cup {ModuleOf(c)}
        /\ deferred' = [deferred EXCEPT ![c] = 1]
  /\ UNCHANGED <<ctx, want, empty, held, written, reply, runtime, compiled, open>>

(* Mutant of Put: the defer is registered before put's error is checked.   *)
PutDefersFirst(c) ==
  LET i == deferred[c] IN
  /\ pc[c] = "put"
  /\ deferred' = [deferred EXCEPT ![c] = i + 1]
  /\ \/ /\ held' = [held EXCEPT ![c] = IF i \in empty[c] THEN @ ELSE @ \cup {i}]
        /\ written' = [written EXCEPT ![ModuleOf(c)] = want[c]]
        /\ Goto(c, IF i = Inputs THEN "outlen" ELSE "put")
        /\ UNCHANGED <<struck, outcome, faults>>
     \/ /\ i \notin empty[c]
        /\ Fail(c, CloseOnDone, "unwind")
        /\ UNCHANGED <<held, written>>
  /\ UNCHANGED <<ctx, want, empty, reply, mods, runtime, compiled, open>>

(* put(s) and the defer that follows it, for the next input: an empty      *)
(* string allocates nothing and its deferred dealloc(0, 0) is a no-op; an  *)
(* allocation whose write is out of range is left to the module's close.   *)
Put(c) ==
  LET i == deferred[c] IN
  /\ pc[c] = "put"
  /\ \/ /\ held' = [held EXCEPT ![c] = IF i \in empty[c] THEN @ ELSE @ \cup {i}]
        /\ deferred' = [deferred EXCEPT ![c] = i + 1]
        /\ written' = [written EXCEPT ![ModuleOf(c)] = want[c]]
        /\ Goto(c, IF i = Inputs THEN "outlen" ELSE "put")
        /\ UNCHANGED <<struck, outcome, faults>>
     \/ /\ i \notin empty[c]
        /\ Fail(c, CloseOnDone, "unwind")
        /\ held' \in {held, [held EXCEPT ![c] = @ \cup {i}]}
        /\ UNCHANGED <<deferred, written>>
  /\ UNCHANGED <<ctx, want, empty, reply, mods, runtime, compiled, open>>

(* The four bytes in which the shim returns the length of its result.      *)
AllocOutLen(c) ==
  /\ pc[c] = "outlen"
  /\ \/ /\ held' = [held EXCEPT ![c] = @ \cup {OutLen}]
        /\ deferred' = [deferred EXCEPT ![c] = Inputs + 2]
        /\ Goto(c, "run")
        /\ UNCHANGED <<struck, outcome, faults>>
     \/ /\ Fail(c, CloseOnDone, "unwind")
        /\ UNCHANGED <<held, deferred>>
  /\ UNCHANGED <<ctx, want, empty, written, reply, mods, runtime, compiled, open>>

(* A dealloc call: wazero refuses it once the context is done, the error   *)
(* is ignored, and the buffer then lives until the module is closed.       *)
Dealloc(c, b) ==
  held' = IF CloseOnDone /\ ctx[c] = "done"
          THEN held
          ELSE [held EXCEPT ![c] = @ \ {b}]

(* The exported function answers what is in its module's memory, or traps. *)
Run(c) ==
  /\ pc[c] = "run"
  /\ \/ /\ held' = [held EXCEPT ![c] = @ \cup {Result}]
        /\ Goto(c, "collect")
        /\ UNCHANGED <<struck, outcome, faults>>
     \/ /\ Fail(c, CloseOnDone, "unwind")
        /\ UNCHANGED held
  /\ UNCHANGED <<ctx, want, empty, deferred, written, reply, mods, runtime,
                 compiled, open>>

(* out_len and the result are read, copied out of the module's memory and  *)
(* the result freed; a null pointer, a zero length or a range outside the  *)
(* memory is an early return, and an envelope can arrive malformed.        *)
Collect(c) ==
  /\ pc[c] = "collect"
  /\ \/ /\ reply' = [reply EXCEPT ![c] = written[ModuleOf(c)]]
        /\ Dealloc(c, Result)
        /\ Goto(c, "decode")
        /\ UNCHANGED <<struck, outcome, faults>>
     \/ /\ Fail(c, FALSE, "unwind")
        /\ UNCHANGED <<reply, held>>
     \/ /\ faults > 0
        /\ faults' = faults - 1
        /\ struck' = [struck EXCEPT ![c] = TRUE]
        /\ reply' = [reply EXCEPT ![c] = "garbled"]
        /\ Dealloc(c, Result)
        /\ Goto(c, "decode")
        /\ UNCHANGED outcome
  /\ UNCHANGED <<ctx, want, empty, deferred, written, mods, runtime, compiled, open>>

(* Mutant of Classify: the envelope's "e" is not looked at.                *)
ClassifyIgnoringE(r) == IF r = "garbled" THEN "fault" ELSE "value"

(* The envelope's "e" is the user's error and becomes an argument          *)
(* diagnostic, "v" is the value, anything else is an internal fault.       *)
Classify(r) ==
  CASE r = "userError" -> "argError"
    [] r = "value"     -> "value"
    [] OTHER           -> "fault"

Decode(c) ==
  /\ pc[c] = "decode"
  /\ outcome' = [outcome EXCEPT ![c] = Classify(reply[c])]
  /\ Goto(c, "unwind")
  /\ UNCHANGED <<ctx, want, empty, struck, deferred, held, written, reply, mods,
                 runtime, compiled, open, faults>>

(* Mutant of Unwind: no `defer mod.Close`.                                 *)
UnwindWithoutClose(c) ==
  LET d == deferred[c] IN
  /\ pc[c] = "unwind"
  /\ d > 0
  /\ deferred' = [deferred EXCEPT ![c] = d - 1]
  /\ Dealloc(c, d - 1)
  /\ UNCHANGED <<mods, written, pc, ctx, want, empty, struck, outcome, reply, runtime,
                 compiled, open, faults>>

(* One deferred cleanup runs, last registered first: the deallocations,    *)
(* then the module's close, which takes its whole memory with it.          *)
Unwind(c) ==
  LET d == deferred[c] IN
  /\ pc[c] = "unwind"
  /\ d > 0
  /\ deferred' = [deferred EXCEPT ![c] = d - 1]
  /\ IF d > 1
     THEN /\ Dealloc(c, d - 1)
          /\ UNCHANGED <<mods, written>>
     ELSE /\ mods' = mods \ {ModuleOf(c)}
          /\ held' = [held EXCEPT ![c] = {}]
          /\ written' = [written EXCEPT ![ModuleOf(c)] = "none"]
  /\ UNCHANGED <<pc, ctx, want, empty, struck, outcome, reply, runtime, compiled,
                 open, faults>>

(* The call is over: its result goes to Terraform, its locals are gone.    *)
Return(c) ==
  /\ pc[c] = "unwind"
  /\ deferred[c] = 0
  /\ ctx' = [ctx EXCEPT ![c] = "live"]
  /\ want' = [want EXCEPT ![c] = "value"]
  /\ empty' = [empty EXCEPT ![c] = {}]
  /\ struck' = [struck EXCEPT ![c] = FALSE]
  /\ outcome' = [outcome EXCEPT ![c] = "none"]
  /\ reply' = [reply EXCEPT ![c] = "none"]
  /\ Goto(c, "idle")
  /\ UNCHANGED <<deferred, held, written, mods, runtime, compiled, open, faults>>

CallStep(c) ==
  \/ Instantiate(c)
  \/ Put(c)
  \/ AllocOutLen(c)
  \/ Run(c)
  \/ Collect(c)
  \/ Decode(c)
  \/ Unwind(c)
  \/ Return(c)

-----------------------------------------------------------------------------
(* Safety, for either engine                                               *)

(* A call's module is open for as long as the call has buffers in it or    *)
(* cleanups to run in it, so no read, write or dealloc reaches a closed    *)
(* module, and it is closed when the call has returned.                    *)
ModuleOutlivesUse ==
  \A c \in Callers :
    /\ held[c] # {} \/ deferred[c] > 0 => ModuleOf(c) \in mods
    /\ pc[c] = "idle" => ModuleOf(c) \notin mods

(* Every deferred dealloc names a buffer that was allocated and has not    *)
(* been freed, or a null pointer: no double free, no free of garbage.      *)
DeallocsAreOwed ==
  \A c \in Callers : \A b \in 1 .. Inputs + 1 :
    b < deferred[c] /\ b \notin empty[c] => b \in held[c]

(* A value or an argument error is the one the call's own request          *)
(* deserves, never the answer to another goroutine's.                      *)
AnswersAreOwn ==
  \A c \in Callers :
    /\ outcome[c] = "value" => want[c] = "value"
    /\ outcome[c] = "argError" => want[c] = "userError"

-----------------------------------------------------------------------------
(* What one call keeps true at every step, behind these properties.        *)

(* Its verdict is open until a step fails or the envelope is decoded, and  *)
(* the memory the engine answered from holds its own request.              *)
AnswerInv(c) ==
  /\ outcome[c] = "value" => want[c] = "value"
  /\ outcome[c] = "argError" => want[c] = "userError"
  /\ pc[c] \in ({"idle"} \cup CallSteps) \ {"unwind"} => outcome[c] = "none"
  /\ pc[c] = "unwind" => outcome[c] # "none"
  /\ pc[c] = "decode" => \/ reply[c] = want[c]
                         \/ reply[c] = "garbled" /\ struck[c]
  /\ pc[c] \in {"outlen", "run", "collect"} => written[c] = want[c]

(* Its module is open exactly while its close is deferred, and each        *)
(* deferred dealloc still has its buffer.                                  *)
MemoryInv(c) ==
  /\ c \in mods <=> deferred[c] > 0
  /\ held[c] # {} => deferred[c] > 0
  /\ pc[c] \notin CallSteps \ {"inst"} => deferred[c] = 0
  /\ pc[c] = "put" => deferred[c] \in 1 .. Inputs
  /\ pc[c] = "outlen" => deferred[c] = Inputs + 1
  /\ pc[c] \in {"run", "collect", "decode"} => deferred[c] = Inputs + 2
  /\ \A b \in 1 .. Inputs + 1 :
       b < deferred[c] /\ b \notin empty[c] => b \in held[c]
=============================================================================
