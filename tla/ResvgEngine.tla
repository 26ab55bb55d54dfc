----------------------------- MODULE ResvgEngine -----------------------------
(***************************************************************************)
(* The resvg engine behind svg_render: the same per-call pipeline as regex *)
(* and typst, but the set-up is the body of a sync.Once whose error is     *)
(* kept in initErr and returned to every later call.  The runtime is not   *)
(* configured WithCloseOnContextDone, so only the set-up can be hurt by a  *)
(* done context.  An SVG the shim cannot render comes back as a null       *)
(* pointer: the request's own error, "userError" here.                     *)
(***************************************************************************)
EXTENDS WasmCall

ASSUME ResvgAssumption == CloseOnDone = FALSE

VARIABLES
  running,   \* the caller inside initOnce.Do's function, or None
  onceDone,  \* initOnce has completed
  initErr    \* the latched set-up error is not nil

onceVars == <<running, onceDone, initErr>>
vars == <<pc, ctx, want, empty, struck, outcome, deferred, held, written, reply,
          mods, runtime, compiled, open, faults, running, onceDone, initErr>>

SetupSteps == {"once", "wasi", "compile", "publish", "done"}

Labels == {"idle"} \cup SetupSteps \cup CallSteps

TypeOK ==
  /\ CallTypeOK
  /\ pc \in [Callers -> Labels]
  /\ running \in Callers \cup {None}
  /\ onceDone \in BOOLEAN
  /\ initErr \in BOOLEAN

Init ==
  /\ CallInit
  /\ running = None
  /\ onceDone = FALSE
  /\ initErr = FALSE

-----------------------------------------------------------------------------

setupUnchanged == <<ctx, want, empty, deferred, held, written, reply, mods>>

Start(c) ==
  /\ \E w \in Deserved, e \in SUBSET (1 .. Inputs), x \in {"live", "done"} :
        Call(c, w, e, x, "once")
  /\ UNCHANGED onceVars

(* sync.Once: the first caller runs the function, in which it creates a    *)
(* runtime; the others wait for it to complete and do not run it again.    *)
EnterOnce(c) ==
  /\ pc[c] = "once"
  /\ \/ /\ onceDone
        /\ Goto(c, "done")
        /\ UNCHANGED <<running, open>>
     \/ /\ ~onceDone
        /\ running = None
        /\ running' = c
        /\ open' = open \cup {c}
        /\ Goto(c, "wasi")
  /\ UNCHANGED <<setupUnchanged, struck, outcome, faults, runtime, compiled,
                 onceDone, initErr>>

(* Mutant of LeaveOnce: the waiters are never released.                    *)
LeaveOnceSilently == UNCHANGED <<onceDone, running>>

(* The function has returned: Do is complete and its waiters go on.        *)
LeaveOnce == onceDone' = TRUE /\ running' = None

(* Mutant of SetupFails: an error path without rt.Close.                   *)
SetupFailsOpen(c) ==
  /\ \/ ctx[c] = "done" /\ UNCHANGED faults
     \/ faults > 0 /\ faults' = faults - 1
  /\ struck' = [struck EXCEPT ![c] = TRUE]
  /\ initErr' = TRUE
  /\ UNCHANGED open
  /\ Goto(c, "done")
  /\ LeaveOnce

(* The error is stored for the process, the runtime closed.                *)
SetupFails(c) ==
  /\ \/ ctx[c] = "done" /\ UNCHANGED faults
     \/ faults > 0 /\ faults' = faults - 1
  /\ struck' = [struck EXCEPT ![c] = TRUE]
  /\ initErr' = TRUE
  /\ open' = open \ {c}
  /\ Goto(c, "done")
  /\ LeaveOnce

InstantiateWASI(c) ==
  /\ pc[c] = "wasi"
  /\ \/ Goto(c, "compile") /\ UNCHANGED <<onceVars, open, struck, faults>>
     \/ SetupFails(c)
  /\ UNCHANGED <<setupUnchanged, outcome, runtime, compiled>>

CompileModule(c) ==
  /\ pc[c] = "compile"
  /\ \/ Goto(c, "publish") /\ UNCHANGED <<onceVars, open, struck, faults>>
     \/ SetupFails(c)
  /\ UNCHANGED <<setupUnchanged, outcome, runtime, compiled>>

Publish(c) ==
  /\ pc[c] = "publish"
  /\ runtime' = c
  /\ compiled' = c
  /\ LeaveOnce
  /\ Goto(c, "done")
  /\ UNCHANGED <<setupUnchanged, struck, outcome, faults, open, initErr>>

(* return initErr                                                          *)
AfterOnce(c) ==
  /\ pc[c] = "done"
  /\ IF initErr
     THEN outcome' = [outcome EXCEPT ![c] = "fault"] /\ Goto(c, "unwind")
     ELSE UNCHANGED outcome /\ Goto(c, "inst")
  /\ UNCHANGED <<setupUnchanged, struck, faults, runtime, compiled, open, onceVars>>

Setup(c) ==
  \/ InstantiateWASI(c)
  \/ CompileModule(c)
  \/ Publish(c)
  \/ AfterOnce(c)

Next ==
  \E c \in Callers :
    \/ Start(c)
    \/ Cancel(c) /\ UNCHANGED onceVars
    \/ EnterOnce(c)
    \/ Setup(c)
    \/ CallStep(c) /\ UNCHANGED onceVars

Spec == Init /\ [][Next]_vars

(* Once entered, Do releases its waiters only when it completes, and then  *)
(* for good: weak fairness of the waiters is enough.                       *)
FairSpec ==
  /\ Spec
  /\ \A c \in Callers :
       WF_vars(EnterOnce(c) \/ Setup(c) \/ (CallStep(c) /\ UNCHANGED onceVars))

-----------------------------------------------------------------------------

(* A call that gets past the set-up finds a usable engine, and the set-up  *)
(* leaves a runtime open only when it published it: the package's comment  *)
(* that the module is compiled once for the process and reused.            *)
OnceIsAllOrNothing ==
  /\ \A c \in Callers : pc[c] \in CallSteps \ {"unwind"} => EngineUsable
  /\ onceDone => open = IF initErr THEN {} ELSE {compiled}

(* A caller that waits for another caller's set-up is released by it, even *)
(* when it fails, and every call returns.                                  *)
CallsReturn == \A c \in Callers : pc[c] # "idle" ~> pc[c] = "idle"

(* No call is refused because of what happened to another one: the rule    *)
(* documents/typst/engine.go states for these set-ups, "a                  *)
(* transient/cancelled first call must not disable the family for the      *)
(* process".                                                               *)
FirstCallDoesNotDisable ==
  \A c \in Callers : outcome[c] = "fault" => struck[c]

(* What the one set-up left is there for good: no later call repeats it,   *)
(* closes its runtime or clears its error.                                 *)
SettledForGood ==
  [][onceDone => UNCHANGED <<onceVars, runtime, compiled, open>>]_vars

-----------------------------------------------------------------------------
(* The inductive invariant behind the safety properties; the parts that    *)
(* speak of one call are WasmCall's.                                       *)

(* Only the caller inside Do's function is in the set-up, and nothing is   *)
(* published, latched or left open before it is over.                      *)
SetupInv ==
  /\ \A c \in Callers :
       /\ pc[c] \in {"wasi", "compile", "publish"} <=> running = c
       /\ pc[c] \in {"done"} \cup (CallSteps \ {"unwind"}) => onceDone
       /\ pc[c] \in CallSteps \ {"unwind"} => ~initErr
  /\ ~onceDone =>
       /\ ~initErr /\ compiled = None
       /\ open = IF running = None THEN {} ELSE {running}
  /\ onceDone =>
       /\ running = None
       /\ open = IF initErr THEN {} ELSE {compiled}
       /\ initErr \/ EngineUsable

IInv ==
  /\ TypeOK
  /\ SetupInv
  /\ \A c \in Callers :
       /\ AnswerInv(c)
       /\ pc[c] \in SetupSteps => outcome[c] = "none"
       /\ MemoryInv(c)
=============================================================================
