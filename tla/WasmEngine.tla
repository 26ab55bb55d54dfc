----------------------------- MODULE WasmEngine -----------------------------
(***************************************************************************)
(* The regex and typst engines: ensureCompiled guards the package globals  *)
(* runtime and compiled with a mutex and retries a failed set-up on the    *)
(* next call, in front of the per-call pipeline of WasmCall.  The two      *)
(* packages hold the same code line for line; they differ in the number of *)
(* inputs a call copies into its module.                                   *)
(***************************************************************************)
EXTENDS WasmCall

VARIABLE initMu  \* the caller that holds initMu, or None

vars == <<pc, ctx, want, empty, struck, outcome, deferred, held, written, reply,
          mods, runtime, compiled, open, faults, initMu>>

SetupSteps == {"lock", "check", "wasi", "compile", "pubrt", "pubcomp", "unlock"}

Labels == {"idle"} \cup SetupSteps \cup CallSteps

TypeOK ==
  /\ CallTypeOK
  /\ pc \in [Callers -> Labels]
  /\ initMu \in Callers \cup {None}

Init == CallInit /\ initMu = None

-----------------------------------------------------------------------------

setupUnchanged == <<ctx, want, empty, deferred, held, written, reply, mods>>

Start(c) ==
  /\ \E w \in Deserved, e \in SUBSET (1 .. Inputs), x \in {"live", "done"} :
        Call(c, w, e, x, "lock")
  /\ UNCHANGED initMu

(* Mutant of Lock: ensureCompiled without its mutex.                       *)
LockWithoutMutex(c) ==
  /\ pc[c] = "lock"
  /\ initMu' = c
  /\ Goto(c, "check")
  /\ UNCHANGED <<setupUnchanged, struck, outcome, faults, runtime, compiled, open>>

(* initMu.Lock()                                                           *)
Lock(c) ==
  /\ pc[c] = "lock"
  /\ initMu = None
  /\ initMu' = c
  /\ Goto(c, "check")
  /\ UNCHANGED <<setupUnchanged, struck, outcome, faults, runtime, compiled, open>>

(* Mutant of Check: every call sets the engine up again.                   *)
CheckRebuilds(c) ==
  /\ pc[c] = "check"
  /\ Goto(c, "wasi")
  /\ open' = open \cup {c}
  /\ UNCHANGED <<setupUnchanged, struck, outcome, faults, runtime, compiled, initMu>>

(* Already compiled: nothing to do.  Otherwise a runtime is created.       *)
Check(c) ==
  /\ pc[c] = "check"
  /\ IF compiled # None
     THEN Goto(c, "unlock") /\ UNCHANGED open
     ELSE Goto(c, "wasi") /\ open' = open \cup {c}
  /\ UNCHANGED <<setupUnchanged, struck, outcome, faults, runtime, compiled, initMu>>

(* Mutant of SetupFails: an error path without rt.Close.                   *)
SetupFailsOpen(c) ==
  /\ Fail(c, TRUE, "unlock")
  /\ UNCHANGED open

(* A failed set-up closes the runtime and caches nothing.                  *)
SetupFails(c) ==
  /\ Fail(c, TRUE, "unlock")
  /\ open' = open \ {c}

InstantiateWASI(c) ==
  /\ pc[c] = "wasi"
  /\ \/ Goto(c, "compile") /\ UNCHANGED <<open, struck, outcome, faults>>
     \/ SetupFails(c)
  /\ UNCHANGED <<setupUnchanged, runtime, compiled, initMu>>

CompileModule(c) ==
  /\ pc[c] = "compile"
  /\ \/ Goto(c, "pubrt") /\ UNCHANGED <<open, struck, outcome, faults>>
     \/ SetupFails(c)
  /\ UNCHANGED <<setupUnchanged, runtime, compiled, initMu>>

(* runtime, compiled = rt, c: two writes of two globals.                   *)
PublishRuntime(c) ==
  /\ pc[c] = "pubrt"
  /\ runtime' = c
  /\ Goto(c, "pubcomp")
  /\ UNCHANGED <<setupUnchanged, struck, outcome, faults, compiled, open, initMu>>

PublishCompiled(c) ==
  /\ pc[c] = "pubcomp"
  /\ compiled' = c
  /\ Goto(c, "unlock")
  /\ UNCHANGED <<setupUnchanged, struck, outcome, faults, runtime, open, initMu>>

(* Mutant of Unlock: Unlock is a statement at the end of ensureCompiled    *)
(* rather than a defer, and the early returns miss it.                     *)
UnlockOnSuccessOnly(c) ==
  /\ pc[c] = "unlock"
  /\ initMu' = IF outcome[c] = "fault" THEN initMu ELSE None
  /\ Goto(c, IF outcome[c] = "fault" THEN "unwind" ELSE "inst")
  /\ UNCHANGED <<setupUnchanged, struck, outcome, faults, runtime, compiled, open>>

(* defer initMu.Unlock(), and the caller's return of ensureCompiled's      *)
(* error.                                                                  *)
Unlock(c) ==
  /\ pc[c] = "unlock"
  /\ initMu' = None
  /\ Goto(c, IF outcome[c] = "fault" THEN "unwind" ELSE "inst")
  /\ UNCHANGED <<setupUnchanged, struck, outcome, faults, runtime, compiled, open>>

Setup(c) ==
  \/ Check(c)
  \/ InstantiateWASI(c)
  \/ CompileModule(c)
  \/ PublishRuntime(c)
  \/ PublishCompiled(c)
  \/ Unlock(c)

Next ==
  \E c \in Callers :
    \/ Start(c)
    \/ Cancel(c) /\ UNCHANGED initMu
    \/ Lock(c)
    \/ Setup(c)
    \/ CallStep(c) /\ UNCHANGED initMu

Spec == Init /\ [][Next]_vars

(* A goroutine that can run does; sync.Mutex hands the lock to the longest *)
(* waiter once it has starved for a millisecond, so no waiter is passed    *)
(* over forever.  Nothing obliges Terraform to call or to cancel.          *)
Fairness ==
  \A c \in Callers :
    /\ WF_vars(Setup(c) \/ (CallStep(c) /\ UNCHANGED initMu))
    /\ SF_vars(Lock(c))

FairSpec == Spec /\ Fairness

-----------------------------------------------------------------------------
(* Safety                                                                  *)

(* Whoever is past ensureCompiled finds globals that belong together and   *)
(* name a runtime nobody closed, although it reads them without initMu.    *)
PublishedIsUsable ==
  \A c \in Callers : pc[c] \in CallSteps \ {"unwind"} => EngineUsable

(* A set-up that failed leaves no runtime behind: the only open runtimes   *)
(* are the published one and the one that is being set up right now, of    *)
(* which there is at most one.                                             *)
Building(c) == pc[c] \in {"wasi", "compile", "pubrt", "pubcomp"}

NoRuntimeLeak ==
  /\ open \subseteq {compiled} \cup {c \in Callers : Building(c)}
  /\ \A c, d \in open : c = d

(* A call reports an internal fault only if one of its own operations      *)
(* failed: another call's cancelled set-up is never served from a cache,   *)
(* and a value or an argument error is the one its own request deserves.   *)
FaultsAreOwn ==
  \A c \in Callers :
    /\ outcome[c] = "fault" => struck[c]
    /\ outcome[c] = "value" => want[c] = "value"
    /\ outcome[c] = "argError" => want[c] = "userError"

(* Once the engine is published it is never rebuilt or torn down.          *)
PublishedForGood ==
  [][compiled # None => UNCHANGED <<runtime, compiled, open>>]_vars

-----------------------------------------------------------------------------
(* The inductive invariant behind the safety properties: the globals here, *)
(* the verdict and the memory of a call in WasmCall.                       *)

(* The globals: only the holder of initMu touches them, and compiled, the  *)
(* flag every other caller tests, is written last.                         *)
SetupInv ==
  /\ \A c \in Callers :
       /\ pc[c] \in SetupSteps \ {"lock"} => initMu = c
       /\ Building(c) => compiled = None
       /\ pc[c] = "pubcomp" => runtime = c
       /\ Building(c) => c \in open
       /\ pc[c] = "unlock" /\ outcome[c] # "fault" => compiled # None
       /\ pc[c] \in CallSteps \ {"unwind"} => compiled # None
  /\ \A c \in open : c = compiled \/ Building(c)
  /\ compiled # None => EngineUsable

(* A caller's verdict, from its first step to its return: a fault is one   *)
(* that struck this very call, in the set-up too.                          *)
OutcomeInv(c) ==
  /\ AnswerInv(c)
  /\ outcome[c] = "fault" => struck[c]
  /\ pc[c] \in SetupSteps \ {"unlock"} => outcome[c] = "none"
  /\ pc[c] = "unlock" => outcome[c] \in {"none", "fault"}

IInv ==
  /\ TypeOK
  /\ SetupInv
  /\ \A c \in Callers : OutcomeInv(c) /\ MemoryInv(c)

-----------------------------------------------------------------------------
(* The engine implements the service it promises.                          *)

Service == INSTANCE EngineService WITH
             busy <- {c \in Callers : pc[c] # "idle"}

(* The safety half of the promise, which the proofs establish for any set  *)
(* of callers.                                                             *)
ServiceSafe == Service!Safe

(* The whole promise: with it, every call returns, with a done context, a  *)
(* failed set-up, or a trap as well as without.                            *)
ServiceSpec == Service!Spec
=============================================================================
