-------------------------- MODULE WasmEngine_proofs --------------------------
(***************************************************************************)
(* The safety of the WASM engines for every set of callers, every number   *)
(* of inputs and every budget of host faults: the globals are published    *)
(* once and whole, set-ups leak no runtime, the memory of a call is used   *)
(* and freed as it must, and the engine implements the safety part of      *)
(* EngineService.                                                          *)
(***************************************************************************)
EXTENDS WasmEngine, WasmCall_proofs

(* Every label of the engine, the call's among them.                       *)
LEMMA LabelFacts ==
  ASSUME TypeOK
  PROVE  /\ CallTypeOK /\ Located(Labels)
         /\ {"lock", "check", "wasi", "compile", "pubrt", "pubcomp", "unlock",
             "inst", "unwind"} \subseteq Labels
  BY DEF TypeOK, Located, Labels, SetupSteps, CallSteps

-----------------------------------------------------------------------------
(* Type correctness                                                        *)

(* A failing set-up keeps the types of what it changes.                    *)
LEMMA SetupFailsType ==
  ASSUME TypeOK, NEW c \in Callers,
         \/ \E l \in Labels : Goto(c, l) /\ UNCHANGED <<struck, outcome, faults>>
         \/ Fail(c, TRUE, "unlock")
  PROVE  /\ pc' \in [Callers -> Labels]
         /\ struck' \in [Callers -> BOOLEAN]
         /\ outcome' \in [Callers -> Outcomes]
         /\ faults' \in 0 .. MaxFaults
  <1>1. CASE \E l \in Labels : Goto(c, l) /\ UNCHANGED <<struck, outcome, faults>>
    BY <1>1, GotoType, LabelFacts DEF CallTypeOK
  <1>2. CASE Fail(c, TRUE, "unlock")
    BY <1>2, FailType, LabelFacts
  <1>3. QED
    BY <1>1, <1>2

(* Every variable keeps its type, whatever the callers do.                 *)
THEOREM TypeCorrect == Spec => []TypeOK
<1>1. Init => TypeOK
  BY BufferFacts
  DEF Init, CallInit, TypeOK, CallTypeOK, Labels, Outcomes, Replies, Deserved
<1>2. TypeOK /\ [Next]_vars => TypeOK'
  <2> SUFFICES ASSUME TypeOK, [Next]_vars
               PROVE  TypeOK'
    OBVIOUS
  <2> USE BufferFacts DEF TypeOK, CallTypeOK
  <2>1. ASSUME NEW c \in Callers, Start(c)
       PROVE  TypeOK'
    <3>1. "lock" \in Labels
      BY LabelFacts
    <3>2. CallTypeOK' /\ pc' \in [Callers -> Labels]
      BY <2>1, <3>1, LabelFacts, CallType DEF Start
    <3>3. QED
      BY <2>1, <3>2 DEF Start
  <2>2. ASSUME NEW c \in Callers, Cancel(c), UNCHANGED initMu
       PROVE  TypeOK'
    BY <2>2, LabelFacts, CancelType
  <2>3. ASSUME NEW c \in Callers, Lock(c)
       PROVE  TypeOK'
    <3>1. pc' \in [Callers -> Labels]
      BY <2>3, GotoType, LabelFacts DEF Lock
    <3> QED
      BY <2>3, <3>1 DEF Lock, setupUnchanged
  <2>4. ASSUME NEW c \in Callers, Check(c)
       PROVE  TypeOK'
    <3>1. pc' \in [Callers -> Labels]
      BY <2>4, GotoType, LabelFacts DEF Check
    <3>2. open' \in SUBSET Callers
      BY <2>4 DEF Check
    <3> QED
      BY <2>4, <3>1, <3>2 DEF Check, setupUnchanged
  <2>5. ASSUME NEW c \in Callers, InstantiateWASI(c)
       PROVE  TypeOK'
    <3>1. /\ pc' \in [Callers -> Labels]
          /\ struck' \in [Callers -> BOOLEAN]
          /\ outcome' \in [Callers -> Outcomes]
          /\ faults' \in 0 .. MaxFaults
      BY <2>5, SetupFailsType, LabelFacts DEF InstantiateWASI, SetupFails
    <3>2. open' \in SUBSET Callers
      BY <2>5 DEF InstantiateWASI, SetupFails
    <3> QED
      BY <2>5, <3>1, <3>2 DEF InstantiateWASI, SetupFails, setupUnchanged
  <2>6. ASSUME NEW c \in Callers, CompileModule(c)
       PROVE  TypeOK'
    <3>1. /\ pc' \in [Callers -> Labels]
          /\ struck' \in [Callers -> BOOLEAN]
          /\ outcome' \in [Callers -> Outcomes]
          /\ faults' \in 0 .. MaxFaults
      BY <2>6, SetupFailsType, LabelFacts DEF CompileModule, SetupFails
    <3>2. open' \in SUBSET Callers
      BY <2>6 DEF CompileModule, SetupFails
    <3> QED
      BY <2>6, <3>1, <3>2 DEF CompileModule, SetupFails, setupUnchanged
  <2>7. ASSUME NEW c \in Callers, PublishRuntime(c)
       PROVE  TypeOK'
    <3>1. pc' \in [Callers -> Labels]
      BY <2>7, GotoType, LabelFacts DEF PublishRuntime
    <3>2. runtime' \in Callers \cup {None}
      BY <2>7 DEF PublishRuntime
    <3> QED
      BY <2>7, <3>1, <3>2 DEF PublishRuntime, setupUnchanged
  <2>8. ASSUME NEW c \in Callers, PublishCompiled(c)
       PROVE  TypeOK'
    <3>1. pc' \in [Callers -> Labels]
      BY <2>8, GotoType, LabelFacts DEF PublishCompiled
    <3>2. compiled' \in Callers \cup {None}
      BY <2>8 DEF PublishCompiled
    <3> QED
      BY <2>8, <3>1, <3>2 DEF PublishCompiled, setupUnchanged
  <2>9. ASSUME NEW c \in Callers, Unlock(c)
       PROVE  TypeOK'
    <3>1. pc' \in [Callers -> Labels]
      BY <2>9, GotoType, LabelFacts DEF Unlock
    <3> QED
      BY <2>9, <3>1 DEF Unlock, setupUnchanged
  <2>10. ASSUME NEW c \in Callers, CallStep(c), UNCHANGED initMu
       PROVE  TypeOK'
    BY <2>10, LabelFacts, CallStepType
  <2>11. CASE UNCHANGED vars
    BY <2>11 DEF vars
  <2>12. QED
    BY <2>1, <2>2, <2>3, <2>4, <2>5, <2>6, <2>7, <2>8, <2>9, <2>10, <2>11
    DEF Next, Setup
<1>3. QED
  BY <1>1, <1>2, PTL DEF Spec

-----------------------------------------------------------------------------
(* A step of one caller leaves the others where they are.                  *)

StepOf(c) ==
  \/ Start(c)
  \/ Cancel(c) /\ UNCHANGED initMu
  \/ Lock(c)
  \/ Setup(c)
  \/ CallStep(c) /\ UNCHANGED initMu

LEMMA OthersUntouched ==
  ASSUME TypeOK, NEW c \in Callers, StepOf(c), NEW d \in Callers, d # c
  PROVE  Frame(d)
  <1>1. CASE Start(c)
    BY <1>1 DEF Start, Call, Goto, Frame, TypeOK, CallTypeOK
  <1>2. CASE Cancel(c)
    BY <1>2 DEF Cancel, callVars, Goto, Frame, TypeOK, CallTypeOK
  <1>3. CASE Lock(c)
    BY <1>3 DEF Lock, setupUnchanged, Goto, Frame, TypeOK, CallTypeOK
  <1>4. CASE Check(c)
    BY <1>4 DEF Check, setupUnchanged, Goto, Frame, TypeOK, CallTypeOK
  <1>5. CASE InstantiateWASI(c)
    BY <1>5 DEF InstantiateWASI, SetupFails, Fail, setupUnchanged, Goto, Frame, TypeOK, CallTypeOK
  <1>6. CASE CompileModule(c)
    BY <1>6 DEF CompileModule, SetupFails, Fail, setupUnchanged, Goto, Frame, TypeOK, CallTypeOK
  <1>7. CASE PublishRuntime(c)
    BY <1>7 DEF PublishRuntime, setupUnchanged, Goto, Frame, TypeOK, CallTypeOK
  <1>8. CASE PublishCompiled(c)
    BY <1>8 DEF PublishCompiled, setupUnchanged, Goto, Frame, TypeOK, CallTypeOK
  <1>9. CASE Unlock(c)
    BY <1>9 DEF Unlock, setupUnchanged, Goto, Frame, TypeOK, CallTypeOK
  <1>10. CASE CallStep(c)
    BY <1>10, CallStepFrame, LabelFacts
  <1> QED
    BY <1>1, <1>2, <1>3, <1>4, <1>5, <1>6, <1>7, <1>8, <1>9, <1>10
    DEF StepOf, Setup

-----------------------------------------------------------------------------
(* The verdict of a call                                                   *)

(* A caller's own step keeps its verdict the one its request deserves.     *)
LEMMA OutcomeStep ==
  ASSUME TypeOK, NEW c \in Callers, OutcomeInv(c), StepOf(c)
  PROVE  OutcomeInv(c)'
  <1> USE DEF TypeOK, CallTypeOK, OutcomeInv, AnswerInv, Goto, Labels, SetupSteps, CallSteps
  <1>1. CASE Start(c)
    BY <1>1 DEF Start, Call
  <1>2. CASE Cancel(c)
    BY <1>2 DEF Cancel, callVars
  <1>3. CASE Lock(c)
    BY <1>3 DEF Lock, setupUnchanged
  <1>4. CASE Check(c)
    BY <1>4 DEF Check, setupUnchanged
  <1>5. CASE InstantiateWASI(c)
    BY <1>5 DEF InstantiateWASI, SetupFails, Fail, setupUnchanged
  <1>6. CASE CompileModule(c)
    BY <1>6 DEF CompileModule, SetupFails, Fail, setupUnchanged
  <1>7. CASE PublishRuntime(c)
    BY <1>7 DEF PublishRuntime, setupUnchanged
  <1>8. CASE PublishCompiled(c)
    BY <1>8 DEF PublishCompiled, setupUnchanged
  <1>9. CASE Unlock(c)
    BY <1>9 DEF Unlock, setupUnchanged
  <1>10. CASE CallStep(c)
    <2>1. AnswerInv(c)' /\ (outcome[c] = "fault" => struck[c])'
      BY <1>10, AnswerStep, LabelFacts
    <2>2. pc'[c] \notin SetupSteps
      BY <1>10, CallsLeaveTheGlobals, LabelFacts
    <2>3. QED
      BY <2>1, <2>2
  <1> QED
    BY <1>1, <1>2, <1>3, <1>4, <1>5, <1>6, <1>7, <1>8, <1>9, <1>10
    DEF StepOf, Setup

-----------------------------------------------------------------------------
(* The memory of a call                                                    *)

(* A caller's own step keeps every deferred cleanup owed and possible.     *)
LEMMA OwedStep ==
  ASSUME TypeOK, NEW c \in Callers, MemoryInv(c), StepOf(c)
  PROVE  MemoryInv(c)'
  <1> USE BufferFacts
      DEF TypeOK, CallTypeOK, MemoryInv, Goto, Labels, SetupSteps, CallSteps
  <1>1. CASE Start(c)
    BY <1>1 DEF Start, Call
  <1>2. CASE Cancel(c)
    BY <1>2 DEF Cancel, callVars
  <1>3. CASE Lock(c)
    BY <1>3 DEF Lock, setupUnchanged
  <1>4. CASE Check(c)
    BY <1>4 DEF Check, setupUnchanged
  <1>5. CASE InstantiateWASI(c)
    BY <1>5 DEF InstantiateWASI, SetupFails, Fail, setupUnchanged
  <1>6. CASE CompileModule(c)
    BY <1>6 DEF CompileModule, SetupFails, Fail, setupUnchanged
  <1>7. CASE PublishRuntime(c)
    BY <1>7 DEF PublishRuntime, setupUnchanged
  <1>8. CASE PublishCompiled(c)
    BY <1>8 DEF PublishCompiled, setupUnchanged
  <1>9. CASE Unlock(c)
    BY <1>9 DEF Unlock, setupUnchanged
  <1>10. CASE CallStep(c)
    BY <1>10, MemoryStep, LabelFacts
  <1> QED
    BY <1>1, <1>2, <1>3, <1>4, <1>5, <1>6, <1>7, <1>8, <1>9, <1>10
    DEF StepOf, Setup

-----------------------------------------------------------------------------
(* The globals                                                             *)

(* The part of SetupInv that speaks of one caller.                         *)
SetupOf(d) ==
  /\ pc[d] \in SetupSteps \ {"lock"} => initMu = d
  /\ Building(d) => compiled = None
  /\ pc[d] = "pubcomp" => runtime = d
  /\ Building(d) => d \in open
  /\ pc[d] = "unlock" /\ outcome[d] # "fault" => compiled # None
  /\ pc[d] \in CallSteps \ {"unwind"} => compiled # None

(* A step of the set-up keeps the globals in order: only one caller is in  *)
(* the critical section, and it publishes a runtime it has just opened.    *)
LEMMA SetupStep ==
  ASSUME TypeOK, SetupInv, NEW c \in Callers, OutcomeInv(c), StepOf(c)
  PROVE  SetupInv'
  <1> USE CallAssumption DEF SetupInv, EngineUsable, Building
  <1>o. ASSUME NEW d \in Callers, d # c
        PROVE  pc'[d] = pc[d] /\ outcome'[d] = outcome[d]
    BY <1>o, OthersUntouched DEF Frame
  <1>l. ASSUME pc[c] \in SetupSteps \ {"lock"}, NEW d \in Callers, d # c
        PROVE  pc[d] \notin SetupSteps \ {"lock"}
    BY <1>l
  <1>1. CASE Start(c)
    BY <1>1, <1>o DEF Start, Call, Goto, TypeOK, CallTypeOK, Labels, SetupSteps, CallSteps, OutcomeInv
  <1>2. CASE Cancel(c) /\ UNCHANGED initMu
    BY <1>2, <1>o DEF Cancel, callVars, Goto, TypeOK, CallTypeOK, Labels, SetupSteps, CallSteps, OutcomeInv
  <1>3. CASE Lock(c)
    BY <1>3, <1>o, <1>l DEF Lock, setupUnchanged, Goto, TypeOK, CallTypeOK, Labels, SetupSteps, CallSteps, OutcomeInv
  <1>4. CASE Check(c)
    BY <1>4, <1>o, <1>l DEF Check, setupUnchanged, Goto, TypeOK, CallTypeOK, Labels, SetupSteps, CallSteps, OutcomeInv
  <1>5. CASE InstantiateWASI(c)
    BY <1>5, <1>o, <1>l DEF InstantiateWASI, SetupFails, Fail, setupUnchanged, Goto, TypeOK, CallTypeOK, Labels, SetupSteps, CallSteps, OutcomeInv
  <1>6. CASE CompileModule(c)
    BY <1>6, <1>o, <1>l DEF CompileModule, SetupFails, Fail, setupUnchanged, Goto, TypeOK, CallTypeOK, Labels, SetupSteps, CallSteps, OutcomeInv
  <1>7. CASE PublishRuntime(c)
    BY <1>7, <1>o, <1>l DEF PublishRuntime, setupUnchanged, Goto, TypeOK, CallTypeOK, Labels, SetupSteps, CallSteps, OutcomeInv
  <1>8. CASE PublishCompiled(c)
    BY <1>8, <1>o, <1>l DEF PublishCompiled, setupUnchanged, Goto, TypeOK, CallTypeOK, Labels, SetupSteps, CallSteps, OutcomeInv
  <1>9. CASE Unlock(c)
    BY <1>9, <1>o, <1>l DEF Unlock, setupUnchanged, Goto, TypeOK, CallTypeOK, Labels, SetupSteps, CallSteps, OutcomeInv
  <1>10. CASE CallStep(c) /\ UNCHANGED initMu
    <2>1. /\ UNCHANGED <<runtime, compiled, open, initMu>>
          /\ pc[c] \in CallSteps
          /\ pc'[c] \in CallSteps \cup {"idle"}
          /\ pc'[c] \in CallSteps \ {"unwind"} => pc[c] # "unwind"
      BY <1>10, CallsLeaveTheGlobals, LabelFacts
    <2>2. ASSUME NEW d \in Callers
          PROVE  Building(d)' <=> Building(d)
      BY <2>1, <1>o DEF CallSteps
    <2>3. ASSUME NEW d \in Callers
          PROVE  SetupOf(d)'
      BY <2>1, <2>2, <1>o DEF SetupOf, SetupSteps, CallSteps
    <2>4. QED
      BY <2>1, <2>2, <2>3, <1>10 DEF SetupOf, TypeOK, CallTypeOK
  <1> QED
    BY <1>1, <1>2, <1>3, <1>4, <1>5, <1>6, <1>7, <1>8, <1>9, <1>10 DEF StepOf, Setup

-----------------------------------------------------------------------------
(* The invariant and what follows from it                                  *)

(* Every step of the engine is a step of one caller.                       *)
LEMMA NextIsAStep ==
  ASSUME Next
  PROVE  \E c \in Callers : StepOf(c)
  BY DEF Next, StepOf

(* A caller whose fields and the globals stand still keeps its part.       *)
LEMMA IdleStep ==
  ASSUME NEW d \in Callers, Frame(d), OutcomeInv(d), MemoryInv(d)
  PROVE  OutcomeInv(d)' /\ MemoryInv(d)'
  BY FramePreserves DEF Frame, OutcomeInv

(* The inductive invariant holds in every reachable state: mutual          *)
(* exclusion around the globals, a verdict only from the caller's own      *)
(* steps, and a memory in step with the deferred cleanups.                 *)
THEOREM Inductive == Spec => []IInv
<1>1. Init => IInv
  <2> SUFFICES ASSUME Init PROVE IInv
    OBVIOUS
  <2>1. TypeOK
    BY BufferFacts
    DEF Init, CallInit, TypeOK, CallTypeOK, Labels, Outcomes, Replies, Deserved
  <2>2. SetupInv
    BY DEF Init, CallInit, SetupInv, Building, SetupSteps, CallSteps
  <2>3. ASSUME NEW c \in Callers
        PROVE  OutcomeInv(c) /\ MemoryInv(c)
    <3>1. OutcomeInv(c)
      BY DEF Init, CallInit, OutcomeInv, AnswerInv, SetupSteps, CallSteps
    <3>2. MemoryInv(c)
      BY BufferFacts DEF Init, CallInit, MemoryInv
    <3>3. QED
      BY <3>1, <3>2
  <2>4. QED
    BY <2>1, <2>2, <2>3 DEF IInv
<1>2. IInv /\ TypeOK' /\ [Next]_vars => IInv'
  <2> SUFFICES ASSUME IInv, TypeOK', [Next]_vars
               PROVE  IInv'
    OBVIOUS
  <2>1. CASE Next
    <3>1. PICK c \in Callers : StepOf(c)
      BY <2>1, NextIsAStep
    <3>2. SetupInv'
      BY <3>1, SetupStep DEF IInv
    <3>3. ASSUME NEW d \in Callers
          PROVE  OutcomeInv(d)' /\ MemoryInv(d)'
      <4>1. CASE d = c
        BY <3>1, <4>1, OutcomeStep, OwedStep DEF IInv
      <4>2. CASE d # c
        BY <3>1, <4>2, OthersUntouched, IdleStep DEF IInv
      <4>3. QED
        BY <4>1, <4>2
    <3>4. QED
      BY <3>2, <3>3 DEF IInv
  <2>2. CASE UNCHANGED vars
    <3>1. SetupInv'
      BY <2>2 DEF vars, IInv, SetupInv, Building, EngineUsable
    <3>2. \A d \in Callers : Frame(d)
      BY <2>2 DEF vars, Frame
    <3>3. QED
      BY <3>1, <3>2, IdleStep DEF IInv
  <2>3. QED
    BY <2>1, <2>2
<1>3. QED
  BY <1>1, <1>2, TypeCorrect, PTL DEF Spec

(* Whoever is past ensureCompiled finds a runtime that is open and a       *)
(* module compiled for it.                                                 *)
THEOREM AlwaysUsable == Spec => []PublishedIsUsable
<1>1. IInv => PublishedIsUsable
  BY DEF IInv, SetupInv, PublishedIsUsable
<1>2. QED
  BY <1>1, Inductive, PTL

(* However many set-ups fail and however their callers interleave, no      *)
(* runtime is left open but the published one and the one being built.     *)
THEOREM NeverLeaks == Spec => []NoRuntimeLeak
<1>1. IInv => NoRuntimeLeak
  <2> SUFFICES ASSUME IInv PROVE NoRuntimeLeak
    OBVIOUS
  <2>1. open \subseteq {compiled} \cup {c \in Callers : Building(c)}
    BY DEF IInv, SetupInv, TypeOK, CallTypeOK
  <2>2. ASSUME NEW c \in open, NEW d \in open
        PROVE  c = d
    <3>1. c \in Callers /\ d \in Callers
      BY DEF IInv, TypeOK, CallTypeOK
    <3>2. CASE compiled # None
      BY <3>1, <3>2 DEF IInv, SetupInv
    <3>3. CASE compiled = None
      <4>1. Building(c) /\ Building(d)
        BY <3>1, <3>3, CallAssumption DEF IInv, SetupInv
      <4>2. initMu = c /\ initMu = d
        BY <3>1, <4>1 DEF IInv, SetupInv, Building, SetupSteps
      <4>3. QED
        BY <4>2
    <3>4. QED
      BY <3>2, <3>3
  <2>3. QED
    BY <2>1, <2>2 DEF NoRuntimeLeak
<1>2. QED
  BY <1>1, Inductive, PTL

(* No call reaches into a closed module or returns leaving one open.       *)
THEOREM ModuleSafe == Spec => []ModuleOutlivesUse
<1>1. IInv => ModuleOutlivesUse
  BY CallsAreSafe DEF IInv, OutcomeInv
<1>2. QED
  BY <1>1, Inductive, PTL

(* No call frees a buffer twice or one it never allocated.                 *)
THEOREM DeallocSafe == Spec => []DeallocsAreOwed
<1>1. IInv => DeallocsAreOwed
  BY CallsAreSafe DEF IInv, OutcomeInv
<1>2. QED
  BY <1>1, Inductive, PTL

(* No call is refused for another call's failure, or answered with         *)
(* another call's verdict.                                                 *)
THEOREM OwnFaults == Spec => []FaultsAreOwn
<1>1. IInv => FaultsAreOwn
  BY DEF IInv, OutcomeInv, AnswerInv, FaultsAreOwn
<1>2. QED
  BY <1>1, Inductive, PTL

(* A published engine is never rebuilt, replaced or closed.                *)
THEOREM PublicationIsFinal == Spec => PublishedForGood
<1>1. IInv /\ [Next]_vars
        => (compiled # None => UNCHANGED <<runtime, compiled, open>>)
  <2> SUFFICES ASSUME IInv, Next, compiled # None
               PROVE  UNCHANGED <<runtime, compiled, open>>
    BY DEF vars
  <2>1. PICK c \in Callers : StepOf(c)
    BY NextIsAStep
  <2>2. ~Building(c)
    BY DEF IInv, SetupInv
  <2>3. CASE CallStep(c)
    BY <2>3, CallsLeaveTheGlobals, LabelFacts DEF IInv
  <2>4. CASE Setup(c)
    BY <2>2, <2>4 DEF Setup, Building, Check, InstantiateWASI, CompileModule,
                      PublishRuntime, PublishCompiled, Unlock
  <2>5. CASE Start(c) \/ Cancel(c) \/ Lock(c)
    BY <2>5 DEF Start, Call, Cancel, Lock
  <2>6. QED
    BY <2>1, <2>3, <2>4, <2>5 DEF StepOf
<1>2. QED
  BY <1>1, Inductive, PTL DEF Spec, PublishedForGood

-----------------------------------------------------------------------------
(* Refinement                                                              *)

(* Every step of a caller is a step of the service, or invisible to it.    *)
LEMMA StepRefines ==
  ASSUME TypeOK, NEW c \in Callers, OutcomeInv(c), StepOf(c)
  PROVE  Service!Next \/ UNCHANGED Service!vars
  <1> DEFINE busy == {d \in Callers : pc[d] # "idle"}
  <1> USE DEF TypeOK, CallTypeOK, OutcomeInv, AnswerInv, Goto, Labels, SetupSteps, CallSteps
  <1>1. CASE Start(c)
    <2>1. PICK w \in Deserved : want' = [want EXCEPT ![c] = w]
      BY <1>1 DEF Start, Call
    <2>2. c \notin busy /\ busy' = busy \cup {c} /\ UNCHANGED <<struck, outcome>>
      BY <1>1 DEF Start, Call
    <2>3. QED
      BY <2>1, <2>2 DEF Service!Next, Service!Begin, Deserved
  <1>2. CASE Cancel(c)
    BY <1>2 DEF Cancel, callVars, Service!vars
  <1>3. CASE Lock(c)
    BY <1>3 DEF Lock, setupUnchanged, Service!vars
  <1>4. CASE Check(c)
    BY <1>4 DEF Check, setupUnchanged, Service!vars
  <1>5. CASE InstantiateWASI(c)
    <2>1. c \in busy /\ busy' = busy /\ outcome[c] = "none" /\ want' = want
      BY <1>5 DEF InstantiateWASI, SetupFails, Fail, setupUnchanged
    <2>2. \/ UNCHANGED <<struck, outcome>>
          \/ /\ struck' = [struck EXCEPT ![c] = TRUE]
             /\ outcome' \in {outcome, [outcome EXCEPT ![c] = "fault"]}
      BY <1>5 DEF InstantiateWASI, SetupFails, Fail, setupUnchanged
    <2>3. QED
      BY <2>1, <2>2 DEF Service!Next, Service!Strike, Service!vars
  <1>6. CASE CompileModule(c)
    <2>1. c \in busy /\ busy' = busy /\ outcome[c] = "none" /\ want' = want
      BY <1>6 DEF CompileModule, SetupFails, Fail, setupUnchanged
    <2>2. \/ UNCHANGED <<struck, outcome>>
          \/ /\ struck' = [struck EXCEPT ![c] = TRUE]
             /\ outcome' \in {outcome, [outcome EXCEPT ![c] = "fault"]}
      BY <1>6 DEF CompileModule, SetupFails, Fail, setupUnchanged
    <2>3. QED
      BY <2>1, <2>2 DEF Service!Next, Service!Strike, Service!vars
  <1>7. CASE PublishRuntime(c)
    BY <1>7 DEF PublishRuntime, setupUnchanged, Service!vars
  <1>8. CASE PublishCompiled(c)
    BY <1>8 DEF PublishCompiled, setupUnchanged, Service!vars
  <1>9. CASE Unlock(c)
    BY <1>9 DEF Unlock, setupUnchanged, Service!vars
  <1>10. CASE Instantiate(c)
    <2>1. c \in busy /\ busy' = busy /\ outcome[c] = "none" /\ want' = want
      BY <1>10 DEF Instantiate, Fail, ModuleOf
    <2>2. \/ UNCHANGED <<struck, outcome>>
          \/ /\ struck' = [struck EXCEPT ![c] = TRUE]
             /\ outcome' \in {outcome, [outcome EXCEPT ![c] = "fault"]}
      BY <1>10 DEF Instantiate, Fail, ModuleOf
    <2>3. QED
      BY <2>1, <2>2 DEF Service!Next, Service!Strike, Service!vars
  <1>11. CASE Put(c)
    <2>1. c \in busy /\ busy' = busy /\ outcome[c] = "none" /\ want' = want
      BY <1>11 DEF Put, Fail, ModuleOf
    <2>2. \/ UNCHANGED <<struck, outcome>>
          \/ /\ struck' = [struck EXCEPT ![c] = TRUE]
             /\ outcome' \in {outcome, [outcome EXCEPT ![c] = "fault"]}
      BY <1>11 DEF Put, Fail, ModuleOf
    <2>3. QED
      BY <2>1, <2>2 DEF Service!Next, Service!Strike, Service!vars
  <1>12. CASE AllocOutLen(c)
    <2>1. c \in busy /\ busy' = busy /\ outcome[c] = "none" /\ want' = want
      BY <1>12 DEF AllocOutLen, Fail
    <2>2. \/ UNCHANGED <<struck, outcome>>
          \/ /\ struck' = [struck EXCEPT ![c] = TRUE]
             /\ outcome' \in {outcome, [outcome EXCEPT ![c] = "fault"]}
      BY <1>12 DEF AllocOutLen, Fail
    <2>3. QED
      BY <2>1, <2>2 DEF Service!Next, Service!Strike, Service!vars
  <1>13. CASE Run(c)
    <2>1. c \in busy /\ busy' = busy /\ outcome[c] = "none" /\ want' = want
      BY <1>13 DEF Run, Fail
    <2>2. \/ UNCHANGED <<struck, outcome>>
          \/ /\ struck' = [struck EXCEPT ![c] = TRUE]
             /\ outcome' \in {outcome, [outcome EXCEPT ![c] = "fault"]}
      BY <1>13 DEF Run, Fail
    <2>3. QED
      BY <2>1, <2>2 DEF Service!Next, Service!Strike, Service!vars
  <1>14. CASE Collect(c)
    <2>1. c \in busy /\ busy' = busy /\ outcome[c] = "none" /\ want' = want
      BY <1>14 DEF Collect, Dealloc, Fail, ModuleOf
    <2>2. \/ UNCHANGED <<struck, outcome>>
          \/ /\ struck' = [struck EXCEPT ![c] = TRUE]
             /\ outcome' \in {outcome, [outcome EXCEPT ![c] = "fault"]}
      BY <1>14 DEF Collect, Dealloc, Fail, ModuleOf
    <2>3. QED
      BY <2>1, <2>2 DEF Service!Next, Service!Strike, Service!vars
  <1>15. CASE Decode(c)
    <2>1. c \in busy /\ busy' = busy /\ outcome[c] = "none" /\ UNCHANGED <<want, struck>>
      BY <1>15 DEF Decode
    <2>2. CASE reply[c] = want[c]
      <3>1. outcome' = [outcome EXCEPT ![c] =
                          IF want[c] = "userError" THEN "argError" ELSE "value"]
        BY <1>15, <2>2 DEF Decode, Classify, Deserved
      <3>2. QED
        BY <2>1, <3>1 DEF Service!Next, Service!Answer
    <2>3. CASE reply[c] = "garbled" /\ struck[c]
      <3>1. outcome' = [outcome EXCEPT ![c] = "fault"]
        BY <1>15, <2>3 DEF Decode, Classify
      <3>2. QED
        BY <2>1, <2>3, <3>1 DEF Service!Next, Service!GiveUp
    <2>4. QED
      BY <1>15, <2>2, <2>3 DEF Decode
  <1>16. CASE Unwind(c)
    BY <1>16 DEF Unwind, Dealloc, ModuleOf, Service!vars
  <1>17. CASE Return(c)
    <2>1. c \in busy /\ busy' = busy \ {c} /\ outcome[c] # "none"
      BY <1>17 DEF Return
    <2>2. QED
      BY <1>17, <2>1 DEF Return, Service!Next, Service!Return
  <1> QED
    BY <1>1, <1>2, <1>3, <1>4, <1>5, <1>6, <1>7, <1>8, <1>9, <1>10, <1>11, <1>12, <1>13, <1>14, <1>15, <1>16, <1>17 DEF StepOf, Setup, CallStep

(* The engine implements the safety part of EngineService: a caller gets   *)
(* what its own request deserves, or a fault of its own.                   *)
THEOREM ImplementsService == Spec => ServiceSafe
<1>1. Init => Service!Init
  BY DEF Init, CallInit, Service!Init
<1>2. IInv /\ [Next]_vars => [Service!Next]_(Service!vars)
  <2> SUFFICES ASSUME IInv, [Next]_vars
               PROVE  Service!Next \/ UNCHANGED Service!vars
    OBVIOUS
  <2>1. CASE Next
    BY <2>1, NextIsAStep, StepRefines DEF IInv
  <2>2. CASE UNCHANGED vars
    BY <2>2 DEF vars, Service!vars
  <2>3. QED
    BY <2>1, <2>2
<1>3. QED
  BY <1>1, <1>2, Inductive, PTL DEF Spec, ServiceSafe, Service!Safe
=============================================================================
