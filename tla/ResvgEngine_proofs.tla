-------------------------- MODULE ResvgEngine_proofs --------------------------
(***************************************************************************)
(* The safety of the resvg engine for every set of callers, every number   *)
(* of inputs and every budget of host faults: its set-up is all or         *)
(* nothing and final, and its calls answer for themselves and free what    *)
(* they own, although the error of a failed set-up is everybody's.         *)
(***************************************************************************)
EXTENDS ResvgEngine, WasmCall_proofs

(* Every label of the engine, the call's among them.                       *)
LEMMA LabelFacts ==
  ASSUME TypeOK
  PROVE  /\ CallTypeOK /\ Located(Labels)
         /\ {"once", "wasi", "compile", "publish", "done", "inst", "unwind"}
              \subseteq Labels
  BY DEF TypeOK, Located, Labels, SetupSteps, CallSteps

(* A step of one caller, and every step is one.                            *)
StepOf(c) ==
  \/ Start(c)
  \/ Cancel(c) /\ UNCHANGED onceVars
  \/ EnterOnce(c)
  \/ Setup(c)
  \/ CallStep(c) /\ UNCHANGED onceVars

LEMMA NextIsAStep ==
  ASSUME Next
  PROVE  \E c \in Callers : StepOf(c)
  BY DEF Next, StepOf

-----------------------------------------------------------------------------
(* Type correctness                                                        *)

LEMMA TypeStep ==
  ASSUME TypeOK, NEW c \in Callers, StepOf(c)
  PROVE  TypeOK'
<1> USE DEF TypeOK, CallTypeOK
<1>1. CASE Start(c)
  <2>1. "once" \in Labels
    BY LabelFacts
  <2>2. CallTypeOK' /\ pc' \in [Callers -> Labels]
    BY <1>1, <2>1, LabelFacts, CallType DEF Start
  <2>3. QED
    BY <1>1, <2>2 DEF Start, onceVars
<1>2. CASE Cancel(c) /\ UNCHANGED onceVars
  <2>1. CallTypeOK' /\ pc' \in [Callers -> Labels]
    BY <1>2, LabelFacts, CancelType
  <2>2. QED
    BY <1>2, <2>1 DEF onceVars
<1>3. CASE EnterOnce(c)
  <2>1. pc' \in [Callers -> Labels]
    BY <1>3, GotoType, LabelFacts DEF EnterOnce
  <2>2. open' \in SUBSET Callers /\ running' \in Callers \cup {None}
    BY <1>3 DEF EnterOnce
  <2>3. QED
    BY <1>3, <2>1, <2>2 DEF EnterOnce, setupUnchanged
<1>4. CASE InstantiateWASI(c)
  <2>1. pc' \in [Callers -> Labels]
    BY <1>4, GotoType, LabelFacts DEF InstantiateWASI, SetupFails
  <2>2. struck' \in [Callers -> BOOLEAN]
    BY <1>4 DEF InstantiateWASI, SetupFails
  <2>3. faults' \in 0 .. MaxFaults
    BY <1>4, BufferFacts DEF InstantiateWASI, SetupFails
  <2>4. open' \in SUBSET Callers
    BY <1>4 DEF InstantiateWASI, SetupFails
  <2>5. running' \in Callers \cup {None} /\ onceDone' \in BOOLEAN /\ initErr' \in BOOLEAN
    BY <1>4 DEF InstantiateWASI, SetupFails, LeaveOnce, onceVars
  <2>6. QED
    BY <1>4, <2>1, <2>2, <2>3, <2>4, <2>5 DEF InstantiateWASI, setupUnchanged
<1>5. CASE CompileModule(c)
  <2>1. pc' \in [Callers -> Labels]
    BY <1>5, GotoType, LabelFacts DEF CompileModule, SetupFails
  <2>2. struck' \in [Callers -> BOOLEAN]
    BY <1>5 DEF CompileModule, SetupFails
  <2>3. faults' \in 0 .. MaxFaults
    BY <1>5, BufferFacts DEF CompileModule, SetupFails
  <2>4. open' \in SUBSET Callers
    BY <1>5 DEF CompileModule, SetupFails
  <2>5. running' \in Callers \cup {None} /\ onceDone' \in BOOLEAN /\ initErr' \in BOOLEAN
    BY <1>5 DEF CompileModule, SetupFails, LeaveOnce, onceVars
  <2>6. QED
    BY <1>5, <2>1, <2>2, <2>3, <2>4, <2>5 DEF CompileModule, setupUnchanged
<1>6. CASE Publish(c)
  <2>1. pc' \in [Callers -> Labels]
    BY <1>6, GotoType, LabelFacts DEF Publish
  <2>2. runtime' \in Callers \cup {None} /\ compiled' \in Callers \cup {None}
    BY <1>6 DEF Publish
  <2>3. QED
    BY <1>6, <2>1, <2>2 DEF Publish, LeaveOnce, setupUnchanged
<1>7. CASE AfterOnce(c)
  <2>1. pc' \in [Callers -> Labels]
    BY <1>7, GotoType, LabelFacts DEF AfterOnce
  <2>2. outcome' \in [Callers -> Outcomes]
    BY <1>7 DEF AfterOnce, Outcomes
  <2>3. QED
    BY <1>7, <2>1, <2>2 DEF AfterOnce, setupUnchanged, onceVars
<1>8. CASE CallStep(c) /\ UNCHANGED onceVars
  <2>1. CallTypeOK' /\ pc' \in [Callers -> Labels]
    BY <1>8, LabelFacts, CallStepType
  <2>2. QED
    BY <1>8, <2>1 DEF onceVars
<1> QED
  BY <1>1, <1>2, <1>3, <1>4, <1>5, <1>6, <1>7, <1>8 DEF StepOf, Setup

-----------------------------------------------------------------------------
(* A step of one caller leaves the others where they are.                  *)

LEMMA OthersUntouched ==
  ASSUME TypeOK, NEW c \in Callers, StepOf(c), NEW d \in Callers, d # c
  PROVE  Frame(d)
<1> USE DEF TypeOK, CallTypeOK, Goto, Frame
<1>1. CASE Start(c)
  BY <1>1 DEF Start, Call
<1>2. CASE Cancel(c)
  BY <1>2 DEF Cancel, callVars
<1>3. CASE EnterOnce(c)
  BY <1>3 DEF EnterOnce, setupUnchanged
<1>4. CASE InstantiateWASI(c)
  BY <1>4 DEF InstantiateWASI, SetupFails, setupUnchanged
<1>5. CASE CompileModule(c)
  BY <1>5 DEF CompileModule, SetupFails, setupUnchanged
<1>6. CASE Publish(c)
  BY <1>6 DEF Publish, setupUnchanged
<1>7. CASE AfterOnce(c)
  BY <1>7 DEF AfterOnce, setupUnchanged
<1>8. CASE CallStep(c)
  BY <1>8, CallStepFrame, LabelFacts
<1> QED
  BY <1>1, <1>2, <1>3, <1>4, <1>5, <1>6, <1>7, <1>8 DEF StepOf, Setup

-----------------------------------------------------------------------------
(* The set-up                                                              *)

(* The part of SetupInv that speaks of one caller.                         *)
SetupOf(d) ==
  /\ pc[d] \in {"wasi", "compile", "publish"} <=> running = d
  /\ pc[d] \in {"done"} \cup (CallSteps \ {"unwind"}) => onceDone
  /\ pc[d] \in CallSteps \ {"unwind"} => ~initErr

(* Only the caller inside Do's function moves the set-up on, and it leaves *)
(* either the published runtime or the latched error behind.               *)
LEMMA SetupStep ==
  ASSUME TypeOK, SetupInv, NEW c \in Callers, StepOf(c)
  PROVE  SetupInv'
<1> USE CallAssumption DEF SetupInv, EngineUsable
<1>o. ASSUME NEW d \in Callers, d # c
      PROVE  pc'[d] = pc[d]
  BY <1>o, OthersUntouched DEF Frame
<1>1. CASE Start(c)
  BY <1>1, <1>o DEF Start, Call, Goto, TypeOK, CallTypeOK, CallSteps, onceVars
<1>2. CASE Cancel(c) /\ UNCHANGED onceVars
  BY <1>2, <1>o DEF Cancel, TypeOK, CallTypeOK, onceVars
<1>3. CASE EnterOnce(c)
  BY <1>3, <1>o DEF EnterOnce, Goto, TypeOK, CallTypeOK, CallSteps
<1>4. CASE InstantiateWASI(c)
  BY <1>4, <1>o DEF InstantiateWASI, SetupFails, LeaveOnce, Goto, TypeOK, CallTypeOK,
                    CallSteps, onceVars
<1>5. CASE CompileModule(c)
  BY <1>5, <1>o DEF CompileModule, SetupFails, LeaveOnce, Goto, TypeOK, CallTypeOK,
                    CallSteps, onceVars
<1>6. CASE Publish(c)
  BY <1>6, <1>o DEF Publish, LeaveOnce, Goto, TypeOK, CallTypeOK, CallSteps
<1>7. CASE AfterOnce(c)
  BY <1>7, <1>o DEF AfterOnce, Goto, TypeOK, CallTypeOK, CallSteps, onceVars
<1>8. CASE CallStep(c) /\ UNCHANGED onceVars
  <2>1. /\ UNCHANGED <<runtime, compiled, open, running, onceDone, initErr>>
        /\ pc[c] \in CallSteps
        /\ pc'[c] \in CallSteps \cup {"idle"}
        /\ pc'[c] \in CallSteps \ {"unwind"} => pc[c] # "unwind"
    BY <1>8, CallsLeaveTheGlobals, LabelFacts DEF onceVars
  <2>2. ASSUME NEW d \in Callers
        PROVE  SetupOf(d)'
    BY <2>1, <1>o DEF SetupOf, CallSteps
  <2>3. QED
    BY <2>1, <2>2 DEF SetupOf
<1> QED
  BY <1>1, <1>2, <1>3, <1>4, <1>5, <1>6, <1>7, <1>8 DEF StepOf, Setup

-----------------------------------------------------------------------------
(* The calls                                                               *)

(* What the invariant says of one caller.                                  *)
CallInv(c) ==
  /\ AnswerInv(c)
  /\ pc[c] \in SetupSteps => outcome[c] = "none"
  /\ MemoryInv(c)

LEMMA CallInvStep ==
  ASSUME TypeOK, NEW c \in Callers, CallInv(c), StepOf(c)
  PROVE  CallInv(c)'
<1> USE DEF TypeOK, CallTypeOK, CallInv, Goto
<1>1. CASE Start(c)
  BY <1>1, BufferFacts DEF Start, Call, AnswerInv, MemoryInv, SetupSteps, CallSteps
<1>2. CASE Cancel(c)
  BY <1>2, BufferFacts DEF Cancel, callVars, AnswerInv, MemoryInv
<1>3. CASE EnterOnce(c)
  BY <1>3, BufferFacts
  DEF EnterOnce, setupUnchanged, AnswerInv, MemoryInv, SetupSteps, CallSteps
<1>4. CASE InstantiateWASI(c)
  BY <1>4, BufferFacts
  DEF InstantiateWASI, SetupFails, setupUnchanged, AnswerInv, MemoryInv, SetupSteps, CallSteps
<1>5. CASE CompileModule(c)
  BY <1>5, BufferFacts
  DEF CompileModule, SetupFails, setupUnchanged, AnswerInv, MemoryInv, SetupSteps, CallSteps
<1>6. CASE Publish(c)
  BY <1>6, BufferFacts
  DEF Publish, setupUnchanged, AnswerInv, MemoryInv, SetupSteps, CallSteps
<1>7. CASE AfterOnce(c)
  BY <1>7, BufferFacts
  DEF AfterOnce, setupUnchanged, AnswerInv, MemoryInv, SetupSteps, CallSteps
<1>8. CASE CallStep(c)
  <2>1. AnswerInv(c)'
    BY <1>8, AnswerStep, LabelFacts
  <2>2. MemoryInv(c)'
    BY <1>8, MemoryStep, LabelFacts
  <2>3. pc'[c] \notin SetupSteps
    BY <1>8, CallsLeaveTheGlobals, LabelFacts DEF SetupSteps, CallSteps
  <2>4. QED
    BY <2>1, <2>2, <2>3
<1> QED
  BY <1>1, <1>2, <1>3, <1>4, <1>5, <1>6, <1>7, <1>8 DEF StepOf, Setup

-----------------------------------------------------------------------------
(* The inductive invariant holds in every reachable state.                 *)
THEOREM Inductive == Spec => []IInv
<1>1. Init => IInv
  <2> SUFFICES ASSUME Init PROVE IInv
    OBVIOUS
  <2>1. TypeOK
    BY CallInitType DEF Init, CallInit, TypeOK, Labels
  <2>2. SetupInv
    BY CallAssumption DEF Init, CallInit, SetupInv, CallSteps
  <2>3. ASSUME NEW c \in Callers
        PROVE  AnswerInv(c) /\ (pc[c] \in SetupSteps => outcome[c] = "none") /\ MemoryInv(c)
    BY BufferFacts DEF Init, CallInit, AnswerInv, MemoryInv, SetupSteps, CallSteps
  <2>4. QED
    BY <2>1, <2>2, <2>3 DEF IInv
<1>2. IInv /\ [Next]_vars => IInv'
  <2> SUFFICES ASSUME IInv, [Next]_vars
               PROVE  IInv'
    OBVIOUS
  <2>i. TypeOK /\ SetupInv /\ \A d \in Callers : CallInv(d)
    BY DEF IInv, CallInv
  <2>1. CASE Next
    <3>1. PICK c \in Callers : StepOf(c)
      BY <2>1, NextIsAStep
    <3>2. TypeOK' /\ SetupInv'
      BY <2>i, <3>1, TypeStep, SetupStep
    <3>3. ASSUME NEW d \in Callers
          PROVE  CallInv(d)'
      <4>1. CASE d = c
        BY <2>i, <3>1, <4>1, CallInvStep
      <4>2. CASE d # c
        <5>1. Frame(d)
          BY <2>i, <3>1, <4>2, OthersUntouched
        <5>2. AnswerInv(d)' /\ MemoryInv(d)'
          BY <2>i, <5>1, FramePreserves DEF CallInv
        <5>3. QED
          BY <2>i, <5>1, <5>2 DEF CallInv, Frame
      <4>3. QED
        BY <4>1, <4>2
    <3>4. QED
      BY <3>2, <3>3 DEF IInv, CallInv
  <2>2. CASE UNCHANGED vars
    BY <2>2 DEF vars, IInv, TypeOK, CallTypeOK, SetupInv, EngineUsable, AnswerInv, MemoryInv
  <2>3. QED
    BY <2>1, <2>2
<1>3. QED
  BY <1>1, <1>2, PTL DEF Spec

(* Every variable keeps its type, whatever the callers do.                 *)
THEOREM TypeCorrect == Spec => []TypeOK
<1>1. IInv => TypeOK
  BY DEF IInv
<1>2. QED
  BY <1>1, Inductive, PTL

(* Whoever gets past the set-up finds it complete, and the set-up leaves a *)
(* runtime open only when it published it.                                 *)
THEOREM AlwaysOnce == Spec => []OnceIsAllOrNothing
<1>1. IInv => OnceIsAllOrNothing
  BY DEF IInv, SetupInv, OnceIsAllOrNothing
<1>2. QED
  BY <1>1, Inductive, PTL

(* A call of svg_render gets the answer to its own request, reaches into   *)
(* no closed module and frees nothing twice.                               *)
THEOREM CallsAnswerForThemselves ==
  Spec => [](AnswersAreOwn /\ ModuleOutlivesUse /\ DeallocsAreOwed)
<1>1. IInv => AnswersAreOwn /\ ModuleOutlivesUse /\ DeallocsAreOwed
  BY CallsAreSafe DEF IInv
<1>2. QED
  BY <1>1, Inductive, PTL

(* What the set-up left, a runtime or an error, no later step changes.     *)
THEOREM OnceIsForGood == Spec => SettledForGood
<1>1. IInv /\ [Next]_vars
        => (onceDone => UNCHANGED <<onceVars, runtime, compiled, open>>)
  <2> SUFFICES ASSUME IInv, Next, onceDone
               PROVE  UNCHANGED <<onceVars, runtime, compiled, open>>
    BY DEF vars, onceVars
  <2>1. PICK c \in Callers : StepOf(c)
    BY NextIsAStep
  <2>2. pc[c] \notin {"wasi", "compile", "publish"}
    BY CallAssumption DEF IInv, SetupInv
  <2>3. CASE CallStep(c) /\ UNCHANGED onceVars
    BY <2>3, CallsLeaveTheGlobals, LabelFacts DEF IInv
  <2>4. CASE Setup(c)
    BY <2>2, <2>4 DEF Setup, InstantiateWASI, CompileModule, Publish, AfterOnce
  <2>5. CASE EnterOnce(c)
    BY <2>5 DEF EnterOnce, onceVars
  <2>6. CASE Start(c) \/ (Cancel(c) /\ UNCHANGED onceVars)
    BY <2>6 DEF Start, Call, Cancel
  <2>7. QED
    BY <2>1, <2>3, <2>4, <2>5, <2>6 DEF StepOf
<1>2. QED
  BY <1>1, Inductive, PTL DEF Spec, SettledForGood
=============================================================================
