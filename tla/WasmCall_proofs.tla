--------------------------- MODULE WasmCall_proofs ---------------------------
(***************************************************************************)
(* What one call of an embedded engine preserves, whichever engine it is   *)
(* and wherever its set-up lets the other callers be: the types, the other *)
(* callers' state, the globals, the verdict, the memory.  The proofs of    *)
(* WasmEngine and ResvgEngine rest on these lemmas.  L is the engine's set *)
(* of labels.                                                              *)
(***************************************************************************)
EXTENDS WasmCall, TLAPS

(* The buffers of a call are numbers, so that `held' is a set of numbers.  *)
LEMMA BufferFacts ==
  /\ Inputs \in Nat /\ Inputs > 0 /\ MaxFaults \in Nat
  /\ OutLen = Inputs + 1 /\ Result = Inputs + 2
  BY CallAssumption DEF OutLen, Result

(* Where a caller may be: the engine's own labels and the call's.          *)
Located(L) == pc \in [Callers -> L] /\ CallSteps \cup {"idle"} \subseteq L

-----------------------------------------------------------------------------
(* Types                                                                   *)

(* A jump to a label keeps pc a function into the labels.                  *)
LEMMA GotoType ==
  ASSUME NEW L, Located(L), NEW c \in Callers, NEW l \in L, Goto(c, l)
  PROVE  pc' \in [Callers -> L]
  BY DEF Goto, Located

(* A failing external operation keeps the types of what it changes.        *)
LEMMA FailType ==
  ASSUME CallTypeOK, NEW L, Located(L), NEW c \in Callers, NEW b \in BOOLEAN,
         NEW l \in L, Fail(c, b, l)
  PROVE  /\ pc' \in [Callers -> L]
         /\ struck' \in [Callers -> BOOLEAN]
         /\ outcome' \in [Callers -> Outcomes]
         /\ faults' \in 0 .. MaxFaults
  <1>1. pc' \in [Callers -> L]
    BY GotoType DEF Fail
  <1>2. struck' \in [Callers -> BOOLEAN] /\ outcome' \in [Callers -> Outcomes]
    BY DEF Fail, CallTypeOK, Outcomes
  <1>3. faults' \in 0 .. MaxFaults
    BY BufferFacts DEF Fail, CallTypeOK
  <1>4. QED
    BY <1>1, <1>2, <1>3

(* An external operation of a call goes on to a label or fails.            *)
LEMMA OperationType ==
  ASSUME CallTypeOK, NEW L, Located(L), NEW c \in Callers, NEW l \in L, "unwind" \in L,
         \/ Goto(c, l) /\ UNCHANGED <<struck, outcome, faults>>
         \/ Fail(c, CloseOnDone, "unwind")
         \/ Fail(c, FALSE, "unwind")
  PROVE  /\ pc' \in [Callers -> L]
         /\ struck' \in [Callers -> BOOLEAN]
         /\ outcome' \in [Callers -> Outcomes]
         /\ faults' \in 0 .. MaxFaults
  <1>1. CASE Goto(c, l) /\ UNCHANGED <<struck, outcome, faults>>
    BY <1>1, GotoType DEF CallTypeOK
  <1>2. CASE Fail(c, CloseOnDone, "unwind")
    BY <1>2, FailType, CallAssumption
  <1>3. CASE Fail(c, FALSE, "unwind")
    BY <1>3, FailType
  <1>4. QED
    BY <1>1, <1>2, <1>3

(* Nothing has happened yet.                                               *)
LEMMA CallInitType ==
  ASSUME CallInit
  PROVE  CallTypeOK
  BY BufferFacts DEF CallInit, CallTypeOK, Outcomes, Replies, Deserved

(* A request arrives with its reply, its empty inputs and its context.     *)
LEMMA CallType ==
  ASSUME CallTypeOK, NEW L, Located(L), NEW c \in Callers, NEW l \in L,
         \E w \in Deserved, e \in SUBSET (1 .. Inputs), x \in {"live", "done"} :
           Call(c, w, e, x, l)
  PROVE  CallTypeOK' /\ pc' \in [Callers -> L]
  <1> USE DEF CallTypeOK
  <1>0. PICK w \in Deserved, e \in SUBSET (1 .. Inputs), x \in {"live", "done"} :
          Call(c, w, e, x, l)
    OBVIOUS
  <1>1. pc' \in [Callers -> L]
    BY <1>0, GotoType DEF Call
  <1>2. ctx' \in [Callers -> {"live", "done"}]
    BY <1>0 DEF Call
  <1>3. want' \in [Callers -> Deserved]
    BY <1>0 DEF Call, Deserved
  <1>4. empty' \in [Callers -> SUBSET (1 .. Inputs)]
    BY <1>0 DEF Call
  <1>5. QED
    BY <1>0, <1>1, <1>2, <1>3, <1>4 DEF Call

(* A cancellation touches the context alone.                               *)
LEMMA CancelType ==
  ASSUME CallTypeOK, NEW L, Located(L), NEW c \in Callers, Cancel(c)
  PROVE  CallTypeOK' /\ pc' \in [Callers -> L]
  <1>1. ctx' \in [Callers -> {"live", "done"}]
    BY DEF Cancel, CallTypeOK
  <1>2. QED
    BY <1>1 DEF Cancel, callVars, CallTypeOK, Located

(* Every step of a call keeps the type of every variable.                  *)
LEMMA CallStepType ==
  ASSUME CallTypeOK, NEW L, Located(L), NEW c \in Callers, CallStep(c)
  PROVE  CallTypeOK' /\ pc' \in [Callers -> L]
<1> USE BufferFacts DEF CallTypeOK
<1>l. {"put", "outlen", "run", "collect", "decode", "unwind", "idle"} \subseteq L
  BY DEF Located, CallSteps
<1>1. CASE Instantiate(c)
  <2>1. /\ pc' \in [Callers -> L]
        /\ struck' \in [Callers -> BOOLEAN]
        /\ outcome' \in [Callers -> Outcomes]
        /\ faults' \in 0 .. MaxFaults
    <3>1. \/ Goto(c, "put") /\ UNCHANGED <<struck, outcome, faults>>
          \/ Fail(c, CloseOnDone, "unwind")
          \/ Fail(c, FALSE, "unwind")
      BY <1>1 DEF Instantiate
    <3>2. "put" \in L /\ "unwind" \in L
      BY <1>l
    <3>3. QED
      BY <3>1, <3>2, OperationType
  <2>2. deferred' \in {deferred, [deferred EXCEPT ![c] = 1]}
    BY <1>1 DEF Instantiate
  <2>3. mods' \in SUBSET Callers
    BY <1>1 DEF Instantiate, ModuleOf
  <2> QED
    BY <1>1, <2>1, <2>2, <2>3 DEF Instantiate
<1>2. CASE Put(c)
  <2>1. /\ pc' \in [Callers -> L]
        /\ struck' \in [Callers -> BOOLEAN]
        /\ outcome' \in [Callers -> Outcomes]
        /\ faults' \in 0 .. MaxFaults
    <3>1. PICK l \in {"outlen", "put"} :
            \/ Goto(c, l) /\ UNCHANGED <<struck, outcome, faults>>
            \/ Fail(c, CloseOnDone, "unwind")
      BY <1>2 DEF Put
    <3>2. l \in L /\ "unwind" \in L
      BY <1>l
    <3>3. QED
      BY <3>1, <3>2, OperationType
  <2>2. held' \in [Callers -> SUBSET Nat]
    BY <1>2 DEF Put, ModuleOf
  <2>3. deferred' \in [Callers -> Nat]
    BY <1>2 DEF Put, ModuleOf
  <2>4. written' \in [Callers -> Deserved \cup {"none"}]
    BY <1>2 DEF Put, ModuleOf, Deserved
  <2> QED
    BY <1>2, <2>1, <2>2, <2>3, <2>4 DEF Put
<1>3. CASE AllocOutLen(c)
  <2>1. /\ pc' \in [Callers -> L]
        /\ struck' \in [Callers -> BOOLEAN]
        /\ outcome' \in [Callers -> Outcomes]
        /\ faults' \in 0 .. MaxFaults
    <3>1. \/ Goto(c, "run") /\ UNCHANGED <<struck, outcome, faults>>
          \/ Fail(c, CloseOnDone, "unwind")
          \/ Fail(c, FALSE, "unwind")
      BY <1>3 DEF AllocOutLen
    <3>2. "run" \in L /\ "unwind" \in L
      BY <1>l
    <3>3. QED
      BY <3>1, <3>2, OperationType
  <2>2. held' \in [Callers -> SUBSET Nat]
    BY <1>3 DEF AllocOutLen, OutLen
  <2>3. deferred' \in [Callers -> Nat]
    BY <1>3 DEF AllocOutLen, OutLen
  <2> QED
    BY <1>3, <2>1, <2>2, <2>3 DEF AllocOutLen, OutLen
<1>4. CASE Run(c)
  <2>1. /\ pc' \in [Callers -> L]
        /\ struck' \in [Callers -> BOOLEAN]
        /\ outcome' \in [Callers -> Outcomes]
        /\ faults' \in 0 .. MaxFaults
    <3>1. \/ Goto(c, "collect") /\ UNCHANGED <<struck, outcome, faults>>
          \/ Fail(c, CloseOnDone, "unwind")
          \/ Fail(c, FALSE, "unwind")
      BY <1>4 DEF Run
    <3>2. "collect" \in L /\ "unwind" \in L
      BY <1>l
    <3>3. QED
      BY <3>1, <3>2, OperationType
  <2>2. held' \in [Callers -> SUBSET Nat]
    BY <1>4 DEF Run, Result
  <2> QED
    BY <1>4, <2>1, <2>2 DEF Run, Result
<1>5. CASE Collect(c)
  <2>1. pc' \in [Callers -> L]
    BY <1>5, <1>l, GotoType DEF Collect, Dealloc, Fail
  <2>2. /\ struck' \in {struck, [struck EXCEPT ![c] = TRUE]}
        /\ outcome' \in {outcome, [outcome EXCEPT ![c] = "fault"]}
        /\ held' \in {held, [held EXCEPT ![c] = @ \ {Result}]}
    BY <1>5 DEF Collect, Dealloc, Fail
  <2>3. reply' \in [Callers -> Replies]
    BY <1>5 DEF Collect, ModuleOf, Deserved, Replies
  <2>4. faults' \in 0 .. MaxFaults
    BY <1>5 DEF Collect, Dealloc, Fail
  <2>5. struck' \in [Callers -> BOOLEAN] /\ outcome' \in [Callers -> Outcomes]
    BY <2>2 DEF Outcomes
  <2>6. held' \in [Callers -> SUBSET Nat]
    BY <2>2
  <2> QED
    BY <1>5, <2>1, <2>3, <2>4, <2>5, <2>6 DEF Collect
<1>6. CASE Decode(c)
  <2>1. pc' \in [Callers -> L]
    BY <1>6, <1>l, GotoType DEF Decode
  <2>2. outcome' \in [Callers -> Outcomes]
    BY <1>6 DEF Decode, Outcomes, Classify
  <2> QED
    BY <1>6, <2>1, <2>2 DEF Decode
<1>7. CASE Unwind(c)
  <2>1. deferred' \in [Callers -> Nat]
    BY <1>7 DEF Unwind, Dealloc, ModuleOf
  <2>2. held' \in [Callers -> SUBSET Nat]
    BY <1>7 DEF Unwind, Dealloc, ModuleOf
  <2>3. mods' \in SUBSET Callers
    BY <1>7 DEF Unwind, Dealloc, ModuleOf
  <2>4. written' \in [Callers -> Deserved \cup {"none"}]
    BY <1>7 DEF Unwind, Dealloc, ModuleOf, Deserved
  <2> QED
    BY <1>7, <2>1, <2>2, <2>3, <2>4 DEF Unwind, Located
<1>8. CASE Return(c)
  <2>1. pc' \in [Callers -> L]
    BY <1>8, <1>l, GotoType DEF Return
  <2>2. ctx' \in [Callers -> {"live", "done"}]
    BY <1>8 DEF Return
  <2>3. want' \in [Callers -> Deserved]
    BY <1>8 DEF Return, Deserved
  <2>4. empty' \in [Callers -> SUBSET (1 .. Inputs)]
    BY <1>8 DEF Return
  <2>5. struck' \in [Callers -> BOOLEAN] /\ outcome' \in [Callers -> Outcomes]
    BY <1>8 DEF Return, Outcomes
  <2>6. reply' \in [Callers -> Replies]
    BY <1>8 DEF Return, Deserved, Replies
  <2> QED
    BY <1>8, <2>1, <2>2, <2>3, <2>4, <2>5, <2>6 DEF Return
<1> QED
  BY <1>1, <1>2, <1>3, <1>4, <1>5, <1>6, <1>7, <1>8 DEF CallStep

-----------------------------------------------------------------------------
(* A step of one caller leaves the others where they are.                  *)

Frame(d) ==
  /\ pc'[d] = pc[d] /\ want'[d] = want[d] /\ empty'[d] = empty[d]
  /\ struck'[d] = struck[d] /\ outcome'[d] = outcome[d]
  /\ deferred'[d] = deferred[d] /\ held'[d] = held[d]
  /\ written'[d] = written[d] /\ reply'[d] = reply[d]
  /\ d \in mods' <=> d \in mods

LEMMA CallStepFrame ==
  ASSUME CallTypeOK, NEW L, Located(L), NEW c \in Callers, CallStep(c),
         NEW d \in Callers, d # c
  PROVE  Frame(d)
  <1> USE DEF Goto, Frame, CallTypeOK, Located
  <1>1. CASE Instantiate(c)
    BY <1>1 DEF Instantiate, Fail, ModuleOf
  <1>2. CASE Put(c)
    BY <1>2 DEF Put, Fail, ModuleOf
  <1>3. CASE AllocOutLen(c)
    BY <1>3 DEF AllocOutLen, Fail
  <1>4. CASE Run(c)
    BY <1>4 DEF Run, Fail
  <1>5. CASE Collect(c)
    BY <1>5 DEF Collect, Dealloc, Fail, ModuleOf
  <1>6. CASE Decode(c)
    BY <1>6 DEF Decode
  <1>7. CASE Unwind(c)
    BY <1>7 DEF Unwind, Dealloc, ModuleOf
  <1>8. CASE Return(c)
    BY <1>8 DEF Return
  <1> QED
    BY <1>1, <1>2, <1>3, <1>4, <1>5, <1>6, <1>7, <1>8 DEF CallStep

(* Past the set-up, a call touches none of the globals.                    *)
LEMMA CallsLeaveTheGlobals ==
  ASSUME NEW L, Located(L), NEW c \in Callers, CallStep(c)
  PROVE  /\ UNCHANGED <<runtime, compiled, open>>
         /\ pc[c] \in CallSteps
         /\ pc'[c] \in CallSteps \cup {"idle"}
         /\ pc'[c] \in CallSteps \ {"unwind"} => pc[c] # "unwind"
  <1> USE DEF Goto, CallSteps, Located
  <1>1. CASE Instantiate(c)
    BY <1>1 DEF Instantiate, Fail, ModuleOf
  <1>2. CASE Put(c)
    BY <1>2 DEF Put, Fail, ModuleOf
  <1>3. CASE AllocOutLen(c)
    BY <1>3 DEF AllocOutLen, Fail
  <1>4. CASE Run(c)
    BY <1>4 DEF Run, Fail
  <1>5. CASE Collect(c)
    BY <1>5 DEF Collect, Dealloc, Fail, ModuleOf
  <1>6. CASE Decode(c)
    BY <1>6 DEF Decode
  <1>7. CASE Unwind(c)
    BY <1>7 DEF Unwind, Dealloc, ModuleOf
  <1>8. CASE Return(c)
    BY <1>8 DEF Return
  <1> QED
    BY <1>1, <1>2, <1>3, <1>4, <1>5, <1>6, <1>7, <1>8 DEF CallStep

-----------------------------------------------------------------------------
(* The verdict of a call                                                   *)

(* A call's own step keeps its verdict the one its request deserves, and a *)
(* fault is one of an operation of its own.                                *)
LEMMA AnswerStep ==
  ASSUME CallTypeOK, NEW L, Located(L), NEW c \in Callers, AnswerInv(c), CallStep(c)
  PROVE  /\ AnswerInv(c)'
         /\ (outcome[c] = "fault" => struck[c]) => (outcome[c] = "fault" => struck[c])'
  <1> USE DEF CallTypeOK, AnswerInv, Goto, Located, CallSteps
  <1>1. CASE Instantiate(c)
    BY <1>1 DEF Instantiate, Fail, ModuleOf
  <1>2. CASE Put(c)
    BY <1>2 DEF Put, Fail, ModuleOf
  <1>3. CASE AllocOutLen(c)
    BY <1>3 DEF AllocOutLen, Fail
  <1>4. CASE Run(c)
    BY <1>4 DEF Run, Fail
  <1>5. CASE Collect(c)
    BY <1>5 DEF Collect, Dealloc, Fail, ModuleOf, Deserved
  <1>6. CASE Decode(c)
    BY <1>6 DEF Decode, Classify, Deserved
  <1>7. CASE Unwind(c)
    BY <1>7 DEF Unwind, Dealloc, ModuleOf
  <1>8. CASE Return(c)
    BY <1>8 DEF Return
  <1> QED
    BY <1>1, <1>2, <1>3, <1>4, <1>5, <1>6, <1>7, <1>8 DEF CallStep

-----------------------------------------------------------------------------
(* The memory of a call                                                    *)

(* A call's own step keeps every deferred cleanup owed and possible.       *)
LEMMA MemoryStep ==
  ASSUME CallTypeOK, NEW L, Located(L), NEW c \in Callers, MemoryInv(c), CallStep(c)
  PROVE  MemoryInv(c)'
  <1> USE BufferFacts DEF CallTypeOK, MemoryInv, Goto, Located, CallSteps
  <1>1. CASE Instantiate(c)
    BY <1>1 DEF Instantiate, Fail, ModuleOf
  <1>2. CASE Put(c)
    BY <1>2 DEF Put, Fail, ModuleOf
  <1>3. CASE AllocOutLen(c)
    BY <1>3 DEF AllocOutLen, Fail
  <1>4. CASE Run(c)
    BY <1>4 DEF Run, Fail
  <1>5. CASE Collect(c)
    BY <1>5 DEF Collect, Dealloc, Fail, ModuleOf
  <1>6. CASE Decode(c)
    BY <1>6 DEF Decode
  <1>7. CASE Unwind(c)
    BY <1>7 DEF Unwind, Dealloc, ModuleOf
  <1>8. CASE Return(c)
    BY <1>8 DEF Return
  <1> QED
    BY <1>1, <1>2, <1>3, <1>4, <1>5, <1>6, <1>7, <1>8 DEF CallStep

(* A caller whose fields stand still keeps its verdict and its memory.     *)
LEMMA FramePreserves ==
  ASSUME NEW d \in Callers, Frame(d), AnswerInv(d), MemoryInv(d)
  PROVE  AnswerInv(d)' /\ MemoryInv(d)'
  BY DEF Frame, AnswerInv, MemoryInv

(* What the invariants of its calls say about an engine.                   *)
LEMMA CallsAreSafe ==
  ASSUME \A c \in Callers : AnswerInv(c) /\ MemoryInv(c)
  PROVE  AnswersAreOwn /\ ModuleOutlivesUse /\ DeallocsAreOwed
  <1>1. AnswersAreOwn
    BY DEF AnswerInv, AnswersAreOwn
  <1>2. ModuleOutlivesUse
    <2> SUFFICES ASSUME NEW c \in Callers
                 PROVE  /\ held[c] # {} \/ deferred[c] > 0 => c \in mods
                        /\ pc[c] = "idle" => c \notin mods
      BY DEF ModuleOutlivesUse, ModuleOf
    <2>1. MemoryInv(c)
      OBVIOUS
    <2>2. QED
      BY <2>1 DEF MemoryInv, CallSteps
  <1>3. DeallocsAreOwed
    BY DEF MemoryInv, DeallocsAreOwed
  <1>4. QED
    BY <1>1, <1>2, <1>3
=============================================================================
