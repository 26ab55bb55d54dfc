---------------------------- MODULE Calls_proofs ----------------------------
(***************************************************************************)
(* The calls that take several steps outside an engine.                    *)
(*                                                                         *)
(* For any number of concurrent callers: slugify answers in its own        *)
(* caller's case, whatever other calls do to the library's global, and the *)
(* global is the library's own whenever nobody holds the lock.  The        *)
(* invariant IInv splits into the lock's part, which one caller's step can *)
(* disturb for another, and the options' part, which it cannot.            *)
(*                                                                         *)
(* For any limits and any program: the answer of jq is the whole output or *)
(* an error that was earned.  Neither function is disturbed by the other   *)
(* one's standing beside it (EitherIsSafe).                                *)
(*                                                                         *)
(* For any expression, any notation and any chain of decodes, splices and  *)
(* encodes: a text of PromQL, Okta's language or CEL is the one that was   *)
(* meant, and a refusal has a reason.  The argument goes up the tree: what *)
(* encode builds of a node is given by what it builds of the parts         *)
(* (Known), decode makes such a node of every expression (the *Read        *)
(* lemmas), and a context around the data becomes the same context around  *)
(* the expression (the *Spliced lemmas).  Whatever is not an expression    *)
(* stops at a part that has a name (Bad), or holds unknown text.  What is  *)
(* true of the data of one call (CarriedBy) is then true of a chain        *)
(* (LanguagesInv).                                                         *)
(***************************************************************************)
EXTENDS Calls, Languages, NumberLemmas

-----------------------------------------------------------------------------
(* slugify *)

(* The default options object is one a caller may give. *)
LEMMA DefaultIsValue == Default \in Values
  BY DEF Default, Values

(* A jump to a label keeps pc a function into the labels. *)
LEMMA GotoType ==
  ASSUME TypeOK, NEW c \in Callers, NEW label \in Labels, Goto(c, label)
  PROVE  pc' \in [Callers -> Labels]
  BY DEF Goto, TypeOK

-----------------------------------------------------------------------------
(* Type correctness *)

(* Every variable keeps its type. *)
LEMMA TypeStep == TypeOK /\ [Next]_vars => TypeOK'
<1> SUFFICES ASSUME TypeOK, [Next]_vars PROVE TypeOK'
  OBVIOUS
<1> USE DEF TypeOK
<1>1. ASSUME NEW c \in Callers, Call(c) PROVE TypeOK'
  <2>1. pc' \in [Callers -> Labels]
    <3>1. Goto(c, "parse") \/ Goto(c, "return")
      BY <1>1 DEF Call
    <3> QED BY <3>1, GotoType DEF Labels
  <2>2. attrs' \in [Callers -> Values] /\ todo' \in [Callers -> SUBSET Keys]
    BY <1>1 DEF Call, Given
  <2>3. result' \in [Callers -> {"none", "error", "panic", "lower", "cased"}]
    BY <1>1 DEF Call
  <2> QED BY <1>1, <2>1, <2>2, <2>3 DEF Call
<1>2. ASSUME NEW c \in Callers, Lock(c) PROVE TypeOK'
  <2>1. pc' \in [Callers -> Labels]
    BY <1>2, GotoType DEF Lock, Labels
  <2> QED BY <1>2, <2>1 DEF Lock
<1>3. ASSUME NEW c \in Callers, Visit(c) PROVE TypeOK'
  <2>1. pc' \in [Callers -> Labels]
    BY <1>3, GotoType DEF Visit, Labels
  <2>2. todo' \in [Callers -> SUBSET Keys]
    BY <1>3 DEF Visit
  <2>3. lowercase' \in [Callers -> BOOLEAN]
    BY <1>3 DEF Visit
  <2>4. result' \in [Callers -> {"none", "error", "panic", "lower", "cased"}]
    BY <1>3 DEF Visit
  <2> QED BY <1>3, <2>1, <2>2, <2>3, <2>4 DEF Visit
<1>4. ASSUME NEW c \in Callers, Parsed(c) PROVE TypeOK'
  <2>1. pc' \in [Callers -> Labels]
    BY <1>4, GotoType DEF Parsed, Labels
  <2> QED BY <1>4, <2>1 DEF Parsed
<1>5. ASSUME NEW c \in Callers, Save(c) PROVE TypeOK'
  <2>1. pc' \in [Callers -> Labels]
    BY <1>5, GotoType DEF Save, Labels
  <2> QED BY <1>5, <2>1 DEF Save
<1>6. ASSUME NEW c \in Callers, Swap(c) PROVE TypeOK'
  <2>1. pc' \in [Callers -> Labels]
    BY <1>6, GotoType DEF Swap, Labels
  <2> QED BY <1>6, <2>1 DEF Swap
<1>7. ASSUME NEW c \in Callers, Make(c) PROVE TypeOK'
  <2>1. pc' \in [Callers -> Labels]
    BY <1>7, GotoType DEF Make, Labels
  <2>2. result' \in [Callers -> {"none", "error", "panic", "lower", "cased"}]
    BY <1>7 DEF Make
  <2> QED BY <1>7, <2>1, <2>2 DEF Make
<1>8. ASSUME NEW c \in Callers, Restore(c) PROVE TypeOK'
  <2>1. pc' \in [Callers -> Labels]
    BY <1>8, GotoType DEF Restore, Labels
  <2> QED BY <1>8, <2>1 DEF Restore
<1>9. ASSUME NEW c \in Callers, Unlock(c) PROVE TypeOK'
  <2>1. pc' \in [Callers -> Labels]
    BY <1>9, GotoType DEF Unlock, Labels
  <2> QED BY <1>9, <2>1 DEF Unlock
<1>10. ASSUME NEW c \in Callers, Return(c) PROVE TypeOK'
  <2>1. pc' \in [Callers -> Labels]
    BY <1>10, GotoType DEF Return, Labels
  <2>2. attrs' \in [Callers -> Values]
    BY <1>10, DefaultIsValue DEF Return
  <2>3. prev' \in [Callers -> BOOLEAN]
    BY <1>10 DEF Return, LibraryDefault
  <2> QED BY <1>10, <2>1, <2>2, <2>3 DEF Return
<1>11. CASE UNCHANGED vars
  BY <1>11 DEF vars
<1> QED
  BY <1>1, <1>2, <1>3, <1>4, <1>5, <1>6, <1>7, <1>8, <1>9, <1>10, <1>11
  DEF Next, Step

(* The options and the result *)

(* What a caller keeps to itself stands still. *)
Frame(d) ==
  /\ pc'[d] = pc[d] /\ attrs'[d] = attrs[d] /\ todo'[d] = todo[d]
  /\ lowercase'[d] = lowercase[d] /\ prev'[d] = prev[d] /\ result'[d] = result[d]

(* A step of one caller leaves the others where they are. *)
LEMMA OthersUntouched ==
  ASSUME TypeOK, NEW c \in Callers, NEW d \in Callers, d # c,
         Call(c) \/ Lock(c) \/ Step(c)
  PROVE  Frame(d)
<1> USE DEF Frame, TypeOK, Goto
<1>1. CASE Call(c)
  BY <1>1 DEF Call
<1>2. CASE Lock(c)
  BY <1>2 DEF Lock
<1>3. CASE Visit(c)
  BY <1>3 DEF Visit
<1>4. CASE Parsed(c) \/ Save(c) \/ Swap(c)
  BY <1>4 DEF Parsed, Save, Swap
<1>5. CASE Make(c)
  BY <1>5 DEF Make
<1>6. CASE Restore(c) \/ Unlock(c)
  BY <1>6 DEF Restore, Unlock
<1>7. CASE Return(c)
  BY <1>7 DEF Return
<1> QED BY <1>1, <1>2, <1>3, <1>4, <1>5, <1>6, <1>7 DEF Step

(* A caller's own step keeps its options and its result in accord: the     *)
(* attributes are visited in any order, and the slug is made under the     *)
(* caller's own setting, which LockInv puts into the global.               *)
LEMMA ParseStep ==
  ASSUME TypeOK, LockInv, NEW c \in Callers, ParseInv(c),
         Call(c) \/ Lock(c) \/ Step(c)
  PROVE  ParseInv(c)'
<1> USE DEF ParseInv, TypeOK, Goto, Wanted, Unfit
<1>1. CASE Call(c)
  <2>1. PICK a \in Values :
          /\ attrs' = [attrs EXCEPT ![c] = a]
          /\ \/ /\ a.input = "long"
                /\ result' = [result EXCEPT ![c] = "error"]
                /\ Goto(c, "return")
             \/ /\ a.input = "ok" /\ Goto(c, "parse") /\ UNCHANGED result
                /\ todo' = [todo EXCEPT ![c] = Given(a)]
    BY <1>1 DEF Call
  <2>2. \A k \in Keys \ Given(a) : a[k] = "absent"
    BY DEF Given
  <2>3. "lowercase" \in Given(a) \/ a["lowercase"] = "absent"
    BY DEF Given, Keys
  <2>4. CASE a.input = "long"
    <3>1. attrs'[c] = a /\ result'[c] = "error" /\ pc'[c] = "return"
      BY <2>1, <2>4
    <3>2. Unfit(attrs'[c])
      BY <2>4, <3>1
    <3> HIDE DEF Unfit, Wanted, TypeOK
    <3> QED BY <2>4, <3>1, <3>2
  <2>5. CASE a.input = "ok"
    BY <1>1, <2>1, <2>2, <2>3, <2>5 DEF Call
  <2> QED BY <2>1, <2>4, <2>5
<1>2. CASE Lock(c)
  BY <1>2 DEF Lock
<1>3. CASE Visit(c)
  <2>1. PICK k \in todo[c] :
          /\ todo' = [todo EXCEPT ![c] = @ \ {k}]
          /\ IF attrs[c][k] = "bad"
             THEN /\ result' = [result EXCEPT ![c] = "error"]
                  /\ Goto(c, "return")
                  /\ UNCHANGED lowercase
             ELSE /\ lowercase' = [lowercase EXCEPT ![c] =
                                    IF k = "lowercase" THEN attrs[c][k] = "true" ELSE @]
                  /\ UNCHANGED <<pc, result>>
    BY <1>3 DEF Visit
  <2>2. k \in Keys /\ attrs[c][k] # "absent"
    BY <1>3 DEF Visit, Given
  <2>3. attrs[c]["lowercase"] \in {"absent", "true", "false", "bad"}
    BY DEF Values
  <2>4. CASE attrs[c][k] = "bad"
    BY <1>3, <2>1, <2>2, <2>4 DEF Visit
  <2>5. CASE attrs[c][k] # "bad"
    <3>1. result'[c] = "none" /\ pc'[c] = "parse" /\ attrs' = attrs
      BY <1>3, <2>1, <2>5 DEF Visit
    <3>2. \A j \in Keys \ todo'[c] : attrs[c][j] # "bad"
      BY <1>3, <2>1, <2>5 DEF Visit
    <3>3. lowercase'[c] = ("lowercase" \in todo'[c] \/ attrs[c]["lowercase"] # "false")
      BY <1>3, <2>1, <2>2, <2>3, <2>5 DEF Visit
    <3>4. todo'[c] \subseteq Given(attrs'[c])
      BY <1>3, <2>1, <3>1 DEF Visit
    <3>5. attrs'[c].input = "ok"
      BY <1>3, <3>1 DEF Visit
    <3> HIDE DEF Unfit, Wanted, TypeOK
    <3> QED BY <3>1, <3>2, <3>3, <3>4, <3>5
  <2> QED BY <2>4, <2>5
<1>4. CASE Parsed(c) \/ Save(c) \/ Swap(c)
  BY <1>4 DEF Parsed, Save, Swap
<1>5. CASE Make(c)
  <2>1. \A k \in Keys : attrs[c][k] # "bad"
    BY <1>5 DEF Make
  <2>4. attrs[c].input = "ok" /\ ~Unfit(attrs[c])
    BY <1>5, <2>1 DEF Make
  <2>2. Lowercase = (attrs[c]["lowercase"] # "false")
    BY <1>5 DEF Make, LockInv
  <2>3. result'[c] \in {IF Lowercase THEN "lower" ELSE "cased", "panic"}
    BY <1>5 DEF Make
  <2>5. attrs' = attrs /\ pc'[c] = "restore" /\ result'[c] # "none"
    BY <1>5, <2>3 DEF Make
  <2>6. result'[c] \in {Wanted(c)', "panic"}
    <3>1. Wanted(c)' = IF Lowercase THEN "lower" ELSE "cased"
      BY <2>2, <2>5
    <3> QED BY <2>3, <3>1
  <2> HIDE DEF Unfit, Wanted, TypeOK
  <2> QED BY <2>4, <2>5, <2>6
<1>6. CASE Restore(c) \/ Unlock(c)
  BY <1>6 DEF Restore, Unlock
<1>7. CASE Return(c)
  BY <1>7 DEF Return
<1> QED BY <1>1, <1>2, <1>3, <1>4, <1>5, <1>6, <1>7 DEF Step

-----------------------------------------------------------------------------
(* The lock and the global *)

(* A caller's step keeps the global in order: only the holder of the lock  *)
(* writes it, and the holder restores what it saved before it unlocks.     *)
LEMMA LockStep ==
  ASSUME TypeOK, LockInv, NEW c \in Callers, Call(c) \/ Lock(c) \/ Step(c)
  PROVE  LockInv'
<1> USE DEF LockInv, TypeOK, Goto, Holding
<1>0. \A d \in Callers : d # c => Frame(d)
  BY OthersUntouched
<1>1. CASE Call(c)
  <2>1. pc'[c] \in {"parse", "return"} /\ UNCHANGED <<prev, slugifyMu, Lowercase>>
    BY <1>1 DEF Call
  <2>2. \A d \in Callers : d # c => pc'[d] = pc[d] /\ lowercase'[d] = lowercase[d]
    BY <1>0 DEF Frame
  <2> QED BY <2>1, <2>2
<1>2. CASE Lock(c)
  BY <1>0, <1>2, SlugifyAssumption DEF Lock, Frame
<1>3. CASE Visit(c)
  BY <1>0, <1>3 DEF Visit, Frame
<1>4. CASE Parsed(c)
  BY <1>0, <1>4 DEF Parsed, Frame
<1>5. CASE Save(c)
  BY <1>0, <1>5 DEF Save, Frame
<1>6. CASE Swap(c)
  BY <1>0, <1>6, SlugifyAssumption DEF Swap, Frame
<1>7. CASE Make(c)
  BY <1>0, <1>7 DEF Make, Frame
<1>8. CASE Restore(c)
  BY <1>0, <1>8, SlugifyAssumption DEF Restore, Frame
<1>9. CASE Unlock(c)
  BY <1>0, <1>9, SlugifyAssumption DEF Unlock, Frame
<1>10. CASE Return(c)
  BY <1>0, <1>10 DEF Return, Frame
<1> QED BY <1>1, <1>2, <1>3, <1>4, <1>5, <1>6, <1>7, <1>8, <1>9, <1>10 DEF Step

-----------------------------------------------------------------------------
(* The invariant and what follows from it *)

(* The inductive invariant holds in every reachable state. *)
THEOREM Inductive == Spec => []IInv
<1>1. Init => IInv
  <2> SUFFICES ASSUME Init PROVE IInv
    OBVIOUS
  <2>1. TypeOK
    BY DefaultIsValue DEF Init, TypeOK, Labels, LibraryDefault
  <2>2. LockInv
    BY DEF Init, LockInv, Holding
  <2>3. \A c \in Callers : ParseInv(c)
    BY DEF Init, ParseInv
  <2> QED BY <2>1, <2>2, <2>3 DEF IInv
<1>2. IInv /\ [Next]_vars => IInv'
  <2> SUFFICES ASSUME IInv, [Next]_vars PROVE IInv'
    OBVIOUS
  <2>1. TypeOK'
    BY TypeStep DEF IInv
  <2>2. ASSUME NEW c \in Callers, Call(c) \/ Lock(c) \/ Step(c)
        PROVE  LockInv' /\ \A d \in Callers : ParseInv(d)'
    <3>1. LockInv'
      BY <2>2, LockStep DEF IInv
    <3>2. ParseInv(c)'
      BY <2>2, ParseStep DEF IInv
    <3>3. ASSUME NEW d \in Callers, d # c PROVE ParseInv(d)'
      <4>1. Frame(d) /\ ParseInv(d)
        BY <2>2, <3>3, OthersUntouched DEF IInv
      <4> QED BY <4>1 DEF Frame, ParseInv, Wanted, Unfit
    <3> QED BY <3>1, <3>2, <3>3
  <2>3. CASE UNCHANGED vars
    BY <2>3 DEF vars, IInv, LockInv, ParseInv, Wanted, Unfit, TypeOK
  <2> QED BY <2>1, <2>2, <2>3 DEF Next, IInv
<1> QED BY <1>1, <1>2, PTL DEF Spec

(* Every variable keeps its type, whatever the callers do. *)
THEOREM TypeCorrect == Spec => []TypeOK
<1>1. IInv => TypeOK
  BY DEF IInv
<1> QED BY <1>1, Inductive, PTL

(* A slug is in the case its own caller asked for, for any number of       *)
(* concurrent callers and any order of visiting the options.               *)
THEOREM AlwaysOwnCase == Spec => []OwnCase
<1>1. IInv => OwnCase
  BY DEF IInv, ParseInv, OwnCase
<1> QED BY <1>1, Inductive, PTL

(* The library has its own setting back whenever nobody holds the lock. *)
THEOREM AlwaysRestored == Spec => []RestoredWhenFree
<1>1. IInv => RestoredWhenFree
  BY DEF IInv, LockInv, RestoredWhenFree
<1> QED BY <1>1, Inductive, PTL

(* The global changes only in the hands of the lock holder. *)
THEOREM OnlyTheHolderSwaps == Spec => SwappedUnderLock
<1>1. IInv /\ [Next]_vars => (Lowercase' # Lowercase => slugifyMu # None /\ slugifyMu' = slugifyMu)
  <2> SUFFICES ASSUME IInv, [Next]_vars, Lowercase' # Lowercase
               PROVE  slugifyMu # None /\ slugifyMu' = slugifyMu
    OBVIOUS
  <2>1. PICK c \in Callers : Swap(c) \/ Restore(c)
    BY DEF Next, Step, Call, Lock, Visit, Parsed, Save, Make, Unlock, Return, vars
  <2> QED BY <2>1, SlugifyAssumption DEF Swap, Restore, IInv, LockInv, Holding
<1> QED BY <1>1, Inductive, PTL DEF Spec, SwappedUnderLock

-----------------------------------------------------------------------------
(* jq *)

(* The answers are told apart. *)
LEMMA AnswerFacts ==
  /\ \A k : ~Result(k).error /\ Result(k).arg = k
  /\ \A a : ArgError(a).error /\ \A k : ArgError(a) # Result(k)
  /\ FuncError.error /\ \A k : FuncError # Result(k)
  /\ Result("unknown") # Result("value")
  /\ Result("none") # Result("value") /\ Result("none") # Result("unknown")
  BY DEF Result, ArgError, FuncError

(* What a call can be made with. *)
LEMMA CallFacts ==
  ASSUME call \in JqCall
  PROVE  /\ call.unknown \in BOOLEAN /\ call.convertible \in BOOLEAN
         /\ call.options \in {"none", "ok", "two", "scalar", "key", "vars"}
         /\ call.program \in {"ok", "unparsable", "uncompilable"}
  BY DEF JqCall

(* What is appended comes last and lengthens the sequence by one. *)
LEMMA Appended ==
  ASSUME NEW s \in Seq(Value), NEW v \in Value
  PROVE  /\ Append(s, v) \in Seq(Value)
         /\ Len(Append(s, v)) = Len(s) + 1 /\ Len(s) \in Nat
         /\ Len(s) + 1 \in DOMAIN Append(s, v)
         /\ Append(s, v)[Len(s) + 1] = v
  OBVIOUS

(* What can be answered. *)
LEMMA AnswerTypes ==
  /\ Result("none") \in Answers /\ Result("unknown") \in Answers
  /\ Result("value") \in Answers /\ FuncError \in Answers
  /\ \A a \in {"value", "program", "options"} : ArgError(a) \in Answers
  BY DEF Answers

(* Every step preserves the types. *)
LEMMA JqTypeStep == JqInv /\ [JqNext]_jqVars => JqTypeOK'
<1> SUFFICES ASSUME JqInv, [JqNext]_jqVars PROVE JqTypeOK'
  OBVIOUS
<1> USE AnswerFacts, AnswerTypes
<1>0. Len(results) \in Nat /\ MaxOutputs \in Nat
  <2>1. results \in Seq(Value)
    BY DEF JqInv, JqTypeOK
  <2>2. Len(results) \in Nat
    BY <2>1
  <2> QED BY <2>2, LimitsAssumption
<1>1. CASE Arguments
  BY <1>1, CallFacts DEF JqInv, JqTypeOK, Kept, Arguments, Respond
<1>2. CASE Parse
  BY <1>2, CallFacts DEF JqInv, JqTypeOK, Kept, Parse, Respond
<1>3. CASE Compile
  BY <1>3, CallFacts DEF JqInv, JqTypeOK, Kept, Compile, Respond
<1>4. CASE Convert
  BY <1>4 DEF JqInv, JqTypeOK, Kept, Convert, Respond
<1>5. ASSUME NEW v \in Value, Emit(v) PROVE JqTypeOK'
  <2>1. Append(results, v) \in Seq(Value) /\ Append(emitted, v) \in Seq(Value)
        /\ Len(Append(results, v)) = Len(results) + 1
    BY Appended DEF JqInv, JqTypeOK
  <2>2. CASE Len(results) >= MaxOutputs \/ v.depth >= MaxDepth
    <3>1. /\ stage' = "done" /\ answer' = ArgError("program") /\ results' = results
          /\ emitted' = Append(emitted, v)
          /\ UNCHANGED <<call, ended, timer, ctxDone>>
      BY <1>5, <2>2 DEF Emit, Respond
    <3> QED BY <2>1, <3>1 DEF JqInv, JqTypeOK
  <2>3. CASE ~(Len(results) >= MaxOutputs \/ v.depth >= MaxDepth)
    <3>1. /\ results' = Append(results, v) /\ emitted' = Append(emitted, v)
          /\ UNCHANGED <<call, stage, ended, timer, ctxDone, answer>>
      BY <1>5, <2>3 DEF Emit
    <3>2. Len(results') <= MaxOutputs
      BY <1>0, <2>1, <2>3, <3>1
    <3> QED BY <2>1, <3>1, <3>2 DEF JqInv, JqTypeOK
  <2> QED BY <2>2, <2>3
<1>6. ASSUME NEW how \in {"end", "error"}, End(how) PROVE JqTypeOK'
  BY <1>6 DEF JqInv, JqTypeOK, Kept, End, Respond
<1>7. CASE Interrupt
  BY <1>7 DEF JqInv, JqTypeOK, Kept, Interrupt
<1>8. CASE Notice
  BY <1>8 DEF JqInv, JqTypeOK, Kept, Notice, Respond
<1>9. CASE UNCHANGED jqVars
  BY <1>9 DEF JqInv, JqTypeOK, jqVars
<1> QED BY <1>1, <1>2, <1>3, <1>4, <1>5, <1>6, <1>7, <1>8, <1>9 DEF JqNext

(* Every step keeps the rest of the invariant. *)
LEMMA InvStep ==
  JqInv /\ [JqNext]_jqVars => (Kept /\ Checked /\ CompleteOrError /\ ErrorsAreEarned)'
<1> SUFFICES ASSUME JqInv, [JqNext]_jqVars
             PROVE  (Kept /\ Checked /\ CompleteOrError /\ ErrorsAreEarned)'
  OBVIOUS
<1> USE AnswerFacts DEF Kept, Checked, CompleteOrError, ErrorsAreEarned
<1>1. CASE Arguments
  <2>1. /\ stage = "args" /\ results = emitted /\ ended = "" /\ answer = Result("none")
        /\ UNCHANGED <<call, results, emitted, ended, timer, ctxDone>>
    BY <1>1 DEF JqInv, Arguments
  <2>2. /\ call.unknown \in BOOLEAN /\ call.convertible \in BOOLEAN
        /\ call.options \in {"none", "ok", "two", "scalar", "key", "vars"}
    BY CallFacts DEF JqInv, JqTypeOK
  <2>3. CASE call.unknown
    <3>1. stage' = "done" /\ answer' = Result("unknown")
      BY <1>1, <2>3 DEF Arguments, Respond
    <3> QED BY <2>1, <3>1
  <2>4. CASE ~call.unknown /\ call.options \in {"none", "ok"} /\ call.convertible
    <3>1. stage' = "parse" /\ answer' = answer
      BY <1>1, <2>4 DEF Arguments
    <3>2. answer' # Result("value") /\ ~answer'.error
      BY <2>1, <3>1
    <3> QED BY <2>1, <2>4, <3>1, <3>2
  <2>5. CASE ~call.unknown /\ (call.options \notin {"none", "ok"} \/ ~call.convertible)
    <3>1. stage' = "done" /\ answer' \in {ArgError("program"), ArgError("options"), ArgError("value")}
      BY <1>1, <2>2, <2>5 DEF Arguments, Respond
    <3>2. answer' # Result("value")
      BY <3>1
    <3> QED BY <2>1, <2>5, <3>1, <3>2
  <2> QED BY <2>3, <2>4, <2>5
<1>2. CASE Parse
  BY <1>2, CallFacts DEF JqInv, JqTypeOK, Parse, Respond
<1>3. CASE Compile
  <2>1. /\ results = emitted /\ stage = "compile" /\ ended = "" /\ answer = Result("none")
        /\ UNCHANGED <<call, results, emitted, ended, timer, ctxDone>>
    BY <1>3 DEF JqInv, Compile
  <2>2. CASE call.program = "uncompilable"
    BY <1>3, <2>1, <2>2 DEF Compile, Respond
  <2>3. CASE call.program # "uncompilable"
    <3>1. call.program = "ok"
      BY <2>1, <2>3, CallFacts DEF JqInv, JqTypeOK
    <3>2. stage' = "loop" /\ answer' = answer
      BY <1>3, <2>3 DEF Compile
    <3>3. ~call.unknown /\ call.options \in {"none", "ok"} /\ call.convertible
      BY <2>1 DEF JqInv
    <3>4. answer' # Result("value") /\ ~answer'.error
      BY <2>1, <3>2
    <3> QED BY <2>1, <3>1, <3>2, <3>3, <3>4
  <2> QED BY <2>2, <2>3
<1>4. CASE Convert
  BY <1>4 DEF JqInv, JqTypeOK, Convert, Respond
<1>5. ASSUME NEW v \in Value, Emit(v)
      PROVE  (Kept /\ Checked /\ CompleteOrError /\ ErrorsAreEarned)'
  <2>1. results = emitted /\ emitted \in Seq(Value) /\ stage = "loop"
    BY <1>5 DEF JqInv, JqTypeOK, Emit
  <2>2. /\ Len(emitted') = Len(emitted) + 1 /\ Len(emitted) \in Nat
        /\ Len(emitted) + 1 \in DOMAIN emitted' /\ emitted'[Len(emitted) + 1] = v
    BY <1>5, <2>1, Appended DEF Emit
  <2>3. v.depth \in Int /\ MaxDepth \in Int /\ MaxOutputs \in Int
    BY LimitsAssumption DEF Value
  <2>4. CASE Len(results) >= MaxOutputs \/ v.depth >= MaxDepth
    <3>1. \/ Len(emitted') > MaxOutputs
          \/ \E i \in DOMAIN emitted' :
               ~emitted'[i].finite \/ emitted'[i].depth + 1 >= MaxDepth
      BY <2>1, <2>2, <2>3, <2>4
    <3> QED BY <1>5, <2>4, <3>1 DEF Emit, Respond
  <2>5. CASE ~(Len(results) >= MaxOutputs \/ v.depth >= MaxDepth)
    <3>1. /\ results' = Append(results, v) /\ emitted' = Append(emitted, v)
          /\ UNCHANGED <<call, stage, ended, timer, ctxDone, answer>>
      BY <1>5, <2>5 DEF Emit
    <3>2. answer = Result("none") /\ ended = ""
      BY <2>1 DEF JqInv
    <3> QED BY <2>1, <3>1, <3>2 DEF JqInv
  <2> QED BY <2>4, <2>5
<1>6. ASSUME NEW how \in {"end", "error"}, End(how)
      PROVE  (Kept /\ Checked /\ CompleteOrError /\ ErrorsAreEarned)'
  BY <1>6 DEF JqInv, JqTypeOK, End, Respond
<1>7. CASE Interrupt
  BY <1>7 DEF JqInv, JqTypeOK, Interrupt
<1>8. CASE Notice
  BY <1>8 DEF JqInv, JqTypeOK, Notice, Respond
<1>9. CASE UNCHANGED jqVars
  BY <1>9 DEF JqInv, jqVars
<1> QED BY <1>1, <1>2, <1>3, <1>4, <1>5, <1>6, <1>7, <1>8, <1>9 DEF JqNext

(* Before its first step a call owes nothing, and neither does one that    *)
(* has returned.                                                           *)
LEMMA JqStarts == JqInit \/ JqIdle => JqInv
<1>1. <<>> \in Seq(Value) /\ Len(<<>>) = 0 /\ 0 <= MaxOutputs
  BY LimitsAssumption
<1>2. ASSUME JqInit PROVE JqInv
  <2>1. answer \in Answers /\ ~answer.error /\ answer # Result("value")
    BY <1>2, AnswerFacts, AnswerTypes DEF JqInit
  <2> QED
    BY <1>1, <1>2, <2>1
    DEF JqInit, JqInv, JqTypeOK, Kept, Checked, CompleteOrError, ErrorsAreEarned
<1>3. ASSUME JqIdle PROVE JqInv
  <2>1. call \in JqCall
    BY <1>3 DEF JqIdle, JqCall
  <2>2. /\ answer \in Answers /\ ~answer.error
        /\ answer # Result("value") /\ answer # Result("none")
    BY <1>3, AnswerFacts, AnswerTypes DEF JqIdle, Result
  <2> QED
    BY <1>1, <1>3, <2>1, <2>2
    DEF JqIdle, JqInv, JqTypeOK, Kept, Checked, CompleteOrError, ErrorsAreEarned
<1> QED BY <1>2, <1>3

(* The invariant of a call. *)
LEMMA JqInductive == JqSpec => []JqInv
<1>1. JqInit => JqInv
  BY JqStarts
<1>2. JqInv /\ [JqNext]_jqVars => JqInv'
  BY JqTypeStep, InvStep DEF JqInv
<1> QED BY <1>1, <1>2, PTL DEF JqSpec

(* The type invariant of jq, the output limit included. *)
THEOREM JqTypeCorrect == JqSpec => []JqTypeOK
<1>1. JqInv => JqTypeOK
  BY DEF JqInv
<1> QED BY <1>1, JqInductive, PTL

(* A list jq returns is the program's whole output, and within the limit. *)
THEOREM AlwaysComplete == JqSpec => []CompleteOrError
<1>1. JqInv => CompleteOrError
  BY DEF JqInv
<1> QED BY <1>1, JqInductive, PTL

(* jq refuses nothing without a reason. *)
THEOREM AlwaysEarned == JqSpec => []ErrorsAreEarned
<1>1. JqInv => ErrorsAreEarned
  BY DEF JqInv
<1> QED BY <1>1, JqInductive, PTL

(* The two functions as the run has them, one beside the other: slugify is *)
(* safe for its callers and for the library, and jq's answer is whole or   *)
(* earned.                                                                 *)
THEOREM EitherIsSafe ==
  CallsSpec => [](OwnCase /\ RestoredWhenFree /\ CompleteOrError /\ ErrorsAreEarned)
<1>1. CallsInit => Init /\ JqInv
  BY JqStarts DEF CallsInit
<1>2. [CallsNext]_callsVars => [Next]_vars /\ [JqNext]_jqVars
  BY DEF CallsNext, callsVars
<1>3. JqInv /\ [JqNext]_jqVars => JqInv'
  BY JqTypeStep, InvStep DEF JqInv
<1>4. JqInv => CompleteOrError /\ ErrorsAreEarned
  BY DEF JqInv
<1>5. CallsSpec => Spec
  BY <1>1, <1>2, PTL DEF CallsSpec, Spec
<1> QED BY <1>1, <1>2, <1>3, <1>4, <1>5, AlwaysOwnCase, AlwaysRestored, PTL DEF CallsSpec

(* What the stages of each recursive function rest on. *)
LEMMA NumbersHaveLeast == \A T \in SUBSET Nat : T # {} => \E n \in T : \A k \in T : n <= k
  BY FirstPosition

(* The parts of a tree or an expression. *)

LEMMA LayerIs ==
  ASSUME NEW x
  PROVE  /\ Layer(x, 0) = {x}
         /\ \A n \in Nat : Layer(x, n + 1) = UNION {HeldBy(w) : w \in Layer(x, n)}
<1>1. /\ Layers!Stage(x)[0] = FirstLayer(x)
      /\ \A n \in Nat : Layers!Stage(x)[n + 1] = NextLayer(x, Layers!Stage(x)[n])
  BY NumbersHaveLeast, Layers!StageIs
<1>2. Layer(x, 0) = {x}
  BY <1>1 DEF Layer, FirstLayer
<1>3. ASSUME NEW n \in Nat PROVE Layer(x, n + 1) = UNION {HeldBy(w) : w \in Layer(x, n)}
  <2> DEFINE s == Layers!Stage(x)[n]
  <2>1. Layers!Stage(x)[n + 1] = NextLayer(x, s)
    BY <1>1
  <2> HIDE DEF s
  <2>2. NextLayer(x, s).layer = UNION {HeldBy(w) : w \in s.layer}
    BY DEF NextLayer, HeldBy
  <2>3. Layer(x, n + 1) = UNION {HeldBy(w) : w \in s.layer}
    BY <2>1, <2>2 DEF Layer
  <2> QED BY <2>3 DEF s, Layer
<1> QED BY <1>2, <1>3

(* What is above the n-th layer. *)
LEMMA AboveIs ==
  ASSUME NEW x, NEW n \in Nat
  PROVE  Layers!Stage(x)[n].above = UNION {Layer(x, i) : i \in 0 .. n - 1}
<1> DEFINE above(i) == Layers!Stage(x)[i].above
           bad == {i \in Nat : above(i) # UNION {Layer(x, j) : j \in 0 .. i - 1}}
<1>1. /\ Layers!Stage(x)[0] = FirstLayer(x)
      /\ \A i \in Nat : Layers!Stage(x)[i + 1] = NextLayer(x, Layers!Stage(x)[i])
  BY NumbersHaveLeast, Layers!StageIs
<1>2. above(0) = {}
  BY <1>1 DEF FirstLayer
<1>3. \A i \in Nat : above(i + 1) = above(i) \cup Layer(x, i)
  <2> TAKE i \in Nat
  <2> DEFINE s == Layers!Stage(x)[i]
  <2>1. Layers!Stage(x)[i + 1] = NextLayer(x, s)
    BY <1>1
  <2> HIDE DEF s
  <2>2. NextLayer(x, s).above = s.above \cup s.layer
    BY DEF NextLayer
  <2>3. above(i + 1) = s.above \cup s.layer
    BY <2>1, <2>2
  <2> QED BY <2>3 DEF s, Layer
<1>4. SUFFICES ASSUME bad # {} PROVE FALSE
  OBVIOUS
<1>5. PICK i \in bad : \A j \in bad : i <= j
  <2> HIDE DEF bad
  <2>1. bad \subseteq Nat
    BY DEF bad
  <2> QED BY <1>4, <2>1, FirstPosition
<1>6. i # 0
  BY <1>2
<1>7. i - 1 \in Nat /\ i - 1 \notin bad
  BY <1>5, <1>6
<1>8. above(i - 1) = UNION {Layer(x, j) : j \in 0 .. (i - 1) - 1}
  BY <1>7
<1>9. above(i) = above(i - 1) \cup Layer(x, i - 1)
  BY <1>3, <1>7
<1>10. 0 .. i - 1 = (0 .. (i - 1) - 1) \cup {i - 1}
  BY <1>7
<1>11. UNION {Layer(x, j) : j \in 0 .. i - 1} = (UNION {Layer(x, j) : j \in 0 .. (i - 1) - 1}) \cup Layer(x, i - 1)
  <2> HIDE DEF above, bad
  <2> QED BY <1>10
<1> QED BY <1>5, <1>8, <1>9, <1>11

(* A layer is made of those of what the tree holds. *)
LEMMA LayerBelow ==
  ASSUME NEW x, NEW n \in Nat
  PROVE  Layer(x, n + 1) = UNION {Layer(w, n) : w \in HeldBy(x)}
<1> DEFINE bad == {i \in Nat : Layer(x, i + 1) # UNION {Layer(w, i) : w \in HeldBy(x)}}
<1>1. SUFFICES ASSUME bad # {} PROVE FALSE
  OBVIOUS
<1>2. PICK i \in bad : \A j \in bad : i <= j
  <2> HIDE DEF bad
  <2>1. bad \subseteq Nat
    BY DEF bad
  <2> QED BY <1>1, <2>1, FirstPosition
<1>3. i # 0
  <2>1. Layer(x, 0 + 1) = UNION {HeldBy(w) : w \in Layer(x, 0)}
    BY LayerIs
  <2>2. Layer(x, 0) = {x} /\ \A w : Layer(w, 0) = {w}
    BY LayerIs
  <2>3. Layer(x, 0 + 1) = UNION {Layer(w, 0) : w \in HeldBy(x)}
    BY <2>1, <2>2
  <2> QED BY <2>3, <1>2
<1>4. i - 1 \in Nat /\ i - 1 \notin bad
  BY <1>2, <1>3
<1>5. Layer(x, i) = UNION {Layer(w, i - 1) : w \in HeldBy(x)}
  <2>1. Layer(x, (i - 1) + 1) = UNION {Layer(w, i - 1) : w \in HeldBy(x)}
    BY <1>4
  <2>2. (i - 1) + 1 = i
    BY <1>4
  <2> QED BY <2>1, <2>2
<1>6. Layer(x, i + 1) = UNION {HeldBy(w) : w \in Layer(x, i)}
  BY <1>2, LayerIs
<1>7. \A w : Layer(w, i) = UNION {HeldBy(u) : u \in Layer(w, i - 1)}
  <2>1. \A w : Layer(w, (i - 1) + 1) = UNION {HeldBy(u) : u \in Layer(w, i - 1)}
    BY <1>4, LayerIs
  <2>2. (i - 1) + 1 = i
    BY <1>4
  <2> QED BY <2>1, <2>2
<1>8. Layer(x, i + 1) = UNION {Layer(w, i) : w \in HeldBy(x)}
  BY <1>5, <1>6, <1>7
<1> QED BY <1>2, <1>8

LEMMA ShortBelow ==
  ASSUME NEW x, NEW n \in Nat
  PROVE  Short(x, n + 1) <=> \A w \in HeldBy(x) : Short(w, n)
  BY LayerBelow DEF Short

LEMMA NeverShortAtOnce ==
  ASSUME NEW x
  PROVE  ~Short(x, 0)
  BY LayerIs DEF Short

LEMMA ShortMore ==
  ASSUME NEW x, NEW n \in Nat, Short(x, n), NEW m \in Nat, n <= m
  PROVE  Short(x, m)
<1> DEFINE bad == {i \in Nat : n <= i /\ ~Short(x, i)}
<1>1. SUFFICES ASSUME bad # {} PROVE FALSE
  OBVIOUS
<1>2. PICK i \in bad : \A j \in bad : i <= j
  <2> HIDE DEF bad
  <2>1. bad \subseteq Nat
    BY DEF bad
  <2> QED BY <1>1, <2>1, FirstPosition
<1>3. i # n
  BY <1>2
<1>4. i - 1 \in Nat /\ n <= i - 1 /\ i - 1 \notin bad
  BY <1>2, <1>3
<1>5. Short(x, i - 1)
  BY <1>4
<1>6. Layer(x, (i - 1) + 1) = UNION {HeldBy(w) : w \in Layer(x, i - 1)}
  BY <1>4, LayerIs
<1>7. (i - 1) + 1 = i
  BY <1>4
<1> QED BY <1>2, <1>5, <1>6, <1>7 DEF Short

(* What a short tree holds is shorter. *)
LEMMA HeldShort ==
  ASSUME NEW x, NEW n \in Nat, Short(x, n)
  PROVE  /\ n - 1 \in Nat
         /\ \A w \in HeldBy(x) : Short(w, n - 1)
<1>1. n # 0
  BY NeverShortAtOnce
<1>2. n - 1 \in Nat /\ (n - 1) + 1 = n
  BY <1>1
<1> QED BY <1>2, ShortBelow

(* What is as short as that is closed. *)
LEMMA ShortClosed ==
  ASSUME NEW U, Closed(U), NEW n \in Nat
  PROVE  Closed({w \in U : Short(w, n)})
<1>1. SUFFICES ASSUME NEW w \in U, Short(w, n), NEW u \in HeldBy(w)
               PROVE  u \in U /\ Short(u, n)
  BY DEF Closed
<1>2. n - 1 \in Nat /\ Short(u, n - 1)
  BY <1>1, HeldShort
<1> QED BY <1>1, <1>2, ShortMore DEF Closed

(* The search for the height ends. *)
LEMMA HeightIs ==
  ASSUME NEW x, NEW l \in Nat, Short(x, l)
  PROVE  Height(x) \in Nat /\ Short(x, Height(x))
<1> DEFINE T == {n \in Nat : Short(x, n)}
<1>1. PICK L \in T : \A n \in T : L <= n
  <2>1. T \subseteq Nat /\ T # {}
    OBVIOUS
  <2> HIDE DEF T
  <2> QED BY <2>1, FirstPosition
<1>2. \A n \in Nat : (Layer(x, n) = {}) <=> L <= n
  <2>1. \A n \in Nat : Layer(x, n) = {} => L <= n
    BY <1>1 DEF Short
  <2>2. \A n \in Nat : L <= n => Short(x, n)
    BY <1>1, ShortMore
  <2> QED BY <2>1, <2>2 DEF Short
<1> DEFINE ends(g) == g = [n \in Nat |-> IF Layer(x, n) = {} THEN n ELSE g[n + 3]]
           f == [n \in Nat |-> IF L <= n THEN n ELSE n + 3 * ((L - n + 2) \div 3)]
           h == CHOOSE g : ends(g)
<1>3. ends(f)
  <2>1. ASSUME NEW n \in Nat PROVE f[n] = IF Layer(x, n) = {} THEN n ELSE f[n + 3]
    <3>0. L \in Nat
      BY <1>1
    <3>1. CASE L <= n
      BY <3>1, <1>2
    <3>2. CASE n < L /\ L <= n + 3
      <4>1. (L - n + 2) \div 3 = 1
        BY <3>2, <3>0
      <4> QED BY <4>1, <3>2, <3>0, <1>2
    <3>3. CASE n + 3 < L
      <4>1. (L - n + 2) \div 3 = 1 + (L - (n + 3) + 2) \div 3
        BY <3>3, <3>0
      <4>2. (L - (n + 3) + 2) \div 3 \in Int
        BY <3>3, <3>0
      <4>3. f[n] = n + 3 * ((L - n + 2) \div 3)
        BY <3>3, <3>0
      <4>4. f[n + 3] = (n + 3) + 3 * ((L - (n + 3) + 2) \div 3)
        BY <3>3, <3>0
      <4>5. f[n] = f[n + 3]
        <5> HIDE DEF f
        <5> QED BY <4>1, <4>2, <4>3, <4>4
      <4>6. Layer(x, n) # {}
        BY <3>3, <3>0, <1>2
      <4> QED BY <4>5, <4>6
    <3> QED BY <3>0, <3>1, <3>2, <3>3
  <2> QED BY <2>1, Zenon
<1>4. ends(h)
  BY <1>3
<1>5. h = [n \in Nat |-> IF Layer(x, n) = {} THEN n ELSE h[n + 3]]
  BY <1>4
<1>6. \A n \in Nat : h[n] = IF Layer(x, n) = {} THEN n ELSE h[n + 3]
  <2> HIDE DEF h
  <2> QED BY <1>5
<1>7. Height(x) = h[0]
  BY DEF Height
<1> HIDE DEF h, f, ends
<1> DEFINE D == {k \in Nat : \E n \in Nat : n + k = L /\ ~(h[n] \in Nat /\ Short(x, h[n]))}
<1>8. D = {}
  <2>1. SUFFICES ASSUME D # {} PROVE FALSE
    OBVIOUS
  <2>2. PICK k \in D : \A j \in D : k <= j
    <3>1. D \subseteq Nat
      OBVIOUS
    <3> HIDE DEF D
    <3> QED BY <2>1, <3>1, FirstPosition
  <2>3. PICK n \in Nat : n + k = L /\ ~(h[n] \in Nat /\ Short(x, h[n]))
    BY <2>2
  <2>4. Layer(x, n) # {}
    <3>1. CASE Layer(x, n) = {}
      BY <3>1, <2>3, <1>6 DEF Short
    <3> QED BY <3>1
  <2>5. h[n] = h[n + 3] /\ n < L
    BY <2>3, <2>4, <1>6, <1>2, <1>1
  <2>6. CASE n + 3 <= L
    <3>1. k - 3 \in Nat /\ (n + 3) + (k - 3) = L
      BY <2>3, <2>6, <1>1
    <3>2. k - 3 \in D
      BY <3>1, <2>3, <2>5
    <3> QED BY <3>2, <2>2
  <2>7. CASE L < n + 3
    <3>1. h[n + 3] = n + 3 /\ Short(x, n + 3)
      BY <2>7, <1>6, <1>2, <1>1 DEF Short
    <3> QED BY <3>1, <2>3, <2>5
  <2> QED BY <2>6, <2>7, <1>1
<1>9. h[0] \in Nat /\ Short(x, h[0])
  <2>1. L \in Nat /\ 0 + L = L
    BY <1>1
  <2> QED BY <2>1, <1>8
<1> QED BY <1>7, <1>9

(* The parts of what is finite are its layers, and are closed. *)
LEMMA PartsAre ==
  ASSUME NEW x, Finite(x)
  PROVE  /\ Height(x) \in Nat /\ Short(x, Height(x))
         /\ x \in Parts(x) /\ Closed(Parts(x))
         /\ \A n \in Nat : Layer(x, n) \subseteq Parts(x)
         /\ \A w \in Parts(x) : \E n \in Nat : w \in Layer(x, n)
<1>1. Height(x) \in Nat /\ Short(x, Height(x))
  BY HeightIs DEF Finite
<1> DEFINE H == Height(x)
<1>2. Parts(x) = UNION {Layer(x, i) : i \in 0 .. H - 1}
  BY <1>1, AboveIs DEF Parts
<1> HIDE DEF H
<1>3. H \in Nat /\ Short(x, H)
  BY <1>1 DEF H
<1>4. ASSUME NEW n \in Nat PROVE Layer(x, n) \subseteq Parts(x)
  <2>1. CASE n < H
    <3>1. n \in 0 .. H - 1
      BY <2>1, <1>3
    <3> QED BY <3>1, <1>2
  <2>2. CASE H <= n
    BY <2>2, <1>3, ShortMore DEF Short
  <2> QED BY <2>1, <2>2, <1>3
<1>5. x \in Parts(x)
  BY <1>4, LayerIs
<1>6. ASSUME NEW w \in Parts(x) PROVE \E n \in Nat : w \in Layer(x, n)
  <2>1. PICK i \in 0 .. H - 1 : w \in Layer(x, i)
    BY <1>2
  <2>2. i \in Nat
    BY <1>3
  <2> QED BY <2>1, <2>2
<1>7. Closed(Parts(x))
  <2>1. SUFFICES ASSUME NEW w \in Parts(x), NEW u \in HeldBy(w) PROVE u \in Parts(x)
    BY DEF Closed
  <2>2. PICK n \in Nat : w \in Layer(x, n)
    BY <1>6
  <2>3. u \in Layer(x, n + 1)
    BY <2>2, LayerIs
  <2>4. n + 1 \in Nat
    OBVIOUS
  <2> QED BY <2>3, <2>4, <1>4
<1> QED BY <1>1, <1>4, <1>5, <1>6, <1>7

(* Objects, lists and nodes. *)

LEMMA NodeIs ==
  ASSUME NEW key, NEW v
  PROVE  /\ Node(key, v).k = "obj" /\ Node(key, v).f = [x \in {key} |-> v] /\ Node(key, v).f[key] = v
         /\ Sole(Node(key, v)) /\ SoleKey(Node(key, v)) = key
         /\ HeldBy(Node(key, v)) = {v}
<1>1. Node(key, v).k = "obj" /\ Node(key, v).f = [x \in {key} |-> v]
  BY DEF Node, Obj
<1>2. DOMAIN Node(key, v).f = {key} /\ Node(key, v).f[key] = v
  BY <1>1
<1>3. Sole(Node(key, v)) /\ SoleKey(Node(key, v)) = key
  BY <1>1, <1>2 DEF Sole, SoleKey
<1>4. Held(Node(key, v)) = [x \in {key} |-> v]
  BY <1>1 DEF Held
<1>5. HeldBy(Node(key, v)) = {v}
  BY <1>4 DEF HeldBy
<1> QED BY <1>1, <1>2, <1>3, <1>5

LEMMA NodeHolds ==
  ASSUME NEW key, NEW v
  PROVE  HeldBy(Node(key, v)) = {v}
  BY NodeIs

LEMMA ObjIs ==
  ASSUME NEW f
  PROVE  /\ Obj(f).k = "obj" /\ Obj(f).f = f
         /\ HeldBy(Obj(f)) = {f[x] : x \in DOMAIN f}
  BY DEF Obj, HeldBy, Held

LEMMA ListIs ==
  ASSUME NEW s
  PROVE  /\ List(s).k = "list" /\ List(s).e = s
         /\ HeldBy(List(s)) = {s[i] : i \in DOMAIN s}
  BY DEF List, HeldBy, Held

LEMMA WrittenIs ==
  ASSUME NEW f, NEW unsaid
  PROVE  /\ DOMAIN Written(f, unsaid) = {x \in DOMAIN f : x \in DOMAIN unsaid => f[x] # unsaid[x]}
         /\ \A x \in DOMAIN Written(f, unsaid) : Written(f, unsaid)[x] = f[x]
  BY DEF Written, Has

LEMMA OfFits ==
  ASSUME NEW t, NEW at, NEW a, NEW c, NEW reason, DOMAIN c = DOMAIN a,
         a = [i \in DOMAIN a |-> a[i]], c = [i \in DOMAIN a |-> c[i]],
         \A i \in DOMAIN a : a[i] # Bad /\ Gets(c[i], a[i], reason)
  PROVE  Gets(Of(t, at, c), Ast(t, at, a), reason)
<1>1. CASE \E i \in DOMAIN c : c[i] = Bad
  <2>1. reason
    BY <1>1 DEF Gets
  <2> QED BY <1>1, <2>1 DEF Gets, Of
<1>2. CASE \A i \in DOMAIN c : c[i] # Bad
  <2>1. \A i \in DOMAIN a : c[i] = a[i]
    BY <1>2 DEF Gets
  <2>2. c = a
    BY <2>1
  <2>3. Of(t, at, c) = Ast(t, at, c)
    BY <1>2 DEF Of
  <2> QED BY <2>2, <2>3 DEF Gets
<1> QED BY <1>1, <1>2

LEMMA AstIs ==
  ASSUME NEW t, NEW at, NEW a
  PROVE  /\ Ast(t, at, a).k = "ast" /\ Ast(t, at, a).t = t
         /\ Ast(t, at, a).at = at /\ Ast(t, at, a).a = a
         /\ HeldBy(Ast(t, at, a)) = {a[i] : i \in DOMAIN a}
  BY DEF Ast, HeldBy, Held

(* The operands of a node. *)
LEMMA OperandsAre ==
  ASSUME NEW e, IsNode(e)
  PROVE  /\ Len(e.a) \in Nat /\ DOMAIN e.a = 1 .. Len(e.a) /\ e.a = [i \in DOMAIN e.a |-> e.a[i]]
         /\ HeldBy(e) = {e.a[i] : i \in DOMAIN e.a}
<1>1. Len(e.a) \in Nat /\ e.a = [i \in 1 .. Len(e.a) |-> e.a[i]]
  BY DEF IsNode, IsSequence
<1>2. DOMAIN e.a = 1 .. Len(e.a)
  BY <1>1
<1>3. e.k = "ast"
  BY AstIs DEF IsNode
<1> QED BY <1>1, <1>2, <1>3 DEF HeldBy, Held

-----------------------------------------------------------------------------
(* The order of a finite set. *)
LEMMA InOrderIs ==
  ASSUME NEW S, IsFiniteSet(S)
  PROVE  /\ Cardinality(S) \in Nat /\ DOMAIN InOrder(S) = 1 .. Cardinality(S)
         /\ IsSequence(InOrder(S))
         /\ {InOrder(S)[i] : i \in DOMAIN InOrder(S)} = S
<1> DEFINE n == Cardinality(S)
           orders == {s \in [1 .. n -> S] : \A x \in S : \E i \in DOMAIN s : s[i] = x}
<1>1. n \in Nat /\ ExistsBijection(1 .. n, S)
  BY FS_CardinalityType
<1>2. PICK f \in Bijection(1 .. n, S) : TRUE
  BY <1>1 DEF ExistsBijection
<1>3. f \in [1 .. n -> S] /\ \A x \in S : \E i \in 1 .. n : f[i] = x
  BY <1>2 DEF Bijection, Injection, Surjection
<1>4. InOrder(S) \in [1 .. n -> S] /\ \A x \in S : \E i \in DOMAIN InOrder(S) : InOrder(S)[i] = x
  <2>1. \E s \in [1 .. n -> S] : \A x \in S : \E i \in DOMAIN s : s[i] = x
    BY <1>3
  <2> HIDE DEF n
  <2> QED BY <2>1 DEF InOrder, n
<1> HIDE DEF n
<1>5. DOMAIN InOrder(S) = 1 .. n
  BY <1>4
<1>6. Len(InOrder(S)) = n /\ IsSequence(InOrder(S))
  BY <1>1, <1>4 DEF IsSequence
<1>7. {InOrder(S)[i] : i \in DOMAIN InOrder(S)} = S
  BY <1>4, <1>5
<1> QED BY <1>1, <1>5, <1>6, <1>7 DEF n

LEMMA MildHolds ==
  ASSUME NEW v, NEW n \in Nat, NEW kinds, ~Odd(v, kinds), \A w \in HeldBy(v) : Mild(w, n, kinds)
  PROVE  Mild(v, n + 1, kinds)
<1>1. Short(v, n + 1)
  BY ShortBelow DEF Mild
<1>2. ASSUME NEW i \in Nat, NEW w \in Layer(v, i) PROVE ~Odd(w, kinds)
  <2>1. CASE i = 0
    BY <2>1, <1>2, LayerIs
  <2>2. CASE i # 0
    <3>1. i - 1 \in Nat /\ (i - 1) + 1 = i
      BY <2>2
    <3>2. Layer(v, (i - 1) + 1) = UNION {Layer(u, i - 1) : u \in HeldBy(v)}
      BY <3>1, LayerBelow
    <3>3. PICK u \in HeldBy(v) : w \in Layer(u, i - 1)
      BY <3>1, <3>2, <1>2
    <3> QED BY <3>1, <3>3 DEF Mild
  <2> QED BY <2>1, <2>2
<1> QED BY <1>1, <1>2 DEF Mild

LEMMA MildMore ==
  ASSUME NEW v, NEW n \in Nat, NEW kinds, Mild(v, n, kinds), NEW m \in Nat, n <= m
  PROVE  Mild(v, m, kinds)
  BY ShortMore DEF Mild

LEMMA MildScalar ==
  ASSUME NEW v, NEW kinds, v.k \notin {"list", "obj", "ast"}, ~Odd(v, kinds), NEW m \in Nat, 1 <= m
  PROVE  Mild(v, m, kinds)
<1>1. HeldBy(v) = {}
  BY DEF HeldBy, Held
<1>2. Mild(v, 0 + 1, kinds)
  BY <1>1, MildHolds
<1> QED BY <1>2, MildMore

LEMMA MildObj ==
  ASSUME NEW f, NEW n \in Nat, NEW kinds, \A x \in DOMAIN f : Mild(f[x], n, kinds)
  PROVE  Mild(Obj(f), n + 1, kinds)
<1>1. Obj(f).k = "obj" /\ HeldBy(Obj(f)) = {f[x] : x \in DOMAIN f}
  BY ObjIs
<1>2. ~Odd(Obj(f), kinds)
  BY <1>1 DEF Odd
<1>3. \A w \in HeldBy(Obj(f)) : Mild(w, n, kinds)
  BY <1>1
<1> QED BY <1>2, <1>3, MildHolds

LEMMA MildWritten ==
  ASSUME NEW f, NEW unsaid, NEW n \in Nat, NEW kinds, \A x \in DOMAIN f : Mild(f[x], n, kinds)
  PROVE  Mild(Obj(Written(f, unsaid)), n + 1, kinds)
<1> DEFINE g == Written(f, unsaid)
<1>1. /\ DOMAIN g = {x \in DOMAIN f : x \in DOMAIN unsaid => f[x] # unsaid[x]}
      /\ \A x \in DOMAIN g : g[x] = f[x]
  BY WrittenIs
<1> HIDE DEF g
<1>2. \A x \in DOMAIN g : Mild(g[x], n, kinds)
  BY <1>1
<1>3. Mild(Obj(g), n + 1, kinds)
  BY <1>2, MildObj
<1> QED BY <1>3 DEF g

LEMMA MildList ==
  ASSUME NEW s, NEW n \in Nat, NEW kinds, \A i \in DOMAIN s : Mild(s[i], n, kinds)
  PROVE  Mild(List(s), n + 1, kinds)
<1>1. List(s).k = "list" /\ HeldBy(List(s)) = {s[i] : i \in DOMAIN s}
  BY ListIs
<1>2. ~Odd(List(s), kinds)
  BY <1>1 DEF Odd
<1>3. \A w \in HeldBy(List(s)) : Mild(w, n, kinds)
  BY <1>1
<1> QED BY <1>2, <1>3, MildHolds

LEMMA MildNode ==
  ASSUME NEW key, NEW v, NEW n \in Nat, NEW kinds, Mild(v, n, kinds)
  PROVE  Mild(Node(key, v), n + 1, kinds)
<1>1. Node(key, v).k = "obj" /\ HeldBy(Node(key, v)) = {v}
  BY NodeIs
<1>2. ~Odd(Node(key, v), kinds)
  BY <1>1 DEF Odd
<1>3. \A w \in HeldBy(Node(key, v)) : Mild(w, n, kinds)
  BY <1>1
<1> QED BY <1>2, <1>3, MildHolds

LEMMA MildHasNone ==
  ASSUME NEW v, NEW n \in Nat, NEW kinds, Mild(v, n, kinds)
  PROVE  ~HasNumber(v, kinds)
  BY PartsAre DEF Mild, Finite, HasNumber, Odd

LEMMA LegalHolds ==
  ASSUME NEW l, NEW e, NEW n \in Nat, IsNode(e), IsLanguageNode(l, e),
         \A i \in DOMAIN e.a : Legal(l, e.a[i], n)
  PROVE  Legal(l, e, n + 1)
<1>0. \A w \in HeldBy(e) : Legal(l, w, n)
  <2>1. HeldBy(e) = {e.a[i] : i \in DOMAIN e.a}
    BY OperandsAre
  <2> QED BY <2>1
<1>1. Short(e, n + 1)
  BY <1>0, ShortBelow DEF Legal
<1>2. ASSUME NEW i \in Nat, NEW w \in Layer(e, i) PROVE IsNode(w) /\ IsLanguageNode(l, w)
  <2>1. CASE i = 0
    BY <2>1, <1>2, LayerIs
  <2>2. CASE i # 0
    <3>1. i - 1 \in Nat /\ (i - 1) + 1 = i
      BY <2>2
    <3>2. Layer(e, (i - 1) + 1) = UNION {Layer(u, i - 1) : u \in HeldBy(e)}
      BY <3>1, LayerBelow
    <3>3. PICK u \in HeldBy(e) : w \in Layer(u, i - 1)
      BY <3>1, <3>2, <1>2
    <3> QED BY <1>0, <3>1, <3>3 DEF Legal
  <2> QED BY <2>1, <2>2
<1> QED BY <1>1, <1>2 DEF Legal

LEMMA LegalMore ==
  ASSUME NEW l, NEW e, NEW n \in Nat, Legal(l, e, n), NEW m \in Nat, n <= m
  PROVE  Legal(l, e, m)
  BY ShortMore DEF Legal

(* The operands of one are expressions of a layer less. *)
LEMMA LegalOperands ==
  ASSUME NEW l, NEW e, NEW n \in Nat, Legal(l, e, n)
  PROVE  /\ IsNode(e) /\ IsLanguageNode(l, e) /\ n - 1 \in Nat
         /\ \A i \in DOMAIN e.a : Legal(l, e.a[i], n - 1)
<1>1. IsNode(e) /\ IsLanguageNode(l, e)
  BY LayerIs DEF Legal
<1>2. n - 1 \in Nat /\ \A w \in HeldBy(e) : Short(w, n - 1)
  BY HeldShort DEF Legal
<1>3. ASSUME NEW w \in HeldBy(e), NEW i \in Nat, NEW x \in Layer(w, i)
      PROVE  IsNode(x) /\ IsLanguageNode(l, x)
  <2>1. x \in Layer(e, i + 1)
    BY <1>3, LayerBelow
  <2>2. i + 1 \in Nat
    OBVIOUS
  <2> QED BY <2>1, <2>2 DEF Legal
<1>4. \A w \in HeldBy(e) : Legal(l, w, n - 1)
  BY <1>2, <1>3 DEF Legal
<1>5. HeldBy(e) = {e.a[i] : i \in DOMAIN e.a}
  BY <1>1, OperandsAre
<1> QED BY <1>1, <1>2, <1>4, <1>5

(* What some node of an expression is, some node of what it is in is. *)
LEMMA PartsOfOperand ==
  ASSUME NEW e, IsNode(e), Finite(e), NEW i \in DOMAIN e.a
  PROVE  Finite(e.a[i]) /\ Parts(e.a[i]) \subseteq Parts(e)
<1>1. e.a[i] \in HeldBy(e)
  BY OperandsAre
<1>2. Finite(e.a[i])
  BY <1>1, HeldShort DEF Finite
<1>3. ASSUME NEW x \in Parts(e.a[i]) PROVE x \in Parts(e)
  <2>1. PICK n \in Nat : x \in Layer(e.a[i], n)
    BY <1>2, PartsAre
  <2>2. x \in Layer(e, n + 1)
    BY <1>1, <2>1, LayerBelow
  <2>3. n + 1 \in Nat
    OBVIOUS
  <2> QED BY <2>2, <2>3, PartsAre
<1> QED BY <1>2, <1>3

-----------------------------------------------------------------------------
(* PromQL: a node is built again from its tree, when its operands are. *)

LEMMA AttributesAre ==
  ASSUME NEW e, NEW names, IsNode(e), HasAttributes(e, names), NEW at, DOMAIN at = names,
         at = [x \in names |-> at[x]], \A x \in names : at[x] = e.at[x]
  PROVE  at = e.at
  BY DEF HasAttributes

(* Nothing in C is built wrong. *)
Known(e, k, b, C, reason) ==
  /\ DOMAIN k = DOMAIN e.a /\ k = [i \in DOMAIN e.a |-> k[i]]
  /\ \A i \in DOMAIN e.a : e.a[i] # Bad /\ (k[i] \in C => Gets(b[k[i]], e.a[i], reason))

LEMMA PromLiteral ==
  ASSUME NEW e, IsNode(e), PromNode(e), e.t \in {"String", "Number"}, NEW k, NEW b, NEW C, NEW reason
  PROVE  Gets(PromBuildNode(PromTreeNode(e, k), b), e, reason)
<1>1. PromTreeNode(e, k) = e.at["value"]
  BY DEF PromTreeNode
<1>2. e = Ast(e.t, e.at, e.a) /\ e.at = [x \in {"value"} |-> e.at["value"]] /\ e.a = <<>>
  BY DEF IsNode, PromNode, IsLiteral, HasAttributes
<1>3. e = Lit(e.t, e.at["value"])
  BY <1>2 DEF Lit
<1>4. CASE e.t = "String"
  <2>1. e.at["value"].k \in {"str", "span", "source"}
    BY <1>4 DEF PromNode
  <2>2. PromBuildNode(e.at["value"], b) = Lit("String", e.at["value"])
    <3> DEFINE v == e.at["value"]
    <3>1. v.k \in {"str", "span", "source"}
      BY <2>1
    <3> HIDE DEF v
    <3>2. ~Sole(v)
      BY <3>1 DEF Sole
    <3>3. PromBuildNode(v, b) = Lit("String", v)
      BY <3>1, <3>2 DEF PromBuildNode
    <3> QED BY <3>3 DEF v
  <2> QED BY <1>1, <1>3, <1>4, <2>2 DEF Gets
<1>5. CASE e.t = "Number"
  <2>1. e.at["value"].k = "num"
    BY <1>5 DEF PromNode
  <2>2. PromBuildNode(e.at["value"], b) = Lit("Number", e.at["value"])
    <3> DEFINE v == e.at["value"]
    <3>1. v.k \in {"num"}
      BY <2>1
    <3> HIDE DEF v
    <3>2. ~Sole(v)
      BY <3>1 DEF Sole
    <3>3. PromBuildNode(v, b) = Lit("Number", v)
      BY <3>1, <3>2 DEF PromBuildNode
    <3> QED BY <3>3 DEF v
  <2> QED BY <1>1, <1>3, <1>5, <2>2 DEF Gets
<1> QED BY <1>4, <1>5

LEMMA PromKeyed ==
  ASSUME NEW key, NEW w, NEW b
  PROVE  PromBuildNode(Node(key, w), b) = PromBuildKeyed(key, w, b)
<1>1. /\ Node(key, w).k = "obj" /\ Node(key, w).f[key] = w
      /\ Sole(Node(key, w)) /\ SoleKey(Node(key, w)) = key
  BY NodeIs
<1> DEFINE v == Node(key, w)
<1>2. v.k = "obj" /\ v.f[key] = w /\ Sole(v) /\ SoleKey(v) = key
  BY <1>1
<1> HIDE DEF v
<1>3. PromBuildNode(v, b) = PromBuildKeyed(key, w, b)
  BY <1>2 DEF PromBuildNode
<1> QED BY <1>3 DEF v

(* The operands of a node are the one, or the two. *)
LEMMA OneOperand ==
  ASSUME NEW e, IsNode(e), Len(e.a) = 1, NEW k, NEW b, NEW C, NEW reason, Known(e, k, b, C, reason), k[1] \in C,
         NEW t, NEW at, e.t = t, e.at = at
  PROVE  Gets(Of(t, at, <<b[k[1]]>>), e, reason)
<1> DEFINE c == <<b[k[1]]>>
<1>1. DOMAIN e.a = 1 .. 1 /\ e.a = [i \in DOMAIN e.a |-> e.a[i]]
  BY OperandsAre
<1>2. DOMAIN c = 1 .. 1 /\ c = [i \in 1 .. 1 |-> c[i]] /\ c[1] = b[k[1]]
  OBVIOUS
<1>3. \A i \in DOMAIN e.a : e.a[i] # Bad /\ Gets(c[i], e.a[i], reason)
  <2>1. e.a[1] # Bad /\ Gets(b[k[1]], e.a[1], reason)
    BY <1>1 DEF Known
  <2> QED BY <1>1, <1>2, <2>1
<1>4. e = Ast(t, at, e.a)
  BY DEF IsNode
<1> HIDE DEF c
<1>5. Gets(Of(t, at, c), Ast(t, at, e.a), reason)
  BY <1>1, <1>2, <1>3, OfFits
<1> QED BY <1>4, <1>5 DEF c

LEMMA TwoOperands ==
  ASSUME NEW e, IsNode(e), Len(e.a) = 2, NEW k, NEW b, NEW C, NEW reason, Known(e, k, b, C, reason),
         k[1] \in C, k[2] \in C, NEW t, NEW at, e.t = t, e.at = at
  PROVE  Gets(Of(t, at, <<b[k[1]], b[k[2]]>>), e, reason)
<1> DEFINE c == <<b[k[1]], b[k[2]]>>
<1>1. DOMAIN e.a = 1 .. 2 /\ e.a = [i \in DOMAIN e.a |-> e.a[i]]
  BY OperandsAre
<1>2. DOMAIN c = 1 .. 2 /\ c = [i \in 1 .. 2 |-> c[i]] /\ c[1] = b[k[1]] /\ c[2] = b[k[2]]
  OBVIOUS
<1>3. \A i \in DOMAIN e.a : e.a[i] # Bad /\ Gets(c[i], e.a[i], reason)
  <2>1. e.a[1] # Bad /\ Gets(b[k[1]], e.a[1], reason)
    BY <1>1 DEF Known
  <2>2. e.a[2] # Bad /\ Gets(b[k[2]], e.a[2], reason)
    BY <1>1 DEF Known
  <2>3. \A i \in 1 .. 2 : i = 1 \/ i = 2
    OBVIOUS
  <2> QED BY <1>1, <1>2, <2>1, <2>2, <2>3
<1>4. e = Ast(t, at, e.a)
  BY DEF IsNode
<1> HIDE DEF c
<1>5. Gets(Of(t, at, c), Ast(t, at, e.a), reason)
  BY <1>1, <1>2, <1>3, OfFits
<1> QED BY <1>4, <1>5 DEF c

(* Every operand, from a list of their trees. *)
LEMMA EveryOperand ==
  ASSUME NEW e, IsNode(e), NEW k, NEW b, NEW C, NEW reason, Known(e, k, b, C, reason), \A i \in DOMAIN k : k[i] \in C,
         NEW t, NEW at, e.t = t, e.at = at
  PROVE  Gets(Of(t, at, BuildList(k, b)), e, reason)
<1> DEFINE c == BuildList(k, b)
<1>1. DOMAIN c = DOMAIN e.a /\ c = [i \in DOMAIN e.a |-> c[i]] /\ \A i \in DOMAIN e.a : c[i] = b[k[i]]
  BY DEF BuildList, Known
<1> HIDE DEF c
<1>2. \A i \in DOMAIN e.a : e.a[i] # Bad /\ Gets(c[i], e.a[i], reason)
  BY <1>1 DEF Known
<1>3. e = Ast(t, at, e.a) /\ e.a = [i \in DOMAIN e.a |-> e.a[i]]
  BY OperandsAre DEF IsNode
<1>4. Gets(Of(t, at, c), Ast(t, at, e.a), reason)
  BY <1>1, <1>2, <1>3, OfFits
<1> QED BY <1>3, <1>4 DEF c

LEMMA ListedOperands ==
  ASSUME NEW e, IsNode(e), NEW k, NEW b, NEW C, NEW reason, Known(e, k, b, C, reason), Closed(C), List(k) \in C,
         NEW t, NEW at, e.t = t, e.at = at
  PROVE  Gets(Of(t, at, BuildList(k, b)), e, reason)
<1>1. \A i \in DOMAIN k : k[i] \in C
  BY ListIs DEF Closed
<1> QED BY <1>1, EveryOperand

LEMMA Inside ==
  ASSUME NEW C, Closed(C), NEW key, NEW f, HeldBy(Node(key, Obj(f))) \subseteq C
  PROVE  Obj(f) \in C /\ \A x \in DOMAIN f : f[x] \in C
<1>1. Obj(f) \in C
  <2>1. HeldBy(Node(key, Obj(f))) = {Obj(f)}
    BY NodeHolds
  <2> QED BY <2>1
<1> QED BY <1>1, ObjIs DEF Closed

LEMMA PromOf ==
  ASSUME NEW e, IsNode(e), PromNode(e)
  PROVE  /\ e = Ast(e.t, e.at, e.a) /\ Len(e.a) \in Nat /\ DOMAIN e.a = 1 .. Len(e.a)
         /\ e.a = [i \in 1 .. Len(e.a) |-> e.a[i]]
  BY DEF IsNode, IsSequence

LEMMA PromCall ==
  ASSUME NEW e, IsNode(e), PromNode(e), e.t = "Call", NEW k, NEW b, NEW C, Closed(C), NEW reason, Known(e, k, b, C, reason),
         HeldBy(PromTreeNode(e, k)) \subseteq C
  PROVE  Gets(PromBuildNode(PromTreeNode(e, k), b), e, reason)
<1> DEFINE f == [func |-> e.at["func"], args |-> List(k)]
<1>1. PromTreeNode(e, k) = Node("call", Obj(f))
  BY DEF PromTreeNode, DecodeCall
<1>2. e.at = [x \in {"func"} |-> e.at["func"]] /\ IsToken(e.at["func"], PromFunctions)
  BY DEF PromNode, HasAttributes
<1>3. List(k) \in C
  <2>1. f["args"] = List(k) /\ "args" \in DOMAIN f
    OBVIOUS
  <2> HIDE DEF f
  <2> QED BY <1>1, <2>1, Inside
<1>4. PromBuildKeyed("call", Obj(f), b) = BuildCall(Obj(f), b)
  BY DEF PromBuildKeyed
<1>5. Obj(f).k = "obj" /\ Obj(f).f = f /\ DOMAIN f = {"func", "args"} /\ f["args"] = List(k) /\ f["func"] = e.at["func"]
  BY DEF Obj
<1>6. List(k).k = "list" /\ List(k).e = k /\ List(k) # Nil
  BY DEF List, Nil
<1> HIDE DEF f
<1>7. Present(Obj(f).f, "args") /\ Obj(f).f["args"].e = k /\ Obj(f).f["args"].k = "list"
  BY <1>5, <1>6 DEF Present, Has
<1>8. IsToken(NameOf(Obj(f).f, "func"), PromFunctions) /\ Only(Obj(f), {"func", "args"})
  BY <1>2, <1>5 DEF NameOf, Has, IsToken, Only
<1>9. BuildCall(Obj(f), b) = Of("Call", e.at, BuildList(k, b))
  BY <1>2, <1>5, <1>7, <1>8 DEF BuildCall, BuildList
<1>10. Gets(Of("Call", e.at, BuildList(k, b)), e, reason)
  BY <1>3, ListedOperands
<1> QED BY <1>1, <1>4, <1>9, <1>10, PromKeyed

LEMMA PromOne ==
  ASSUME NEW e, IsNode(e), PromNode(e), e.t \in {"Paren", "Unary"}, NEW k, NEW b, NEW C, Closed(C), NEW reason,
         Known(e, k, b, C, reason), HeldBy(PromTreeNode(e, k)) \subseteq C
  PROVE  Gets(PromBuildNode(PromTreeNode(e, k), b), e, reason)
<1>1. CASE e.t = "Paren"
  <2>1. PromTreeNode(e, k) = Node("paren", k[1])
    BY <1>1 DEF PromTreeNode
  <2>2. k[1] \in C
    <3>1. HeldBy(Node("paren", k[1])) = {k[1]}
      BY NodeHolds
    <3> QED BY <2>1, <3>1
  <2>3. PromBuildKeyed("paren", k[1], b) = Of("Paren", NoFields, <<b[k[1]]>>)
    BY DEF PromBuildKeyed
  <2>4. e.at = NoFields /\ Len(e.a) = 1
    BY <1>1 DEF PromNode
  <2>5. Gets(Of("Paren", NoFields, <<b[k[1]]>>), e, reason)
    BY <1>1, <2>2, <2>4, OneOperand
  <2> QED BY <2>1, <2>3, <2>5, PromKeyed
<1>2. CASE e.t = "Unary"
  <2>1. e.at = [x \in {"op"} |-> e.at["op"]] /\ e.at["op"] \in {Name("neg"), Name("pos")} /\ Len(e.a) = 1
    BY <1>2 DEF PromNode, HasAttributes
  <2>2. PICK key \in {"neg", "pos"} : e.at["op"] = Name(key)
    BY <2>1
  <2>3. e.at["op"].s[1] = key
    BY <2>2 DEF Name, Str
  <2>4. PromTreeNode(e, k) = Node(key, k[1])
    BY <1>2, <2>3 DEF PromTreeNode
  <2>5. k[1] \in C
    <3>1. HeldBy(Node(key, k[1])) = {k[1]}
      BY NodeHolds
    <3> QED BY <2>4, <3>1
  <2>6. PromBuildKeyed(key, k[1], b) = Of("Unary", e.at, <<b[k[1]]>>)
    <3>1. e.at = [x \in {"op"} |-> Name(key)]
      BY <2>1, <2>2
    <3>2. PromBuildKeyed(key, k[1], b) = Of("Unary", [x \in {"op"} |-> Name(key)], <<b[k[1]]>>)
      <4>1. CASE key = "neg"
        BY <4>1 DEF PromBuildKeyed
      <4>2. CASE key = "pos"
        BY <4>2 DEF PromBuildKeyed
      <4> QED BY <4>1, <4>2
    <3> QED BY <3>1, <3>2
  <2>7. Gets(Of("Unary", e.at, <<b[k[1]]>>), e, reason)
    BY <1>2, <2>1, <2>5, OneOperand
  <2> QED BY <2>4, <2>6, <2>7, PromKeyed
<1> QED BY <1>1, <1>2

(* Attributes that are read as they are, or are wrong for a reason. *)
Reads(at, e, names, reason) ==
  /\ DOMAIN at = names /\ at = [x \in names |-> at[x]]
  /\ \A x \in names : (at[x] = e.at[x] /\ e.at[x] # Wrong) \/ (at[x] = Wrong /\ reason)

LEMMA MadeFits ==
  ASSUME NEW e, NEW names, IsNode(e), HasAttributes(e, names), NEW reason, NEW at, Reads(at, e, names, reason),
         NEW t, NEW c, Gets(Of(t, e.at, c), e, reason)
  PROVE  Gets(Made(t, at, c), e, reason)
<1>1. CASE AnyWrong(at)
  <2>1. reason
    BY <1>1 DEF AnyWrong, Reads
  <2> QED BY <1>1, <2>1 DEF Made, Gets
<1>2. CASE ~AnyWrong(at)
  <2>1. at = e.at
    BY <1>2, AttributesAre DEF AnyWrong, Reads
  <2> QED BY <1>2, <2>1 DEF Made
<1> QED BY <1>1, <1>2

LEMMA WrittenHas ==
  ASSUME NEW g, NEW unsaid, NEW x, x \in DOMAIN g
  PROVE  \/ /\ x \in DOMAIN Written(g, unsaid) /\ Written(g, unsaid)[x] = g[x]
            /\ x \in DOMAIN unsaid => g[x] # unsaid[x]
         \/ x \notin DOMAIN Written(g, unsaid) /\ x \in DOMAIN unsaid /\ g[x] = unsaid[x]
<1> DEFINE f == Written(g, unsaid)
<1>1. DOMAIN f = {y \in DOMAIN g : y \in DOMAIN unsaid => g[y] # unsaid[y]} /\ \A y \in DOMAIN f : f[y] = g[y]
  BY WrittenIs
<1> HIDE DEF f
<1>2. \/ x \in DOMAIN f /\ f[x] = g[x] /\ (x \in DOMAIN unsaid => g[x] # unsaid[x])
      \/ x \notin DOMAIN f /\ x \in DOMAIN unsaid /\ g[x] = unsaid[x]
  BY <1>1
<1> QED BY <1>2 DEF f

LEMMA WrittenWithin ==
  ASSUME NEW g, NEW unsaid
  PROVE  DOMAIN Written(g, unsaid) \subseteq DOMAIN g
  BY DEF Written

LEMMA AtRead ==
  ASSUME NEW f, NEW a, IsAt(a), ("at" \in DOMAIN f /\ f["at"] = a /\ a # Nil) \/ ("at" \notin DOMAIN f /\ a = Nil)
  PROVE  /\ a # Wrong
         /\ \/ ParseAt(f) = a
            \/ ParseAt(f) = Wrong /\ a.k = "num" /\ a.x[2] \notin AtTimes
<1>1. CASE a = Nil
  <2>1. a # Wrong
    BY <1>1 DEF Nil, Wrong
  <2>2. ParseAt(f) = a
    BY <1>1 DEF ParseAt, Present, Has
  <2> QED BY <2>1, <2>2
<1>2. CASE a # Nil /\ IsToken(a, {"start", "end"})
  <2>1. a # Wrong
    BY <1>2 DEF IsToken, Wrong
  <2>2. ParseAt(f) = a
    BY <1>2 DEF ParseAt, Present, Has
  <2> QED BY <2>1, <2>2
<1>3. CASE a # Nil /\ a.k = "num" /\ a = Num("fin", a.x[2])
  <2>1. a # Wrong
    BY <1>3 DEF Wrong
  <2>2. a.x[1] = "fin"
    BY <1>3 DEF Num
  <2>3. ~IsToken(a, {"start", "end"})
    BY <1>3 DEF IsToken
  <2>4. Present(f, "at") /\ f["at"] = a
    BY <1>3 DEF Present, Has
  <2>5. CASE a.x[2] \in AtTimes
    <3>1. ParseAt(f) = Num("fin", a.x[2])
      BY <1>3, <2>2, <2>3, <2>4, <2>5 DEF ParseAt
    <3> QED BY <1>3, <2>1, <3>1
  <2>6. CASE a.x[2] \notin AtTimes
    <3>1. ParseAt(f) = Wrong
      BY <1>3, <2>2, <2>3, <2>4, <2>6 DEF ParseAt
    <3> QED BY <1>3, <2>1, <2>6, <3>1
  <2> QED BY <2>5, <2>6
<1> QED BY <1>1, <1>2, <1>3 DEF IsAt

LEMMA SpanRead ==
  ASSUME NEW f, NEW key, NEW a, IsOptionalSpan(a),
         (key \in DOMAIN f /\ f[key] = a /\ a # Nil) \/ (key \notin DOMAIN f /\ a = Nil)
  PROVE  a # Wrong /\ OptionalSpan(f, key) = a
<1>1. CASE a = Nil
  <2>1. a # Wrong
    BY <1>1 DEF Nil, Wrong
  <2> QED BY <1>1, <2>1 DEF OptionalSpan, Present, Has
<1>2. CASE a # Nil /\ a.k = "span"
  <2>1. a # Wrong
    BY <1>2 DEF Wrong
  <2> QED BY <1>2, <2>1 DEF OptionalSpan, Present, Has, Duration
<1> QED BY <1>1, <1>2 DEF IsOptionalSpan, IsSpan

LEMMA DurationRead ==
  ASSUME NEW f, NEW key, NEW a, IsSpan(a), key \in DOMAIN f, f[key] = a
  PROVE  a # Wrong /\ DurationOf(f, key) = a
<1>1. a # Wrong /\ a # Nil
  BY DEF Wrong, Nil, IsSpan
<1> QED BY <1>1 DEF DurationOf, Present, Has, Duration, IsSpan

AtTooFar(e) ==
  "at" \in DOMAIN e.at /\ e.at["at"].k = "num" /\ e.at["at"].x[2] \notin AtTimes

LEMMA PromSubquery ==
  ASSUME NEW e, IsNode(e), PromNode(e), e.t = "Subquery", NEW k, NEW b, NEW C, Closed(C), NEW reason,
         Known(e, k, b, C, reason), HeldBy(PromTreeNode(e, k)) \subseteq C, AtTooFar(e) => reason
  PROVE  Gets(PromBuildNode(PromTreeNode(e, k), b), e, reason)
<1> DEFINE g == [expr |-> k[1], range |-> e.at["range"], step |-> e.at["step"],
                 offset |-> e.at["offset"], at |-> e.at["at"]]
           u == [step |-> Nil, offset |-> Nil, at |-> Nil]
           f == Written(g, u)
           names == {"range", "step", "offset", "at"}
<1>1. PromTreeNode(e, k) = Node("subquery", Obj(f))
  BY DEF PromTreeNode, DecodeSubquery
<1>2. /\ HasAttributes(e, names) /\ IsSpan(e.at["range"]) /\ IsOptionalSpan(e.at["step"])
      /\ IsOptionalSpan(e.at["offset"]) /\ IsAt(e.at["at"]) /\ Len(e.a) = 1
  BY DEF PromNode
<1>3. DOMAIN e.at = names
  BY <1>2 DEF HasAttributes
<1>4. DOMAIN g = {"expr", "range", "step", "offset", "at"} /\ DOMAIN u = {"step", "offset", "at"}
  OBVIOUS
<1>5. g["expr"] = k[1] /\ \A x \in names : g[x] = e.at[x]
  OBVIOUS
<1>6. \A x \in {"step", "offset", "at"} : u[x] = Nil
  OBVIOUS
<1>7. DOMAIN f \subseteq DOMAIN g
  BY WrittenWithin
<1>8. \A x \in DOMAIN g : \/ x \in DOMAIN f /\ f[x] = g[x] /\ (x \in DOMAIN u => g[x] # u[x])
                          \/ x \notin DOMAIN f /\ x \in DOMAIN u /\ g[x] = u[x]
  BY WrittenHas
<1> HIDE DEF f, g, u
<1>9. "expr" \in DOMAIN f /\ f["expr"] = k[1] /\ "range" \in DOMAIN f /\ f["range"] = e.at["range"]
  BY <1>4, <1>5, <1>8
<1>10. \A x \in {"step", "offset", "at"} : \/ x \in DOMAIN f /\ f[x] = e.at[x] /\ e.at[x] # Nil
                                           \/ x \notin DOMAIN f /\ e.at[x] = Nil
  BY <1>4, <1>5, <1>6, <1>8
<1>11. k[1] \in C
  BY <1>1, <1>9, Inside
<1>12. Gets(Of("Subquery", e.at, <<b[k[1]]>>), e, reason)
  BY <1>2, <1>11, OneOperand
<1> DEFINE at == [range |-> DurationOf(f, "range"), step |-> OptionalSpan(f, "step"),
                  offset |-> OptionalSpan(f, "offset"), at |-> ParseAt(f)]
<1>13. PromBuildKeyed("subquery", Obj(f), b) = Made("Subquery", at, <<b[k[1]]>>)
  <2>1. PromBuildKeyed("subquery", Obj(f), b) = BuildSubquery(Obj(f), b)
    BY DEF PromBuildKeyed
  <2>2. Obj(f).k = "obj" /\ Obj(f).f = f
    BY ObjIs
  <2>3. Only(Obj(f), {"expr", "range", "step", "offset", "at"}) /\ Has(Obj(f).f, "expr")
    BY <2>2, <1>4, <1>7, <1>9 DEF Only, Has
  <2> QED BY <2>1, <2>2, <2>3, <1>9 DEF BuildSubquery
<1>14. Reads(at, e, names, reason)
  <2>1. DOMAIN at = names /\ at = [x \in names |-> at[x]]
    OBVIOUS
  <2>2. /\ at["range"] = DurationOf(f, "range") /\ at["step"] = OptionalSpan(f, "step")
        /\ at["offset"] = OptionalSpan(f, "offset") /\ at["at"] = ParseAt(f)
    OBVIOUS
  <2> HIDE DEF at
  <2>3. at["range"] = e.at["range"] /\ e.at["range"] # Wrong
    BY <1>2, <1>9, <2>2, DurationRead
  <2>4. at["step"] = e.at["step"] /\ e.at["step"] # Wrong
    BY <1>2, <1>10, <2>2, SpanRead
  <2>5. at["offset"] = e.at["offset"] /\ e.at["offset"] # Wrong
    BY <1>2, <1>10, <2>2, SpanRead
  <2>6. (at["at"] = e.at["at"] /\ e.at["at"] # Wrong) \/ (at["at"] = Wrong /\ reason)
    <3>1. /\ e.at["at"] # Wrong
          /\ \/ ParseAt(f) = e.at["at"]
             \/ ParseAt(f) = Wrong /\ e.at["at"].k = "num" /\ e.at["at"].x[2] \notin AtTimes
      <4>1. \/ "at" \in DOMAIN f /\ f["at"] = e.at["at"] /\ e.at["at"] # Nil
            \/ "at" \notin DOMAIN f /\ e.at["at"] = Nil
        BY <1>10
      <4> DEFINE a == e.at["at"]
      <4>2. IsAt(a)
        BY <1>2
      <4> HIDE DEF a
      <4>3. \/ "at" \in DOMAIN f /\ f["at"] = a /\ a # Nil
            \/ "at" \notin DOMAIN f /\ a = Nil
        BY <4>1 DEF a
      <4>4. /\ a # Wrong
            /\ \/ ParseAt(f) = a
               \/ ParseAt(f) = Wrong /\ a.k = "num" /\ a.x[2] \notin AtTimes
        BY <4>2, <4>3, AtRead
      <4> QED BY <4>4 DEF a
    <3> QED BY <1>3, <2>2, <3>1 DEF AtTooFar
  <2>7. \A x \in names : x = "range" \/ x = "step" \/ x = "offset" \/ x = "at"
    OBVIOUS
  <2> QED BY <2>1, <2>3, <2>4, <2>5, <2>6, <2>7 DEF Reads
<1> HIDE DEF at
<1>15. Gets(Made("Subquery", at, <<b[k[1]]>>), e, reason)
  BY <1>2, <1>12, <1>14, MadeFits
<1> QED BY <1>1, <1>13, <1>15, PromKeyed

(* A list of names that is there when it says something. *)
LEMMA NamesAreNoOther ==
  ASSUME NEW v, NamesOnly(v)
  PROVE  v # Wrong /\ v # Nil
  BY DEF NamesOnly, Wrong, Nil

LEMMA BoolIs ==
  ASSUME NEW v, IsBool(v)
  PROVE  v.b \in BOOLEAN /\ v = Bool(v.b) /\ v # Wrong /\ v # Nil
<1>1. Bool(TRUE).b = TRUE /\ Bool(FALSE).b = FALSE
  BY DEF Bool
<1>2. \A x : Bool(x) # Wrong /\ Bool(x) # Nil
  BY DEF Bool, Wrong, Nil
<1>3. CASE v = Bool(TRUE)
  BY <1>1, <1>2, <1>3
<1>4. CASE v = Bool(FALSE)
  BY <1>1, <1>2, <1>4
<1> QED BY <1>3, <1>4 DEF IsBool

LEMMA AggregateGroups ==
  ASSUME NEW f, NEW without, without \in BOOLEAN, NEW grouping, NamesOnly(grouping),
         ("without" \in DOMAIN f) <=> without, without => f["without"] = grouping,
         ("by" \in DOMAIN f) <=> (~without /\ grouping # List(<<>>)),
         (~without /\ grouping # List(<<>>)) => f["by"] = grouping
  PROVE  GroupingOf(f) = grouping
  BY DEF GroupingOf, Has, LabelsOf

LEMMA PromAggregate ==
  ASSUME NEW e, IsNode(e), PromNode(e), e.t = "Aggregate", NEW k, NEW b, NEW C, Closed(C), NEW reason,
         Known(e, k, b, C, reason), HeldBy(PromTreeNode(e, k)) \subseteq C,
         \A i \in DOMAIN k : k[i] # Nil
  PROVE  Gets(PromBuildNode(PromTreeNode(e, k), b), e, reason)
<1> DEFINE without == e.at["without"].b
           grouping == e.at["grouping"]
           g == [op |-> e.at["op"], expr |-> k[1], param |-> IF Len(k) = 2 THEN k[2] ELSE Nil,
                 without |-> IF without THEN grouping ELSE Nil, by |-> IF without THEN List(<<>>) ELSE grouping]
           u == [param |-> Nil, without |-> Nil, by |-> List(<<>>)]
           f == Written(g, u)
           names == {"op", "without", "grouping"}
<1>1. PromTreeNode(e, k) = Node("aggregation", Obj(f))
  BY DEF PromTreeNode, DecodeAggregation
<1>2. /\ HasAttributes(e, names) /\ IsToken(e.at["op"], AggOps) /\ IsBool(e.at["without"])
      /\ NamesOnly(grouping) /\ Len(e.a) \in {1, 2}
  BY DEF PromNode
<1>3. DOMAIN e.at = names
  BY <1>2 DEF HasAttributes
<1>3a. without \in BOOLEAN /\ e.at["without"] = Bool(without)
  BY <1>2, BoolIs
<1>4. DOMAIN g = {"op", "expr", "param", "without", "by"} /\ DOMAIN u = {"param", "without", "by"}
  OBVIOUS
<1>5. /\ g["op"] = e.at["op"] /\ g["expr"] = k[1]
      /\ g["param"] = (IF Len(k) = 2 THEN k[2] ELSE Nil)
      /\ g["without"] = (IF without THEN grouping ELSE Nil)
      /\ g["by"] = (IF without THEN List(<<>>) ELSE grouping)
  OBVIOUS
<1>6. u["param"] = Nil /\ u["without"] = Nil /\ u["by"] = List(<<>>)
  OBVIOUS
<1>7. DOMAIN f \subseteq DOMAIN g
  BY WrittenWithin
<1>8. \A x \in DOMAIN g : \/ x \in DOMAIN f /\ f[x] = g[x] /\ (x \in DOMAIN u => g[x] # u[x])
                          \/ x \notin DOMAIN f /\ x \in DOMAIN u /\ g[x] = u[x]
  BY WrittenHas
<1>k. DOMAIN k = 1 .. Len(e.a) /\ Len(k) = Len(e.a)
  <2>1. DOMAIN k = DOMAIN e.a /\ k = [i \in DOMAIN e.a |-> k[i]]
    BY DEF Known
  <2>2. Len(e.a) \in Nat /\ DOMAIN e.a = 1 .. Len(e.a)
    BY OperandsAre
  <2> QED BY <2>1, <2>2
<1> HIDE DEF f, g, u, without, grouping
<1>9. "expr" \in DOMAIN f /\ f["expr"] = k[1] /\ "op" \in DOMAIN f /\ f["op"] = e.at["op"]
  BY <1>4, <1>5, <1>8
<1>10. GroupingOf(f) = grouping
  <2>1. grouping # Nil
    BY <1>2, NamesAreNoOther
  <2>2. CASE without
    <3>1. "without" \in DOMAIN f /\ f["without"] = grouping /\ "by" \notin DOMAIN f
      BY <1>4, <1>5, <1>6, <1>8, <2>1, <2>2
    <3> QED BY <1>2, <1>3a, <2>2, <3>1, AggregateGroups
  <2>3. CASE ~without
    <3>1. "without" \notin DOMAIN f
      BY <1>4, <1>5, <1>6, <1>8, <2>3
    <3>2. CASE grouping = List(<<>>)
      <4>1. "by" \notin DOMAIN f
        BY <1>4, <1>5, <1>6, <1>8, <2>3, <3>2
      <4> QED BY <1>2, <1>3a, <2>3, <3>1, <3>2, <4>1, AggregateGroups
    <3>3. CASE grouping # List(<<>>)
      <4>1. "by" \in DOMAIN f /\ f["by"] = grouping
        BY <1>4, <1>5, <1>6, <1>8, <2>3, <3>3
      <4> QED BY <1>2, <1>3a, <2>3, <3>1, <3>3, <4>1, AggregateGroups
    <3> QED BY <3>2, <3>3
  <2> QED BY <2>2, <2>3, <1>3a
<1>11. ("without" \in DOMAIN f) <=> without
  <2>1. grouping # Nil
    BY <1>2, NamesAreNoOther
  <2> QED BY <1>4, <1>5, <1>6, <1>8, <2>1, <1>3a
<1>12. k[1] \in C
  BY <1>1, <1>9, Inside
<1> DEFINE at == [op |-> f["op"], without |-> Bool(Has(f, "without")), grouping |-> GroupingOf(f)]
           c == IF Present(f, "param") THEN <<b[f["expr"]], b[f["param"]]>> ELSE <<b[f["expr"]]>>
<1>13. PromBuildKeyed("aggregation", Obj(f), b) = Made("Aggregate", at, c)
  <2>1. PromBuildKeyed("aggregation", Obj(f), b) = BuildAggregation(Obj(f), b)
    BY DEF PromBuildKeyed
  <2>2. Obj(f).k = "obj" /\ Obj(f).f = f
    BY ObjIs
  <2>3. Only(Obj(f), {"op", "expr", "param", "by", "without"}) /\ Has(f, "expr")
    BY <2>2, <1>4, <1>7, <1>9 DEF Only, Has
  <2>4. IsToken(NameOf(f, "op"), AggOps)
    BY <1>2, <1>9 DEF NameOf, Has, IsToken
  <2> QED BY <2>1, <2>2, <2>3, <2>4 DEF BuildAggregation
<1>14. Gets(Of("Aggregate", e.at, c), e, reason)
  <2>1. CASE Len(e.a) = 1
    <3>1. g["param"] = Nil
      BY <2>1, <1>k, <1>5
    <3>2. ~Present(f, "param")
      BY <3>1, <1>4, <1>6, <1>8 DEF Present, Has
    <3>3. c = <<b[k[1]]>>
      BY <3>2, <1>9
    <3> QED BY <2>1, <3>3, <1>12, OneOperand
  <2>2. CASE Len(e.a) = 2
    <3>1. g["param"] = k[2] /\ k[2] # Nil
      BY <2>2, <1>k, <1>5
    <3>2. "param" \in DOMAIN f /\ f["param"] = k[2]
      BY <3>1, <1>4, <1>6, <1>8
    <3>3. k[2] \in C
      BY <1>1, <3>2, Inside
    <3>4. c = <<b[k[1]], b[k[2]]>>
      BY <3>1, <3>2, <1>9 DEF Present, Has
    <3> QED BY <2>2, <3>3, <3>4, <1>12, TwoOperands
  <2> QED BY <1>2, <2>1, <2>2
<1> HIDE DEF c
<1>15. Reads(at, e, names, reason)
  <2>1. DOMAIN at = names /\ at = [x \in names |-> at[x]]
    OBVIOUS
  <2>2. at["op"] = f["op"] /\ at["without"] = Bool(Has(f, "without")) /\ at["grouping"] = GroupingOf(f)
    OBVIOUS
  <2> HIDE DEF at
  <2>3. at["op"] = e.at["op"] /\ e.at["op"] # Wrong
    BY <1>2, <1>9, <2>2 DEF IsToken, Wrong
  <2>4. at["without"] = e.at["without"] /\ e.at["without"] # Wrong
    <3>1. Has(f, "without") = without
      BY <1>11, <1>3a DEF Has
    <3>2. Bool(without) # Wrong
      BY DEF Bool, Wrong
    <3> QED BY <3>1, <3>2, <1>3a, <2>2
  <2>5. at["grouping"] = e.at["grouping"] /\ e.at["grouping"] # Wrong
    <3>1. grouping # Wrong
      BY <1>2, NamesAreNoOther
    <3> QED BY <3>1, <1>10, <2>2 DEF grouping
  <2>7. \A x \in names : x = "op" \/ x = "without" \/ x = "grouping"
    OBVIOUS
  <2> QED BY <2>1, <2>3, <2>4, <2>5, <2>7 DEF Reads
<1> HIDE DEF at
<1>16. Gets(Made("Aggregate", at, c), e, reason)
  BY <1>2, <1>14, <1>15, MadeFits
<1> QED BY <1>1, <1>13, <1>16, PromKeyed

(* How the sides of a binary expression are matched. *)
LEMMA MatchingRead ==
  ASSUME NEW f, NEW vm, NEW on, on \in BOOLEAN, NEW labels, NEW card, NEW include,
         vm = Obj([on |-> Bool(on), labels |-> labels, card |-> card, include |-> include]),
         NamesOnly(labels), NamesOnly(include),
         card \in {Name("one"), Name("left"), Name("right")}, card = Name("one") => include = List(<<>>),
         ("on" \in DOMAIN f) <=> on, on => f["on"] = labels,
         ("ignoring" \in DOMAIN f) <=> (~on /\ labels # List(<<>>)),
         (~on /\ labels # List(<<>>)) => f["ignoring"] = labels,
         ("group_left" \in DOMAIN f) <=> card = Name("left"), card = Name("left") => f["group_left"] = include,
         ("group_right" \in DOMAIN f) <=> card = Name("right"), card = Name("right") => f["group_right"] = include
  PROVE  VectorMatchingAt(f) = vm
<1>1. Name("one") # Name("left") /\ Name("one") # Name("right") /\ Name("left") # Name("right")
  <2>1. Name("one").s[1] = "one" /\ Name("left").s[1] = "left" /\ Name("right").s[1] = "right"
    BY DEF Name, Str
  <2> QED BY <2>1
<1>2. ~({"on", "ignoring"} \subseteq DOMAIN f)
  OBVIOUS
<1>3. ~({"group_left", "group_right"} \subseteq DOMAIN f)
  BY <1>1
<1> DEFINE l == IF Has(f, "on") THEN LabelsOf(f, "on")
                ELSE IF Has(f, "ignoring") THEN LabelsOf(f, "ignoring") ELSE List(<<>>)
           c == Name(IF Has(f, "group_left") THEN "left"
                     ELSE IF Has(f, "group_right") THEN "right" ELSE "one")
           i == IF Has(f, "group_left") THEN LabelsOf(f, "group_left")
                ELSE IF Has(f, "group_right") THEN LabelsOf(f, "group_right") ELSE List(<<>>)
           at == [on |-> Bool(Has(f, "on")), labels |-> l, card |-> c, include |-> i]
<1>4. l = labels
  <2>1. CASE on
    BY <2>1 DEF Has, LabelsOf
  <2>2. CASE ~on
    BY <2>2 DEF Has, LabelsOf
  <2> QED BY <2>1, <2>2
<1>5. c = card /\ i = include
  <2>1. CASE card = Name("left")
    BY <2>1, <1>1 DEF Has, LabelsOf
  <2>2. CASE card = Name("right")
    BY <2>2, <1>1 DEF Has, LabelsOf
  <2>3. CASE card = Name("one")
    BY <2>3, <1>1 DEF Has, LabelsOf
  <2> QED BY <2>1, <2>2, <2>3
<1>6. Has(f, "on") = on
  BY DEF Has
<1>7. at = [on |-> Bool(on), labels |-> labels, card |-> card, include |-> include]
  BY <1>4, <1>5, <1>6
<1>8. ~AnyWrong(at)
  <2>1. \A x \in DOMAIN at : x \in {"on", "labels", "card", "include"}
    OBVIOUS
  <2>2. at["on"] = Bool(on) /\ at["labels"] = labels /\ at["card"] = card /\ at["include"] = include
    BY <1>7
  <2>3. labels # Wrong /\ include # Wrong
    BY NamesAreNoOther
  <2>4. \A x : Bool(x) # Wrong /\ Name(x) # Wrong
    BY DEF Bool, Name, Str, Wrong
  <2> HIDE DEF at
  <2> QED BY <2>1, <2>2, <2>3, <2>4 DEF AnyWrong
<1>9. VectorMatchingAt(f) = IF AnyWrong(at) THEN Wrong ELSE Obj(at)
  BY <1>2, <1>3 DEF VectorMatchingAt
<1> QED BY <1>7, <1>8, <1>9

LEMMA PromBinary ==
  ASSUME NEW e, IsNode(e), PromNode(e), e.t = "Binary", NEW k, NEW b, NEW C, Closed(C), NEW reason,
         Known(e, k, b, C, reason), HeldBy(PromTreeNode(e, k)) \subseteq C
  PROVE  Gets(PromBuildNode(PromTreeNode(e, k), b), e, reason)
<1> DEFINE vm == e.at["matching"].f
           on == vm["on"].b
           labels == vm["labels"]
           card == vm["card"]
           include == vm["include"]
           g == [op |-> e.at["op"], lhs |-> k[1], rhs |-> k[2], bool |-> e.at["bool"],
                 on |-> IF on THEN labels ELSE Nil,
                 ignoring |-> IF on THEN List(<<>>) ELSE labels,
                 group_left |-> IF card = Name("left") THEN include ELSE Nil,
                 group_right |-> IF card = Name("right") THEN include ELSE Nil]
           u == [bool |-> Bool(FALSE), on |-> Nil, ignoring |-> List(<<>>),
                 group_left |-> Nil, group_right |-> Nil]
           f == Written(g, u)
           names == {"op", "bool", "matching"}
<1>1. PromTreeNode(e, k) = Node("binaryExpr", Obj(f))
  BY DEF PromTreeNode, DecodeBinary
<1>2. /\ HasAttributes(e, names) /\ IsToken(e.at["op"], BinaryOps) /\ IsBool(e.at["bool"])
      /\ IsMatching(e.at["matching"]) /\ Len(e.a) = 2
  BY DEF PromNode
<1>3. DOMAIN e.at = names
  BY <1>2 DEF HasAttributes
<1>m. /\ e.at["matching"] = Obj([on |-> vm["on"], labels |-> labels, card |-> card, include |-> include])
      /\ IsBool(vm["on"]) /\ NamesOnly(labels) /\ NamesOnly(include)
      /\ card \in {Name("one"), Name("left"), Name("right")}
      /\ card = Name("one") => include = List(<<>>)
  BY <1>2 DEF IsMatching
<1>o. on \in BOOLEAN /\ vm["on"] = Bool(on)
  BY <1>m, BoolIs
<1>4. /\ DOMAIN g = {"op", "lhs", "rhs", "bool", "on", "ignoring", "group_left", "group_right"}
      /\ DOMAIN u = {"bool", "on", "ignoring", "group_left", "group_right"}
  OBVIOUS
<1>5. /\ g["op"] = e.at["op"] /\ g["lhs"] = k[1] /\ g["rhs"] = k[2] /\ g["bool"] = e.at["bool"]
      /\ g["on"] = (IF on THEN labels ELSE Nil) /\ g["ignoring"] = (IF on THEN List(<<>>) ELSE labels)
      /\ g["group_left"] = (IF card = Name("left") THEN include ELSE Nil)
      /\ g["group_right"] = (IF card = Name("right") THEN include ELSE Nil)
  OBVIOUS
<1>6. /\ u["bool"] = Bool(FALSE) /\ u["on"] = Nil /\ u["ignoring"] = List(<<>>)
      /\ u["group_left"] = Nil /\ u["group_right"] = Nil
  OBVIOUS
<1>7. DOMAIN f \subseteq DOMAIN g
  BY WrittenWithin
<1>8. \A x \in DOMAIN g : \/ x \in DOMAIN f /\ f[x] = g[x] /\ (x \in DOMAIN u => g[x] # u[x])
                          \/ x \notin DOMAIN f /\ x \in DOMAIN u /\ g[x] = u[x]
  BY WrittenHas
<1>9. labels # Nil /\ include # Nil
  BY <1>m, NamesAreNoOther
<1> HIDE DEF f, g, u, on, labels, card, include
<1>10. \A x \in {"op", "lhs", "rhs"} : x \in DOMAIN f /\ f[x] = g[x]
  BY <1>4, <1>8
<1>11. (Has(f, "bool") /\ f["bool"] = Bool(TRUE)) <=> e.at["bool"] = Bool(TRUE)
  <2>1. Bool(TRUE) # Bool(FALSE)
    BY DEF Bool
  <2>2. \/ "bool" \in DOMAIN f /\ f["bool"] = e.at["bool"]
        \/ "bool" \notin DOMAIN f /\ e.at["bool"] = Bool(FALSE)
    BY <1>4, <1>5, <1>6, <1>8
  <2> QED BY <2>1, <2>2 DEF Has
<1>12. VectorMatchingAt(f) = e.at["matching"]
  <2>1. ("on" \in DOMAIN f) <=> on
    BY <1>4, <1>5, <1>6, <1>8, <1>9
  <2>2. on => f["on"] = labels
    BY <2>1, <1>4, <1>5, <1>8
  <2>3. ("ignoring" \in DOMAIN f) <=> (~on /\ labels # List(<<>>))
    BY <1>4, <1>5, <1>6, <1>8
  <2>4. (~on /\ labels # List(<<>>)) => f["ignoring"] = labels
    BY <2>3, <1>4, <1>5, <1>8
  <2>5. ("group_left" \in DOMAIN f) <=> card = Name("left")
    BY <1>4, <1>5, <1>6, <1>8, <1>9
  <2>6. card = Name("left") => f["group_left"] = include
    BY <2>5, <1>4, <1>5, <1>8
  <2>7. ("group_right" \in DOMAIN f) <=> card = Name("right")
    BY <1>4, <1>5, <1>6, <1>8, <1>9
  <2>8. card = Name("right") => f["group_right"] = include
    BY <2>7, <1>4, <1>5, <1>8
  <2>9. e.at["matching"] = Obj([on |-> Bool(on), labels |-> labels, card |-> card, include |-> include])
    BY <1>m, <1>o
  <2> DEFINE m == e.at["matching"]
  <2> HIDE DEF m
  <2>10. m = Obj([on |-> Bool(on), labels |-> labels, card |-> card, include |-> include])
    BY <2>9 DEF m
  <2>11. VectorMatchingAt(f) = m
    BY <1>m, <1>o, <2>1, <2>2, <2>3, <2>4, <2>5, <2>6, <2>7, <2>8, <2>10, MatchingRead
  <2> QED BY <2>11 DEF m
<1>13. k[1] \in C /\ k[2] \in C
  <2>1. f["lhs"] = k[1] /\ f["rhs"] = k[2] /\ "lhs" \in DOMAIN f /\ "rhs" \in DOMAIN f
    BY <1>5, <1>10
  <2> QED BY <1>1, <2>1, Inside
<1> DEFINE at == [op |-> f["op"], bool |-> Bool(Has(f, "bool") /\ f["bool"] = Bool(TRUE)),
                  matching |-> VectorMatchingAt(f)]
<1>14. PromBuildKeyed("binaryExpr", Obj(f), b) = Made("Binary", at, <<b[k[1]], b[k[2]]>>)
  <2>1. PromBuildKeyed("binaryExpr", Obj(f), b) = BuildBinary(Obj(f), b)
    BY DEF PromBuildKeyed
  <2>2. Obj(f).k = "obj" /\ Obj(f).f = f
    BY ObjIs
  <2>3. Only(Obj(f), {"op", "lhs", "rhs", "bool", "on", "ignoring", "group_left", "group_right"})
    BY <2>2, <1>4, <1>7 DEF Only
  <2>4. IsToken(NameOf(f, "op"), BinaryOps)
    BY <1>2, <1>5, <1>10 DEF NameOf, Has, IsToken
  <2>5. {"lhs", "rhs"} \subseteq DOMAIN f /\ f["lhs"] = k[1] /\ f["rhs"] = k[2]
    BY <1>5, <1>10
  <2> QED BY <2>1, <2>2, <2>3, <2>4, <2>5 DEF BuildBinary
<1>15. Gets(Of("Binary", e.at, <<b[k[1]], b[k[2]]>>), e, reason)
  BY <1>2, <1>13, TwoOperands
<1>16. Reads(at, e, names, reason)
  <2>1. DOMAIN at = names /\ at = [x \in names |-> at[x]]
    OBVIOUS
  <2>2. /\ at["op"] = f["op"] /\ at["bool"] = Bool(Has(f, "bool") /\ f["bool"] = Bool(TRUE))
        /\ at["matching"] = VectorMatchingAt(f)
    OBVIOUS
  <2> HIDE DEF at
  <2>3. at["op"] = e.at["op"] /\ e.at["op"] # Wrong
    BY <1>2, <1>5, <1>10, <2>2 DEF IsToken, Wrong
  <2>4. at["bool"] = e.at["bool"] /\ e.at["bool"] # Wrong
    <3>1. e.at["bool"] # Wrong
      BY <1>2, BoolIs
    <3>2. CASE e.at["bool"] = Bool(TRUE)
      <4>1. (Has(f, "bool") /\ f["bool"] = Bool(TRUE)) = TRUE
        BY <1>11, <3>2
      <4> QED BY <2>2, <3>1, <3>2, <4>1
    <3>3. CASE e.at["bool"] # Bool(TRUE)
      <4>1. (Has(f, "bool") /\ f["bool"] = Bool(TRUE)) = FALSE
        BY <1>11, <3>3
      <4>2. e.at["bool"] = Bool(FALSE)
        BY <1>2, <3>3 DEF IsBool
      <4> QED BY <2>2, <3>1, <4>1, <4>2
    <3> QED BY <3>2, <3>3
  <2>5. at["matching"] = e.at["matching"] /\ e.at["matching"] # Wrong
    <3>1. \A x : Obj(x) # Wrong
      BY DEF Obj, Wrong
    <3>2. e.at["matching"] # Wrong
      BY <1>m, <3>1
    <3> QED BY <3>2, <1>12, <2>2
  <2>7. \A x \in names : x = "op" \/ x = "bool" \/ x = "matching"
    OBVIOUS
  <2> QED BY <2>1, <2>3, <2>4, <2>5, <2>7 DEF Reads
<1> HIDE DEF at
<1>17. Gets(Made("Binary", at, <<b[k[1]], b[k[2]]>>), e, reason)
  BY <1>2, <1>15, <1>16, MadeFits
<1> QED BY <1>1, <1>14, <1>17, PromKeyed

LEMMA MatcherRead ==
  ASSUME NEW m, IsMatcher(m)
  PROVE  MatcherOf(Obj(m)) = m /\ m # Wrong
<1>1. /\ m = [name |-> m.name, type |-> m.type, value |-> m.value]
      /\ m.name.k = "str" /\ m.name # EmptyName /\ IsToken(m.type, MatcherTypes) /\ m.value.k = "str"
  BY DEF IsMatcher, Matcher
<1>2. DOMAIN m = {"name", "type", "value"}
  BY <1>1
<1>3. m # Wrong
  <2>1. DOMAIN Wrong = {"k"}
    BY DEF Wrong
  <2>2. "name" \notin {"k"}
    OBVIOUS
  <2> QED BY <1>2, <2>1, <2>2
<1>4. m["name"] = m.name /\ m["type"] = m.type /\ m["value"] = m.value
  OBVIOUS
<1>5. Obj(m).k = "obj" /\ Obj(m).f = m
  BY ObjIs
<1>6. m.type.k = "str"
  BY <1>1 DEF IsToken
<1>7. NameOf(m, "name") = m.name /\ NameOf(m, "type") = m.type /\ NameOf(m, "value") = m.value
  BY <1>1, <1>2, <1>4, <1>6 DEF NameOf, Has
<1>8. Only(Obj(m), {"name", "type", "value"})
  BY <1>2, <1>5 DEF Only
<1>9. MatcherOf(Obj(m)) = Matcher(m.name, m.type, m.value)
  BY <1>1, <1>5, <1>7, <1>8 DEF MatcherOf
<1> QED BY <1>1, <1>3, <1>9 DEF Matcher

(* The matchers of a selector, in some order, are the set again. *)
LEMMA MatchersRead ==
  ASSUME NEW S, IsFiniteSet(S), \A m \in S : IsMatcher(m), NEW list,
         list = List([i \in DOMAIN InOrder(S) |-> Obj(InOrder(S)[i])]), NEW f,
         \/ "matchers" \in DOMAIN f /\ f["matchers"] = list /\ list # List(<<>>)
         \/ "matchers" \notin DOMAIN f /\ list = List(<<>>)
  PROVE  BuildMatchers(f) = Matchers(S)
<1> DEFINE s == InOrder(S)
<1>1. {s[i] : i \in DOMAIN s} = S
  BY InOrderIs
<1> HIDE DEF s
<1> DEFINE t == [i \in DOMAIN s |-> Obj(s[i])]
<1>2. list.k = "list" /\ list.e = t /\ list = List(t)
  BY ListIs DEF s
<1>3. DOMAIN t = DOMAIN s /\ \A i \in DOMAIN s : t[i] = Obj(s[i])
  OBVIOUS
<1> HIDE DEF t
<1>4. CASE "matchers" \in DOMAIN f
  <2>1. Present(f, "matchers") /\ f["matchers"].k = "list" /\ f["matchers"].e = t
    BY <1>2, <1>4 DEF Present, Has, Nil
  <2>2. \A i \in DOMAIN t : MatcherOf(t[i]) = s[i] /\ s[i] # Wrong
    BY <1>1, <1>3, MatcherRead
  <2>3. {MatcherOf(t[i]) : i \in DOMAIN t} = {s[i] : i \in DOMAIN s}
    BY <2>2, <1>3
  <2>4. ~ \E i \in DOMAIN t : MatcherOf(t[i]) = Wrong
    BY <2>2
  <2>5. BuildMatchers(f) = Matchers({MatcherOf(t[i]) : i \in DOMAIN t})
    BY <2>1, <2>4 DEF BuildMatchers
  <2> QED BY <1>1, <2>3, <2>5
<1>5. CASE "matchers" \notin DOMAIN f
  <2>1. t = <<>>
    BY <1>2, <1>5, ListIs
  <2>2. DOMAIN t = {}
    BY <2>1
  <2>3. S = {}
    BY <1>1, <1>3, <2>2
  <2> QED BY <1>5, <2>3 DEF BuildMatchers, Present, Has
<1> QED BY <1>4, <1>5

(* The attributes of a selector, from its fields. *)
LEMMA SelectorIs ==
  ASSUME NEW f
  PROVE  /\ SelectorAt(f)["name"] = NameOf(f, "name")
         /\ SelectorAt(f)["matchers"] = (IF BuildMatchers(f) = Wrong THEN Wrong
                                         ELSE Matchers(BuildMatchers(f).m \cup NameMatchers(NameOf(f, "name"))))
         /\ SelectorAt(f)["offset"] = OptionalSpan(f, "offset")
         /\ SelectorAt(f)["at"] = ParseAt(f)
  BY DEF SelectorAt

LEMMA SelectorHas ==
  ASSUME NEW f
  PROVE  DOMAIN SelectorAt(f) = {"name", "matchers", "offset", "at"}
         /\ SelectorAt(f) = [x \in {"name", "matchers", "offset", "at"} |-> SelectorAt(f)[x]]
  BY DEF SelectorAt

(* The same, of what a decode writes. *)
LEMMA SelectorWritten ==
  ASSUME NEW e, IsSelector(e.at), {"name", "matchers", "offset", "at"} \subseteq DOMAIN e.at, NEW g,
         {"name", "matchers", "offset", "at"} \subseteq DOMAIN g, g["name"] = e.at["name"],
         g["matchers"] = DecodeMatchers(e), g["offset"] = e.at["offset"], g["at"] = e.at["at"],
         NEW reason, AtTooFar(e) => reason
  PROVE  \A x \in {"name", "matchers", "offset", "at"} :
           \/ SelectorAt(Written(g, PlainSelector))[x] = e.at[x] /\ e.at[x] # Wrong
           \/ SelectorAt(Written(g, PlainSelector))[x] = Wrong /\ reason
<1> DEFINE u == PlainSelector
           f == Written(g, u)
           name == e.at["name"]
           matchers == e.at["matchers"]
           S == matchers.m
           U == S \ NameMatchers(name)
           list == DecodeMatchers(e)
           offset == e.at["offset"]
           a == e.at["at"]
<1>1. \A x \in DOMAIN g : \/ x \in DOMAIN f /\ f[x] = g[x] /\ (x \in DOMAIN u => g[x] # u[x])
                          \/ x \notin DOMAIN f /\ x \in DOMAIN u /\ g[x] = u[x]
  BY WrittenHas
<1>2. /\ DOMAIN u = {"name", "matchers", "offset", "at"} /\ u["name"] = EmptyName /\ u["matchers"] = List(<<>>)
      /\ u["offset"] = Nil /\ u["at"] = Nil
  BY DEF PlainSelector
<1>3. /\ name.k = "str" /\ IsOptionalSpan(offset) /\ IsAt(a) /\ matchers = Matchers(S)
      /\ IsFiniteSet(S) /\ NameMatchers(name) \subseteq S /\ \A m \in S : IsMatcher(m)
  BY DEF IsSelector
<1>4. list = List([i \in DOMAIN InOrder(U) |-> Obj(InOrder(U)[i])])
  BY DEF DecodeMatchers
<1>5. Matchers(U).m \cup NameMatchers(name) = S
  BY <1>3 DEF Matchers
<1>6. IsFiniteSet(U) /\ \A m \in U : IsMatcher(m)
  BY <1>3, FS_Difference
<1> HIDE DEF f, u, name, S, U, list, offset, a, matchers
<1>7. NameOf(f, "name") = name /\ name # Wrong
  <2>1. \/ "name" \in DOMAIN f /\ f["name"] = name
        \/ "name" \notin DOMAIN f /\ name = EmptyName
    BY <1>1, <1>2 DEF name
  <2>2. name.k = "str" /\ name # Wrong
    BY <1>3 DEF Wrong
  <2>3. NameOf(f, "name") = name
    BY <2>1, <2>2 DEF NameOf, Has
  <2> QED BY <2>2, <2>3
<1>8. BuildMatchers(f) = Matchers(U)
  <2>1. \/ "matchers" \in DOMAIN f /\ f["matchers"] = list /\ list # List(<<>>)
        \/ "matchers" \notin DOMAIN f /\ list = List(<<>>)
    BY <1>1, <1>2 DEF list
  <2> QED BY <1>4, <1>6, <2>1, MatchersRead
<1>9. OptionalSpan(f, "offset") = offset /\ offset # Wrong
  <2>1. \/ "offset" \in DOMAIN f /\ f["offset"] = offset /\ offset # Nil
        \/ "offset" \notin DOMAIN f /\ offset = Nil
    BY <1>1, <1>2 DEF offset
  <2> QED BY <1>3, <2>1, SpanRead
<1>10. /\ a # Wrong
       /\ \/ ParseAt(f) = a
          \/ ParseAt(f) = Wrong /\ a.k = "num" /\ a.x[2] \notin AtTimes
  <2>1. \/ "at" \in DOMAIN f /\ f["at"] = a /\ a # Nil
        \/ "at" \notin DOMAIN f /\ a = Nil
    BY <1>1, <1>2 DEF a
  <2> QED BY <1>3, <2>1, AtRead
<1>11. (a.k = "num" /\ a.x[2] \notin AtTimes) => reason
  BY DEF AtTooFar, a
<1>12. SelectorAt(f)["matchers"] = matchers /\ matchers # Wrong
  <2>1. \A x : Matchers(x) # Wrong
    BY DEF Matchers, Wrong
  <2>2. SelectorAt(f)["matchers"] = Matchers(S)
    BY <1>5, <1>7, <1>8, <2>1, SelectorIs
  <2> QED BY <1>3, <2>1, <2>2
<1>13. ASSUME NEW x \in {"name", "matchers", "offset", "at"}
       PROVE  (SelectorAt(f)[x] = e.at[x] /\ e.at[x] # Wrong) \/ (SelectorAt(f)[x] = Wrong /\ reason)
  <2>1. CASE x = "name"
    BY <1>7, <2>1, SelectorIs DEF name
  <2>2. CASE x = "matchers"
    BY <1>12, <2>2 DEF matchers
  <2>3. CASE x = "offset"
    BY <1>9, <2>3, SelectorIs DEF offset
  <2>4. CASE x = "at"
    BY <1>10, <1>11, <2>4, SelectorIs DEF a
  <2> QED BY <1>13, <2>1, <2>2, <2>3, <2>4
<1> QED BY <1>13 DEF f, u

LEMMA NothingUnder ==
  ASSUME NEW e, IsNode(e), e.a = <<>>, NEW t, e.t = t, NEW reason
  PROVE  Gets(Of(t, e.at, <<>>), e, reason)
<1>1. e = Ast(t, e.at, <<>>)
  BY DEF IsNode
<1>2. Of(t, e.at, <<>>) = Ast(t, e.at, <<>>)
  BY DEF Of
<1> QED BY <1>1, <1>2 DEF Gets

LEMMA PromVector ==
  ASSUME NEW e, IsNode(e), PromNode(e), e.t = "VectorSelector", NEW k, NEW b, NEW reason, AtTooFar(e) => reason
  PROVE  Gets(PromBuildNode(PromTreeNode(e, k), b), e, reason)
<1> DEFINE g == SelectorFields(e)
           f == Written(g, PlainSelector)
           names == {"name", "matchers", "offset", "at"}
           at == SelectorAt(f)
<1>1. PromTreeNode(e, k) = Node("vectorSelector", Obj(f))
  BY DEF PromTreeNode, DecodeVectorSelector
<1>2. HasAttributes(e, names) /\ IsSelector(e.at) /\ e.a = <<>>
  BY DEF PromNode
<1>3. DOMAIN e.at = names
  BY <1>2 DEF HasAttributes
<1>4. /\ DOMAIN g = names /\ g["name"] = e.at["name"] /\ g["matchers"] = DecodeMatchers(e)
      /\ g["offset"] = e.at["offset"] /\ g["at"] = e.at["at"]
  BY DEF SelectorFields
<1>5. DOMAIN f \subseteq DOMAIN g
  BY WrittenWithin
<1> HIDE DEF g
<1>6. \A x \in names : (at[x] = e.at[x] /\ e.at[x] # Wrong) \/ (at[x] = Wrong /\ reason)
  <2>1. IsSelector(e.at) /\ {"name", "matchers", "offset", "at"} \subseteq DOMAIN e.at
    BY <1>2, <1>3
  <2>2. {"name", "matchers", "offset", "at"} \subseteq DOMAIN g
    BY <1>4
  <2> QED BY <1>4, <2>1, <2>2, SelectorWritten
<1> HIDE DEF f
<1>7. DOMAIN at = names /\ at = [x \in names |-> at[x]]
  BY SelectorHas
<1>8. Reads(at, e, names, reason)
  BY <1>6, <1>7 DEF Reads
<1>9. PromBuildKeyed("vectorSelector", Obj(f), b) = Made("VectorSelector", at, <<>>)
  <2>1. PromBuildKeyed("vectorSelector", Obj(f), b) = BuildVectorSelector(Obj(f))
    BY DEF PromBuildKeyed
  <2>2. Obj(f).k = "obj" /\ Obj(f).f = f
    BY ObjIs
  <2>3. Only(Obj(f), names)
    BY <2>2, <1>4, <1>5 DEF Only
  <2> QED BY <2>1, <2>2, <2>3 DEF BuildVectorSelector
<1>10. Gets(Of("VectorSelector", e.at, <<>>), e, reason)
  BY <1>2, NothingUnder
<1> HIDE DEF at
<1>11. Gets(Made("VectorSelector", at, <<>>), e, reason)
  BY <1>2, <1>8, <1>10, MadeFits
<1> QED BY <1>1, <1>9, <1>11, PromKeyed

LEMMA PromMatrix ==
  ASSUME NEW e, IsNode(e), PromNode(e), e.t = "MatrixSelector", NEW k, NEW b, NEW reason, AtTooFar(e) => reason
  PROVE  Gets(PromBuildNode(PromTreeNode(e, k), b), e, reason)
<1> DEFINE names == {"name", "matchers", "offset", "at", "range"}
           g == [x \in names |-> IF x = "range" THEN e.at[x] ELSE SelectorFields(e)[x]]
           f == Written(g, PlainSelector)
           at == [x \in names |-> IF x = "range" THEN DurationOf(f, x) ELSE SelectorAt(f)[x]]
<1>1. PromTreeNode(e, k) = Node("matrixSelector", Obj(f))
  BY DEF PromTreeNode, DecodeMatrixSelector
<1>2. HasAttributes(e, names) /\ IsSelector(e.at) /\ IsSpan(e.at["range"]) /\ e.a = <<>>
  BY DEF PromNode
<1>3. DOMAIN e.at = names
  BY <1>2 DEF HasAttributes
<1>4. /\ DOMAIN g = names /\ g["name"] = e.at["name"] /\ g["matchers"] = DecodeMatchers(e)
      /\ g["offset"] = e.at["offset"] /\ g["at"] = e.at["at"] /\ g["range"] = e.at["range"]
  BY DEF SelectorFields
<1>5. DOMAIN f \subseteq DOMAIN g
  BY WrittenWithin
<1>6. "range" \in DOMAIN f /\ f["range"] = e.at["range"]
  <2>1. \/ "range" \in DOMAIN f /\ f["range"] = g["range"]
        \/ "range" \in DOMAIN PlainSelector
    BY <1>4, WrittenHas
  <2>2. "range" \notin DOMAIN PlainSelector
    BY DEF PlainSelector
  <2> QED BY <2>1, <2>2, <1>4
<1> HIDE DEF g
<1>7. \A x \in {"name", "matchers", "offset", "at"} :
         (SelectorAt(f)[x] = e.at[x] /\ e.at[x] # Wrong) \/ (SelectorAt(f)[x] = Wrong /\ reason)
  <2>1. IsSelector(e.at) /\ {"name", "matchers", "offset", "at"} \subseteq DOMAIN e.at
    BY <1>2, <1>3
  <2>2. {"name", "matchers", "offset", "at"} \subseteq DOMAIN g
    BY <1>4
  <2> QED BY <1>4, <2>1, <2>2, SelectorWritten
<1> HIDE DEF f
<1>8. DurationOf(f, "range") = e.at["range"] /\ e.at["range"] # Wrong
  BY <1>2, <1>6, DurationRead
<1>9. Reads(at, e, names, reason)
  <2>1. DOMAIN at = names /\ at = [x \in names |-> at[x]]
    OBVIOUS
  <2>2. at["range"] = DurationOf(f, "range") /\ \A x \in {"name", "matchers", "offset", "at"} : at[x] = SelectorAt(f)[x]
    OBVIOUS
  <2> HIDE DEF at
  <2>3. \A x \in names : x = "range" \/ x \in {"name", "matchers", "offset", "at"}
    OBVIOUS
  <2> QED BY <2>1, <2>2, <2>3, <1>7, <1>8 DEF Reads
<1>10. PromBuildKeyed("matrixSelector", Obj(f), b) = Made("MatrixSelector", at, <<>>)
  <2>1. PromBuildKeyed("matrixSelector", Obj(f), b) = BuildMatrixSelector(Obj(f))
    BY DEF PromBuildKeyed
  <2>2. Obj(f).k = "obj" /\ Obj(f).f = f
    BY ObjIs
  <2>3. Only(Obj(f), names)
    BY <2>2, <1>4, <1>5 DEF Only
  <2> QED BY <2>1, <2>2, <2>3 DEF BuildMatrixSelector
<1>11. Gets(Of("MatrixSelector", e.at, <<>>), e, reason)
  BY <1>2, NothingUnder
<1> HIDE DEF at
<1>12. Gets(Made("MatrixSelector", at, <<>>), e, reason)
  BY <1>2, <1>9, <1>11, MadeFits
<1> QED BY <1>1, <1>10, <1>12, PromKeyed

LEMMA PromTreeSome ==
  ASSUME NEW e, PromNode(e), NEW k
  PROVE  PromTreeNode(e, k) # Nil
<1>1. \A key, v : Node(key, v) # Nil
  BY DEF Node, Obj, Nil
<1>2. Nil.k = "nil"
  BY DEF Nil
<1>3. CASE e.t \in {"String", "Number"}
  <2>1. e.at["value"].k # "nil"
    BY <1>3 DEF PromNode
  <2>2. PromTreeNode(e, k) = e.at["value"]
    BY <1>3 DEF PromTreeNode
  <2> QED BY <2>1, <2>2, <1>2
<1>4. CASE e.t \in {"VectorSelector", "MatrixSelector", "Call", "Aggregate", "Binary", "Subquery", "Paren", "Unary"}
  BY <1>1, <1>4 DEF PromTreeNode, DecodeVectorSelector, DecodeMatrixSelector, DecodeCall, DecodeAggregation,
                    DecodeBinary, DecodeSubquery
<1>5. e.t \in {"String", "Number", "VectorSelector", "MatrixSelector", "Call", "Aggregate", "Binary", "Subquery",
               "Paren", "Unary"}
  BY DEF PromNode
<1> QED BY <1>3, <1>4, <1>5

(* The tree of a node has few layers more than those of its operands. *)

LEMMA MildFields ==
  ASSUME NEW key, NEW f, NEW n \in Nat, NEW kinds, \A x \in DOMAIN f : Mild(f[x], n + 3, kinds)
  PROVE  Mild(Node(key, Obj(f)), n + 5, kinds)
<1>1. n + 3 \in Nat /\ n + 4 \in Nat /\ (n + 3) + 1 = n + 4 /\ (n + 4) + 1 = n + 5
  OBVIOUS
<1> DEFINE v == Obj(f)
<1>2. Mild(v, n + 4, kinds)
  <2>1. Mild(Obj(f), (n + 3) + 1, kinds)
    BY <1>1, MildObj
  <2> QED BY <1>1, <2>1
<1> HIDE DEF v
<1>3. Mild(Node(key, v), (n + 4) + 1, kinds)
  BY <1>1, <1>2, MildNode
<1> QED BY <1>1, <1>3 DEF v

LEMMA MildFieldsWritten ==
  ASSUME NEW key, NEW g, NEW unsaid, NEW n \in Nat, NEW kinds, \A x \in DOMAIN g : Mild(g[x], n + 3, kinds)
  PROVE  Mild(Node(key, Obj(Written(g, unsaid))), n + 5, kinds)
<1> DEFINE f == Written(g, unsaid)
<1>1. DOMAIN f \subseteq DOMAIN g /\ \A x \in DOMAIN f : f[x] = g[x]
  <2>1. /\ DOMAIN f = {x \in DOMAIN g : x \in DOMAIN unsaid => g[x] # unsaid[x]}
        /\ \A x \in DOMAIN f : f[x] = g[x]
    BY WrittenIs
  <2> HIDE DEF f
  <2> QED BY <2>1
<1> HIDE DEF f
<1>2. \A x \in DOMAIN f : Mild(f[x], n + 3, kinds)
  BY <1>1
<1>3. Mild(Node(key, Obj(f)), n + 5, kinds)
  BY <1>2, MildFields
<1> QED BY <1>3 DEF f

(* What says a name, a truth, a time or nothing. *)
Plain(v) == v.k \in {"nil", "bool", "str", "span", "source"}

LEMMA MildPlain ==
  ASSUME NEW v, Plain(v), NEW kinds, NEW m \in Nat, 1 <= m
  PROVE  Mild(v, m, kinds)
<1>1. v.k \notin {"list", "obj", "ast"} /\ ~Odd(v, kinds)
  BY DEF Plain, Odd
<1> QED BY <1>1, MildScalar

LEMMA MildNames ==
  ASSUME NEW v, NamesOnly(v), NEW kinds, NEW m \in Nat, 2 <= m
  PROVE  Mild(v, m, kinds)
<1>1. HeldBy(v) = {v.e[i] : i \in DOMAIN v.e}
  BY DEF NamesOnly, HeldBy, Held
<1>2. \A w \in HeldBy(v) : Mild(w, 1, kinds)
  BY <1>1, MildPlain DEF NamesOnly, Plain
<1>3. ~Odd(v, kinds)
  BY DEF NamesOnly, Odd
<1>4. Mild(v, 1 + 1, kinds)
  BY <1>2, <1>3, MildHolds
<1>5. 1 + 1 = 2
  OBVIOUS
<1> QED BY <1>4, <1>5, MildMore

LEMMA MildAt ==
  ASSUME NEW v, IsAt(v), NEW kinds, "fin" \notin kinds, NEW m \in Nat, 1 <= m
  PROVE  Mild(v, m, kinds)
<1>1. CASE v = Nil
  BY <1>1, MildPlain DEF Plain, Nil
<1>2. CASE IsToken(v, {"start", "end"})
  BY <1>2, MildPlain DEF Plain, IsToken
<1>3. CASE v.k = "num" /\ v = Num("fin", v.x[2])
  <2>1. v.x[1] = "fin"
    BY <1>3 DEF Num
  <2> QED BY <1>3, <2>1, MildScalar DEF Odd
<1> QED BY <1>1, <1>2, <1>3 DEF IsAt

LEMMA MildEmpty ==
  ASSUME NEW kinds, NEW m \in Nat, 2 <= m
  PROVE  Mild(List(<<>>), m, kinds) /\ Mild(Nil, m, kinds)
<1>1. NamesOnly(List(<<>>))
  BY ListIs DEF NamesOnly
<1>2. Plain(Nil)
  BY DEF Nil, Plain
<1> QED BY <1>1, <1>2, MildNames, MildPlain

LEMMA MildMatchers ==
  ASSUME NEW e, IsSelector(e.at), NEW kinds, NEW m \in Nat, 3 <= m
  PROVE  Mild(DecodeMatchers(e), m, kinds)
<1> DEFINE S == e.at["matchers"].m \ NameMatchers(e.at["name"])
           s == InOrder(S)
           t == [i \in DOMAIN s |-> Obj(s[i])]
<1>1. IsFiniteSet(S) /\ \A x \in S : IsMatcher(x)
  BY FS_Difference DEF IsSelector
<1>2. DecodeMatchers(e) = List(t)
  BY DEF DecodeMatchers
<1> HIDE DEF S
<1>3. {s[i] : i \in DOMAIN s} = S
  BY <1>1, InOrderIs
<1> HIDE DEF s
<1>4. ASSUME NEW i \in DOMAIN t PROVE Mild(t[i], 2, kinds)
  <2> DEFINE x == s[i]
  <2>1. IsMatcher(x) /\ t[i] = Obj(x)
    BY <1>1, <1>3
  <2> HIDE DEF x
  <2>2. x = [name |-> x.name, type |-> x.type, value |-> x.value]
    BY <2>1 DEF IsMatcher, Matcher
  <2>3. DOMAIN x = {"name", "type", "value"}
    BY <2>2
  <2>4. Plain(x["name"]) /\ Plain(x["type"]) /\ Plain(x["value"])
    BY <2>1 DEF IsMatcher, Plain, IsToken
  <2>5. \A y \in DOMAIN x : Mild(x[y], 1, kinds)
    BY <2>3, <2>4, MildPlain
  <2>6. Mild(Obj(x), 1 + 1, kinds)
    BY <2>5, MildObj
  <2>7. 1 + 1 = 2
    OBVIOUS
  <2> QED BY <2>1, <2>6, <2>7
<1> HIDE DEF t
<1>5. Mild(List(t), 2 + 1, kinds)
  BY <1>4, MildList
<1>6. 2 + 1 = 3
  OBVIOUS
<1> QED BY <1>2, <1>5, <1>6, MildMore

LEMMA MildSelector ==
  ASSUME NEW e, IsSelector(e.at), NEW kinds, "fin" \notin kinds, NEW m \in Nat, 3 <= m
  PROVE  \A x \in DOMAIN SelectorFields(e) : Mild(SelectorFields(e)[x], m, kinds)
<1>1. Mild(DecodeMatchers(e), m, kinds)
  BY MildMatchers
<1>2. Mild(e.at["name"], m, kinds)
  BY MildPlain DEF IsSelector, Plain
<1>3. Mild(e.at["offset"], m, kinds)
  BY MildPlain DEF IsSelector, Plain, IsOptionalSpan, IsSpan, Nil
<1>4. Mild(e.at["at"], m, kinds)
  BY MildAt DEF IsSelector
<1> DEFINE g == SelectorFields(e)
<1>5. /\ DOMAIN g = {"name", "matchers", "offset", "at"} /\ g["name"] = e.at["name"]
      /\ g["matchers"] = DecodeMatchers(e) /\ g["offset"] = e.at["offset"] /\ g["at"] = e.at["at"]
  BY DEF SelectorFields
<1> HIDE DEF g
<1>6. \A x \in DOMAIN g : Mild(g[x], m, kinds)
  BY <1>1, <1>2, <1>3, <1>4, <1>5
<1> QED BY <1>6 DEF g

(* A node's tree is tame when those of its operands and its number are. *)
LEMMA PromTreeMild ==
  ASSUME NEW e, IsNode(e), PromNode(e), NEW kinds, "fin" \notin kinds,
         "value" \in DOMAIN e.at => ~Odd(e.at["value"], kinds),
         NEW k, DOMAIN k = DOMAIN e.a, k = [i \in DOMAIN e.a |-> k[i]], NEW n \in Nat, \A i \in DOMAIN k : Mild(k[i], n, kinds)
  PROVE  Mild(PromTreeNode(e, k), n + 5, kinds)
<1> DEFINE v == PromTreeNode(e, k)
<1>0. n + 3 \in Nat /\ 3 <= n + 3 /\ n <= n + 3 /\ 1 <= n + 3 /\ 2 <= n + 3
  OBVIOUS
<1>1. \A i \in DOMAIN k : Mild(k[i], n + 3, kinds)
  BY <1>0, MildMore
<1>2. Mild(Nil, n + 3, kinds) /\ Mild(List(<<>>), n + 3, kinds)
  BY <1>0, MildEmpty
<1>a. DOMAIN e.a = 1 .. Len(e.a) /\ Len(e.a) \in Nat
  BY OperandsAre
<1>3. CASE e.t \in {"String", "Number"}
  <2>1. v = e.at["value"] /\ IsLiteral(e) /\ e.at["value"].k \in {"str", "span", "source", "num"}
    BY <1>3 DEF PromTreeNode, PromNode
  <2>2. ~Odd(v, kinds)
    BY <2>1 DEF IsLiteral, HasAttributes
  <2>3. n + 5 \in Nat /\ 1 <= n + 5
    OBVIOUS
  <2> HIDE DEF v
  <2>4. Mild(v, n + 5, kinds)
    BY <2>1, <2>2, <2>3, MildScalar
  <2> QED BY <2>4 DEF v
<1>4. CASE e.t = "VectorSelector"
  <2>1. v = Node("vectorSelector", Obj(Written(SelectorFields(e), PlainSelector)))
    BY <1>4 DEF PromTreeNode, DecodeVectorSelector
  <2>2. IsSelector(e.at)
    BY <1>4 DEF PromNode
  <2> QED BY <1>0, <2>1, <2>2, MildSelector, MildFieldsWritten
<1>5. CASE e.t = "MatrixSelector"
  <2> DEFINE g == [x \in {"name", "matchers", "offset", "at", "range"} |->
                     IF x = "range" THEN e.at[x] ELSE SelectorFields(e)[x]]
  <2>1. v = Node("matrixSelector", Obj(Written(g, PlainSelector)))
    BY <1>5 DEF PromTreeNode, DecodeMatrixSelector
  <2>2. IsSelector(e.at) /\ IsSpan(e.at["range"])
    BY <1>5 DEF PromNode
  <2>3. DOMAIN SelectorFields(e) = {"name", "matchers", "offset", "at"}
    BY DEF SelectorFields
  <2>4. \A x \in DOMAIN SelectorFields(e) : Mild(SelectorFields(e)[x], n + 3, kinds)
    BY <1>0, <2>2, MildSelector
  <2>5. Mild(e.at["range"], n + 3, kinds)
    BY <1>0, <2>2, MildPlain DEF IsSpan, Plain
  <2>6. \A x \in DOMAIN g : Mild(g[x], n + 3, kinds)
    BY <2>3, <2>4, <2>5
  <2> HIDE DEF g
  <2> QED BY <2>1, <2>6, MildFieldsWritten
<1>6. CASE e.t = "Call"
  <2> DEFINE f == [func |-> e.at["func"], args |-> List(k)]
  <2>1. v = Node("call", Obj(f))
    BY <1>6 DEF PromTreeNode, DecodeCall
  <2>2. Mild(List(k), n + 1, kinds)
    BY MildList
  <2>3. Mild(List(k), n + 3, kinds)
    <3>1. n + 1 \in Nat /\ n + 1 <= n + 3
      OBVIOUS
    <3> QED BY <1>0, <2>2, <3>1, MildMore
  <2>4. Mild(e.at["func"], n + 3, kinds)
    BY <1>0, <1>6, MildPlain DEF PromNode, IsToken, Plain
  <2>5. DOMAIN f = {"func", "args"} /\ f["func"] = e.at["func"] /\ f["args"] = List(k)
    OBVIOUS
  <2> HIDE DEF f
  <2>6. \A x \in DOMAIN f : Mild(f[x], n + 3, kinds)
    BY <2>3, <2>4, <2>5
  <2> QED BY <2>1, <2>6, MildFields
<1>7. CASE e.t = "Aggregate"
  <2> DEFINE without == e.at["without"].b
             g == [op |-> e.at["op"], expr |-> k[1],
                   param |-> IF Len(k) = 2 THEN k[2] ELSE Nil,
                   without |-> IF without THEN e.at["grouping"] ELSE Nil,
                   by |-> IF without THEN List(<<>>) ELSE e.at["grouping"]]
             u == [param |-> Nil, without |-> Nil, by |-> List(<<>>)]
  <2>1. v = Node("aggregation", Obj(Written(g, u)))
    BY <1>7 DEF PromTreeNode, DecodeAggregation
  <2>2. IsToken(e.at["op"], AggOps) /\ NamesOnly(e.at["grouping"]) /\ Len(e.a) \in {1, 2}
    BY <1>7 DEF PromNode
  <2>3. Mild(e.at["op"], n + 3, kinds)
    BY <1>0, <2>2, MildPlain DEF IsToken, Plain
  <2>4. Mild(e.at["grouping"], n + 3, kinds)
    BY <1>0, <2>2, MildNames
  <2>5. DOMAIN k = 1 .. Len(e.a)
    BY <1>a
  <2>6. 1 \in DOMAIN k /\ (Len(k) = 2 => Mild(k[2], n + 3, kinds))
    <3>1. CASE Len(e.a) = 2
      BY <1>1, <2>5, <3>1
    <3>2. CASE Len(e.a) = 1
      <4>1. Len(k) = 1
        BY <2>5, <3>2
      <4> QED BY <2>5, <3>2, <4>1
    <3> QED BY <2>2, <3>1, <3>2
  <2>7. /\ DOMAIN g = {"op", "expr", "param", "without", "by"} /\ g["op"] = e.at["op"] /\ g["expr"] = k[1]
        /\ g["param"] = (IF Len(k) = 2 THEN k[2] ELSE Nil)
        /\ g["without"] = (IF without THEN e.at["grouping"] ELSE Nil)
        /\ g["by"] = (IF without THEN List(<<>>) ELSE e.at["grouping"])
    OBVIOUS
  <2> HIDE DEF g, u
  <2>8. \A x \in DOMAIN g : Mild(g[x], n + 3, kinds)
    BY <1>1, <1>2, <2>3, <2>4, <2>6, <2>7
  <2> QED BY <2>1, <2>8, MildFieldsWritten
<1>8. CASE e.t = "Binary"
  <2> DEFINE vm == e.at["matching"].f
             on == vm["on"].b
             labels == vm["labels"]
             card == vm["card"]
             include == vm["include"]
             g == [op |-> e.at["op"], lhs |-> k[1], rhs |-> k[2], bool |-> e.at["bool"],
                   on |-> IF on THEN labels ELSE Nil,
                   ignoring |-> IF on THEN List(<<>>) ELSE labels,
                   group_left |-> IF card = Name("left") THEN include ELSE Nil,
                   group_right |-> IF card = Name("right") THEN include ELSE Nil]
             u == [bool |-> Bool(FALSE), on |-> Nil, ignoring |-> List(<<>>),
                   group_left |-> Nil, group_right |-> Nil]
  <2>1. v = Node("binaryExpr", Obj(Written(g, u)))
    BY <1>8 DEF PromTreeNode, DecodeBinary
  <2>2. /\ IsToken(e.at["op"], BinaryOps) /\ IsBool(e.at["bool"]) /\ NamesOnly(labels) /\ NamesOnly(include)
        /\ Len(e.a) = 2
    BY <1>8 DEF PromNode, IsMatching
  <2>3. Mild(e.at["op"], n + 3, kinds)
    BY <1>0, <2>2, MildPlain DEF IsToken, Plain
  <2>4. Mild(e.at["bool"], n + 3, kinds)
    BY <1>0, <2>2, MildPlain DEF IsBool, Bool, Plain
  <2>5. Mild(labels, n + 3, kinds) /\ Mild(include, n + 3, kinds)
    BY <1>0, <2>2, MildNames
  <2>6. Mild(k[1], n + 3, kinds) /\ Mild(k[2], n + 3, kinds)
    BY <1>1, <1>a, <2>2
  <2>7. /\ DOMAIN g = {"op", "lhs", "rhs", "bool", "on", "ignoring", "group_left", "group_right"}
        /\ g["op"] = e.at["op"] /\ g["lhs"] = k[1] /\ g["rhs"] = k[2] /\ g["bool"] = e.at["bool"]
        /\ g["on"] = (IF on THEN labels ELSE Nil) /\ g["ignoring"] = (IF on THEN List(<<>>) ELSE labels)
        /\ g["group_left"] = (IF card = Name("left") THEN include ELSE Nil)
        /\ g["group_right"] = (IF card = Name("right") THEN include ELSE Nil)
    OBVIOUS
  <2> HIDE DEF g, u, on, labels, card, include
  <2>8. \A x \in DOMAIN g : Mild(g[x], n + 3, kinds)
    BY <1>2, <2>3, <2>4, <2>5, <2>6, <2>7
  <2> QED BY <2>1, <2>8, MildFieldsWritten
<1>9. CASE e.t = "Subquery"
  <2> DEFINE g == [expr |-> k[1], range |-> e.at["range"], step |-> e.at["step"],
                   offset |-> e.at["offset"], at |-> e.at["at"]]
             u == [step |-> Nil, offset |-> Nil, at |-> Nil]
  <2>1. v = Node("subquery", Obj(Written(g, u)))
    BY <1>9 DEF PromTreeNode, DecodeSubquery
  <2>2. /\ IsSpan(e.at["range"]) /\ IsOptionalSpan(e.at["step"]) /\ IsOptionalSpan(e.at["offset"])
        /\ IsAt(e.at["at"]) /\ Len(e.a) = 1
    BY <1>9 DEF PromNode
  <2>3. Plain(Nil)
    BY DEF Nil, Plain
  <2>4. Plain(e.at["range"]) /\ Plain(e.at["step"]) /\ Plain(e.at["offset"])
    BY <2>2, <2>3 DEF IsOptionalSpan, IsSpan, Plain
  <2>5. Mild(e.at["range"], n + 3, kinds) /\ Mild(e.at["step"], n + 3, kinds) /\ Mild(e.at["offset"], n + 3, kinds)
    BY <1>0, <2>4, MildPlain
  <2>6. Mild(e.at["at"], n + 3, kinds)
    BY <1>0, <2>2, MildAt
  <2>7. Mild(k[1], n + 3, kinds)
    BY <1>1, <1>a, <2>2
  <2>8. /\ DOMAIN g = {"expr", "range", "step", "offset", "at"} /\ g["expr"] = k[1] /\ g["range"] = e.at["range"]
        /\ g["step"] = e.at["step"] /\ g["offset"] = e.at["offset"] /\ g["at"] = e.at["at"]
    OBVIOUS
  <2> HIDE DEF g, u
  <2>9. \A x \in DOMAIN g : Mild(g[x], n + 3, kinds)
    BY <2>5, <2>6, <2>7, <2>8
  <2> QED BY <2>1, <2>9, MildFieldsWritten
<1>10. CASE e.t \in {"Paren", "Unary"}
  <2>1. Len(e.a) = 1
    BY <1>10 DEF PromNode
  <2>2. PICK key : v = Node(key, k[1])
    BY <1>10 DEF PromTreeNode
  <2>3. Mild(Node(key, k[1]), (n + 3) + 1, kinds)
    <3>1. Mild(k[1], n + 3, kinds)
      BY <1>1, <1>a, <2>1
    <3> QED BY <1>0, <3>1, MildNode
  <2>4. (n + 3) + 1 \in Nat /\ n + 5 \in Nat /\ (n + 3) + 1 <= n + 5
    OBVIOUS
  <2> QED BY <2>2, <2>3, <2>4, MildMore
<1>11. e.t \in {"String", "Number", "VectorSelector", "MatrixSelector", "Call", "Aggregate", "Binary", "Subquery",
                "Paren", "Unary"}
  BY DEF PromNode
<1> QED BY <1>3, <1>4, <1>5, <1>6, <1>7, <1>8, <1>9, <1>10, <1>11

LEMMA PromNodeBuilt ==
  ASSUME NEW e, IsNode(e), PromNode(e), NEW k, NEW b, NEW C, Closed(C), NEW reason, Known(e, k, b, C, reason),
         HeldBy(PromTreeNode(e, k)) \subseteq C, \A i \in DOMAIN k : k[i] # Nil, AtTooFar(e) => reason
  PROVE  Gets(PromBuildNode(PromTreeNode(e, k), b), e, reason)
<1>1. e.t \in {"String", "Number", "VectorSelector", "MatrixSelector", "Call", "Aggregate", "Binary", "Subquery",
               "Paren", "Unary"}
  BY DEF PromNode
<1>2. CASE e.t \in {"String", "Number"}
  BY <1>2, PromLiteral
<1>3. CASE e.t = "VectorSelector"
  BY <1>3, PromVector
<1>4. CASE e.t = "MatrixSelector"
  BY <1>4, PromMatrix
<1>5. CASE e.t = "Call"
  BY <1>5, PromCall
<1>6. CASE e.t = "Aggregate"
  BY <1>6, PromAggregate
<1>7. CASE e.t = "Binary"
  BY <1>7, PromBinary
<1>8. CASE e.t = "Subquery"
  BY <1>8, PromSubquery
<1>9. CASE e.t \in {"Paren", "Unary"}
  BY <1>9, PromOne
<1> QED BY <1>1, <1>2, <1>3, <1>4, <1>5, <1>6, <1>7, <1>8, <1>9

LEMMA PromGoodNode ==
  ASSUME NEW e, IsNode(e), PromNode(e), NEW k, DOMAIN k = DOMAIN e.a, k = [i \in DOMAIN e.a |-> k[i]], NEW reason,
         \A i \in DOMAIN e.a : e.a[i] # Bad /\ k[i] # Nil /\ PromGood(e.a[i], k[i], reason),
         AtTooFar(e) => reason
  PROVE  PromGood(e, PromTreeNode(e, k), reason)
<1> DEFINE v == PromTreeNode(e, k)
<1>1. SUFFICES ASSUME NEW U, Closed(U), v \in U, NEW m \in Nat, Short(v, m)
               PROVE  Gets(PromBuilds!Stage(U)[m][v], e, reason)
  BY DEF PromGood
<1> DEFINE b == PromBuilds!Stage(U)[m - 1]
           C == {w \in U : Short(w, m - 1)}
<1>2. m - 1 \in Nat /\ \A w \in HeldBy(v) : Short(w, m - 1)
  <2> HIDE DEF v
  <2> QED BY <1>1, HeldShort
<1>3. PromBuilds!Stage(U)[m] = PromBuildMore(U, b)
  <2>1. \A i \in Nat : PromBuilds!Stage(U)[i + 1] = PromBuildMore(U, PromBuilds!Stage(U)[i])
    BY NumbersHaveLeast, PromBuilds!StageIs
  <2>2. (m - 1) + 1 = m
    OBVIOUS
  <2> QED BY <1>2, <2>1, <2>2
<1>4. PromBuilds!Stage(U)[m][v] = PromBuildNode(v, b)
  <2> HIDE DEF v, b
  <2> QED BY <1>1, <1>3 DEF PromBuildMore
<1>5. Closed(C)
  BY <1>1, <1>2, ShortClosed
<1>6. HeldBy(v) \subseteq C
  <2> HIDE DEF v
  <2> QED BY <1>1, <1>2 DEF Closed
<1>7. Known(e, k, b, C, reason)
  <2>1. ASSUME NEW i \in DOMAIN e.a, k[i] \in C PROVE Gets(b[k[i]], e.a[i], reason)
    <3>1. PromGood(e.a[i], k[i], reason)
      OBVIOUS
    <3>2. k[i] \in U /\ Short(k[i], m - 1)
      BY <2>1
    <3> QED BY <1>1, <1>2, <3>1, <3>2 DEF PromGood
  <2> HIDE DEF b, C
  <2> QED BY <2>1 DEF Known
<1>8. \A i \in DOMAIN k : k[i] # Nil
  OBVIOUS
<1> HIDE DEF b, C
<1>9. Gets(PromBuildNode(PromTreeNode(e, k), b), e, reason)
  BY <1>5, <1>6, <1>7, <1>8, PromNodeBuilt
<1> QED BY <1>4, <1>9

LEMMA PromNodeNotBad ==
  ASSUME NEW e, PromNode(e)
  PROVE  e # Bad
<1>1. Bad.t = "bad"
  BY DEF Bad, Ast
<1> QED BY <1>1 DEF PromNode

(* A reason in an operand is one in the node. *)
LEMMA OneWayAbove ==
  ASSUME NEW l, NEW e, NEW n \in Nat, Legal(l, e, n)
  PROVE  /\ \A i \in DOMAIN e.a : SomeOneWay(l, e.a[i]) => SomeOneWay(l, e)
         /\ OneWay(l, e) => SomeOneWay(l, e)
<1>1. IsNode(e) /\ Finite(e)
  BY LegalOperands DEF Legal, Finite
<1>2. \A i \in DOMAIN e.a : Parts(e.a[i]) \subseteq Parts(e)
  BY <1>1, PartsOfOperand
<1>3. e \in Parts(e)
  BY <1>1, PartsAre
<1> QED BY <1>2, <1>3 DEF SomeOneWay

LEMMA NumberAbove ==
  ASSUME NEW l, NEW e, NEW n \in Nat, Legal(l, e, n), NEW kinds
  PROVE  /\ \A i \in DOMAIN e.a : SomeNumber(e.a[i], kinds) => SomeNumber(e, kinds)
         /\ ("value" \in DOMAIN e.at /\ Odd(e.at["value"], kinds)) => SomeNumber(e, kinds)
<1>1. IsNode(e) /\ Finite(e)
  BY LegalOperands DEF Legal, Finite
<1>2. \A i \in DOMAIN e.a : Parts(e.a[i]) \subseteq Parts(e)
  BY <1>1, PartsOfOperand
<1>3. e \in Parts(e)
  BY <1>1, PartsAre
<1>4. ASSUME NEW v, Odd(v, kinds) PROVE HasNumber(v, kinds)
  <2>1. HeldBy(v) = {}
    BY <1>4 DEF Odd, HeldBy, Held
  <2>2. Short(v, 0 + 1)
    BY <2>1, ShortBelow
  <2>3. 0 + 1 \in Nat
    OBVIOUS
  <2>4. v \in Parts(v)
    BY <2>2, <2>3, PartsAre DEF Finite
  <2> QED BY <1>4, <2>4 DEF HasNumber, Odd
<1>5. \A i \in DOMAIN e.a : SomeNumber(e.a[i], kinds) => SomeNumber(e, kinds)
  BY <1>2 DEF SomeNumber
<1>6. ("value" \in DOMAIN e.at /\ Odd(e.at["value"], kinds)) => SomeNumber(e, kinds)
  BY <1>3, <1>4 DEF SomeNumber
<1> QED BY <1>5, <1>6

LEMMA PromOneWay ==
  ASSUME NEW e
  PROVE  OneWay("promql", e) <=> AtTooFar(e)
  BY DEF OneWay, AtTooFar

(* The tree that a decode makes of an expression of so many layers. *)
PromDecoded(e, v, n) ==
  /\ v # Nil /\ PromGood(e, v, SomeOneWay("promql", e))
  /\ \A kinds : "fin" \notin kinds /\ ~SomeNumber(e, kinds) => Mild(v, 5 * n, kinds)

LEMMA PromDecodes ==
  ASSUME NEW n \in Nat, NEW e, Legal("promql", e, n), NEW A, Closed(A), e \in A, NEW m \in Nat, n <= m
  PROVE  PromDecoded(e, PromTrees!Stage(A)[m][e], n)
<1> DEFINE Fails(i) == \E x, B : /\ Legal("promql", x, i) /\ Closed(B) /\ x \in B
                                 /\ \E j \in Nat : i <= j /\ ~PromDecoded(x, PromTrees!Stage(B)[j][x], i)
           bad == {i \in Nat : Fails(i)}
<1>1. SUFFICES ASSUME bad # {} PROVE FALSE
  <2>1. \A i \in Nat : ~Fails(i)
    BY <1>1, Zenon
  <2> QED BY <2>1
<1>2. PICK i \in bad : \A j \in bad : i <= j
  <2> HIDE DEF bad
  <2>1. bad \subseteq Nat
    BY DEF bad
  <2> QED BY <1>1, <2>1, FirstPosition
<1>3. PICK x, B : /\ Legal("promql", x, i) /\ Closed(B) /\ x \in B
                  /\ \E j \in Nat : i <= j /\ ~PromDecoded(x, PromTrees!Stage(B)[j][x], i)
  BY <1>2
<1>4. PICK j \in Nat : i <= j /\ ~PromDecoded(x, PromTrees!Stage(B)[j][x], i)
  BY <1>3
<1>5. i \in Nat
  BY <1>2
<1>6. /\ IsNode(x) /\ PromNode(x) /\ i - 1 \in Nat
      /\ \A h \in DOMAIN x.a : Legal("promql", x.a[h], i - 1)
  BY <1>3, <1>5, LegalOperands DEF IsLanguageNode
<1>7. ~Fails(i - 1)
  <2>1. ~(i <= i - 1)
    BY <1>5
  <2> HIDE DEF Fails
  <2> QED BY <1>2, <1>6, <2>1
<1>8. j - 1 \in Nat /\ i - 1 <= j - 1 /\ (j - 1) + 1 = j
  BY <1>4, <1>6
<1> DEFINE tree == PromTrees!Stage(B)[j - 1]
           k == [h \in DOMAIN x.a |-> tree[x.a[h]]]
<1>9. PromTrees!Stage(B)[j] = PromTreeMore(B, tree)
  <2>1. \A h \in Nat : PromTrees!Stage(B)[h + 1] = PromTreeMore(B, PromTrees!Stage(B)[h])
    BY NumbersHaveLeast, PromTrees!StageIs
  <2> QED BY <2>1, <1>8
<1> HIDE DEF tree
<1>10. PromTrees!Stage(B)[j][x] = PromTreeNode(x, k)
  BY <1>3, <1>9 DEF PromTreeMore
<1>11. ASSUME NEW h \in DOMAIN x.a PROVE PromDecoded(x.a[h], k[h], i - 1) /\ x.a[h] # Bad
  <2>1. x.a[h] \in B
    <3>1. HeldBy(x) = {x.a[g] : g \in DOMAIN x.a}
      BY <1>6, OperandsAre
    <3> QED BY <1>3, <3>1 DEF Closed
  <2>2. Legal("promql", x.a[h], i - 1)
    BY <1>6
  <2>3. PromDecoded(x.a[h], PromTrees!Stage(B)[j - 1][x.a[h]], i - 1)
    BY <1>3, <1>7, <1>8, <2>1, <2>2
  <2>4. PromNode(x.a[h])
    BY <1>6, <2>2, LegalOperands DEF IsLanguageNode
  <2> QED BY <2>3, <2>4, PromNodeNotBad DEF tree
<1> HIDE DEF k
<1>12. DOMAIN k = DOMAIN x.a /\ k = [h \in DOMAIN x.a |-> k[h]]
  BY DEF k
<1> DEFINE reason == SomeOneWay("promql", x)
<1>13. /\ \A h \in DOMAIN x.a : SomeOneWay("promql", x.a[h]) => reason
       /\ OneWay("promql", x) => reason
  BY <1>3, <1>5, OneWayAbove
<1> HIDE DEF reason
<1>14. \A h \in DOMAIN x.a : x.a[h] # Bad /\ k[h] # Nil /\ PromGood(x.a[h], k[h], reason)
  BY <1>11, <1>13 DEF PromDecoded, PromGood, Gets
<1>15. AtTooFar(x) => reason
  BY <1>13, PromOneWay
<1>16. PromGood(x, PromTreeNode(x, k), reason)
  BY <1>6, <1>12, <1>14, <1>15, PromGoodNode
<1>17. PromTreeNode(x, k) # Nil
  BY <1>6, PromTreeSome
<1>18. ASSUME NEW kinds, "fin" \notin kinds, ~SomeNumber(x, kinds)
       PROVE  Mild(PromTreeNode(x, k), 5 * i, kinds)
  <2>1. /\ \A h \in DOMAIN x.a : ~SomeNumber(x.a[h], kinds)
        /\ "value" \in DOMAIN x.at => ~Odd(x.at["value"], kinds)
    BY <1>3, <1>5, <1>18, NumberAbove
  <2>2. \A h \in DOMAIN k : Mild(k[h], 5 * (i - 1), kinds)
    BY <1>11, <1>12, <1>18, <2>1 DEF PromDecoded
  <2> DEFINE c == 5 * (i - 1)
  <2>3. c \in Nat /\ c + 5 = 5 * i
    BY <1>6
  <2>4. \A h \in DOMAIN k : Mild(k[h], c, kinds)
    BY <2>2
  <2> HIDE DEF c
  <2>5. Mild(PromTreeNode(x, k), c + 5, kinds)
    BY <1>6, <1>12, <1>18, <2>1, <2>3, <2>4, PromTreeMild
  <2> QED BY <2>3, <2>5
<1>19. PromDecoded(x, PromTreeNode(x, k), i)
  BY <1>16, <1>17, <1>18 DEF PromDecoded, reason
<1> QED BY <1>4, <1>10, <1>19

-----------------------------------------------------------------------------
(* OEL: what a build makes of the tree of a node, of which an entry and a  *)
(* comma list are read by the node that holds them.                        *)

OelKnown(e, k, b, C, reason) ==
  /\ DOMAIN k = DOMAIN e.a /\ k = [i \in DOMAIN e.a |-> k[i]]
  /\ \A i \in DOMAIN e.a :
       /\ e.a[i] # Bad /\ IsNode(e.a[i]) /\ OelNode(e.a[i]) /\ OelShape(e.a[i], k[i])
       /\ k[i] \in C /\ OelReads(e.a[i]) => Gets(OelResult(e.a[i], k[i], b), e.a[i], reason)

LEMMA OelValuesKnown ==
  ASSUME NEW e, NEW k, NEW b, NEW C, NEW reason, OelKnown(e, k, b, C, reason), OelValues(e.a)
  PROVE  Known(e, k, b, C, reason)
<1>1. ASSUME NEW i \in DOMAIN e.a
      PROVE  OelReads(e.a[i]) /\ OelResult(e.a[i], k[i], b) = b[k[i]]
  BY DEF OelValues, OelReads, OelResult
<1> QED BY <1>1 DEF OelKnown, Known

LEMMA OelKeyed ==
  ASSUME NEW key, NEW w, NEW b
  PROVE  OelBuildNode(Node(key, w), b) = OelBuildKeyed(key, w, b)
<1>1. /\ Node(key, w).k = "obj" /\ Node(key, w).f[key] = w
      /\ Sole(Node(key, w)) /\ SoleKey(Node(key, w)) = key
  BY NodeIs
<1> DEFINE v == Node(key, w)
<1>2. v.k = "obj" /\ v.f[key] = w /\ Sole(v) /\ SoleKey(v) = key
  BY <1>1
<1> HIDE DEF v
<1>3. OelBuildNode(v, b) = OelBuildKeyed(key, w, b)
  BY <1>2 DEF OelBuildNode
<1> QED BY <1>3 DEF v

LEMMA OelLiteral ==
  ASSUME NEW e, IsNode(e), OelNode(e), e.t \in {"Null", "Bool", "String", "Int", "Float"}, NEW k, NEW b, NEW reason
  PROVE  Gets(OelBuildNode(OelTreeNode(e, k), b), e, reason)
<1> DEFINE v == e.at["value"]
<1>1. OelTreeNode(e, k) = v
  BY DEF OelTreeNode
<1>2. e = Ast(e.t, e.at, e.a) /\ e.at = [x \in {"value"} |-> v] /\ e.a = <<>>
  BY DEF IsNode, OelNode, IsLiteral, HasAttributes
<1>3. e = Lit(e.t, v)
  BY <1>2 DEF Lit
<1>5. CASE e.t = "Null"
  <2>1. v.k = "nil"
    BY <1>5 DEF OelNode, Nil
  <2> HIDE DEF v
  <2>2. OelBuildNode(v, b) = Lit("Null", v)
    BY <2>1 DEF OelBuildNode, Sole
  <2> QED BY <1>1, <1>3, <1>5, <2>2 DEF Gets
<1>6. CASE e.t = "Bool"
  <2>1. v.k = "bool"
    BY <1>6 DEF OelNode, IsBool, Bool
  <2> HIDE DEF v
  <2>2. OelBuildNode(v, b) = Lit("Bool", v)
    BY <2>1 DEF OelBuildNode, Sole
  <2> QED BY <1>1, <1>3, <1>6, <2>2 DEF Gets
<1>7. CASE e.t = "String"
  <2>1. v.k \in {"str", "source"}
    BY <1>7 DEF OelNode
  <2> HIDE DEF v
  <2>2. OelBuildNode(v, b) = Lit("String", v)
    BY <2>1 DEF OelBuildNode, Sole
  <2> QED BY <1>1, <1>3, <1>7, <2>2 DEF Gets
<1>8. CASE e.t \in {"Int", "Float"}
  <2>1. v.k = "num" /\ (IsInt(v) <=> e.t = "Int")
    BY <1>8 DEF OelNode
  <2> HIDE DEF v
  <2>2. OelBuildNode(v, b) = NumberLiteral(v)
    BY <2>1 DEF OelBuildNode, Sole
  <2>3. NumberLiteral(v) = Lit(e.t, v)
    BY <2>1, <1>8 DEF NumberLiteral
  <2> QED BY <1>1, <1>3, <2>2, <2>3 DEF Gets
<1> QED BY <1>5, <1>6, <1>7, <1>8

LEMMA OelArray ==
  ASSUME NEW e, IsNode(e), OelNode(e), e.t = "ArrayLit", NEW k, NEW b, NEW C, Closed(C), NEW reason,
         OelKnown(e, k, b, C, reason), HeldBy(OelTreeNode(e, k)) \subseteq C
  PROVE  Gets(OelBuildNode(OelTreeNode(e, k), b), e, reason)
<1>1. OelTreeNode(e, k) = List(k) /\ e.at = NoFields /\ OelValues(e.a)
  BY DEF OelTreeNode, OelNode
<1>2. OelBuildNode(List(k), b) = Of("ArrayLit", NoFields, BuildList(k, b))
  <2>1. List(k).k = "list" /\ List(k).e = k
    BY ListIs
  <2> QED BY <2>1 DEF OelBuildNode, Sole
<1>3. Gets(Of("ArrayLit", NoFields, BuildList(k, b)), e, reason)
  <2>1. \A i \in DOMAIN k : k[i] \in C
    BY <1>1, ListIs
  <2>2. Known(e, k, b, C, reason)
    BY <1>1, OelValuesKnown
  <2> QED BY <1>1, <2>1, <2>2, EveryOperand
<1> QED BY <1>1, <1>2, <1>3

LEMMA OelIdent ==
  ASSUME NEW s, NEW n, Len(s) - 1 = n, s[1] # ""
  PROVE  BuildIdent(Str(s)) =
           Ast("Path", [user |-> Bool(s[1] = "user"), root |-> Name(IF s[1] = "user" THEN "" ELSE s[1]),
                        hops |-> List([i \in 1 .. n |-> Name(s[i + 1])])], <<>>)
<1> DEFINE v == Str(s)
<1>1. v.k = "str" /\ v.s = s /\ v # EmptyName
  <2>1. v.k = "str" /\ v.s = s
    BY DEF Str
  <2>2. EmptyName.s[1] = ""
    BY DEF EmptyName, Name, Str
  <2> QED BY <2>1, <2>2
<1> HIDE DEF v
<1>2. BuildIdent(v) = Ast("Path", [user |-> Bool(s[1] = "user"), root |-> Name(IF s[1] = "user" THEN "" ELSE s[1]),
                                   hops |-> List([i \in 1 .. n |-> Name(s[i + 1])])], <<>>)
  BY <1>1 DEF BuildIdent
<1> QED BY <1>2 DEF v

LEMMA OelPath ==
  ASSUME NEW e, IsNode(e), OelNode(e), e.t = "Path", NEW k, NEW b, NEW reason
  PROVE  Gets(OelBuildNode(OelTreeNode(e, k), b), e, reason)
<1> DEFINE hops == e.at["hops"].e
           n == Len(hops)
           user == e.at["user"].b
           root == e.at["root"]
           first == IF user THEN "user" ELSE root.s[1]
           s == [i \in 1 .. n + 1 |-> IF i = 1 THEN first ELSE hops[i - 1].s[1]]
           at == [user |-> Bool(s[1] = "user"), root |-> Name(IF s[1] = "user" THEN "" ELSE s[1]),
                  hops |-> List([i \in 1 .. n |-> Name(s[i + 1])])]
<1>1. OelTreeNode(e, k) = DecodePath(e)
  BY DEF OelTreeNode
<1>2. HasAttributes(e, {"user", "root", "hops"}) /\ IsPath(e.at) /\ e.a = <<>>
  BY DEF OelNode
<1>3. e = Ast("Path", e.at, <<>>)
  BY <1>2 DEF IsNode
<1>4. /\ IsBool(e.at["user"]) /\ root = Name(root.s[1])
      /\ IF user THEN root = EmptyName ELSE root \notin {EmptyName, Name("user")}
      /\ e.at["hops"] = List(hops) /\ IsSequence(hops)
      /\ \A i \in DOMAIN hops : hops[i].k = "str" => hops[i] = Name(hops[i].s[1])
  BY <1>2 DEF IsPath
<1>5. n \in Nat /\ hops = [i \in 1 .. n |-> hops[i]] /\ DOMAIN hops = 1 .. n
  BY <1>4 DEF IsSequence
<1>6. user \in BOOLEAN /\ e.at["user"] = Bool(user)
  BY <1>4, BoolIs
<1>7. CASE \E i \in DOMAIN hops : hops[i].k # "str"
  <2>1. DecodePath(e) = Node("raw", Source(e))
    BY <1>7 DEF DecodePath
  <2>2. OelBuildKeyed("raw", Source(e), b) = e
    BY DEF OelBuildKeyed, OelRaw, Source
  <2> QED BY <1>1, <2>1, <2>2, OelKeyed DEF Gets
<1>8. CASE \A i \in DOMAIN hops : hops[i].k = "str"
  <2>1. DecodePath(e) = Node("ident", Str(s))
    BY <1>8 DEF DecodePath
  <2>2. OelBuildKeyed("ident", Str(s), b) = BuildIdent(Str(s))
    BY DEF OelBuildKeyed
  <2>3. \A i \in 1 .. n : hops[i] = Name(hops[i].s[1])
    BY <1>4, <1>5, <1>8
  <2> HIDE DEF hops, n, user, root
  <2>4. Len(s) = n + 1 /\ s[1] = first /\ \A i \in 1 .. n : s[i + 1] = hops[i].s[1]
    BY <1>5
  <2>5. first # "" /\ (first = "user" <=> user)
    <3>1. CASE user
      BY <3>1, <1>6
    <3>2. CASE ~user
      <4>1. root # Name("") /\ root # Name("user") /\ root = Name(root.s[1])
        BY <1>4, <3>2 DEF EmptyName
      <4>2. root.s[1] # "" /\ root.s[1] # "user"
        BY <4>1
      <4> QED BY <3>2, <4>2
    <3> QED BY <3>1, <3>2
  <2> HIDE DEF s
  <2>6. BuildIdent(Str(s)) = Ast("Path", at, <<>>)
    <3>1. Str(s).k = "str"
      BY DEF Str
    <3> QED
      <4>1. Len(s) - 1 = n
        BY <1>5, <2>4
      <4> QED BY <2>4, <2>5, <3>1, <4>1, OelIdent
  <2>7. at = e.at
    <3>1. (s[1] = "user") = user
      BY <1>6, <2>4, <2>5
    <3>2. Bool(s[1] = "user") = e.at["user"]
      BY <1>6, <3>1
    <3>3. Name(IF s[1] = "user" THEN "" ELSE s[1]) = root
      BY <1>4, <2>4, <2>5 DEF EmptyName
    <3>4. List([i \in 1 .. n |-> Name(s[i + 1])]) = e.at["hops"]
      <4>1. [i \in 1 .. n |-> Name(s[i + 1])] = hops
        BY <1>5, <2>3, <2>4
      <4> QED BY <1>4, <4>1
    <3>5. DOMAIN at = {"user", "root", "hops"} /\ at = [x \in {"user", "root", "hops"} |-> at[x]]
      OBVIOUS
    <3>6. \A x \in {"user", "root", "hops"} : at[x] = e.at[x]
      <4>1. at["user"] = e.at["user"]
        BY <3>2
      <4>2. at["root"] = e.at["root"]
        BY <3>3 DEF root
      <4>3. at["hops"] = e.at["hops"]
        BY <3>4
      <4> HIDE DEF at
      <4> QED BY <4>1, <4>2, <4>3
    <3> HIDE DEF at
    <3> QED BY <1>2, <3>5, <3>6, AttributesAre
  <2> QED BY <1>1, <1>3, <2>1, <2>2, <2>6, <2>7, OelKeyed DEF Gets
<1> QED BY <1>7, <1>8

(* Every operator is spelled as itself. *)
LEMMA ComparisonSpelled ==
  ASSUME NEW op \in ComparisonOps
  PROVE  Spells(op, ComparisonOps) /\ Spelled(op, ComparisonOps) = op
<1>1. op \in SpellingsOf(op)
  BY DEF SpellingsOf, ComparisonOps
<1>2. \A x \in ComparisonOps : op \in SpellingsOf(x) => x = op
  BY DEF SpellingsOf, ComparisonOps
<1> QED BY <1>1, <1>2 DEF Spells, Spelled

LEMMA LogicalSpelled ==
  ASSUME NEW op \in LogicalOps
  PROVE  Spells(op, LogicalOps) /\ Spelled(op, LogicalOps) = op /\ ~Spells(op, ComparisonOps)
<1>1. op \in SpellingsOf(op)
  BY DEF SpellingsOf, LogicalOps
<1>2. \A x \in LogicalOps : op \in SpellingsOf(x) => x = op
  BY DEF SpellingsOf, LogicalOps
<1>3. \A x \in ComparisonOps : op \notin SpellingsOf(x)
  BY DEF SpellingsOf, LogicalOps, ComparisonOps
<1> QED BY <1>1, <1>2, <1>3 DEF Spells, Spelled

LEMMA OperatorKey ==
  ASSUME NEW key \in ComparisonOps \cup LogicalOps \cup {"+", "?:", "cond", "elvis", "matches"}, NEW k, NEW b
  PROVE  OelBuildKeyed(key, List(k), b) = BuildOperator(key, BuildList(k, b))
<1>1. key \notin {"ident", "raw", "call", "select", "index", "project", "map", "!", "not"}
  BY DEF ComparisonOps, LogicalOps
<1>2. List(k).k = "list" /\ List(k).e = k
  BY ListIs
<1> QED BY <1>1, <1>2 DEF OelBuildKeyed

LEMMA BuildListLen ==
  ASSUME NEW k, NEW b, NEW n \in Nat, DOMAIN k = 1 .. n
  PROVE  Len(BuildList(k, b)) = n /\ DOMAIN BuildList(k, b) = 1 .. n /\ \A i \in 1 .. n : BuildList(k, b)[i] = b[k[i]]
  BY DEF BuildList

LEMMA OelSpelledOperator ==
  ASSUME NEW e, IsNode(e), OelNode(e), e.t \in {"Comparison", "Logical"}, NEW k, NEW b, NEW C, Closed(C), NEW reason,
         OelKnown(e, k, b, C, reason), HeldBy(OelTreeNode(e, k)) \subseteq C
  PROVE  Gets(OelBuildNode(OelTreeNode(e, k), b), e, reason)
<1> DEFINE a == BuildList(k, b)
<1>1. OelTreeNode(e, k) = Node(e.at["op"].s[1], List(k))
  BY DEF OelTreeNode
<1>2. e.at = [x \in {"op"} |-> e.at["op"]] /\ OelValues(e.a)
  BY DEF OelNode, HasAttributes
<1>3. List(k) \in C
  <2>1. HeldBy(Node(e.at["op"].s[1], List(k))) = {List(k)}
    BY NodeHolds
  <2> QED BY <1>1, <2>1
<1>4. Len(e.a) \in Nat /\ DOMAIN k = 1 .. Len(e.a)
  BY OperandsAre DEF OelKnown
<1>5. Len(a) = Len(e.a)
  <2> DEFINE n == Len(e.a)
  <2>1. n \in Nat /\ DOMAIN k = 1 .. n
    BY <1>4
  <2> HIDE DEF n
  <2>2. Len(BuildList(k, b)) = n
    BY <2>1, BuildListLen
  <2> QED BY <2>2 DEF n
<1>6. Gets(Of(e.t, e.at, a), e, reason)
  BY <1>2, <1>3, OelValuesKnown, ListedOperands
<1> HIDE DEF a
<1>7. CASE e.t = "Comparison"
  <2>1. PICK op \in ComparisonOps : e.at["op"] = Name(op)
    BY <1>7 DEF OelNode
  <2>2. Len(e.a) = 2
    BY <1>7 DEF OelNode
  <2>3. e.at["op"].s[1] = op
    BY <2>1 DEF Name, Str
  <2>4. OelBuildKeyed(op, List(k), b) = BuildOperator(op, a)
    BY OperatorKey DEF a
  <2>5. Spells(op, ComparisonOps) /\ Spelled(op, ComparisonOps) = op
    BY ComparisonSpelled
  <2>6. BuildOperator(op, a) = Of("Comparison", [x \in {"op"} |-> Name(op)], a)
    <3>1. BuildOperator(op, a) = IF Len(a) = 2 THEN Of("Comparison", [x \in {"op"} |-> Name(Spelled(op, ComparisonOps))], a) ELSE Bad
      <4>1. ~Spells(op, LogicalOps) /\ op \notin {"+", "?:", "cond", "elvis", "matches"}
        BY DEF Spells, SpellingsOf, LogicalOps, ComparisonOps
      <4> QED BY <2>5, <4>1 DEF BuildOperator
    <3> QED BY <3>1, <1>5, <2>2, <2>5
  <2>7. BuildOperator(op, a) = Of(e.t, e.at, a)
    BY <1>2, <1>7, <2>1, <2>6
  <2> QED BY <1>1, <1>6, <2>3, <2>4, <2>7, OelKeyed
<1>8. CASE e.t = "Logical"
  <2>1. PICK op \in LogicalOps : e.at["op"] = Name(op)
    BY <1>8 DEF OelNode
  <2>2. Len(e.a) >= 2
    BY <1>8 DEF OelNode
  <2>3. e.at["op"].s[1] = op
    BY <2>1 DEF Name, Str
  <2>4. OelBuildKeyed(op, List(k), b) = BuildOperator(op, a)
    BY OperatorKey DEF a
  <2>5. Spells(op, LogicalOps) /\ Spelled(op, LogicalOps) = op /\ ~Spells(op, ComparisonOps)
    BY LogicalSpelled
  <2>6. BuildOperator(op, a) = Of("Logical", [x \in {"op"} |-> Name(op)], a)
    <3>1. op \notin {"+", "?:", "cond", "elvis", "matches"}
      BY DEF LogicalOps
    <3>2. Len(a) # 0 /\ Len(a) # 1
      <4> DEFINE n == Len(e.a)
      <4>1. n \in Nat /\ n >= 2 /\ Len(a) = n
        BY <1>4, <1>5, <2>2
      <4> HIDE DEF n
      <4>2. n # 0 /\ n # 1
        BY <4>1
      <4> QED BY <4>1, <4>2
    <3> QED BY <2>5, <3>1, <3>2 DEF BuildOperator
  <2>7. BuildOperator(op, a) = Of(e.t, e.at, a)
    BY <1>2, <1>8, <2>1, <2>6
  <2> QED BY <1>1, <1>6, <2>3, <2>4, <2>7, OelKeyed
<1> QED BY <1>7, <1>8

LEMMA OtherOperators ==
  ASSUME NEW op \in {"+", "?:", "cond", "elvis", "matches"}
  PROVE  ~Spells(op, ComparisonOps) /\ ~Spells(op, LogicalOps)
  BY DEF Spells, SpellingsOf, LogicalOps, ComparisonOps

LEMMA TwoJoined ==
  ASSUME NEW a, Len(a) = 2
  PROVE  BuildAdditive(a) = Of("Additive", NoFields, <<a[1], a[2]>>)
<1> DEFINE x == Ast("Additive", NoFields, a)
<1>1. x.t = "Additive" /\ x.at = NoFields /\ x.a = a
  BY DEF Ast
<1> HIDE DEF x
<1>2. Joins!Stage(x)[0] = FirstOperand(x) /\ \A n \in Nat : Joins!Stage(x)[n + 1] = NextOperand(x, Joins!Stage(x)[n])
  BY NumbersHaveLeast, Joins!StageIs
<1>3. Joins!Stage(x)[1] = NextOperand(x, FirstOperand(x))
  <2>1. 0 \in Nat /\ 0 + 1 = 1
    OBVIOUS
  <2> QED BY <1>2, <2>1
<1>4. FirstOperand(x).n = 1 /\ FirstOperand(x).e = a[1]
  BY <1>1 DEF FirstOperand
<1>5. NextOperand(x, FirstOperand(x)).e = Of("Additive", NoFields, <<a[1], a[2]>>)
  BY <1>1, <1>4 DEF NextOperand
<1>6. Len(a) - 1 = 1
  OBVIOUS
<1>7. BuildAdditive(a) = Joins!Stage(x)[Len(a) - 1].e
  BY DEF BuildAdditive, x
<1> QED BY <1>3, <1>5, <1>6, <1>7

LEMMA OelFixedOperator ==
  ASSUME NEW e, IsNode(e), OelNode(e), e.t \in {"Additive", "Ternary", "elvis", "matches"}, NEW k, NEW b, NEW C,
         Closed(C), NEW reason, OelKnown(e, k, b, C, reason), HeldBy(OelTreeNode(e, k)) \subseteq C
  PROVE  Gets(OelBuildNode(OelTreeNode(e, k), b), e, reason)
<1> DEFINE a == BuildList(k, b)
           key == IF e.t = "Additive" THEN "+" ELSE IF e.t = "Ternary" THEN "cond" ELSE e.t
           n == IF e.t = "Ternary" THEN 3 ELSE 2
<1>1. OelTreeNode(e, k) = Node(key, List(k))
  BY DEF OelTreeNode
<1>2. OperandsOf(e, n)
  BY DEF OelNode
<1>3. e.at = NoFields /\ OelValues(e.a) /\ Len(e.a) = n /\ n \in {2, 3}
  BY <1>2 DEF OperandsOf
<1>4. DOMAIN k = 1 .. n
  BY <1>3, OperandsAre DEF OelKnown
<1>5. Len(a) = n /\ \A i \in 1 .. n : a[i] = b[k[i]]
  <2> HIDE DEF n
  <2>1. n \in Nat
    BY <1>3
  <2> QED BY <1>4, <2>1, BuildListLen
<1>6. List(k) \in C
  <2>1. HeldBy(Node(key, List(k))) = {List(k)}
    BY NodeHolds
  <2> QED BY <1>1, <2>1
<1>7. Known(e, k, b, C, reason)
  BY <1>3, OelValuesKnown
<1>8. Gets(Of(e.t, NoFields, a), e, reason)
  BY <1>3, <1>6, <1>7, ListedOperands
<1>9. key \in {"+", "?:", "cond", "elvis", "matches"}
  OBVIOUS
<1>10. ~Spells(key, ComparisonOps) /\ ~Spells(key, LogicalOps)
  BY <1>9, OtherOperators
<1>11. OelBuildKeyed(key, List(k), b) = BuildOperator(key, a)
  BY <1>9, OperatorKey
<1> HIDE DEF a
<1>12. Gets(BuildOperator(key, a), e, reason)
  <2>1. CASE e.t = "Additive"
    <3>1. BuildOperator(key, a) = BuildAdditive(a)
      BY <1>5, <1>10, <2>1 DEF BuildOperator
    <3>2. BuildAdditive(a) = Of("Additive", NoFields, <<b[k[1]], b[k[2]]>>)
      BY <1>5, <2>1, TwoJoined
    <3>3. k[1] \in C /\ k[2] \in C
      BY <1>4, <1>6, <2>1, ListIs DEF Closed
    <3>4. Gets(Of("Additive", NoFields, <<b[k[1]], b[k[2]]>>), e, reason)
      BY <1>3, <1>7, <2>1, <3>3, TwoOperands
    <3> QED BY <3>1, <3>2, <3>4
  <2>2. CASE e.t = "Ternary"
    <3>1. BuildOperator(key, a) = Of("Ternary", NoFields, a)
      BY <1>5, <1>10, <2>2 DEF BuildOperator
    <3> QED BY <1>8, <2>2, <3>1
  <2>3. CASE e.t \in {"elvis", "matches"}
    <3>1. BuildOperator(key, a) = Of(e.t, NoFields, a)
      BY <1>5, <1>10, <2>3 DEF BuildOperator
    <3> QED BY <1>8, <2>3, <3>1
  <2> QED BY <2>1, <2>2, <2>3
<1> QED BY <1>1, <1>11, <1>12, OelKeyed

LEMMA OelNot ==
  ASSUME NEW e, IsNode(e), OelNode(e), e.t = "Not", NEW k, NEW b, NEW C, Closed(C), NEW reason,
         OelKnown(e, k, b, C, reason), HeldBy(OelTreeNode(e, k)) \subseteq C
  PROVE  Gets(OelBuildNode(OelTreeNode(e, k), b), e, reason)
<1>1. OelTreeNode(e, k) = Node("!", k[1])
  BY DEF OelTreeNode
<1>2. OperandsOf(e, 1)
  BY DEF OelNode
<1>3. e.at = NoFields /\ OelValues(e.a) /\ Len(e.a) = 1
  BY <1>2 DEF OperandsOf
<1>4. k[1] \in C
  <2>1. HeldBy(Node("!", k[1])) = {k[1]}
    BY NodeHolds
  <2> QED BY <1>1, <2>1
<1>5. Known(e, k, b, C, reason)
  BY <1>3, OelValuesKnown
<1>6. OelBuildKeyed("!", k[1], b) = Of("Not", NoFields, <<b[k[1]]>>)
  BY DEF OelBuildKeyed
<1>7. Gets(Of("Not", NoFields, <<b[k[1]]>>), e, reason)
  BY <1>3, <1>4, <1>5, OneOperand
<1> QED BY <1>1, <1>6, <1>7, OelKeyed

(* Two named parts. *)
LEMMA OelParts ==
  ASSUME NEW e, IsNode(e), OelNode(e), e.t \in {"Index", "Projection"}, NEW k, NEW b, NEW C, Closed(C), NEW reason,
         OelKnown(e, k, b, C, reason), HeldBy(OelTreeNode(e, k)) \subseteq C
  PROVE  Gets(OelBuildNode(OelTreeNode(e, k), b), e, reason)
<1> DEFINE f == IF e.t = "Index" THEN [base |-> k[1], index |-> k[2]] ELSE [base |-> k[1], expr |-> k[2]]
           key == IF e.t = "Index" THEN "index" ELSE "project"
           y == IF e.t = "Index" THEN "index" ELSE "expr"
<1>1. OelTreeNode(e, k) = Node(key, Obj(f))
  BY DEF OelTreeNode
<1>2. OperandsOf(e, 2)
  BY DEF OelNode
<1>3. e.at = NoFields /\ OelValues(e.a) /\ Len(e.a) = 2
  BY <1>2 DEF OperandsOf
<1>4. DOMAIN f = {"base", y} /\ f["base"] = k[1] /\ f[y] = k[2]
  OBVIOUS
<1>5. OelBuildKeyed(key, Obj(f), b) = BuildParts(e.t, Obj(f), "base", y, b)
  BY DEF OelBuildKeyed
<1> HIDE DEF f
<1>6. k[1] \in C /\ k[2] \in C
  BY <1>1, <1>4, Inside
<1>7. Known(e, k, b, C, reason)
  BY <1>3, OelValuesKnown
<1>8. BuildParts(e.t, Obj(f), "base", y, b) = Of(e.t, NoFields, <<b[k[1]], b[k[2]]>>)
  <2>1. Obj(f).k = "obj" /\ Obj(f).f = f
    BY ObjIs
  <2> HIDE DEF y
  <2> QED BY <1>4, <2>1 DEF BuildParts, Only
<1>9. Gets(Of(e.t, NoFields, <<b[k[1]], b[k[2]]>>), e, reason)
  BY <1>3, <1>6, <1>7, TwoOperands
<1> QED BY <1>1, <1>5, <1>8, <1>9, OelKeyed

LEMMA OelField ==
  ASSUME NEW e, IsNode(e), OelNode(e), e.t = "Field", NEW k, NEW b, NEW C, Closed(C), NEW reason,
         OelKnown(e, k, b, C, reason), HeldBy(OelTreeNode(e, k)) \subseteq C
  PROVE  Gets(OelBuildNode(OelTreeNode(e, k), b), e, reason)
<1> DEFINE f == [operand |-> k[1], field |-> e.at["field"]]
<1>1. OelTreeNode(e, k) = Node("select", Obj(f))
  BY DEF OelTreeNode
<1>2. HasAttributes(e, {"field"}) /\ IsName(e.at["field"]) /\ Len(e.a) = 1 /\ OelValues(e.a)
  BY DEF OelNode
<1>3. DOMAIN f = {"operand", "field"} /\ f["operand"] = k[1] /\ f["field"] = e.at["field"]
  OBVIOUS
<1>4. OelBuildKeyed("select", Obj(f), b) = BuildSelect(Obj(f), b)
  BY DEF OelBuildKeyed
<1> HIDE DEF f
<1>5. k[1] \in C
  BY <1>1, <1>3, Inside
<1>6. Known(e, k, b, C, reason)
  BY <1>2, OelValuesKnown
<1>7. BuildSelect(Obj(f), b) = Of("Field", e.at, <<b[k[1]]>>)
  <2>1. Obj(f).k = "obj" /\ Obj(f).f = f
    BY ObjIs
  <2>2. NonEmpty(f, "field")
    BY <1>2, <1>3 DEF IsName, NonEmpty, NameOf, Has
  <2>3. Only(Obj(f), {"operand", "field"}) /\ Has(f, "operand")
    BY <1>3, <2>1 DEF Only, Has
  <2>4. BuildSelect(Obj(f), b) = Of("Field", [x \in {"field"} |-> f[x]], <<b[f["operand"]]>>)
    BY <2>1, <2>2, <2>3 DEF BuildSelect
  <2>5. [x \in {"field"} |-> f[x]] = e.at
    BY <1>2, <1>3 DEF HasAttributes
  <2> QED BY <1>3, <2>4, <2>5
<1>8. Gets(Of("Field", e.at, <<b[k[1]]>>), e, reason)
  BY <1>2, <1>5, <1>6, OneOperand
<1> QED BY <1>1, <1>4, <1>7, <1>8, OelKeyed

(* A map and its entries. *)
LEMMA OelEntryMade ==
  ASSUME NEW e, IsNode(e), OelNode(e), e.t = "Entry", OelReads(e), NEW k, NEW b, NEW C, Closed(C), NEW reason,
         OelKnown(e, k, b, C, reason), OelTreeNode(e, k) \in C, OneWay("oel", e) => reason
  PROVE  Gets(OelEntry(OelTreeNode(e, k), b), e, reason)
<1> DEFINE f == [key |-> k[1], value |-> k[2]]
           x == e.a[1]
<1>1. OelTreeNode(e, k) = Obj(f)
  BY DEF OelTreeNode
<1>2. OperandsOf(e, 2)
  BY DEF OelNode
<1>3. e.at = NoFields /\ OelValues(e.a) /\ Len(e.a) = 2
  BY <1>2 DEF OperandsOf
<1>4. DOMAIN e.a = 1 .. 2 /\ e.a = [i \in DOMAIN e.a |-> e.a[i]]
  BY <1>3, OperandsAre
<1>5. x.t = "String" /\ x.at["value"].k = "str"
  BY DEF OelReads, OelNode
<1>6. k[1] = x.at["value"] /\ IsNode(x) /\ OelNode(x)
  <2>1. 1 \in DOMAIN e.a
    BY <1>4
  <2>2. OelShape(e.a[1], k[1]) /\ IsNode(e.a[1]) /\ OelNode(e.a[1])
    <3>1. \A i \in DOMAIN e.a : IsNode(e.a[i]) /\ OelNode(e.a[i]) /\ OelShape(e.a[i], k[i])
      BY Zenon DEF OelKnown
    <3> QED BY <2>1, <3>1
  <2> QED BY <1>5, <2>2 DEF OelShape
<1> HIDE DEF x
<1>7. x = Lit("String", k[1])
  <2>1. IsLiteral(x)
    BY <1>5, <1>6 DEF OelNode
  <2>2. x = Ast(x.t, x.at, x.a) /\ x.at = [y \in {"value"} |-> x.at[y]] /\ x.a = <<>>
    BY <1>6, <2>1 DEF IsLiteral, HasAttributes, IsNode
  <2>3. [y \in {"value"} |-> x.at[y]] = [y \in {"value"} |-> k[1]]
    BY <1>6
  <2> QED BY <1>5, <2>2, <2>3, Zenon DEF Lit
<1>8. DOMAIN f = {"key", "value"} /\ f["key"] = k[1] /\ f["value"] = k[2]
  OBVIOUS
<1> HIDE DEF f
<1>9. k[2] \in C
  <2>1. k[2] \in HeldBy(Obj(f))
    BY <1>8, ObjIs
  <2> QED BY <1>1, <2>1 DEF Closed
<1>10. e.a[2] # Bad /\ Gets(b[k[2]], e.a[2], reason)
  <2>1. Known(e, k, b, C, reason)
    BY <1>3, OelValuesKnown
  <2>2. 2 \in DOMAIN e.a
    BY <1>4
  <2> QED BY <1>9, <2>1, <2>2 DEF Known
<1>11. Obj(f).k = "obj" /\ Obj(f).f = f
  BY ObjIs
<1>12. CASE k[1] = EmptyName
  <2>1. OelEntry(Obj(f), b) = Bad
    BY <1>8, <1>11, <1>12 DEF OelEntry, NonEmpty, NameOf, Has
  <2>2. OneWay("oel", e)
    BY <1>7, <1>12 DEF OneWay, x
  <2> QED BY <1>1, <2>1, <2>2 DEF Gets
<1>13. CASE k[1] # EmptyName
  <2>1. OelEntry(Obj(f), b) = Of("Entry", NoFields, <<x, b[k[2]]>>)
    <3>1. NonEmpty(f, "key")
      BY <1>5, <1>6, <1>8, <1>13 DEF NonEmpty, NameOf, Has
    <3>2. Only(Obj(f), {"key", "value"}) /\ Has(f, "value")
      BY <1>8, <1>11 DEF Only, Has
    <3> QED BY <1>7, <1>8, <1>11, <3>1, <3>2 DEF OelEntry
  <2> DEFINE c == <<x, b[k[2]]>>
  <2>2. DOMAIN c = DOMAIN e.a /\ c = [i \in DOMAIN e.a |-> c[i]] /\ c[1] = x /\ c[2] = b[k[2]]
    BY <1>4
  <2>3. x # Bad /\ Gets(c[1], e.a[1], reason)
    <3>1. 1 \in DOMAIN e.a
      BY <1>4
    <3>2. e.a[1] # Bad
      BY <3>1 DEF OelKnown
    <3> QED BY <2>2, <3>2 DEF Gets, x
  <2>4. \A i \in DOMAIN e.a : e.a[i] # Bad /\ Gets(c[i], e.a[i], reason)
    <3>1. e.a[1] # Bad /\ Gets(c[1], e.a[1], reason) /\ e.a[2] # Bad /\ Gets(c[2], e.a[2], reason)
      BY <1>10, <2>2, <2>3 DEF x
    <3>2. \A i \in 1 .. 2 : i = 1 \/ i = 2
      OBVIOUS
    <3> HIDE DEF c
    <3> QED BY <1>4, <3>1, <3>2
  <2> HIDE DEF c
  <2>5. Gets(Of("Entry", NoFields, c), Ast("Entry", NoFields, e.a), reason)
    BY <1>4, <2>2, <2>4, OfFits
  <2>6. e = Ast("Entry", NoFields, e.a)
    BY <1>3 DEF IsNode
  <2> QED BY <1>1, <2>1, <2>5, <2>6 DEF c
<1> QED BY <1>12, <1>13

LEMMA OelMap ==
  ASSUME NEW e, IsNode(e), OelNode(e), e.t = "MapLit", NEW k, NEW b, NEW C, Closed(C), NEW reason,
         OelKnown(e, k, b, C, reason), HeldBy(OelTreeNode(e, k)) \subseteq C
  PROVE  Gets(OelBuildNode(OelTreeNode(e, k), b), e, reason)
<1>1. OelTreeNode(e, k) = DecodeMap(e, k)
  BY DEF OelTreeNode
<1>2. e.at = NoFields /\ \A i \in DOMAIN e.a : e.a[i].t = "Entry"
  BY DEF OelNode
<1>3. CASE \E i \in DOMAIN e.a : e.a[i].a[1].t # "String"
  <2>1. DecodeMap(e, k) = Node("raw", Source(e))
    BY <1>3 DEF DecodeMap
  <2>2. OelBuildKeyed("raw", Source(e), b) = e
    BY DEF OelBuildKeyed, OelRaw, Source
  <2> QED BY <1>1, <2>1, <2>2, OelKeyed DEF Gets
<1>4. CASE \A i \in DOMAIN e.a : e.a[i].a[1].t = "String"
  <2>1. DecodeMap(e, k) = Node("map", List(k))
    BY <1>4 DEF DecodeMap
  <2> DEFINE c == [i \in DOMAIN k |-> OelEntry(k[i], b)]
  <2>2. OelBuildKeyed("map", List(k), b) = Of("MapLit", NoFields, c)
    <3>1. List(k).k = "list" /\ List(k).e = k
      BY ListIs
    <3> QED BY <3>1 DEF OelBuildKeyed, BuildMap
  <2>3. \A i \in DOMAIN k : k[i] \in C
    <3>1. HeldBy(Node("map", List(k))) = {List(k)}
      BY NodeHolds
    <3>2. List(k) \in C
      BY <1>1, <2>1, <3>1
    <3> QED BY <3>2, ListIs DEF Closed
  <2>4. DOMAIN c = DOMAIN e.a /\ c = [i \in DOMAIN e.a |-> c[i]] /\ \A i \in DOMAIN e.a : c[i] = OelEntry(k[i], b)
    BY DEF OelKnown
  <2> HIDE DEF c
  <2>5. \A i \in DOMAIN e.a : e.a[i] # Bad /\ Gets(c[i], e.a[i], reason)
    <3> TAKE i \in DOMAIN e.a
    <3>1. OelReads(e.a[i]) /\ OelResult(e.a[i], k[i], b) = OelEntry(k[i], b)
      BY <1>2, <1>4 DEF OelReads, OelResult
    <3>2. k[i] \in C
      BY <2>3 DEF OelKnown
    <3> QED BY <2>4, <3>1, <3>2 DEF OelKnown
  <2>6. e = Ast("MapLit", NoFields, e.a) /\ e.a = [i \in DOMAIN e.a |-> e.a[i]]
    BY <1>2, OperandsAre DEF IsNode
  <2>7. Gets(Of("MapLit", NoFields, c), Ast("MapLit", NoFields, e.a), reason)
    BY <2>4, <2>5, <2>6, OfFits
  <2> QED BY <1>1, <2>1, <2>2, <2>6, <2>7, OelKeyed
<1> QED BY <1>3, <1>4

LEMMA OelCommaList ==
  ASSUME NEW e, IsNode(e), OelNode(e), e.t = "CommaList", NEW k, NEW b, NEW C, Closed(C), NEW reason,
         OelKnown(e, k, b, C, reason), OelTreeNode(e, k) \in C
  PROVE  Gets(Of("CommaList", NoFields, BuildList(OelTreeNode(e, k).e, b)), e, reason)
<1>1. OelTreeNode(e, k) = List(k) /\ e.at = NoFields /\ OelValues(e.a)
  BY DEF OelTreeNode, OelNode
<1>2. List(k).e = k
  BY ListIs
<1>3. Gets(Of("CommaList", NoFields, BuildList(k, b)), e, reason)
  BY <1>1, OelValuesKnown, ListedOperands
<1> QED BY <1>1, <1>2, <1>3

(* All but the first of a sequence. *)
LEMMA SequenceIs ==
  ASSUME NEW s, IsSequence(s)
  PROVE  s \in Seq({s[i] : i \in DOMAIN s}) /\ Len(s) \in Nat /\ DOMAIN s = 1 .. Len(s)
<1> DEFINE n == Len(s)
           T == {s[i] : i \in DOMAIN s}
<1>1. n \in Nat /\ s = [i \in 1 .. n |-> s[i]]
  BY DEF IsSequence
<1> HIDE DEF n
<1>2. DOMAIN s = 1 .. n /\ s \in [1 .. n -> T]
  BY <1>1
<1>3. s \in Seq(T)
  BY <1>1, <1>2, SequencesAre
<1> QED BY <1>1, <1>2, <1>3 DEF n

LEMMA SequenceOf ==
  ASSUME NEW s, NEW S, s \in Seq(S)
  PROVE  IsSequence(s) /\ DOMAIN s = 1 .. Len(s) /\ Len(s) \in Nat
<1>1. PICK n \in Nat : s \in [1 .. n -> S]
  BY SequencesAre
<1>2. Len(s) = n /\ DOMAIN s = 1 .. n
  BY <1>1
<1> QED BY <1>1, <1>2 DEF IsSequence

LEMMA TailIs ==
  ASSUME NEW s, IsSequence(s), Len(s) >= 1
  PROVE  /\ IsSequence(Tail(s)) /\ Len(Tail(s)) = Len(s) - 1 /\ DOMAIN Tail(s) = 1 .. Len(s) - 1
         /\ \A i \in 1 .. Len(s) - 1 : Tail(s)[i] = s[i + 1]
<1> DEFINE T == {s[i] : i \in DOMAIN s}
<1>1. s \in Seq(T)
  BY SequenceIs
<1>2. s # <<>>
  OBVIOUS
<1> HIDE DEF T
<1>3. /\ Tail(s) \in Seq(T) /\ Len(Tail(s)) = Len(s)-1
      /\ \A i \in 1 .. Len(Tail(s)) : Tail(s)[i] = s[i+1]
  BY <1>1, <1>2, TailOfSequence
<1>4. IsSequence(Tail(s)) /\ DOMAIN Tail(s) = 1 .. Len(Tail(s))
  BY <1>3, SequenceOf
<1> QED BY <1>3, <1>4

(* The arguments of a call. *)

ArgumentsOf(t, b) == ArgsToNode(BuildList(IF t # Nil THEN t.e ELSE <<>>, b))

AtMostOne(a, k, n) ==
  /\ n \in {0, 1} /\ DOMAIN a = 1 .. n /\ DOMAIN k = 1 .. n
  /\ a = [i \in 1 .. n |-> a[i]] /\ k = [i \in 1 .. n |-> k[i]]
  /\ n = 1 => a[1].t # "Entry" /\ OelShape(a[1], k[1])

AreRead(a, k, n, b) ==
  /\ (ArgsTree(a, k) = Nil) <=> n = 0
  /\ n = 0 => ArgumentsOf(ArgsTree(a, k), b) = <<>>
  /\ n = 1 => /\ ArgsTree(a, k).k = "list"
              /\ ArgumentsOf(ArgsTree(a, k), b) = <<OelResult(a[1], k[1], b)>>
              /\ \A C : Closed(C) /\ ArgsTree(a, k) \in C => k[1] \in C

LEMMA ArgumentsRead ==
  ASSUME NEW a, NEW k, NEW n, AtMostOne(a, k, n), NEW b
  PROVE  AreRead(a, k, n, b)
<1>0. /\ n \in {0, 1} /\ DOMAIN a = 1 .. n /\ DOMAIN k = 1 .. n
      /\ a = [i \in 1 .. n |-> a[i]] /\ k = [i \in 1 .. n |-> k[i]]
      /\ n = 1 => a[1].t # "Entry" /\ OelShape(a[1], k[1])
  BY DEF AtMostOne
<1>1. CASE n = 0
  <2>1. a = <<>>
    BY <1>0, <1>1
  <2>2. ArgsTree(a, k) = Nil
    BY <2>1 DEF ArgsTree
  <2> DEFINE c == BuildList(<<>>, b)
  <2>3. c = <<>>
    BY DEF BuildList
  <2> HIDE DEF c
  <2>4. Len(c) = 0
    BY <2>3
  <2>5. ArgsToNode(c) = <<>>
    BY <2>4 DEF ArgsToNode
  <2> QED BY <1>1, <2>2, <2>5 DEF ArgumentsOf, c, AreRead
<1>2. CASE n = 1
  <2> DEFINE t == ArgsTree(a, k)
  <2> HIDE DEF t
  <2>1. a # <<>> /\ 1 \in DOMAIN a /\ 1 \in DOMAIN k
    BY <1>0, <1>2
  <2>2. ASSUME a[1].t = "CommaList"
        PROVE  /\ t # Nil /\ t.k = "list" /\ ArgumentsOf(t, b) = <<OelResult(a[1], k[1], b)>>
               /\ \A C : Closed(C) /\ t \in C => k[1] \in C
    <3> DEFINE l == k[1]
    <3>1. ArgsTree(a, k) = l
      BY <2>1, <2>2 DEF ArgsTree
    <3>2. l = List(l.e) /\ IsSequence(l.e) /\ Len(l.e) >= 2
      BY <1>0, <1>2, <2>2 DEF OelShape
    <3> HIDE DEF l
    <3>3. l.k = "list" /\ l # Nil
      <4>1. List(l.e).k = "list"
        BY ListIs
      <4> QED BY <3>2, <4>1 DEF Nil
    <3> DEFINE c == BuildList(l.e, b)
               m == Len(l.e)
    <3>4. m \in Nat /\ DOMAIN l.e = 1 .. m /\ m >= 2
      BY <3>2, SequenceIs
    <3> HIDE DEF m
    <3>5. Len(c) = m
      BY <3>4, BuildListLen
    <3> HIDE DEF c
    <3>6. ArgsToNode(c) = <<Of("CommaList", NoFields, c)>>
      BY <3>4, <3>5 DEF ArgsToNode
    <3>7. ArgumentsOf(l, b) = <<Of("CommaList", NoFields, c)>>
      BY <3>3, <3>6 DEF ArgumentsOf, c
    <3>8. OelResult(a[1], l, b) = Of("CommaList", NoFields, c)
      BY <2>2 DEF OelResult, c
    <3> QED
      <4>1. t = l /\ l = k[1]
        BY <3>1 DEF l, t
      <4>2. t # Nil /\ t.k = "list"
        BY <3>3, <4>1
      <4>3. ArgumentsOf(t, b) = <<OelResult(a[1], k[1], b)>>
        BY <3>7, <3>8, <4>1
      <4>4. \A C : Closed(C) /\ t \in C => k[1] \in C
        BY <4>1
      <4> QED BY <4>2, <4>3, <4>4
  <2>3. ASSUME a[1].t # "CommaList"
        PROVE  /\ t # Nil /\ t.k = "list" /\ ArgumentsOf(t, b) = <<OelResult(a[1], k[1], b)>>
               /\ \A C : Closed(C) /\ t \in C => k[1] \in C
    <3>1. ArgsTree(a, k) = List(k)
      BY <2>1, <2>3 DEF ArgsTree
    <3>2. List(k).k = "list" /\ List(k).e = k /\ List(k) # Nil
      BY ListIs DEF List, Nil
    <3> DEFINE c == BuildList(k, b)
    <3>3. Len(c) = 1 /\ c[1] = b[k[1]] /\ c = [i \in 1 .. 1 |-> c[i]]
      BY <1>0, <1>2 DEF BuildList
    <3> HIDE DEF c
    <3>4. c = <<b[k[1]]>>
      BY <3>3
    <3>5. ArgsToNode(c) = c
      BY <3>3 DEF ArgsToNode
    <3>6. ArgumentsOf(List(k), b) = <<b[k[1]]>>
      BY <3>2, <3>4, <3>5 DEF ArgumentsOf, c
    <3>7. OelResult(a[1], k[1], b) = b[k[1]]
      BY <1>0, <1>2, <2>3 DEF OelResult
    <3>8. \A C : Closed(C) /\ List(k) \in C => k[1] \in C
      BY <2>1, ListIs DEF Closed
    <3> QED
      <4>1. t = List(k)
        BY <3>1 DEF t
      <4>2. t # Nil /\ t.k = "list"
        BY <3>2, <4>1
      <4>3. ArgumentsOf(t, b) = <<OelResult(a[1], k[1], b)>>
        BY <3>6, <3>7, <4>1
      <4>4. \A C : Closed(C) /\ t \in C => k[1] \in C
        BY <3>8, <4>1
      <4> QED BY <4>2, <4>3, <4>4
  <2>4. /\ t # Nil /\ t.k = "list" /\ ArgumentsOf(t, b) = <<OelResult(a[1], k[1], b)>>
        /\ \A C : Closed(C) /\ t \in C => k[1] \in C
    BY <2>2, <2>3
  <2>5. (ArgsTree(a, k) = Nil) <=> n = 0
    BY <1>2, <2>4 DEF t
  <2>6. n = 0 => ArgumentsOf(ArgsTree(a, k), b) = <<>>
    BY <1>2
  <2>7. ArgsTree(a, k).k = "list" /\ ArgumentsOf(ArgsTree(a, k), b) = <<OelResult(a[1], k[1], b)>>
    BY <2>4 DEF t
  <2>8. \A C : Closed(C) /\ ArgsTree(a, k) \in C => k[1] \in C
    BY <2>4 DEF t
  <2> QED BY <2>5, <2>6, <2>7, <2>8 DEF AreRead
<1> QED BY <1>0, <1>1, <1>2

(* What a call is read from. *)
ReadAs(spec, x, y, t, b, f) ==
  /\ CallTree(spec) = Node("call", Obj(f))
  /\ OelBuildNode(CallTree(spec), b) = OelCall(Obj(f), b)
  /\ x \in DOMAIN f /\ y \in DOMAIN f /\ f[x] = spec[x] /\ f[y] = spec[y]
  /\ t # Nil => "args" \in DOMAIN f /\ f["args"] = t
  /\ OelCall(Obj(f), b) = CASE x = "class" -> ClassCall(f, ArgumentsOf(t, b))
                            [] x = "target" -> MethodCall(f, b[f["target"]], ArgumentsOf(t, b))
                            [] x = "function" -> FunctionCall(f, ArgumentsOf(t, b))

LEMMA CallRead ==
  ASSUME NEW spec, NEW x \in {"class", "function", "target"}, NEW y,
         DOMAIN spec = {x, y, "args"}, y \in {x, "method"}, NEW t, spec["args"] = t, t # Nil => t.k = "list", NEW b
  PROVE  \E f : ReadAs(spec, x, y, t, b, f)
<1> DEFINE u == [z \in {"args"} |-> Nil]
           f == Written(spec, u)
<1>1. CallTree(spec) = Node("call", Obj(f))
  BY DEF CallTree
<1>2. \A z \in DOMAIN spec : \/ z \in DOMAIN f /\ f[z] = spec[z] /\ (z \in DOMAIN u => spec[z] # u[z])
                             \/ z \notin DOMAIN f /\ z \in DOMAIN u /\ spec[z] = u[z]
  BY WrittenHas
<1>3. DOMAIN f \subseteq DOMAIN spec
  BY WrittenWithin
<1>4. DOMAIN u = {"args"} /\ u["args"] = Nil
  OBVIOUS
<1> HIDE DEF u, f
<1>5. x \in DOMAIN f /\ y \in DOMAIN f /\ f[x] = spec[x] /\ f[y] = spec[y]
  BY <1>2, <1>4
<1>6. ("args" \in DOMAIN f) <=> t # Nil
  BY <1>2, <1>4
<1>7. t # Nil => f["args"] = t
  BY <1>2, <1>4
<1>8. OelBuildNode(CallTree(spec), b) = OelCall(Obj(f), b)
  <2>1. OelBuildKeyed("call", Obj(f), b) = OelCall(Obj(f), b)
    BY DEF OelBuildKeyed
  <2> QED BY <1>1, <2>1, OelKeyed
<1>9. Obj(f).k = "obj" /\ Obj(f).f = f
  BY ObjIs
<1>10. DOMAIN f \cap {"class", "function", "target"} = {x}
  BY <1>3, <1>5
<1>11. Cardinality(DOMAIN f \cap {"class", "function", "target"}) = 1
  BY <1>10, FS_Singleton
<1>12. Only(Obj(f), {"class", "method", "function", "target", "args"})
  BY <1>3, <1>9 DEF Only
<1>13. Present(f, "args") <=> t # Nil
  BY <1>6, <1>7 DEF Present, Has
<1>14. ArgsToNode(BuildList(IF Present(f, "args") THEN f["args"].e ELSE <<>>, b)) = ArgumentsOf(t, b)
  BY <1>7, <1>13 DEF ArgumentsOf
<1>15. ~(Present(f, "args") /\ f["args"].k # "list")
  BY <1>7, <1>13
<1>16. OelCall(Obj(f), b) = CASE Has(f, "class") -> ClassCall(f, ArgumentsOf(t, b))
                              [] Has(f, "target") -> MethodCall(f, b[f["target"]], ArgumentsOf(t, b))
                              [] OTHER -> FunctionCall(f, ArgumentsOf(t, b))
  BY <1>9, <1>11, <1>12, <1>14, <1>15 DEF OelCall
<1>17. (Has(f, "class") <=> x = "class") /\ (Has(f, "target") <=> x = "target")
  BY <1>10 DEF Has
<1>18. OelCall(Obj(f), b) = CASE x = "class" -> ClassCall(f, ArgumentsOf(t, b))
                              [] x = "target" -> MethodCall(f, b[f["target"]], ArgumentsOf(t, b))
                              [] x = "function" -> FunctionCall(f, ArgumentsOf(t, b))
  <2>1. CASE x = "class"
    BY <1>16, <1>17, <2>1
  <2>2. CASE x = "target"
    BY <1>16, <1>17, <2>2
  <2>3. CASE x = "function"
    BY <1>16, <1>17, <2>3
  <2> QED BY <2>1, <2>2, <2>3
<1>19. ReadAs(spec, x, y, t, b, f)
  BY <1>1, <1>5, <1>6, <1>7, <1>8, <1>18 DEF ReadAs
<1> QED BY <1>19

(* The arguments of a node that has no other operands. *)
LEMMA ArgumentsFit ==
  ASSUME NEW e, IsNode(e), AreArguments(e.a), NEW k, NEW b, NEW C, Closed(C), NEW reason,
         OelKnown(e, k, b, C, reason)
  PROVE  /\ ArgsTree(e.a, k) # Nil => ArgsTree(e.a, k).k = "list"
         /\ (ArgumentsOf(ArgsTree(e.a, k), b) = <<>>) <=> (e.a = <<>>)
         /\ (ArgsTree(e.a, k) # Nil => ArgsTree(e.a, k) \in C) =>
               Gets(Of(e.t, e.at, ArgumentsOf(ArgsTree(e.a, k), b)), e, reason)
<1> DEFINE t == ArgsTree(e.a, k)
           n == Len(e.a)
           c == ArgumentsOf(t, b)
<1>1. /\ n \in Nat /\ DOMAIN e.a = 1 .. n /\ e.a = [i \in 1 .. n |-> e.a[i]]
      /\ e.a = [i \in DOMAIN e.a |-> e.a[i]]
  BY OperandsAre
<1>2. n \in {0, 1} /\ (n = 1 => e.a[1].t # "Entry") /\ (n = 0 <=> e.a = <<>>)
  <2>1. CASE e.a = <<>>
    BY <2>1
  <2>2. CASE e.a # <<>>
    <3>1. n = 1 /\ e.a[1].t # "Entry"
      BY <2>2 DEF AreArguments
    <3> QED BY <2>2, <3>1
  <2> QED BY <2>1, <2>2
<1> HIDE DEF n
<1>3. DOMAIN k = 1 .. n /\ k = [i \in 1 .. n |-> k[i]]
  BY <1>1 DEF OelKnown
<1>4. ASSUME n = 1
      PROVE  /\ e.a[1] # Bad /\ OelShape(e.a[1], k[1]) /\ OelReads(e.a[1])
             /\ k[1] \in C => Gets(OelResult(e.a[1], k[1], b), e.a[1], reason)
  <2>1. 1 \in DOMAIN e.a
    BY <1>1, <1>4
  <2>2. OelReads(e.a[1])
    BY <1>2, <1>4 DEF OelReads
  <2> QED BY <2>1, <2>2 DEF OelKnown
<1>5. n = 1 => e.a[1].t # "Entry" /\ OelShape(e.a[1], k[1])
  BY <1>2, <1>4
<1>6. /\ (ArgsTree(e.a, k) = Nil) <=> n = 0
      /\ n = 0 => ArgumentsOf(ArgsTree(e.a, k), b) = <<>>
      /\ n = 1 => /\ ArgsTree(e.a, k).k = "list"
                  /\ ArgumentsOf(ArgsTree(e.a, k), b) = <<OelResult(e.a[1], k[1], b)>>
                  /\ \A B : Closed(B) /\ ArgsTree(e.a, k) \in B => k[1] \in B
  <2> DEFINE a == e.a
  <2>1. AtMostOne(a, k, n)
    BY <1>1, <1>2, <1>3, <1>5 DEF AtMostOne
  <2> HIDE DEF a
  <2>2. AreRead(a, k, n, b)
    BY <2>1, ArgumentsRead
  <2> QED BY <2>2 DEF a, AreRead
<1>7. /\ (t = Nil) <=> n = 0
      /\ n = 0 => c = <<>>
      /\ n = 1 => t.k = "list" /\ c = <<OelResult(e.a[1], k[1], b)>> /\ \A B : Closed(B) /\ t \in B => k[1] \in B
  BY <1>6
<1> HIDE DEF c, t
<1>8. t # Nil => t.k = "list"
  BY <1>2, <1>7
<1>9. (c = <<>>) <=> (e.a = <<>>)
  <2>1. n = 1 => c # <<>>
    BY <1>7
  <2> QED BY <1>2, <1>7, <2>1
<1>10. ASSUME t # Nil => t \in C PROVE Gets(Of(e.t, e.at, c), e, reason)
  <2>1. DOMAIN c = DOMAIN e.a /\ c = [i \in DOMAIN e.a |-> c[i]]
    <3>1. CASE n = 0
      BY <1>2, <1>7, <3>1
    <3>2. CASE n = 1
      BY <1>1, <1>7, <3>2
    <3> QED BY <1>2, <3>1, <3>2
  <2>2. \A i \in DOMAIN e.a : e.a[i] # Bad /\ Gets(c[i], e.a[i], reason)
    <3>1. CASE n = 0
      BY <1>1, <3>1
    <3>2. CASE n = 1
      <4>1. c[1] = OelResult(e.a[1], k[1], b) /\ k[1] \in C
        BY <1>7, <1>10, <3>2
      <4>2. e.a[1] # Bad /\ Gets(c[1], e.a[1], reason)
        BY <1>4, <3>2, <4>1
      <4>3. \A i \in DOMAIN e.a : i = 1
        BY <1>1, <3>2
      <4> QED BY <4>2, <4>3
    <3> QED BY <1>2, <3>1, <3>2
  <2>3. Gets(Of(e.t, e.at, c), Ast(e.t, e.at, e.a), reason)
    BY <1>1, <2>1, <2>2, OfFits
  <2> QED BY <2>3 DEF IsNode
<1> QED BY <1>8, <1>9, <1>10 DEF c, t

LEMMA OelClassCall ==
  ASSUME NEW e, IsNode(e), OelNode(e), e.t = "ClassCall", NEW k, NEW b, NEW C, Closed(C), NEW reason,
         OelKnown(e, k, b, C, reason), HeldBy(OelTreeNode(e, k)) \subseteq C
  PROVE  Gets(OelBuildNode(OelTreeNode(e, k), b), e, reason)
<1> DEFINE t == ArgsTree(e.a, k)
           spec == [class |-> e.at["class"], method |-> e.at["method"], args |-> t]
<1>1. OelTreeNode(e, k) = CallTree(spec)
  BY DEF OelTreeNode
<1>2. /\ HasAttributes(e, {"class", "method"}) /\ IsName(e.at["class"]) /\ IsName(e.at["method"])
      /\ AreArguments(e.a)
  BY DEF OelNode
<1>3. /\ DOMAIN spec = {"class", "method", "args"} /\ spec["args"] = t
      /\ spec["class"] = e.at["class"] /\ spec["method"] = e.at["method"]
  OBVIOUS
<1>4. /\ t # Nil => t.k = "list"
      /\ (t # Nil => t \in C) => Gets(Of(e.t, e.at, ArgumentsOf(t, b)), e, reason)
  BY <1>2, ArgumentsFit
<1> HIDE DEF spec, t
<1>5. PICK f : /\ CallTree(spec) = Node("call", Obj(f))
               /\ OelBuildNode(CallTree(spec), b) = OelCall(Obj(f), b)
               /\ "class" \in DOMAIN f /\ "method" \in DOMAIN f
               /\ f["class"] = spec["class"] /\ f["method"] = spec["method"]
               /\ t # Nil => "args" \in DOMAIN f /\ f["args"] = t
               /\ OelCall(Obj(f), b) = ClassCall(f, ArgumentsOf(t, b))
  <2>1. PICK f : ReadAs(spec, "class", "method", t, b, f)
    BY <1>3, <1>4, CallRead
  <2> QED BY <1>3, <2>1 DEF ReadAs
<1>6. t # Nil => t \in C
  BY <1>1, <1>5, Inside
<1>7. ClassCall(f, ArgumentsOf(t, b)) = Of("ClassCall", e.at, ArgumentsOf(t, b))
  <2>1. NonEmpty(f, "class") /\ NonEmpty(f, "method")
    BY <1>2, <1>3, <1>5 DEF NonEmpty, NameOf, Has, IsName
  <2>2. [class |-> f["class"], method |-> f["method"]] = e.at
    BY <1>2, <1>3, <1>5 DEF HasAttributes
  <2> QED BY <2>1, <2>2 DEF ClassCall
<1> QED BY <1>1, <1>4, <1>5, <1>6, <1>7

(* A function, and a built-in that has no argument, which is none. *)
LEMMA OelFunctionCall ==
  ASSUME NEW e, IsNode(e), OelNode(e), e.t \in {"FuncCall", "MemberOf"}, NEW k, NEW b, NEW C, Closed(C), NEW reason,
         OelKnown(e, k, b, C, reason), HeldBy(OelTreeNode(e, k)) \subseteq C, OneWay("oel", e) => reason
  PROVE  Gets(OelBuildNode(OelTreeNode(e, k), b), e, reason)
<1> DEFINE t == ArgsTree(e.a, k)
           name == IF e.t = "FuncCall" THEN e.at["name"] ELSE e.at["kind"]
           spec == [function |-> name, args |-> t]
<1>1. OelTreeNode(e, k) = CallTree(spec)
  BY DEF OelTreeNode
<1>2. AreArguments(e.a)
  BY DEF OelNode
<1>3. DOMAIN spec = {"function", "args"} /\ spec["args"] = t /\ spec["function"] = name
  OBVIOUS
<1>4. /\ t # Nil => t.k = "list"
      /\ (ArgumentsOf(t, b) = <<>>) <=> (e.a = <<>>)
      /\ (t # Nil => t \in C) => Gets(Of(e.t, e.at, ArgumentsOf(t, b)), e, reason)
  BY <1>2, ArgumentsFit
<1> HIDE DEF spec, t
<1>5. PICK f : /\ CallTree(spec) = Node("call", Obj(f))
               /\ OelBuildNode(CallTree(spec), b) = OelCall(Obj(f), b)
               /\ "function" \in DOMAIN f /\ f["function"] = name
               /\ t # Nil => "args" \in DOMAIN f /\ f["args"] = t
               /\ OelCall(Obj(f), b) = FunctionCall(f, ArgumentsOf(t, b))
  <2>1. PICK f : ReadAs(spec, "function", "function", t, b, f)
    BY <1>3, <1>4, CallRead
  <2> QED BY <1>3, <2>1 DEF ReadAs
<1>6. t # Nil => t \in C
  BY <1>1, <1>5, Inside
<1>7. Gets(Of(e.t, e.at, ArgumentsOf(t, b)), e, reason)
  BY <1>4, <1>6
<1>8. CASE e.t = "FuncCall"
  <2>1. HasAttributes(e, {"name"}) /\ IsName(e.at["name"]) /\ ~IsToken(e.at["name"], MemberOfKinds)
    BY <1>8 DEF OelNode
  <2>2. NonEmpty(f, "function")
    BY <1>5, <1>8, <2>1 DEF NonEmpty, NameOf, Has, IsName
  <2>3. [x \in {"name"} |-> f["function"]] = e.at
    BY <1>5, <1>8, <2>1 DEF HasAttributes
  <2>4. FunctionCall(f, ArgumentsOf(t, b)) = Of("FuncCall", e.at, ArgumentsOf(t, b))
    BY <1>5, <1>8, <2>1, <2>2, <2>3 DEF FunctionCall
  <2> QED BY <1>1, <1>5, <1>7, <1>8, <2>4
<1>9. CASE e.t = "MemberOf"
  <2>1. HasAttributes(e, {"kind"}) /\ IsToken(e.at["kind"], MemberOfKinds)
    BY <1>9 DEF OelNode
  <2>2. NonEmpty(f, "function")
    <3>1. e.at["kind"].k = "str" /\ e.at["kind"].s[1] \in MemberOfKinds
      BY <2>1 DEF IsToken
    <3>2. EmptyName.s[1] = ""
      BY DEF EmptyName, Name, Str
    <3>3. e.at["kind"] # EmptyName
      BY <3>1, <3>2 DEF MemberOfKinds
    <3> QED BY <1>5, <1>9, <3>1, <3>3 DEF NonEmpty, NameOf, Has
  <2>3. [x \in {"kind"} |-> f["function"]] = e.at
    BY <1>5, <1>9, <2>1 DEF HasAttributes
  <2>4. CASE e.a = <<>>
    <3>1. FunctionCall(f, ArgumentsOf(t, b)) = Bad
      BY <1>4, <1>5, <1>9, <2>1, <2>2, <2>4 DEF FunctionCall
    <3>2. OneWay("oel", e)
      BY <1>9, <2>4 DEF OneWay
    <3> QED BY <1>1, <1>5, <3>1, <3>2 DEF Gets
  <2>5. CASE e.a # <<>>
    <3>1. FunctionCall(f, ArgumentsOf(t, b)) = Of("MemberOf", e.at, ArgumentsOf(t, b))
      BY <1>4, <1>5, <1>9, <2>1, <2>2, <2>3, <2>5 DEF FunctionCall
    <3> QED BY <1>1, <1>5, <1>7, <1>9, <3>1
  <2> QED BY <2>4, <2>5
<1> QED BY <1>8, <1>9

LEMMA TwoAre ==
  ASSUME NEW x, NEW y, NEW s, s = <<x>> \o <<y>>
  PROVE  DOMAIN s = 1 .. 2 /\ s = [i \in 1 .. 2 |-> s[i]] /\ s[1] = x /\ s[2] = y
<1> DEFINE S == {x, y}
           p == <<x>>
           q == <<y>>
<1>1. p \in Seq(S) /\ q \in Seq(S) /\ Len(p) = 1 /\ Len(q) = 1 /\ p[1] = x /\ q[1] = y
  OBVIOUS
<1>2. s = p \o q
  OBVIOUS
<1> HIDE DEF S, p, q
<1>3. /\ p \o q \in Seq(S) /\ Len(p \o q) = Len(p) + Len(q)
      /\ \A i \in 1 .. Len(p) + Len(q) : (p \o q)[i] = IF i <= Len(p) THEN p[i] ELSE q[i - Len(p)]
  BY <1>1, SequencesJoined
<1>4. s \in Seq(S) /\ Len(s) = 2 /\ \A i \in 1 .. 2 : s[i] = IF i <= 1 THEN p[i] ELSE q[i - 1]
  BY <1>1, <1>2, <1>3
<1>5. IsSequence(s) /\ DOMAIN s = 1 .. 2
  BY <1>4, SequenceOf
<1>6. s[1] = x /\ s[2] = y
  BY <1>1, <1>4
<1> QED BY <1>4, <1>5, <1>6 DEF IsSequence

(* The target of a method, and its arguments. *)
LEMMA OelMethodCall ==
  ASSUME NEW e, IsNode(e), OelNode(e), e.t = "MethodCall", NEW k, NEW b, NEW C, Closed(C), NEW reason,
         OelKnown(e, k, b, C, reason), HeldBy(OelTreeNode(e, k)) \subseteq C
  PROVE  Gets(OelBuildNode(OelTreeNode(e, k), b), e, reason)
<1> DEFINE a == Tail(e.a)
           l == Tail(k)
           n == Len(e.a) - 1
           t == ArgsTree(a, l)
           spec == [target |-> k[1], method |-> e.at["method"], args |-> t]
           c == ArgumentsOf(t, b)
           all == <<b[k[1]]>> \o c
<1>1. OelTreeNode(e, k) = CallTree(spec)
  BY DEF OelTreeNode
<1>2. /\ HasAttributes(e, {"method"}) /\ IsName(e.at["method"])
      /\ Len(e.a) >= 1 /\ e.a[1].t \notin {"Entry", "CommaList"} /\ AreArguments(a)
  BY DEF OelNode
<1>3. DOMAIN spec = {"target", "method", "args"} /\ spec["args"] = t /\ spec["target"] = k[1]
      /\ spec["method"] = e.at["method"]
  OBVIOUS
<1>4. /\ IsSequence(e.a) /\ Len(e.a) \in Nat /\ DOMAIN e.a = 1 .. n + 1 /\ e.a = [i \in DOMAIN e.a |-> e.a[i]]
      /\ n \in Nat
  BY <1>2, OperandsAre DEF IsNode
<1>5. IsSequence(k) /\ Len(k) = n + 1 /\ DOMAIN k = 1 .. n + 1
  BY <1>4 DEF OelKnown, IsSequence
<1>6. /\ IsSequence(a) /\ Len(a) = n /\ DOMAIN a = 1 .. n
      /\ \A i \in 1 .. n : a[i] = e.a[i + 1]
  BY <1>2, <1>4, TailIs
<1>7. /\ IsSequence(l) /\ Len(l) = n /\ DOMAIN l = 1 .. n
      /\ \A i \in 1 .. n : l[i] = k[i + 1]
  <2>1. Len(k) >= 1 /\ Len(k) - 1 = n
    BY <1>2, <1>5
  <2> HIDE DEF n
  <2> QED BY <1>5, <2>1, TailIs
<1> HIDE DEF a, l, n
<1>8. n \in {0, 1} /\ (n = 1 => a[1].t # "Entry")
  BY <1>2, <1>6 DEF AreArguments
<1>9. ASSUME n = 1
      PROVE  /\ e.a[2] # Bad /\ OelShape(e.a[2], k[2]) /\ a[1] = e.a[2] /\ l[1] = k[2]
             /\ k[2] \in C => Gets(OelResult(e.a[2], k[2], b), e.a[2], reason)
  <2>1. 2 \in DOMAIN e.a /\ a[1] = e.a[2] /\ l[1] = k[2]
    BY <1>4, <1>6, <1>7, <1>9
  <2>2. OelReads(e.a[2])
    BY <1>8, <1>9, <2>1 DEF OelReads
  <2> QED BY <2>1, <2>2 DEF OelKnown
<1>10. AtMostOne(a, l, n)
  <2>1. n = 1 => a[1].t # "Entry" /\ OelShape(a[1], l[1])
    BY <1>8, <1>9
  <2> QED BY <1>6, <1>7, <1>8, <2>1 DEF AtMostOne, IsSequence
<1>11. /\ (t = Nil) <=> n = 0
       /\ n = 0 => c = <<>>
       /\ n = 1 => t.k = "list" /\ c = <<OelResult(a[1], l[1], b)>> /\ (t \in C => l[1] \in C)
  <2>1. AreRead(a, l, n, b)
    BY <1>10, ArgumentsRead
  <2> QED BY <2>1 DEF AreRead
<1>12. t # Nil => t.k = "list"
  BY <1>8, <1>11
<1> HIDE DEF spec, t
<1>13. PICK f : ReadAs(spec, "target", "method", t, b, f)
  BY <1>3, <1>12, CallRead
<1>14. /\ CallTree(spec) = Node("call", Obj(f))
       /\ OelBuildNode(CallTree(spec), b) = OelCall(Obj(f), b)
       /\ "target" \in DOMAIN f /\ "method" \in DOMAIN f /\ f["target"] = k[1] /\ f["method"] = e.at["method"]
       /\ t # Nil => "args" \in DOMAIN f /\ f["args"] = t
       /\ OelCall(Obj(f), b) = MethodCall(f, b[f["target"]], c)
  BY <1>3, <1>13 DEF ReadAs
<1>15. k[1] \in C /\ (t # Nil => t \in C)
  BY <1>1, <1>14, Inside
<1> HIDE DEF c
<1>16. MethodCall(f, b[k[1]], c) = Of("MethodCall", e.at, all)
  <2>1. NonEmpty(f, "method")
    BY <1>2, <1>14 DEF NonEmpty, NameOf, Has, IsName
  <2>2. [x \in {"method"} |-> f[x]] = e.at
    BY <1>2, <1>14 DEF HasAttributes
  <2> QED BY <2>1, <2>2 DEF MethodCall
<1>17. e.a[1] # Bad /\ Gets(b[k[1]], e.a[1], reason)
  <2>1. 1 \in DOMAIN e.a
    BY <1>4
  <2>2. OelReads(e.a[1]) /\ OelResult(e.a[1], k[1], b) = b[k[1]]
    BY <1>2 DEF OelReads, OelResult
  <2> QED BY <1>15, <2>1, <2>2 DEF OelKnown
<1>18. /\ DOMAIN all = DOMAIN e.a /\ all = [i \in DOMAIN e.a |-> all[i]]
       /\ \A i \in DOMAIN e.a : e.a[i] # Bad /\ Gets(all[i], e.a[i], reason)
  <2>1. CASE n = 0
    <3>1. all = <<b[k[1]]>>
      BY <1>11, <2>1
    <3>2. DOMAIN e.a = 1 .. 1
      BY <1>4, <2>1
    <3>3. DOMAIN all = DOMAIN e.a /\ all = [i \in DOMAIN e.a |-> all[i]] /\ all[1] = b[k[1]]
      BY <3>1, <3>2
    <3>4. \A i \in DOMAIN e.a : i = 1
      BY <3>2
    <3> HIDE DEF all
    <3> QED BY <1>17, <3>3, <3>4
  <2>2. CASE n = 1
    <3> DEFINE x == b[k[1]]
               y == OelResult(e.a[2], k[2], b)
    <3>1. c = <<y>>
      BY <1>9, <1>11, <2>2
    <3>2. e.a[2] # Bad /\ Gets(y, e.a[2], reason)
      BY <1>9, <1>11, <1>15, <1>12, <2>2
    <3>3. DOMAIN e.a = 1 .. 2
      BY <1>4, <2>2
    <3> HIDE DEF x, y
    <3>4. all = <<x>> \o <<y>>
      BY <3>1 DEF x
    <3>5. DOMAIN all = 1 .. 2 /\ all = [i \in 1 .. 2 |-> all[i]] /\ all[1] = x /\ all[2] = y
      <4> HIDE DEF all
      <4> QED BY <3>4, TwoAre
    <3>6. DOMAIN all = DOMAIN e.a /\ all = [i \in DOMAIN e.a |-> all[i]] /\ all[1] = x /\ all[2] = y
      BY <3>3, <3>5
    <3>7. \A i \in DOMAIN e.a : i = 1 \/ i = 2
      BY <3>3
    <3> HIDE DEF all
    <3> QED BY <1>17, <3>2, <3>6, <3>7 DEF x
  <2> QED BY <1>8, <2>1, <2>2
<1> HIDE DEF all
<1>19. Gets(Of("MethodCall", e.at, all), Ast("MethodCall", e.at, e.a), reason)
  BY <1>4, <1>18, OfFits
<1>20. e = Ast("MethodCall", e.at, e.a)
  BY DEF IsNode
<1> QED BY <1>1, <1>14, <1>16, <1>19, <1>20 DEF all

LEMMA OelNodeBuilt ==
  ASSUME NEW e, IsNode(e), OelNode(e), e.t \notin {"Entry", "CommaList"}, NEW k, NEW b, NEW C, Closed(C), NEW reason,
         OelKnown(e, k, b, C, reason), HeldBy(OelTreeNode(e, k)) \subseteq C,
         OneWay("oel", e) => reason
  PROVE  Gets(OelBuildNode(OelTreeNode(e, k), b), e, reason)
<1>1. e.t \in {"Null", "Bool", "String", "Int", "Float", "ArrayLit", "Path", "Comparison", "Logical", "Additive",
               "elvis", "matches", "Index", "Projection", "Not", "Ternary", "ClassCall", "MemberOf", "FuncCall",
               "MethodCall", "Field", "MapLit"}
  BY DEF OelNode
<1>2. CASE e.t \in {"Null", "Bool", "String", "Int", "Float"}
  BY <1>2, OelLiteral
<1>3. CASE e.t = "ArrayLit"
  BY <1>3, OelArray
<1>4. CASE e.t = "Path"
  BY <1>4, OelPath
<1>5. CASE e.t \in {"Comparison", "Logical"}
  BY <1>5, OelSpelledOperator
<1>6. CASE e.t \in {"Additive", "Ternary", "elvis", "matches"}
  BY <1>6, OelFixedOperator
<1>7. CASE e.t \in {"Index", "Projection"}
  BY <1>7, OelParts
<1>8. CASE e.t = "Not"
  BY <1>8, OelNot
<1>9. CASE e.t = "ClassCall"
  BY <1>9, OelClassCall
<1>10. CASE e.t \in {"FuncCall", "MemberOf"}
  BY <1>10, OelFunctionCall
<1>11. CASE e.t = "MethodCall"
  BY <1>11, OelMethodCall
<1>12. CASE e.t = "Field"
  BY <1>12, OelField
<1>13. CASE e.t = "MapLit"
  BY <1>13, OelMap
<1> QED BY <1>1, <1>2, <1>3, <1>4, <1>5, <1>6, <1>7, <1>8, <1>9, <1>10, <1>11, <1>12, <1>13

LEMMA OelShapeOf ==
  ASSUME NEW e, IsNode(e), OelNode(e), NEW k, DOMAIN k = DOMAIN e.a, k = [i \in DOMAIN e.a |-> k[i]]
  PROVE  OelShape(e, OelTreeNode(e, k))
<1>1. Len(e.a) \in Nat /\ DOMAIN e.a = 1 .. Len(e.a)
  BY OperandsAre
<1>2. CASE e.t = "CommaList"
  <2>1. OelTreeNode(e, k) = List(k) /\ Len(e.a) >= 2
    BY <1>2 DEF OelTreeNode, OelNode
  <2>2. IsSequence(k) /\ Len(k) = Len(e.a)
    BY <1>1 DEF IsSequence
  <2>3. List(k).e = k
    BY ListIs
  <2> QED BY <1>2, <2>1, <2>2, <2>3 DEF OelShape
<1>3. CASE e.t = "String"
  BY <1>3 DEF OelTreeNode, OelShape
<1>4. CASE e.t \notin {"CommaList", "String"}
  BY <1>4 DEF OelShape
<1> QED BY <1>2, <1>3, <1>4

(* The tree of a node has few layers more than those of its operands. *)

LEMMA MildArguments ==
  ASSUME NEW a, NEW k, NEW n \in Nat, NEW kinds, \A i \in DOMAIN k : Mild(k[i], n, kinds), a # <<>> => 1 \in DOMAIN k
  PROVE  Mild(ArgsTree(a, k), n + 3, kinds)
<1>1. n + 1 <= n + 3 /\ n <= n + 3 /\ n + 1 \in Nat /\ n + 3 \in Nat /\ 2 <= n + 3
  OBVIOUS
<1>2. Mild(Nil, n + 3, kinds)
  BY <1>1, MildEmpty
<1>3. Mild(List(k), n + 3, kinds)
  <2>1. Mild(List(k), n + 1, kinds)
    BY MildList
  <2> QED BY <1>1, <2>1, MildMore
<1>4. a # <<>> => Mild(k[1], n + 3, kinds)
  BY <1>1, MildMore
<1> QED BY <1>2, <1>3, <1>4 DEF ArgsTree

LEMMA MildCall ==
  ASSUME NEW spec, NEW n \in Nat, NEW kinds, \A x \in DOMAIN spec : Mild(spec[x], n + 3, kinds)
  PROVE  Mild(CallTree(spec), n + 5, kinds)
  BY MildFieldsWritten DEF CallTree

LEMMA MildName ==
  ASSUME NEW v, v.k = "str", NEW kinds, NEW m \in Nat, 1 <= m
  PROVE  Mild(v, m, kinds)
  BY MildPlain DEF Plain

LEMMA OelTreeMild ==
  ASSUME NEW e, IsNode(e), OelNode(e), NEW kinds, "value" \in DOMAIN e.at => ~Odd(e.at["value"], kinds),
         NEW k, DOMAIN k = DOMAIN e.a, k = [i \in DOMAIN e.a |-> k[i]], NEW n \in Nat, \A i \in DOMAIN k : Mild(k[i], n, kinds)
  PROVE  Mild(OelTreeNode(e, k), n + 5, kinds)
<1>0. /\ n + 1 \in Nat /\ n + 2 \in Nat /\ n + 3 \in Nat /\ n + 5 \in Nat /\ (n + 1) + 1 = n + 2
      /\ n + 1 <= n + 5 /\ n + 2 <= n + 5 /\ n + 2 <= n + 3 /\ n <= n + 3 /\ 1 <= n + 3 /\ 1 <= n + 5 /\ n + 1 <= n + 3
  OBVIOUS
<1>1. /\ Len(e.a) \in Nat /\ DOMAIN e.a = 1 .. Len(e.a)
  BY OperandsAre
<1>2. Mild(List(k), n + 1, kinds)
  BY MildList
<1>3. ASSUME NEW key PROVE Mild(Node(key, List(k)), n + 5, kinds)
  BY <1>0, <1>2, MildNode, MildMore
<1>4. ASSUME NEW i \in DOMAIN k PROVE Mild(k[i], n + 3, kinds)
  BY <1>0, MildMore
<1>5. Mild(Node("raw", Source(e)), n + 5, kinds)
  <2>1. Mild(Source(e), n + 1, kinds)
    BY <1>0, MildPlain DEF Plain, Source
  <2> QED BY <1>0, <2>1, MildNode, MildMore
<1>6. CASE e.t \in {"Null", "Bool", "String", "Int", "Float"}
  <2>1. OelTreeNode(e, k) = e.at["value"]
    BY <1>6 DEF OelTreeNode
  <2>2. "value" \in DOMAIN e.at
    BY <1>6 DEF OelNode, IsLiteral, HasAttributes
  <2>3. e.at["value"].k \in {"nil", "bool", "str", "source", "num"}
    BY <1>6 DEF OelNode, IsBool, Bool, Nil
  <2> QED BY <1>0, <2>1, <2>2, <2>3, MildScalar
<1>7. CASE e.t \in {"ArrayLit", "CommaList"}
  BY <1>0, <1>2, <1>7, MildMore DEF OelTreeNode
<1>8. CASE e.t = "Path"
  <2>1. OelTreeNode(e, k) = DecodePath(e)
    BY <1>8 DEF OelTreeNode
  <2>2. ASSUME NEW s PROVE Mild(Node("ident", Str(s)), n + 5, kinds)
    <3>1. Mild(Str(s), n + 1, kinds)
      BY <1>0, MildName DEF Str
    <3> QED BY <1>0, <3>1, MildNode, MildMore
  <2> QED BY <1>5, <2>1, <2>2 DEF DecodePath
<1>9. CASE e.t \in {"Comparison", "Logical", "Additive", "Ternary", "elvis", "matches"}
  BY <1>3, <1>9 DEF OelTreeNode
<1>10. CASE e.t = "Not"
  <2>1. 1 \in DOMAIN k
    <3>1. Len(e.a) = 1
      BY <1>10 DEF OelNode, OperandsOf
    <3> QED BY <1>1, <3>1
  <2>2. Mild(Node("!", k[1]), n + 1, kinds)
    BY <2>1, MildNode
  <2> QED BY <1>0, <1>10, <2>2, MildMore DEF OelTreeNode
<1>11. CASE e.t \in {"ClassCall", "MemberOf", "FuncCall"}
  <2>1. e.a # <<>> => 1 \in DOMAIN k
    BY <1>1
  <2>2. Mild(ArgsTree(e.a, k), n + 3, kinds)
    BY <2>1, MildArguments
  <2>3. CASE e.t = "ClassCall"
    <3> DEFINE spec == [class |-> e.at["class"], method |-> e.at["method"], args |-> ArgsTree(e.a, k)]
    <3>1. e.at["class"].k = "str" /\ e.at["method"].k = "str"
      BY <2>3 DEF OelNode, IsName
    <3>2. Mild(e.at["class"], n + 3, kinds) /\ Mild(e.at["method"], n + 3, kinds)
      BY <1>0, <3>1, MildName
    <3>3. \A x \in DOMAIN spec : Mild(spec[x], n + 3, kinds)
      BY <2>2, <3>2
    <3>4. OelTreeNode(e, k) = CallTree(spec)
      BY <2>3 DEF OelTreeNode
    <3> HIDE DEF spec
    <3> QED BY <3>3, <3>4, MildCall
  <2>4. CASE e.t \in {"MemberOf", "FuncCall"}
    <3> DEFINE name == IF e.t = "FuncCall" THEN e.at["name"] ELSE e.at["kind"]
               spec == [function |-> name, args |-> ArgsTree(e.a, k)]
    <3>1. name.k = "str"
      BY <2>4 DEF OelNode, IsName, IsToken
    <3>2. OelTreeNode(e, k) = CallTree(spec)
      BY <2>4 DEF OelTreeNode
    <3> HIDE DEF name
    <3>3. Mild(name, n + 3, kinds)
      BY <1>0, <3>1, MildName
    <3>4. \A x \in DOMAIN spec : Mild(spec[x], n + 3, kinds)
      BY <2>2, <3>3
    <3> HIDE DEF spec
    <3> QED BY <3>2, <3>4, MildCall
  <2> QED BY <1>11, <2>3, <2>4
<1>12. CASE e.t = "MethodCall"
  <2>1. Len(e.a) >= 1 /\ e.at["method"].k = "str"
    BY <1>12 DEF OelNode, IsName
  <2>2. IsSequence(k) /\ Len(k) = Len(e.a) /\ 1 \in DOMAIN k
    BY <1>1, <2>1 DEF IsSequence
  <2>3. /\ DOMAIN Tail(k) = 1 .. Len(k) - 1 /\ \A i \in 1 .. Len(k) - 1 : Tail(k)[i] = k[i + 1]
    BY <2>1, <2>2, TailIs
  <2>4. /\ IsSequence(Tail(e.a)) /\ Len(Tail(e.a)) = Len(e.a) - 1
    BY <2>1, TailIs DEF IsNode
  <2> DEFINE a == Tail(e.a)
             l == Tail(k)
             m == Len(e.a)
  <2>5. \A i \in DOMAIN l : i + 1 \in DOMAIN k /\ l[i] = k[i + 1]
    <3>1. m \in Nat /\ Len(k) = m /\ DOMAIN k = 1 .. m
      BY <1>1, <2>2
    <3> HIDE DEF m
    <3> QED BY <2>3, <3>1
  <2>6. a # <<>> => 1 \in DOMAIN l
    <3>1. m \in Nat /\ Len(k) = m /\ Len(a) = m - 1 /\ IsSequence(a)
      BY <1>1, <2>2, <2>4
    <3> HIDE DEF m, a
    <3>2. ASSUME a # <<>> PROVE m - 1 >= 1
      <4>1. CASE m - 1 = 0
        BY <3>1, <3>2, <4>1 DEF IsSequence
      <4> QED
        <5>1. m >= 1
          BY <2>1 DEF m
        <5> QED BY <3>1, <4>1, <5>1
    <3> QED BY <2>3, <3>1, <3>2
  <2>7. \A i \in DOMAIN l : Mild(l[i], n, kinds)
    BY <2>5
  <2> HIDE DEF a, l
  <2>8. Mild(ArgsTree(a, l), n + 3, kinds)
    BY <2>6, <2>7, MildArguments
  <2> DEFINE spec == [target |-> k[1], method |-> e.at["method"], args |-> ArgsTree(a, l)]
  <2>9. OelTreeNode(e, k) = CallTree(spec)
    BY <1>12 DEF OelTreeNode, a, l
  <2>10. Mild(e.at["method"], n + 3, kinds) /\ Mild(k[1], n + 3, kinds)
    BY <1>0, <1>4, <2>1, <2>2, MildName
  <2>11. \A x \in DOMAIN spec : Mild(spec[x], n + 3, kinds)
    BY <2>8, <2>10
  <2> HIDE DEF spec
  <2> QED BY <2>9, <2>11, MildCall
<1>13. CASE e.t = "Field"
  <2> DEFINE f == [operand |-> k[1], field |-> e.at["field"]]
  <2>1. 1 \in DOMAIN k /\ e.at["field"].k = "str"
    <3>1. Len(e.a) = 1 /\ e.at["field"].k = "str"
      BY <1>13 DEF OelNode, IsName
    <3> QED BY <1>1, <3>1
  <2>2. Mild(k[1], n + 3, kinds) /\ Mild(e.at["field"], n + 3, kinds)
    BY <1>0, <1>4, <2>1, MildName
  <2>3. \A x \in DOMAIN f : Mild(f[x], n + 3, kinds)
    BY <2>2
  <2>4. OelTreeNode(e, k) = Node("select", Obj(f))
    BY <1>13 DEF OelTreeNode
  <2> HIDE DEF f
  <2> QED BY <2>3, <2>4, MildFields
<1>14. CASE e.t \in {"Index", "Projection"}
  <2> DEFINE f == IF e.t = "Index" THEN [base |-> k[1], index |-> k[2]] ELSE [base |-> k[1], expr |-> k[2]]
             key == IF e.t = "Index" THEN "index" ELSE "project"
  <2>1. 1 \in DOMAIN k /\ 2 \in DOMAIN k
    <3>1. Len(e.a) = 2
      BY <1>14 DEF OelNode, OperandsOf
    <3> QED BY <1>1, <3>1
  <2>2. Mild(k[1], n + 3, kinds) /\ Mild(k[2], n + 3, kinds)
    BY <1>4, <2>1
  <2>3. \A x \in DOMAIN f : Mild(f[x], n + 3, kinds)
    BY <2>2
  <2>4. OelTreeNode(e, k) = Node(key, Obj(f))
    BY <1>14 DEF OelTreeNode
  <2> HIDE DEF f, key
  <2> QED BY <2>3, <2>4, MildFields
<1>15. CASE e.t = "MapLit"
  BY <1>3, <1>5, <1>15 DEF OelTreeNode, DecodeMap
<1>16. CASE e.t = "Entry"
  <2> DEFINE f == [key |-> k[1], value |-> k[2]]
  <2>1. 1 \in DOMAIN k /\ 2 \in DOMAIN k
    <3>1. Len(e.a) = 2
      BY <1>16 DEF OelNode, OperandsOf
    <3> QED BY <1>1, <3>1
  <2>2. \A x \in DOMAIN f : Mild(f[x], n, kinds)
    BY <2>1
  <2>3. OelTreeNode(e, k) = Obj(f)
    BY <1>16 DEF OelTreeNode
  <2> HIDE DEF f
  <2>4. Mild(Obj(f), n + 1, kinds)
    BY <2>2, MildObj
  <2> QED BY <1>0, <2>3, <2>4, MildMore
<1>17. e.t \in {"Null", "Bool", "String", "Int", "Float", "ArrayLit", "CommaList", "Path", "Comparison", "Logical",
                "Additive", "elvis", "matches", "Index", "Projection", "Not", "Ternary", "ClassCall", "MemberOf",
                "FuncCall", "MethodCall", "Field", "MapLit", "Entry"}
  BY DEF OelNode
<1> QED BY <1>6, <1>7, <1>8, <1>9, <1>10, <1>11, <1>12, <1>13, <1>14, <1>15, <1>16, <1>17

LEMMA OelGoodNode ==
  ASSUME NEW e, IsNode(e), OelNode(e), NEW k, DOMAIN k = DOMAIN e.a, k = [i \in DOMAIN e.a |-> k[i]], NEW reason,
         \A i \in DOMAIN e.a : /\ e.a[i] # Bad /\ IsNode(e.a[i]) /\ OelNode(e.a[i]) /\ OelShape(e.a[i], k[i])
                               /\ OelGood(e.a[i], k[i], reason),
         OneWay("oel", e) => reason
  PROVE  OelGood(e, OelTreeNode(e, k), reason)
<1> DEFINE v == OelTreeNode(e, k)
<1>1. SUFFICES ASSUME NEW U, Closed(U), v \in U, NEW m \in Nat, Short(v, m), OelReads(e)
               PROVE  Gets(OelResult(e, v, OelBuilds!Stage(U)[m]), e, reason)
  BY DEF OelGood
<1>2. ASSUME NEW l \in Nat
      PROVE  /\ Closed({w \in U : Short(w, l)})
             /\ OelKnown(e, k, OelBuilds!Stage(U)[l], {w \in U : Short(w, l)}, reason)
  <2> DEFINE C == {w \in U : Short(w, l)}
             b == OelBuilds!Stage(U)[l]
  <2>1. Closed(C)
    BY <1>1, ShortClosed
  <2>2. ASSUME NEW i \in DOMAIN e.a, k[i] \in C, OelReads(e.a[i])
        PROVE  Gets(OelResult(e.a[i], k[i], b), e.a[i], reason)
    <3>1. OelGood(e.a[i], k[i], reason)
      OBVIOUS
    <3>2. k[i] \in U /\ Short(k[i], l)
      BY <2>2
    <3> QED BY <1>1, <2>2, <3>1, <3>2 DEF OelGood
  <2> HIDE DEF b, C
  <2>3. OelKnown(e, k, b, C, reason)
    BY <2>2 DEF OelKnown
  <2> QED BY <2>1, <2>3 DEF b, C
<1>3. CASE e.t \in {"Entry", "CommaList"}
  <2> DEFINE C == {w \in U : Short(w, m)}
             b == OelBuilds!Stage(U)[m]
  <2>1. Closed(C) /\ OelKnown(e, k, b, C, reason)
    BY <1>1, <1>2
  <2>2. v \in C
    BY <1>1
  <2> HIDE DEF C, b
  <2>3. CASE e.t = "Entry"
    <3>1. Gets(OelEntry(v, b), e, reason)
      BY <1>1, <2>1, <2>2, <2>3, OelEntryMade
    <3> QED BY <2>3, <3>1 DEF OelResult, b
  <2>4. CASE e.t = "CommaList"
    <3>1. Gets(Of("CommaList", NoFields, BuildList(v.e, b)), e, reason)
      BY <2>1, <2>2, <2>4, OelCommaList
    <3> QED BY <2>4, <3>1 DEF OelResult, b
  <2> QED BY <1>3, <2>3, <2>4
<1>4. CASE e.t \notin {"Entry", "CommaList"}
  <2> DEFINE C == {w \in U : Short(w, m - 1)}
             b == OelBuilds!Stage(U)[m - 1]
  <2>1. m - 1 \in Nat /\ \A w \in HeldBy(v) : Short(w, m - 1)
    <3> HIDE DEF v
    <3> QED BY <1>1, HeldShort
  <2>2. OelBuilds!Stage(U)[m] = OelBuildMore(U, b)
    <3>1. \A i \in Nat : OelBuilds!Stage(U)[i + 1] = OelBuildMore(U, OelBuilds!Stage(U)[i])
      BY NumbersHaveLeast, OelBuilds!StageIs
    <3>2. (m - 1) + 1 = m
      OBVIOUS
    <3> QED BY <2>1, <3>1, <3>2
  <2>3. OelBuilds!Stage(U)[m][v] = OelBuildNode(v, b)
    <3> HIDE DEF v, b
    <3> QED BY <1>1, <2>2 DEF OelBuildMore
  <2>4. Closed(C) /\ OelKnown(e, k, b, C, reason)
    BY <1>2, <2>1
  <2>5. HeldBy(v) \subseteq C
    <3> HIDE DEF v
    <3> QED BY <1>1, <2>1 DEF Closed
  <2> HIDE DEF b, C
  <2>6. Gets(OelBuildNode(OelTreeNode(e, k), b), e, reason)
    BY <1>4, <2>4, <2>5, OelNodeBuilt
  <2> QED BY <1>4, <2>3, <2>6 DEF OelResult
<1> QED BY <1>3, <1>4

LEMMA OelNodeNotBad ==
  ASSUME NEW e, OelNode(e)
  PROVE  e # Bad
<1>1. Bad.t = "bad"
  BY DEF Bad, Ast
<1> QED BY <1>1 DEF OelNode

(* The tree that a decode makes of an expression of so many layers. *)
OelDecoded(e, v, n) ==
  /\ OelShape(e, v) /\ OelGood(e, v, SomeOneWay("oel", e))
  /\ \A kinds : ~SomeNumber(e, kinds) => Mild(v, 5 * n, kinds)

LEMMA OelDecodes ==
  ASSUME NEW n \in Nat, NEW e, Legal("oel", e, n), NEW A, Closed(A), e \in A, NEW m \in Nat, n <= m
  PROVE  OelDecoded(e, OelTrees!Stage(A)[m][e], n)
<1> DEFINE Fails(i) == \E x, B : /\ Legal("oel", x, i) /\ Closed(B) /\ x \in B
                                 /\ \E j \in Nat : i <= j /\ ~OelDecoded(x, OelTrees!Stage(B)[j][x], i)
           bad == {i \in Nat : Fails(i)}
<1>1. SUFFICES ASSUME bad # {} PROVE FALSE
  <2>1. \A i \in Nat : ~Fails(i)
    BY <1>1, Zenon
  <2> QED BY <2>1
<1>2. PICK i \in bad : \A j \in bad : i <= j
  <2> HIDE DEF bad
  <2>1. bad \subseteq Nat
    BY DEF bad
  <2> QED BY <1>1, <2>1, FirstPosition
<1>3. PICK x, B : /\ Legal("oel", x, i) /\ Closed(B) /\ x \in B
                  /\ \E j \in Nat : i <= j /\ ~OelDecoded(x, OelTrees!Stage(B)[j][x], i)
  BY <1>2
<1>4. PICK j \in Nat : i <= j /\ ~OelDecoded(x, OelTrees!Stage(B)[j][x], i)
  BY <1>3
<1>5. i \in Nat
  BY <1>2
<1>6. /\ IsNode(x) /\ OelNode(x) /\ i - 1 \in Nat
      /\ \A h \in DOMAIN x.a : Legal("oel", x.a[h], i - 1)
  BY <1>3, <1>5, LegalOperands DEF IsLanguageNode
<1>7. ~Fails(i - 1)
  <2>1. ~(i <= i - 1)
    BY <1>5
  <2> HIDE DEF Fails
  <2> QED BY <1>2, <1>6, <2>1
<1>8. j - 1 \in Nat /\ i - 1 <= j - 1 /\ (j - 1) + 1 = j
  BY <1>4, <1>6
<1> DEFINE tree == OelTrees!Stage(B)[j - 1]
           k == [h \in DOMAIN x.a |-> tree[x.a[h]]]
<1>9. OelTrees!Stage(B)[j] = OelTreeMore(B, tree)
  <2>1. \A h \in Nat : OelTrees!Stage(B)[h + 1] = OelTreeMore(B, OelTrees!Stage(B)[h])
    BY NumbersHaveLeast, OelTrees!StageIs
  <2> QED BY <2>1, <1>8
<1> HIDE DEF tree
<1>10. OelTrees!Stage(B)[j][x] = OelTreeNode(x, k)
  BY <1>3, <1>9 DEF OelTreeMore
<1>11. ASSUME NEW h \in DOMAIN x.a
       PROVE  OelDecoded(x.a[h], k[h], i - 1) /\ x.a[h] # Bad /\ IsNode(x.a[h]) /\ OelNode(x.a[h])
  <2>1. x.a[h] \in B
    <3>1. HeldBy(x) = {x.a[g] : g \in DOMAIN x.a}
      BY <1>6, OperandsAre
    <3> QED BY <1>3, <3>1 DEF Closed
  <2>2. Legal("oel", x.a[h], i - 1)
    BY <1>6
  <2>3. OelDecoded(x.a[h], OelTrees!Stage(B)[j - 1][x.a[h]], i - 1)
    BY <1>3, <1>7, <1>8, <2>1, <2>2
  <2>4. IsNode(x.a[h]) /\ OelNode(x.a[h])
    BY <1>6, <2>2, LegalOperands DEF IsLanguageNode
  <2> QED BY <2>3, <2>4, OelNodeNotBad DEF tree
<1> HIDE DEF k
<1>12. DOMAIN k = DOMAIN x.a /\ k = [h \in DOMAIN x.a |-> k[h]]
  BY DEF k
<1> DEFINE reason == SomeOneWay("oel", x)
<1>13. /\ \A h \in DOMAIN x.a : SomeOneWay("oel", x.a[h]) => reason
       /\ OneWay("oel", x) => reason
  BY <1>3, <1>5, OneWayAbove
<1> HIDE DEF reason
<1>14. \A h \in DOMAIN x.a : /\ x.a[h] # Bad /\ IsNode(x.a[h]) /\ OelNode(x.a[h]) /\ OelShape(x.a[h], k[h])
                             /\ OelGood(x.a[h], k[h], reason)
  BY <1>11, <1>13 DEF OelDecoded, OelGood, Gets
<1>15. OelGood(x, OelTreeNode(x, k), reason)
  BY <1>6, <1>12, <1>13, <1>14, OelGoodNode
<1>16. OelShape(x, OelTreeNode(x, k))
  BY <1>6, <1>12, OelShapeOf
<1>17. ASSUME NEW kinds, ~SomeNumber(x, kinds) PROVE Mild(OelTreeNode(x, k), 5 * i, kinds)
  <2>1. /\ \A h \in DOMAIN x.a : ~SomeNumber(x.a[h], kinds)
        /\ "value" \in DOMAIN x.at => ~Odd(x.at["value"], kinds)
    BY <1>3, <1>5, <1>17, NumberAbove
  <2>2. \A h \in DOMAIN k : Mild(k[h], 5 * (i - 1), kinds)
    BY <1>11, <1>12, <1>17, <2>1 DEF OelDecoded
  <2> DEFINE c == 5 * (i - 1)
  <2>3. c \in Nat /\ c + 5 = 5 * i
    BY <1>6
  <2>4. \A h \in DOMAIN k : Mild(k[h], c, kinds)
    BY <2>2
  <2> HIDE DEF c
  <2>5. Mild(OelTreeNode(x, k), c + 5, kinds)
    BY <1>6, <1>12, <1>17, <2>1, <2>3, <2>4, OelTreeMild
  <2> QED BY <2>3, <2>5
<1>18. OelDecoded(x, OelTreeNode(x, k), i)
  BY <1>15, <1>16, <1>17 DEF OelDecoded, reason
<1> QED BY <1>4, <1>10, <1>18

LEMMA KnowsStage ==
  ASSUME NEW U, Closed(U), NEW l \in Nat
  PROVE  Knows(U, CelBuilds!Stage(U)[l], {w \in U : Short(w, l)})
<1> DEFINE C == {w \in U : Short(w, l)}
           b == CelBuilds!Stage(U)[l]
<1>1. Closed(C)
  BY ShortClosed
<1>2. ASSUME NEW w, NEW y, w \in C, Makes(U, w, y) PROVE b[w] = y
  BY <1>2 DEF Makes
<1> HIDE DEF b, C
<1>3. Knows(U, b, C)
  BY <1>1, <1>2 DEF Knows
<1> QED BY <1>3 DEF b, C

LEMMA MakesBy ==
  ASSUME NEW U, Closed(U), NEW t, NEW x,
         \A b, C : Knows(U, b, C) /\ HeldBy(t) \subseteq C => CelBuildNode(t, b) = x
  PROVE  Makes(U, t, x)
<1>1. SUFFICES ASSUME NEW m \in Nat, t \in U, Short(t, m) PROVE CelBuilds!Stage(U)[m][t] = x
  BY DEF Makes
<1> DEFINE b == CelBuilds!Stage(U)[m - 1]
           C == {w \in U : Short(w, m - 1)}
<1>2. m - 1 \in Nat /\ \A w \in HeldBy(t) : Short(w, m - 1)
  BY <1>1, HeldShort
<1>3. CelBuilds!Stage(U)[m] = CelBuildMore(U, b)
  <2>1. \A i \in Nat : CelBuilds!Stage(U)[i + 1] = CelBuildMore(U, CelBuilds!Stage(U)[i])
    BY NumbersHaveLeast, CelBuilds!StageIs
  <2>2. (m - 1) + 1 = m
    OBVIOUS
  <2> QED BY <1>2, <2>1, <2>2
<1>4. CelBuilds!Stage(U)[m][t] = CelBuildNode(t, b)
  <2> HIDE DEF b
  <2> QED BY <1>1, <1>3 DEF CelBuildMore
<1>5. Knows(U, b, C)
  BY <1>2, KnowsStage
<1>6. HeldBy(t) \subseteq C
  BY <1>1, <1>2 DEF Closed
<1> HIDE DEF b, C
<1> QED BY <1>4, <1>5, <1>6

LEMMA CelKeyed ==
  ASSUME NEW key, NEW w, NEW b
  PROVE  CelBuildNode(Node(key, w), b) = CelBuildKeyed(key, w, b)
<1>1. /\ Node(key, w).k = "obj" /\ Node(key, w).f[key] = w
      /\ Sole(Node(key, w)) /\ SoleKey(Node(key, w)) = key
  BY NodeIs
<1> DEFINE v == Node(key, w)
<1>2. v.k = "obj" /\ v.f[key] = w /\ Sole(v) /\ SoleKey(v) = key
  BY <1>1
<1> HIDE DEF v
<1>3. CelBuildNode(v, b) = CelBuildKeyed(key, w, b)
  BY <1>2 DEF CelBuildNode
<1> QED BY <1>3 DEF v

(* A tree that is an object of one key makes what is built of that. *)
LEMMA KeyMakes ==
  ASSUME NEW U, Closed(U), NEW key, NEW w, NEW x,
         \A b, C : Knows(U, b, C) /\ w \in C => CelBuildKeyed(key, w, b) = x
  PROVE  Makes(U, Node(key, w), x)
<1>1. ASSUME NEW b, NEW C, Knows(U, b, C), HeldBy(Node(key, w)) \subseteq C
      PROVE  CelBuildNode(Node(key, w), b) = x
  <2>1. w \in C
    BY <1>1, NodeHolds
  <2> QED BY <1>1, <2>1, CelKeyed
<1> QED BY <1>1, MakesBy

LEMMA KnownIs ==
  ASSUME NEW U, NEW b, NEW C, Knows(U, b, C), NEW w \in C, NEW y, Makes(U, w, y)
  PROVE  b[w] = y
  BY DEF Knows

LEMMA ObjWithin ==
  ASSUME NEW C, Closed(C), NEW f, Obj(f) \in C
  PROVE  \A x \in DOMAIN f : f[x] \in C
  BY ObjIs DEF Closed

LEMMA ListWithin ==
  ASSUME NEW C, Closed(C), NEW s, List(s) \in C
  PROVE  \A i \in DOMAIN s : s[i] \in C
  BY ListIs DEF Closed

(* What the parser makes of a call again. *)

(* Every operand of a node is one. *)
Operands(e) == \A i \in DOMAIN e.a : IsNode(e.a[i]) /\ CelNode(e.a[i]) /\ Finite(e.a[i])

LEMMA CelNodeNotBad ==
  ASSUME NEW e, CelNode(e)
  PROVE  e # Bad
<1>1. Bad.t = "bad"
  BY DEF Bad, Ast
<1> QED BY <1>1 DEF CelNode, ConstantKinds

LEMMA JoinedEnds ==
  ASSUME NEW func, NEW l, NEW r, ~IsChain(r, func), Finite(r)
  PROVE  Joined(func, l, r) = CallOf(func, <<l, r>>)
<1> DEFINE x == CallOf(func, <<l, r>>)
           h == Height(r)
<1>1. x.a[1] = l /\ x.a[2] = r /\ x.at["fn"] = func
  BY DEF CallOf, Ast
<1> HIDE DEF x
<1>2. h \in Nat /\ h # 0 /\ r \in Parts(r)
  BY PartsAre, NeverShortAtOnce DEF Finite
<1> HIDE DEF h
<1>3. h - 1 \in Nat /\ (h - 1) + 1 = h
  BY <1>2
<1>4. Chains!Stage(x)[h] = JoinMore(x, Chains!Stage(x)[h - 1])
  <2>1. \A n \in Nat : Chains!Stage(x)[n + 1] = JoinMore(x, Chains!Stage(x)[n])
    BY NumbersHaveLeast, Chains!StageIs
  <2> QED BY <1>3, <2>1
<1> DEFINE j == Chains!Stage(x)[h - 1]
<1> HIDE DEF j
<1>5. JoinMore(x, j)[r] = CallOf(func, <<l, r>>)
  BY <1>1, <1>2 DEF JoinMore
<1>6. Joined(func, l, r) = Chains!Stage(x)[h][r]
  BY DEF Joined, x, h
<1> QED BY <1>4, <1>5, <1>6 DEF j

LEMMA ParsedAgain ==
  ASSUME NEW e, IsNode(e), IsParsedCall(e), e.t = "Call", Operands(e)
  PROVE  ParsedCall(e.at["fn"], e.a) = e
<1> DEFINE func == e.at["fn"]
<1>1. /\ HasAttributes(e, {"fn"}) /\ func.k = "str"
      /\ IsToken(func, Variadic) => Len(e.a) = 2 /\ ~IsChain(e.a[2], func)
      /\ IsCall(e, "has") => ~(Len(e.a) = 1 /\ e.a[1].t = "Select")
  BY DEF IsParsedCall, IsStr
<1>2. e = CallOf(func, e.a)
  <2>1. e = Ast("Call", e.at, e.a)
    BY DEF IsNode
  <2>2. e.at = [x \in {"fn"} |-> func]
    BY <1>1 DEF HasAttributes
  <2> QED BY <2>1, <2>2 DEF CallOf
<1>3. \A i \in DOMAIN e.a : e.a[i] # Bad
  BY CelNodeNotBad DEF Operands
<1>4. ~(func = Name("has") /\ Len(e.a) = 1 /\ e.a[1].t = "Select")
  BY <1>1 DEF IsCall
<1>5. Len(e.a) \in Nat /\ DOMAIN e.a = 1 .. Len(e.a) /\ e.a = [i \in DOMAIN e.a |-> e.a[i]]
  BY OperandsAre
<1> HIDE DEF func
<1>6. CASE IsToken(func, Variadic)
  <2>1. Len(e.a) = 2 /\ ~IsChain(e.a[2], func) /\ 2 \in DOMAIN e.a
    BY <1>1, <1>5, <1>6
  <2>2. Joined(func, e.a[1], e.a[2]) = CallOf(func, <<e.a[1], e.a[2]>>)
    BY <2>1, JoinedEnds DEF Operands
  <2>3. e.a = <<e.a[1], e.a[2]>>
    BY <1>5, <2>1
  <2>4. ParsedCall(func, e.a) = Joined(func, e.a[1], e.a[2])
    BY <1>3, <1>4, <1>6, <2>1 DEF ParsedCall
  <2> QED BY <1>2, <2>2, <2>3, <2>4 DEF func
<1>7. CASE ~IsToken(func, Variadic)
  <2>1. ParsedCall(func, e.a) = CallOf(func, e.a)
    BY <1>3, <1>4, <1>7 DEF ParsedCall
  <2> QED BY <1>2, <2>1 DEF func
<1> QED BY <1>6, <1>7

-----------------------------------------------------------------------------
(* The keys of the operators. *)

LEMMA AliasIs ==
  /\ Alias["=="] = "eq"
  /\ Alias["!="] = "ne"
  /\ Alias["<"] = "lt"
  /\ Alias["<="] = "le"
  /\ Alias[">"] = "gt"
  /\ Alias[">="] = "ge"
  /\ Alias["&&"] = "and"
  /\ Alias["||"] = "or"
  /\ Alias["!"] = "not"
  /\ Alias["?:"] = "cond"
  /\ Alias["+"] = "add"
  /\ Alias["*"] = "mul"
  /\ Alias["/"] = "div"
  /\ Alias["%"] = "mod"
  /\ Alias["[]"] = "index"
  /\ Alias["in"] = "in"
  /\ Alias["neg"] = "neg"
  /\ Alias["sub"] = "sub"
  BY DEF Alias, OperatorFunctions, Variadic, Unary, Binary

LEMMA OperatorsAre ==
  OperatorFunctions = {"==", "!=", "<", "<=", ">", ">=", "&&", "||", "!", "?:", "+", "*", "/", "%", "[]", "in", "neg", "sub"}
  BY DEF OperatorFunctions, Variadic, Unary, Binary

OtherKeys == {"ident", "call", "call_expr", "const", "const_expr", "struct", "select", "select_expr", "list",
              "list_expr", "ident_expr", "struct_expr", "raw", "optional"} \cup ConstantKinds

LEMMA NotOperator ==
  ASSUME NEW key \in OtherKeys
  PROVE  ~IsOperator(key)
<1>1. ASSUME NEW func \in OperatorFunctions PROVE ~Aliased(func, key)
  <2>1. Alias[func] \in {"eq", "ne", "lt", "le", "gt", "ge", "and", "or", "not", "cond", "add", "mul", "div", "mod", "index", "in", "neg", "sub"}
    BY AliasIs, OperatorsAre
  <2>2. key \notin {"eq", "ne", "lt", "le", "gt", "ge", "and", "or", "not", "cond", "add", "mul", "div", "mod", "index", "in", "neg", "sub"}
    BY DEF OtherKeys, ConstantKinds
  <2>3. key # func
    BY OperatorsAre DEF OtherKeys, ConstantKinds
  <2> QED BY <2>1, <2>2, <2>3 DEF Aliased
<1>2. key # "-"
  BY DEF OtherKeys, ConstantKinds
<1> QED BY <1>1, <1>2 DEF IsOperator

(* A key names its own operator, "-" the one of its operands' number. *)
LEMMA NamedAgain ==
  ASSUME NEW nt, NEW func \in OperatorFunctions
  PROVE  /\ IsOperator(OpKey(nt, func)) /\ OpKey(nt, func) \notin OtherKeys
         /\ OpKey(nt, func) # "-" => Named(OpKey(nt, func)) = func
         /\ OpKey(nt, func) = "-" => func \in {"neg", "sub"}
<1> DEFINE key == OpKey(nt, func)
<1>1. key = Alias[func] \/ (key = func /\ func \notin {"neg", "sub"}) \/ (key = "-" /\ func \in {"neg", "sub"})
  BY DEF OpKey, Token
<1>2. ASSUME NEW other \in OperatorFunctions, Aliased(other, key), key # "-"
      PROVE  other = func
  <2> HIDE DEF key
  <2>1. other = key \/ Alias[other] = key
    BY <1>2 DEF Aliased
  <2>2. key = Alias[func] \/ key = func
    BY <1>1, <1>2
  <2>3. ASSUME Alias[func] = Alias[other] PROVE other = func
    BY <2>3, AliasIs, OperatorsAre
  <2>4. ASSUME Alias[func] = other PROVE other = func
    BY <2>4, AliasIs, OperatorsAre
  <2>5. ASSUME Alias[other] = func PROVE other = func
    BY <2>5, AliasIs, OperatorsAre
  <2> QED BY <2>1, <2>2, <2>3, <2>4, <2>5
<1>3. Alias[func] # "-" /\ func # "-"
  BY AliasIs, OperatorsAre
<1>4. key # "-" => Aliased(func, key)
  BY <1>1 DEF Aliased
<1>5. IsOperator(key)
  BY <1>4 DEF IsOperator
<1>6. key \notin OtherKeys
  BY <1>5, NotOperator
<1>7. key # "-" => Named(key) = func
  BY <1>2, <1>4 DEF Named
<1>8. key = "-" => func \in {"neg", "sub"}
  BY <1>1, <1>3
<1> QED BY <1>5, <1>6, <1>7, <1>8
(* What is built of the one key of an object. *)
LEMMA KeyedIs ==
  ASSUME NEW w, NEW b
  PROVE  /\ CelBuildKeyed("ident", w, b) = EncodeIdent(w)
         /\ CelBuildKeyed("call", w, b) = EncodeCall(w, b)
         /\ CelBuildKeyed("call_expr", w, b) = EncodeCall(w, b)
         /\ CelBuildKeyed("const", w, b) = Literalize(w)
         /\ CelBuildKeyed("const_expr", w, b) = (IF IsTyped(w) THEN TypedConst(SoleKey(w), w.f[SoleKey(w)]) ELSE Bad)
         /\ CelBuildKeyed("select_expr", w, b) = EncodeSelectExpr(w, b)
         /\ CelBuildKeyed("list_expr", w, b) = EncodeListExpr(w, b)
         /\ CelBuildKeyed("ident_expr", w, b) = EncodeIdentExpr(w)
         /\ CelBuildKeyed("struct_expr", w, b) = EncodeStructExpr(w, b)
         /\ CelBuildKeyed("select", w, b) = EncodeSelectExpr(w, b)
         /\ CelBuildKeyed("raw", w, b) = (IF w.k = "source" THEN w.ast ELSE Bad)
<1>1. CelBuildKeyed("ident", w, b) = EncodeIdent(w)
  <2>1. ~IsOperator("ident")
    BY NotOperator DEF OtherKeys
  <2> QED BY <2>1 DEF CelBuildKeyed
<1>2. CelBuildKeyed("call", w, b) = EncodeCall(w, b)
  <2>1. ~IsOperator("call")
    BY NotOperator DEF OtherKeys
  <2> QED BY <2>1 DEF CelBuildKeyed
<1>3. CelBuildKeyed("call_expr", w, b) = EncodeCall(w, b)
  <2>1. ~IsOperator("call_expr")
    BY NotOperator DEF OtherKeys
  <2> QED BY <2>1 DEF CelBuildKeyed
<1>4. CelBuildKeyed("const", w, b) = Literalize(w)
  <2>1. ~IsOperator("const")
    BY NotOperator DEF OtherKeys
  <2> QED BY <2>1 DEF CelBuildKeyed
<1>5. CelBuildKeyed("const_expr", w, b) = (IF IsTyped(w) THEN TypedConst(SoleKey(w), w.f[SoleKey(w)]) ELSE Bad)
  <2>1. ~IsOperator("const_expr")
    BY NotOperator DEF OtherKeys
  <2> QED BY <2>1 DEF CelBuildKeyed
<1>6. CelBuildKeyed("select_expr", w, b) = EncodeSelectExpr(w, b)
  <2>1. ~IsOperator("select_expr")
    BY NotOperator DEF OtherKeys
  <2> QED BY <2>1 DEF CelBuildKeyed
<1>7. CelBuildKeyed("list_expr", w, b) = EncodeListExpr(w, b)
  <2>1. ~IsOperator("list_expr")
    BY NotOperator DEF OtherKeys
  <2> QED BY <2>1 DEF CelBuildKeyed
<1>8. CelBuildKeyed("ident_expr", w, b) = EncodeIdentExpr(w)
  <2>1. ~IsOperator("ident_expr")
    BY NotOperator DEF OtherKeys
  <2> QED BY <2>1 DEF CelBuildKeyed
<1>9. CelBuildKeyed("struct_expr", w, b) = EncodeStructExpr(w, b)
  <2>1. ~IsOperator("struct_expr")
    BY NotOperator DEF OtherKeys
  <2> QED BY <2>1 DEF CelBuildKeyed
<1>10. CelBuildKeyed("select", w, b) = EncodeSelectExpr(w, b)
  <2>1. ~IsOperator("select")
    BY NotOperator DEF OtherKeys
  <2> QED BY <2>1 DEF CelBuildKeyed
<1>11. CelBuildKeyed("raw", w, b) = (IF w.k = "source" THEN w.ast ELSE Bad)
  <2>1. ~IsOperator("raw")
    BY NotOperator DEF OtherKeys
  <2> QED BY <2>1 DEF CelBuildKeyed
<1> QED BY <1>1, <1>2, <1>3, <1>4, <1>5, <1>6, <1>7, <1>8, <1>9, <1>10, <1>11

LEMMA OperatorKeyed ==
  ASSUME NEW key, IsOperator(key), key \notin OtherKeys, NEW w, NEW b
  PROVE  CelBuildKeyed(key, w, b) = CelOperator(key, w, b)
  BY DEF CelBuildKeyed, OtherKeys

(* The trees of the operands of a node, each good. *)
CelKnown(e, k) ==
  /\ Operands(e) /\ DOMAIN k = DOMAIN e.a /\ k = [i \in DOMAIN e.a |-> k[i]]
  /\ \A i \in DOMAIN e.a : CelGood(e.a[i], k[i])

LEMMA ValueKnown ==
  ASSUME NEW e, NEW k, CelKnown(e, k), CelValues(e.a), NEW U, Closed(U), NEW i \in DOMAIN e.a
  PROVE  Makes(U, k[i], e.a[i]) /\ e.a[i] # Bad
<1>1. e.a[i].t \notin {"Pair", "Field"} /\ CelGood(e.a[i], k[i]) /\ CelNode(e.a[i])
  BY DEF CelValues, CelKnown, Operands
<1> QED BY <1>1, CelNodeNotBad DEF CelGood

(* What every notation makes of a constant. *)
LEMMA TypedAgain ==
  ASSUME NEW e, IsNode(e), IsConstant(e), e.t \in ConstantKinds
  PROVE  TypedConst(e.t, e.at["value"]) = e /\ e = Lit(e.t, e.at["value"])
<1>1. IsLiteral(e)
  BY DEF IsConstant
<1>2. e = Lit(e.t, e.at["value"])
  BY <1>1 DEF IsLiteral, HasAttributes, IsNode, Lit
<1> DEFINE v == e.at["value"]
           kind == e.t
<1>3. CASE kind = "null_value"
  <2>1. v = Nil
    BY <1>3 DEF IsConstant
  <2> QED BY <1>2, <1>3, <2>1 DEF TypedConst, HasKind
<1>4. CASE kind # "null_value"
  <2>1. HasKind(kind, v)
    BY <1>4 DEF IsConstant
  <2>2. TypedConst(kind, v) = Lit(kind, v)
    BY <1>4, <2>1 DEF TypedConst
  <2> QED BY <1>2, <2>2
<1> QED BY <1>3, <1>4

LEMMA NodeTyped ==
  ASSUME NEW kind \in ConstantKinds, NEW v
  PROVE  IsTyped(Node(kind, v)) /\ SoleKey(Node(kind, v)) = kind /\ Node(kind, v).f[kind] = v
  BY NodeIs DEF IsTyped

LEMMA LiteralTyped ==
  ASSUME NEW kind \in ConstantKinds, NEW v, HeldBy(v) = {}
  PROVE  Literalize(Node(kind, v)) = TypedConst(kind, v)
<1> DEFINE w == Node(kind, v)
           h == Height(w)
<1>1. Finite(w)
  <2>1. Short(v, 0 + 1)
    BY ShortBelow
  <2>2. HeldBy(w) = {v}
    BY NodeHolds
  <2> HIDE DEF w
  <2>3. Short(w, 1 + 1)
    BY <2>1, <2>2, ShortBelow
  <2> QED BY <2>3 DEF Finite
<1>2. IsTyped(w) /\ SoleKey(w) = kind /\ w.f[kind] = v
  BY NodeTyped
<1> HIDE DEF w
<1>3. h \in Nat /\ h # 0 /\ w \in Parts(w)
  BY <1>1, PartsAre, NeverShortAtOnce
<1> HIDE DEF h
<1>4. h - 1 \in Nat /\ (h - 1) + 1 = h
  BY <1>3
<1> DEFINE b == Literals!Stage(Parts(w))[h - 1]
<1>5. Literals!Stage(Parts(w))[h] = LiteralMore(Parts(w), b)
  <2>1. \A n \in Nat : Literals!Stage(Parts(w))[n + 1] = LiteralMore(Parts(w), Literals!Stage(Parts(w))[n])
    BY NumbersHaveLeast, Literals!StageIs
  <2> QED BY <1>4, <2>1
<1> HIDE DEF b
<1>6. LiteralMore(Parts(w), b)[w] = LiteralNode(w, b)
  BY <1>3 DEF LiteralMore
<1>7. LiteralNode(w, b) = TypedConst(kind, v)
  <2>1. w.k = "obj"
    BY NodeIs DEF w
  <2> QED BY <1>2, <2>1 DEF LiteralNode
<1>8. Literalize(w) = Literals!Stage(Parts(w))[h][w]
  BY DEF Literalize, h
<1> QED BY <1>5, <1>6, <1>7, <1>8 DEF w

LEMMA CelConstant ==
  ASSUME NEW nt, NEW e, IsNode(e), CelNode(e), e.t \in ConstantKinds, NEW U, Closed(U)
  PROVE  Makes(U, ConstNode(nt, e), e)
<1> DEFINE kind == e.t
           v == e.at["value"]
<1>1. IsConstant(e)
  BY DEF CelNode, ConstantKinds
<1>2. TypedConst(kind, v) = e /\ e = Lit(kind, v)
  BY <1>1, TypedAgain
<1>3. CASE kind = "bytes_value"
  <2>1. ConstNode(nt, e) = Node("raw", Source(e))
    BY <1>3 DEF ConstNode
  <2>2. ASSUME NEW b PROVE CelBuildKeyed("raw", Source(e), b) = e
    BY KeyedIs DEF Source
  <2> QED BY <2>1, <2>2, KeyMakes
<1>4. CASE kind # "bytes_value" /\ nt = "canonical"
  <2>1. ConstNode(nt, e) = Node("const_expr", Node(kind, v))
    BY <1>4 DEF ConstNode
  <2>2. IsTyped(Node(kind, v)) /\ SoleKey(Node(kind, v)) = kind /\ Node(kind, v).f[kind] = v
    BY NodeTyped
  <2> DEFINE w == Node(kind, v)
  <2>3. IsTyped(w) /\ TypedConst(SoleKey(w), w.f[SoleKey(w)]) = e
    BY <1>2, <2>2
  <2> HIDE DEF w
  <2>4. ASSUME NEW b PROVE CelBuildKeyed("const_expr", w, b) = e
    BY <2>3, KeyedIs
  <2>5. Makes(U, Node("const_expr", w), e)
    BY <2>4, KeyMakes
  <2> QED BY <2>1, <2>5 DEF w
<1>5. CASE nt # "canonical" /\ kind \in {"uint64_value", "double_value"}
  <2>1. ConstNode(nt, e) = Node("const", Node(kind, v))
    BY <1>5 DEF ConstNode
  <2>2. v.k = "num"
    BY <1>1, <1>5 DEF IsConstant, HasKind
  <2>3. HeldBy(v) = {}
    BY <2>2 DEF HeldBy, Held
  <2>4. Literalize(Node(kind, v)) = e
    BY <1>2, <2>3, LiteralTyped
  <2>5. ASSUME NEW b PROVE CelBuildKeyed("const", Node(kind, v), b) = e
    BY <2>4, KeyedIs
  <2> DEFINE w == Node(kind, v)
  <2>6. \A b : CelBuildKeyed("const", w, b) = e
    BY <2>5
  <2> HIDE DEF w
  <2>7. Makes(U, Node("const", w), e)
    BY <2>6, KeyMakes
  <2> QED BY <2>1, <2>7 DEF w
<1>6. CASE nt # "canonical" /\ kind \in {"null_value", "bool_value", "int64_value", "string_value"}
  <2>1. ConstNode(nt, e) = v
    BY <1>6 DEF ConstNode
  <2>2. \/ kind = "null_value" /\ v = Nil
        \/ kind = "bool_value" /\ v.k = "bool"
        \/ kind = "int64_value" /\ v.k = "num" /\ InInt64(v)
        \/ kind = "string_value" /\ v.k = "str"
    BY <1>1, <1>6 DEF IsConstant, HasKind
  <2>3. v.k \in {"nil", "bool", "num", "str"}
    BY <2>2 DEF Nil
  <2>4. CelScalar(v) = Lit(kind, v)
    <3>1. CASE kind = "null_value"
      BY <2>2, <3>1 DEF CelScalar, Nil
    <3>2. CASE kind = "bool_value"
      BY <2>2, <3>2 DEF CelScalar
    <3>3. CASE kind = "string_value"
      BY <2>2, <3>3 DEF CelScalar
    <3>4. CASE kind = "int64_value"
      <4>1. v.k = "num" /\ InInt64(v)
        BY <2>2, <3>4
      <4>2. CelNumber(v) = Lit("int64_value", v)
        BY <4>1 DEF CelNumber, InInt64
      <4> QED BY <3>4, <4>1, <4>2 DEF CelScalar
    <3> QED BY <1>6, <3>1, <3>2, <3>3, <3>4
  <2> HIDE DEF v
  <2>5. ASSUME NEW b PROVE CelBuildNode(v, b) = e
    BY <1>2, <2>3, <2>4 DEF CelBuildNode, Sole
  <2>6. Makes(U, v, e)
    BY <2>5, MakesBy
  <2> QED BY <2>1, <2>6
<1> QED BY <1>3, <1>4, <1>5, <1>6 DEF ConstantKinds

LEMMA CelIdent ==
  ASSUME NEW nt, NEW e, IsNode(e), CelNode(e), e.t = "Ident", NEW k, NEW U, Closed(U)
  PROVE  Makes(U, CelTreeNode(nt, e, k), e)
<1> DEFINE name == e.at["name"]
<1>1. HasAttributes(e, {"name"}) /\ name.k = "str" /\ e.a = <<>>
  <2>1. e.t \notin ConstantKinds
    BY Zenon DEF ConstantKinds
  <2> QED BY <2>1 DEF CelNode, IsStr
<1>2. Ident(name) = e
  <2>1. e = Ast(e.t, e.at, e.a) /\ e.at = [y \in {"name"} |-> e.at[y]]
    BY <1>1, Zenon DEF HasAttributes, IsNode
  <2>2. [y \in {"name"} |-> e.at[y]] = [y \in {"name"} |-> name]
    OBVIOUS
  <2> QED BY <1>1, <2>1, <2>2, Zenon DEF Ident
<1> HIDE DEF name
<1>3. CASE nt = "canonical"
  <2>1. CelTreeNode(nt, e, k) = Node("ident_expr", Node("name", name))
    BY <1>3 DEF CelTreeNode, ConstantKinds, name
  <2> DEFINE w == Node("name", name)
  <2>2. w.k = "obj" /\ Has(w.f, "name") /\ w.f["name"] = name
    <3>1. /\ Node("name", name).k = "obj" /\ Node("name", name).f = [x \in {"name"} |-> name]
      BY DEF Node, Obj
    <3>2. w.k = "obj" /\ w.f = [x \in {"name"} |-> name]
      BY <3>1
    <3> QED BY <3>2 DEF Has
  <2> HIDE DEF w
  <2>3. EncodeIdentExpr(w) = e
    BY <1>1, <1>2, <2>2 DEF EncodeIdentExpr
  <2>4. ASSUME NEW b PROVE CelBuildKeyed("ident_expr", w, b) = e
    BY <2>3, KeyedIs
  <2>5. Makes(U, Node("ident_expr", w), e)
    BY <2>4, KeyMakes
  <2> QED BY <2>1, <2>5 DEF w
<1>4. CASE nt # "canonical"
  <2>1. CelTreeNode(nt, e, k) = Node("ident", name)
    BY <1>4 DEF CelTreeNode, ConstantKinds, name
  <2>2. EncodeIdent(name) = e
    BY <1>1, <1>2 DEF EncodeIdent
  <2>3. ASSUME NEW b PROVE CelBuildKeyed("ident", name, b) = e
    BY <2>2, KeyedIs
  <2> QED BY <2>1, <2>3, KeyMakes
<1> QED BY <1>3, <1>4

(* A reference is the text of itself. *)
LEMMA ReferenceMakes ==
  ASSUME NEW e, IsReference(e), NEW U, Closed(U)
  PROVE  Makes(U, Node("ident", Source(e)), e)
<1>1. Source(e).k = "source" /\ Source(e).ast = e
  BY DEF Source
<1>2. EncodeIdent(Source(e)) = e
  BY <1>1 DEF EncodeIdent
<1>3. ASSUME NEW b PROVE CelBuildKeyed("ident", Source(e), b) = e
  BY <1>2, KeyedIs
<1> QED BY <1>3, KeyMakes

SelectOf(field, test, x) == Ast("Select", [field |-> field, test_only |-> test], <<x>>)

LEMMA OfOne ==
  ASSUME NEW t, NEW at, NEW x, x # Bad
  PROVE  Of(t, at, <<x>>) = Ast(t, at, <<x>>)
  BY DEF Of

(* A select, read back from what is written of it. *)
LEMMA SelectMakes ==
  ASSUME NEW nt, NEW field, field.k = "str", NEW test, IsBool(test), NEW x, x # Bad,
         NEW U, Closed(U), NEW k, Makes(U, k[1], x)
  PROVE  Makes(U, SelectTree(nt, SelectOf(field, test, x), k), SelectOf(field, test, x))
<1> DEFINE e == SelectOf(field, test, x)
           g == [operand |-> k[1], field |-> field, test_only |-> test]
           u == [z \in {"test_only"} |-> Bool(FALSE)]
           f == Written(g, u)
<1>1. e.at["field"] = field /\ e.at["test_only"] = test
  BY DEF SelectOf, Ast
<1>2. CASE nt # "canonical" /\ IsReference(e)
  <2>1. SelectTree(nt, e, k) = Node("ident", Source(e))
    BY <1>2 DEF SelectTree
  <2> HIDE DEF e
  <2>2. Makes(U, Node("ident", Source(e)), e)
    BY <1>2, ReferenceMakes
  <2> QED BY <2>1, <2>2 DEF e
<1>3. CASE ~(nt # "canonical" /\ IsReference(e))
  <2>1. SelectTree(nt, e, k) = Node("select_expr", Obj(f))
    <3> HIDE DEF e
    <3> QED BY <1>1, <1>3 DEF SelectTree
  <2>2. \A z \in DOMAIN g : \/ z \in DOMAIN f /\ f[z] = g[z] /\ (z \in DOMAIN u => g[z] # u[z])
                            \/ z \notin DOMAIN f /\ z \in DOMAIN u /\ g[z] = u[z]
    <3> SUFFICES ASSUME NEW z \in DOMAIN g
                 PROVE  \/ z \in DOMAIN f /\ f[z] = g[z] /\ (z \in DOMAIN u => g[z] # u[z])
                        \/ z \notin DOMAIN f /\ z \in DOMAIN u /\ g[z] = u[z]
      OBVIOUS
    <3> HIDE DEF g, u
    <3> QED BY WrittenHas
  <2>3. /\ DOMAIN g = {"operand", "field", "test_only"} /\ DOMAIN u = {"test_only"} /\ u["test_only"] = Bool(FALSE)
        /\ g["operand"] = k[1] /\ g["field"] = field /\ g["test_only"] = test
    OBVIOUS
  <2> HIDE DEF f, g, u
  <2>4. "operand" \in DOMAIN f /\ f["operand"] = k[1] /\ "field" \in DOMAIN f /\ f["field"] = field
    BY <2>2, <2>3
  <2>5. Bool(Has(f, "test_only") /\ f["test_only"] = Bool(TRUE)) = test
    <3>1. CASE test = Bool(FALSE)
      <4>1. "test_only" \notin DOMAIN f
        BY <2>2, <2>3, <3>1
      <4> QED BY <3>1, <4>1 DEF Has
    <3>2. CASE test # Bool(FALSE)
      <4>1. test = Bool(TRUE)
        BY <3>2 DEF IsBool
      <4>2. "test_only" \in DOMAIN f /\ f["test_only"] = test
        BY <2>2, <2>3, <3>2
      <4> QED BY <4>1, <4>2 DEF Has
    <3> QED BY <3>1, <3>2
  <2>6. ASSUME NEW b, NEW C, Knows(U, b, C), Obj(f) \in C
        PROVE  CelBuildKeyed("select_expr", Obj(f), b) = e
    <3>1. k[1] \in C
      BY <2>4, <2>6, ObjWithin DEF Knows
    <3>2. b[k[1]] = x
      BY <2>6, <3>1, KnownIs
    <3>3. Obj(f).k = "obj" /\ Obj(f).f = f
      BY ObjIs
    <3>4. EncodeSelectExpr(Obj(f), b) = Of("Select", [field |-> field, test_only |-> test], <<x>>)
      BY <2>4, <2>5, <3>2, <3>3 DEF EncodeSelectExpr
    <3>5. EncodeSelectExpr(Obj(f), b) = e
      BY <3>4, OfOne DEF SelectOf
    <3> QED BY <3>5, KeyedIs
  <2> HIDE DEF e
  <2>7. Makes(U, Node("select_expr", Obj(f)), e)
    BY <2>6, KeyMakes
  <2> QED BY <2>1, <2>7 DEF e
<1> QED BY <1>2, <1>3

(* The test of a field is the call of a macro outside the canonical form. *)
LEMMA CelSelectMade ==
  ASSUME NEW nt, NEW e, IsNode(e), CelNode(e), e.t = "Select", NEW k, CelKnown(e, k), NEW U, Closed(U)
  PROVE  Makes(U, CelTreeNode(nt, e, k), e)
<1> DEFINE field == e.at["field"]
           test == e.at["test_only"]
           x == e.a[1]
<1>1. /\ HasAttributes(e, {"field", "test_only"}) /\ field.k = "str" /\ IsBool(test)
      /\ Len(e.a) = 1 /\ CelValues(e.a)
  BY DEF CelNode, IsStr, ConstantKinds
<1>2. DOMAIN e.a = 1 .. 1 /\ e.a = [i \in 1 .. 1 |-> e.a[i]]
  BY <1>1, OperandsAre
<1>3. e.a = <<x>> /\ 1 \in DOMAIN e.a
  BY <1>2
<1>4. x # Bad /\ Makes(U, k[1], x)
  BY <1>1, <1>3, ValueKnown
<1>5. e.at = [field |-> field, test_only |-> test]
  BY <1>1 DEF HasAttributes
<1>6. e = SelectOf(field, test, x)
  <2>1. e = Ast("Select", e.at, e.a)
    BY DEF IsNode
  <2> QED BY <1>3, <1>5, <2>1 DEF SelectOf
<1>7. CelTreeNode(nt, e, k) = CelSelect(nt, e, k)
  BY DEF CelTreeNode, ConstantKinds
<1>8. CASE ~(test = Bool(TRUE) /\ nt # "canonical")
  <2>1. CelSelect(nt, e, k) = SelectTree(nt, e, k)
    BY <1>8 DEF CelSelect
  <2> HIDE DEF field, test, x
  <2>2. Makes(U, SelectTree(nt, SelectOf(field, test, x), k), SelectOf(field, test, x))
    BY <1>1, <1>4, SelectMakes
  <2> QED BY <1>6, <1>7, <2>1, <2>2
<1>9. CASE test = Bool(TRUE) /\ nt # "canonical"
  <2> DEFINE whole == SelectOf(field, Bool(FALSE), x)
             t == SelectTree(nt, whole, k)
             f == [function |-> Name("has"), args |-> List(<<t>>)]
  <2>1. CelSelect(nt, e, k) = Node("call", Obj(f))
    <3>1. whole = Ast("Select", [field |-> e.at["field"], test_only |-> Bool(FALSE)], e.a)
      BY <1>3 DEF SelectOf
    <3> HIDE DEF whole
    <3> QED BY <1>9, <3>1 DEF CelSelect
  <2> HIDE DEF field, x
  <2>2. Makes(U, t, whole)
    <3>1. IsBool(Bool(FALSE))
      BY DEF IsBool
    <3> QED BY <1>1, <1>4, <3>1, SelectMakes
  <2>3. whole.t = "Select" /\ whole.at["field"] = field /\ whole.a = <<x>> /\ whole # Bad
    BY DEF SelectOf, Ast, Bad
  <2>4. Tested(whole) = e
    <3>1. Tested(whole) = Ast("Select", [field |-> field, test_only |-> Bool(TRUE)], <<x>>)
      BY <2>3 DEF Tested
    <3> QED BY <1>6, <1>9, <3>1 DEF SelectOf
  <2> HIDE DEF whole, t
  <2>5. DOMAIN f = {"function", "args"} /\ f["function"] = Name("has") /\ f["args"] = List(<<t>>)
    OBVIOUS
  <2> HIDE DEF f
  <2>6. ASSUME NEW b, NEW C, Knows(U, b, C), Obj(f) \in C
        PROVE  CelBuildKeyed("call", Obj(f), b) = e
    <3>1. List(<<t>>) \in C /\ Closed(C)
      BY <2>5, <2>6, ObjWithin DEF Knows
    <3>2. t \in C
      <4> DEFINE s == <<t>>
      <4>1. 1 \in DOMAIN s /\ s[1] = t /\ List(s) \in C
        BY <3>1
      <4> HIDE DEF s
      <4> QED BY <3>1, <4>1, ListWithin
    <3>3. b[t] = whole
      BY <2>2, <2>6, <3>2, KnownIs
    <3>4. BuildList(<<t>>, b) = <<whole>>
      BY <3>3 DEF BuildList
    <3>5. Obj(f).k = "obj" /\ Obj(f).f = f
      BY ObjIs
    <3>6. List(<<t>>).k = "list" /\ List(<<t>>).e = <<t>> /\ Name("has").k = "str"
      BY DEF List, Name, Str
    <3>7. EncodeCall(Obj(f), b) = ParsedCall(Name("has"), <<whole>>)
      BY <2>5, <3>4, <3>5, <3>6 DEF EncodeCall, Only, Has
    <3>8. ParsedCall(Name("has"), <<whole>>) = Tested(whole)
      <4> DEFINE a == <<whole>>
                 func == Name("has")
      <4>1. /\ Len(a) = 1 /\ a[1] = whole /\ DOMAIN a = {1}
        OBVIOUS
      <4>2. \A i \in DOMAIN a : a[i] # Bad
        BY <2>3, <4>1
      <4>3. ~(IsToken(func, Variadic) /\ Len(a) = 2)
        BY <4>1
      <4> HIDE DEF a, func
      <4>4. func = Name("has")
        BY DEF func
      <4>5. ParsedCall(func, a) = Tested(a[1])
        BY <2>3, <4>1, <4>2, <4>3, <4>4 DEF ParsedCall
      <4> QED BY <4>1, <4>5 DEF a, func
    <3> QED BY <2>4, <3>7, <3>8, KeyedIs
  <2>7. Makes(U, Node("call", Obj(f)), e)
    BY <2>6, KeyMakes
  <2> QED BY <1>7, <2>1, <2>7
<1> QED BY <1>8, <1>9

(* A mark that is written when it is set. *)
LEMMA MarkRead ==
  ASSUME NEW f, NEW key, NEW mark, IsBool(mark),
         (key \in DOMAIN f /\ f[key] = mark /\ mark # Bool(FALSE)) \/ (key \notin DOMAIN f /\ mark = Bool(FALSE))
  PROVE  Bool(Has(f, key) /\ f[key] = Bool(TRUE)) = mark
<1>1. CASE mark = Bool(FALSE)
  BY <1>1 DEF Has
<1>2. CASE mark # Bool(FALSE)
  BY <1>2 DEF Has, IsBool
<1> QED BY <1>1, <1>2

OneMark(key) == [x \in {key} |-> Bool(FALSE)]
MarkIs(f, g, key) ==
  /\ (key \in DOMAIN f /\ f[key] = g[key] /\ g[key] # Bool(FALSE)) \/ (key \notin DOMAIN f /\ g[key] = Bool(FALSE))
  /\ \A y \in DOMAIN g : y # key => y \in DOMAIN f /\ f[y] = g[y]

LEMMA MarkWritten ==
  ASSUME NEW g, NEW key, key \in DOMAIN g
  PROVE  MarkIs(Written(g, OneMark(key)), g, key)
<1> DEFINE u == OneMark(key)
           f == Written(g, u)
<1>1. \A y \in DOMAIN g : \/ y \in DOMAIN f /\ f[y] = g[y] /\ (y \in DOMAIN u => g[y] # u[y])
                          \/ y \notin DOMAIN f /\ y \in DOMAIN u /\ g[y] = u[y]
  BY WrittenHas
<1>2. DOMAIN u = {key} /\ u[key] = Bool(FALSE)
  BY DEF OneMark
<1> HIDE DEF f, u
<1>3. MarkIs(f, g, key)
  BY <1>1, <1>2 DEF MarkIs
<1> QED BY <1>3 DEF f, u

LEMMA CelPair ==
  ASSUME NEW nt, NEW e, IsNode(e), CelNode(e), e.t = "Pair", NEW k, CelKnown(e, k), NEW U, Closed(U),
         NEW b, NEW C, Knows(U, b, C), CelTreeNode(nt, e, k) \in C
  PROVE  CelEntry(CelTreeNode(nt, e, k), b) = e
<1> DEFINE mark == e.at["optional"]
           g == [map_key |-> k[1], value |-> k[2], optional_entry |-> mark]
           f == Written(g, OneMark("optional_entry"))
<1>1. CelTreeNode(nt, e, k) = Obj(f)
  BY DEF CelTreeNode, ConstantKinds, Marked, OneMark
<1>2. HasAttributes(e, {"optional"}) /\ IsBool(mark) /\ Len(e.a) = 2 /\ CelValues(e.a)
  BY DEF CelNode, ConstantKinds
<1>3. DOMAIN e.a = 1 .. 2 /\ e.a = [i \in 1 .. 2 |-> e.a[i]]
  BY <1>2, OperandsAre
<1>4. /\ DOMAIN g = {"map_key", "value", "optional_entry"} /\ g["map_key"] = k[1] /\ g["value"] = k[2]
      /\ g["optional_entry"] = mark
  OBVIOUS
<1>5. DOMAIN f \subseteq DOMAIN g
  BY WrittenWithin
<1>6. Makes(U, k[1], e.a[1]) /\ Makes(U, k[2], e.a[2]) /\ e.a[1] # Bad /\ e.a[2] # Bad
  BY <1>2, <1>3, ValueKnown
<1> HIDE DEF g, mark
<1>7. /\ \/ "optional_entry" \in DOMAIN f /\ f["optional_entry"] = mark /\ mark # Bool(FALSE)
         \/ "optional_entry" \notin DOMAIN f /\ mark = Bool(FALSE)
      /\ \A y \in DOMAIN g : y # "optional_entry" => y \in DOMAIN f /\ f[y] = g[y]
  <2>1. "optional_entry" \in DOMAIN g
    BY <1>4
  <2>2. MarkIs(f, g, "optional_entry")
    BY <2>1, MarkWritten
  <2> HIDE DEF f
  <2> QED BY <1>4, <2>2 DEF MarkIs
<1> HIDE DEF f
<1>8. "map_key" \in DOMAIN f /\ f["map_key"] = k[1] /\ "value" \in DOMAIN f /\ f["value"] = k[2]
  BY <1>4, <1>7
<1>9. k[1] \in C /\ k[2] \in C
  BY <1>1, <1>8, ObjWithin DEF Knows
<1>10. b[k[1]] = e.a[1] /\ b[k[2]] = e.a[2]
  BY <1>6, <1>9, KnownIs
<1>11. Bool(Has(f, "optional_entry") /\ f["optional_entry"] = Bool(TRUE)) = mark
  BY <1>2, <1>7, MarkRead
<1>12. "field_key" \notin DOMAIN f
  BY <1>4, <1>5
<1>13. Obj(f).k = "obj" /\ Obj(f).f = f
  BY ObjIs
<1>14. CelEntry(Obj(f), b) = Of("Pair", [x \in {"optional"} |-> mark], <<e.a[1], e.a[2]>>)
  <2>1. Has(f, "value") /\ Has(f, "map_key") /\ ~Has(f, "field_key")
    BY <1>8, <1>12 DEF Has
  <2> QED BY <1>8, <1>10, <1>11, <1>13, <2>1 DEF CelEntry
<1>15. Of("Pair", [x \in {"optional"} |-> mark], <<e.a[1], e.a[2]>>) = Ast("Pair", [x \in {"optional"} |-> mark], <<e.a[1], e.a[2]>>)
  BY <1>6 DEF Of
<1>16. e = Ast("Pair", e.at, e.a)
  BY DEF IsNode
<1>17. [x \in {"optional"} |-> mark] = e.at /\ <<e.a[1], e.a[2]>> = e.a
  BY <1>2, <1>3 DEF HasAttributes, mark
<1> QED BY <1>1, <1>14, <1>15, <1>16, <1>17

LEMMA CelField ==
  ASSUME NEW nt, NEW e, IsNode(e), CelNode(e), e.t = "Field", NEW k, CelKnown(e, k), NEW U, Closed(U),
         NEW b, NEW C, Knows(U, b, C), CelTreeNode(nt, e, k) \in C
  PROVE  CelEntry(CelTreeNode(nt, e, k), b) = e
<1> DEFINE mark == e.at["optional"]
           name == e.at["name"]
           g == [field_key |-> name, value |-> k[1], optional_entry |-> mark]
           f == Written(g, OneMark("optional_entry"))
<1>1. CelTreeNode(nt, e, k) = Obj(f)
  BY DEF CelTreeNode, ConstantKinds, Marked, OneMark
<1>2. HasAttributes(e, {"name", "optional"}) /\ name.k = "str" /\ IsBool(mark) /\ Len(e.a) = 1 /\ CelValues(e.a)
  BY DEF CelNode, ConstantKinds, IsStr
<1>3. DOMAIN e.a = 1 .. 1 /\ e.a = [i \in 1 .. 1 |-> e.a[i]]
  BY <1>2, OperandsAre
<1>4. /\ DOMAIN g = {"field_key", "value", "optional_entry"} /\ g["field_key"] = name /\ g["value"] = k[1]
      /\ g["optional_entry"] = mark
  OBVIOUS
<1>5. Makes(U, k[1], e.a[1]) /\ e.a[1] # Bad
  BY <1>2, <1>3, ValueKnown
<1>6. [name |-> name, optional |-> mark] = e.at
  BY <1>2 DEF HasAttributes
<1> HIDE DEF g, mark, name
<1>7. /\ \/ "optional_entry" \in DOMAIN f /\ f["optional_entry"] = mark /\ mark # Bool(FALSE)
         \/ "optional_entry" \notin DOMAIN f /\ mark = Bool(FALSE)
      /\ \A y \in DOMAIN g : y # "optional_entry" => y \in DOMAIN f /\ f[y] = g[y]
  <2>1. "optional_entry" \in DOMAIN g
    BY <1>4
  <2>2. MarkIs(f, g, "optional_entry")
    BY <2>1, MarkWritten
  <2> HIDE DEF f
  <2> QED BY <1>4, <2>2 DEF MarkIs
<1> HIDE DEF f
<1>8. "field_key" \in DOMAIN f /\ f["field_key"] = name /\ "value" \in DOMAIN f /\ f["value"] = k[1]
  BY <1>4, <1>7
<1>9. k[1] \in C
  BY <1>1, <1>8, ObjWithin DEF Knows
<1>10. b[k[1]] = e.a[1]
  BY <1>5, <1>9, KnownIs
<1>11. Bool(Has(f, "optional_entry") /\ f["optional_entry"] = Bool(TRUE)) = mark
  BY <1>2, <1>7, MarkRead
<1>12. Obj(f).k = "obj" /\ Obj(f).f = f
  BY ObjIs
<1>13. CelEntry(Obj(f), b) = Of("Field", [name |-> name, optional |-> mark], <<e.a[1]>>)
  <2>1. Has(f, "value") /\ Has(f, "field_key")
    BY <1>8 DEF Has
  <2> QED BY <1>2, <1>8, <1>10, <1>11, <1>12, <2>1 DEF CelEntry
<1>14. e = Ast("Field", e.at, e.a) /\ <<e.a[1]>> = e.a
  BY <1>3 DEF IsNode
<1> QED BY <1>1, <1>5, <1>6, <1>13, <1>14, OfOne

(* The entries of a map or a message. *)
LEMMA EntriesRead ==
  ASSUME NEW e, IsNode(e), NEW k, CelKnown(e, k), NEW U, Closed(U), NEW kind \in {"Pair", "Field"},
         \A i \in DOMAIN e.a : e.a[i].t = kind, NEW b, NEW C, Knows(U, b, C), List(k) \in C
  PROVE  /\ [i \in DOMAIN k |-> CelEntry(k[i], b)] = e.a
         /\ {e.a[i].t : i \in DOMAIN e.a} \subseteq {kind}
         /\ \A i \in DOMAIN e.a : e.a[i] # Bad
<1>1. ASSUME NEW i \in DOMAIN e.a PROVE CelEntry(k[i], b) = e.a[i] /\ e.a[i] # Bad
  <2>1. k[i] \in C /\ CelGood(e.a[i], k[i]) /\ e.a[i].t \in {"Pair", "Field"}
    BY ListWithin DEF Knows, CelKnown
  <2>2. e.a[i] # Bad
    BY CelNodeNotBad DEF CelKnown, Operands
  <2> QED BY <2>1, <2>2 DEF CelGood
<1>2. e.a = [i \in DOMAIN e.a |-> e.a[i]]
  BY OperandsAre
<1>3. DOMAIN k = DOMAIN e.a
  BY DEF CelKnown
<1> QED BY <1>1, <1>2, <1>3

LEMMA OfAll ==
  ASSUME NEW t, NEW at, NEW a, \A i \in DOMAIN a : a[i] # Bad
  PROVE  Of(t, at, a) = Ast(t, at, a)
  BY DEF Of

LEMMA CelMap ==
  ASSUME NEW nt, NEW e, IsNode(e), CelNode(e), e.t = "Map", NEW k, CelKnown(e, k), NEW U, Closed(U)
  PROVE  Makes(U, CelTreeNode(nt, e, k), e)
<1>1. e.at = NoFields /\ \A i \in DOMAIN e.a : e.a[i].t = "Pair"
  BY DEF CelNode, ConstantKinds
<1> DEFINE w == Node("entries", List(k))
<1>2. CelTreeNode(nt, e, k) = Node("struct_expr", w)
  BY DEF CelTreeNode, ConstantKinds
<1> DEFINE f == [x \in {"entries"} |-> List(k)]
<1>3. w = Obj(f) /\ HeldBy(w) = {List(k)} /\ DOMAIN f = {"entries"} /\ f["entries"] = List(k)
  BY NodeHolds DEF Node
<1> HIDE DEF w, f
<1>4. List(k).k = "list" /\ List(k).e = k
  BY ListIs
<1>a. Obj(f).k = "obj" /\ Obj(f).f = f
  BY ObjIs
<1>5. ASSUME NEW b, NEW C, Knows(U, b, C), w \in C
      PROVE  CelBuildKeyed("struct_expr", w, b) = e
  <2>1. List(k) \in C
    BY <1>3, <1>5 DEF Knows, Closed
  <2>2. /\ [i \in DOMAIN k |-> CelEntry(k[i], b)] = e.a
        /\ {e.a[i].t : i \in DOMAIN e.a} \subseteq {"Pair"}
        /\ \A i \in DOMAIN e.a : e.a[i] # Bad
    BY <1>1, <1>5, <2>1, EntriesRead
  <2>3. Has(f, "entries") /\ NameOf(f, "message_name") = EmptyName
    BY <1>3 DEF Has, NameOf
  <2>4. EncodeStructExpr(Obj(f), b) = Of("Map", NoFields, e.a)
    <3>1. CASE {e.a[i].t : i \in DOMAIN e.a} = {"Pair"}
      BY <1>3, <1>4, <1>a, <2>2, <2>3, <3>1 DEF EncodeStructExpr
    <3>2. CASE {e.a[i].t : i \in DOMAIN e.a} = {}
      <4>1. DOMAIN e.a = {} /\ DOMAIN k = {}
        BY <3>2 DEF CelKnown
      <4> DEFINE c == [i \in DOMAIN k |-> CelEntry(k[i], b)]
      <4>2. c = e.a
        BY <2>2
      <4>3. {c[i].t : i \in DOMAIN k} = {}
        BY <4>1
      <4> QED BY <1>3, <1>4, <1>a, <2>2, <2>3, <4>1, <4>2, <4>3 DEF EncodeStructExpr
    <3> QED BY <2>2, <3>1, <3>2
  <2>5. Of("Map", NoFields, e.a) = Ast("Map", NoFields, e.a)
    BY <2>2, OfAll
  <2>6. e = Ast("Map", NoFields, e.a)
    BY <1>1 DEF IsNode
  <2> QED BY <1>3, <2>4, <2>5, <2>6, KeyedIs
<1>6. Makes(U, Node("struct_expr", w), e)
  BY <1>5, KeyMakes
<1> QED BY <1>2, <1>6

LEMMA CelStruct ==
  ASSUME NEW nt, NEW e, IsNode(e), CelNode(e), e.t = "Struct", NEW k, CelKnown(e, k), NEW U, Closed(U)
  PROVE  Makes(U, CelTreeNode(nt, e, k), e)
<1> DEFINE name == e.at["name"]
           f == [entries |-> List(k), message_name |-> name]
<1>1. HasAttributes(e, {"name"}) /\ name.k = "str" /\ name # EmptyName /\ \A i \in DOMAIN e.a : e.a[i].t = "Field"
  BY DEF CelNode, ConstantKinds, IsStr
<1>2. CelTreeNode(nt, e, k) = Node("struct_expr", Obj(f))
  BY DEF CelTreeNode, ConstantKinds
<1>3. [x \in {"name"} |-> name] = e.at
  BY <1>1 DEF HasAttributes
<1>4. DOMAIN f = {"entries", "message_name"} /\ f["entries"] = List(k) /\ f["message_name"] = name
  OBVIOUS
<1> HIDE DEF f, name
<1>5. List(k).k = "list" /\ List(k).e = k /\ Obj(f).k = "obj" /\ Obj(f).f = f
  BY ListIs, ObjIs
<1>6. ASSUME NEW b, NEW C, Knows(U, b, C), Obj(f) \in C
      PROVE  CelBuildKeyed("struct_expr", Obj(f), b) = e
  <2>1. List(k) \in C
    BY <1>4, <1>6, ObjWithin DEF Knows
  <2>2. /\ [i \in DOMAIN k |-> CelEntry(k[i], b)] = e.a
        /\ {e.a[i].t : i \in DOMAIN e.a} \subseteq {"Field"}
        /\ \A i \in DOMAIN e.a : e.a[i] # Bad
    BY <1>1, <1>6, <2>1, EntriesRead
  <2>3. Has(f, "entries") /\ NameOf(f, "message_name") = name
    BY <1>1, <1>4 DEF Has, NameOf
  <2>4. EncodeStructExpr(Obj(f), b) = Of("Struct", [x \in {"name"} |-> name], e.a)
    BY <1>1, <1>4, <1>5, <2>2, <2>3 DEF EncodeStructExpr
  <2>5. Of("Struct", e.at, e.a) = Ast("Struct", e.at, e.a)
    BY <2>2, OfAll
  <2>6. e = Ast("Struct", e.at, e.a)
    BY DEF IsNode
  <2> QED BY <1>3, <2>4, <2>5, <2>6, KeyedIs
<1>7. Makes(U, Node("struct_expr", Obj(f)), e)
  BY <1>6, KeyMakes
<1> QED BY <1>2, <1>7

(* The marks of a list are those of its optional elements. *)
MarksAre(e, s, marked, b) ==
  /\ DOMAIN s = DOMAIN e.a
  /\ \A i \in DOMAIN e.a :
       /\ (i \in marked \/ IsOptional(s[i])) <=> e.at["optional"].e[i] = Bool(TRUE)
       /\ b[IF i \notin marked /\ IsOptional(s[i]) THEN s[i].f["optional"] ELSE s[i]] = e.a[i]

LEMMA ListEncoded ==
  ASSUME NEW e, IsNode(e), CelNode(e), e.t = "List", Operands(e), NEW s, NEW marked, NEW b,
         MarksAre(e, s, marked, b)
  PROVE  EncodeList(s, marked, b) = e
<1>0. /\ DOMAIN s = DOMAIN e.a
      /\ \A i \in DOMAIN e.a :
           /\ (i \in marked \/ IsOptional(s[i])) <=> e.at["optional"].e[i] = Bool(TRUE)
           /\ b[IF i \notin marked /\ IsOptional(s[i]) THEN s[i].f["optional"] ELSE s[i]] = e.a[i]
  BY DEF MarksAre
<1> DEFINE o == e.at["optional"].e
           marks == [i \in DOMAIN s |-> Bool(i \in marked \/ IsOptional(s[i]))]
           c == [i \in DOMAIN s |-> b[IF i \notin marked /\ IsOptional(s[i]) THEN s[i].f["optional"] ELSE s[i]]]
<1>1. /\ HasAttributes(e, {"optional"}) /\ e.at["optional"] = List(o) /\ IsSequence(o) /\ Len(o) = Len(e.a)
      /\ \A i \in DOMAIN e.a : IsBool(o[i])
  BY DEF CelNode, ConstantKinds
<1>2. Len(e.a) \in Nat /\ DOMAIN e.a = 1 .. Len(e.a) /\ e.a = [i \in DOMAIN e.a |-> e.a[i]]
  BY OperandsAre
<1>3. c = e.a
  <2>1. \A i \in DOMAIN e.a : c[i] = e.a[i]
    BY <1>0
  <2>2. c = [i \in DOMAIN e.a |-> c[i]]
    BY <1>0
  <2> HIDE DEF c
  <2> QED BY <1>2, <2>1, <2>2
<1>4. marks = o
  <2>1. o = [i \in DOMAIN e.a |-> o[i]]
    BY <1>1, <1>2 DEF IsSequence
  <2>2. ASSUME NEW i \in DOMAIN e.a PROVE Bool(i \in marked \/ IsOptional(s[i])) = o[i]
    <3>1. CASE o[i] = Bool(TRUE)
      <4>1. i \in marked \/ IsOptional(s[i])
        BY <1>0, <3>1
      <4> QED BY <3>1, <4>1
    <3>2. CASE o[i] # Bool(TRUE)
      <4>1. o[i] = Bool(FALSE)
        BY <1>1, <3>2 DEF IsBool
      <4>2. ~(i \in marked \/ IsOptional(s[i]))
        BY <1>0, <3>2
      <4> QED BY <4>1, <4>2
    <3> QED BY <3>1, <3>2
  <2> HIDE DEF o
  <2> QED BY <1>0, <2>1, <2>2
<1>5. EncodeList(s, marked, b) = Of("List", [x \in {"optional"} |-> List(marks)], c)
  BY DEF EncodeList
<1>6. [x \in {"optional"} |-> List(o)] = e.at
  BY <1>1 DEF HasAttributes
<1> HIDE DEF marks, c, o
<1>7. \A i \in DOMAIN e.a : e.a[i] # Bad
  BY CelNodeNotBad DEF Operands
<1>8. Of("List", e.at, e.a) = Ast("List", e.at, e.a)
  BY <1>7, OfAll
<1> QED BY <1>3, <1>4, <1>5, <1>6, <1>8 DEF IsNode

LEMMA OptionalIs ==
  ASSUME NEW w
  PROVE  IsOptional(Node("optional", w)) /\ Node("optional", w).f["optional"] = w
  BY NodeIs DEF IsOptional

(* A list, whose elements are under no mark of their own. *)
NoOptional(k) == \A i \in DOMAIN k : ~IsOptional(k[i])

LEMMA CelListBare ==
  ASSUME NEW nt, nt # "canonical", NEW e, IsNode(e), CelNode(e), e.t = "List", NEW k, CelKnown(e, k),
         NoOptional(k), NEW U, Closed(U)
  PROVE  Makes(U, CelTreeNode(nt, e, k), e)
<1> DEFINE marked == {i \in DOMAIN k : e.at["optional"].e[i] = Bool(TRUE)}
           s == [i \in DOMAIN k |-> IF i \in marked THEN Node("optional", k[i]) ELSE k[i]]
<1>1. CelTreeNode(nt, e, k) = List(s)
  <2>1. CelTreeNode(nt, e, k) = DecodeList(nt, e, k)
    BY DEF CelTreeNode, ConstantKinds
  <2> QED BY <2>1 DEF DecodeList
<1>2. CelValues(e.a)
  BY DEF CelNode, ConstantKinds
<1>3. DOMAIN s = DOMAIN k /\ DOMAIN k = DOMAIN e.a /\ Operands(e)
  BY DEF CelKnown
<1>4. \A i \in DOMAIN k : s[i] = IF i \in marked THEN Node("optional", k[i]) ELSE k[i]
  OBVIOUS
<1>5. \A i \in DOMAIN k : i \in marked <=> e.at["optional"].e[i] = Bool(TRUE)
  OBVIOUS
<1> HIDE DEF marked, s
<1>6. ASSUME NEW b, NEW C, Knows(U, b, C), HeldBy(List(s)) \subseteq C
      PROVE  CelBuildNode(List(s), b) = e
  <2>1. ASSUME NEW i \in DOMAIN e.a
        PROVE  /\ IsOptional(s[i]) <=> e.at["optional"].e[i] = Bool(TRUE)
               /\ b[IF IsOptional(s[i]) THEN s[i].f["optional"] ELSE s[i]] = e.a[i]
    <3>1. Makes(U, k[i], e.a[i])
      BY <1>2, ValueKnown
    <3>2. s[i] \in C
      BY <1>3, <1>6, ListIs
    <3>3. CASE i \in marked
      <4>1. s[i] = Node("optional", k[i])
        BY <1>3, <1>4, <3>3
      <4>2. IsOptional(s[i]) /\ s[i].f["optional"] = k[i]
        BY <4>1, OptionalIs
      <4>3. k[i] \in C
        <5>1. HeldBy(Node("optional", k[i])) = {k[i]}
          BY NodeHolds
        <5> QED BY <1>6, <3>2, <4>1, <5>1 DEF Knows, Closed
      <4>4. b[k[i]] = e.a[i]
        BY <1>6, <3>1, <4>3, KnownIs
      <4> QED BY <1>3, <1>5, <3>3, <4>2, <4>4
    <3>4. CASE i \notin marked
      <4>1. s[i] = k[i] /\ ~IsOptional(s[i])
        BY <1>3, <1>4, <3>4 DEF NoOptional
      <4>2. b[k[i]] = e.a[i]
        BY <1>6, <3>1, <3>2, <4>1, KnownIs
      <4> QED BY <1>3, <1>5, <3>4, <4>1, <4>2
    <3> QED BY <3>3, <3>4
  <2>2. MarksAre(e, s, {}, b)
    BY <1>3, <2>1 DEF MarksAre
  <2>3. EncodeList(s, {}, b) = e
    BY <1>3, <2>2, ListEncoded
  <2>4. List(s).k = "list" /\ List(s).e = s
    BY ListIs
  <2> QED BY <2>3, <2>4 DEF CelBuildNode, Sole
<1>7. Makes(U, List(s), e)
  BY <1>6, MakesBy
<1> QED BY <1>1, <1>7

LEMMA CountIs ==
  ASSUME NEW n \in Nat, n < Int64Limit
  PROVE  Count(n).k = "num" /\ Count(n).x[2] \div 1000 = n /\ InInt64(Count(n))
<1>1. Count(n).k = "num" /\ Count(n).x = <<"fin", 1000 * n>>
  BY DEF Count, Num
<1>2. (1000 * n) \div 1000 = n /\ (1000 * n) % 1000 = 0
  OBVIOUS
<1>3. n \in -Int64Limit .. Int64Limit - 1
  BY Int64Range
<1> QED BY <1>1, <1>2, <1>3 DEF InInt64, IsInt

(* The canonical list names its optional elements. *)
LEMMA CelListNamed ==
  ASSUME NEW e, IsNode(e), CelNode(e), e.t = "List", NEW k, CelKnown(e, k),
         NoOptional(k), NEW U, Closed(U)
  PROVE  Makes(U, CelTreeNode("canonical", e, k), e)
<1> DEFINE marked == {i \in DOMAIN k : e.at["optional"].e[i] = Bool(TRUE)}
           indices == InOrder(marked)
           J == [j \in DOMAIN indices |-> Count(indices[j] - 1)]
           g == [elements |-> List(k), optional_indices |-> List(J)]
           u == [x \in {"optional_indices"} |-> List(<<>>)]
           f == Written(g, u)
<1>1. CelTreeNode("canonical", e, k) = Node("list_expr", Obj(f))
  <2>1. CelTreeNode("canonical", e, k) = DecodeList("canonical", e, k)
    BY DEF CelTreeNode, ConstantKinds
  <2> QED BY <2>1 DEF DecodeList
<1>2. CelValues(e.a) /\ Len(e.a) <= Int64Limit
  BY DEF CelNode, ConstantKinds
<1>3. /\ DOMAIN k = DOMAIN e.a /\ Operands(e) /\ k = [i \in DOMAIN k |-> k[i]]
      /\ Len(e.a) \in Nat /\ DOMAIN e.a = 1 .. Len(e.a)
  BY OperandsAre DEF CelKnown
<1>4. \A i \in DOMAIN k : i \in marked <=> e.at["optional"].e[i] = Bool(TRUE)
  OBVIOUS
<1>5. marked \subseteq DOMAIN k
  OBVIOUS
<1> HIDE DEF marked
<1>6. IsFiniteSet(marked)
  <2>1. IsFiniteSet(1 .. Len(e.a))
    <3> DEFINE n == Len(e.a)
    <3>1. n \in Int /\ 1 \in Int
      BY <1>3
    <3> HIDE DEF n
    <3>2. IsFiniteSet(1 .. n)
      BY <3>1, FS_Interval
    <3> QED BY <3>2 DEF n
  <2> QED BY <1>3, <1>5, <2>1, FS_Subset
<1>7. {indices[i] : i \in DOMAIN indices} = marked
  BY <1>6, InOrderIs
<1> HIDE DEF indices
<1>8. ASSUME NEW j \in DOMAIN indices
      PROVE  /\ indices[j] \in marked /\ indices[j] - 1 \in Nat /\ indices[j] - 1 < Int64Limit
             /\ J[j].k = "num" /\ InInt64(J[j]) /\ J[j].x[2] \div 1000 = indices[j] - 1
  <2>1. indices[j] \in marked
    BY <1>7
  <2>2. indices[j] - 1 \in Nat /\ indices[j] - 1 < Int64Limit
    <3> DEFINE n == Len(e.a)
    <3>1. n \in Nat /\ n <= Int64Limit /\ indices[j] \in 1 .. n
      BY <1>2, <1>3, <1>5, <2>1
    <3> HIDE DEF n
    <3> QED BY <3>1, Int64Range
  <2>3. J[j] = Count(indices[j] - 1)
    OBVIOUS
  <2> QED BY <2>1, <2>2, <2>3, CountIs
<1>9. DOMAIN J = DOMAIN indices
  OBVIOUS
<1>10. \A y \in DOMAIN g : \/ y \in DOMAIN f /\ f[y] = g[y] /\ (y \in DOMAIN u => g[y] # u[y])
                           \/ y \notin DOMAIN f /\ y \in DOMAIN u /\ g[y] = u[y]
  BY WrittenHas
<1>11. /\ DOMAIN g = {"elements", "optional_indices"} /\ g["elements"] = List(k) /\ g["optional_indices"] = List(J)
       /\ DOMAIN u = {"optional_indices"} /\ u["optional_indices"] = List(<<>>)
  OBVIOUS
<1> HIDE DEF f, g, u, J
<1>12. "elements" \in DOMAIN f /\ f["elements"] = List(k)
  BY <1>10, <1>11
<1>13. /\ "optional_indices" \in DOMAIN f => f["optional_indices"] = List(J)
       /\ "optional_indices" \notin DOMAIN f => List(J) = List(<<>>)
  BY <1>10, <1>11
<1>14. {i \in DOMAIN k : i - 1 \in Indices(List(J))} = marked
  <2>1. Indices(List(J)) = {indices[j] - 1 : j \in DOMAIN indices}
    <3>1. Indices(List(J)) = {J[j].x[2] \div 1000 : j \in DOMAIN J}
      BY ListIs DEF Indices
    <3> QED BY <1>8, <1>9, <3>1
  <2>2. ASSUME NEW i \in DOMAIN k PROVE (i - 1 \in Indices(List(J))) <=> i \in marked
    <3>1. i \in Nat
      BY <1>3
    <3>2. i \in marked => i - 1 \in Indices(List(J))
      BY <1>7, <2>1
    <3>3. ASSUME i - 1 \in Indices(List(J)) PROVE i \in marked
      <4>1. PICK j \in DOMAIN indices : i - 1 = indices[j] - 1
        BY <2>1, <3>3
      <4>2. indices[j] \in marked /\ indices[j] \in Nat
        BY <1>3, <1>5, <1>8
      <4>3. indices[j] = i
        BY <3>1, <4>1, <4>2
      <4> QED BY <4>2, <4>3
    <3> QED BY <3>2, <3>3
  <2> QED BY <1>5, <2>2
<1>15. List(J) = List(<<>>) => marked = {}
  <2>1. ASSUME List(J) = List(<<>>) PROVE marked = {}
    <3>1. J = <<>>
      <4>1. List(J).e = J /\ List(<<>>).e = <<>>
        BY ListIs
      <4> QED BY <2>1, <4>1
    <3>2. DOMAIN indices = {}
      BY <1>9, <3>1
    <3> QED BY <1>7, <3>2
  <2> QED BY <2>1
<1>16. ASSUME NEW b, NEW C, Knows(U, b, C), Obj(f) \in C
       PROVE  CelBuildKeyed("list_expr", Obj(f), b) = e
  <2>1. List(k) \in C
    BY <1>12, <1>16, ObjWithin DEF Knows
  <2>2. \A i \in DOMAIN e.a : b[k[i]] = e.a[i]
    <3>1. ASSUME NEW i \in DOMAIN e.a PROVE b[k[i]] = e.a[i]
      <4>1. k[i] \in C
        BY <1>3, <1>16, <2>1, ListWithin DEF Knows
      <4>2. Makes(U, k[i], e.a[i])
        BY <1>2, ValueKnown
      <4> QED BY <1>16, <4>1, <4>2, KnownIs
    <3> QED BY <3>1
  <2>3. EncodeList(k, marked, b) = e
    <3>1. MarksAre(e, k, marked, b)
      BY <1>3, <1>4, <2>2 DEF MarksAre, NoOptional
    <3> QED BY <1>3, <3>1, ListEncoded
  <2>4. Obj(f).k = "obj" /\ Obj(f).f = f /\ List(k).k = "list" /\ List(k).e = k
    BY ObjIs, ListIs
  <2>5. CASE "optional_indices" \notin DOMAIN f
    <3>1. EncodeListExpr(Obj(f), b) = EncodeList(k, {}, b)
      BY <1>12, <2>4, <2>5 DEF EncodeListExpr, Has
    <3>2. marked = {}
      BY <1>13, <1>15, <2>5
    <3> QED BY <2>3, <3>1, <3>2, KeyedIs
  <2>6. CASE "optional_indices" \in DOMAIN f
    <3>1. List(J).k = "list" /\ List(J).e = J
      BY ListIs
    <3>2. ~ \E i \in DOMAIN J : J[i].k # "num" \/ ~InInt64(J[i])
      BY <1>8, <1>9
    <3>3. EncodeListExpr(Obj(f), b) = EncodeList(k, {i \in DOMAIN k : i - 1 \in Indices(List(J))}, b)
      BY <1>12, <1>13, <2>4, <2>6, <3>1, <3>2 DEF EncodeListExpr, Has
    <3> QED BY <1>14, <2>3, <3>3, KeyedIs
  <2> QED BY <2>5, <2>6
<1>17. Makes(U, Node("list_expr", Obj(f)), e)
  BY <1>16, KeyMakes
<1> QED BY <1>1, <1>17

(* The calls. *)

LEMMA TokenIs ==
  ASSUME NEW v, IsStr(v), NEW tokens, IsToken(v, tokens)
  PROVE  v = Name(v.s[1]) /\ v.s[1] \in tokens
<1>1. v = Str(v.s) /\ IsSequence(v.s) /\ Len(v.s) = 1 /\ v.s[1] \in tokens
  BY DEF IsStr, IsToken
<1> DEFINE s == v.s
<1>2. s = [i \in 1 .. Len(s) |-> s[i]] /\ Len(s) = 1
  BY <1>1 DEF IsSequence
<1> HIDE DEF s
<1>3. s = <<s[1]>>
  BY <1>2
<1> QED BY <1>1, <1>3 DEF Name, s

LEMMA NameIs ==
  ASSUME NEW x, NEW tokens
  PROVE  /\ Name(x).k = "str" /\ Name(x).s = <<x>> /\ Name(x).s[1] = x
         /\ IsToken(Name(x), tokens) <=> x \in tokens
  BY DEF Name, Str, IsToken

(* What a node of a call says of it. *)
LEMMA CallIs ==
  ASSUME NEW e, IsNode(e), CelNode(e), e.t = "Call"
  PROVE  /\ IsParsedCall(e) /\ IsStr(e.at["fn"]) /\ CelValues(e.a)
         /\ IsToken(e.at["fn"], Variadic) => Len(e.a) = 2 /\ ~IsChain(e.a[2], e.at["fn"])
         /\ IsToken(e.at["fn"], OperatorFunctions \ Variadic) => Len(e.a) = Arity(e.at["fn"].s[1])
<1>1. IsParsedCall(e)
  BY DEF CelNode, ConstantKinds
<1> QED BY <1>1 DEF IsParsedCall

(* The arguments of a call are written, unless there are none. *)
ArgsWritten(f, k) == IF "args" \in DOMAIN f THEN f["args"] = List(k) ELSE k = <<>>

LEMMA ArgsBuilt ==
  ASSUME NEW U, NEW b, NEW C, Knows(U, b, C), NEW k, NEW a, DOMAIN k = DOMAIN a, a = [i \in DOMAIN a |-> a[i]],
         \A i \in DOMAIN a : k[i] \in C /\ Makes(U, k[i], a[i])
  PROVE  BuildList(k, b) = a
<1>1. \A i \in DOMAIN a : b[k[i]] = a[i]
  BY KnownIs
<1> QED BY <1>1 DEF BuildList

LEMMA CallAgain ==
  ASSUME NEW e, IsNode(e), CelNode(e), e.t = "Call", NEW k, CelKnown(e, k), NEW U, Closed(U),
         NEW f, DOMAIN f \subseteq {"function", "args"}, "function" \in DOMAIN f, f["function"] = e.at["fn"],
         ArgsWritten(f, k), NEW b, NEW C, Knows(U, b, C), Obj(f) \in C
  PROVE  EncodeCall(Obj(f), b) = e
<1>1. IsParsedCall(e) /\ IsStr(e.at["fn"]) /\ CelValues(e.a)
  BY CallIs
<1>2. e.at["fn"].k = "str" /\ Operands(e) /\ DOMAIN k = DOMAIN e.a
  BY <1>1 DEF IsStr, CelKnown
<1>3. ParsedCall(e.at["fn"], e.a) = e
  BY <1>1, <1>2, ParsedAgain
<1>4. e.a = [i \in DOMAIN e.a |-> e.a[i]]
  BY OperandsAre
<1>5. Obj(f).k = "obj" /\ Obj(f).f = f /\ List(k).k = "list" /\ List(k).e = k
  BY ObjIs, ListIs
<1>6. CASE "args" \in DOMAIN f
  <2>1. f["args"] = List(k) /\ List(k) \in C
    BY <1>6, ObjWithin DEF ArgsWritten, Knows
  <2>2. \A i \in DOMAIN e.a : k[i] \in C /\ Makes(U, k[i], e.a[i])
    BY <1>1, <1>2, <2>1, ListWithin, ValueKnown DEF Knows
  <2>3. BuildList(k, b) = e.a
    BY <1>2, <1>4, <2>2, ArgsBuilt
  <2>4. EncodeCall(Obj(f), b) = ParsedCall(e.at["fn"], BuildList(k, b))
    BY <1>2, <1>5, <1>6, <2>1 DEF EncodeCall, Only, Has
  <2> QED BY <1>3, <2>3, <2>4
<1>7. CASE "args" \notin DOMAIN f
  <2>1. k = <<>>
    BY <1>7 DEF ArgsWritten
  <2>2. BuildList(<<>>, b) = e.a
    <3>1. DOMAIN e.a = {}
      BY <1>2, <2>1
    <3> QED BY <1>4, <3>1 DEF BuildList
  <2>3. EncodeCall(Obj(f), b) = ParsedCall(e.at["fn"], BuildList(<<>>, b))
    BY <1>2, <1>5, <1>7 DEF EncodeCall, Only, Has
  <2> QED BY <1>3, <2>2, <2>3
<1> QED BY <1>6, <1>7

LEMMA CallKeyMakes ==
  ASSUME NEW e, IsNode(e), CelNode(e), e.t = "Call", NEW k, CelKnown(e, k), NEW U, Closed(U),
         NEW f, DOMAIN f \subseteq {"function", "args"}, "function" \in DOMAIN f, f["function"] = e.at["fn"],
         ArgsWritten(f, k), NEW key \in {"call", "call_expr"}
  PROVE  Makes(U, Node(key, Obj(f)), e)
<1> DEFINE w == Obj(f)
<1>1. ASSUME NEW b, NEW C, Knows(U, b, C), w \in C PROVE CelBuildKeyed(key, w, b) = e
  <2>1. EncodeCall(Obj(f), b) = e
    BY <1>1, CallAgain
  <2>2. EncodeCall(w, b) = e
    BY <2>1
  <2> HIDE DEF w
  <2>3. CASE key = "call"
    BY <2>2, <2>3, KeyedIs
  <2>4. CASE key = "call_expr"
    BY <2>2, <2>4, KeyedIs
  <2> QED BY <2>3, <2>4
<1> HIDE DEF w
<1>2. Makes(U, Node(key, w), e)
  BY <1>1, KeyMakes
<1> QED BY <1>2 DEF w

(* An operator of the canonical notation, and what is no operator. *)
LEMMA CelPlainCall ==
  ASSUME NEW nt, NEW e, IsNode(e), CelNode(e), e.t = "Call", NEW k, CelKnown(e, k), NEW U, Closed(U),
         ~(nt # "canonical" /\ IsReference(e)),
         nt = "canonical" \/ ~IsToken(e.at["fn"], OperatorFunctions)
  PROVE  Makes(U, CelTreeNode(nt, e, k), e)
<1> DEFINE func == e.at["fn"]
           g == [function |-> func, args |-> List(k)]
           u == [x \in {"args"} |-> List(<<>>)]
           f == Written(g, u)
<1>1. CelTreeNode(nt, e, k) = CelCall(nt, e, k)
  BY DEF CelTreeNode, ConstantKinds
<1>2. DOMAIN g = {"function", "args"} /\ g["function"] = func /\ g["args"] = List(k)
  OBVIOUS
<1>3. CASE IsToken(func, OperatorFunctions)
  <2>1. CelCall(nt, e, k) = Node("call_expr", Obj(g))
    BY <1>3 DEF CelCall
  <2> HIDE DEF func, g
  <2>2. ArgsWritten(g, k)
    BY <1>2 DEF ArgsWritten
  <2>3. Makes(U, Node("call_expr", Obj(g)), e)
    BY <1>2, <2>2, CallKeyMakes DEF func
  <2> QED BY <1>1, <2>1, <2>3
<1>4. CASE ~IsToken(func, OperatorFunctions)
  <2>1. CelCall(nt, e, k) = Node(CallKey(nt), Obj(f))
    BY <1>4 DEF CelCall
  <2>2. \A x \in DOMAIN g : \/ x \in DOMAIN f /\ f[x] = g[x] /\ (x \in DOMAIN u => g[x] # u[x])
                            \/ x \notin DOMAIN f /\ x \in DOMAIN u /\ g[x] = u[x]
    BY WrittenHas
  <2>3. DOMAIN f \subseteq DOMAIN g
    BY DEF Written
  <2>4. DOMAIN u = {"args"} /\ u["args"] = List(<<>>)
    OBVIOUS
  <2> HIDE DEF func, g, f, u
  <2>5. DOMAIN f \subseteq {"function", "args"} /\ "function" \in DOMAIN f /\ f["function"] = func
    BY <1>2, <2>2, <2>3, <2>4
  <2>6. ArgsWritten(f, k)
    <3>1. CASE "args" \in DOMAIN f
      BY <1>2, <2>2, <3>1 DEF ArgsWritten
    <3>2. CASE "args" \notin DOMAIN f
      <4>1. List(k) = List(<<>>)
        BY <1>2, <2>2, <2>4, <3>2
      <4>2. k = <<>>
        <5>1. List(k).e = k /\ List(<<>>).e = <<>>
          BY ListIs
        <5> QED BY <4>1, <5>1
      <4> QED BY <3>2, <4>2 DEF ArgsWritten
    <3> QED BY <3>1, <3>2
  <2>7. CallKey(nt) \in {"call", "call_expr"}
    BY DEF CallKey
  <2> DEFINE key == CallKey(nt)
  <2>8. key \in {"call", "call_expr"}
    BY <2>7
  <2> HIDE DEF key
  <2>9. Makes(U, Node(key, Obj(f)), e)
    BY <2>5, <2>6, <2>8, CallKeyMakes DEF func
  <2> QED BY <1>1, <2>1, <2>9 DEF key
<1> QED BY <1>3, <1>4

(* The operators of the other notations. *)

LEMMA ArityIs ==
  ASSUME NEW func \in OperatorFunctions \ Variadic
  PROVE  /\ Arity(func) \in {1, 2, 3} /\ (Arity(func) = 1 <=> func \in Unary)
         /\ func = "neg" => Arity(func) = 1
         /\ func = "sub" => Arity(func) = 2
  BY DEF Arity, OperatorFunctions, Unary, Binary, Variadic

(* The operator is a call of the operands, which are as many as it takes. *)
LEMMA OperatorAgain ==
  ASSUME NEW nt, NEW e, IsNode(e), CelNode(e), e.t = "Call", Operands(e),
         IsToken(e.at["fn"], OperatorFunctions \ Variadic), NEW w, NEW b,
         BuildList(OperandsList(w), b) = e.a
  PROVE  CelBuildKeyed(OpKey(nt, e.at["fn"].s[1]), w, b) = e
<1> DEFINE func == e.at["fn"].s[1]
           key == OpKey(nt, func)
<1>1. /\ IsParsedCall(e) /\ IsStr(e.at["fn"])
      /\ Len(e.a) = Arity(func)
  BY CallIs
<1>2. e.at["fn"] = Name(func) /\ func \in OperatorFunctions \ Variadic
  BY <1>1, TokenIs
<1>3. ParsedCall(Name(func), e.a) = e
  BY <1>1, <1>2, ParsedAgain
<1> HIDE DEF func
<1>4. /\ IsOperator(key) /\ key \notin OtherKeys
      /\ key # "-" => Named(key) = func
      /\ key = "-" => func \in {"neg", "sub"}
  BY <1>2, NamedAgain
<1> HIDE DEF key
<1>5. CelBuildKeyed(key, w, b) = CelOperator(key, w, b)
  BY <1>4, OperatorKeyed
<1>6. (IF key # "-" THEN Named(key) ELSE IF Len(e.a) = 1 THEN "neg" ELSE "sub") = func
  BY <1>1, <1>2, <1>4, ArityIs
<1>7. CelOperator(key, w, b) = ParsedCall(Name(func), e.a)
  BY <1>1, <1>2, <1>6 DEF CelOperator
<1> QED BY <1>3, <1>5, <1>7 DEF key, func

(* A tree that is built as another one is makes the same. *)
LEMMA MakesAlike ==
  ASSUME NEW U, Closed(U), NEW t, NEW x, Makes(U, t, x), NEW w,
         w \in U => t \in U,
         \A m \in Nat : Short(w, m) => Short(t, m),
         \A b : CelBuildNode(w, b) = CelBuildNode(t, b)
  PROVE  Makes(U, w, x)
<1>1. SUFFICES ASSUME NEW m \in Nat, w \in U, Short(w, m) PROVE CelBuilds!Stage(U)[m][w] = x
  BY DEF Makes
<1>2. t \in U /\ CelBuilds!Stage(U)[m][t] = x
  BY <1>1 DEF Makes
<1> DEFINE b == CelBuilds!Stage(U)[m - 1]
<1>3. m - 1 \in Nat
  BY <1>1, HeldShort
<1>4. CelBuilds!Stage(U)[m] = CelBuildMore(U, b)
  <2>1. \A i \in Nat : CelBuilds!Stage(U)[i + 1] = CelBuildMore(U, CelBuilds!Stage(U)[i])
    BY NumbersHaveLeast, CelBuilds!StageIs
  <2>2. (m - 1) + 1 = m
    OBVIOUS
  <2> QED BY <1>3, <2>1, <2>2
<1> HIDE DEF b
<1>5. CelBuilds!Stage(U)[m][w] = CelBuildNode(w, b) /\ CelBuilds!Stage(U)[m][t] = CelBuildNode(t, b)
  BY <1>1, <1>2, <1>4 DEF CelBuildMore
<1> QED BY <1>2, <1>5

(* A list in words is built as the bare list. *)
InWords(t) == Node("list_expr", Node("elements", t))

LEMMA ListInWords ==
  ASSUME NEW t, t.k = "list", NEW U, Closed(U), NEW x, Makes(U, t, x)
  PROVE  Makes(U, InWords(t), x)
<1> DEFINE inner == Node("elements", t)
           w == Node("list_expr", inner)
<1>1. HeldBy(inner) = {t} /\ HeldBy(w) = {inner}
  BY NodeHolds
<1>2. inner.k = "obj" /\ DOMAIN inner.f = {"elements"} /\ inner.f["elements"] = t
  <2>1. inner = Obj([y \in {"elements"} |-> t])
    BY DEF Node
  <2> QED BY <2>1 DEF Obj
<1>3. \A b : CelBuildNode(w, b) = CelBuildKeyed("list_expr", inner, b)
  BY CelKeyed
<1> HIDE DEF inner, w
<1>4. w \in U => t \in U
  BY <1>1 DEF Closed
<1>5. ASSUME NEW m \in Nat, Short(w, m) PROVE Short(t, m)
  <2>1. m - 1 \in Nat /\ Short(inner, m - 1)
    BY <1>1, <1>5, HeldShort
  <2> DEFINE n == m - 1
  <2>2. n \in Nat /\ Short(inner, n) /\ n + 1 = m
    BY <2>1
  <2> HIDE DEF n
  <2>3. n - 1 \in Nat /\ Short(t, n - 1)
    BY <1>1, <2>2, HeldShort
  <2> DEFINE l == n - 1
  <2>4. l \in Nat /\ Short(t, l) /\ l <= m
    BY <2>2, <2>3
  <2> HIDE DEF l
  <2> QED BY <2>4, ShortMore
<1>6. ASSUME NEW b PROVE CelBuildNode(w, b) = CelBuildNode(t, b)
  <2>1. CelBuildNode(w, b) = EncodeListExpr(inner, b)
    BY <1>3, KeyedIs
  <2>2. EncodeListExpr(inner, b) = EncodeList(t.e, {}, b)
    BY <1>2 DEF EncodeListExpr, Has
  <2>3. CelBuildNode(t, b) = EncodeList(t.e, {}, b)
    BY DEF CelBuildNode, Sole
  <2> QED BY <2>1, <2>2, <2>3
<1>7. Makes(U, w, x)
  BY <1>4, <1>5, <1>6, MakesAlike
<1> QED BY <1>7 DEF w, inner, InWords

LEMMA CelUnary ==
  ASSUME NEW nt, NEW e, IsNode(e), CelNode(e), e.t = "Call", NEW k, CelKnown(e, k), NEW U, Closed(U),
         IsToken(e.at["fn"], OperatorFunctions \ Variadic), e.at["fn"].s[1] \in Unary
  PROVE  Makes(U, DecodeOperator(nt, e.at["fn"].s[1], e, k), e)
<1> DEFINE func == e.at["fn"].s[1]
           key == OpKey(nt, func)
           w == IF k[1].k = "list" THEN InWords(k[1]) ELSE k[1]
<1>1. DecodeOperator(nt, func, e, k) = Node(key, w)
  <2>1. func \in Unary /\ func \notin Variadic
    BY DEF Unary, Variadic
  <2> HIDE DEF func
  <2> QED BY <2>1 DEF DecodeOperator, InWords
<1>2. Len(e.a) = Arity(func) /\ CelValues(e.a) /\ IsStr(e.at["fn"])
  BY CallIs
<1>3. Len(e.a) = 1
  <2>1. func \in OperatorFunctions \ Variadic
    BY <1>2, TokenIs
  <2> QED BY <1>2 DEF Arity
<1>4. e.a = <<e.a[1]>> /\ 1 \in DOMAIN e.a
  <2>1. DOMAIN e.a = 1 .. Len(e.a) /\ e.a = [i \in DOMAIN e.a |-> e.a[i]]
    BY OperandsAre
  <2> QED BY <1>3, <2>1
<1>5. Makes(U, k[1], e.a[1]) /\ Operands(e)
  BY <1>2, <1>4, ValueKnown DEF CelKnown
<1>6. Makes(U, w, e.a[1]) /\ w.k # "list"
  <2>1. CASE k[1].k = "list"
    <3>1. InWords(k[1]).k = "obj"
      BY DEF InWords, Node, Obj
    <3> QED BY <1>5, <2>1, <3>1, ListInWords
  <2>2. CASE k[1].k # "list"
    BY <1>5, <2>2
  <2> QED BY <2>1, <2>2
<1> HIDE DEF w
<1>7. OperandsList(w) = <<w>>
  BY <1>6 DEF OperandsList
<1>8. ASSUME NEW b, NEW C, Knows(U, b, C), w \in C PROVE CelBuildKeyed(key, w, b) = e
  <2>1. b[w] = e.a[1]
    BY <1>6, <1>8, KnownIs
  <2>2. BuildList(<<w>>, b) = <<b[w]>>
    BY DEF BuildList
  <2>3. BuildList(OperandsList(w), b) = e.a
    BY <1>4, <1>7, <2>1, <2>2
  <2> QED BY <1>5, <2>3, OperatorAgain
<1> HIDE DEF key
<1>9. Makes(U, Node(key, w), e)
  BY <1>8, KeyMakes
<1> QED BY <1>1, <1>9

LEMMA CelOperands ==
  ASSUME NEW nt, NEW e, IsNode(e), CelNode(e), e.t = "Call", NEW k, CelKnown(e, k), NEW U, Closed(U),
         IsToken(e.at["fn"], OperatorFunctions \ Variadic), e.at["fn"].s[1] \notin Unary
  PROVE  Makes(U, DecodeOperator(nt, e.at["fn"].s[1], e, k), e)
<1> DEFINE func == e.at["fn"].s[1]
           key == OpKey(nt, func)
           w == List(k)
<1>1. CelValues(e.a) /\ IsStr(e.at["fn"])
  BY CallIs
<1>2. func \notin Variadic
  BY <1>1, TokenIs
<1>3. DecodeOperator(nt, func, e, k) = Node(key, w)
  BY <1>2 DEF DecodeOperator
<1>4. OperandsList(w) = k
  BY ListIs DEF OperandsList
<1>5. Operands(e) /\ DOMAIN k = DOMAIN e.a /\ e.a = [i \in DOMAIN e.a |-> e.a[i]]
  BY OperandsAre DEF CelKnown
<1>6. ASSUME NEW b, NEW C, Knows(U, b, C), w \in C PROVE CelBuildKeyed(key, w, b) = e
  <2>1. \A i \in DOMAIN e.a : k[i] \in C /\ Makes(U, k[i], e.a[i])
    BY <1>1, <1>5, <1>6, ListWithin, ValueKnown DEF Knows
  <2>2. BuildList(k, b) = e.a
    BY <1>5, <1>6, <2>1, ArgsBuilt
  <2>3. BuildList(OperandsList(w), b) = e.a
    BY <1>4, <2>2
  <2> HIDE DEF w
  <2> QED BY <1>5, <2>3, OperatorAgain
<1> HIDE DEF key, w
<1>7. Makes(U, Node(key, w), e)
  BY <1>6, KeyMakes
<1> QED BY <1>3, <1>7

(* The chains of && and ||. *)

(* g are the nodes of the first operands x: each is the call of the one    *)
(* before and the next operand.                                            *)
Linked(func, x, g, n) ==
  /\ n \in Nat /\ n >= 2 /\ x = [i \in 1 .. n |-> x[i]]
  /\ g[1] = x[1]
  /\ \A i \in 1 .. n - 1 : g[i + 1] = ParsedCall(Name(func), <<g[i], x[i + 1]>>)

LEMMA LinksFollow ==
  ASSUME NEW func, NEW x, NEW g, NEW n, Linked(func, x, g, n)
  PROVE  ChainOf(Name(func), x) = g[n]
<1> DEFINE c == CallOf(Name(func), x)
           s == Links!Stage(c)
           bad == {j \in 0 .. n - 1 : s[j] # [n |-> j + 1, e |-> g[j + 1]]}
<1>1. /\ n \in Nat /\ n >= 2 /\ x = [i \in 1 .. n |-> x[i]] /\ g[1] = x[1]
      /\ \A i \in 1 .. n - 1 : g[i + 1] = ParsedCall(Name(func), <<g[i], x[i + 1]>>)
  BY DEF Linked
<1>2. c.a = x /\ c.at["fn"] = Name(func)
  BY DEF CallOf, Ast
<1>3. s[0] = ChainStart(c) /\ \A i \in Nat : s[i + 1] = ChainStep(c, s[i])
  BY NumbersHaveLeast, Links!StageIs
<1>4. ChainOf(Name(func), x) = s[Len(x) - 1].e
  BY DEF ChainOf
<1>5. Len(x) = n
  BY <1>1
<1> HIDE DEF s, c
<1>6. bad = {}
  <2> SUFFICES ASSUME bad # {} PROVE FALSE
    OBVIOUS
  <2>1. PICK j \in bad : \A i \in bad : j <= i
    <3>1. bad \subseteq Nat
      BY <1>1
    <3> HIDE DEF bad
    <3> QED BY <3>1, FirstPosition
  <2>2. j \in 0 .. n - 1 /\ s[j] # [n |-> j + 1, e |-> g[j + 1]]
    OBVIOUS
  <2>3. CASE j = 0
    <3>1. s[0] = [n |-> 1, e |-> g[1]]
      BY <1>1, <1>2, <1>3 DEF ChainStart
    <3> QED BY <2>2, <2>3, <3>1
  <2>4. CASE j # 0
    <3> DEFINE i == j - 1
    <3>1. i \in Nat /\ i + 1 = j /\ i \in 0 .. n - 1 /\ i + 1 \in 1 .. n - 1 /\ ~(j <= i)
      BY <1>1, <2>2, <2>4
    <3>2. i \notin bad
      BY <2>1, <3>1
    <3> HIDE DEF i
    <3>3. s[i] = [n |-> i + 1, e |-> g[i + 1]]
      BY <3>1, <3>2
    <3>4. s[i + 1] = ChainStep(c, s[i])
      BY <1>3, <3>1
    <3>5. s[i].n = i + 1 /\ s[i].e = g[i + 1]
      BY <3>3
    <3>6. s[i + 1] = [n |-> (i + 1) + 1, e |-> ParsedCall(Name(func), <<g[i + 1], x[(i + 1) + 1]>>)]
      BY <1>2, <3>4, <3>5 DEF ChainStep
    <3>7. g[(i + 1) + 1] = ParsedCall(Name(func), <<g[i + 1], x[(i + 1) + 1]>>)
      BY <1>1, <3>1
    <3> QED BY <2>2, <3>1, <3>6, <3>7
  <2> QED BY <2>3, <2>4
<1>7. n - 1 \in 0 .. n - 1 /\ (n - 1) + 1 = n
  BY <1>1
<1>8. s[n - 1] = [n |-> (n - 1) + 1, e |-> g[(n - 1) + 1]]
  BY <1>6, <1>7
<1> QED BY <1>4, <1>5, <1>7, <1>8

(* The tree of a chain: that of each operand. *)
Chained(nt, func, e, v, n, items, x, g) ==
  /\ Linked(func, x, g, n) /\ g[n] = e
  /\ items = [i \in 1 .. n |-> items[i]] /\ v = Node(OpKey(nt, func), List(items))
  /\ \A i \in 1 .. n : x[i] # Bad /\ x[i].t \notin {"Pair", "Field"} /\ CelGood(x[i], items[i])

ChainFits(nt, func, e, v) == \E n, items, x, g : Chained(nt, func, e, v, n, items, x, g)

LEMMA ChainMakes ==
  ASSUME NEW nt, NEW func \in Variadic, NEW e, NEW v, ChainFits(nt, func, e, v), NEW U, Closed(U)
  PROVE  Makes(U, v, e)
<1>1. PICK n, items, x, g : Chained(nt, func, e, v, n, items, x, g)
  BY DEF ChainFits
<1>2. /\ Linked(func, x, g, n) /\ g[n] = e /\ n \in Nat /\ n >= 2
      /\ x = [i \in 1 .. n |-> x[i]] /\ items = [i \in 1 .. n |-> items[i]]
      /\ v = Node(OpKey(nt, func), List(items))
      /\ \A i \in 1 .. n : x[i].t \notin {"Pair", "Field"} /\ CelGood(x[i], items[i])
  BY <1>1 DEF Chained, Linked
<1> DEFINE key == OpKey(nt, func)
           w == List(items)
<1>3. func \in OperatorFunctions /\ func \notin {"neg", "sub"}
  BY DEF OperatorFunctions, Variadic
<1>4. IsOperator(key) /\ key \notin OtherKeys /\ key # "-" /\ Named(key) = func
  BY <1>3, NamedAgain
<1>5. OperandsList(w) = items
  BY ListIs DEF OperandsList
<1>6. DOMAIN items = 1 .. n /\ DOMAIN x = 1 .. n
  BY <1>2
<1>7. ChainOf(Name(func), x) = e
  BY <1>2, LinksFollow
<1>8. x # <<>>
  <2>1. 1 \in DOMAIN x
    BY <1>2, <1>6
  <2> QED BY <2>1
<1>9. ASSUME NEW b, NEW C, Knows(U, b, C), w \in C PROVE CelBuildKeyed(key, w, b) = e
  <2>1. \A i \in DOMAIN x : items[i] \in C /\ Makes(U, items[i], x[i])
    BY <1>2, <1>6, <1>9, ListWithin DEF Knows, CelGood
  <2>2. BuildList(items, b) = x
    <3>1. x = [i \in DOMAIN x |-> x[i]] /\ DOMAIN items = DOMAIN x
      BY <1>2, <1>6
    <3> QED BY <1>9, <2>1, <3>1, ArgsBuilt
  <2> HIDE DEF key, w
  <2>3. CelBuildKeyed(key, w, b) = CelOperator(key, w, b)
    BY <1>4, OperatorKeyed
  <2>4. CelOperator(key, w, b) = ChainOf(Name(func), x)
    BY <1>4, <1>5, <1>8, <2>2 DEF CelOperator
  <2> QED BY <1>7, <2>3, <2>4
<1> HIDE DEF key, w
<1>10. Makes(U, Node(key, w), e)
  BY <1>9, KeyMakes
<1> QED BY <1>2, <1>10 DEF key, w

(* One sequence after another. *)
IsConcat(c, s, t) ==
  /\ IsSequence(c) /\ Len(s) \in Nat /\ Len(t) \in Nat /\ Len(c) = Len(s) + Len(t)
  /\ \A i \in 1 .. Len(s) + Len(t) : c[i] = IF i <= Len(s) THEN s[i] ELSE t[i - Len(s)]

LEMMA ConcatIs ==
  ASSUME NEW s, IsSequence(s), NEW t, IsSequence(t)
  PROVE  IsConcat(s \o t, s, t)
<1> DEFINE T == {s[i] : i \in DOMAIN s} \cup {t[i] : i \in DOMAIN t}
<1>1. /\ s \in Seq({s[i] : i \in DOMAIN s}) /\ t \in Seq({t[i] : i \in DOMAIN t})
      /\ Len(s) \in Nat /\ Len(t) \in Nat
  BY SequenceIs
<1>2. s \in Seq(T) /\ t \in Seq(T)
  BY <1>1
<1> HIDE DEF T
<1> DEFINE c == s \o t
<1>3. /\ c \in Seq(T) /\ Len(c) = Len(s) + Len(t)
      /\ \A i \in 1 .. Len(s) + Len(t) : c[i] = IF i <= Len(s) THEN s[i] ELSE t[i - Len(s)]
  BY <1>2, SequencesJoined
<1> HIDE DEF c
<1>4. IsSequence(c)
  BY <1>3, SequenceOf
<1>5. IsConcat(c, s, t)
  BY <1>1, <1>3, <1>4 DEF IsConcat
<1> QED BY <1>5 DEF c

(* A chain is no reference. *)
LEMMA ReferenceIs ==
  ASSUME NEW e, Finite(e), IsReference(e), e.t = "Call"
  PROVE  e.at["fn"] \in {Name("[]"), Name("[?]"), Name("?.")}
<1> DEFINE h == Height(e)
<1>1. h \in Nat /\ h # 0 /\ e \in Parts(e)
  BY PartsAre, NeverShortAtOnce
<1>2. IsReference(e) = References!Stage(Parts(e))[h][e]
  BY DEF IsReference
<1> HIDE DEF h
<1> DEFINE r == References!Stage(Parts(e))[h - 1]
<1>3. References!Stage(Parts(e))[h] = RefersMore(Parts(e), r)
  <2>1. \A n \in Nat : References!Stage(Parts(e))[n + 1] = RefersMore(Parts(e), References!Stage(Parts(e))[n])
    BY NumbersHaveLeast, References!StageIs
  <2>2. h - 1 \in Nat /\ (h - 1) + 1 = h
    BY <1>1
  <2> QED BY <2>1, <2>2
<1> HIDE DEF r
<1>4. RefersMore(Parts(e), r)[e] = RefersNode(e, r)
  BY <1>1 DEF RefersMore
<1>5. RefersNode(e, r)
  BY <1>2, <1>3, <1>4
<1> QED BY <1>5 DEF RefersNode

LEMMA ChainNotReference ==
  ASSUME NEW e, Finite(e), e.t = "Call", IsToken(e.at["fn"], Variadic)
  PROVE  ~IsReference(e)
<1>1. SUFFICES ASSUME e.at["fn"] \in {Name("[]"), Name("[?]"), Name("?.")} PROVE FALSE
  BY ReferenceIs
<1>2. e.at["fn"].s[1] \in {"[]", "[?]", "?."}
  BY <1>1, NameIs
<1> QED BY <1>2 DEF IsToken, Variadic

(* What the holder of a node looks at. *)
CelShape(nt, e, v) ==
  /\ e.t \notin {"Pair", "Field"} => ~IsOptional(v)
  /\ nt # "canonical" /\ e.t = "Call" /\ IsToken(e.at["fn"], Variadic) =>
       ChainFits(nt, e.at["fn"].s[1], e, v)

LEMMA CelChain ==
  ASSUME NEW nt, nt # "canonical", NEW e, IsNode(e), CelNode(e), e.t = "Call", IsToken(e.at["fn"], Variadic),
         NEW k, CelKnown(e, k), \A i \in DOMAIN e.a : CelShape(nt, e.a[i], k[i])
  PROVE  ChainFits(nt, e.at["fn"].s[1], e, DecodeOperator(nt, e.at["fn"].s[1], e, k))
<1> DEFINE func == e.at["fn"].s[1]
           v == DecodeOperator(nt, func, e, k)
           key == OpKey(nt, func)
<1>1. /\ IsParsedCall(e) /\ IsStr(e.at["fn"]) /\ CelValues(e.a)
      /\ Len(e.a) = 2 /\ ~IsChain(e.a[2], e.at["fn"])
  BY CallIs
<1>2. e.at["fn"] = Name(func) /\ func \in Variadic
  BY <1>1, TokenIs
<1>3. /\ DOMAIN e.a = 1 .. 2 /\ e.a = [i \in 1 .. 2 |-> e.a[i]]
  BY <1>1, OperandsAre
<1>4. e.a = <<e.a[1], e.a[2]>> /\ 1 \in DOMAIN e.a /\ 2 \in DOMAIN e.a
  BY <1>3
<1>5. /\ Operands(e) /\ DOMAIN k = 1 .. 2 /\ CelGood(e.a[1], k[1]) /\ CelGood(e.a[2], k[2])
  BY <1>3, <1>4 DEF CelKnown
<1>6. /\ e.a[1].t \notin {"Pair", "Field"} /\ e.a[2].t \notin {"Pair", "Field"}
      /\ e.a[1] # Bad /\ e.a[2] # Bad
  BY <1>1, <1>4, <1>5, CelNodeNotBad DEF CelValues, Operands
<1>7. ParsedCall(Name(func), <<e.a[1], e.a[2]>>) = e
  BY <1>1, <1>2, <1>4, <1>5, ParsedAgain
<1>8. CelShape(nt, e.a[1], k[1])
  BY <1>4
<1>9. ~IsCall(e.a[2], func)
  BY <1>1, <1>2 DEF IsCall, IsChain
<1>10. func \notin Unary
  BY <1>2 DEF Unary, Variadic
<1> HIDE DEF func
<1>11. v = Node(key, List(ChainTrees(nt, func, e, k)))
  BY <1>2, <1>10 DEF DecodeOperator
<1>12. ChainTrees(nt, func, e, k) = LinkTrees(nt, func, e.a[1], k[1]) \o <<k[2]>>
  BY <1>9 DEF ChainTrees, LinkTrees
<1> HIDE DEF v, key
<1> DEFINE k1 == k[1]
           k2 == k[2]
           a1 == e.a[1]
           a2 == e.a[2]
<1>13. CASE ~IsCall(e.a[1], func)
  <2> DEFINE items == <<k1>> \o <<k2>>
             x == e.a
             g == <<a1, e>>
  <2>1. ChainTrees(nt, func, e, k) = items
    BY <1>12, <1>13 DEF LinkTrees
  <2>2. DOMAIN items = 1 .. 2 /\ items = [i \in 1 .. 2 |-> items[i]] /\ items[1] = k1 /\ items[2] = k2
    <3> HIDE DEF k1, k2
    <3> QED BY TwoAre
  <2> HIDE DEF items
  <2>3. Linked(func, x, g, 2)
    <3>1. x = [i \in 1 .. 2 |-> x[i]] /\ g[1] = x[1] /\ g[2] = e
      BY <1>3
    <3>2. \A i \in 1 .. 2 - 1 : i = 1
      OBVIOUS
    <3>3. g[1 + 1] = ParsedCall(Name(func), <<g[1], x[1 + 1]>>)
      BY <1>7
    <3> HIDE DEF g, x
    <3> QED BY <3>1, <3>2, <3>3 DEF Linked
  <2>4. g[2] = e
    OBVIOUS
  <2> HIDE DEF g
  <2>5. \A i \in 1 .. 2 : x[i] # Bad /\ x[i].t \notin {"Pair", "Field"} /\ CelGood(x[i], items[i])
    <3>1. \A i \in 1 .. 2 : i = 1 \/ i = 2
      OBVIOUS
    <3> QED BY <1>5, <1>6, <2>2, <3>1
  <2>6. v = Node(OpKey(nt, func), List(items))
    BY <1>11, <2>1 DEF key
  <2> HIDE DEF x
  <2>7. Chained(nt, func, e, v, 2, items, x, g)
    BY <2>2, <2>3, <2>4, <2>5, <2>6 DEF Chained
  <2> QED BY <2>7 DEF ChainFits, v, func
<1>14. CASE IsCall(e.a[1], func)
  <2>1. a1.t = "Call" /\ a1.at["fn"] = Name(func)
    BY <1>14 DEF IsCall
  <2>2. IsToken(a1.at["fn"], Variadic) /\ a1.at["fn"].s[1] = func
    BY <1>2, <2>1, NameIs
  <2>3. ChainFits(nt, func, a1, k1)
    BY <1>8, <2>1, <2>2 DEF CelShape
  <2>4. PICK n, items, x, g : Chained(nt, func, a1, k1, n, items, x, g)
    <3> HIDE DEF a1, k1
    <3> QED BY <2>3 DEF ChainFits
  <2>5. /\ n \in Nat /\ n >= 2 /\ x = [i \in 1 .. n |-> x[i]] /\ items = [i \in 1 .. n |-> items[i]]
        /\ g[1] = x[1] /\ g[n] = a1
        /\ \A i \in 1 .. n - 1 : g[i + 1] = ParsedCall(Name(func), <<g[i], x[i + 1]>>)
        /\ k1 = Node(OpKey(nt, func), List(items))
        /\ \A i \in 1 .. n : x[i] # Bad /\ x[i].t \notin {"Pair", "Field"} /\ CelGood(x[i], items[i])
    <3> HIDE DEF a1, k1
    <3> QED BY <2>4 DEF Chained, Linked
  <2> DEFINE all == items \o <<k2>>
             y == [i \in 1 .. n + 1 |-> IF i = n + 1 THEN a2 ELSE x[i]]
             h == [i \in 1 .. n + 1 |-> IF i = n + 1 THEN e ELSE g[i]]
  <2>6. ChainTrees(nt, func, e, k) = all
    <3>1. k1.f[OpKey(nt, func)].e = items
      <4> DEFINE o == OpKey(nt, func)
                 l == List(items)
      <4>1. l.e = items /\ k1 = Node(o, l)
        BY <2>5, ListIs
      <4> HIDE DEF o, l, k1
      <4>2. k1.f[o] = l
        BY <4>1 DEF Node, Obj
      <4> QED BY <4>1, <4>2 DEF o
    <3> QED BY <1>12, <1>14, <3>1 DEF LinkTrees
  <2>7. all = [i \in 1 .. n + 1 |-> all[i]] /\ all[n + 1] = k2 /\ \A i \in 1 .. n : all[i] = items[i]
    <3> DEFINE last == <<k2>>
    <3>1. Len(last) = 1 /\ last[1] = k2 /\ IsSequence(last)
      BY DEF IsSequence
    <3>2. Len(items) = n /\ IsSequence(items)
      BY <2>5 DEF IsSequence
    <3> HIDE DEF last, k2
    <3> DEFINE c == items \o last
    <3>3. IsConcat(c, items, last)
      BY <3>1, <3>2, ConcatIs
    <3>5. all = c
      BY DEF last
    <3> HIDE DEF c, all
    <3>4. c = [i \in 1 .. n + 1 |-> c[i]] /\ \A i \in 1 .. n + 1 : c[i] = IF i <= n THEN items[i] ELSE last[i - n]
      BY <3>1, <3>2, <3>3 DEF IsConcat, IsSequence
    <3>6. n + 1 \in 1 .. n + 1 /\ ~(n + 1 <= n) /\ (n + 1) - n = 1
      BY <2>5
    <3>7. c[n + 1] = last[1]
      BY <3>4, <3>6
    <3>8. \A i \in 1 .. n : c[i] = items[i]
      BY <2>5, <3>4
    <3> QED BY <3>1, <3>4, <3>5, <3>7, <3>8
  <2>8. /\ y = [i \in 1 .. n + 1 |-> y[i]] /\ y[n + 1] = a2 /\ \A i \in 1 .. n : y[i] = x[i]
    BY <2>5
  <2>9. h[n + 1] = e /\ \A i \in 1 .. n : h[i] = g[i]
    BY <2>5
  <2> HIDE DEF all, y, h
  <2>10. \A i \in 1 .. n : h[i + 1] = ParsedCall(Name(func), <<h[i], y[i + 1]>>)
    <3>1. ASSUME NEW i \in 1 .. n, i # n
          PROVE  h[i + 1] = ParsedCall(Name(func), <<h[i], y[i + 1]>>)
      <4>1. i \in 1 .. n - 1 /\ i + 1 \in 1 .. n
        BY <2>5, <3>1
      <4>2. h[i + 1] = g[i + 1] /\ h[i] = g[i] /\ y[i + 1] = x[i + 1]
        BY <2>8, <2>9, <4>1
      <4>3. g[i + 1] = ParsedCall(Name(func), <<g[i], x[i + 1]>>)
        BY <2>5, <4>1
      <4> QED BY <4>2, <4>3
    <3>2. h[n + 1] = ParsedCall(Name(func), <<h[n], y[n + 1]>>)
      <4>1. n \in 1 .. n
        BY <2>5
      <4>2. h[n] = a1
        BY <2>5, <2>9, <4>1
      <4>3. ParsedCall(Name(func), <<a1, a2>>) = e
        BY <1>7
      <4> HIDE DEF a1, a2
      <4> QED BY <2>8, <2>9, <4>2, <4>3
    <3> QED BY <3>1, <3>2
  <2>11. Linked(func, y, h, n + 1)
    <3>1. n + 1 \in Nat /\ n + 1 >= 2 /\ (n + 1) - 1 = n /\ 1 \in 1 .. n
      BY <2>5
    <3>2. h[1] = y[1]
      BY <2>5, <2>8, <2>9, <3>1
    <3> QED BY <2>8, <2>10, <3>1, <3>2 DEF Linked
  <2>12. \A i \in 1 .. n + 1 : y[i] # Bad /\ y[i].t \notin {"Pair", "Field"} /\ CelGood(y[i], all[i])
    <3>1. \A i \in 1 .. n + 1 : i = n + 1 \/ i \in 1 .. n
      BY <2>5
    <3> QED BY <1>5, <1>6, <2>5, <2>7, <2>8, <3>1
  <2>13. v = Node(OpKey(nt, func), List(all))
    BY <1>11, <2>6 DEF key
  <2> DEFINE l == n + 1
  <2>14. Chained(nt, func, e, v, l, all, y, h)
    BY <2>7, <2>9, <2>11, <2>12, <2>13 DEF Chained
  <2> HIDE DEF l
  <2> QED BY <2>14 DEF ChainFits, v, func
<1> QED BY <1>13, <1>14

-----------------------------------------------------------------------------
(* The methods. *)

(* What is written of one. *)
MemberWritten(f, func, k) ==
  /\ DOMAIN f \subseteq {"function", "target", "args"}
  /\ "function" \in DOMAIN f /\ f["function"] = func
  /\ "target" \in DOMAIN f /\ f["target"] = k[1]
  /\ ArgsWritten(f, Tail(k))

LEMMA MemberIsWritten ==
  ASSUME NEW func, NEW k
  PROVE  MemberWritten(Written([function |-> func, target |-> k[1], args |-> List(Tail(k))],
                               [x \in {"args"} |-> List(<<>>)]), func, k)
<1> DEFINE t == Tail(k)
           k1 == k[1]
           g == [function |-> func, target |-> k1, args |-> List(t)]
           u == [x \in {"args"} |-> List(<<>>)]
           f == Written(g, u)
<1>1. \A x \in DOMAIN g : \/ x \in DOMAIN f /\ f[x] = g[x] /\ (x \in DOMAIN u => g[x] # u[x])
                          \/ x \notin DOMAIN f /\ x \in DOMAIN u /\ g[x] = u[x]
  BY WrittenHas
<1>2. /\ DOMAIN g = {"function", "target", "args"} /\ g["function"] = func /\ g["target"] = k1 /\ g["args"] = List(t)
      /\ DOMAIN u = {"args"} /\ u["args"] = List(<<>>)
  OBVIOUS
<1>3. DOMAIN f \subseteq DOMAIN g
  BY DEF Written
<1>4. List(t).e = t /\ List(<<>>).e = <<>>
  BY ListIs
<1> HIDE DEF f, g, u, t, k1
<1>5. ArgsWritten(f, t)
  <2>1. CASE "args" \in DOMAIN f
    BY <1>1, <1>2, <2>1 DEF ArgsWritten
  <2>2. CASE "args" \notin DOMAIN f
    BY <1>1, <1>2, <1>4, <2>2 DEF ArgsWritten
  <2> QED BY <2>1, <2>2
<1>6. /\ DOMAIN f \subseteq {"function", "target", "args"}
      /\ "function" \in DOMAIN f /\ f["function"] = func /\ "target" \in DOMAIN f /\ f["target"] = k1
  BY <1>1, <1>2, <1>3
<1>7. MemberWritten(f, func, k)
  BY <1>5, <1>6 DEF MemberWritten, t, k1
<1> QED BY <1>7 DEF f, g, u, t, k1

(* The first operand, and the others after it. *)
LEMMA FirstAndOthers ==
  ASSUME NEW e, IsNode(e), Len(e.a) >= 1, NEW k, DOMAIN k = DOMAIN e.a, k = [i \in DOMAIN e.a |-> k[i]],
         NEW b, \A i \in DOMAIN e.a : b[k[i]] = e.a[i]
  PROVE  <<e.a[1]>> \o BuildList(Tail(k), b) = e.a
<1> DEFINE n == Len(e.a)
           t == Tail(k)
           args == BuildList(t, b)
           one == <<e.a[1]>>
           c == one \o args
<1>1. n \in Nat /\ n >= 1 /\ DOMAIN e.a = 1 .. n /\ e.a = [i \in 1 .. n |-> e.a[i]]
  BY OperandsAre
<1> HIDE DEF n
<1>2. IsSequence(k) /\ Len(k) = n
  BY <1>1 DEF IsSequence
<1>3. /\ IsSequence(t) /\ Len(t) = n - 1 /\ DOMAIN t = 1 .. n - 1
      /\ \A i \in 1 .. n - 1 : t[i] = k[i + 1]
  BY <1>1, <1>2, TailIs
<1> HIDE DEF t
<1>4. args = [i \in 1 .. n - 1 |-> b[t[i]]]
  BY <1>3 DEF BuildList
<1>5. IsSequence(args) /\ Len(args) = n - 1
  BY <1>1, <1>4 DEF IsSequence
<1>6. ASSUME NEW i \in 1 .. n - 1 PROVE args[i] = e.a[i + 1]
  <2> DEFINE j == i + 1
  <2>1. j \in DOMAIN e.a
    BY <1>1
  <2>2. t[i] = k[j]
    BY <1>3
  <2> HIDE DEF j
  <2>3. b[k[j]] = e.a[j]
    BY <2>1
  <2>4. args[i] = b[t[i]]
    BY <1>4
  <2>5. args[i] = e.a[j]
    BY <2>2, <2>3, <2>4
  <2> QED BY <2>5 DEF j
<1>7. IsSequence(one) /\ Len(one) = 1 /\ one[1] = e.a[1]
  BY DEF IsSequence
<1> HIDE DEF args, one
<1>8. IsConcat(c, one, args)
  BY <1>5, <1>7, ConcatIs
<1> HIDE DEF c
<1>9. c = [i \in 1 .. n |-> c[i]] /\ \A i \in 1 .. n : c[i] = IF i <= 1 THEN one[i] ELSE args[i - 1]
  BY <1>1, <1>5, <1>7, <1>8 DEF IsConcat, IsSequence
<1>10. ASSUME NEW i \in 1 .. n PROVE c[i] = e.a[i]
  <2>1. CASE i = 1
    BY <1>7, <1>9, <2>1
  <2>2. CASE i # 1
    <3> DEFINE j == i - 1
    <3>1. j \in 1 .. n - 1 /\ j + 1 = i /\ ~(i <= 1)
      BY <1>1, <2>2
    <3>2. c[i] = args[j]
      BY <1>9, <3>1
    <3> HIDE DEF j
    <3>3. args[j] = e.a[i]
      BY <1>6, <3>1
    <3> QED BY <3>2, <3>3
  <2> QED BY <2>1, <2>2
<1>11. c = e.a
  BY <1>1, <1>9, <1>10
<1> QED BY <1>11 DEF c, one, args, t

LEMMA MemberAgain ==
  ASSUME NEW e, IsNode(e), CelNode(e), e.t = "Member", NEW k, CelKnown(e, k), NEW U, Closed(U),
         NEW f, MemberWritten(f, e.at["fn"], k), NEW b, NEW C, Knows(U, b, C), Obj(f) \in C
  PROVE  EncodeCall(Obj(f), b) = e
<1> DEFINE func == e.at["fn"]
           t == Tail(k)
<1>1. HasAttributes(e, {"fn"}) /\ IsStr(func) /\ Len(e.a) >= 1 /\ CelValues(e.a)
  BY DEF CelNode, ConstantKinds
<1>2. func.k = "str" /\ Operands(e) /\ DOMAIN k = DOMAIN e.a /\ k = [i \in DOMAIN e.a |-> k[i]]
  BY <1>1 DEF IsStr, CelKnown
<1>3. /\ DOMAIN f \subseteq {"function", "target", "args"}
      /\ "function" \in DOMAIN f /\ f["function"] = func
      /\ "target" \in DOMAIN f /\ f["target"] = k[1]
      /\ ArgsWritten(f, t)
  BY DEF MemberWritten
<1>4. DOMAIN e.a = 1 .. Len(e.a) /\ Len(e.a) \in Nat
  BY OperandsAre
<1>5. 1 \in DOMAIN e.a
  BY <1>1, <1>4
<1>6. IsSequence(k) /\ Len(k) = Len(e.a)
  BY <1>2, <1>4 DEF IsSequence
<1>7. /\ IsSequence(t) /\ DOMAIN t = 1 .. Len(e.a) - 1
      /\ \A i \in 1 .. Len(e.a) - 1 : t[i] = k[i + 1]
  BY <1>1, <1>6, TailIs
<1>8. Closed(C) /\ k[1] \in C
  BY <1>3, ObjWithin DEF Knows
<1>9. Obj(f).k = "obj" /\ Obj(f).f = f /\ List(t).k = "list" /\ List(t).e = t
  BY ObjIs, ListIs
<1> HIDE DEF t
<1>10. ASSUME NEW i \in DOMAIN e.a PROVE b[k[i]] = e.a[i]
  <2>1. Makes(U, k[i], e.a[i])
    BY <1>1, ValueKnown
  <2>2. k[i] \in C
    <3>1. CASE i = 1
      BY <1>8, <3>1
    <3>2. CASE i # 1
      <4> DEFINE j == i - 1
                 n == Len(e.a)
      <4>1. n \in Nat /\ i \in 1 .. n /\ DOMAIN t = 1 .. n - 1
        BY <1>4, <1>7
      <4> HIDE DEF n
      <4>2. j \in 1 .. n - 1 /\ j + 1 = i
        BY <3>2, <4>1
      <4> HIDE DEF j
      <4>3. t[j] = k[i]
        BY <1>7, <4>2 DEF n
      <4>4. "args" \in DOMAIN f
        BY <1>3, <4>1, <4>2 DEF ArgsWritten
      <4>5. List(t) \in C
        BY <1>3, <1>8, <4>4, ObjWithin DEF ArgsWritten
      <4>6. t[j] \in C
        BY <1>8, <4>1, <4>2, <4>5, ListWithin
      <4> QED BY <4>3, <4>6
    <3> QED BY <3>1, <3>2
  <2> QED BY <2>1, <2>2, KnownIs
<1>11. <<e.a[1]>> \o BuildList(t, b) = e.a
  BY <1>1, <1>2, <1>10, FirstAndOthers DEF t
<1>12. b[k[1]] = e.a[1]
  BY <1>5, <1>10
<1> DEFINE at == [x \in {"fn"} |-> func]
<1>13. EncodeCall(Obj(f), b) = Of("Member", at, <<e.a[1]>> \o BuildList(t, b))
  <2>1. Only(Obj(f), {"function", "target", "args"}) /\ Has(f, "function") /\ Has(f, "target")
    BY <1>3, <1>9 DEF Only, Has
  <2>2. CASE "args" \in DOMAIN f
    <3>1. f["args"] = List(t)
      BY <1>3, <2>2 DEF ArgsWritten
    <3> QED BY <1>2, <1>3, <1>9, <1>12, <2>1, <2>2, <3>1 DEF EncodeCall, Has
  <2>3. CASE "args" \notin DOMAIN f
    <3>1. t = <<>>
      BY <1>3, <2>3 DEF ArgsWritten
    <3> QED BY <1>2, <1>3, <1>9, <1>12, <2>1, <2>3, <3>1 DEF EncodeCall, Has
  <2> QED BY <2>2, <2>3
<1>14. at = e.at /\ e = Ast("Member", e.at, e.a)
  BY <1>1 DEF HasAttributes, IsNode
<1> HIDE DEF at
<1>15. \A i \in DOMAIN e.a : e.a[i] # Bad
  BY <1>2, CelNodeNotBad DEF Operands
<1>16. Of("Member", at, e.a) = Ast("Member", at, e.a)
  BY <1>15, OfAll
<1> QED BY <1>11, <1>13, <1>14, <1>16

LEMMA CelMemberMade ==
  ASSUME NEW nt, NEW e, IsNode(e), CelNode(e), e.t = "Member", NEW k, CelKnown(e, k), NEW U, Closed(U)
  PROVE  Makes(U, CelTreeNode(nt, e, k), e)
<1> DEFINE f == Written([function |-> e.at["fn"], target |-> k[1], args |-> List(Tail(k))],
                        [x \in {"args"} |-> List(<<>>)])
           w == Obj(f)
           key == CallKey(nt)
<1>1. CelTreeNode(nt, e, k) = Node(key, w)
  BY DEF CelTreeNode, CelMember, ConstantKinds
<1>2. MemberWritten(f, e.at["fn"], k)
  BY MemberIsWritten
<1>3. key \in {"call", "call_expr"}
  BY DEF CallKey
<1> HIDE DEF f, key
<1>4. ASSUME NEW b, NEW C, Knows(U, b, C), w \in C PROVE CelBuildKeyed(key, w, b) = e
  <2>1. EncodeCall(w, b) = e
    BY <1>2, <1>4, MemberAgain
  <2> HIDE DEF w
  <2>2. CASE key = "call"
    BY <2>1, <2>2, KeyedIs
  <2>3. CASE key = "call_expr"
    BY <2>1, <2>3, KeyedIs
  <2> QED BY <1>3, <2>2, <2>3
<1> HIDE DEF w
<1>5. Makes(U, Node(key, w), e)
  BY <1>4, KeyMakes
<1> QED BY <1>1, <1>5

(* What a holder makes of the tree of a node. *)

LEMMA KeyNotOptional ==
  ASSUME NEW key, key # "optional", NEW w
  PROVE  ~IsOptional(Node(key, w))
<1> DEFINE v == Node(key, w)
<1>1. SoleKey(v) = key
  BY NodeIs
<1> HIDE DEF v
<1> QED BY <1>1 DEF IsOptional, v

LEMMA ScalarNotOptional ==
  ASSUME NEW v, v.k # "obj"
  PROVE  ~IsOptional(v)
  BY DEF IsOptional, Sole

LEMMA ConstantNotOptional ==
  ASSUME NEW nt, NEW e, IsNode(e), CelNode(e), e.t \in ConstantKinds
  PROVE  ~IsOptional(ConstNode(nt, e))
<1> DEFINE kind == e.t
           v == e.at["value"]
<1>1. IsConstant(e)
  BY DEF CelNode, ConstantKinds
<1>2. CASE kind = "bytes_value"
  <2>1. ConstNode(nt, e) = Node("raw", Source(e))
    BY <1>2 DEF ConstNode
  <2> QED BY <2>1, KeyNotOptional
<1>3. CASE kind # "bytes_value" /\ nt = "canonical"
  <2>1. ConstNode(nt, e) = Node("const_expr", Node(kind, v))
    BY <1>3 DEF ConstNode
  <2> QED BY <2>1, KeyNotOptional
<1>4. CASE nt # "canonical" /\ kind \in {"uint64_value", "double_value"}
  <2>1. ConstNode(nt, e) = Node("const", Node(kind, v))
    BY <1>4 DEF ConstNode
  <2> QED BY <2>1, KeyNotOptional
<1>5. CASE nt # "canonical" /\ kind \in {"null_value", "bool_value", "int64_value", "string_value"}
  <2>1. ConstNode(nt, e) = v
    BY <1>5 DEF ConstNode
  <2>2. v.k \in {"nil", "bool", "num", "str"}
    BY <1>1, <1>5 DEF IsConstant, HasKind, Nil
  <2> QED BY <2>1, <2>2, ScalarNotOptional
<1> QED BY <1>2, <1>3, <1>4, <1>5 DEF ConstantKinds

LEMMA OperatorNotOptional ==
  ASSUME NEW nt, NEW func \in OperatorFunctions, NEW e, NEW k
  PROVE  ~IsOptional(DecodeOperator(nt, func, e, k))
<1> DEFINE key == OpKey(nt, func)
<1>1. key # "optional"
  BY NamedAgain DEF OtherKeys
<1> HIDE DEF key
<1>2. \E w : DecodeOperator(nt, func, e, k) = Node(key, w)
  BY DEF DecodeOperator, key
<1> QED BY <1>1, <1>2, KeyNotOptional

LEMMA CallNotOptional ==
  ASSUME NEW nt, NEW e, IsNode(e), CelNode(e), e.t = "Call", NEW k
  PROVE  ~IsOptional(CelCall(nt, e, k))
<1> DEFINE func == e.at["fn"]
<1>1. CASE nt # "canonical" /\ IsReference(e)
  <2>1. \E key, w : CelCall(nt, e, k) = Node(key, w) /\ key # "optional"
    BY <1>1 DEF CelCall
  <2> QED BY <2>1, KeyNotOptional
<1>2. CASE IsToken(func, OperatorFunctions) /\ ~(nt # "canonical" /\ IsReference(e))
  <2>1. IsStr(func)
    BY CallIs
  <2>2. func.s[1] \in OperatorFunctions
    BY <1>2, <2>1, TokenIs
  <2>3. CelCall(nt, e, k) = IF nt = "canonical" THEN Node("call_expr", Obj([function |-> func, args |-> List(k)]))
                            ELSE DecodeOperator(nt, func.s[1], e, k)
    BY <1>2 DEF CelCall
  <2> QED BY <2>2, <2>3, KeyNotOptional, OperatorNotOptional
<1>3. CASE ~IsToken(func, OperatorFunctions) /\ ~(nt # "canonical" /\ IsReference(e))
  <2>1. \E w : CelCall(nt, e, k) = Node(CallKey(nt), w)
    BY <1>3 DEF CelCall
  <2>2. CallKey(nt) # "optional"
    BY DEF CallKey
  <2> QED BY <2>1, <2>2, KeyNotOptional
<1> QED BY <1>1, <1>2, <1>3

LEMMA SelectNotOptional ==
  ASSUME NEW nt, NEW e, NEW k
  PROVE  ~IsOptional(CelSelect(nt, e, k))
<1>1. ASSUME NEW x PROVE \E key, w : SelectTree(nt, x, k) = Node(key, w) /\ key # "optional"
  <2>1. CASE nt # "canonical" /\ IsReference(x)
    BY <2>1 DEF SelectTree
  <2>2. CASE ~(nt # "canonical" /\ IsReference(x))
    BY <2>2 DEF SelectTree
  <2> QED BY <2>1, <2>2
<1>2. \E key, w : CelSelect(nt, e, k) = Node(key, w) /\ key # "optional"
  <2>1. CASE e.at["test_only"] = Bool(TRUE) /\ nt # "canonical"
    BY <2>1 DEF CelSelect
  <2>2. CASE ~(e.at["test_only"] = Bool(TRUE) /\ nt # "canonical")
    <3>1. CelSelect(nt, e, k) = SelectTree(nt, e, k)
      BY <2>2 DEF CelSelect
    <3> QED BY <1>1, <3>1
  <2> QED BY <2>1, <2>2
<1> QED BY <1>2, KeyNotOptional

LEMMA ListNotOptional ==
  ASSUME NEW nt, NEW e, NEW k
  PROVE  ~IsOptional(DecodeList(nt, e, k))
<1>1. CASE nt = "canonical"
  <2>1. \E w : DecodeList(nt, e, k) = Node("list_expr", w)
    BY <1>1 DEF DecodeList
  <2> QED BY <2>1, KeyNotOptional
<1>2. CASE nt # "canonical"
  <2>1. \E s : DecodeList(nt, e, k) = List(s)
    BY <1>2 DEF DecodeList
  <2>2. \A s : List(s).k # "obj"
    BY DEF List
  <2> QED BY <2>1, <2>2, ScalarNotOptional
<1> QED BY <1>1, <1>2

LEMMA CelNotOptional ==
  ASSUME NEW nt, NEW e, IsNode(e), CelNode(e), e.t \notin {"Pair", "Field"}, NEW k
  PROVE  ~IsOptional(CelTreeNode(nt, e, k))
<1> DEFINE v == CelTreeNode(nt, e, k)
<1>1. CASE e.t \in ConstantKinds
  <2>1. v = ConstNode(nt, e)
    BY <1>1 DEF CelTreeNode, ConstantKinds
  <2> QED BY <1>1, <2>1, ConstantNotOptional
<1>2. CASE e.t = "Ident"
  <2>1. \E key, w : v = Node(key, w) /\ key # "optional"
    BY <1>2 DEF CelTreeNode, ConstantKinds
  <2> QED BY <2>1, KeyNotOptional
<1>3. CASE e.t = "Select"
  <2>1. v = CelSelect(nt, e, k)
    BY <1>3 DEF CelTreeNode, ConstantKinds
  <2> QED BY <2>1, SelectNotOptional
<1>4. CASE e.t = "Call"
  <2>1. v = CelCall(nt, e, k)
    BY <1>4 DEF CelTreeNode, ConstantKinds
  <2> QED BY <1>4, <2>1, CallNotOptional
<1>5. CASE e.t = "Member"
  <2>1. \E w : v = Node(CallKey(nt), w)
    BY <1>5 DEF CelTreeNode, CelMember, ConstantKinds
  <2>2. CallKey(nt) # "optional"
    BY DEF CallKey
  <2> QED BY <2>1, <2>2, KeyNotOptional
<1>6. CASE e.t = "List"
  <2>1. v = DecodeList(nt, e, k)
    BY <1>6 DEF CelTreeNode, ConstantKinds
  <2> QED BY <2>1, ListNotOptional
<1>7. CASE e.t \in {"Map", "Struct"}
  <2>1. \E w : v = Node("struct_expr", w)
    BY <1>7 DEF CelTreeNode, ConstantKinds
  <2> QED BY <2>1, KeyNotOptional
<1>8. e.t \in ConstantKinds \cup {"Ident", "Select", "Call", "Member", "List", "Map", "Struct"}
  BY DEF CelNode, ConstantKinds
<1> QED BY <1>1, <1>2, <1>3, <1>4, <1>5, <1>6, <1>7, <1>8

(* The tree of a node is good when those of its operands are. *)
CelAllFit(nt, e, k) == CelKnown(e, k) /\ \A i \in DOMAIN e.a : CelShape(nt, e.a[i], k[i])

LEMMA CelCallMade ==
  ASSUME NEW nt, NEW e, IsNode(e), CelNode(e), Finite(e), e.t = "Call", NEW k, CelAllFit(nt, e, k), NEW U, Closed(U)
  PROVE  Makes(U, CelTreeNode(nt, e, k), e)
<1> DEFINE fn == e.at["fn"]
           func == fn.s[1]
<1>1. CelKnown(e, k) /\ \A i \in DOMAIN e.a : CelShape(nt, e.a[i], k[i])
  BY DEF CelAllFit
<1>2. CASE nt # "canonical" /\ IsReference(e)
  <2>1. CelTreeNode(nt, e, k) = Node("ident", Source(e))
    BY <1>2 DEF CelTreeNode, CelCall, ConstantKinds
  <2>2. Makes(U, Node("ident", Source(e)), e)
    BY <1>2, ReferenceMakes
  <2> QED BY <2>1, <2>2
<1>3. CASE ~(nt # "canonical" /\ IsReference(e)) /\ (nt = "canonical" \/ ~IsToken(fn, OperatorFunctions))
  BY <1>1, <1>3, CelPlainCall
<1>4. CASE nt # "canonical" /\ ~IsReference(e) /\ IsToken(fn, OperatorFunctions)
  <2>1. IsStr(fn)
    BY CallIs
  <2>2. fn = Name(func) /\ func \in OperatorFunctions
    BY <1>4, <2>1, TokenIs
  <2>3. CelTreeNode(nt, e, k) = DecodeOperator(nt, func, e, k)
    BY <1>4 DEF CelTreeNode, CelCall, ConstantKinds
  <2>4. CASE func \in Variadic
    <3>1. IsToken(fn, Variadic)
      BY <1>4, <2>4 DEF IsToken
    <3>2. ChainFits(nt, func, e, DecodeOperator(nt, func, e, k))
      BY <1>1, <1>4, <3>1, CelChain
    <3> QED BY <2>3, <2>4, <3>2, ChainMakes
  <2>5. CASE func \notin Variadic
    <3>1. IsToken(fn, OperatorFunctions \ Variadic)
      BY <1>4, <2>2, <2>5 DEF IsToken
    <3>2. Makes(U, DecodeOperator(nt, func, e, k), e)
      BY <1>1, <3>1, CelUnary, CelOperands
    <3> QED BY <2>3, <3>2
  <2> QED BY <2>4, <2>5
<1> QED BY <1>2, <1>3, <1>4

LEMMA CelShapeOf ==
  ASSUME NEW nt, NEW e, IsNode(e), CelNode(e), Finite(e), NEW k, CelAllFit(nt, e, k)
  PROVE  CelShape(nt, e, CelTreeNode(nt, e, k))
<1> DEFINE fn == e.at["fn"]
           func == fn.s[1]
<1>1. CelKnown(e, k) /\ \A i \in DOMAIN e.a : CelShape(nt, e.a[i], k[i])
  BY DEF CelAllFit
<1>2. ASSUME nt # "canonical", e.t = "Call", IsToken(fn, Variadic)
      PROVE  ChainFits(nt, func, e, CelTreeNode(nt, e, k))
  <2>1. ChainFits(nt, func, e, DecodeOperator(nt, func, e, k))
    BY <1>1, <1>2, CelChain
  <2>2. ~IsReference(e)
    BY <1>2, ChainNotReference
  <2>3. IsToken(fn, OperatorFunctions)
    BY <1>2 DEF IsToken, OperatorFunctions
  <2>4. CelTreeNode(nt, e, k) = DecodeOperator(nt, func, e, k)
    BY <1>2, <2>2, <2>3 DEF CelTreeNode, CelCall, ConstantKinds
  <2> QED BY <2>1, <2>4
<1>3. e.t \notin {"Pair", "Field"} => ~IsOptional(CelTreeNode(nt, e, k))
  BY CelNotOptional
<1> QED BY <1>2, <1>3 DEF CelShape

LEMMA CelGoodNode ==
  ASSUME NEW nt, NEW e, IsNode(e), CelNode(e), Finite(e), NEW k, CelAllFit(nt, e, k)
  PROVE  CelGood(e, CelTreeNode(nt, e, k))
<1> DEFINE v == CelTreeNode(nt, e, k)
<1>1. CelKnown(e, k) /\ \A i \in DOMAIN e.a : CelShape(nt, e.a[i], k[i])
  BY DEF CelAllFit
<1>2. SUFFICES ASSUME NEW U, Closed(U)
               PROVE  IF e.t \in {"Pair", "Field"}
                      THEN \A b, C : Knows(U, b, C) /\ v \in C => CelEntry(v, b) = e
                      ELSE Makes(U, v, e)
  BY DEF CelGood
<1>3. CASE e.t \in {"Pair", "Field"}
  BY <1>2, <1>1, <1>3, CelPair, CelField
<1>4. CASE e.t \in ConstantKinds
  <2>1. v = ConstNode(nt, e)
    BY <1>4 DEF CelTreeNode, ConstantKinds
  <2>2. e.t \notin {"Pair", "Field"}
    BY <1>4 DEF ConstantKinds
  <2>3. Makes(U, ConstNode(nt, e), e)
    BY <1>2, <1>4, CelConstant
  <2> QED BY <2>1, <2>2, <2>3
<1>5. CASE e.t = "Ident"
  BY <1>2, <1>5, CelIdent
<1>6. CASE e.t = "Select"
  BY <1>2, <1>1, <1>6, CelSelectMade
<1>7. CASE e.t = "Call"
  BY <1>2, <1>7, CelCallMade
<1>8. CASE e.t = "Member"
  BY <1>2, <1>1, <1>8, CelMemberMade
<1>9. CASE e.t = "List"
  <2>1. CelValues(e.a) /\ DOMAIN k = DOMAIN e.a
    BY <1>1, <1>9 DEF CelNode, ConstantKinds, CelKnown
  <2>2. NoOptional(k)
    BY <1>1, <2>1 DEF CelValues, CelShape, NoOptional
  <2>3. Makes(U, v, e)
    <3> HIDE DEF v
    <3>1. CASE nt # "canonical"
      BY <1>2, <1>1, <1>9, <2>2, <3>1, CelListBare DEF v
    <3>2. CASE nt = "canonical"
      BY <1>2, <1>1, <1>9, <2>2, <3>2, CelListNamed DEF v
    <3> QED BY <3>1, <3>2
  <2> QED BY <1>9, <2>3
<1>10. CASE e.t = "Map"
  BY <1>2, <1>1, <1>10, CelMap
<1>11. CASE e.t = "Struct"
  BY <1>2, <1>1, <1>11, CelStruct
<1>12. e.t \in ConstantKinds \cup {"Ident", "Select", "Call", "Member", "List", "Map", "Struct", "Pair", "Field"}
  BY DEF CelNode, ConstantKinds
<1> QED BY <1>3, <1>4, <1>5, <1>6, <1>7, <1>8, <1>9, <1>10, <1>11, <1>12

(* The tree of a node has few layers more than those of its operands. *)

LEMMA MildHeld ==
  ASSUME NEW v, NEW n \in Nat, NEW kinds, Mild(v, n, kinds), NEW w \in HeldBy(v)
  PROVE  Mild(w, n, kinds)
<1>1. Short(w, n)
  <2>1. n - 1 \in Nat /\ Short(w, n - 1) /\ n - 1 <= n
    BY HeldShort DEF Mild
  <2> DEFINE m == n - 1
  <2>2. m \in Nat /\ Short(w, m) /\ m <= n
    BY <2>1
  <2> HIDE DEF m
  <2> QED BY <2>2, ShortMore
<1>2. ASSUME NEW i \in Nat, NEW x \in Layer(w, i) PROVE ~Odd(x, kinds)
  <2>1. x \in Layer(v, i + 1)
    BY <1>2, LayerBelow
  <2>2. i + 1 \in Nat
    OBVIOUS
  <2> QED BY <2>1, <2>2 DEF Mild
<1> QED BY <1>1, <1>2 DEF Mild

LEMMA MildItems ==
  ASSUME NEW key, NEW s, NEW n \in Nat, NEW kinds, Mild(Node(key, List(s)), n, kinds)
  PROVE  MildAll(s, n, kinds)
<1> DEFINE l == List(s)
<1>1. HeldBy(l) = {s[i] : i \in DOMAIN s}
  BY ListIs
<1> HIDE DEF l
<1>2. HeldBy(Node(key, l)) = {l}
  BY NodeHolds
<1> DEFINE v == Node(key, l)
<1>3. Mild(v, n, kinds) /\ HeldBy(v) = {l}
  BY <1>2 DEF l
<1> HIDE DEF v
<1>4. Mild(l, n, kinds)
  BY <1>3, MildHeld
<1>5. \A i \in DOMAIN s : Mild(s[i], n, kinds)
  BY <1>1, <1>4, MildHeld
<1> QED BY <1>5 DEF MildAll

LEMMA MildConcat ==
  ASSUME NEW s, IsSequence(s), NEW t, IsSequence(t), NEW n, NEW kinds, MildAll(s, n, kinds), MildAll(t, n, kinds)
  PROVE  MildAll(s \o t, n, kinds)
<1> DEFINE c == s \o t
           p == Len(s)
           q == Len(t)
<1>1. IsConcat(c, s, t)
  BY ConcatIs
<1> HIDE DEF c
<1>2. /\ p \in Nat /\ q \in Nat /\ DOMAIN c = 1 .. p + q /\ DOMAIN s = 1 .. p /\ DOMAIN t = 1 .. q
      /\ \A i \in 1 .. p + q : c[i] = IF i <= p THEN s[i] ELSE t[i - p]
  BY <1>1 DEF IsConcat, IsSequence
<1> HIDE DEF p, q
<1>3. ASSUME NEW i \in DOMAIN c PROVE Mild(c[i], n, kinds)
  <2>1. CASE i <= p
    <3>1. c[i] = s[i] /\ i \in DOMAIN s
      BY <1>2, <2>1
    <3> QED BY <3>1 DEF MildAll
  <2>2. CASE ~(i <= p)
    <3> DEFINE j == i - p
    <3>1. c[i] = t[j] /\ j \in DOMAIN t
      BY <1>2, <2>2
    <3> HIDE DEF j
    <3> QED BY <3>1 DEF MildAll
  <2> QED BY <2>1, <2>2
<1> QED BY <1>3 DEF MildAll, c

LEMMA OneIs ==
  ASSUME NEW x
  PROVE  IsSequence(<<x>>) /\ DOMAIN <<x>> = {1} /\ <<x>>[1] = x
  BY DEF IsSequence

LEMMA MildOne ==
  ASSUME NEW x, NEW n, NEW kinds, Mild(x, n, kinds)
  PROVE  MildAll(<<x>>, n, kinds)
  BY OneIs DEF MildAll

(* The items of a chain are those of the chain it goes on. *)
LEMMA MildChain ==
  ASSUME NEW nt, nt # "canonical", NEW e, IsNode(e), CelNode(e), e.t = "Call", IsToken(e.at["fn"], Variadic),
         NEW k, DOMAIN k = DOMAIN e.a, \A i \in DOMAIN e.a : CelShape(nt, e.a[i], k[i]),
         NEW n \in Nat, NEW kinds, MildAll(k, n, kinds)
  PROVE  MildAll(ChainTrees(nt, e.at["fn"].s[1], e, k), n, kinds)
<1> DEFINE func == e.at["fn"].s[1]
           a1 == e.a[1]
           k1 == k[1]
           k2 == k[2]
<1>1. /\ IsStr(e.at["fn"]) /\ Len(e.a) = 2 /\ ~IsChain(e.a[2], e.at["fn"])
  BY CallIs
<1>2. e.at["fn"] = Name(func) /\ func \in Variadic
  BY <1>1, TokenIs
<1>3. 1 \in DOMAIN e.a /\ 2 \in DOMAIN e.a
  BY <1>1, OperandsAre
<1>4. CelShape(nt, a1, k1) /\ Mild(k1, n, kinds) /\ Mild(k2, n, kinds)
  BY <1>3 DEF MildAll
<1>5. ~IsCall(e.a[2], func)
  BY <1>1, <1>2 DEF IsCall, IsChain
<1> HIDE DEF func
<1>6. ChainTrees(nt, func, e, k) = LinkTrees(nt, func, a1, k1) \o <<k2>>
  BY <1>5 DEF ChainTrees, LinkTrees
<1> DEFINE first == LinkTrees(nt, func, a1, k1)
           last == <<k2>>
<1> HIDE DEF a1, k1, k2
<1>7. IsSequence(first) /\ MildAll(first, n, kinds)
  <2>1. CASE ~IsCall(a1, func)
    <3>1. first = <<k1>>
      BY <2>1 DEF LinkTrees
    <3>2. IsSequence(<<k1>>) /\ MildAll(<<k1>>, n, kinds)
      BY <1>4, OneIs, MildOne
    <3> QED BY <3>1, <3>2
  <2>2. CASE IsCall(a1, func)
    <3>1. a1.t = "Call" /\ a1.at["fn"] = Name(func)
      BY <2>2 DEF IsCall
    <3>2. IsToken(a1.at["fn"], Variadic) /\ a1.at["fn"].s[1] = func
      BY <1>2, <3>1, NameIs
    <3>3. ChainFits(nt, func, a1, k1)
      BY <1>4, <3>1, <3>2 DEF CelShape
    <3>4. PICK m, items, x, g : Chained(nt, func, a1, k1, m, items, x, g)
      BY <3>3 DEF ChainFits
    <3>5. m \in Nat /\ items = [i \in 1 .. m |-> items[i]] /\ k1 = Node(OpKey(nt, func), List(items))
      BY <3>4 DEF Chained, Linked
    <3>6. IsSequence(items)
      BY <3>5 DEF IsSequence
    <3> DEFINE o == OpKey(nt, func)
               l == List(items)
    <3>7. k1 = Node(o, List(items)) /\ k1 = Node(o, l) /\ l.e = items
      BY <3>5, ListIs
    <3>8. MildAll(items, n, kinds)
      <4> HIDE DEF o, l
      <4>1. Mild(Node(o, List(items)), n, kinds)
        BY <1>4, <3>7
      <4> QED BY <4>1, MildItems
    <3>9. k1.f[o] = l
      <4> HIDE DEF o, l
      <4> QED BY <3>7 DEF Node, Obj
    <3>10. first = items
      <4>1. first = k1.f[o].e
        BY <2>2 DEF LinkTrees
      <4> QED BY <3>7, <3>9, <4>1
    <3> QED BY <3>6, <3>8, <3>10
  <2> QED BY <2>1, <2>2
<1>8. IsSequence(last) /\ MildAll(last, n, kinds)
  BY <1>4, OneIs, MildOne
<1> HIDE DEF first, last
<1>9. MildAll(first \o last, n, kinds)
  BY <1>7, <1>8, MildConcat
<1> QED BY <1>6, <1>9 DEF first, last, func

LEMMA MildText ==
  ASSUME NEW e, NEW key, NEW n \in Nat, NEW kinds
  PROVE  Mild(Node(key, Source(e)), n + 5, kinds)
<1> DEFINE v == Source(e)
<1>1. v.k \notin {"list", "obj", "ast"} /\ ~Odd(v, kinds)
  BY DEF Source, Odd
<1> HIDE DEF v
<1>2. n + 4 \in Nat /\ 1 <= n + 4 /\ (n + 4) + 1 = n + 5
  OBVIOUS
<1> DEFINE m == n + 4
<1>3. m \in Nat /\ 1 <= m /\ m + 1 = n + 5
  BY <1>2
<1> HIDE DEF m
<1>4. Mild(v, m, kinds)
  BY <1>1, <1>3, MildScalar
<1>5. Mild(Node(key, v), m + 1, kinds)
  BY <1>3, <1>4, MildNode
<1> QED BY <1>3, <1>5 DEF v

LEMMA MildWords ==
  ASSUME NEW v, v.k \in {"str", "bool", "nil"}, NEW kinds, NEW m \in Nat, 1 <= m
  PROVE  Mild(v, m, kinds)
<1>1. v.k \notin {"list", "obj", "ast"} /\ ~Odd(v, kinds)
  BY DEF Odd
<1> QED BY <1>1, MildScalar

LEMMA MildConstant ==
  ASSUME NEW nt, NEW e, IsNode(e), CelNode(e), e.t \in ConstantKinds, NEW n \in Nat, NEW kinds,
         "value" \in DOMAIN e.at => ~Odd(e.at["value"], kinds)
  PROVE  Mild(ConstNode(nt, e), n + 5, kinds)
<1> DEFINE kind == e.t
           v == e.at["value"]
<1>0. /\ n + 1 \in Nat /\ n + 2 \in Nat /\ n + 3 \in Nat /\ n + 5 \in Nat /\ (n + 1) + 1 = n + 2 /\ (n + 2) + 1 = n + 3
      /\ n + 3 <= n + 5 /\ 1 <= n + 1 /\ 1 <= n + 5
  OBVIOUS
<1>1. IsConstant(e)
  BY DEF CelNode, ConstantKinds
<1>2. "value" \in DOMAIN e.at
  BY <1>1 DEF IsConstant, IsLiteral, HasAttributes
<1>3. ~Odd(v, kinds)
  BY <1>2
<1>4. kind # "bytes_value" => v.k \notin {"list", "obj", "ast"}
  BY <1>1 DEF IsConstant, HasKind, Nil, ConstantKinds
<1>5. CASE kind = "bytes_value"
  <2>1. ConstNode(nt, e) = Node("raw", Source(e))
    BY <1>5 DEF ConstNode
  <2> QED BY <2>1, MildText
<1>6. ASSUME NEW key, kind # "bytes_value"
      PROVE  Mild(Node(key, Node(kind, v)), n + 5, kinds)
  <2> HIDE DEF v, kind
  <2>1. Mild(v, n + 1, kinds)
    BY <1>0, <1>3, <1>4, <1>6, MildScalar
  <2> DEFINE w == Node(kind, v)
  <2>2. Mild(w, n + 2, kinds)
    BY <1>0, <2>1, MildNode
  <2> HIDE DEF w
  <2>3. Mild(Node(key, w), n + 3, kinds)
    BY <1>0, <2>2, MildNode
  <2>4. Mild(Node(key, w), n + 5, kinds)
    BY <1>0, <2>3, MildMore
  <2> QED BY <2>4 DEF w
<1>7. CASE kind # "bytes_value" /\ nt = "canonical"
  <2>1. ConstNode(nt, e) = Node("const_expr", Node(kind, v))
    BY <1>7 DEF ConstNode
  <2> QED BY <1>6, <1>7, <2>1
<1>8. CASE nt # "canonical" /\ kind \in {"uint64_value", "double_value"}
  <2>1. ConstNode(nt, e) = Node("const", Node(kind, v))
    BY <1>8 DEF ConstNode
  <2> QED BY <1>6, <1>8, <2>1
<1>9. CASE nt # "canonical" /\ kind \in {"null_value", "bool_value", "int64_value", "string_value"}
  <2>1. ConstNode(nt, e) = v
    BY <1>9 DEF ConstNode
  <2>2. Mild(v, n + 5, kinds)
    <3> HIDE DEF v
    <3> QED BY <1>0, <1>3, <1>4, <1>9, MildScalar
  <2> QED BY <2>1, <2>2
<1> QED BY <1>5, <1>7, <1>8, <1>9 DEF ConstantKinds

LEMMA MildFieldsOf ==
  ASSUME NEW key, NEW f, NEW n \in Nat, NEW kinds, \A x \in DOMAIN f : Mild(f[x], n + 1, kinds)
  PROVE  Mild(Node(key, Obj(f)), n + 5, kinds)
<1>1. n + 1 \in Nat /\ n + 3 \in Nat /\ n + 1 <= n + 3
  OBVIOUS
<1>2. \A x \in DOMAIN f : Mild(f[x], n + 3, kinds)
  BY <1>1, MildMore
<1> QED BY <1>2, MildFields

LEMMA MildSelect ==
  ASSUME NEW nt, NEW e, e.at["field"].k = "str", e.at["test_only"].k = "bool",
         NEW k, NEW n \in Nat, NEW kinds, 1 <= n, Mild(k[1], n, kinds)
  PROVE  Mild(SelectTree(nt, e, k), n + 2, kinds)
<1>0. n + 1 \in Nat /\ n + 2 \in Nat /\ (n + 1) + 1 = n + 2 /\ n \in Nat
  OBVIOUS
<1>1. CASE nt # "canonical" /\ IsReference(e)
  <2>1. SelectTree(nt, e, k) = Node("ident", Source(e))
    BY <1>1 DEF SelectTree
  <2> DEFINE v == Source(e)
  <2>2. v.k \notin {"list", "obj", "ast"} /\ ~Odd(v, kinds)
    BY DEF Source, Odd
  <2>3. 1 <= n + 1
    OBVIOUS
  <2> HIDE DEF v
  <2>4. Mild(v, n + 1, kinds)
    BY <1>0, <2>2, <2>3, MildScalar
  <2>5. Mild(Node("ident", v), n + 2, kinds)
    BY <1>0, <2>4, MildNode
  <2> QED BY <2>1, <2>5 DEF v
<1>2. CASE ~(nt # "canonical" /\ IsReference(e))
  <2> DEFINE g == [operand |-> k[1], field |-> e.at["field"], test_only |-> e.at["test_only"]]
             u == [x \in {"test_only"} |-> Bool(FALSE)]
             w == Obj(Written(g, u))
  <2>1. SelectTree(nt, e, k) = Node("select_expr", w)
    BY <1>2 DEF SelectTree
  <2>2. Mild(e.at["field"], n, kinds) /\ Mild(e.at["test_only"], n, kinds)
    BY MildWords
  <2>3. \A x \in DOMAIN g : Mild(g[x], n, kinds)
    BY <2>2
  <2> HIDE DEF g, u
  <2>4. Mild(w, n + 1, kinds)
    BY <2>3, MildWritten
  <2> HIDE DEF w
  <2>5. Mild(Node("select_expr", w), n + 2, kinds)
    BY <1>0, <2>4, MildNode
  <2> QED BY <2>1, <2>5
<1> QED BY <1>1, <1>2

LEMMA MildCelSelect ==
  ASSUME NEW nt, NEW e, IsNode(e), CelNode(e), e.t = "Select", NEW k, DOMAIN k = DOMAIN e.a,
         NEW n \in Nat, NEW kinds, MildAll(k, n, kinds)
  PROVE  Mild(CelSelect(nt, e, k), n + 5, kinds)
<1>0. n + 2 \in Nat /\ n + 5 \in Nat /\ n + 2 <= n + 5 /\ (n + 2) + 1 = n + 3 /\ 1 <= n + 3 /\ n + 3 \in Nat
  OBVIOUS
<1>1. /\ e.at["field"].k = "str" /\ IsBool(e.at["test_only"]) /\ Len(e.a) = 1
  BY DEF CelNode, ConstantKinds, IsStr
<1>2. e.at["test_only"].k = "bool"
  BY <1>1 DEF IsBool, Bool
<1>3. 1 \in DOMAIN e.a
  BY <1>1, OperandsAre
<1>4. Mild(k[1], n, kinds)
  BY <1>3 DEF MildAll
<1>5. 1 <= n
  <2>1. n # 0
    BY <1>4, NeverShortAtOnce DEF Mild
  <2> QED BY <2>1
<1>6. CASE ~(e.at["test_only"] = Bool(TRUE) /\ nt # "canonical")
  <2>1. CelSelect(nt, e, k) = SelectTree(nt, e, k)
    BY <1>6 DEF CelSelect
  <2>2. Mild(SelectTree(nt, e, k), n + 2, kinds)
    BY <1>1, <1>2, <1>4, <1>5, MildSelect
  <2> QED BY <1>0, <2>1, <2>2, MildMore
<1>7. CASE e.at["test_only"] = Bool(TRUE) /\ nt # "canonical"
  <2> DEFINE whole == Ast("Select", [field |-> e.at["field"], test_only |-> Bool(FALSE)], e.a)
             t == SelectTree(nt, whole, k)
             l == List(<<t>>)
             f == [function |-> Name("has"), args |-> l]
  <2>1. CelSelect(nt, e, k) = Node("call", Obj(f))
    BY <1>7 DEF CelSelect
  <2>2. whole.at["field"].k = "str" /\ whole.at["test_only"].k = "bool"
    BY <1>1 DEF Ast, Bool
  <2> HIDE DEF whole
  <2>3. Mild(t, n + 2, kinds)
    BY <1>4, <1>5, <2>2, MildSelect
  <2> HIDE DEF t
  <2>4. Mild(l, n + 3, kinds)
    <3>1. MildAll(<<t>>, n + 2, kinds)
      BY <2>3, MildOne
    <3>2. \A i \in DOMAIN <<t>> : Mild(<<t>>[i], n + 2, kinds)
      BY <3>1 DEF MildAll
    <3> DEFINE s == <<t>>
    <3>3. \A i \in DOMAIN s : Mild(s[i], n + 2, kinds)
      BY <3>2
    <3> HIDE DEF s
    <3>4. Mild(List(s), n + 3, kinds)
      BY <1>0, <3>3, MildList
    <3> QED BY <3>4 DEF s
  <2>5. Mild(Name("has"), n + 3, kinds)
    <3>1. Name("has").k = "str"
      BY NameIs
    <3> QED BY <1>0, <3>1, MildWords
  <2> HIDE DEF l
  <2>6. \A x \in DOMAIN f : Mild(f[x], n + 3, kinds)
    BY <2>4, <2>5
  <2> HIDE DEF f
  <2> QED BY <2>1, <2>6, MildFields
<1> QED BY <1>6, <1>7

LEMMA MildOperands ==
  ASSUME NEW k, NEW n \in Nat, NEW kinds, MildAll(k, n, kinds)
  PROVE  Mild(List(k), n + 1, kinds) /\ \A key : Mild(Node(key, List(k)), n + 2, kinds)
<1>1. Mild(List(k), n + 1, kinds)
  BY MildList DEF MildAll
<1>2. n + 1 \in Nat /\ (n + 1) + 1 = n + 2
  OBVIOUS
<1> DEFINE l == List(k)
<1>3. Mild(l, n + 1, kinds)
  BY <1>1
<1> HIDE DEF l
<1>4. \A key : Mild(Node(key, l), n + 2, kinds)
  BY <1>2, <1>3, MildNode
<1> QED BY <1>1, <1>4 DEF l

LEMMA MildOperator ==
  ASSUME NEW nt, nt # "canonical", NEW e, IsNode(e), CelNode(e), e.t = "Call", IsToken(e.at["fn"], OperatorFunctions),
         NEW k, DOMAIN k = DOMAIN e.a, \A i \in DOMAIN e.a : CelShape(nt, e.a[i], k[i]),
         NEW n \in Nat, NEW kinds, MildAll(k, n, kinds)
  PROVE  Mild(DecodeOperator(nt, e.at["fn"].s[1], e, k), n + 5, kinds)
<1> DEFINE func == e.at["fn"].s[1]
           key == OpKey(nt, func)
           v == DecodeOperator(nt, func, e, k)
<1>0. /\ n + 1 \in Nat /\ n + 2 \in Nat /\ n + 3 \in Nat /\ n + 5 \in Nat /\ (n + 1) + 1 = n + 2 /\ (n + 2) + 1 = n + 3
      /\ n + 2 <= n + 5 /\ n + 3 <= n + 5 /\ n + 1 <= n + 5
  OBVIOUS
<1>1. IsStr(e.at["fn"])
  BY CallIs
<1>2. func \in OperatorFunctions
  BY <1>1, TokenIs
<1>3. CASE func \in Unary
  <2>1. func \notin Variadic
    BY <1>3 DEF Unary, Variadic
  <2>2. 1 \in DOMAIN k
    <3>1. IsToken(e.at["fn"], OperatorFunctions \ Variadic)
      BY <1>2, <2>1 DEF IsToken
    <3>2. Len(e.a) = 1
      BY <1>3, <3>1, CallIs DEF Arity
    <3> QED BY <3>2, OperandsAre
  <2> DEFINE k1 == k[1]
             inner == Node("elements", k1)
             w == Node("list_expr", inner)
  <2>3. Mild(k1, n, kinds)
    BY <2>2 DEF MildAll
  <2>4. v = Node(key, IF k1.k = "list" THEN w ELSE k1)
    <3> HIDE DEF func, key
    <3> QED BY <1>3, <2>1 DEF DecodeOperator, key
  <2> HIDE DEF k1, v, key
  <2>5. Mild(inner, n + 1, kinds)
    BY <2>3, MildNode
  <2> HIDE DEF inner
  <2>6. Mild(w, n + 2, kinds)
    BY <1>0, <2>5, MildNode
  <2> HIDE DEF w
  <2>7. Mild(Node(key, w), n + 3, kinds)
    BY <1>0, <2>6, MildNode
  <2>8. Mild(Node(key, k1), n + 1, kinds)
    BY <2>3, MildNode
  <2>9. Mild(Node(key, w), n + 5, kinds) /\ Mild(Node(key, k1), n + 5, kinds)
    BY <1>0, <2>7, <2>8, MildMore
  <2>10. Mild(v, n + 5, kinds)
    BY <2>4, <2>9
  <2> QED BY <2>10 DEF v
<1>4. CASE func \in Variadic
  <2>1. func \notin Unary
    BY <1>4 DEF Unary, Variadic
  <2> DEFINE c == ChainTrees(nt, func, e, k)
  <2>2. v = Node(key, List(c))
    <3> HIDE DEF func, key
    <3> QED BY <1>4, <2>1 DEF DecodeOperator, key
  <2>3. IsToken(e.at["fn"], Variadic)
    BY <1>4 DEF IsToken
  <2>4. MildAll(c, n, kinds)
    BY <2>3, MildChain
  <2> HIDE DEF c, key, v
  <2>5. Mild(Node(key, List(c)), n + 2, kinds)
    BY <2>4, MildOperands
  <2>6. Mild(v, n + 2, kinds)
    BY <2>2, <2>5
  <2>7. Mild(v, n + 5, kinds)
    BY <1>0, <2>6, MildMore
  <2> QED BY <2>7 DEF v
<1>5. CASE func \notin Unary \cup Variadic
  <2>1. v = Node(key, List(k))
    <3> HIDE DEF func, key
    <3> QED BY <1>5 DEF DecodeOperator, key
  <2> HIDE DEF key, v
  <2>2. Mild(Node(key, List(k)), n + 2, kinds)
    BY MildOperands
  <2>3. Mild(v, n + 2, kinds)
    BY <2>1, <2>2
  <2>4. Mild(v, n + 5, kinds)
    BY <1>0, <2>3, MildMore
  <2> QED BY <2>4 DEF v
<1> QED BY <1>3, <1>4, <1>5

LEMMA MildCelCall ==
  ASSUME NEW nt, NEW e, IsNode(e), CelNode(e), e.t = "Call",
         NEW k, DOMAIN k = DOMAIN e.a, \A i \in DOMAIN e.a : CelShape(nt, e.a[i], k[i]),
         NEW n \in Nat, NEW kinds, MildAll(k, n, kinds)
  PROVE  Mild(CelCall(nt, e, k), n + 5, kinds)
<1> DEFINE func == e.at["fn"]
           l == List(k)
           g == [function |-> func, args |-> l]
           u == [x \in {"args"} |-> List(<<>>)]
<1>0. n + 1 \in Nat /\ n + 3 \in Nat /\ n + 1 <= n + 3 /\ 1 <= n + 3
  OBVIOUS
<1>1. func.k = "str"
  BY CallIs DEF IsStr
<1>2. Mild(func, n + 3, kinds)
  <2> HIDE DEF func
  <2> QED BY <1>0, <1>1, MildWords
<1>3. Mild(l, n + 1, kinds)
  BY MildOperands
<1>4. CASE nt # "canonical" /\ IsReference(e)
  <2>1. CelCall(nt, e, k) = Node("ident", Source(e))
    BY <1>4 DEF CelCall
  <2> QED BY <2>1, MildText
<1>5. \A x \in DOMAIN g : Mild(g[x], n + 3, kinds)
  <2> HIDE DEF l, func
  <2>1. Mild(l, n + 3, kinds)
    BY <1>0, <1>3, MildMore
  <2> QED BY <1>2, <2>1
<1>6. CASE IsToken(func, OperatorFunctions) /\ ~(nt # "canonical" /\ IsReference(e)) /\ nt = "canonical"
  <2>1. CelCall(nt, e, k) = Node("call_expr", Obj(g))
    BY <1>6 DEF CelCall
  <2> HIDE DEF g
  <2> QED BY <1>5, <2>1, MildFields
<1>7. CASE IsToken(func, OperatorFunctions) /\ ~(nt # "canonical" /\ IsReference(e)) /\ nt # "canonical"
  <2>1. CelCall(nt, e, k) = DecodeOperator(nt, func.s[1], e, k)
    BY <1>7 DEF CelCall
  <2> QED BY <1>7, <2>1, MildOperator
<1>8. CASE ~IsToken(func, OperatorFunctions) /\ ~(nt # "canonical" /\ IsReference(e))
  <2>1. CelCall(nt, e, k) = Node(CallKey(nt), Obj(Written(g, u)))
    BY <1>8 DEF CelCall
  <2> DEFINE key == CallKey(nt)
  <2> HIDE DEF g, u, key
  <2>2. Mild(Node(key, Obj(Written(g, u))), n + 5, kinds)
    BY <1>5, MildFieldsWritten
  <2> QED BY <2>1, <2>2 DEF key
<1> QED BY <1>4, <1>6, <1>7, <1>8

LEMMA MildCelMember ==
  ASSUME NEW nt, NEW e, IsNode(e), CelNode(e), e.t = "Member", NEW k, DOMAIN k = DOMAIN e.a, k = [i \in DOMAIN e.a |-> k[i]],
         NEW n \in Nat, NEW kinds, MildAll(k, n, kinds)
  PROVE  Mild(CelMember(nt, e, k), n + 5, kinds)
<1> DEFINE func == e.at["fn"]
           t == Tail(k)
           l == List(t)
           k1 == k[1]
           g == [function |-> func, target |-> k1, args |-> l]
           u == [x \in {"args"} |-> List(<<>>)]
           key == CallKey(nt)
<1>0. n + 1 \in Nat /\ n + 3 \in Nat /\ n + 1 <= n + 3 /\ 1 <= n + 3 /\ n <= n + 3
  OBVIOUS
<1>1. func.k = "str" /\ Len(e.a) >= 1
  BY DEF CelNode, ConstantKinds, IsStr
<1>2. DOMAIN e.a = 1 .. Len(e.a) /\ Len(e.a) \in Nat
  BY OperandsAre
<1>3. IsSequence(k) /\ Len(k) = Len(e.a)
  BY <1>2 DEF IsSequence
<1>4. /\ DOMAIN t = 1 .. Len(k) - 1
      /\ \A i \in 1 .. Len(k) - 1 : t[i] = k[i + 1]
  BY <1>1, <1>3, TailIs
<1>5. 1 \in DOMAIN k
  BY <1>1, <1>2
<1>6. Mild(k1, n, kinds)
  BY <1>5 DEF MildAll
<1>7. ASSUME NEW i \in DOMAIN t PROVE Mild(t[i], n, kinds)
  <2> DEFINE m == Len(k)
             j == i + 1
  <2>1. m \in Nat /\ DOMAIN k = 1 .. m /\ i \in 1 .. m - 1
    BY <1>2, <1>3, <1>4
  <2>2. t[i] = k[j]
    BY <1>4
  <2> HIDE DEF m, t
  <2>3. j \in DOMAIN k
    BY <2>1
  <2> HIDE DEF j
  <2> QED BY <2>2, <2>3 DEF MildAll
<1> HIDE DEF t
<1>8. Mild(l, n + 1, kinds)
  BY <1>7, MildList
<1> HIDE DEF l, k1, func
<1>9. Mild(l, n + 3, kinds) /\ Mild(k1, n + 3, kinds) /\ Mild(func, n + 3, kinds)
  BY <1>0, <1>1, <1>6, <1>8, MildMore, MildWords
<1>10. \A x \in DOMAIN g : Mild(g[x], n + 3, kinds)
  BY <1>9
<1>11. CelMember(nt, e, k) = Node(key, Obj(Written(g, u)))
  BY DEF CelMember, func, k1, l, t
<1> HIDE DEF g, u, key
<1> QED BY <1>10, <1>11, MildFieldsWritten

LEMMA MildCount ==
  ASSUME NEW n, NEW kinds, "fin" \notin kinds, NEW m \in Nat, 1 <= m
  PROVE  Mild(Count(n), m, kinds)
<1> DEFINE v == Count(n)
<1>1. v.k = "num" /\ v.x = <<"fin", 1000 * n>>
  BY DEF Count, Num
<1>2. v.k \notin {"list", "obj", "ast"} /\ ~Odd(v, kinds)
  BY <1>1 DEF Odd
<1> HIDE DEF v
<1>3. Mild(v, m, kinds)
  BY <1>2, MildScalar
<1> QED BY <1>3 DEF v

LEMMA MildDecodeList ==
  ASSUME NEW nt, NEW e, NEW k, NEW n \in Nat, NEW kinds, "fin" \notin kinds, MildAll(k, n, kinds)
  PROVE  Mild(DecodeList(nt, e, k), n + 5, kinds)
<1> DEFINE marked == {i \in DOMAIN k : e.at["optional"].e[i] = Bool(TRUE)}
           indices == InOrder(marked)
<1>0. /\ n + 1 \in Nat /\ n + 2 \in Nat /\ n + 3 \in Nat /\ n + 5 \in Nat /\ (n + 1) + 1 = n + 2 /\ n + 2 <= n + 5
      /\ n + 1 <= n + 3 /\ n <= n + 1 /\ n + 2 <= n + 3 /\ 1 <= n + 1
  OBVIOUS
<1>1. CASE nt # "canonical"
  <2> DEFINE s == [i \in DOMAIN k |-> IF i \in marked THEN Node("optional", k[i]) ELSE k[i]]
  <2>1. DecodeList(nt, e, k) = List(s)
    BY <1>1 DEF DecodeList
  <2>2. \A i \in DOMAIN s : i \in DOMAIN k /\ (s[i] = Node("optional", k[i]) \/ s[i] = k[i])
    OBVIOUS
  <2> HIDE DEF s
  <2>3. ASSUME NEW i \in DOMAIN s PROVE Mild(s[i], n + 1, kinds)
    <3> DEFINE w == k[i]
    <3>1. Mild(w, n, kinds)
      BY <2>2 DEF MildAll
    <3>2. s[i] = Node("optional", w) \/ s[i] = w
      BY <2>2
    <3> HIDE DEF w
    <3>3. Mild(Node("optional", w), n + 1, kinds) /\ Mild(w, n + 1, kinds)
      BY <1>0, <3>1, MildNode, MildMore
    <3> QED BY <3>2, <3>3
  <2>4. Mild(List(s), n + 2, kinds)
    BY <1>0, <2>3, MildList
  <2>5. Mild(List(s), n + 5, kinds)
    BY <1>0, <2>4, MildMore
  <2> QED BY <2>1, <2>5
<1>2. CASE nt = "canonical"
  <2> DEFINE J == [j \in DOMAIN indices |-> Count(indices[j] - 1)]
             l == List(k)
             o == List(J)
             g == [elements |-> l, optional_indices |-> o]
             u == [x \in {"optional_indices"} |-> List(<<>>)]
  <2>1. DecodeList(nt, e, k) = Node("list_expr", Obj(Written(g, u)))
    BY <1>2 DEF DecodeList
  <2>2. Mild(l, n + 1, kinds)
    BY MildOperands
  <2>3. \A j \in DOMAIN J : Mild(J[j], n + 1, kinds)
    BY <1>0, MildCount
  <2> HIDE DEF J, l
  <2>4. Mild(o, n + 2, kinds)
    BY <1>0, <2>3, MildList
  <2> HIDE DEF o
  <2>5. Mild(l, n + 3, kinds) /\ Mild(o, n + 3, kinds)
    BY <1>0, <2>2, <2>4, MildMore
  <2>6. \A x \in DOMAIN g : Mild(g[x], n + 3, kinds)
    BY <2>5
  <2> HIDE DEF g, u
  <2> QED BY <2>1, <2>6, MildFieldsWritten
<1> QED BY <1>1, <1>2

LEMMA MildEntry ==
  ASSUME NEW f, NEW n \in Nat, NEW kinds, \A x \in DOMAIN f : Mild(f[x], n + 1, kinds)
  PROVE  Mild(Marked(f), n + 5, kinds)
<1> DEFINE u == [x \in {"optional_entry"} |-> Bool(FALSE)]
           w == Obj(Written(f, u))
<1>0. n + 1 \in Nat /\ (n + 1) + 1 = n + 2 /\ n + 2 \in Nat /\ n + 5 \in Nat /\ n + 2 <= n + 5
  OBVIOUS
<1>1. Marked(f) = w
  BY DEF Marked
<1>2. Mild(w, n + 2, kinds)
  <2> HIDE DEF u
  <2> QED BY <1>0, MildWritten
<1> HIDE DEF w
<1> QED BY <1>0, <1>1, <1>2, MildMore

LEMMA CelTreeMild ==
  ASSUME NEW nt, NEW e, IsNode(e), CelNode(e), NEW kinds, "fin" \notin kinds,
         "value" \in DOMAIN e.at => ~Odd(e.at["value"], kinds),
         NEW k, DOMAIN k = DOMAIN e.a, k = [i \in DOMAIN e.a |-> k[i]], \A i \in DOMAIN e.a : CelShape(nt, e.a[i], k[i]),
         NEW n \in Nat, MildAll(k, n, kinds)
  PROVE  Mild(CelTreeNode(nt, e, k), n + 5, kinds)
<1> DEFINE v == CelTreeNode(nt, e, k)
<1>0. /\ n + 1 \in Nat /\ n + 2 \in Nat /\ n + 3 \in Nat /\ n + 5 \in Nat /\ (n + 1) + 1 = n + 2 /\ (n + 2) + 1 = n + 3
      /\ n + 3 <= n + 5 /\ n + 2 <= n + 5 /\ n + 1 <= n + 3 /\ 1 <= n + 3 /\ 1 <= n + 1 /\ n <= n + 1
  OBVIOUS
<1>1. CASE e.t \in ConstantKinds
  <2>1. v = ConstNode(nt, e)
    BY <1>1 DEF CelTreeNode, ConstantKinds
  <2> QED BY <1>1, <2>1, MildConstant
<1>2. CASE e.t = "Ident"
  <2> DEFINE name == e.at["name"]
             w == Node("name", name)
  <2>1. name.k = "str"
    BY <1>2 DEF CelNode, ConstantKinds, IsStr
  <2>2. v = IF nt = "canonical" THEN Node("ident_expr", w) ELSE Node("ident", name)
    BY <1>2 DEF CelTreeNode, ConstantKinds
  <2> HIDE DEF name
  <2>3. Mild(name, n + 1, kinds)
    BY <1>0, <2>1, MildWords
  <2>4. Mild(w, n + 2, kinds)
    BY <1>0, <2>3, MildNode
  <2> HIDE DEF w
  <2>5. Mild(Node("ident_expr", w), n + 3, kinds) /\ Mild(Node("ident", name), n + 2, kinds)
    BY <1>0, <2>3, <2>4, MildNode
  <2>6. Mild(Node("ident_expr", w), n + 5, kinds) /\ Mild(Node("ident", name), n + 5, kinds)
    BY <1>0, <2>5, MildMore
  <2> HIDE DEF v
  <2>7. Mild(v, n + 5, kinds)
    BY <2>2, <2>6
  <2> QED BY <2>7 DEF v
<1>3. CASE e.t = "Select"
  <2>1. v = CelSelect(nt, e, k)
    BY <1>3 DEF CelTreeNode, ConstantKinds
  <2> QED BY <1>3, <2>1, MildCelSelect
<1>4. CASE e.t = "Call"
  <2>1. v = CelCall(nt, e, k)
    BY <1>4 DEF CelTreeNode, ConstantKinds
  <2> QED BY <1>4, <2>1, MildCelCall
<1>5. CASE e.t = "Member"
  <2>1. v = CelMember(nt, e, k)
    BY <1>5 DEF CelTreeNode, ConstantKinds
  <2> QED BY <1>5, <2>1, MildCelMember
<1>6. CASE e.t = "List"
  <2>1. v = DecodeList(nt, e, k)
    BY <1>6 DEF CelTreeNode, ConstantKinds
  <2> QED BY <2>1, MildDecodeList
<1>7. CASE e.t = "Map"
  <2> DEFINE w == Node("entries", List(k))
  <2>1. v = Node("struct_expr", w)
    BY <1>7 DEF CelTreeNode, ConstantKinds
  <2>2. Mild(w, n + 2, kinds)
    BY MildOperands
  <2> HIDE DEF w
  <2>3. Mild(Node("struct_expr", w), n + 3, kinds)
    BY <1>0, <2>2, MildNode
  <2> QED BY <1>0, <2>1, <2>3, MildMore
<1>8. CASE e.t = "Struct"
  <2> DEFINE l == List(k)
             f == [entries |-> l, message_name |-> e.at["name"]]
  <2>1. v = Node("struct_expr", Obj(f))
    BY <1>8 DEF CelTreeNode, ConstantKinds
  <2>2. e.at["name"].k = "str"
    BY <1>8 DEF CelNode, ConstantKinds, IsStr
  <2>3. Mild(l, n + 1, kinds)
    BY MildOperands
  <2> HIDE DEF l
  <2>4. Mild(e.at["name"], n + 1, kinds)
    BY <1>0, <2>2, MildWords
  <2>5. \A x \in DOMAIN f : Mild(f[x], n + 1, kinds)
    BY <2>3, <2>4
  <2> HIDE DEF f
  <2> QED BY <2>1, <2>5, MildFieldsOf
<1>9. CASE e.t = "Pair"
  <2> DEFINE f == [map_key |-> k[1], value |-> k[2], optional_entry |-> e.at["optional"]]
  <2>1. v = Marked(f)
    BY <1>9 DEF CelTreeNode, ConstantKinds
  <2>2. IsBool(e.at["optional"]) /\ Len(e.a) = 2
    BY <1>9 DEF CelNode, ConstantKinds
  <2>3. e.at["optional"].k = "bool"
    BY <2>2 DEF IsBool, Bool
  <2>4. 1 \in DOMAIN k /\ 2 \in DOMAIN k
    BY <2>2, OperandsAre
  <2>5. Mild(k[1], n, kinds) /\ Mild(k[2], n, kinds)
    BY <2>4 DEF MildAll
  <2>6. Mild(k[1], n + 1, kinds) /\ Mild(k[2], n + 1, kinds) /\ Mild(e.at["optional"], n + 1, kinds)
    BY <1>0, <2>3, <2>5, MildWords, MildMore
  <2>7. \A x \in DOMAIN f : Mild(f[x], n + 1, kinds)
    BY <2>6
  <2> HIDE DEF f
  <2> QED BY <2>1, <2>7, MildEntry
<1>10. CASE e.t = "Field"
  <2> DEFINE f == [field_key |-> e.at["name"], value |-> k[1], optional_entry |-> e.at["optional"]]
  <2>1. v = Marked(f)
    BY <1>10 DEF CelTreeNode, ConstantKinds
  <2>2. IsBool(e.at["optional"]) /\ e.at["name"].k = "str" /\ Len(e.a) = 1
    BY <1>10 DEF CelNode, ConstantKinds, IsStr
  <2>3. e.at["optional"].k = "bool"
    BY <2>2 DEF IsBool, Bool
  <2>4. 1 \in DOMAIN k
    BY <2>2, OperandsAre
  <2>5. Mild(k[1], n, kinds)
    BY <2>4 DEF MildAll
  <2>6. Mild(k[1], n + 1, kinds) /\ Mild(e.at["name"], n + 1, kinds) /\ Mild(e.at["optional"], n + 1, kinds)
    BY <1>0, <2>2, <2>3, <2>5, MildWords, MildMore
  <2>7. \A x \in DOMAIN f : Mild(f[x], n + 1, kinds)
    BY <2>6
  <2> HIDE DEF f
  <2> QED BY <2>1, <2>7, MildEntry
<1>11. e.t \in ConstantKinds \cup {"Ident", "Select", "Call", "Member", "List", "Map", "Struct", "Pair", "Field"}
  BY DEF CelNode, ConstantKinds
<1> QED BY <1>1, <1>2, <1>3, <1>4, <1>5, <1>6, <1>7, <1>8, <1>9, <1>10, <1>11

-----------------------------------------------------------------------------
(* The tree that a decode makes of an expression of so many layers. *)
CelDecoded(nt, e, v, n) ==
  /\ CelShape(nt, e, v) /\ CelGood(e, v)
  /\ \A kinds : "fin" \notin kinds /\ ~SomeNumber(e, kinds) => Mild(v, 5 * n, kinds)

LEMMA CelLegal ==
  ASSUME NEW n \in Nat, NEW e, Legal("cel", e, n)
  PROVE  IsNode(e) /\ CelNode(e) /\ Finite(e) /\ n - 1 \in Nat /\ \A i \in DOMAIN e.a : Legal("cel", e.a[i], n - 1)
<1>1. /\ IsNode(e) /\ IsLanguageNode("cel", e) /\ n - 1 \in Nat
      /\ \A i \in DOMAIN e.a : Legal("cel", e.a[i], n - 1)
  BY LegalOperands
<1>2. CelNode(e)
  BY <1>1 DEF IsLanguageNode
<1>3. Finite(e)
  BY DEF Legal, Finite
<1> QED BY <1>1, <1>2, <1>3

LEMMA CelDecodes ==
  ASSUME NEW nt, NEW n \in Nat, NEW e, Legal("cel", e, n), NEW X, X.nt = nt, Closed(Parts(X.e)), e \in Parts(X.e),
         NEW m \in Nat, n <= m
  PROVE  CelDecoded(nt, e, CelTrees!Stage(X)[m][e], n)
<1> DEFINE A == Parts(X.e)
           Fails(i) == \E x : /\ Legal("cel", x, i) /\ x \in A
                              /\ \E j \in Nat : i <= j /\ ~CelDecoded(nt, x, CelTrees!Stage(X)[j][x], i)
           bad == {i \in Nat : Fails(i)}
<1>1. SUFFICES ASSUME bad # {} PROVE FALSE
  <2>1. \A i \in Nat : ~Fails(i)
    BY <1>1, Zenon
  <2> QED BY <2>1
<1>2. PICK i \in bad : \A j \in bad : i <= j
  <2> HIDE DEF bad
  <2>1. bad \subseteq Nat
    BY DEF bad
  <2> QED BY <1>1, <2>1, FirstPosition
<1>3. PICK x : /\ Legal("cel", x, i) /\ x \in A
               /\ \E j \in Nat : i <= j /\ ~CelDecoded(nt, x, CelTrees!Stage(X)[j][x], i)
  BY <1>2
<1>4. PICK j \in Nat : i <= j /\ ~CelDecoded(nt, x, CelTrees!Stage(X)[j][x], i)
  BY <1>3
<1>5. i \in Nat
  BY <1>2
<1>6. /\ IsNode(x) /\ CelNode(x) /\ i - 1 \in Nat /\ Finite(x)
      /\ \A h \in DOMAIN x.a : Legal("cel", x.a[h], i - 1)
  BY <1>3, <1>5, CelLegal
<1>7. ~Fails(i - 1)
  <2>1. ~(i <= i - 1)
    BY <1>5
  <2> HIDE DEF Fails
  <2> QED BY <1>2, <1>6, <2>1
<1>8. j - 1 \in Nat /\ i - 1 <= j - 1 /\ (j - 1) + 1 = j
  BY <1>4, <1>6
<1> DEFINE tree == CelTrees!Stage(X)[j - 1]
           k == [h \in DOMAIN x.a |-> tree[x.a[h]]]
<1>9. CelTrees!Stage(X)[j] = CelTreeMore(X, tree)
  <2>1. \A h \in Nat : CelTrees!Stage(X)[h + 1] = CelTreeMore(X, CelTrees!Stage(X)[h])
    BY NumbersHaveLeast, CelTrees!StageIs
  <2> QED BY <2>1, <1>8
<1> HIDE DEF tree
<1>10. CelTrees!Stage(X)[j][x] = CelTreeNode(nt, x, k)
  BY <1>3, <1>9 DEF CelTreeMore
<1>11. ASSUME NEW h \in DOMAIN x.a
       PROVE  CelDecoded(nt, x.a[h], k[h], i - 1) /\ IsNode(x.a[h]) /\ CelNode(x.a[h]) /\ Finite(x.a[h])
  <2>1. x.a[h] \in A
    <3>1. HeldBy(x) = {x.a[g] : g \in DOMAIN x.a}
      BY <1>6, OperandsAre
    <3> QED BY <1>3, <3>1 DEF Closed
  <2>2. Legal("cel", x.a[h], i - 1)
    BY <1>6
  <2>3. CelDecoded(nt, x.a[h], CelTrees!Stage(X)[j - 1][x.a[h]], i - 1)
    BY <1>3, <1>7, <1>8, <2>1, <2>2
  <2>4. IsNode(x.a[h]) /\ CelNode(x.a[h]) /\ Finite(x.a[h])
    BY <1>6, <2>2, CelLegal
  <2> QED BY <2>3, <2>4 DEF tree
<1> HIDE DEF k
<1>12. DOMAIN k = DOMAIN x.a /\ k = [h \in DOMAIN x.a |-> k[h]]
  BY DEF k
<1>13. CelAllFit(nt, x, k)
  BY <1>11, <1>12 DEF CelAllFit, CelKnown, CelDecoded, Operands
<1>14. CelGood(x, CelTreeNode(nt, x, k)) /\ CelShape(nt, x, CelTreeNode(nt, x, k))
  BY <1>6, <1>13, CelGoodNode, CelShapeOf
<1>15. ASSUME NEW kinds, "fin" \notin kinds, ~SomeNumber(x, kinds)
       PROVE  Mild(CelTreeNode(nt, x, k), 5 * i, kinds)
  <2>1. /\ \A h \in DOMAIN x.a : ~SomeNumber(x.a[h], kinds)
        /\ "value" \in DOMAIN x.at => ~Odd(x.at["value"], kinds)
    BY <1>3, <1>5, <1>15, NumberAbove
  <2>2. \A h \in DOMAIN k : Mild(k[h], 5 * (i - 1), kinds)
    BY <1>11, <1>12, <1>15, <2>1 DEF CelDecoded
  <2> DEFINE c == 5 * (i - 1)
  <2>3. c \in Nat /\ c + 5 = 5 * i
    BY <1>6
  <2>4. MildAll(k, c, kinds)
    BY <2>2 DEF MildAll
  <2>5. \A h \in DOMAIN x.a : CelShape(nt, x.a[h], k[h])
    BY <1>11 DEF CelDecoded
  <2> HIDE DEF c
  <2>6. Mild(CelTreeNode(nt, x, k), c + 5, kinds)
    BY <1>6, <1>12, <1>15, <2>1, <2>3, <2>4, <2>5, CelTreeMild
  <2> QED BY <2>3, <2>6
<1>16. CelDecoded(nt, x, CelTreeNode(nt, x, k), i)
  BY <1>14, <1>15 DEF CelDecoded
<1> QED BY <1>4, <1>10, <1>16

(* What the user means is an expression of the language. *)

LEMMA WholeParsed ==
  ASSUME NEW l, NEW e, IsParsed(l, e)
  PROVE  WholeText(l, e)
<1>1. Height(e) \in Nat /\ Short(e, Height(e))
  BY DEF IsParsed, Short
<1>2. Finite(e)
  BY <1>1 DEF Finite
<1>3. \A n \in Nat : Layer(e, n) \subseteq Parts(e)
  BY <1>2, PartsAre
<1>4. Legal(l, e, Height(e))
  BY <1>1, <1>3 DEF Legal, IsParsed
<1>5. (l = "oel" => OelValues(<<e>>)) /\ (l = "cel" => CelValues(<<e>>))
  BY DEF IsParsed
<1>6. 1 \in DOMAIN <<e>> /\ <<e>>[1] = e
  OBVIOUS
<1>7. l = "oel" => e.t \notin {"Entry", "CommaList"}
  BY <1>5, <1>6 DEF OelValues
<1>8. l = "cel" => e.t \notin {"Pair", "Field"}
  BY <1>5, <1>6 DEF CelValues
<1> QED BY <1>1, <1>4, <1>7, <1>8 DEF WholeText

LEMMA WholeIs ==
  ASSUME NEW l, NEW e, WholeText(l, e)
  PROVE  /\ Finite(e) /\ IsNode(e) /\ IsLanguageNode(l, e)
         /\ Legal(l, e, Height(e))
<1>1. PICK n \in Nat : Legal(l, e, n)
  BY DEF WholeText
<1>2. Finite(e)
  BY <1>1 DEF Finite, Legal
<1>3. IsNode(e) /\ IsLanguageNode(l, e)
  BY <1>1, LegalOperands
<1>4. Short(e, Height(e))
  BY <1>2, PartsAre
<1>5. Legal(l, e, Height(e))
  BY <1>1, <1>4 DEF Legal
<1> QED BY <1>2, <1>3, <1>5

-----------------------------------------------------------------------------
(* What is not known yet stays in whatever it is put into. *)

LEMMA UnknownHeld ==
  ASSUME NEW v, NEW w \in HeldBy(v), HoldsUnknown(w)
  PROVE  HoldsUnknown(v)
<1>1. PICK n \in Nat : UnknownTree \in Layer(w, n)
  BY DEF HoldsUnknown
<1>2. UnknownTree \in Layer(v, n + 1)
  BY <1>1, LayerBelow
<1> QED BY <1>2 DEF HoldsUnknown

LEMMA UnknownIsHeld ==
  HoldsUnknown(UnknownTree)
<1>1. UnknownTree \in Layer(UnknownTree, 0)
  BY LayerIs
<1> QED BY <1>1 DEF HoldsUnknown

LEMMA UnknownNode ==
  ASSUME NEW key, NEW v, HoldsUnknown(v)
  PROVE  HoldsUnknown(Node(key, v))
<1>1. HeldBy(Node(key, v)) = {v}
  BY NodeHolds
<1> QED BY <1>1, UnknownHeld

LEMMA UnknownObj ==
  ASSUME NEW f, NEW x \in DOMAIN f, HoldsUnknown(f[x])
  PROVE  HoldsUnknown(Obj(f))
<1>1. f[x] \in HeldBy(Obj(f))
  BY ObjIs
<1> QED BY <1>1, UnknownHeld

LEMMA UnknownList ==
  ASSUME NEW s, NEW i \in DOMAIN s, HoldsUnknown(s[i])
  PROVE  HoldsUnknown(List(s))
<1>1. s[i] \in HeldBy(List(s))
  BY ListIs
<1> QED BY <1>1, UnknownHeld

(* A tree within the limits has no part that is not known, or says so. *)
LEMMA UnknownSeen ==
  ASSUME NEW v, HoldsUnknown(v), Finite(v)
  PROVE  TreeUnknown(v)
<1>1. PICK n \in Nat : UnknownTree \in Layer(v, n)
  BY DEF HoldsUnknown
<1>2. Layer(v, n) \subseteq Parts(v)
  BY PartsAre
<1> QED BY <1>1, <1>2 DEF TreeUnknown

LEMMA WithinLimits ==
  ASSUME NEW v, ~PastLimits(v)
  PROVE  Finite(v)
<1>1. TreeDepth \in Nat
  BY TreeLimits
<1>2. Short(v, TreeDepth)
  BY DEF PastLimits, Short
<1> QED BY <1>1, <1>2 DEF Finite

LEMMA NilIsKnown ==
  ~TreeUnknown(Nil)
<1>1. HeldBy(Nil) = {}
  <2>1. Held(Nil) = <<>>
    BY DEF Held, Nil
  <2> QED BY <2>1 DEF HeldBy
<1>2. Finite(Nil)
  <2>1. Short(Nil, 0 + 1)
    BY <1>1, ShortBelow
  <2> QED BY <2>1 DEF Finite
<1>3. \A w \in Parts(Nil) : \E n \in Nat : w \in Layer(Nil, n)
  BY <1>2, PartsAre
<1>4. ASSUME NEW n \in Nat PROVE UnknownTree \notin Layer(Nil, n)
  <2>1. CASE n = 0
    <3>1. Layer(Nil, 0) = {Nil}
      BY LayerIs
    <3>2. UnknownTree # Nil
      BY DEF UnknownTree, Nil
    <3> QED BY <2>1, <3>1, <3>2
  <2>2. CASE n # 0
    <3>1. n - 1 \in Nat /\ (n - 1) + 1 = n
      BY <2>2
    <3>2. Layer(Nil, (n - 1) + 1) = UNION {Layer(w, n - 1) : w \in HeldBy(Nil)}
      BY <3>1, LayerBelow
    <3> QED BY <1>1, <3>1, <3>2
  <2> QED BY <2>1, <2>2
<1> QED BY <1>3, <1>4 DEF TreeUnknown

-----------------------------------------------------------------------------
(* PromQL: the data in more data. *)

LEMMA PromGoodMore ==
  ASSUME NEW e, NEW v, NEW reason, PromGood(e, v, reason), NEW more, reason => more
  PROVE  PromGood(e, v, more)
BY DEF PromGood, Gets

(* A node that is put around expressions, and what it makes of their data. *)
LEMMA PromAround ==
  ASSUME NEW e, IsNode(e), PromNode(e), NEW k, DOMAIN k = DOMAIN e.a, k = [i \in DOMAIN e.a |-> k[i]],
         \A i \in DOMAIN e.a : WholeText("promql", e.a[i]) /\ PromCarried(e.a[i], k[i]),
         ~AtTooFar(e), NEW n \in Nat, Legal("promql", e, n)
  PROVE  PromCarried(e, PromTreeNode(e, k))
<1> DEFINE reason == SomeOneWay("promql", e)
<1>1. ASSUME NEW i \in DOMAIN e.a
      PROVE  e.a[i] # Bad /\ k[i] # Nil /\ PromGood(e.a[i], k[i], reason)
  <2>1. IsLanguageNode("promql", e.a[i])
    BY <1>1, WholeIs
  <2>2. e.a[i] # Bad
    BY <2>1, PromNodeNotBad DEF IsLanguageNode
  <2>3. SomeOneWay("promql", e.a[i]) => reason
    BY OneWayAbove
  <2>4. k[i] # Nil /\ PromGood(e.a[i], k[i], SomeOneWay("promql", e.a[i]))
    BY <1>1 DEF PromCarried
  <2> HIDE DEF reason
  <2>5. PromGood(e.a[i], k[i], reason)
    BY <2>3, <2>4, PromGoodMore
  <2> QED BY <2>2, <2>4, <2>5
<1> HIDE DEF reason
<1>2. PromGood(e, PromTreeNode(e, k), reason)
  BY <1>1, PromGoodNode
<1>3. PromTreeNode(e, k) # Nil
  BY PromTreeSome
<1> QED BY <1>2, <1>3 DEF PromCarried, reason

(* A node of whole expressions is one. *)
AllLegal(l, e, n) == \A i \in DOMAIN e.a : Legal(l, e.a[i], n)

LEMMA LegalTogether ==
  ASSUME NEW l, NEW x, NEW y, WholeText(l, x), WholeText(l, y)
  PROVE  \E n \in Nat : Legal(l, x, n) /\ Legal(l, y, n)
<1>1. PICK a \in Nat : Legal(l, x, a)
  BY DEF WholeText
<1>2. PICK b \in Nat : Legal(l, y, b)
  BY DEF WholeText
<1>3. PICK n \in Nat : a <= n /\ b <= n
  BY Larger
<1>4. Legal(l, x, n) /\ Legal(l, y, n)
  BY <1>1, <1>2, <1>3, LegalMore
<1> QED BY <1>4

LEMMA WholeHolds ==
  ASSUME NEW l, NEW e, IsNode(e), IsLanguageNode(l, e), NEW n \in Nat, AllLegal(l, e, n),
         l = "oel" => e.t \notin {"Entry", "CommaList"},
         l = "cel" => e.t \notin {"Pair", "Field"}
  PROVE  WholeText(l, e)
<1>1. Legal(l, e, n + 1)
  BY LegalHolds DEF AllLegal
<1>2. n + 1 \in Nat
  OBVIOUS
<1> QED BY <1>1, <1>2 DEF WholeText

(* What is put around an expression, x, and around its data, w. *)
PromPut(e, v, x, w) ==
  /\ WholeText("promql", x)
  /\ HoldsUnknown(v) => HoldsUnknown(w)
  /\ PromCarried(e, v) => PromCarried(x, w)

(* A node of the one expression. *)
LEMMA PromPutOne ==
  ASSUME NEW e, WholeText("promql", e), NEW v, NEW x, IsNode(x), PromNode(x), x.a = <<e>>, ~AtTooFar(x),
         NEW w, HoldsUnknown(v) => HoldsUnknown(w), w = PromTreeNode(x, <<v>>)
  PROVE  PromPut(e, v, x, w)
<1>1. DOMAIN x.a = {1} /\ x.a[1] = e
  OBVIOUS
<1>2. PICK n \in Nat : Legal("promql", e, n)
  BY DEF WholeText
<1>3. IsLanguageNode("promql", x)
  BY DEF IsLanguageNode
<1>4. AllLegal("promql", x, n)
  BY <1>1, <1>2 DEF AllLegal
<1>5. WholeText("promql", x)
  BY <1>3, <1>4, WholeHolds
<1>6. ASSUME PromCarried(e, v) PROVE PromCarried(x, w)
  <2> DEFINE k == <<v>>
  <2>1. DOMAIN k = DOMAIN x.a /\ k = [i \in DOMAIN x.a |-> k[i]] /\ k[1] = v
    BY <1>1
  <2>2. PICK m \in Nat : Legal("promql", x, m)
    BY <1>5 DEF WholeText
  <2> HIDE DEF k
  <2>3. \A i \in DOMAIN x.a : WholeText("promql", x.a[i]) /\ PromCarried(x.a[i], k[i])
    BY <1>1, <1>6, <2>1
  <2>4. PromCarried(x, PromTreeNode(x, k))
    BY <2>1, <2>2, <2>3, PromAround
  <2> QED BY <2>4 DEF k
<1> QED BY <1>5, <1>6 DEF PromPut

LEMMA OneIn ==
  ASSUME NEW t, NEW at, NEW e
  PROVE  /\ IsNode(Ast(t, at, <<e>>)) /\ Ast(t, at, <<e>>).a = <<e>> /\ Len(<<e>>) = 1
         /\ Ast(t, at, <<e>>).t = t /\ Ast(t, at, <<e>>).at = at
<1>1. IsSequence(<<e>>)
  BY DEF IsSequence
<1> QED BY <1>1 DEF Ast, IsNode

PromParenOf(e) == Ast("Paren", NoFields, <<e>>)

LEMMA PromInParen ==
  ASSUME NEW e, WholeText("promql", e), NEW v
  PROVE  PromPut(e, v, PromParenOf(e), Node("paren", v))
<1> DEFINE x == PromParenOf(e)
<1>1. IsNode(x) /\ x.a = <<e>> /\ x.t = "Paren" /\ x.at = NoFields /\ Len(x.a) = 1
  BY OneIn DEF PromParenOf
<1>2. PromNode(x)
  BY <1>1 DEF PromNode
<1>3. ~AtTooFar(x)
  BY <1>1 DEF AtTooFar, NoFields
<1> DEFINE k == <<v>>
<1>4. k[1] = v
  OBVIOUS
<1> HIDE DEF x, k
<1>5. PromTreeNode(x, k) = Node("paren", v)
  BY <1>1, <1>4 DEF PromTreeNode
<1>6. HoldsUnknown(v) => HoldsUnknown(Node("paren", v))
  BY UnknownNode
<1>7. PromPut(e, v, x, Node("paren", v))
  BY <1>1, <1>2, <1>3, <1>5, <1>6, PromPutOne DEF k
<1> QED BY <1>7 DEF x

LEMMA PromNegated ==
  ASSUME NEW e, WholeText("promql", e), NEW v
  PROVE  PromPut(e, v, Ast("Unary", [y \in {"op"} |-> Name("neg")], <<e>>), Node("neg", v))
<1> DEFINE at == [y \in {"op"} |-> Name("neg")]
           x == Ast("Unary", at, <<e>>)
<1>0. at = [y \in {"op"} |-> at[y]] /\ at["op"] = Name("neg") /\ "at" \notin DOMAIN at
  OBVIOUS
<1>1. IsNode(x) /\ x.a = <<e>> /\ x.t = "Unary" /\ x.at = at /\ Len(x.a) = 1
  BY OneIn
<1> HIDE DEF at, x
<1>2. PromNode(x)
  BY <1>0, <1>1 DEF PromNode, HasAttributes
<1>3. ~AtTooFar(x)
  BY <1>0, <1>1 DEF AtTooFar
<1> DEFINE k == <<v>>
<1>4. k[1] = v
  OBVIOUS
<1> HIDE DEF k
<1>5. PromTreeNode(x, k) = Node("neg", v)
  <2>1. x.at["op"].s[1] = "neg"
    BY <1>0, <1>1, NameIs
  <2> QED BY <1>1, <1>4, <2>1 DEF PromTreeNode
<1>6. HoldsUnknown(v) => HoldsUnknown(Node("neg", v))
  BY UnknownNode
<1>7. PromPut(e, v, x, Node("neg", v))
  BY <1>1, <1>2, <1>3, <1>5, <1>6, PromPutOne DEF k
<1> QED BY <1>7 DEF x, at

LEMMA PromRated ==
  ASSUME NEW e, WholeText("promql", e), NEW v
  PROVE  PromPut(e, v, Ast("Call", [y \in {"func"} |-> Name("rate")], <<e>>),
                 Node("call", Obj([func |-> Name("rate"), args |-> List(<<v>>)])))
<1> DEFINE at == [y \in {"func"} |-> Name("rate")]
           x == Ast("Call", at, <<e>>)
           k == <<v>>
           f == [func |-> Name("rate"), args |-> List(k)]
           w == Node("call", Obj(f))
<1>0. at = [y \in {"func"} |-> at[y]] /\ at["func"] = Name("rate") /\ "at" \notin DOMAIN at
  OBVIOUS
<1>1. IsNode(x) /\ x.a = <<e>> /\ x.t = "Call" /\ x.at = at
  BY OneIn
<1> HIDE DEF at, x
<1>2. PromNode(x)
  <2>1. IsToken(Name("rate"), PromFunctions)
    BY NameIs, RateIsAFunction
  <2> QED BY <1>0, <1>1, <2>1 DEF PromNode, HasAttributes
<1>3. ~AtTooFar(x)
  BY <1>0, <1>1 DEF AtTooFar
<1>4. PromTreeNode(x, k) = w
  <2> HIDE DEF k
  <2>1. PromTreeNode(x, k) = DecodeCall(x, k)
    BY <1>1 DEF PromTreeNode
  <2> QED BY <1>0, <1>1, <2>1 DEF DecodeCall
<1>5. ASSUME HoldsUnknown(v) PROVE HoldsUnknown(w)
  <2>1. 1 \in DOMAIN k /\ k[1] = v
    OBVIOUS
  <2> HIDE DEF k
  <2>2. HoldsUnknown(List(k))
    BY <1>5, <2>1, UnknownList
  <2>3. "args" \in DOMAIN f /\ f["args"] = List(k)
    OBVIOUS
  <2> HIDE DEF f
  <2>4. HoldsUnknown(Obj(f))
    BY <2>2, <2>3, UnknownObj
  <2> QED BY <2>4, UnknownNode
<1> HIDE DEF w
<1>7. PromPut(e, v, x, w)
  BY <1>1, <1>2, <1>3, <1>4, <1>5, PromPutOne
<1> QED BY <1>7 DEF x, at, w

(* What is written of fields of which the others say no more. *)
LEMMA WrittenAs ==
  ASSUME NEW g, NEW u, NEW f, f = [y \in DOMAIN f |-> f[y]], DOMAIN f \subseteq DOMAIN g,
         \A y \in DOMAIN f : f[y] = g[y] /\ (y \in DOMAIN u => g[y] # u[y]),
         \A y \in DOMAIN g \ DOMAIN f : y \in DOMAIN u /\ g[y] = u[y]
  PROVE  Written(g, u) = f
<1> DEFINE S == {y \in DOMAIN g : Has(u, y) => g[y] # u[y]}
<1>1. S = DOMAIN f
  BY DEF Has
<1>2. Written(g, u) = [y \in S |-> g[y]]
  BY DEF Written
<1> HIDE DEF S
<1>3. [y \in S |-> g[y]] = [y \in DOMAIN f |-> f[y]]
  BY <1>1
<1> QED BY <1>2, <1>3

LEMMA PromSummed ==
  ASSUME NEW e, WholeText("promql", e), NEW v
  PROVE  PromPut(e, v, Ast("Aggregate", [op |-> Name("sum"), without |-> Bool(FALSE), grouping |-> List(<<>>)], <<e>>),
                 Node("aggregation", Obj([op |-> Name("sum"), expr |-> v])))
<1> DEFINE at == [op |-> Name("sum"), without |-> Bool(FALSE), grouping |-> List(<<>>)]
           x == Ast("Aggregate", at, <<e>>)
           k == <<v>>
           f == [op |-> Name("sum"), expr |-> v]
           w == Node("aggregation", Obj(f))
           g == [op |-> Name("sum"), expr |-> v, param |-> Nil, without |-> Nil, by |-> List(<<>>)]
           u == [param |-> Nil, without |-> Nil, by |-> List(<<>>)]
<1>0. /\ at = [y \in {"op", "without", "grouping"} |-> at[y]] /\ "at" \notin DOMAIN at
      /\ at["op"] = Name("sum") /\ at["without"] = Bool(FALSE) /\ at["grouping"] = List(<<>>)
  OBVIOUS
<1>1. IsNode(x) /\ x.a = <<e>> /\ x.t = "Aggregate" /\ x.at = at /\ Len(x.a) = 1
  BY OneIn
<1> HIDE DEF at, x
<1>2. PromNode(x)
  <2>1. IsToken(Name("sum"), AggOps)
    BY NameIs DEF AggOps
  <2>2. IsBool(Bool(FALSE))
    BY DEF IsBool
  <2>3. NamesOnly(List(<<>>))
    BY DEF NamesOnly, List
  <2>4. HasAttributes(x, {"op", "without", "grouping"})
    BY <1>0, <1>1 DEF HasAttributes
  <2> QED BY <1>0, <1>1, <2>1, <2>2, <2>3, <2>4 DEF PromNode
<1>3. ~AtTooFar(x)
  BY <1>0, <1>1 DEF AtTooFar
<1>4. PromTreeNode(x, k) = w
  <2>1. Len(k) # 2 /\ k[1] = v
    OBVIOUS
  <2> HIDE DEF k
  <2>2. PromTreeNode(x, k) = DecodeAggregation(x, k)
    BY <1>1 DEF PromTreeNode
  <2>3. x.at["without"].b = FALSE
    BY <1>0, <1>1 DEF Bool
  <2>4. DecodeAggregation(x, k) = Node("aggregation", Obj(Written(g, u)))
    BY <1>0, <1>1, <2>1, <2>3 DEF DecodeAggregation
  <2>5. Written(g, u) = f
    <3>1. f = [y \in DOMAIN f |-> f[y]] /\ DOMAIN f \subseteq DOMAIN g
      OBVIOUS
    <3>2. \A y \in DOMAIN f : f[y] = g[y] /\ y \notin DOMAIN u
      OBVIOUS
    <3>3. \A y \in DOMAIN g \ DOMAIN f : y \in DOMAIN u /\ g[y] = u[y]
      OBVIOUS
    <3> HIDE DEF f, g, u
    <3> QED BY <3>1, <3>2, <3>3, WrittenAs
  <2> HIDE DEF f, g, u
  <2> QED BY <2>2, <2>4, <2>5
<1>5. ASSUME HoldsUnknown(v) PROVE HoldsUnknown(w)
  <2>3. "expr" \in DOMAIN f /\ f["expr"] = v
    OBVIOUS
  <2> HIDE DEF f
  <2>4. HoldsUnknown(Obj(f))
    BY <1>5, <2>3, UnknownObj
  <2> QED BY <2>4, UnknownNode
<1> HIDE DEF w
<1>7. PromPut(e, v, x, w)
  BY <1>1, <1>2, <1>3, <1>4, <1>5, PromPutOne
<1> QED BY <1>7 DEF x, at, w

(* Beside a number. *)

LEMMA PromNumberIs ==
  ASSUME NEW n \in Int
  PROVE  WholeText("promql", Lit("Number", Count(n))) /\ PromCarried(Lit("Number", Count(n)), Count(n))
<1> DEFINE c == Count(n)
           at == [y \in {"value"} |-> c]
           x == Lit("Number", c)
<1>0. at = [y \in {"value"} |-> at[y]] /\ at["value"] = c /\ c.k = "num" /\ "at" \notin DOMAIN at
  BY DEF Count, Num
<1>1. x.t = "Number" /\ x.at = at /\ x.a = <<>> /\ IsNode(x) /\ DOMAIN x.a = {}
  BY DEF Lit, Ast, IsNode, IsSequence
<1> HIDE DEF c, at, x
<1>2. PromNode(x)
  BY <1>0, <1>1 DEF PromNode, IsLiteral, HasAttributes
<1>3. IsLanguageNode("promql", x)
  BY <1>2 DEF IsLanguageNode
<1>4. AllLegal("promql", x, 0)
  BY <1>1 DEF AllLegal
<1>5. WholeText("promql", x)
  BY <1>1, <1>3, <1>4, WholeHolds
<1>6. PICK m \in Nat : Legal("promql", x, m)
  BY <1>5 DEF WholeText
<1>7. ~AtTooFar(x)
  BY <1>0, <1>1 DEF AtTooFar
<1> DEFINE k == <<>>
<1>8. DOMAIN k = DOMAIN x.a /\ k = [i \in DOMAIN x.a |-> k[i]]
  BY <1>1
<1> HIDE DEF k
<1>9. PromCarried(x, PromTreeNode(x, k))
  BY <1>1, <1>2, <1>6, <1>7, <1>8, PromAround
<1>10. PromTreeNode(x, k) = c
  BY <1>0, <1>1 DEF PromTreeNode
<1> QED BY <1>5, <1>9, <1>10 DEF x, c

LEMMA TwoIn ==
  ASSUME NEW t, NEW at, NEW d, NEW e
  PROVE  /\ IsNode(Ast(t, at, <<d, e>>)) /\ Ast(t, at, <<d, e>>).a = <<d, e>> /\ Len(<<d, e>>) = 2
         /\ Ast(t, at, <<d, e>>).t = t /\ Ast(t, at, <<d, e>>).at = at
<1>1. IsSequence(<<d, e>>)
  BY DEF IsSequence
<1> QED BY <1>1 DEF Ast, IsNode

LEMMA PromAdded ==
  ASSUME NEW e, WholeText("promql", e), NEW v
  PROVE  PromPut(e, v, Ast("Binary", [op |-> Name("+"), bool |-> Bool(FALSE), matching |-> OneToOne],
                           <<Lit("Number", Count(1)), e>>),
                 Node("binaryExpr", Obj([op |-> Name("+"), lhs |-> Count(1), rhs |-> v])))
<1> DEFINE at == [op |-> Name("+"), bool |-> Bool(FALSE), matching |-> OneToOne]
           one == Count(1)
           d == Lit("Number", one)
           x == Ast("Binary", at, <<d, e>>)
           k == <<one, v>>
           f == [op |-> Name("+"), lhs |-> one, rhs |-> v]
           w == Node("binaryExpr", Obj(f))
           g == [op |-> Name("+"), lhs |-> one, rhs |-> v, bool |-> Bool(FALSE), on |-> Nil, ignoring |-> List(<<>>),
                 group_left |-> Nil, group_right |-> Nil]
           u == [bool |-> Bool(FALSE), on |-> Nil, ignoring |-> List(<<>>), group_left |-> Nil, group_right |-> Nil]
<1>a. WholeText("promql", d) /\ PromCarried(d, one)
  BY PromNumberIs
<1> HIDE DEF one, d
<1>0. /\ at = [y \in {"op", "bool", "matching"} |-> at[y]] /\ "at" \notin DOMAIN at
      /\ at["op"] = Name("+") /\ at["bool"] = Bool(FALSE) /\ at["matching"] = OneToOne
  OBVIOUS
<1>1. IsNode(x) /\ x.a = <<d, e>> /\ x.t = "Binary" /\ x.at = at /\ Len(x.a) = 2
  BY TwoIn
<1> HIDE DEF at, x
<1>b. DOMAIN x.a = {1, 2} /\ x.a[1] = d /\ x.a[2] = e
  BY <1>1
<1>c. OneToOne.f["on"] = Bool(FALSE) /\ OneToOne.f["labels"] = List(<<>>) /\ OneToOne.f["card"] = Name("one")
      /\ OneToOne.f["include"] = List(<<>>)
      /\ OneToOne = Obj([on |-> OneToOne.f["on"], labels |-> OneToOne.f["labels"], card |-> OneToOne.f["card"],
                         include |-> OneToOne.f["include"]])
  BY DEF OneToOne, Obj
<1>2. PromNode(x)
  <2>1. IsToken(Name("+"), BinaryOps)
    BY NameIs DEF BinaryOps
  <2>2. IsBool(Bool(FALSE))
    BY DEF IsBool
  <2>3. NamesOnly(List(<<>>))
    BY DEF NamesOnly, List
  <2>4. HasAttributes(x, {"op", "bool", "matching"})
    BY <1>0, <1>1 DEF HasAttributes
  <2>5. IsMatching(OneToOne)
    BY <1>c, <2>2, <2>3 DEF IsMatching
  <2> QED BY <1>0, <1>1, <2>1, <2>2, <2>4, <2>5 DEF PromNode
<1>3. ~AtTooFar(x)
  BY <1>0, <1>1 DEF AtTooFar
<1>k. k[1] = one /\ k[2] = v /\ DOMAIN k = {1, 2} /\ k = [i \in {1, 2} |-> k[i]]
  OBVIOUS
<1> HIDE DEF k
<1>4. PromTreeNode(x, k) = w
  <2>2. PromTreeNode(x, k) = DecodeBinary(x, k)
    BY <1>1 DEF PromTreeNode
  <2>3. /\ x.at["matching"].f["on"].b = FALSE
        /\ x.at["matching"].f["labels"] = List(<<>>)
        /\ x.at["matching"].f["card"] # Name("left") /\ x.at["matching"].f["card"] # Name("right")
        /\ x.at["op"] = Name("+") /\ x.at["bool"] = Bool(FALSE)
    <3>1. Name("one") # Name("left") /\ Name("one") # Name("right")
      <4>1. Name("one").s[1] = "one" /\ Name("left").s[1] = "left" /\ Name("right").s[1] = "right"
        BY NameIs
      <4> QED BY <4>1
    <3>2. Bool(FALSE).b = FALSE
      BY DEF Bool
    <3> QED BY <1>0, <1>1, <1>c, <3>1, <3>2
  <2>4. DecodeBinary(x, k) = Node("binaryExpr", Obj(Written(g, u)))
    BY <1>k, <2>3 DEF DecodeBinary
  <2>5. Written(g, u) = f
    <3>1. f = [y \in DOMAIN f |-> f[y]] /\ DOMAIN f \subseteq DOMAIN g
      OBVIOUS
    <3>2. \A y \in DOMAIN f : f[y] = g[y] /\ y \notin DOMAIN u
      OBVIOUS
    <3>3. \A y \in DOMAIN g \ DOMAIN f : y \in DOMAIN u /\ g[y] = u[y]
      <4>1. DOMAIN g \ DOMAIN f = {"bool", "on", "ignoring", "group_left", "group_right"}
        OBVIOUS
      <4>2. DOMAIN u = {"bool", "on", "ignoring", "group_left", "group_right"}
        OBVIOUS
      <4>3. /\ g["bool"] = u["bool"] /\ g["on"] = u["on"] /\ g["ignoring"] = u["ignoring"]
            /\ g["group_left"] = u["group_left"] /\ g["group_right"] = u["group_right"]
        OBVIOUS
      <4> HIDE DEF f, g, u
      <4> QED BY <4>1, <4>2, <4>3
    <3> HIDE DEF f, g, u
    <3> QED BY <3>1, <3>2, <3>3, WrittenAs
  <2> HIDE DEF f, g, u
  <2> QED BY <2>2, <2>4, <2>5
<1>5. ASSUME HoldsUnknown(v) PROVE HoldsUnknown(w)
  <2>3. "rhs" \in DOMAIN f /\ f["rhs"] = v
    OBVIOUS
  <2> HIDE DEF f
  <2>4. HoldsUnknown(Obj(f))
    BY <1>5, <2>3, UnknownObj
  <2> QED BY <2>4, UnknownNode
<1> HIDE DEF w
<1>6. PICK n \in Nat : Legal("promql", d, n) /\ Legal("promql", e, n)
  BY <1>a, LegalTogether
<1>7. AllLegal("promql", x, n)
  BY <1>6, <1>b DEF AllLegal
<1>8. IsLanguageNode("promql", x)
  BY <1>2 DEF IsLanguageNode
<1>9. WholeText("promql", x)
  BY <1>1, <1>7, <1>8, WholeHolds
<1>10. ASSUME PromCarried(e, v) PROVE PromCarried(x, w)
  <2>1. PICK m \in Nat : Legal("promql", x, m)
    BY <1>9 DEF WholeText
  <2>2. \A i \in DOMAIN x.a : WholeText("promql", x.a[i]) /\ PromCarried(x.a[i], k[i])
    BY <1>a, <1>b, <1>k, <1>10
  <2>3. DOMAIN k = DOMAIN x.a /\ k = [i \in DOMAIN x.a |-> k[i]]
    BY <1>b, <1>k
  <2>4. PromCarried(x, PromTreeNode(x, k))
    BY <1>1, <1>2, <1>3, <2>1, <2>2, <2>3, PromAround
  <2> QED BY <1>4, <2>4
<1>11. PromPut(e, v, x, w)
  BY <1>5, <1>9, <1>10 DEF PromPut
<1> QED BY <1>11 DEF x, at, w, d, one

LEMMA PromPutTwice ==
  ASSUME NEW e, NEW v, NEW x, NEW w, PromPut(e, v, x, w), NEW y, NEW z, PromPut(x, w, y, z)
  PROVE  PromPut(e, v, y, z)
BY DEF PromPut

(* Wherever the user puts the data of a query, it is that of what is meant.*)
LEMMA PromSpliced ==
  ASSUME NEW e, WholeText("promql", e), NEW v, NEW c \in PromContexts(v, e)
  PROVE  PromPut(e, v, c[2], c[1])
<1> DEFINE p1 == Node("paren", v)
           p2 == PromParenOf(e)
           rate == <<Node("call", Obj([func |-> Name("rate"), args |-> List(<<v>>)])),
                     Ast("Call", [x \in {"func"} |-> Name("rate")], <<e>>)>>
           paren == <<p1, p2>>
           neg == <<Node("neg", p1), Ast("Unary", [x \in {"op"} |-> Name("neg")], <<p2>>)>>
           plus == <<Node("binaryExpr", Obj([op |-> Name("+"), lhs |-> Count(1), rhs |-> p1])),
                     Ast("Binary", [op |-> Name("+"), bool |-> Bool(FALSE), matching |-> OneToOne],
                         <<Lit("Number", Count(1)), p2>>)>>
           sum == <<Node("aggregation", Obj([op |-> Name("sum"), expr |-> v])),
                    Ast("Aggregate", [op |-> Name("sum"), without |-> Bool(FALSE), grouping |-> List(<<>>)], <<e>>)>>
<1>1. c \in {rate, paren, neg, plus, sum}
  <2> DEFINE type == PromType(e)
  <2>1. PromContexts(v, e) = CASE type = "range" -> {rate}
                               [] type = "scalar" -> {paren, neg, plus}
                               [] type = "vector" -> {paren, neg, plus, sum}
                               [] OTHER -> {}
    BY DEF PromContexts, PromParenOf
  <2> HIDE DEF type, rate, paren, neg, plus, sum
  <2> QED BY <2>1
<1>2. PromPut(e, v, rate[2], rate[1])
  BY PromRated
<1>3. PromPut(e, v, p2, p1) /\ PromPut(e, v, paren[2], paren[1])
  BY PromInParen
<1>4. WholeText("promql", p2)
  BY <1>3 DEF PromPut
<1>5. PromPut(e, v, sum[2], sum[1])
  BY PromSummed
<1>6. PromPut(p2, p1, neg[2], neg[1])
  <2> HIDE DEF p1, p2
  <2> QED BY <1>4, PromNegated
<1>7. PromPut(p2, p1, plus[2], plus[1])
  <2> HIDE DEF p1, p2
  <2> QED BY <1>4, PromAdded
<1> HIDE DEF p1, p2, rate, paren, neg, plus, sum
<1>8. PromPut(e, v, neg[2], neg[1]) /\ PromPut(e, v, plus[2], plus[1])
  BY <1>3, <1>6, <1>7, PromPutTwice
<1> QED BY <1>1, <1>2, <1>3, <1>5, <1>8

-----------------------------------------------------------------------------
(* OEL: the data in more data. *)

(* A tree that is built as that of the node is as good. *)
LEMMA OelGoodAlike ==
  ASSUME NEW e, IsNode(e), OelNode(e), e.t \notin {"Entry", "CommaList"},
         NEW k, DOMAIN k = DOMAIN e.a, k = [i \in DOMAIN e.a |-> k[i]], NEW reason,
         \A i \in DOMAIN e.a : /\ e.a[i] # Bad /\ IsNode(e.a[i]) /\ OelNode(e.a[i]) /\ OelShape(e.a[i], k[i])
                               /\ OelGood(e.a[i], k[i], reason),
         OneWay("oel", e) => reason,
         NEW v, HeldBy(v) = HeldBy(OelTreeNode(e, k)), \A b : OelBuildNode(v, b) = OelBuildNode(OelTreeNode(e, k), b)
  PROVE  OelGood(e, v, reason)
<1>1. SUFFICES ASSUME NEW U, Closed(U), v \in U, NEW m \in Nat, Short(v, m), OelReads(e)
               PROVE  Gets(OelResult(e, v, OelBuilds!Stage(U)[m]), e, reason)
  BY DEF OelGood
<1>2. ASSUME NEW l \in Nat
      PROVE  /\ Closed({w \in U : Short(w, l)})
             /\ OelKnown(e, k, OelBuilds!Stage(U)[l], {w \in U : Short(w, l)}, reason)
  <2> DEFINE C == {w \in U : Short(w, l)}
             b == OelBuilds!Stage(U)[l]
  <2>1. Closed(C)
    BY <1>1, ShortClosed
  <2>2. ASSUME NEW i \in DOMAIN e.a, k[i] \in C, OelReads(e.a[i])
        PROVE  Gets(OelResult(e.a[i], k[i], b), e.a[i], reason)
    <3>1. OelGood(e.a[i], k[i], reason)
      OBVIOUS
    <3>2. k[i] \in U /\ Short(k[i], l)
      BY <2>2
    <3> QED BY <1>1, <2>2, <3>1, <3>2 DEF OelGood
  <2> HIDE DEF b, C
  <2>3. OelKnown(e, k, b, C, reason)
    BY <2>2 DEF OelKnown
  <2> QED BY <2>1, <2>3 DEF b, C
<1> DEFINE C == {w \in U : Short(w, m - 1)}
           b == OelBuilds!Stage(U)[m - 1]
<1>3. m - 1 \in Nat /\ \A w \in HeldBy(v) : Short(w, m - 1)
  BY <1>1, HeldShort
<1>4. OelBuilds!Stage(U)[m] = OelBuildMore(U, b)
  <2>1. \A i \in Nat : OelBuilds!Stage(U)[i + 1] = OelBuildMore(U, OelBuilds!Stage(U)[i])
    BY NumbersHaveLeast, OelBuilds!StageIs
  <2>2. (m - 1) + 1 = m
    OBVIOUS
  <2> QED BY <1>3, <2>1, <2>2
<1>5. OelBuilds!Stage(U)[m][v] = OelBuildNode(v, b)
  <2> HIDE DEF b
  <2> QED BY <1>1, <1>4 DEF OelBuildMore
<1>6. Closed(C) /\ OelKnown(e, k, b, C, reason)
  BY <1>2, <1>3
<1>7. HeldBy(OelTreeNode(e, k)) \subseteq C
  <2>1. HeldBy(v) \subseteq C
    BY <1>1, <1>3 DEF Closed
  <2> QED BY <2>1
<1> HIDE DEF b, C
<1>8. Gets(OelBuildNode(OelTreeNode(e, k), b), e, reason)
  BY <1>6, <1>7, OelNodeBuilt
<1> QED BY <1>5, <1>8 DEF OelResult

LEMMA OelGoodMore ==
  ASSUME NEW e, NEW v, NEW reason, OelGood(e, v, reason), NEW more, reason => more
  PROVE  OelGood(e, v, more)
BY DEF OelGood, Gets

(* The operands of a node, and their data. *)
OelUnder(e, k) ==
  /\ DOMAIN k = DOMAIN e.a /\ k = [i \in DOMAIN e.a |-> k[i]]
  /\ \A i \in DOMAIN e.a : OelCarried(e.a[i], k[i])

LEMMA OelUnderFits ==
  ASSUME NEW e, NEW k, OelUnder(e, k), NEW n \in Nat, Legal("oel", e, n), NEW i \in DOMAIN e.a
  PROVE  /\ e.a[i] # Bad /\ IsNode(e.a[i]) /\ OelNode(e.a[i]) /\ OelShape(e.a[i], k[i])
         /\ OelGood(e.a[i], k[i], SomeOneWay("oel", e))
<1>1. n - 1 \in Nat /\ Legal("oel", e.a[i], n - 1)
  BY LegalOperands
<1>2. IsNode(e.a[i]) /\ IsLanguageNode("oel", e.a[i])
  BY <1>1, LegalOperands
<1>3. OelNode(e.a[i])
  BY <1>2 DEF IsLanguageNode
<1>4. e.a[i] # Bad
  BY <1>3, OelNodeNotBad
<1>5. OelCarried(e.a[i], k[i])
  BY DEF OelUnder
<1>6. SomeOneWay("oel", e.a[i]) => SomeOneWay("oel", e)
  BY OneWayAbove
<1> DEFINE inner == SomeOneWay("oel", e.a[i])
           outer == SomeOneWay("oel", e)
<1>7. OelShape(e.a[i], k[i]) /\ OelGood(e.a[i], k[i], inner) /\ (inner => outer)
  BY <1>5, <1>6 DEF OelCarried
<1> HIDE DEF inner, outer
<1>8. OelGood(e.a[i], k[i], outer)
  BY <1>7, OelGoodMore
<1> QED BY <1>2, <1>3, <1>4, <1>7, <1>8 DEF outer

(* A node that is put around expressions, and what it makes of their data. *)
LEMMA OelAround ==
  ASSUME NEW e, NEW k, OelUnder(e, k), NEW n \in Nat, Legal("oel", e, n)
  PROVE  OelCarried(e, OelTreeNode(e, k))
<1> DEFINE reason == SomeOneWay("oel", e)
<1>1. IsNode(e) /\ IsLanguageNode("oel", e)
  BY LegalOperands
<1>2. OelNode(e)
  BY <1>1 DEF IsLanguageNode
<1>3. DOMAIN k = DOMAIN e.a /\ k = [i \in DOMAIN e.a |-> k[i]]
  BY DEF OelUnder
<1>4. ASSUME NEW i \in DOMAIN e.a
      PROVE  /\ e.a[i] # Bad /\ IsNode(e.a[i]) /\ OelNode(e.a[i]) /\ OelShape(e.a[i], k[i])
             /\ OelGood(e.a[i], k[i], reason)
  BY <1>4, OelUnderFits
<1>5. OneWay("oel", e) => reason
  BY OneWayAbove
<1> HIDE DEF reason
<1>6. OelGood(e, OelTreeNode(e, k), reason)
  BY <1>1, <1>2, <1>3, <1>4, <1>5, OelGoodNode
<1>7. OelShape(e, OelTreeNode(e, k))
  BY <1>1, <1>2, <1>3, OelShapeOf
<1> QED BY <1>6, <1>7 DEF OelCarried, reason

LEMMA OelAroundAlike ==
  ASSUME NEW e, NEW k, OelUnder(e, k), NEW n \in Nat, Legal("oel", e, n), e.t \notin {"Entry", "CommaList", "String"},
         NEW v, HeldBy(v) = HeldBy(OelTreeNode(e, k)), \A b : OelBuildNode(v, b) = OelBuildNode(OelTreeNode(e, k), b)
  PROVE  OelCarried(e, v)
<1> DEFINE reason == SomeOneWay("oel", e)
<1>1. IsNode(e) /\ IsLanguageNode("oel", e)
  BY LegalOperands
<1>2. OelNode(e)
  BY <1>1 DEF IsLanguageNode
<1>3. DOMAIN k = DOMAIN e.a /\ k = [i \in DOMAIN e.a |-> k[i]]
  BY DEF OelUnder
<1>4. ASSUME NEW i \in DOMAIN e.a
      PROVE  /\ e.a[i] # Bad /\ IsNode(e.a[i]) /\ OelNode(e.a[i]) /\ OelShape(e.a[i], k[i])
             /\ OelGood(e.a[i], k[i], reason)
  BY <1>4, OelUnderFits
<1>5. OneWay("oel", e) => reason
  BY OneWayAbove
<1> HIDE DEF reason
<1>6. OelGood(e, v, reason)
  BY <1>1, <1>2, <1>3, <1>4, <1>5, OelGoodAlike
<1>7. OelShape(e, v)
  BY DEF OelShape
<1> QED BY <1>6, <1>7 DEF OelCarried, reason

(* What is put around an expression, x, and around its data, w. *)
OelPut(e, v, x, w) ==
  /\ WholeText("oel", x)
  /\ HoldsUnknown(v) => HoldsUnknown(w)
  /\ OelCarried(e, v) => OelCarried(x, w)

LEMMA OelPutIn ==
  ASSUME NEW e, NEW v, NEW x, IsNode(x), OelNode(x), x.t \notin {"Entry", "CommaList", "String"},
         NEW n \in Nat, AllLegal("oel", x, n), NEW k, OelCarried(e, v) => OelUnder(x, k),
         NEW w, HeldBy(w) = HeldBy(OelTreeNode(x, k)), \A b : OelBuildNode(w, b) = OelBuildNode(OelTreeNode(x, k), b),
         HoldsUnknown(v) => HoldsUnknown(w)
  PROVE  OelPut(e, v, x, w)
<1>1. IsLanguageNode("oel", x)
  BY DEF IsLanguageNode
<1>2. WholeText("oel", x)
  BY <1>1, WholeHolds
<1>3. ASSUME OelCarried(e, v) PROVE OelCarried(x, w)
  <2>1. PICK m \in Nat : Legal("oel", x, m)
    BY <1>2 DEF WholeText
  <2>2. OelUnder(x, k)
    BY <1>3
  <2> QED BY <2>1, <2>2, OelAroundAlike
<1> QED BY <1>2, <1>3 DEF OelPut

(* A leaf of an expression, and its data. *)
LEMMA OelLeaf ==
  ASSUME NEW x, IsNode(x), OelNode(x), x.a = <<>>, x.t \notin {"Entry", "CommaList"}
  PROVE  WholeText("oel", x) /\ OelCarried(x, OelTreeNode(x, <<>>))
<1>1. IsLanguageNode("oel", x)
  BY DEF IsLanguageNode
<1>2. DOMAIN x.a = {}
  OBVIOUS
<1>3. AllLegal("oel", x, 0)
  BY <1>2 DEF AllLegal
<1>4. WholeText("oel", x)
  BY <1>1, <1>3, WholeHolds
<1>5. PICK n \in Nat : Legal("oel", x, n)
  BY <1>4 DEF WholeText
<1>6. OelUnder(x, <<>>)
  BY <1>2 DEF OelUnder
<1>7. OelCarried(x, OelTreeNode(x, <<>>))
  BY <1>5, <1>6, OelAround
<1> QED BY <1>4, <1>7

OelB == Ast("Path", [user |-> Bool(FALSE), root |-> Name("b"), hops |-> List(<<>>)], <<>>)
IdentB == Node("ident", Name("b"))

LEMMA OelPathIs ==
  WholeText("oel", OelB) /\ OelCarried(OelB, IdentB) /\ OelB.t = "Path"
<1> DEFINE at == [user |-> Bool(FALSE), root |-> Name("b"), hops |-> List(<<>>)]
<1>1. OelB.t = "Path" /\ OelB.at = at /\ OelB.a = <<>> /\ IsNode(OelB)
  BY DEF OelB, Ast, IsNode, IsSequence
<1>0. /\ at = [y \in {"user", "root", "hops"} |-> at[y]]
      /\ at["user"] = Bool(FALSE) /\ at["root"] = Name("b") /\ at["hops"] = List(<<>>)
  OBVIOUS
<1> HIDE DEF at
<1>2. at["user"].b = FALSE /\ at["root"].s[1] = "b" /\ at["hops"].e = <<>> /\ IsBool(at["user"])
  <2>1. Bool(FALSE).b = FALSE /\ IsBool(Bool(FALSE))
    BY DEF Bool, IsBool
  <2>2. Name("b").s[1] = "b"
    BY NameIs
  <2>3. List(<<>>).e = <<>>
    BY ListIs
  <2> QED BY <1>0, <2>1, <2>2, <2>3
<1>3. OelNode(OelB)
  <2>1. Name("b") # EmptyName /\ Name("b") # Name("user")
    <3>1. Name("b").s[1] = "b" /\ Name("user").s[1] = "user" /\ Name("").s[1] = ""
      BY NameIs
    <3> QED BY <3>1 DEF EmptyName
  <2>2. IsSequence(<<>>) /\ DOMAIN <<>> = {}
    BY DEF IsSequence
  <2>3. IsPath(at)
    BY <1>0, <1>2, <2>1, <2>2 DEF IsPath
  <2>4. HasAttributes(OelB, {"user", "root", "hops"})
    BY <1>0, <1>1 DEF HasAttributes
  <2> QED BY <1>1, <2>3, <2>4 DEF OelNode
<1>4. OelTreeNode(OelB, <<>>) = IdentB
  <2> DEFINE p == [i \in 1 .. 0 + 1 |-> IF i = 1 THEN "b" ELSE <<>>[i - 1].s[1]]
  <2>1. p = <<"b">>
    <3>1. \A i \in 1 .. 0 + 1 : i = 1
      OBVIOUS
    <3>2. p = [i \in 1 .. 0 + 1 |-> "b"]
      BY <3>1
    <3>3. 1 .. 0 + 1 = {1}
      OBVIOUS
    <3>4. <<"b">> = [i \in {1} |-> "b"]
      OBVIOUS
    <3> QED BY <3>2, <3>3, <3>4
  <2>2. OelTreeNode(OelB, <<>>) = DecodePath(OelB)
    BY <1>1 DEF OelTreeNode
  <2>3. Len(<<>>) = 0 /\ DOMAIN <<>> = {}
    OBVIOUS
  <2>4. DecodePath(OelB) = Node("ident", Str(p))
    BY <1>1, <1>2, <2>3 DEF DecodePath
  <2> HIDE DEF p
  <2> QED BY <2>1, <2>2, <2>4 DEF IdentB, Name
<1> QED BY <1>1, <1>3, <1>4, OelLeaf

LEMMA OelLitIs ==
  ASSUME NEW t, NEW v, (t = "Null" /\ v = Nil) \/ (t = "String" /\ v.k = "str")
  PROVE  WholeText("oel", Lit(t, v)) /\ OelCarried(Lit(t, v), v) /\ Lit(t, v).t = t /\ Lit(t, v).at["value"] = v
<1> DEFINE at == [y \in {"value"} |-> v]
           x == Lit(t, v)
<1>1. x.t = t /\ x.at = at /\ x.a = <<>> /\ IsNode(x)
  BY DEF Lit, Ast, IsNode, IsSequence
<1>2. at = [y \in {"value"} |-> at[y]] /\ at["value"] = v
  OBVIOUS
<1> HIDE DEF x, at
<1>3. OelNode(x)
  BY <1>1, <1>2 DEF OelNode, IsLiteral, HasAttributes
<1>4. OelTreeNode(x, <<>>) = v
  BY <1>1, <1>2 DEF OelTreeNode
<1>5. WholeText("oel", x) /\ OelCarried(x, v)
  BY <1>1, <1>3, <1>4, OelLeaf
<1> QED BY <1>1, <1>2, <1>5 DEF x

LEMMA OelWholeIs ==
  ASSUME NEW e, WholeText("oel", e)
  PROVE  e.t \notin {"Entry", "CommaList"} /\ \E n \in Nat : Legal("oel", e, n)
BY DEF WholeText

LEMMA OneUnder ==
  ASSUME NEW t, NEW at, NEW e, NEW v, OelCarried(e, v)
  PROVE  OelUnder(Ast(t, at, <<e>>), <<v>>)
<1> DEFINE x == Ast(t, at, <<e>>)
           k == <<v>>
<1>1. x.a = <<e>>
  BY OneIn
<1>2. k[1] = v /\ DOMAIN k = {1} /\ k = [i \in {1} |-> k[i]]
  OBVIOUS
<1> HIDE DEF x, k
<1>3. DOMAIN x.a = {1} /\ x.a[1] = e
  BY <1>1
<1>4. OelUnder(x, k)
  BY <1>2, <1>3 DEF OelUnder
<1> QED BY <1>4 DEF x, k

LEMMA TwoUnder ==
  ASSUME NEW t, NEW at, NEW d, NEW u, OelCarried(d, u), NEW e, NEW v, OelCarried(e, v)
  PROVE  OelUnder(Ast(t, at, <<d, e>>), <<u, v>>)
<1> DEFINE x == Ast(t, at, <<d, e>>)
           k == <<u, v>>
<1>1. x.a = <<d, e>>
  BY TwoIn
<1>2. k[1] = u /\ k[2] = v /\ DOMAIN k = {1, 2} /\ k = [i \in {1, 2} |-> k[i]]
  OBVIOUS
<1> HIDE DEF x, k
<1>3. DOMAIN x.a = {1, 2} /\ x.a[1] = d /\ x.a[2] = e
  BY <1>1
<1>4. OelUnder(x, k)
  BY <1>2, <1>3 DEF OelUnder
<1> QED BY <1>4 DEF x, k

LEMMA OneLegal ==
  ASSUME NEW l, NEW t, NEW at, NEW e, NEW n, Legal(l, e, n)
  PROVE  AllLegal(l, Ast(t, at, <<e>>), n)
<1>1. DOMAIN <<e>> = {1} /\ <<e>>[1] = e
  OBVIOUS
<1>2. Ast(t, at, <<e>>).a = <<e>>
  BY OneIn
<1> QED BY <1>1, <1>2 DEF AllLegal

LEMMA TwoLegal ==
  ASSUME NEW l, NEW t, NEW at, NEW d, NEW e, NEW n, Legal(l, d, n), Legal(l, e, n)
  PROVE  AllLegal(l, Ast(t, at, <<d, e>>), n)
<1>1. DOMAIN <<d, e>> = {1, 2} /\ <<d, e>>[1] = d /\ <<d, e>>[2] = e
  OBVIOUS
<1>2. Ast(t, at, <<d, e>>).a = <<d, e>>
  BY TwoIn
<1> QED BY <1>1, <1>2 DEF AllLegal

LEMMA OelNegated ==
  ASSUME NEW e, WholeText("oel", e), NEW v
  PROVE  OelPut(e, v, Ast("Not", NoFields, <<e>>), Node("not", v))
<1> DEFINE x == Ast("Not", NoFields, <<e>>)
           k == <<v>>
           w == Node("not", v)
<1>1. IsNode(x) /\ x.a = <<e>> /\ x.t = "Not" /\ x.at = NoFields /\ Len(x.a) = 1
  BY OneIn
<1>2. PICK n \in Nat : Legal("oel", e, n)
  BY OelWholeIs
<1>3. AllLegal("oel", x, n)
  BY <1>2, OneLegal
<1>4. OelCarried(e, v) => OelUnder(x, k)
  BY OneUnder
<1>k. k[1] = v
  OBVIOUS
<1> HIDE DEF x, k
<1>5. OelNode(x)
  <2>1. e.t \notin {"Entry", "CommaList"}
    BY OelWholeIs
  <2>2. DOMAIN x.a = {1} /\ x.a[1] = e
    BY <1>1
  <2>3. OelValues(x.a)
    BY <2>1, <2>2 DEF OelValues
  <2> QED BY <1>1, <2>3 DEF OelNode, OperandsOf
<1>6. OelTreeNode(x, k) = Node("!", v)
  BY <1>1, <1>k DEF OelTreeNode
<1>7. HeldBy(w) = HeldBy(OelTreeNode(x, k))
  BY <1>6, NodeHolds
<1>8. ASSUME NEW b PROVE OelBuildNode(w, b) = OelBuildNode(OelTreeNode(x, k), b)
  <2>1. OelBuildNode(Node("!", v), b) = OelBuildKeyed("!", v, b) /\ OelBuildNode(Node("not", v), b) = OelBuildKeyed("not", v, b)
    BY OelKeyed
  <2>2. OelBuildKeyed("!", v, b) = OelBuildKeyed("not", v, b)
    BY DEF OelBuildKeyed
  <2> QED BY <1>6, <2>1, <2>2
<1>9. HoldsUnknown(v) => HoldsUnknown(w)
  BY UnknownNode
<1> HIDE DEF w
<1>10. OelPut(e, v, x, w)
  BY <1>1, <1>3, <1>4, <1>5, <1>7, <1>8, <1>9, OelPutIn
<1> QED BY <1>10 DEF x, w

LEMMA OelCompared ==
  ASSUME NEW e, WholeText("oel", e), NEW v
  PROVE  OelPut(e, v, Ast("Comparison", [y \in {"op"} |-> Name("==")], <<e, OelB>>), Node("eq", List(<<v, IdentB>>)))
<1> DEFINE at == [y \in {"op"} |-> Name("==")]
           x == Ast("Comparison", at, <<e, OelB>>)
           k == <<v, IdentB>>
           w == Node("eq", List(k))
<1>b. WholeText("oel", OelB) /\ OelCarried(OelB, IdentB) /\ OelB.t = "Path"
  BY OelPathIs
<1>1. IsNode(x) /\ x.a = <<e, OelB>> /\ x.t = "Comparison" /\ x.at = at /\ Len(x.a) = 2
  BY TwoIn
<1>2. PICK n \in Nat : Legal("oel", e, n) /\ Legal("oel", OelB, n)
  BY <1>b, LegalTogether
<1>3. AllLegal("oel", x, n)
  BY <1>2, TwoLegal
<1>4. OelCarried(e, v) => OelUnder(x, k)
  BY <1>b, TwoUnder
<1>k. k[1] = v /\ DOMAIN k = 1 .. 2
  OBVIOUS
<1>a. at = [y \in {"op"} |-> at[y]] /\ at["op"] = Name("==")
  OBVIOUS
<1> HIDE DEF x, k, at
<1>5. OelNode(x)
  <2>1. e.t \notin {"Entry", "CommaList"}
    BY OelWholeIs
  <2>2. DOMAIN x.a = {1, 2} /\ x.a[1] = e /\ x.a[2] = OelB
    BY <1>1
  <2>3. OelValues(x.a)
    BY <1>b, <2>1, <2>2 DEF OelValues
  <2>4. HasAttributes(x, {"op"})
    BY <1>1, <1>a DEF HasAttributes
  <2>5. "==" \in ComparisonOps
    BY DEF ComparisonOps
  <2> QED BY <1>1, <1>a, <2>3, <2>4, <2>5 DEF OelNode
<1>6. OelTreeNode(x, k) = Node("==", List(k))
  <2>1. x.at["op"].s[1] = "=="
    BY <1>1, <1>a, NameIs
  <2> QED BY <1>1, <2>1 DEF OelTreeNode
<1>7. HeldBy(w) = HeldBy(OelTreeNode(x, k))
  BY <1>6, NodeHolds
<1>8. ASSUME NEW b PROVE OelBuildNode(w, b) = OelBuildNode(OelTreeNode(x, k), b)
  <2> DEFINE l == List(k)
             a == BuildList(k, b)
  <2>0. l.k = "list" /\ l.e = k
    BY ListIs
  <2> HIDE DEF l
  <2>1. OelBuildNode(Node("==", l), b) = OelBuildKeyed("==", l, b) /\ OelBuildNode(Node("eq", l), b) = OelBuildKeyed("eq", l, b)
    BY OelKeyed
  <2>2. OelBuildKeyed("==", l, b) = BuildOperator("==", a) /\ OelBuildKeyed("eq", l, b) = BuildOperator("eq", a)
    BY <2>0 DEF OelBuildKeyed
  <2> HIDE DEF a
  <2>3. Spells("eq", ComparisonOps) /\ Spelled("eq", ComparisonOps) = "=="
    <3>1. \A op \in ComparisonOps : "eq" \in SpellingsOf(op) <=> op = "=="
      BY DEF ComparisonOps, SpellingsOf
    <3>2. "==" \in ComparisonOps
      BY DEF ComparisonOps
    <3> QED BY <3>1, <3>2 DEF Spells, Spelled
  <2>4. Spells("==", ComparisonOps) /\ Spelled("==", ComparisonOps) = "=="
    BY ComparisonSpelled DEF ComparisonOps
  <2>6. ~Spells("eq", LogicalOps) /\ ~Spells("==", LogicalOps)
    BY DEF Spells, LogicalOps, SpellingsOf
  <2>5. BuildOperator("==", a) = BuildOperator("eq", a)
    BY <2>3, <2>4, <2>6 DEF BuildOperator
  <2> QED BY <1>6, <2>1, <2>2, <2>5 DEF l
<1>9. ASSUME HoldsUnknown(v) PROVE HoldsUnknown(w)
  <2>1. HoldsUnknown(List(k))
    <3>1. 1 \in DOMAIN k
      BY <1>k
    <3> QED BY <1>9, <1>k, <3>1, UnknownList
  <2> QED BY <2>1, UnknownNode
<1> HIDE DEF w
<1>10. OelPut(e, v, x, w)
  BY <1>1, <1>3, <1>4, <1>5, <1>7, <1>8, <1>9, OelPutIn
<1> QED BY <1>10 DEF x, w, at, k

LEMMA OelPutSame ==
  ASSUME NEW e, NEW v, NEW x, IsNode(x), OelNode(x), x.t \notin {"Entry", "CommaList", "String"},
         NEW n \in Nat, AllLegal("oel", x, n), NEW k, OelCarried(e, v) => OelUnder(x, k),
         NEW w, w = OelTreeNode(x, k), HoldsUnknown(v) => HoldsUnknown(w)
  PROVE  OelPut(e, v, x, w)
BY OelPutIn

LEMMA OelChosen ==
  ASSUME NEW e, WholeText("oel", e), NEW v
  PROVE  OelPut(e, v, Ast("Ternary", NoFields, <<OelB, e, Lit("Null", Nil)>>), Node("cond", List(<<IdentB, v, Nil>>)))
<1> DEFINE null == Lit("Null", Nil)
           a == <<OelB, e, null>>
           x == Ast("Ternary", NoFields, a)
           k == <<IdentB, v, Nil>>
           w == Node("cond", List(k))
<1>b. WholeText("oel", OelB) /\ OelCarried(OelB, IdentB) /\ OelB.t = "Path"
  BY OelPathIs
<1>c. WholeText("oel", null) /\ OelCarried(null, Nil) /\ null.t = "Null"
  BY OelLitIs
<1> HIDE DEF null
<1>a. a[1] = OelB /\ a[2] = e /\ a[3] = null /\ DOMAIN a = {1, 2, 3} /\ Len(a) = 3 /\ IsSequence(a)
  BY DEF IsSequence
<1>k. k[1] = IdentB /\ k[2] = v /\ k[3] = Nil /\ DOMAIN k = {1, 2, 3} /\ k = [i \in {1, 2, 3} |-> k[i]]
  OBVIOUS
<1> HIDE DEF a, k
<1>1. IsNode(x) /\ x.a = a /\ x.t = "Ternary" /\ x.at = NoFields
  BY <1>a DEF Ast, IsNode
<1> HIDE DEF x
<1>2. PICK n1 \in Nat : Legal("oel", e, n1) /\ Legal("oel", OelB, n1)
  BY <1>b, LegalTogether
<1>3. PICK n2 \in Nat : Legal("oel", null, n2)
  BY <1>c, OelWholeIs
<1>4. PICK n \in Nat : n1 <= n /\ n2 <= n
  BY Larger
<1>5. Legal("oel", e, n) /\ Legal("oel", OelB, n) /\ Legal("oel", null, n)
  BY <1>2, <1>3, <1>4, LegalMore
<1>6. AllLegal("oel", x, n)
  BY <1>1, <1>5, <1>a DEF AllLegal
<1>7. OelCarried(e, v) => OelUnder(x, k)
  BY <1>1, <1>a, <1>b, <1>c, <1>k DEF OelUnder
<1>8. OelNode(x)
  <2>1. e.t \notin {"Entry", "CommaList"}
    BY OelWholeIs
  <2>3. OelValues(x.a)
    BY <1>1, <1>a, <1>b, <1>c, <2>1 DEF OelValues
  <2> QED BY <1>1, <1>a, <2>3 DEF OelNode, OperandsOf
<1>9. OelTreeNode(x, k) = w
  BY <1>1 DEF OelTreeNode
<1>10. ASSUME HoldsUnknown(v) PROVE HoldsUnknown(w)
  <2>1. HoldsUnknown(List(k))
    BY <1>10, <1>k, UnknownList
  <2> QED BY <2>1, UnknownNode
<1> HIDE DEF w
<1>11. OelPut(e, v, x, w)
  BY <1>1, <1>6, <1>7, <1>8, <1>9, <1>10, OelPutSame
<1> QED BY <1>11 DEF x, w, a, k, null

(* What a call is written as, with arguments. *)
LEMMA CallTreeIs ==
  ASSUME NEW spec, spec = [y \in DOMAIN spec |-> spec[y]], "args" \in DOMAIN spec => spec["args"] # Nil
  PROVE  CallTree(spec) = Node("call", Obj(spec))
<1> DEFINE u == [y \in {"args"} |-> Nil]
<1>1. Written(spec, u) = spec
  <2>1. \A y \in DOMAIN spec : y \in DOMAIN u => spec[y] # u[y]
    OBVIOUS
  <2>2. DOMAIN spec \ DOMAIN spec = {}
    OBVIOUS
  <2> HIDE DEF u
  <2> QED BY <2>1, <2>2, WrittenAs
<1> HIDE DEF u
<1>2. CallTree(spec) = Node("call", Obj(Written(spec, u)))
  BY DEF CallTree, u
<1> QED BY <1>1, <1>2

LEMMA ListNotNil ==
  ASSUME NEW s
  PROVE  List(s) # Nil
BY DEF List, Nil

LEMMA OelCalled ==
  ASSUME NEW e, WholeText("oel", e), NEW v
  PROVE  OelPut(e, v, Ast("FuncCall", [y \in {"name"} |-> Name("f")], <<e>>),
                Node("call", Obj([function |-> Name("f"), args |-> List(<<v>>)])))
<1> DEFINE at == [y \in {"name"} |-> Name("f")]
           x == Ast("FuncCall", at, <<e>>)
           k == <<v>>
           f == [function |-> Name("f"), args |-> List(k)]
           w == Node("call", Obj(f))
<1>1. IsNode(x) /\ x.a = <<e>> /\ x.t = "FuncCall" /\ x.at = at /\ Len(x.a) = 1
  BY OneIn
<1>2. PICK n \in Nat : Legal("oel", e, n)
  BY OelWholeIs
<1>3. AllLegal("oel", x, n)
  BY <1>2, OneLegal
<1>4. OelCarried(e, v) => OelUnder(x, k)
  BY OneUnder
<1>k. k[1] = v /\ 1 \in DOMAIN k
  OBVIOUS
<1>a. at = [y \in {"name"} |-> at[y]] /\ at["name"] = Name("f")
  OBVIOUS
<1> HIDE DEF x, k, at
<1>c. e.t \notin {"Entry", "CommaList"} /\ x.a # <<>> /\ x.a[1] = e
  BY <1>1, OelWholeIs
<1>5. OelNode(x)
  <2>1. IsName(Name("f"))
    <3>1. Name("f").s[1] = "f" /\ Name("").s[1] = "" /\ Name("f").k = "str"
      BY NameIs
    <3> QED BY <3>1 DEF IsName, EmptyName
  <2>2. ~IsToken(Name("f"), MemberOfKinds)
    BY NameIs DEF MemberOfKinds
  <2>3. AreArguments(x.a)
    BY <1>1, <1>c DEF AreArguments
  <2>4. HasAttributes(x, {"name"})
    BY <1>1, <1>a DEF HasAttributes
  <2> QED BY <1>1, <1>a, <2>1, <2>2, <2>3, <2>4 DEF OelNode
<1>6. OelTreeNode(x, k) = w
  <2>1. ArgsTree(x.a, k) = List(k)
    BY <1>c DEF ArgsTree
  <2>2. OelTreeNode(x, k) = CallTree(f)
    BY <1>1, <1>a, <2>1 DEF OelTreeNode
  <2>3. f = [y \in DOMAIN f |-> f[y]] /\ f["args"] = List(k)
    OBVIOUS
  <2>4. f["args"] # Nil
    BY <2>3, ListNotNil
  <2> HIDE DEF f
  <2>5. CallTree(f) = Node("call", Obj(f))
    BY <2>3, <2>4, CallTreeIs
  <2> QED BY <2>2, <2>5
<1>9. ASSUME HoldsUnknown(v) PROVE HoldsUnknown(w)
  <2>1. HoldsUnknown(List(k))
    BY <1>9, <1>k, UnknownList
  <2>2. "args" \in DOMAIN f /\ f["args"] = List(k)
    OBVIOUS
  <2> HIDE DEF f
  <2>3. HoldsUnknown(Obj(f))
    BY <2>1, <2>2, UnknownObj
  <2> QED BY <2>3, UnknownNode
<1> HIDE DEF w
<1>10. OelPut(e, v, x, w)
  BY <1>1, <1>3, <1>4, <1>5, <1>6, <1>9, OelPutSame
<1> QED BY <1>10 DEF x, w, at, k

(* A node within one that is put around an expression. *)
LEMMA OelWithin ==
  ASSUME NEW x, IsNode(x), OelNode(x), NEW n \in Nat, AllLegal("oel", x, n)
  PROVE  Legal("oel", x, n + 1) /\ n + 1 \in Nat /\ \A k : OelUnder(x, k) => OelCarried(x, OelTreeNode(x, k))
<1>1. IsLanguageNode("oel", x)
  BY DEF IsLanguageNode
<1>2. Legal("oel", x, n + 1)
  BY <1>1, LegalHolds DEF AllLegal
<1>3. n + 1 \in Nat
  OBVIOUS
<1> QED BY <1>2, <1>3, OelAround

CommasOf(e) == Ast("CommaList", NoFields, <<e, OelB>>)

LEMMA OelCommas ==
  ASSUME NEW e, WholeText("oel", e), NEW v
  PROVE  /\ \E n \in Nat : Legal("oel", CommasOf(e), n)
         /\ OelCarried(e, v) => OelCarried(CommasOf(e), List(<<v, IdentB>>))
         /\ CommasOf(e).t = "CommaList"
<1> DEFINE x == CommasOf(e)
           k == <<v, IdentB>>
<1>b. WholeText("oel", OelB) /\ OelCarried(OelB, IdentB) /\ OelB.t = "Path"
  BY OelPathIs
<1>1. IsNode(x) /\ x.a = <<e, OelB>> /\ x.t = "CommaList" /\ x.at = NoFields /\ Len(x.a) = 2
  BY TwoIn DEF CommasOf
<1>2. PICK n \in Nat : Legal("oel", e, n) /\ Legal("oel", OelB, n)
  BY <1>b, LegalTogether
<1>3. AllLegal("oel", x, n)
  BY <1>2, TwoLegal DEF CommasOf
<1>4. OelCarried(e, v) => OelUnder(x, k)
  BY <1>b, TwoUnder DEF CommasOf
<1> HIDE DEF x, k
<1>5. OelNode(x)
  <2>1. e.t \notin {"Entry", "CommaList"}
    BY OelWholeIs
  <2>2. DOMAIN x.a = {1, 2} /\ x.a[1] = e /\ x.a[2] = OelB
    BY <1>1
  <2>3. OelValues(x.a)
    BY <1>b, <2>1, <2>2 DEF OelValues
  <2> QED BY <1>1, <2>3 DEF OelNode
<1>6. OelTreeNode(x, k) = List(k)
  BY <1>1 DEF OelTreeNode
<1>7. Legal("oel", x, n + 1) /\ n + 1 \in Nat /\ (OelUnder(x, k) => OelCarried(x, List(k)))
  BY <1>1, <1>3, <1>5, <1>6, OelWithin
<1>8. OelCarried(e, v) => OelCarried(x, List(k))
  BY <1>4, <1>7
<1> QED BY <1>1, <1>7, <1>8 DEF x, k

LEMMA OelClassCalled ==
  ASSUME NEW e, WholeText("oel", e), NEW v
  PROVE  OelPut(e, v, Ast("ClassCall", [class |-> Name("String"), method |-> Name("len")], <<CommasOf(e)>>),
                Node("call", Obj([class |-> Name("String"), method |-> Name("len"), args |-> List(<<v, IdentB>>)])))
<1> DEFINE at == [class |-> Name("String"), method |-> Name("len")]
           y == CommasOf(e)
           x == Ast("ClassCall", at, <<y>>)
           l == List(<<v, IdentB>>)
           k == <<l>>
           f == [class |-> Name("String"), method |-> Name("len"), args |-> l]
           w == Node("call", Obj(f))
<1>u. HoldsUnknown(v) => HoldsUnknown(l)
  <2> DEFINE s == <<v, IdentB>>
  <2>1. s[1] = v /\ 1 \in DOMAIN s
    OBVIOUS
  <2> HIDE DEF s
  <2>2. HoldsUnknown(v) => HoldsUnknown(List(s))
    BY <2>1, UnknownList
  <2> QED BY <2>2 DEF s
<1>y. y.t = "CommaList" /\ (OelCarried(e, v) => OelCarried(y, l)) /\ \E n \in Nat : Legal("oel", y, n)
  BY OelCommas
<1>l. l # Nil
  BY ListNotNil
<1> HIDE DEF y, l
<1>1. IsNode(x) /\ x.a = <<y>> /\ x.t = "ClassCall" /\ x.at = at /\ Len(x.a) = 1
  BY OneIn
<1>2. PICK n \in Nat : Legal("oel", y, n)
  BY <1>y
<1>3. AllLegal("oel", x, n)
  BY <1>2, OneLegal
<1>4. OelCarried(e, v) => OelUnder(x, k)
  BY <1>y, OneUnder
<1>k. k[1] = l /\ 1 \in DOMAIN k
  OBVIOUS
<1>a. at = [z \in {"class", "method"} |-> at[z]] /\ at["class"] = Name("String") /\ at["method"] = Name("len")
  OBVIOUS
<1> HIDE DEF x, k, at
<1>c. x.a # <<>> /\ x.a[1] = y
  BY <1>1
<1>5. OelNode(x)
  <2>1. IsName(Name("String")) /\ IsName(Name("len"))
    <3>1. Name("String").s[1] = "String" /\ Name("len").s[1] = "len" /\ Name("").s[1] = "" /\ Name("String").k = "str" /\ Name("len").k = "str"
      BY NameIs
    <3> QED BY <3>1 DEF IsName, EmptyName
  <2>3. AreArguments(x.a)
    BY <1>1, <1>c, <1>y DEF AreArguments
  <2>4. HasAttributes(x, {"class", "method"})
    BY <1>1, <1>a DEF HasAttributes
  <2> QED BY <1>1, <1>a, <2>1, <2>3, <2>4 DEF OelNode
<1>6. OelTreeNode(x, k) = w
  <2>1. ArgsTree(x.a, k) = l
    BY <1>c, <1>k, <1>y DEF ArgsTree
  <2>2. OelTreeNode(x, k) = CallTree(f)
    BY <1>1, <1>a, <2>1 DEF OelTreeNode
  <2>3. f = [z \in DOMAIN f |-> f[z]] /\ f["args"] = l
    OBVIOUS
  <2> HIDE DEF f
  <2>5. CallTree(f) = Node("call", Obj(f))
    BY <1>l, <2>3, CallTreeIs
  <2> QED BY <2>2, <2>5
<1>9. ASSUME HoldsUnknown(v) PROVE HoldsUnknown(w)
  <2>2. "args" \in DOMAIN f /\ f["args"] = l
    OBVIOUS
  <2> HIDE DEF f
  <2>3. HoldsUnknown(Obj(f))
    BY <1>9, <1>u, <2>2, UnknownObj
  <2> QED BY <2>3, UnknownNode
<1> HIDE DEF w
<1>10. OelPut(e, v, x, w)
  BY <1>1, <1>3, <1>4, <1>5, <1>6, <1>9, OelPutSame
<1> QED BY <1>10 DEF x, w, at, k, y, l

EntryOf(e) == Ast("Entry", NoFields, <<Lit("String", Name("k")), e>>)

LEMMA OelKeyedEntry ==
  ASSUME NEW e, WholeText("oel", e), NEW v
  PROVE  /\ \E n \in Nat : Legal("oel", EntryOf(e), n)
         /\ OelCarried(e, v) => OelCarried(EntryOf(e), Obj([key |-> Name("k"), value |-> v]))
         /\ EntryOf(e).t = "Entry" /\ EntryOf(e).a[1].t = "String"
<1> DEFINE name == Name("k")
           d == Lit("String", name)
           x == EntryOf(e)
           k == <<name, v>>
<1>n. name.k = "str"
  BY NameIs
<1> HIDE DEF name
<1>b. WholeText("oel", d) /\ OelCarried(d, name) /\ d.t = "String" /\ d.at["value"] = name
  BY <1>n, OelLitIs
<1> HIDE DEF d
<1>x. x = Ast("Entry", NoFields, <<d, e>>)
  BY DEF EntryOf, d, name
<1> HIDE DEF x
<1>1. IsNode(x) /\ x.a = <<d, e>> /\ x.t = "Entry" /\ x.at = NoFields /\ Len(x.a) = 2
  BY <1>x, TwoIn
<1>2. PICK n \in Nat : Legal("oel", d, n) /\ Legal("oel", e, n)
  BY <1>b, LegalTogether
<1>3. AllLegal("oel", x, n)
  BY <1>2, <1>x, TwoLegal
<1>4. OelCarried(e, v) => OelUnder(x, k)
  BY <1>b, <1>x, TwoUnder
<1>k. k[1] = name /\ k[2] = v
  OBVIOUS
<1> HIDE DEF k
<1>a. DOMAIN x.a = {1, 2} /\ x.a[1] = d /\ x.a[2] = e
  BY <1>1
<1>5. OelNode(x)
  <2>1. e.t \notin {"Entry", "CommaList"}
    BY OelWholeIs
  <2>3. OelValues(x.a)
    BY <1>a, <1>b, <2>1 DEF OelValues
  <2>4. OperandsOf(x, 2)
    BY <1>1, <2>3 DEF OperandsOf
  <2> QED BY <1>1, <1>a, <1>b, <1>n, <2>4 DEF OelNode
<1>6. OelTreeNode(x, k) = Obj([key |-> name, value |-> v])
  BY <1>1, <1>k DEF OelTreeNode
<1>7. Legal("oel", x, n + 1) /\ n + 1 \in Nat /\ (OelUnder(x, k) => OelCarried(x, OelTreeNode(x, k)))
  BY <1>1, <1>3, <1>5, OelWithin
<1>8. OelCarried(e, v) => OelCarried(x, Obj([key |-> name, value |-> v]))
  BY <1>4, <1>6, <1>7
<1>9. x.t = "Entry" /\ x.a[1].t = "String"
  BY <1>1, <1>a, <1>b
<1> QED BY <1>7, <1>8, <1>9 DEF x, name

LEMMA OelMapped ==
  ASSUME NEW e, WholeText("oel", e), NEW v
  PROVE  OelPut(e, v, Ast("MapLit", NoFields, <<EntryOf(e)>>),
                Node("map", List(<<Obj([key |-> Name("k"), value |-> v])>>)))
<1> DEFINE y == EntryOf(e)
           x == Ast("MapLit", NoFields, <<y>>)
           f == [key |-> Name("k"), value |-> v]
           o == Obj(f)
           k == <<o>>
           w == Node("map", List(k))
<1>u. HoldsUnknown(v) => HoldsUnknown(o)
  <2>1. f["value"] = v /\ "value" \in DOMAIN f
    OBVIOUS
  <2> HIDE DEF f
  <2> QED BY <2>1, UnknownObj
<1>y. y.t = "Entry" /\ y.a[1].t = "String" /\ (OelCarried(e, v) => OelCarried(y, o)) /\ \E n \in Nat : Legal("oel", y, n)
  BY OelKeyedEntry
<1> HIDE DEF y, o, f
<1>1. IsNode(x) /\ x.a = <<y>> /\ x.t = "MapLit" /\ x.at = NoFields /\ Len(x.a) = 1
  BY OneIn
<1>2. PICK n \in Nat : Legal("oel", y, n)
  BY <1>y
<1>3. AllLegal("oel", x, n)
  BY <1>2, OneLegal
<1>4. OelCarried(e, v) => OelUnder(x, k)
  BY <1>y, OneUnder
<1>k. k[1] = o /\ 1 \in DOMAIN k
  OBVIOUS
<1> HIDE DEF x, k
<1>c. DOMAIN x.a = {1} /\ x.a[1] = y
  BY <1>1
<1>5. OelNode(x)
  BY <1>1, <1>c, <1>y DEF OelNode
<1>6. OelTreeNode(x, k) = w
  <2>1. OelTreeNode(x, k) = DecodeMap(x, k)
    BY <1>1 DEF OelTreeNode
  <2>2. ~ \E i \in DOMAIN x.a : x.a[i].a[1].t # "String"
    BY <1>c, <1>y
  <2> QED BY <2>1, <2>2 DEF DecodeMap
<1>9. ASSUME HoldsUnknown(v) PROVE HoldsUnknown(w)
  <2>1. HoldsUnknown(List(k))
    BY <1>9, <1>k, <1>u, UnknownList
  <2> QED BY <2>1, UnknownNode
<1> HIDE DEF w
<1>10. OelPut(e, v, x, w)
  BY <1>1, <1>3, <1>4, <1>5, <1>6, <1>9, OelPutSame
<1> QED BY <1>10 DEF x, w, k, y, o, f

(* Wherever the user puts the data of an expression, it is that of what is *)
(* meant.                                                                  *)
LEMMA OelSpliced ==
  ASSUME NEW e, WholeText("oel", e), NEW v, NEW c \in OelContexts(v, e)
  PROVE  OelPut(e, v, c[2], c[1])
<1> DEFINE c1 == <<Node("not", v), Ast("Not", NoFields, <<e>>)>>
           c2 == <<Node("cond", List(<<IdentB, v, Nil>>)), Ast("Ternary", NoFields, <<OelB, e, Lit("Null", Nil)>>)>>
           c3 == <<Node("eq", List(<<v, IdentB>>)), Ast("Comparison", [x \in {"op"} |-> Name("==")], <<e, OelB>>)>>
           c4 == <<Node("call", Obj([function |-> Name("f"), args |-> List(<<v>>)])),
                   Ast("FuncCall", [x \in {"name"} |-> Name("f")], <<e>>)>>
           c5 == <<Node("call", Obj([class |-> Name("String"), method |-> Name("len"), args |-> List(<<v, IdentB>>)])),
                   Ast("ClassCall", [class |-> Name("String"), method |-> Name("len")], <<CommasOf(e)>>)>>
           c6 == <<Node("map", List(<<Obj([key |-> Name("k"), value |-> v])>>)), Ast("MapLit", NoFields, <<EntryOf(e)>>)>>
<1>1. c \in {c1, c2, c3, c4, c5, c6}
  <2>1. OelContexts(v, e) = {c1, c2, c3, c4, c5, c6}
    BY DEF OelContexts, CommasOf, EntryOf, OelB, IdentB
  <2> QED BY <2>1
<1>2. /\ OelPut(e, v, c1[2], c1[1]) /\ OelPut(e, v, c2[2], c2[1]) /\ OelPut(e, v, c3[2], c3[1])
  BY OelNegated, OelChosen, OelCompared
<1>3. /\ OelPut(e, v, c4[2], c4[1]) /\ OelPut(e, v, c5[2], c5[1]) /\ OelPut(e, v, c6[2], c6[1])
  BY OelCalled, OelClassCalled, OelMapped
<1> HIDE DEF c1, c2, c3, c4, c5, c6
<1> QED BY <1>1, <1>2, <1>3

-----------------------------------------------------------------------------
(* CEL: the data in more data. *)

(* What is put around an expression, x, and around its data, w. *)
CelPut(e, v, x, w) ==
  /\ WholeText("cel", x)
  /\ HoldsUnknown(v) => HoldsUnknown(w)
  /\ CelCarried(e, v) => CelCarried(x, w)

CelIs(e) == IsNode(e) /\ CelNode(e) /\ Finite(e) /\ e # Bad /\ e.t \notin {"Pair", "Field"}

LEMMA CelWholeIs ==
  ASSUME NEW e, WholeText("cel", e)
  PROVE  CelIs(e) /\ \E n \in Nat : Legal("cel", e, n)
<1>1. Finite(e) /\ IsNode(e) /\ IsLanguageNode("cel", e)
  BY WholeIs
<1>2. CelNode(e)
  BY <1>1 DEF IsLanguageNode
<1>3. e # Bad
  BY <1>2, CelNodeNotBad
<1> QED BY <1>1, <1>2, <1>3 DEF WholeText, CelIs

LEMMA CelCarriedMakes ==
  ASSUME NEW e, WholeText("cel", e), NEW v, CelCarried(e, v), NEW U, Closed(U)
  PROVE  Makes(U, v, e)
BY CelWholeIs DEF CelIs, CelCarried, CelGood

LEMMA CelPutIn ==
  ASSUME NEW e, WholeText("cel", e), NEW v, NEW x, WholeText("cel", x), NEW w, ~IsOptional(w),
         HoldsUnknown(v) => HoldsUnknown(w),
         CelCarried(e, v) => \A U : Closed(U) => Makes(U, w, x)
  PROVE  CelPut(e, v, x, w)
<1>1. x.t \notin {"Pair", "Field"}
  BY CelWholeIs DEF CelIs
<1>2. ASSUME CelCarried(e, v) PROVE CelCarried(x, w)
  <2>1. CelGood(x, w)
    BY <1>1, <1>2 DEF CelGood
  <2> QED BY <2>1 DEF CelCarried
<1> QED BY <1>2 DEF CelPut

(* A node of whole expressions is one. *)
LEMMA CelWholeHolds ==
  ASSUME NEW x, IsNode(x), CelNode(x), x.t \notin {"Pair", "Field"}, NEW n \in Nat, AllLegal("cel", x, n)
  PROVE  WholeText("cel", x)
<1>1. IsLanguageNode("cel", x)
  BY DEF IsLanguageNode
<1> QED BY <1>1, WholeHolds

CelB == Ident(Name("b"))

LEMMA NamesAreStr ==
  ASSUME NEW x
  PROVE  IsStr(Name(x))
<1>1. Name(x).k = "str" /\ Name(x).s = <<x>>
  BY NameIs
<1>2. IsSequence(<<x>>)
  BY DEF IsSequence
<1>3. Name(x) = Str(<<x>>)
  BY DEF Name
<1> QED BY <1>1, <1>2, <1>3 DEF IsStr

LEMMA CelIdentIs ==
  WholeText("cel", CelB) /\ CelCarried(CelB, IdentB)
<1> DEFINE at == [y \in {"name"} |-> Name("b")]
<1>1. CelB.t = "Ident" /\ CelB.at = at /\ CelB.a = <<>> /\ IsNode(CelB)
  BY DEF CelB, Ident, Ast, IsNode, IsSequence
<1>2. at = [y \in {"name"} |-> at[y]] /\ at["name"] = Name("b")
  OBVIOUS
<1> HIDE DEF at
<1>3. CelNode(CelB)
  <2>1. IsStr(Name("b"))
    BY NamesAreStr
  <2>2. HasAttributes(CelB, {"name"})
    BY <1>1, <1>2 DEF HasAttributes
  <2> QED BY <1>1, <1>2, <2>1, <2>2 DEF CelNode, ConstantKinds
<1>4. DOMAIN CelB.a = {}
  BY <1>1
<1>5. AllLegal("cel", CelB, 0)
  BY <1>4 DEF AllLegal
<1>6. WholeText("cel", CelB)
  BY <1>1, <1>3, <1>5, CelWholeHolds
<1>7. ASSUME NEW U, Closed(U) PROVE Makes(U, IdentB, CelB)
  <2> DEFINE k == <<>>
             nt == "standard"
  <2>1. nt # "canonical"
    OBVIOUS
  <2> HIDE DEF k, nt
  <2>2. CelTreeNode(nt, CelB, k) = IdentB
    BY <1>1, <1>2, <2>1 DEF CelTreeNode, ConstantKinds, IdentB
  <2>3. Makes(U, CelTreeNode(nt, CelB, k), CelB)
    BY <1>1, <1>3, <1>7, CelIdent
  <2> QED BY <2>2, <2>3
<1>8. ~IsOptional(IdentB)
  BY KeyNotOptional DEF IdentB
<1>9. CelCarried(CelB, IdentB)
  BY <1>1, <1>7, <1>8 DEF CelCarried, CelGood
<1> QED BY <1>6, <1>9

(* A field of the expression, and whether it has one. *)
FieldOf(e, test) == SelectOf(Name("f"), Bool(test), e)
SelectedOf(v) == Node("select", Obj([operand |-> v, field |-> Name("f")]))

LEMMA CelFieldWhole ==
  ASSUME NEW e, WholeText("cel", e), NEW test \in BOOLEAN
  PROVE  WholeText("cel", FieldOf(e, test))
<1> DEFINE at == [field |-> Name("f"), test_only |-> Bool(test)]
           x == FieldOf(e, test)
<1>1. IsNode(x) /\ x.a = <<e>> /\ x.t = "Select" /\ x.at = at /\ Len(x.a) = 1
  BY OneIn DEF FieldOf, SelectOf
<1>2. at = [y \in {"field", "test_only"} |-> at[y]] /\ at["field"] = Name("f") /\ at["test_only"] = Bool(test)
  OBVIOUS
<1>3. PICK n \in Nat : Legal("cel", e, n)
  BY CelWholeIs
<1>4. AllLegal("cel", x, n)
  BY <1>3, OneLegal DEF FieldOf, SelectOf
<1> HIDE DEF at, x
<1>5. CelNode(x)
  <2>1. IsStr(Name("f"))
    BY NamesAreStr
  <2>2. HasAttributes(x, {"field", "test_only"})
    BY <1>1, <1>2 DEF HasAttributes
  <2>3. IsBool(Bool(test))
    BY DEF IsBool
  <2>4. DOMAIN x.a = {1} /\ x.a[1] = e
    BY <1>1
  <2>5. CelValues(x.a)
    BY <2>4, CelWholeIs DEF CelIs, CelValues
  <2> QED BY <1>1, <1>2, <2>1, <2>2, <2>3, <2>5 DEF CelNode, ConstantKinds
<1>6. WholeText("cel", x)
  BY <1>1, <1>4, <1>5, CelWholeHolds
<1> QED BY <1>6 DEF x

LEMMA SelectedMakes ==
  ASSUME NEW e, e # Bad, NEW v, NEW U, Closed(U), Makes(U, v, e)
  PROVE  Makes(U, SelectedOf(v), FieldOf(e, FALSE))
<1> DEFINE f == [operand |-> v, field |-> Name("f")]
           w == Obj(f)
<1>1. DOMAIN f = {"operand", "field"} /\ f["operand"] = v /\ f["field"] = Name("f")
  OBVIOUS
<1>2. w.k = "obj" /\ w.f = f
  BY ObjIs
<1> HIDE DEF f
<1>3. ASSUME NEW b, NEW C, Knows(U, b, C), w \in C
      PROVE  CelBuildKeyed("select", w, b) = FieldOf(e, FALSE)
  <2>1. v \in C
    BY <1>1, <1>3, ObjWithin DEF Knows
  <2>2. b[v] = e
    BY <1>3, <2>1, KnownIs
  <2>3. Name("f").k = "str"
    BY NameIs
  <2>4. EncodeSelectExpr(w, b) = Of("Select", [field |-> Name("f"), test_only |-> Bool(FALSE)], <<e>>)
    <3>1. Bool(Has(f, "test_only") /\ f["test_only"] = Bool(TRUE)) = Bool(FALSE)
      <4>1. IsBool(Bool(FALSE))
        BY DEF IsBool
      <4> QED BY <1>1, <4>1, MarkRead
    <3>2. w.k = "obj" /\ {"operand", "field"} \subseteq DOMAIN w.f /\ w.f["field"].k = "str"
      BY <1>1, <1>2, <2>3
    <3>3. EncodeSelectExpr(w, b) =
            Of("Select", [field |-> w.f["field"], test_only |-> Bool(Has(w.f, "test_only") /\ w.f["test_only"] = Bool(TRUE))],
               <<b[w.f["operand"]]>>)
      BY <3>2 DEF EncodeSelectExpr
    <3> QED BY <1>1, <1>2, <2>2, <3>1, <3>3
  <2>5. EncodeSelectExpr(w, b) = FieldOf(e, FALSE)
    BY <2>4, OfOne DEF FieldOf, SelectOf
  <2> QED BY <2>5, KeyedIs
<1> HIDE DEF w
<1>4. Makes(U, Node("select", w), FieldOf(e, FALSE))
  BY <1>3, KeyMakes
<1> QED BY <1>4 DEF w, f, SelectedOf

LEMMA SelectedUnknown ==
  ASSUME NEW v, HoldsUnknown(v)
  PROVE  HoldsUnknown(SelectedOf(v))
<1> DEFINE f == [operand |-> v, field |-> Name("f")]
<1>1. "operand" \in DOMAIN f /\ f["operand"] = v
  OBVIOUS
<1> HIDE DEF f
<1>2. HoldsUnknown(Obj(f))
  BY <1>1, UnknownObj
<1> QED BY <1>2, UnknownNode DEF SelectedOf, f

LEMMA CelFielded ==
  ASSUME NEW e, WholeText("cel", e), NEW v
  PROVE  CelPut(e, v, FieldOf(e, FALSE), SelectedOf(v))
<1>1. WholeText("cel", FieldOf(e, FALSE))
  BY CelFieldWhole
<1>2. ~IsOptional(SelectedOf(v))
  BY KeyNotOptional DEF SelectedOf
<1>3. ASSUME CelCarried(e, v), NEW U, Closed(U)
      PROVE  Makes(U, SelectedOf(v), FieldOf(e, FALSE))
  <2>1. Makes(U, v, e) /\ e # Bad
    BY <1>3, CelCarriedMakes, CelWholeIs DEF CelIs
  <2> QED BY <1>3, <2>1, SelectedMakes
<1> QED BY <1>1, <1>2, <1>3, SelectedUnknown, CelPutIn

HasOf(v) == Node("call", Obj([function |-> Name("has"), args |-> List(<<SelectedOf(v)>>)]))

LEMMA HasMakes ==
  ASSUME NEW e, e # Bad, NEW v, NEW U, Closed(U), Makes(U, v, e)
  PROVE  Makes(U, HasOf(v), FieldOf(e, TRUE))
<1> DEFINE t == SelectedOf(v)
           whole == FieldOf(e, FALSE)
           f == [function |-> Name("has"), args |-> List(<<t>>)]
<1>1. Makes(U, t, whole)
  BY SelectedMakes
<1>2. whole.t = "Select" /\ whole # Bad /\ whole.at["field"] = Name("f") /\ whole.a = <<e>>
  BY DEF FieldOf, SelectOf, Ast, Bad
<1>3. Tested(whole) = FieldOf(e, TRUE)
  BY <1>2 DEF Tested, FieldOf, SelectOf
<1> HIDE DEF whole, t
<1>4. DOMAIN f = {"function", "args"} /\ f["function"] = Name("has") /\ f["args"] = List(<<t>>)
  OBVIOUS
<1> HIDE DEF f
<1>5. ASSUME NEW b, NEW C, Knows(U, b, C), Obj(f) \in C
      PROVE  CelBuildKeyed("call", Obj(f), b) = FieldOf(e, TRUE)
  <2>1. List(<<t>>) \in C /\ Closed(C)
    BY <1>4, <1>5, ObjWithin DEF Knows
  <2>2. t \in C
    <3> DEFINE s == <<t>>
    <3>1. 1 \in DOMAIN s /\ s[1] = t /\ List(s) \in C
      BY <2>1
    <3> HIDE DEF s
    <3> QED BY <2>1, <3>1, ListWithin
  <2>3. b[t] = whole
    BY <1>1, <1>5, <2>2, KnownIs
  <2>4. BuildList(<<t>>, b) = <<whole>>
    BY <2>3 DEF BuildList
  <2>5. Obj(f).k = "obj" /\ Obj(f).f = f
    BY ObjIs
  <2>6. List(<<t>>).k = "list" /\ List(<<t>>).e = <<t>> /\ Name("has").k = "str"
    BY DEF List, Name, Str
  <2>7. EncodeCall(Obj(f), b) = ParsedCall(Name("has"), <<whole>>)
    BY <1>4, <2>4, <2>5, <2>6 DEF EncodeCall, Only, Has
  <2>8. ParsedCall(Name("has"), <<whole>>) = Tested(whole)
    <3> DEFINE a == <<whole>>
               func == Name("has")
    <3>1. Len(a) = 1 /\ a[1] = whole /\ DOMAIN a = {1}
      OBVIOUS
    <3>2. \A i \in DOMAIN a : a[i] # Bad
      BY <1>2, <3>1
    <3>3. ~(IsToken(func, Variadic) /\ Len(a) = 2)
      BY <3>1
    <3> HIDE DEF a, func
    <3>4. func = Name("has")
      BY DEF func
    <3>5. ParsedCall(func, a) = Tested(a[1])
      BY <1>2, <3>1, <3>2, <3>3, <3>4 DEF ParsedCall
    <3> QED BY <3>1, <3>5 DEF a, func
  <2> QED BY <1>3, <2>7, <2>8, KeyedIs
<1>6. Makes(U, Node("call", Obj(f)), FieldOf(e, TRUE))
  BY <1>5, KeyMakes
<1> QED BY <1>6 DEF HasOf, f, t

LEMMA CelTestedFor ==
  ASSUME NEW e, WholeText("cel", e), NEW v
  PROVE  CelPut(e, v, FieldOf(e, TRUE), HasOf(v))
<1>1. WholeText("cel", FieldOf(e, TRUE))
  BY CelFieldWhole
<1>2. ~IsOptional(HasOf(v))
  BY KeyNotOptional DEF HasOf
<1>3. ASSUME CelCarried(e, v), NEW U, Closed(U) PROVE Makes(U, HasOf(v), FieldOf(e, TRUE))
  <2>1. Makes(U, v, e) /\ e # Bad
    BY <1>3, CelCarriedMakes, CelWholeIs DEF CelIs
  <2> QED BY <1>3, <2>1, HasMakes
<1>4. ASSUME HoldsUnknown(v) PROVE HoldsUnknown(HasOf(v))
  <2> DEFINE s == <<SelectedOf(v)>>
             f == [function |-> Name("has"), args |-> List(s)]
  <2>1. 1 \in DOMAIN s /\ s[1] = SelectedOf(v) /\ "args" \in DOMAIN f /\ f["args"] = List(s)
    OBVIOUS
  <2>2. HoldsUnknown(SelectedOf(v))
    BY <1>4, SelectedUnknown
  <2> HIDE DEF s
  <2>3. HoldsUnknown(List(s))
    BY <2>1, <2>2, UnknownList
  <2> HIDE DEF f
  <2>4. HoldsUnknown(Obj(f))
    BY <2>1, <2>3, UnknownObj
  <2> QED BY <2>4, UnknownNode DEF HasOf, f, s
<1> QED BY <1>1, <1>2, <1>3, <1>4, CelPutIn

(* A method of the expression. *)
LEMMA CelMethod ==
  ASSUME NEW e, WholeText("cel", e), NEW v
  PROVE  CelPut(e, v, Ast("Member", [y \in {"fn"} |-> Name("m")], <<e>>),
                Node("call", Obj([function |-> Name("m"), target |-> v])))
<1> DEFINE at == [y \in {"fn"} |-> Name("m")]
           x == Ast("Member", at, <<e>>)
           k == <<v>>
           f == [function |-> Name("m"), target |-> v]
           o == Obj(f)
           w == Node("call", o)
<1>1. IsNode(x) /\ x.a = <<e>> /\ x.t = "Member" /\ x.at = at /\ Len(x.a) = 1
  BY OneIn
<1>2. at = [y \in {"fn"} |-> at[y]] /\ at["fn"] = Name("m")
  OBVIOUS
<1>3. PICK n \in Nat : Legal("cel", e, n)
  BY CelWholeIs
<1>4. AllLegal("cel", x, n)
  BY <1>3, OneLegal
<1>k. k[1] = v /\ DOMAIN k = {1} /\ k = [i \in {1} |-> k[i]] /\ Tail(k) = <<>>
  OBVIOUS
<1>f. DOMAIN f = {"function", "target"} /\ f["function"] = Name("m") /\ f["target"] = v
  OBVIOUS
<1> HIDE DEF at, x, k, f
<1>d. DOMAIN x.a = {1} /\ x.a[1] = e
  BY <1>1
<1>5. CelNode(x)
  <2>1. IsStr(Name("m"))
    BY NamesAreStr
  <2>2. HasAttributes(x, {"fn"})
    BY <1>1, <1>2 DEF HasAttributes
  <2>3. CelValues(x.a)
    BY <1>d, CelWholeIs DEF CelIs, CelValues
  <2> QED BY <1>1, <1>2, <2>1, <2>2, <2>3 DEF CelNode, ConstantKinds
<1>6. WholeText("cel", x)
  BY <1>1, <1>4, <1>5, CelWholeHolds
<1>7. ~IsOptional(w)
  <2> HIDE DEF o
  <2> QED BY KeyNotOptional
<1>8. ASSUME HoldsUnknown(v) PROVE HoldsUnknown(w)
  <2>1. HoldsUnknown(o)
    BY <1>8, <1>f, UnknownObj
  <2> HIDE DEF o
  <2> QED BY <2>1, UnknownNode
<1>9. ASSUME CelCarried(e, v), NEW U, Closed(U) PROVE Makes(U, w, x)
  <2>1. CelKnown(x, k)
    <3>1. Operands(x)
      BY <1>d, CelWholeIs DEF CelIs, Operands
    <3>2. CelGood(e, v)
      BY <1>9 DEF CelCarried
    <3> QED BY <1>d, <1>k, <3>1, <3>2 DEF CelKnown
  <2>2. MemberWritten(f, x.at["fn"], k)
    BY <1>1, <1>2, <1>f, <1>k DEF MemberWritten, ArgsWritten
  <2>3. ASSUME NEW b, NEW C, Knows(U, b, C), o \in C PROVE CelBuildKeyed("call", o, b) = x
    <3>1. EncodeCall(o, b) = x
      BY <1>1, <1>5, <1>9, <2>1, <2>2, <2>3, MemberAgain
    <3> QED BY <3>1, KeyedIs
  <2> HIDE DEF o
  <2> QED BY <1>9, <2>3, KeyMakes
<1> HIDE DEF w
<1>10. CelPut(e, v, x, w)
  BY <1>6, <1>7, <1>8, <1>9, CelPutIn
<1> QED BY <1>10 DEF x, at, w, o, f

(* An optional element of a list. *)
LEMMA CelListed ==
  ASSUME NEW e, WholeText("cel", e), NEW v
  PROVE  CelPut(e, v, Ast("List", [y \in {"optional"} |-> List(<<Bool(TRUE)>>)], <<e>>), List(<<Node("optional", v)>>))
<1> DEFINE marks == <<Bool(TRUE)>>
           at == [y \in {"optional"} |-> List(marks)]
           x == Ast("List", at, <<e>>)
           k == <<v>>
           o == Node("optional", v)
           s == <<o>>
           w == List(s)
<1>1. IsNode(x) /\ x.a = <<e>> /\ x.t = "List" /\ x.at = at /\ Len(x.a) = 1
  BY OneIn
<1>m. Len(marks) = 1 /\ DOMAIN marks = {1} /\ marks[1] = Bool(TRUE) /\ IsSequence(marks)
  BY DEF IsSequence
<1> HIDE DEF marks
<1>2. at = [y \in {"optional"} |-> at[y]] /\ at["optional"] = List(marks) /\ at["optional"].e = marks
  BY ListIs
<1>3. PICK n \in Nat : Legal("cel", e, n)
  BY CelWholeIs
<1>4. AllLegal("cel", x, n)
  BY <1>3, OneLegal
<1>k. k[1] = v /\ DOMAIN k = {1} /\ k = [i \in {1} |-> k[i]]
  OBVIOUS
<1>o. IsOptional(o) /\ o.f["optional"] = v /\ HeldBy(o) = {v}
  BY OptionalIs, NodeHolds
<1> HIDE DEF o
<1>s. s[1] = o /\ DOMAIN s = {1}
  OBVIOUS
<1>w. w.k = "list" /\ w.e = s
  BY ListIs
<1> HIDE DEF at, x, k, s
<1>d. DOMAIN x.a = {1} /\ x.a[1] = e
  BY <1>1
<1>5. CelNode(x)
  <2>1. IsBool(Bool(TRUE))
    BY DEF IsBool
  <2>2. HasAttributes(x, {"optional"})
    BY <1>1, <1>2 DEF HasAttributes
  <2>3. CelValues(x.a)
    BY <1>d, CelWholeIs DEF CelIs, CelValues
  <2>4. 1 <= Int64Limit
    BY Int64Range
  <2>5. x.at["optional"] = List(x.at["optional"].e) /\ IsSequence(x.at["optional"].e) /\ Len(x.at["optional"].e) = Len(x.a)
    BY <1>1, <1>2, <1>m
  <2>6. \A i \in DOMAIN x.a : IsBool(x.at["optional"].e[i])
    BY <1>1, <1>2, <1>d, <1>m, <2>1
  <2> QED BY <1>1, <2>2, <2>3, <2>4, <2>5, <2>6 DEF CelNode, ConstantKinds
<1>6. WholeText("cel", x)
  BY <1>1, <1>4, <1>5, CelWholeHolds
<1>7. ~IsOptional(w)
  BY <1>w, ScalarNotOptional
<1>8. ASSUME HoldsUnknown(v) PROVE HoldsUnknown(w)
  <2>1. HoldsUnknown(o)
    BY <1>8, <1>o, UnknownHeld
  <2> QED BY <1>s, <2>1, UnknownList
<1>9. ASSUME CelCarried(e, v), NEW U, Closed(U) PROVE Makes(U, w, x)
  <2>1. Operands(x)
    BY <1>d, CelWholeIs DEF CelIs, Operands
  <2>2. Makes(U, v, e)
    BY <1>9, CelCarriedMakes
  <2>3. ASSUME NEW b, NEW C, Knows(U, b, C), HeldBy(w) \subseteq C
        PROVE  CelBuildNode(w, b) = x
    <3>1. o \in C
      BY <1>s, <2>3, ListIs
    <3>2. v \in C
      BY <1>o, <2>3, <3>1 DEF Knows, Closed
    <3>3. b[v] = e
      BY <2>2, <2>3, <3>2, KnownIs
    <3>4. MarksAre(x, s, {}, b)
      <4>1. x.at["optional"].e[1] = Bool(TRUE)
        BY <1>1, <1>2, <1>m
      <4>2. b[IF 1 \notin {} /\ IsOptional(s[1]) THEN s[1].f["optional"] ELSE s[1]] = e
        BY <1>o, <1>s, <3>3
      <4> QED BY <1>d, <1>o, <1>s, <4>1, <4>2 DEF MarksAre
    <3>5. EncodeList(s, {}, b) = x
      BY <1>1, <1>5, <2>1, <3>4, ListEncoded
    <3> QED BY <1>w, <3>5 DEF CelBuildNode, Sole
  <2> HIDE DEF w
  <2> QED BY <1>9, <2>3, MakesBy
<1> HIDE DEF w
<1>10. CelPut(e, v, x, w)
  BY <1>6, <1>7, <1>8, <1>9, CelPutIn
<1> QED BY <1>10 DEF x, at, w, s, o, marks

(* An operator around expressions. *)
FnOf(func) == [y \in {"fn"} |-> Name(func)]

LEMMA CelOperatorIs ==
  ASSUME NEW func \in {"!", "sub"}, NEW a, IsSequence(a), Len(a) = Arity(func),
         \A i \in DOMAIN a : WholeText("cel", a[i])
  PROVE  /\ IsNode(Ast("Call", FnOf(func), a)) /\ CelNode(Ast("Call", FnOf(func), a)) /\ Operands(Ast("Call", FnOf(func), a))
         /\ Ast("Call", FnOf(func), a).t = "Call" /\ Ast("Call", FnOf(func), a).a = a
         /\ Ast("Call", FnOf(func), a).at["fn"] = Name(func)
<1> DEFINE at == FnOf(func)
           x == Ast("Call", at, a)
<1>1. IsNode(x) /\ x.a = a /\ x.t = "Call" /\ x.at = at
  BY DEF Ast, IsNode
<1>2. at = [y \in {"fn"} |-> at[y]] /\ at["fn"] = Name(func)
  BY DEF FnOf
<1> HIDE DEF at, x
<1>3. CelValues(x.a)
  BY <1>1, CelWholeIs DEF CelIs, CelValues
<1>4. Operands(x)
  BY <1>1, CelWholeIs DEF CelIs, Operands
<1>5. ~IsToken(Name(func), Variadic)
  BY NameIs DEF Variadic
<1>6. IsStr(Name(func)) /\ Name(func).s[1] = func
  BY NamesAreStr, NameIs
<1>7. ~IsCall(x, "has") /\ ~IsCall(x, "neg")
  <2>1. Name(func).s[1] = func /\ Name("has").s[1] = "has" /\ Name("neg").s[1] = "neg"
    BY NameIs
  <2>2. Name(func) # Name("has") /\ Name(func) # Name("neg")
    BY <2>1
  <2> QED BY <1>1, <1>2, <2>2 DEF IsCall
<1>8. IsParsedCall(x)
  <2>1. HasAttributes(x, {"fn"})
    BY <1>1, <1>2 DEF HasAttributes
  <2>2. x.at["fn"] = Name(func)
    BY <1>1, <1>2
  <2> QED BY <1>1, <1>3, <1>5, <1>6, <1>7, <2>1, <2>2 DEF IsParsedCall
<1>9. CelNode(x)
  BY <1>1, <1>8 DEF CelNode, ConstantKinds
<1> QED BY <1>1, <1>2, <1>4, <1>9 DEF x, at

(* Its operands in a list under its key. *)
LEMMA CelOperatorMakes ==
  ASSUME NEW func \in {"!", "sub"}, NEW a, IsSequence(a), Len(a) = Arity(func),
         \A i \in DOMAIN a : WholeText("cel", a[i]), NEW s, DOMAIN s = DOMAIN a,
         NEW U, Closed(U), \A i \in DOMAIN a : Makes(U, s[i], a[i])
  PROVE  Makes(U, Node(Token(func), List(s)), Ast("Call", FnOf(func), a))
<1> DEFINE x == Ast("Call", FnOf(func), a)
           w == List(s)
           nt == "standard"
           key == Token(func)
<1>1. /\ IsNode(x) /\ CelNode(x) /\ Operands(x) /\ x.t = "Call" /\ x.a = a /\ x.at["fn"] = Name(func)
  BY CelOperatorIs
<1>2. OpKey(nt, func) = key
  BY DEF OpKey
<1>3. w.k = "list" /\ w.e = s
  BY ListIs
<1> HIDE DEF x, nt, key
<1>4. IsToken(Name(func), OperatorFunctions \ Variadic) /\ Name(func).s[1] = func
  <2>1. func \in OperatorFunctions \ Variadic
    BY OperatorsAre DEF Variadic
  <2> QED BY <2>1, NameIs
<1>5. DOMAIN a = 1 .. Len(a) /\ a = [i \in DOMAIN a |-> a[i]]
  BY DEF IsSequence
<1>6. ASSUME NEW b, NEW C, Knows(U, b, C), w \in C PROVE CelBuildKeyed(key, w, b) = x
  <2>1. \A i \in DOMAIN a : s[i] \in C /\ Makes(U, s[i], a[i])
    BY <1>6, ListWithin DEF Knows
  <2>2. BuildList(s, b) = a
    BY <1>5, <1>6, <2>1, ArgsBuilt
  <2> HIDE DEF w
  <2>3. BuildList(OperandsList(w), b) = x.a
    BY <1>1, <1>3, <2>2 DEF OperandsList
  <2>4. CelBuildKeyed(OpKey(nt, x.at["fn"].s[1]), w, b) = x
    <3>1. IsToken(x.at["fn"], OperatorFunctions \ Variadic)
      BY <1>1, <1>4
    <3> QED BY <1>1, <2>3, <3>1, OperatorAgain
  <2> QED BY <1>1, <1>2, <1>4, <2>4
<1> HIDE DEF w
<1>7. Makes(U, Node(key, w), x)
  BY <1>6, KeyMakes
<1> QED BY <1>7 DEF key, w, x

LEMMA CelNegated ==
  ASSUME NEW e, WholeText("cel", e), NEW v
  PROVE  CelPut(e, v, Ast("Call", FnOf("!"), <<e>>), Node("!", List(<<v>>)))
<1> DEFINE a == <<e>>
           s == <<v>>
           x == Ast("Call", FnOf("!"), a)
           w == Node("!", List(s))
<1>a. IsSequence(a) /\ Len(a) = Arity("!") /\ DOMAIN a = {1} /\ a[1] = e
  BY DEF IsSequence, Arity, Unary
<1>s. DOMAIN s = {1} /\ s[1] = v
  OBVIOUS
<1>1. PICK n \in Nat : Legal("cel", e, n)
  BY CelWholeIs
<1>2. AllLegal("cel", x, n)
  BY <1>1, OneLegal
<1> HIDE DEF a, s
<1>3. IsNode(x) /\ CelNode(x) /\ x.t = "Call"
  BY <1>a, CelOperatorIs
<1> HIDE DEF x
<1>4. WholeText("cel", x)
  BY <1>2, <1>3, CelWholeHolds
<1>5. ~IsOptional(w)
  BY KeyNotOptional
<1>6. ASSUME HoldsUnknown(v) PROVE HoldsUnknown(w)
  <2>1. HoldsUnknown(List(s))
    BY <1>6, <1>s, UnknownList
  <2> QED BY <2>1, UnknownNode
<1>7. ASSUME CelCarried(e, v), NEW U, Closed(U) PROVE Makes(U, w, x)
  <2>1. Makes(U, v, e)
    BY <1>7, CelCarriedMakes
  <2>2. Makes(U, Node(Token("!"), List(s)), x)
    BY <1>7, <1>a, <1>s, <2>1, CelOperatorMakes DEF x
  <2>3. Token("!") = "!"
    BY DEF Token
  <2> QED BY <2>2, <2>3
<1> HIDE DEF w
<1>8. CelPut(e, v, x, w)
  BY <1>4, <1>5, <1>6, <1>7, CelPutIn
<1> QED BY <1>8 DEF x, w, a, s

LEMMA CelSubtracted ==
  ASSUME NEW e, WholeText("cel", e), NEW v
  PROVE  CelPut(e, v, Ast("Call", FnOf("sub"), <<e, CelB>>), Node("-", List(<<v, IdentB>>)))
<1> DEFINE a == <<e, CelB>>
           s == <<v, IdentB>>
           x == Ast("Call", FnOf("sub"), a)
           w == Node("-", List(s))
<1>b. WholeText("cel", CelB) /\ CelCarried(CelB, IdentB)
  BY CelIdentIs
<1>a. IsSequence(a) /\ Len(a) = Arity("sub") /\ DOMAIN a = {1, 2} /\ a[1] = e /\ a[2] = CelB
  BY DEF IsSequence, Arity, Unary, Binary
<1>s. DOMAIN s = {1, 2} /\ s[1] = v /\ s[2] = IdentB
  OBVIOUS
<1>1. PICK n \in Nat : Legal("cel", e, n) /\ Legal("cel", CelB, n)
  BY <1>b, LegalTogether
<1>2. AllLegal("cel", x, n)
  BY <1>1, TwoLegal
<1> HIDE DEF a, s
<1>c. \A i \in DOMAIN a : WholeText("cel", a[i])
  BY <1>a, <1>b
<1>3. IsNode(x) /\ CelNode(x) /\ x.t = "Call"
  BY <1>a, <1>c, CelOperatorIs
<1> HIDE DEF x
<1>4. WholeText("cel", x)
  BY <1>2, <1>3, CelWholeHolds
<1>5. ~IsOptional(w)
  BY KeyNotOptional
<1>6. ASSUME HoldsUnknown(v) PROVE HoldsUnknown(w)
  <2>1. HoldsUnknown(List(s))
    BY <1>6, <1>s, UnknownList
  <2> QED BY <2>1, UnknownNode
<1>7. ASSUME CelCarried(e, v), NEW U, Closed(U) PROVE Makes(U, w, x)
  <2>1. Makes(U, v, e) /\ Makes(U, IdentB, CelB)
    BY <1>7, <1>b, CelCarriedMakes
  <2>2. \A i \in DOMAIN a : Makes(U, s[i], a[i])
    BY <1>a, <1>s, <2>1
  <2>3. Makes(U, Node(Token("sub"), List(s)), x)
    BY <1>7, <1>a, <1>c, <1>s, <2>2, CelOperatorMakes DEF x
  <2>4. Token("sub") = "-"
    BY DEF Token
  <2> QED BY <2>3, <2>4
<1> HIDE DEF w
<1>8. CelPut(e, v, x, w)
  BY <1>4, <1>5, <1>6, <1>7, CelPutIn
<1> QED BY <1>8 DEF x, w, a, s

(* A chain that goes on from an expression. *)
Conj == Name("&&")

LEMMA ConjIs ==
  IsStr(Conj) /\ IsToken(Conj, Variadic) /\ ~IsToken(Conj, OperatorFunctions \ Variadic)
  /\ Conj # Name("has") /\ Conj # Name("neg")
<1>1. Conj.k = "str" /\ Conj.s = <<"&&">> /\ Conj.s[1] = "&&" /\ IsStr(Conj)
  BY NamesAreStr, NameIs DEF Conj
<1>2. Conj # Name("has") /\ Conj # Name("neg")
  <2>1. Name("has").s[1] = "has" /\ Name("neg").s[1] = "neg"
    BY NameIs
  <2> QED BY <1>1, <2>1
<1>3. "&&" \in Variadic
  BY DEF Variadic
<1> QED BY <1>1, <1>2, <1>3 DEF IsToken

LEMMA ConjOf ==
  ASSUME NEW l, NEW r
  PROVE  /\ IsNode(CallOf(Conj, <<l, r>>)) /\ CallOf(Conj, <<l, r>>).t = "Call"
         /\ CallOf(Conj, <<l, r>>).a = <<l, r>> /\ CallOf(Conj, <<l, r>>).at["fn"] = Conj
         /\ HasAttributes(CallOf(Conj, <<l, r>>), {"fn"})
<1> DEFINE a == <<l, r>>
           at == [x \in {"fn"} |-> Conj]
<1>1. IsSequence(a)
  BY DEF IsSequence
<1>2. at = [x \in {"fn"} |-> at[x]] /\ at["fn"] = Conj
  OBVIOUS
<1> HIDE DEF a, at
<1>3. IsNode(Ast("Call", at, a)) /\ Ast("Call", at, a).t = "Call" /\ Ast("Call", at, a).a = a /\ Ast("Call", at, a).at = at
  BY <1>1 DEF Ast, IsNode
<1>4. HasAttributes(Ast("Call", at, a), {"fn"})
  BY <1>2, <1>3 DEF HasAttributes
<1> QED BY <1>2, <1>3, <1>4 DEF CallOf, a, at

LEMMA ConjWhole ==
  ASSUME NEW l, WholeText("cel", l), NEW r, WholeText("cel", r), ~IsChain(r, Conj)
  PROVE  WholeText("cel", CallOf(Conj, <<l, r>>))
<1> DEFINE x == CallOf(Conj, <<l, r>>)
           a == <<l, r>>
<1>1. /\ IsNode(x) /\ x.t = "Call" /\ x.a = a /\ x.at["fn"] = Conj /\ HasAttributes(x, {"fn"})
  BY ConjOf
<1>2. PICK n \in Nat : Legal("cel", l, n) /\ Legal("cel", r, n)
  BY LegalTogether
<1>a. DOMAIN a = {1, 2} /\ a[1] = l /\ a[2] = r /\ Len(a) = 2
  OBVIOUS
<1> HIDE DEF x, a
<1>3. AllLegal("cel", x, n)
  BY <1>1, <1>2, <1>a DEF AllLegal
<1>4. CelValues(x.a)
  BY <1>1, <1>a, CelWholeIs DEF CelIs, CelValues
<1>5. ~IsCall(x, "has") /\ ~IsCall(x, "neg")
  BY <1>1, ConjIs DEF IsCall
<1>6. IsParsedCall(x)
  <2>1. Len(x.a) = 2 /\ ~IsChain(x.a[2], x.at["fn"])
    BY <1>1, <1>a
  <2> QED BY <1>1, <1>4, <1>5, <2>1, ConjIs DEF IsParsedCall
<1>7. CelNode(x)
  BY <1>1, <1>6 DEF CelNode, ConstantKinds
<1>8. WholeText("cel", x)
  BY <1>1, <1>2, <1>3, <1>7, CelWholeHolds
<1> QED BY <1>8 DEF x

(* What a chain goes on with is nested from the left again. *)
LEMMA JoinedWhole ==
  ASSUME NEW l, WholeText("cel", l), NEW e, WholeText("cel", e)
  PROVE  WholeText("cel", Joined(Conj, l, e))
<1> DEFINE x == CallOf(Conj, <<l, e>>)
           s == Chains!Stage(x)
           JoinsAt(y, i) == \A j \in Nat : i <= j => WholeText("cel", s[j][y])
           Fails(i) == \E y \in Parts(e) : Legal("cel", y, i) /\ y.t \notin {"Pair", "Field"} /\ ~JoinsAt(y, i)
           bad == {i \in Nat : Fails(i)}
<1>1. x.at["fn"] = Conj /\ x.a[1] = l /\ x.a[2] = e
  BY ConjOf
<1>2. \A n \in Nat : s[n + 1] = JoinMore(x, s[n])
  BY NumbersHaveLeast, Chains!StageIs
<1>3. /\ Height(e) \in Nat /\ e \in Parts(e) /\ Closed(Parts(e)) /\ Legal("cel", e, Height(e)) /\ e.t \notin {"Pair", "Field"}
  BY WholeIs, PartsAre DEF WholeText
<1>j. Joined(Conj, l, e) = s[Height(e)][e]
  BY DEF Joined
<1> HIDE DEF x, s
<1>4. bad = {}
  <2> SUFFICES ASSUME bad # {} PROVE FALSE
    OBVIOUS
  <2>1. PICK i \in bad : \A j \in bad : i <= j
    <3> HIDE DEF bad
    <3>1. bad \subseteq Nat
      BY DEF bad
    <3> QED BY <3>1, FirstPosition
  <2>2. i \in Nat /\ Fails(i)
    OBVIOUS
  <2>3. PICK y \in Parts(e) : Legal("cel", y, i) /\ y.t \notin {"Pair", "Field"} /\ ~JoinsAt(y, i)
    BY <2>2
  <2>4. PICK j \in Nat : i <= j /\ ~WholeText("cel", s[j][y])
    BY <2>3
  <2>5. /\ IsNode(y) /\ CelNode(y) /\ i - 1 \in Nat
        /\ \A h \in DOMAIN y.a : Legal("cel", y.a[h], i - 1)
    BY <2>2, <2>3, CelLegal
  <2>6. j - 1 \in Nat /\ i - 1 <= j - 1 /\ (j - 1) + 1 = j
    BY <2>2, <2>4, <2>5
  <2>7. ~Fails(i - 1)
    <3>1. ~(i <= i - 1)
      BY <2>2
    <3> HIDE DEF Fails
    <3> QED BY <2>1, <2>5, <3>1
  <2> DEFINE before == s[j - 1]
  <2>8. s[j] = JoinMore(x, before)
    BY <1>2, <2>6
  <2> HIDE DEF before
  <2>9. s[j][y] = IF IsChain(y, Conj) THEN CallOf(Conj, <<before[y.a[1]], y.a[2]>>) ELSE CallOf(Conj, <<l, y>>)
    BY <1>1, <2>3, <2>8 DEF JoinMore
  <2>10. CASE ~IsChain(y, Conj)
    <3>1. WholeText("cel", y)
      BY <2>2, <2>3 DEF WholeText
    <3>2. WholeText("cel", CallOf(Conj, <<l, y>>))
      BY <2>10, <3>1, ConjWhole
    <3> QED BY <2>4, <2>9, <2>10, <3>2
  <2>11. CASE IsChain(y, Conj)
    <3>1. IsParsedCall(y) /\ y.at["fn"] = Conj
      BY <2>5, <2>11 DEF CelNode, IsChain, ConstantKinds
    <3>2. Len(y.a) = 2 /\ ~IsChain(y.a[2], Conj) /\ CelValues(y.a)
      BY <3>1, ConjIs DEF IsParsedCall
    <3>3. DOMAIN y.a = 1 .. 2 /\ HeldBy(y) = {y.a[h] : h \in DOMAIN y.a}
      BY <2>5, <3>2, OperandsAre
    <3>4. y.a[1] \in Parts(e)
      BY <1>3, <2>3, <3>3 DEF Closed
    <3>5. y.a[1].t \notin {"Pair", "Field"} /\ y.a[2].t \notin {"Pair", "Field"}
      BY <3>2, <3>3 DEF CelValues
    <3>6. Legal("cel", y.a[1], i - 1) /\ Legal("cel", y.a[2], i - 1)
      BY <2>5, <3>3
    <3>7. JoinsAt(y.a[1], i - 1)
      BY <2>7, <3>4, <3>5, <3>6
    <3>8. WholeText("cel", before[y.a[1]])
      BY <2>6, <3>7 DEF before
    <3>9. WholeText("cel", y.a[2])
      BY <2>5, <3>5, <3>6 DEF WholeText
    <3>10. WholeText("cel", CallOf(Conj, <<before[y.a[1]], y.a[2]>>))
      BY <3>2, <3>8, <3>9, ConjWhole
    <3> QED BY <2>4, <2>9, <2>11, <3>10
  <2> QED BY <2>10, <2>11
<1>5. ~Fails(Height(e))
  <2> HIDE DEF Fails
  <2> QED BY <1>3, <1>4
<1>6. JoinsAt(e, Height(e))
  BY <1>3, <1>5
<1> QED BY <1>3, <1>6, <1>j

LEMMA CelJoined ==
  ASSUME NEW e, WholeText("cel", e), NEW v
  PROVE  CelPut(e, v, ParsedCall(Conj, <<CelB, e>>), Node("and", List(<<IdentB, v>>)))
<1> DEFINE a == <<CelB, e>>
           s == <<IdentB, v>>
           x == ParsedCall(Conj, a)
           w == Node("and", List(s))
           g == <<CelB, x>>
<1>b. WholeText("cel", CelB) /\ CelCarried(CelB, IdentB) /\ CelIs(CelB) /\ CelIs(e)
  BY CelIdentIs, CelWholeIs
<1>a. Len(a) = 2 /\ DOMAIN a = {1, 2} /\ a = [i \in 1 .. 2 |-> a[i]] /\ a[1] = CelB /\ a[2] = e
  OBVIOUS
<1>s. DOMAIN s = {1, 2} /\ s = [i \in 1 .. 2 |-> s[i]] /\ s[1] = IdentB /\ s[2] = v
  OBVIOUS
<1>t. a = <<a[1], a[2]>>
  OBVIOUS
<1> HIDE DEF a, s
<1>x. x = Joined(Conj, CelB, e)
  <2>1. \A i \in DOMAIN a : a[i] # Bad
    BY <1>a, <1>b DEF CelIs
  <2> QED BY <1>a, <2>1, ConjIs DEF ParsedCall
<1>g. g[1] = CelB /\ g[2] = x
  OBVIOUS
<1> HIDE DEF x, g
<1>4. WholeText("cel", x)
  BY <1>b, <1>x, JoinedWhole
<1>5. ~IsOptional(w)
  BY KeyNotOptional
<1>6. ASSUME HoldsUnknown(v) PROVE HoldsUnknown(w)
  <2>1. HoldsUnknown(List(s))
    BY <1>6, <1>s, UnknownList
  <2> QED BY <2>1, UnknownNode
<1>7. ASSUME CelCarried(e, v), NEW U, Closed(U) PROVE Makes(U, w, x)
  <2>1. Linked("&&", a, g, 2)
    <3>1. g[1 + 1] = ParsedCall(Name("&&"), <<g[1], a[1 + 1]>>)
      BY <1>a, <1>g, <1>t DEF x, Conj
    <3>2. \A i \in 1 .. 2 - 1 : i = 1
      OBVIOUS
    <3>3. g[1] = a[1]
      BY <1>a, <1>g
    <3> QED BY <1>a, <3>1, <3>2, <3>3 DEF Linked
  <2>2. OpKey("aliased", "&&") = "and"
    BY AliasIs DEF OpKey
  <2>3. ASSUME NEW i \in 1 .. 2
        PROVE  a[i] # Bad /\ a[i].t \notin {"Pair", "Field"} /\ CelGood(a[i], s[i])
    <3>1. CASE i = 1
      BY <1>a, <1>b, <1>s, <3>1 DEF CelIs, CelCarried
    <3>2. CASE i = 2
      BY <1>7, <1>a, <1>b, <1>s, <3>2 DEF CelIs, CelCarried
    <3> QED BY <3>1, <3>2
  <2>4. Chained("aliased", "&&", x, w, 2, s, a, g)
    BY <1>g, <1>s, <2>1, <2>2, <2>3 DEF Chained
  <2>5. ChainFits("aliased", "&&", x, w)
    BY <2>4 DEF ChainFits
  <2> HIDE DEF w
  <2> QED BY <1>7, <2>5, ChainMakes DEF Variadic
<1> HIDE DEF w
<1>8. CelPut(e, v, x, w)
  BY <1>4, <1>5, <1>6, <1>7, CelPutIn
<1> QED BY <1>8 DEF x, w, a, s

LEMMA CelSpliced ==
  ASSUME NEW e, WholeText("cel", e), NEW v, NEW c \in CelContexts(v, e)
  PROVE  CelPut(e, v, c[2], c[1])
<1> DEFINE c1 == <<Node("and", List(<<IdentB, v>>)), ParsedCall(Conj, <<CelB, e>>)>>
           c2 == <<Node("!", List(<<v>>)), Ast("Call", FnOf("!"), <<e>>)>>
           c3 == <<Node("-", List(<<v, IdentB>>)), Ast("Call", FnOf("sub"), <<e, CelB>>)>>
           c4 == <<List(<<Node("optional", v)>>), Ast("List", [x \in {"optional"} |-> List(<<Bool(TRUE)>>)], <<e>>)>>
           c5 == <<Node("call", Obj([function |-> Name("m"), target |-> v])), Ast("Member", FnOf("m"), <<e>>)>>
           c6 == <<HasOf(v), FieldOf(e, TRUE)>>
           c7 == <<SelectedOf(v), FieldOf(e, FALSE)>>
<1>1. c \in {c1, c2, c3, c4, c5, c6, c7}
  <2>1. CelContexts(v, e) = {c1, c2, c3, c4, c5, c6, c7}
    BY DEF CelContexts, IdentB, CelB, Conj, FnOf, HasOf, SelectedOf, FieldOf, SelectOf
  <2> QED BY <2>1
<1>2. /\ CelPut(e, v, c1[2], c1[1]) /\ CelPut(e, v, c2[2], c2[1]) /\ CelPut(e, v, c3[2], c3[1])
  BY CelJoined, CelNegated, CelSubtracted
<1>3. /\ CelPut(e, v, c4[2], c4[1]) /\ CelPut(e, v, c5[2], c5[1])
  BY CelListed, CelMethod DEF FnOf
<1>4. CelPut(e, v, c6[2], c6[1]) /\ CelPut(e, v, c7[2], c7[1])
  BY CelTestedFor, CelFielded
<1> HIDE DEF c1, c2, c3, c4, c5, c6, c7
<1> QED BY <1>1, <1>2, <1>3, <1>4

(* What a decode gives of what the user means, and when it gives nothing. *)

LEMMA PromRead ==
  ASSUME NEW e, WholeText("promql", e)
  PROVE  /\ PromCarried(e, PromTree(e)) /\ PromToAttr(PromTree(e)) \in {"done", "panic"}
         /\ PromToAttr(PromTree(e)) = "panic" => SomeNumber(e, {"nan"})
<1> DEFINE n == Height(e)
           v == PromTree(e)
<1>1. n \in Nat /\ e \in Parts(e) /\ Closed(Parts(e)) /\ Legal("promql", e, n)
  BY WholeIs, PartsAre
<1>2. v = PromTrees!Stage(Parts(e))[n][e]
  BY DEF PromTree
<1> HIDE DEF n, v
<1>3. PromDecoded(e, v, n)
  BY <1>1, <1>2, PromDecodes
<1>4. PromCarried(e, v)
  BY <1>3 DEF PromDecoded, PromCarried
<1>5. ASSUME PromToAttr(v) = "panic" PROVE SomeNumber(e, {"nan"})
  <2>1. HasNumber(v, {"nan"})
    BY <1>5 DEF PromToAttr
  <2>2. 5 * n \in Nat /\ "fin" \notin {"nan"}
    BY <1>1
  <2>3. ASSUME ~SomeNumber(e, {"nan"}) PROVE FALSE
    <3>1. Mild(v, 5 * n, {"nan"})
      BY <1>3, <2>2, <2>3 DEF PromDecoded
    <3> QED BY <2>1, <2>2, <3>1, MildHasNone
  <2> QED BY <2>3
<1>6. PromToAttr(v) \in {"done", "panic"}
  BY DEF PromToAttr
<1> QED BY <1>4, <1>5, <1>6 DEF v

LEMMA OelRead ==
  ASSUME NEW e, WholeText("oel", e)
  PROVE  /\ OelCarried(e, OelTree(e)) /\ OelToAttr(OelTree(e)) \in {"done", "refused"}
         /\ OelToAttr(OelTree(e)) = "refused" => SomeNumber(e, {"nan", "inf"})
<1> DEFINE n == Height(e)
           v == OelTree(e)
<1>1. n \in Nat /\ e \in Parts(e) /\ Closed(Parts(e)) /\ Legal("oel", e, n)
  BY WholeIs, PartsAre
<1>2. v = OelTrees!Stage(Parts(e))[n][e]
  BY DEF OelTree
<1> HIDE DEF n, v
<1>3. OelDecoded(e, v, n)
  BY <1>1, <1>2, OelDecodes
<1>4. OelCarried(e, v)
  BY <1>3 DEF OelDecoded, OelCarried
<1>5. ASSUME OelToAttr(v) = "refused" PROVE SomeNumber(e, {"nan", "inf"})
  <2>1. HasNumber(v, {"nan", "inf"})
    BY <1>5 DEF OelToAttr
  <2>2. 5 * n \in Nat
    BY <1>1
  <2>3. ASSUME ~SomeNumber(e, {"nan", "inf"}) PROVE FALSE
    <3>1. Mild(v, 5 * n, {"nan", "inf"})
      BY <1>3, <2>3 DEF OelDecoded
    <3> QED BY <2>1, <2>2, <3>1, MildHasNone
  <2> QED BY <2>3
<1>6. OelToAttr(v) \in {"done", "refused"}
  BY DEF OelToAttr
<1> QED BY <1>4, <1>5, <1>6 DEF v

LEMMA CelRead ==
  ASSUME NEW nt, NEW e, WholeText("cel", e)
  PROVE  /\ CelCarried(e, CelTree(nt, e)) /\ CelToAttr(CelTree(nt, e)) \in {"done", "refused"}
         /\ CelToAttr(CelTree(nt, e)) = "refused" => SomeNumber(e, {"nan", "inf"})
<1> DEFINE n == Height(e)
           v == CelTree(nt, e)
           X == [nt |-> nt, e |-> e]
<1>1. /\ n \in Nat /\ e \in Parts(e) /\ Closed(Parts(e)) /\ Legal("cel", e, n) /\ e.t \notin {"Pair", "Field"}
  BY WholeIs, PartsAre DEF WholeText
<1>2. v = CelTrees!Stage(X)[n][e] /\ X.nt = nt /\ X.e = e
  BY DEF CelTree
<1> HIDE DEF n, v, X
<1>3. CelDecoded(nt, e, v, n)
  <2>1. Closed(Parts(X.e)) /\ e \in Parts(X.e)
    BY <1>1, <1>2
  <2>2. n \in Nat /\ n <= n /\ Legal("cel", e, n) /\ X.nt = nt
    BY <1>1, <1>2
  <2>3. CelDecoded(nt, e, CelTrees!Stage(X)[n][e], n)
    BY <2>1, <2>2, CelDecodes
  <2> QED BY <1>2, <2>3
<1>4. CelCarried(e, v)
  BY <1>1, <1>3 DEF CelDecoded, CelCarried, CelShape
<1>5. ASSUME CelToAttr(v) = "refused" PROVE SomeNumber(e, {"nan", "inf"})
  <2>1. HasNumber(v, {"nan", "inf"})
    BY <1>5 DEF CelToAttr
  <2>2. 5 * n \in Nat /\ "fin" \notin {"nan", "inf"}
    BY <1>1
  <2>3. ASSUME ~SomeNumber(e, {"nan", "inf"}) PROVE FALSE
    <3>1. Mild(v, 5 * n, {"nan", "inf"})
      BY <1>3, <2>2, <2>3 DEF CelDecoded
    <3> QED BY <2>1, <2>2, <3>1, MildHasNone
  <2> QED BY <2>3
<1>6. CelToAttr(v) \in {"done", "refused"}
  BY DEF CelToAttr
<1> QED BY <1>4, <1>5, <1>6 DEF v

(* What an encode gives of it again. *)

LEMMA ToNodeIs ==
  ASSUME NEW v
  PROVE  /\ ToNode(v) \in {"unknown", "refused", "done"} /\ (ToNode(v) = "unknown" <=> TreeUnknown(v))
         /\ ToNode(v) = "refused" => PastLimits(v)
         /\ ToNode(v) = "done" => ~HoldsUnknown(v) /\ Finite(v)
<1>1. ASSUME ~TreeUnknown(v), ~PastLimits(v) PROVE ~HoldsUnknown(v) /\ Finite(v)
  BY <1>1, WithinLimits, UnknownSeen
<1> QED BY <1>1 DEF ToNode

LEMMA PromEncoded ==
  ASSUME NEW e, NEW v, PromCarried(e, v), Finite(v)
  PROVE  Gets(PromBuild(v), e, SomeOneWay("promql", e))
<1> DEFINE U == Parts(v)
           m == Height(v)
<1>1. Closed(U) /\ v \in U /\ m \in Nat /\ Short(v, m)
  BY PartsAre
<1>2. PromBuild(v) = PromBuilds!Stage(U)[m][v]
  BY DEF PromBuild
<1> HIDE DEF U, m
<1> QED BY <1>1, <1>2 DEF PromCarried, PromGood

LEMMA OelEncoded ==
  ASSUME NEW e, WholeText("oel", e), NEW v, OelCarried(e, v), Finite(v)
  PROVE  Gets(OelBuild(v), e, SomeOneWay("oel", e))
<1> DEFINE U == Parts(v)
           m == Height(v)
<1>1. Closed(U) /\ v \in U /\ m \in Nat /\ Short(v, m)
  BY PartsAre
<1>2. OelBuild(v) = OelBuilds!Stage(U)[m][v]
  BY DEF OelBuild
<1>3. e.t \notin {"Entry", "CommaList"}
  BY DEF WholeText
<1>4. OelReads(e) /\ \A b : OelResult(e, v, b) = b[v]
  BY <1>3 DEF OelReads, OelResult
<1> HIDE DEF U, m
<1>5. Gets(OelResult(e, v, OelBuilds!Stage(U)[m]), e, SomeOneWay("oel", e))
  BY <1>1, <1>4 DEF OelCarried, OelGood
<1> QED BY <1>2, <1>4, <1>5

LEMMA CelEncoded ==
  ASSUME NEW e, WholeText("cel", e), NEW v, CelCarried(e, v), Finite(v)
  PROVE  CelBuild(v) = e
<1> DEFINE U == Parts(v)
           m == Height(v)
<1>1. Closed(U) /\ v \in U /\ m \in Nat /\ Short(v, m)
  BY PartsAre
<1>2. CelBuild(v) = CelBuilds!Stage(U)[m][v]
  BY DEF CelBuild
<1> HIDE DEF U, m
<1>3. Makes(U, v, e)
  BY <1>1, CelCarriedMakes
<1> QED BY <1>1, <1>2, <1>3 DEF Makes

LEMMA WholeNotBad ==
  ASSUME NEW l \in {"promql", "oel", "cel"}, NEW e, WholeText(l, e)
  PROVE  e # Bad
<1>1. IsLanguageNode(l, e)
  BY WholeIs
<1>2. CASE l = "promql"
  BY <1>1, <1>2, PromNodeNotBad DEF IsLanguageNode
<1>3. CASE l = "oel"
  BY <1>1, <1>3, OelNodeNotBad DEF IsLanguageNode
<1>4. CASE l = "cel"
  BY <1>1, <1>4, CelNodeNotBad DEF IsLanguageNode
<1> QED BY <1>2, <1>3, <1>4

-----------------------------------------------------------------------------
(* A chain of decodes, splices and encodes. *)

LEMMA Started ==
  LanguagesInit => LanguagesInv
<1> SUFFICES ASSUME LanguagesInit PROVE LanguagesInv
  OBVIOUS
<1>1. lang \in {"promql", "oel", "cel"} /\ IsParsed(lang, source)
  BY TextsParsed DEF LanguagesInit
<1>2. meant = source /\ data = Nil /\ phase = "text"
  BY DEF LanguagesInit
<1>3. WholeText(lang, meant)
  BY <1>1, <1>2, WholeParsed
<1>4. StoppedForAReason
  BY <1>2, NilIsKnown DEF StoppedForAReason
<1> QED BY <1>1, <1>2, <1>3, <1>4 DEF LanguagesInv

(* A decode, whose tree v carries what is meant. *)
LEMMA DecodeKeeps ==
  ASSUME LanguagesInv, phase = "text", NEW v, NEW outcome, Decode(v, outcome), CarriedBy(lang, meant, v),
         outcome \in {"done", "panic", "refused"},
         outcome = "panic" => lang = "promql" /\ SomeNumber(meant, {"nan"}),
         outcome = "refused" => lang # "promql" /\ SomeNumber(meant, {"nan", "inf"})
  PROVE  LanguagesInv'
<1>1. /\ lang' = lang /\ meant' = meant /\ source' = source /\ data = Nil
      /\ lang \in {"promql", "oel", "cel"} /\ WholeText(lang, meant)
  BY DEF LanguagesInv, Decode
<1>2. CASE outcome = "done"
  <2>1. phase' = "data" /\ data' = v
    BY <1>2 DEF Decode
  <2>2. CarriedBy(lang', meant', data')
    BY <1>1, <2>1
  <2>3. StoppedForAReason'
    BY <2>1 DEF StoppedForAReason
  <2>4. lang' \in {"promql", "oel", "cel"} /\ WholeText(lang', meant')
    BY <1>1
  <2> QED BY <2>1, <2>2, <2>3, <2>4 DEF LanguagesInv
<1>3. CASE outcome # "done"
  <2>1. phase' = outcome /\ data' = data
    BY <1>3 DEF Decode
  <2>2. ~TreeUnknown(data')
    BY <1>1, <2>1, NilIsKnown
  <2>3. StoppedForAReason'
    BY <1>1, <1>3, <2>1, <2>2 DEF StoppedForAReason
  <2>4. lang' \in {"promql", "oel", "cel"} /\ WholeText(lang', meant') /\ phase' \notin {"text", "data"}
    BY <1>1, <1>3, <2>1
  <2> QED BY <2>3, <2>4 DEF LanguagesInv
<1> QED BY <1>2, <1>3

(* An encode, which builds what is meant, or does not for a reason. *)
LEMMA EncodeKeeps ==
  ASSUME LanguagesInv, phase = "data", NEW built, Encode(ToNode(data), built),
         CarriedBy(lang, meant, data) /\ Finite(data) => Gets(built, meant, SomeOneWay(lang, meant))
  PROVE  LanguagesInv'
<1> DEFINE e == IF ToNode(data) = "done" THEN built ELSE Bad
<1>1. /\ lang' = lang /\ meant' = meant
      /\ lang \in {"promql", "oel", "cel"} /\ WholeText(lang, meant)
      /\ HoldsUnknown(data) \/ CarriedBy(lang, meant, data)
  BY DEF LanguagesInv, Encode
<1>2. lang' \in {"promql", "oel", "cel"} /\ WholeText(lang', meant')
  BY <1>1
<1>3. IF e # Bad THEN phase' = "text" /\ source' = e /\ data' = Nil
      ELSE /\ phase' = IF ToNode(data) = "unknown" THEN "unknown" ELSE "refused"
           /\ source' = source /\ data' = data
  BY DEF Encode
<1>4. ToNode(data) \in {"unknown", "refused", "done"}
  BY ToNodeIs
<1>5. CASE ToNode(data) = "done"
  <2>1. ~HoldsUnknown(data) /\ Finite(data) /\ ~TreeUnknown(data)
    <3>1. ToNode(data) # "unknown"
      BY <1>5
    <3> QED BY <1>5, <3>1, ToNodeIs
  <2>2. Gets(built, meant, SomeOneWay(lang, meant))
    BY <1>1, <2>1
  <2>3. e = built
    BY <1>5
  <2> HIDE DEF e
  <2>4. CASE built # Bad
    <3>1. phase' = "text" /\ source' = meant' /\ data' = Nil
      BY <1>1, <1>3, <2>2, <2>3, <2>4 DEF Gets
    <3>2. StoppedForAReason'
      BY <3>1, NilIsKnown DEF StoppedForAReason
    <3> QED BY <1>2, <3>1, <3>2 DEF LanguagesInv
  <2>5. CASE built = Bad
    <3>1. SomeOneWay(lang, meant)
      BY <1>1, <2>2, <2>5, WholeNotBad DEF Gets
    <3>2. phase' = "refused" /\ data' = data
      BY <1>3, <1>5, <2>3, <2>5
    <3>3. ~TreeUnknown(data') /\ SomeOneWay(lang', meant')
      BY <1>1, <2>1, <3>1, <3>2
    <3>4. StoppedForAReason'
      BY <3>2, <3>3 DEF StoppedForAReason
    <3> QED BY <1>2, <3>2, <3>4 DEF LanguagesInv
  <2> QED BY <2>4, <2>5
<1>6. CASE ToNode(data) # "done"
  <2>1. /\ phase' = IF ToNode(data) = "unknown" THEN "unknown" ELSE "refused"
        /\ data' = data
    BY <1>3, <1>6
  <2>2. CASE ToNode(data) = "unknown"
    <3>1. phase' = "unknown" /\ TreeUnknown(data')
      BY <2>1, <2>2, ToNodeIs
    <3>2. StoppedForAReason'
      BY <3>1 DEF StoppedForAReason
    <3> QED BY <1>2, <3>1, <3>2 DEF LanguagesInv
  <2>3. CASE ToNode(data) = "refused"
    <3>1. phase' = "refused" /\ data' = data
      BY <2>1, <2>3
    <3>2. PastLimits(data) /\ ~TreeUnknown(data)
      <4>1. ToNode(data) # "unknown"
        BY <2>3
      <4> QED BY <2>3, <4>1, ToNodeIs
    <3>3. PastLimits(data') /\ ~TreeUnknown(data')
      BY <3>1, <3>2
    <3>4. StoppedForAReason'
      BY <3>1, <3>3 DEF StoppedForAReason
    <3> QED BY <1>2, <3>1, <3>4 DEF LanguagesInv
  <2> QED BY <1>4, <1>6, <2>2, <2>3
<1> QED BY <1>5, <1>6

(* What is put around the data is put around what is meant. *)
LEMMA SplicedKeeps ==
  ASSUME NEW l \in {"promql", "oel", "cel"}, NEW e, WholeText(l, e), NEW v, NEW c \in Contexts(l, v, e),
         HoldsUnknown(v) \/ CarriedBy(l, e, v)
  PROVE  WholeText(l, c[2]) /\ (HoldsUnknown(c[1]) \/ CarriedBy(l, c[2], c[1]))
<1>1. CASE l = "promql"
  <2>1. Contexts(l, v, e) = PromContexts(v, e)
    BY <1>1 DEF Contexts
  <2>2. PromPut(e, v, c[2], c[1])
    BY <1>1, <2>1, PromSpliced
  <2> QED BY <1>1, <2>2 DEF PromPut, CarriedBy
<1>2. CASE l = "oel"
  <2>1. Contexts(l, v, e) = OelContexts(v, e)
    BY <1>2 DEF Contexts
  <2>2. OelPut(e, v, c[2], c[1])
    BY <1>2, <2>1, OelSpliced
  <2> QED BY <1>2, <2>2 DEF OelPut, CarriedBy
<1>3. CASE l = "cel"
  <2>1. Contexts(l, v, e) = CelContexts(v, e)
    BY <1>3 DEF Contexts
  <2>2. CelPut(e, v, c[2], c[1])
    BY <1>3, <2>1, CelSpliced
  <2> QED BY <1>3, <2>2 DEF CelPut, CarriedBy
<1> QED BY <1>1, <1>2, <1>3

(* Beside a value that is not known the data holds one. *)
LEMMA BesideUnknown ==
  ASSUME NEW f, "args" \in DOMAIN f, NEW v, f["args"] = List(<<v, UnknownTree>>)
  PROVE  HoldsUnknown(Node("call", Obj(f)))
<1> DEFINE s == <<v, UnknownTree>>
<1>1. 2 \in DOMAIN s /\ s[2] = UnknownTree
  OBVIOUS
<1> HIDE DEF s
<1>2. HoldsUnknown(List(s))
  BY <1>1, UnknownIsHeld, UnknownList
<1>3. HoldsUnknown(f["args"])
  BY <1>2 DEF s
<1>4. HoldsUnknown(Obj(f))
  BY <1>3, UnknownObj
<1> QED BY <1>4, UnknownNode

LEMMA StepKeeps ==
  LanguagesInv /\ [LanguagesNext]_languagesVars => LanguagesInv'
<1> SUFFICES ASSUME LanguagesInv, [LanguagesNext]_languagesVars PROVE LanguagesInv'
  OBVIOUS
<1>0. lang \in {"promql", "oel", "cel"} /\ WholeText(lang, meant) /\ (phase = "text" => source = meant /\ data = Nil)
      /\ (phase = "data" => HoldsUnknown(data) \/ CarriedBy(lang, meant, data))
  BY DEF LanguagesInv
<1>1. CASE PromQLDecodeRun
  <2> DEFINE v == PromTree(source)
  <2>1. lang = "promql" /\ phase = "text" /\ Decode(v, PromToAttr(v)) /\ source = meant
    BY <1>0, <1>1 DEF PromQLDecodeRun
  <2>2. /\ PromCarried(meant, v) /\ PromToAttr(v) \in {"done", "panic"}
        /\ PromToAttr(v) = "panic" => SomeNumber(meant, {"nan"})
    BY <1>0, <2>1, PromRead
  <2> HIDE DEF v
  <2>3. CarriedBy(lang, meant, v)
    BY <2>1, <2>2 DEF CarriedBy
  <2> QED BY <2>1, <2>2, <2>3, DecodeKeeps
<1>2. CASE OELDecodeRun
  <2> DEFINE v == OelTree(source)
  <2>1. lang = "oel" /\ phase = "text" /\ Decode(v, OelToAttr(v)) /\ source = meant
    BY <1>0, <1>2 DEF OELDecodeRun
  <2>2. /\ OelCarried(meant, v) /\ OelToAttr(v) \in {"done", "refused"}
        /\ OelToAttr(v) = "refused" => SomeNumber(meant, {"nan", "inf"})
    BY <1>0, <2>1, OelRead
  <2> HIDE DEF v
  <2>3. CarriedBy(lang, meant, v)
    BY <2>1, <2>2 DEF CarriedBy
  <2> QED BY <2>1, <2>2, <2>3, DecodeKeeps
<1>3. CASE CELDecodeRun
  <2> DEFINE v == CelTree(notation, source)
  <2>1. lang = "cel" /\ phase = "text" /\ Decode(v, CelToAttr(v)) /\ source = meant
    BY <1>0, <1>3 DEF CELDecodeRun
  <2>2. /\ CelCarried(meant, v) /\ CelToAttr(v) \in {"done", "refused"}
        /\ CelToAttr(v) = "refused" => SomeNumber(meant, {"nan", "inf"})
    BY <1>0, <2>1, CelRead
  <2> HIDE DEF v
  <2>3. CarriedBy(lang, meant, v)
    BY <2>1, <2>2 DEF CarriedBy
  <2> QED BY <2>1, <2>2, <2>3, DecodeKeeps
<1>4. CASE Splice
  <2>1. /\ phase = "data" /\ phase' = "data" /\ lang' = lang
        /\ \E c \in Contexts(lang, data, meant) : data' = c[1] /\ meant' = c[2]
    BY <1>4 DEF Splice
  <2>2. PICK c \in Contexts(lang, data, meant) : data' = c[1] /\ meant' = c[2]
    BY <2>1
  <2>3. WholeText(lang, c[2]) /\ (HoldsUnknown(c[1]) \/ CarriedBy(lang, c[2], c[1]))
    BY <1>0, <2>1, SplicedKeeps
  <2>4. WholeText(lang', meant') /\ (HoldsUnknown(data') \/ CarriedBy(lang', meant', data')) /\ lang' \in {"promql", "oel", "cel"}
    BY <1>0, <2>1, <2>2, <2>3
  <2>5. StoppedForAReason'
    BY <2>1 DEF StoppedForAReason
  <2> QED BY <2>1, <2>4, <2>5 DEF LanguagesInv
<1>5. CASE SpliceUnknown
  <2> DEFINE f == IF lang = "promql" THEN [func |-> Name("f"), args |-> List(<<data, UnknownTree>>)]
                  ELSE [function |-> Name("f"), args |-> List(<<data, UnknownTree>>)]
  <2>1. /\ phase' = "data" /\ lang' = lang /\ meant' = meant /\ data' = Node("call", Obj(f))
    BY <1>5 DEF SpliceUnknown
  <2>2. "args" \in DOMAIN f /\ f["args"] = List(<<data, UnknownTree>>)
    OBVIOUS
  <2> HIDE DEF f
  <2>3. HoldsUnknown(data')
    BY <2>1, <2>2, BesideUnknown
  <2>4. StoppedForAReason'
    BY <2>1 DEF StoppedForAReason
  <2>5. WholeText(lang', meant') /\ lang' \in {"promql", "oel", "cel"}
    BY <1>0, <2>1
  <2> QED BY <2>1, <2>3, <2>4, <2>5 DEF LanguagesInv
<1>6. CASE PromQLEncodeRun
  <2>1. lang = "promql" /\ phase = "data" /\ Encode(ToNode(data), PromBuild(data))
    BY <1>6 DEF PromQLEncodeRun, PromToNode
  <2>2. ASSUME CarriedBy(lang, meant, data), Finite(data)
        PROVE  Gets(PromBuild(data), meant, SomeOneWay(lang, meant))
    BY <2>1, <2>2, PromEncoded DEF CarriedBy
  <2> QED BY <2>1, <2>2, EncodeKeeps
<1>7. CASE OELEncodeRun
  <2>1. lang = "oel" /\ phase = "data" /\ Encode(ToNode(data), OelBuild(data))
    BY <1>7 DEF OELEncodeRun, OelToNode
  <2>2. ASSUME CarriedBy(lang, meant, data), Finite(data)
        PROVE  Gets(OelBuild(data), meant, SomeOneWay(lang, meant))
    BY <1>0, <2>1, <2>2, OelEncoded DEF CarriedBy
  <2> QED BY <2>1, <2>2, EncodeKeeps
<1>8. CASE CELEncodeRun
  <2>1. lang = "cel" /\ phase = "data" /\ Encode(ToNode(data), CelBuild(data))
    BY <1>8 DEF CELEncodeRun, CelToNode
  <2>2. ASSUME CarriedBy(lang, meant, data), Finite(data)
        PROVE  Gets(CelBuild(data), meant, SomeOneWay(lang, meant))
    BY <1>0, <2>1, <2>2, CelEncoded DEF CarriedBy, Gets
  <2> QED BY <2>1, <2>2, EncodeKeeps
<1>9. CASE UNCHANGED languagesVars
  <2>1. /\ lang' = lang /\ meant' = meant /\ source' = source /\ data' = data /\ phase' = phase
    BY <1>9 DEF languagesVars
  <2>2. StoppedForAReason'
    BY <2>1 DEF LanguagesInv, StoppedForAReason
  <2>3. /\ WholeText(lang', meant') /\ lang' \in {"promql", "oel", "cel"}
        /\ phase' = "data" => HoldsUnknown(data') \/ CarriedBy(lang', meant', data')
        /\ phase' = "text" => source' = meant' /\ data' = Nil
    BY <1>0, <2>1
  <2> QED BY <2>2, <2>3 DEF LanguagesInv
<1> QED BY <1>1, <1>2, <1>3, <1>4, <1>5, <1>6, <1>7, <1>8, <1>9 DEF LanguagesNext

(* An encoded text is the expression the user means, however the data it   *)
(* is encoded from was put together (EncodedAsMeant).                      *)
THEOREM EncodedIsMeant == LanguagesSpec => []EncodedAsMeant
<1>1. LanguagesInv => EncodedAsMeant
  BY DEF LanguagesInv, EncodedAsMeant
<1> QED BY <1>1, Started, StepKeeps, PTL DEF LanguagesSpec

(* A chain stops only for the reasons that StoppedForAReason names, and an *)
(* unknown part leaves the text unknown.                                   *)
THEOREM StopsForAReason == LanguagesSpec => []StoppedForAReason
<1>1. LanguagesInv => StoppedForAReason
  BY DEF LanguagesInv
<1> QED BY <1>1, Started, StepKeeps, PTL DEF LanguagesSpec
====
