---------------------------- MODULE EngineService ----------------------------
(***************************************************************************)
(* What an embedded engine promises to the goroutines that call it, with   *)
(* no set-up, no lock, no runtime and no memory: a call gets the reply its *)
(* own request deserves, an internal fault is reported only to a call that *)
(* was itself struck by a cancelled context or a host fault, and no call   *)
(* hangs.  The comments above ensureCompiled and EngineError in            *)
(* regex/engine.go state this contract.                                    *)
(***************************************************************************)
CONSTANT Callers

VARIABLES busy, want, struck, outcome

vars == <<busy, want, struck, outcome>>

Init ==
  /\ busy = {}
  /\ want = [c \in Callers |-> "value"]
  /\ struck = [c \in Callers |-> FALSE]
  /\ outcome = [c \in Callers |-> "none"]

Begin(c, w) ==
  /\ c \notin busy
  /\ busy' = busy \cup {c}
  /\ want' = [want EXCEPT ![c] = w]
  /\ UNCHANGED <<struck, outcome>>

(* The engine's reply: the value, or the caller's own error.               *)
Answer(c) ==
  /\ c \in busy
  /\ outcome[c] = "none"
  /\ outcome' = [outcome EXCEPT ![c] =
                   IF want[c] = "userError" THEN "argError" ELSE "value"]
  /\ UNCHANGED <<busy, want, struck>>

(* A failure hits this call; whether it ends it is the next step's choice. *)
Strike(c) ==
  /\ c \in busy
  /\ outcome[c] = "none"
  /\ struck' = [struck EXCEPT ![c] = TRUE]
  /\ outcome' \in {outcome, [outcome EXCEPT ![c] = "fault"]}
  /\ UNCHANGED <<busy, want>>

GiveUp(c) ==
  /\ c \in busy
  /\ struck[c]
  /\ outcome[c] = "none"
  /\ outcome' = [outcome EXCEPT ![c] = "fault"]
  /\ UNCHANGED <<busy, want, struck>>

Return(c) ==
  /\ c \in busy
  /\ outcome[c] # "none"
  /\ busy' = busy \ {c}
  /\ want' = [want EXCEPT ![c] = "value"]
  /\ struck' = [struck EXCEPT ![c] = FALSE]
  /\ outcome' = [outcome EXCEPT ![c] = "none"]

Next ==
  \E c \in Callers :
    \/ \E w \in {"value", "userError"} : Begin(c, w)
    \/ Answer(c)
    \/ Strike(c)
    \/ GiveUp(c)
    \/ Return(c)

Safe == Init /\ [][Next]_vars

(* Every call that begins is over at some later time.                      *)
Returns == \A c \in Callers : c \in busy ~> c \notin busy

Spec == Safe /\ Returns
=============================================================================
