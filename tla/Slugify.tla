------------------------------- MODULE Slugify -------------------------------
(***************************************************************************)
(* text/slugify.go: the slugify function, whose options object is parsed   *)
(* attribute by attribute and whose library, gosimple/slug, takes its case *)
(* option from a package-level variable.  Concurrent calls swap that       *)
(* variable under slugifyMu and restore it with a defer, so that even a    *)
(* panic inside the library leaves neither the lock nor the swap behind.   *)
(*                                                                         *)
(* The slug itself is abstracted to the case setting under which the       *)
(* library produced it; language, separator and the text are not told      *)
(* apart.  The library is external: it reads its global and may panic.     *)
(***************************************************************************)
EXTENDS Naturals

CONSTANTS
  Callers,  \* goroutines evaluating slugify
  None      \* no lock holder

ASSUME SlugifyAssumption == None \notin Callers

VARIABLES
  pc,         \* where each caller is
  attrs,      \* the options object the caller was given
  todo,       \* attributes not yet visited by the range over the map
  lowercase,  \* opts.lowercase as parsed so far
  prev,       \* the caller's saved copy of the global
  result,     \* what the call produced
  slugifyMu,  \* the caller that holds the lock, or None
  Lowercase   \* gosimple.Lowercase

vars == <<pc, attrs, todo, lowercase, prev, result, slugifyMu, Lowercase>>

-----------------------------------------------------------------------------

(* The library's own setting, and the function's documented default.       *)
LibraryDefault == TRUE

(* Attributes: the case option, the two string options (language and       *)
(* separator behave alike), and keys slugify does not know; and whether    *)
(* the text is longer than textMaxInputBytes.                              *)
Keys == {"lowercase", "text", "other"}

Values == [lowercase : {"absent", "true", "false", "bad"},
           text      : {"absent", "set", "bad"},
           other     : {"absent", "bad"},
           input     : {"ok", "long"}]

Labels == {"idle", "parse", "lock", "save", "swap", "make", "restore", "unlock",
           "return"}

Given(a) == {k \in Keys : a[k] # "absent"}

TypeOK ==
  /\ pc \in [Callers -> Labels]
  /\ attrs \in [Callers -> Values]
  /\ todo \in [Callers -> SUBSET Keys]
  /\ lowercase \in [Callers -> BOOLEAN]
  /\ prev \in [Callers -> BOOLEAN]
  /\ result \in [Callers -> {"none", "error", "panic", "lower", "cased"}]
  /\ slugifyMu \in Callers \cup {None}
  /\ Lowercase \in BOOLEAN

Default == [lowercase |-> "absent", text |-> "absent", other |-> "absent", input |-> "ok"]

Init ==
  /\ pc = [c \in Callers |-> "idle"]
  /\ attrs = [c \in Callers |-> Default]
  /\ todo = [c \in Callers |-> {}]
  /\ lowercase = [c \in Callers |-> TRUE]
  /\ prev = [c \in Callers |-> LibraryDefault]
  /\ result = [c \in Callers |-> "none"]
  /\ slugifyMu = None
  /\ Lowercase = LibraryDefault

-----------------------------------------------------------------------------

Goto(c, label) == pc' = [pc EXCEPT ![c] = label]

(* A text that is too long is refused before its options are looked at.    *)
Call(c) ==
  /\ pc[c] = "idle"
  /\ \E a \in Values :
       /\ attrs' = [attrs EXCEPT ![c] = a]
       /\ \/ /\ a.input = "long"
             /\ result' = [result EXCEPT ![c] = "error"]
             /\ Goto(c, "return")
             /\ UNCHANGED todo
          \/ /\ a.input = "ok"
             /\ todo' = [todo EXCEPT ![c] = Given(a)]
             /\ Goto(c, "parse")
             /\ UNCHANGED result
  /\ lowercase' = [lowercase EXCEPT ![c] = TRUE]
  /\ UNCHANGED <<prev, slugifyMu, Lowercase>>

(* parseSlugifyOptions visits the attributes in no particular order and    *)
(* returns at the first bad one.                                           *)
Visit(c) ==
  /\ pc[c] = "parse"
  /\ \E k \in todo[c] :
       /\ todo' = [todo EXCEPT ![c] = @ \ {k}]
       /\ IF attrs[c][k] = "bad"
          THEN /\ result' = [result EXCEPT ![c] = "error"]
               /\ Goto(c, "return")
               /\ UNCHANGED lowercase
          ELSE /\ lowercase' = [lowercase EXCEPT ![c] =
                                 IF k = "lowercase" THEN attrs[c][k] = "true" ELSE @]
               /\ UNCHANGED <<pc, result>>
  /\ UNCHANGED <<attrs, prev, slugifyMu, Lowercase>>

Parsed(c) ==
  /\ pc[c] = "parse"
  /\ todo[c] = {}
  /\ Goto(c, "lock")
  /\ UNCHANGED <<attrs, todo, lowercase, prev, result, slugifyMu, Lowercase>>

(* Mutant of Lock: no mutex around the swap of the global.                 *)
LockWithoutMutex(c) ==
  /\ pc[c] = "lock"
  /\ slugifyMu' = c
  /\ Goto(c, "save")
  /\ UNCHANGED <<attrs, todo, lowercase, prev, result, Lowercase>>

(* slugifyMu.Lock(); defer slugifyMu.Unlock()                              *)
Lock(c) ==
  /\ pc[c] = "lock"
  /\ slugifyMu = None
  /\ slugifyMu' = c
  /\ Goto(c, "save")
  /\ UNCHANGED <<attrs, todo, lowercase, prev, result, Lowercase>>

(* prev := gosimple.Lowercase; defer the restore                           *)
Save(c) ==
  /\ pc[c] = "save"
  /\ prev' = [prev EXCEPT ![c] = Lowercase]
  /\ Goto(c, "swap")
  /\ UNCHANGED <<attrs, todo, lowercase, result, slugifyMu, Lowercase>>

(* gosimple.Lowercase = opts.lowercase                                     *)
Swap(c) ==
  /\ pc[c] = "swap"
  /\ Lowercase' = lowercase[c]
  /\ Goto(c, "make")
  /\ UNCHANGED <<attrs, todo, lowercase, prev, result, slugifyMu>>

(* gosimple.Make or MakeLang: it reads the global, or panics.              *)
Make(c) ==
  /\ pc[c] = "make"
  /\ \E r \in {IF Lowercase THEN "lower" ELSE "cased", "panic"} :
       result' = [result EXCEPT ![c] = r]
  /\ Goto(c, "restore")
  /\ UNCHANGED <<attrs, todo, lowercase, prev, slugifyMu, Lowercase>>

(* Mutant of Restore: the setting is put back by a statement after Make,   *)
(* which a panic skips.                                                    *)
RestoreUnlessPanic(c) ==
  /\ pc[c] = "restore"
  /\ Lowercase' = IF result[c] = "panic" THEN Lowercase ELSE prev[c]
  /\ Goto(c, "unlock")
  /\ UNCHANGED <<attrs, todo, lowercase, prev, result, slugifyMu>>

(* The deferred restore, which runs before the deferred unlock, also when  *)
(* the call is panicking.                                                  *)
Restore(c) ==
  /\ pc[c] = "restore"
  /\ Lowercase' = prev[c]
  /\ Goto(c, "unlock")
  /\ UNCHANGED <<attrs, todo, lowercase, prev, result, slugifyMu>>

(* Mutant of Unlock: a statement after Make, which a panic skips.          *)
UnlockUnlessPanic(c) ==
  /\ pc[c] = "unlock"
  /\ slugifyMu' = IF result[c] = "panic" THEN slugifyMu ELSE None
  /\ Goto(c, "return")
  /\ UNCHANGED <<attrs, todo, lowercase, prev, result, Lowercase>>

(* The deferred slugifyMu.Unlock(), also when the call is panicking.       *)
Unlock(c) ==
  /\ pc[c] = "unlock"
  /\ slugifyMu' = None
  /\ Goto(c, "return")
  /\ UNCHANGED <<attrs, todo, lowercase, prev, result, Lowercase>>

(* The call's frame is gone.                                               *)
Return(c) ==
  /\ pc[c] = "return"
  /\ attrs' = [attrs EXCEPT ![c] = Default]
  /\ todo' = [todo EXCEPT ![c] = {}]
  /\ lowercase' = [lowercase EXCEPT ![c] = TRUE]
  /\ prev' = [prev EXCEPT ![c] = LibraryDefault]
  /\ result' = [result EXCEPT ![c] = "none"]
  /\ Goto(c, "idle")
  /\ UNCHANGED <<slugifyMu, Lowercase>>

Step(c) ==
  \/ Visit(c)
  \/ Parsed(c)
  \/ Save(c)
  \/ Swap(c)
  \/ Make(c)
  \/ Restore(c)
  \/ Unlock(c)
  \/ Return(c)

Next == \E c \in Callers : Call(c) \/ Lock(c) \/ Step(c)

Spec == Init /\ [][Next]_vars

(* A runnable goroutine runs; sync.Mutex does not pass a waiter over for   *)
(* ever.                                                                   *)
SlugifyFairness == \A c \in Callers : WF_vars(Step(c)) /\ SF_vars(Lock(c))

FairSpec == Spec /\ SlugifyFairness

-----------------------------------------------------------------------------

(* The case a caller asked for: true unless lowercase = false was given.   *)
Wanted(c) == IF attrs[c].lowercase = "false" THEN "cased" ELSE "lower"

(* What a call can be refused for: the text's length and its options.      *)
Unfit(a) == a.input = "long" \/ \E k \in Keys : a[k] = "bad"

(* A slug is always in the case its own caller asked for, whatever other   *)
(* calls set the global to meanwhile and in whatever order the options map *)
(* was ranged over; a text that is too long or an options object with a    *)
(* bad attribute gives an error and never a slug, and others never one.    *)
OwnCase ==
  \A c \in Callers : result[c] # "none" =>
    IF Unfit(attrs[c])
    THEN result[c] = "error"
    ELSE result[c] \in {Wanted(c), "panic"}

(* Whenever the lock is free the library has its own setting back, even    *)
(* after a call that panicked inside it: slugify leaves no trace for other *)
(* users of the library.                                                   *)
RestoredWhenFree == slugifyMu = None => Lowercase = LibraryDefault

(* The global changes only in the hands of the lock holder, so no one else *)
(* can be reading it at the time.                                          *)
SwappedUnderLock ==
  [][Lowercase' # Lowercase => slugifyMu # None /\ slugifyMu' = slugifyMu]_vars

(* Every call returns: a panic or a bad option never leaves the lock held. *)
CallsReturn == \A c \in Callers : pc[c] # "idle" ~> pc[c] = "idle"
-----------------------------------------------------------------------------
(* The inductive invariant behind the safety properties, in two parts.     *)

Holding == {"save", "swap", "make", "restore", "unlock"}

(* The global: whoever is inside the critical section holds the lock, its  *)
(* saved copy is the library's own setting, and only between the swap and  *)
(* the restore does the global differ from it.                             *)
LockInv ==
  /\ \A c \in Callers :
       /\ pc[c] \in Holding => slugifyMu = c
       /\ pc[c] \in {"swap", "make", "restore"} => prev[c] = LibraryDefault
       /\ pc[c] \in {"save", "swap", "unlock"} => Lowercase = LibraryDefault
       /\ pc[c] = "make" => Lowercase = lowercase[c]
  /\ slugifyMu = None => Lowercase = LibraryDefault

(* The options: what has been visited was good and has been taken over,    *)
(* and a result is decided only when everything has been visited or at the *)
(* first bad attribute.                                                    *)
ParseInv(c) ==
  /\ pc[c] \in {"parse", "lock", "save", "swap", "make"} =>
       /\ result[c] = "none" /\ attrs[c].input = "ok"
       /\ todo[c] \subseteq Given(attrs[c])
       /\ \A k \in Keys \ todo[c] : attrs[c][k] # "bad"
       /\ lowercase[c] = ("lowercase" \in todo[c] \/ attrs[c]["lowercase"] # "false")
  /\ pc[c] \in {"lock", "save", "swap", "make"} => todo[c] = {}
  /\ pc[c] = "idle" => result[c] = "none"
  /\ result[c] # "none" =>
       IF Unfit(attrs[c])
       THEN result[c] = "error"
       ELSE result[c] \in {Wanted(c), "panic"}

IInv == TypeOK /\ LockInv /\ \A c \in Callers : ParseInv(c)
=============================================================================
