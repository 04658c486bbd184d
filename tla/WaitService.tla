---------------------------- MODULE WaitService ----------------------------
(***************************************************************************)
(* What the interrupt wait of a card promises its callers: a single slot   *)
(* that one thread at a time can register in, ended once by an interrupt   *)
(* or by a cancellation, and an outcome that tells which.  It also states  *)
(* what is not promised: a thread that has been told nothing yet when the  *)
(* next one registers ("late") may learn either outcome, and a thread that *)
(* a signal takes out of the wait learns either and leaves the slot taken. *)
(***************************************************************************)
CONSTANTS
  Threads,
  Interruptible,       \* threads that a signal can take out of a wait
  CancelMayBeMissed,   \* a cancelled wait may report success
  None

VARIABLES
  slot,      \* the registered thread, or None
  phase,     \* "out", "armed", or what ended the wait: "irq", "cancel"
  late,      \* threads that were still in their wait at a later registration
  outcome    \* what the last wait of a thread returned, "none" before

serviceVars == <<slot, phase, late, outcome>>

Init ==
  /\ slot = None
  /\ phase = [t \in Threads |-> "out"]
  /\ late = {}
  /\ outcome = [t \in Threads |-> "none"]

Leave(t, o) ==
  /\ phase' = [phase EXCEPT ![t] = "out"]
  /\ outcome' = [outcome EXCEPT ![t] = o]
  /\ UNCHANGED <<slot, late>>

(* The caller is done with the outcome of its last wait. *)
Forget(t) ==
  /\ phase[t] = "out"
  /\ outcome' = [outcome EXCEPT ![t] = "none"]
  /\ late' \in {late, late \ {t}}
  /\ UNCHANGED <<slot, phase>>

Arm(t) ==
  /\ phase[t] = "out" /\ slot = None /\ outcome[t] = "none"
  /\ slot' = t
  /\ phase' = [phase EXCEPT ![t] = "armed"]
  /\ late' = late \cup {u \in Threads : phase[u] # "out"}
  /\ UNCHANGED outcome

Refuse(t) ==
  /\ phase[t] = "out" /\ slot # None /\ outcome[t] = "none"
  /\ Leave(t, "already")

End(how) ==
  /\ slot # None
  /\ slot' = None
  /\ phase' = [phase EXCEPT ![slot] = IF @ = "armed" THEN how ELSE @]
  /\ UNCHANGED <<late, outcome>>

Return(t) ==
  \/ phase[t] = "irq"    /\ Leave(t, "ok")
  \/ phase[t] = "cancel" /\ Leave(t, "canceled")
  \/ phase[t] = "cancel" /\ CancelMayBeMissed /\ Leave(t, "ok")
  \/ phase[t] \in {"irq", "cancel"} /\ t \in late
     /\ \E o \in {"ok", "canceled"} : Leave(t, o)

Interrupted(t) ==
  /\ t \in Interruptible /\ phase[t] = "armed"
  /\ \E o \in {"ok", "canceled"} : Leave(t, o)

Next ==
  \/ \E t \in Threads :
       Forget(t) \/ Arm(t) \/ Refuse(t) \/ Return(t) \/ Interrupted(t)
  \/ \E how \in {"irq", "cancel"} : End(how)

Spec == Init /\ [][Next]_serviceVars
=============================================================================
