------------------------- MODULE IrqWaitRefinement -------------------------
(* IrqWait implements WaitService: the mapping from the fields of the device *)
(* context and the program counters to the state of the service.             *)
EXTENDS IrqWait

Phase(t) ==
  IF ~InWait(t) THEN "out" ELSE IF ended[t] = "none" THEN "armed" ELSE ended[t]

OutcomeOf(s) ==
  IF s = 0 THEN "ok" ELSE IF s = -EALREADY THEN "already" ELSE "canceled"

Returned(t) == pc[t] = "user" /\ call[t] = "wait"

Outcome(t) == IF Returned(t) THEN OutcomeOf(status[t]) ELSE "none"

Service == INSTANCE WaitService WITH
  CancelMayBeMissed <- StoresReordered,
  slot    <- owner,
  phase   <- [t \in Threads |-> Phase(t)],
  late    <- overtaken,
  outcome <- [t \in Threads |-> Outcome(t)]

(* Every behaviour of the two ioctls, the ISR, the signals and the wait queue *)
(* is one of the single-slot service: a registration is ended exactly once,   *)
(* and an undisturbed waiter learns how.                                      *)
ImplementsService == Service!Spec
=============================================================================
