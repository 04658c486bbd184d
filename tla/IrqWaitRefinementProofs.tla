---------------------- MODULE IrqWaitRefinementProofs ----------------------
(***************************************************************************)
(* Proof that the interrupt wait of the driver implements the single-slot  *)
(* service of WaitService.                                                 *)
(***************************************************************************)
EXTENDS IrqWaitRefinement, IrqWaitProofs

(* A step that leaves every thread and the slot where they were is a stutter  *)
(* of the service.                                                            *)
LEMMA SameService ==
  ASSUME \A t \in Threads : /\ InWait(t)' <=> InWait(t)
                            /\ ended'[t] = ended[t]
                            /\ Returned(t)' <=> Returned(t)
                            /\ status'[t] = status[t] \/ ~Returned(t)',
         UNCHANGED <<owner, overtaken>>
  PROVE  UNCHANGED Service!serviceVars
<1>1. \A t \in Threads : Phase(t)' = Phase(t) /\ Outcome(t)' = Outcome(t)
  BY DEF Phase, Outcome, OutcomeOf
<1>2. QED
  BY <1>1 DEF Service!serviceVars

(* The steps of IRQ_WAIT and WAIT_CANCEL that register nothing, end nothing   *)
(* and return nothing, the card, the signals and the ISR outside its notify.  *)
LEMMA Stutters ==
  ASSUME TypeOK, SlotInv,
         \/ \E t \in Threads : \/ WaitCheck(t) \/ PrepareToWait(t) \/ WaitCond(t)
                              \/ WakeUp(t) \/ CancelRefuse(t) \/ CancelWake(t)
                              \/ Signal(t)
         \/ \E s \in Sources : RaiseIrq(s)
         \/ \E c \in CPUs : IsrEnter(c)
         \/ IsrRead \/ IsrAck \/ IsrLock \/ IsrWake
         \/ UNCHANGED vars
  PROVE  UNCHANGED Service!serviceVars
<1> USE DEF TypeOK, SlotInv, LeaverInv, CancelPcs, InWait, WaitPcs, LockPcs,
        Returned, At, Goto, Queued, Woken, ctxVars, lockVars, callVars, isrVars, histVars
<1>1. ASSUME NEW t \in Threads, WaitCheck(t) PROVE UNCHANGED Service!serviceVars
  BY <1>1, SameService DEF WaitCheck
<1>2. ASSUME NEW t \in Threads, PrepareToWait(t) PROVE UNCHANGED Service!serviceVars
  BY <1>2, SameService DEF PrepareToWait
<1>3. ASSUME NEW t \in Threads, WaitCond(t) PROVE UNCHANGED Service!serviceVars
  BY <1>3, SameService DEF WaitCond
<1>4. ASSUME NEW t \in Threads, WakeUp(t) PROVE UNCHANGED Service!serviceVars
  BY <1>4, SameService DEF WakeUp
<1>5. ASSUME NEW t \in Threads, CancelRefuse(t) PROVE UNCHANGED Service!serviceVars
  BY <1>5, SameService DEF CancelRefuse
<1>6. ASSUME NEW t \in Threads, CancelWake(t) PROVE UNCHANGED Service!serviceVars
  BY <1>6, SameService DEF CancelWake
<1>7. ASSUME NEW t \in Threads, Signal(t) PROVE UNCHANGED Service!serviceVars
  BY <1>7, SameService DEF Signal
<1>8. ASSUME NEW s \in Sources, RaiseIrq(s) PROVE UNCHANGED Service!serviceVars
  BY <1>8, SameService DEF RaiseIrq
<1>9. ASSUME NEW c \in CPUs, IsrEnter(c) PROVE UNCHANGED Service!serviceVars
  BY <1>9, SameService DEF IsrEnter
<1>10. CASE IsrRead
  BY <1>10, SameService DEF IsrRead
<1>11. CASE IsrAck
  BY <1>11, SameService DEF IsrAck
<1>12. CASE IsrLock
  BY <1>12, SameService DEF IsrLock
<1>13. CASE IsrWake
  BY <1>13, SameService DEF IsrWake
<1>14. CASE UNCHANGED vars
  BY <1>14, SameService DEF vars
<1>15. QED
  BY <1>1, <1>2, <1>3, <1>4, <1>5, <1>6, <1>7, <1>8, <1>9, <1>10, <1>11,
     <1>12, <1>13, <1>14

(* A new call of a thread makes the service forget its last outcome. *)
LEMMA CallForgets ==
  ASSUME TypeOK, NEW t \in Threads, WaitCall(t) \/ CancelCall(t)
  PROVE  Service!Forget(t)
<1> USE DEF TypeOK, InWait, WaitPcs, LockPcs, Returned, Goto, ctxVars, isrVars,
        histVars, WaitCall, CancelCall
<1>1. \A u \in Threads : Phase(u)' = Phase(u)
  BY DEF Phase
<1>2. \A u \in Threads : Outcome(u)' = IF u = t THEN "none" ELSE Outcome(u)
  BY DEF Outcome, OutcomeOf
<1>3. Phase(t) = "out"
  BY DEF Phase
<1>4. overtaken' \in {overtaken, overtaken \ {t}} /\ owner' = owner
  OBVIOUS
<1> HIDE DEF WaitCall, CancelCall
<1>5. QED
  BY <1>1, <1>2, <1>3, <1>4 DEF Service!Forget

(* -EALREADY is the refusal of a taken slot. *)
LEMMA RefuseRefuses ==
  ASSUME IInv, NEW t \in Threads, WaitRefuse(t)
  PROVE  Service!Refuse(t)
<1> USE DEF IInv, TypeOK, InWait, WaitPcs, LockPcs, Returned, At, Goto, ctxVars,
        isrVars, histVars, WaitRefuse
<1>1. \A u \in Threads : Phase(u)' = Phase(u)
  BY DEF Phase
<1>2. \A u \in Threads :
        Outcome(u)' = IF u = t THEN "already" ELSE Outcome(u)
  BY DEF Outcome, OutcomeOf, SlotInv, LeaverInv, EALREADY
<1>3. Phase(t) = "out" /\ Outcome(t) = "none" /\ owner # None
  BY ConstantsAssumption DEF Phase, Outcome, FlagInv
<1>4. QED
  BY <1>1, <1>2, <1>3 DEF Service!Refuse, Service!Leave

(* A registration takes the free slot. *)
LEMMA RegisterArms ==
  ASSUME IInv, NEW t \in Threads, WaitRegister(t)
  PROVE  Service!Arm(t)
<1> USE DEF IInv, TypeOK, InWait, WaitPcs, LockPcs, Returned, At, Goto,
        callVars, isrVars, Arm, WaitRegister
<1>1. \A u \in Threads : Phase(u)' = IF u = t THEN "armed" ELSE Phase(u)
  BY DEF Phase, SlotInv, LeaverInv
<1>2. \A u \in Threads : Outcome(u)' = Outcome(u)
  BY DEF Outcome, OutcomeOf
<1>3. Phase(t) = "out" /\ Outcome(t) = "none" /\ owner = None
  BY DEF Phase, Outcome, FlagInv
<1>4. \A u \in Threads : InWait(u) <=> Phase(u) # "out"
  BY DEF Phase
<1>5. QED
  BY <1>1, <1>2, <1>3, <1>4 DEF Service!Arm

(* IRQ_WAIT returns what ended the wait; a thread that a signal takes out of  *)
(* the wait is interrupted while armed.                                       *)
LEMMA ReturnReturns ==
  ASSUME IInv, NEW t \in Threads, WaitReturn(t)
  PROVE  Service!Return(t) \/ Service!Interrupted(t)
<1> USE DEF IInv, TypeOK, InWait, WaitPcs, LockPcs, Returned, At, Goto, ctxVars,
        isrVars, histVars, WaitReturn
<1> DEFINE o == IF irq_cancelled = 1 THEN "canceled" ELSE "ok"
<1>1. \A u \in Threads : Phase(u)' = IF u = t THEN "out" ELSE Phase(u)
  BY DEF Phase
<1>2. \A u \in Threads : Outcome(u)' = IF u = t THEN o ELSE Outcome(u)
  BY DEF Outcome, OutcomeOf, SlotInv, WaiterInv, EALREADY, ECANCELED
<1>3. owner' = owner /\ overtaken' = overtaken
  OBVIOUS
<1>4. Service!Leave(t, o)
  BY <1>1, <1>2, <1>3 DEF Service!Leave
<1>5. o \in {"ok", "canceled"} /\ InWait(t)
  OBVIOUS
<1>6. CASE ended[t] = "none"
  <2>1. Phase(t) = "armed" /\ t \in Interruptible
    BY <1>5, <1>6 DEF Phase, SlotInv, WaiterInv
  <2>2. QED
    BY ONLY <2>1, <1>4, <1>5 DEF Service!Interrupted
<1>7. CASE t \in overtaken /\ ended[t] # "none"
  <2>1. Phase(t) \in {"irq", "cancel"}
    BY <1>5, <1>7 DEF Phase
  <2>2. QED
    BY ONLY <2>1, <1>4, <1>5, <1>7 DEF Service!Return
<1>8. CASE t \notin overtaken /\ ended[t] = "irq"
  <2>1. Phase(t) = "irq" /\ o = "ok"
    BY <1>5, <1>8 DEF Phase, SlotInv, WaiterInv
  <2>2. QED
    BY ONLY <2>1, <1>4 DEF Service!Return
<1>9. CASE t \notin overtaken /\ ended[t] = "cancel"
  <2>1. Phase(t) = "cancel" /\ (o = "ok" => StoresReordered)
    BY <1>5, <1>9 DEF Phase, SlotInv, WaiterInv, FlagInv
  <2>2. QED
    BY ONLY <2>1, <1>4, <1>5 DEF Service!Return
<1>10. QED
  BY <1>6, <1>7, <1>8, <1>9

(* The store that clears waiting_for_irq ends the wait of the slot: it is the *)
(* only step of WAIT_CANCEL that the service sees.                            *)
LEMMA EndEnds ==
  ASSUME IInv, NEW how \in {"irq", "cancel"}, waiting_for_irq # 0, EndWait(how),
         UNCHANGED <<overtaken, call, status>>,
         \A u \in Threads : /\ InWait(u)' <=> InWait(u)
                            /\ Returned(u)' <=> Returned(u)
  PROVE  Service!End(how)
<1> USE DEF IInv, TypeOK, EndWait
<1>1. owner \in Threads
  BY DEF FlagInv
<1>2. \A u \in Threads : Outcome(u)' = Outcome(u)
  BY DEF Outcome, OutcomeOf
<1>3. \A u \in Threads :
        Phase(u)' = IF u = owner /\ Phase(u) = "armed" THEN how ELSE Phase(u)
  BY <1>1 DEF Phase, SlotInv, WaiterInv
<1>4. owner # None /\ owner' = None /\ overtaken' = overtaken
  BY <1>1, ConstantsAssumption
<1> HIDE DEF IInv, TypeOK, EndWait
<1>5. QED
  BY <1>1, <1>2, <1>3, <1>4 DEF Service!End

(* Every step of the driver is a step of the service or a stutter. *)
LEMMA ServiceStep == IInv /\ [Next]_vars => [Service!Next]_(Service!serviceVars)
<1> SUFFICES ASSUME IInv, [Next]_vars
             PROVE  Service!Next \/ UNCHANGED Service!serviceVars
  OBVIOUS
<1>1. ASSUME NEW t \in Threads, WaitCall(t) \/ CancelCall(t) PROVE Service!Next
  BY <1>1, CallForgets DEF IInv, Service!Next
<1>2. ASSUME NEW t \in Threads, WaitRefuse(t) PROVE Service!Next
  BY <1>2, RefuseRefuses DEF Service!Next
<1>3. ASSUME NEW t \in Threads, WaitRegister(t) PROVE Service!Next
  BY <1>3, RegisterArms DEF Service!Next
<1>4. ASSUME NEW t \in Threads, WaitReturn(t) PROVE Service!Next
  BY <1>4, ReturnReturns DEF Service!Next
<1>5. ASSUME NEW t \in Threads, CancelFirstStore(t)
      PROVE  Service!Next \/ UNCHANGED Service!serviceVars
  <2> USE <1>5 DEF IInv, TypeOK, InWait, WaitPcs, LockPcs, Returned, At, Goto,
          callVars, CancelFirstStore
  <2>1. CASE irq_cancelled' = 1 /\ UNCHANGED <<owner, ended>>
    BY <2>1, SameService
  <2>2. CASE EndWait("cancel")
    BY <2>2, EndEnds DEF Service!Next
  <2>3. QED
    BY <2>1, <2>2
<1>6. ASSUME NEW t \in Threads, CancelSecondStore(t)
      PROVE  Service!Next \/ UNCHANGED Service!serviceVars
  <2> USE <1>6 DEF IInv, TypeOK, InWait, WaitPcs, LockPcs, Returned, At, Goto,
          callVars, CancelSecondStore
  <2>1. CASE irq_cancelled' = 1 /\ UNCHANGED <<owner, ended>>
    BY <2>1, SameService
  <2>2. CASE At(t, "c_store") /\ EndWait("cancel")
    BY <2>2, EndEnds DEF Service!Next, FlagInv
  <2>3. QED
    BY <2>1, <2>2
<1>7. CASE IsrNotify
  <2> USE <1>7 DEF InWait, Returned, callVars, IsrNotify
  <2>1. CASE waiting_for_irq = 0
    BY <2>1, SameService
  <2>2. CASE waiting_for_irq # 0
    BY <2>2, EndEnds DEF Service!Next
  <2>3. QED
    BY <2>1, <2>2
<1>8. QED
  BY <1>1, <1>2, <1>3, <1>4, <1>5, <1>6, <1>7, Stutters
  DEF IInv, Next, ThreadNext, KernelStep, IsrNext, IsrStep

(* The ioctls IRQ_WAIT and IRQ_WAIT_CANCEL, the ISR of the card, signals and  *)
(* the wait queue together implement the single-slot service, for any number  *)
(* of threads and CPUs and for both orders of the stores of WAIT_CANCEL.      *)
THEOREM Refinement == Spec => ImplementsService
<1>1. Init => Service!Init
  BY DEF Init, Service!Init, Phase, Outcome, Returned, InWait, WaitPcs
<1>2. QED
  BY <1>1, ServiceStep, Inductive, PTL DEF Spec, ImplementsService, Service!Spec

=============================================================================
