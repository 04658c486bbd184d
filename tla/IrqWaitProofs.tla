--------------------------- MODULE IrqWaitProofs ---------------------------
(***************************************************************************)
(* Proofs about IrqWait, for every set of threads, CPUs and interrupt      *)
(* sources, with or without signals and for both store orders.             *)
(*                                                                         *)
(* IInv is the conjunction of the parts that the lemmas below preserve one *)
(* by one: types; who holds irq_lock and with which CPU; what the flags    *)
(* mean during a cancellation; what a thread inside or outside IRQ_WAIT    *)
(* knows of its registration; the wakeup, the latched interrupt and the    *)
(* reported outcomes.                                                      *)
(***************************************************************************)
EXTENDS IrqWait, TLAPS

(* Every step keeps the variables in their types.                             *)
LEMMA TypeStep == TypeOK /\ [Next]_vars => TypeOK'
<1> SUFFICES ASSUME TypeOK, [Next]_vars
             PROVE  TypeOK'
  OBVIOUS
<1> USE ConstantsAssumption DEF TypeOK, WaitPcs, LockPcs, IsrPcs, EALREADY,
        ECANCELED, At, CanRun, FreeCpus, Goto, SpinLockIrqSave,
        SpinUnlockIrqRestore, EndWait, Arm, Queued, Woken, FirstStores,
        WakeQueue, ctxVars, lockVars, callVars, isrVars, histVars
<1>1. ASSUME NEW t \in Threads, WaitCall(t) PROVE TypeOK'
  BY <1>1 DEF WaitCall
<1>2. ASSUME NEW t \in Threads, WaitRefuse(t) PROVE TypeOK'
  BY <1>2 DEF WaitRefuse
<1>3. ASSUME NEW t \in Threads, WaitRegister(t) PROVE TypeOK'
  BY <1>3 DEF WaitRegister
<1>4. ASSUME NEW t \in Threads, WaitCheck(t) PROVE TypeOK'
  BY <1>4 DEF WaitCheck
<1>5. ASSUME NEW t \in Threads, PrepareToWait(t) PROVE TypeOK'
  BY <1>5 DEF PrepareToWait
<1>6. ASSUME NEW t \in Threads, WaitCond(t) PROVE TypeOK'
  BY <1>6 DEF WaitCond
<1>7. ASSUME NEW t \in Threads, WakeUp(t) PROVE TypeOK'
  BY <1>7 DEF WakeUp
<1>8. ASSUME NEW t \in Threads, WaitReturn(t) PROVE TypeOK'
  BY <1>8 DEF WaitReturn
<1>9. ASSUME NEW t \in Threads, CancelCall(t) PROVE TypeOK'
  BY <1>9 DEF CancelCall
<1>10. ASSUME NEW t \in Threads, CancelRefuse(t) PROVE TypeOK'
  BY <1>10 DEF CancelRefuse
<1>11. ASSUME NEW t \in Threads, CancelFirstStore(t) PROVE TypeOK'
  BY <1>11 DEF CancelFirstStore
<1>12. ASSUME NEW t \in Threads, CancelSecondStore(t) PROVE TypeOK'
  BY <1>12 DEF CancelSecondStore
<1>13. ASSUME NEW t \in Threads, CancelWake(t) PROVE TypeOK'
  BY <1>13 DEF CancelWake
<1>14. ASSUME NEW t \in Threads, Signal(t) PROVE TypeOK'
  BY <1>14 DEF Signal
<1>15. ASSUME NEW s \in Sources, RaiseIrq(s) PROVE TypeOK'
  BY <1>15 DEF RaiseIrq
<1>16. ASSUME NEW c \in CPUs, IsrEnter(c) PROVE TypeOK'
  BY <1>16 DEF IsrEnter
<1>17. CASE IsrRead
  BY <1>17 DEF IsrRead
<1>18. CASE IsrAck
  BY <1>18 DEF IsrAck
<1>19. CASE IsrLock
  BY <1>19 DEF IsrLock
<1>20. CASE IsrNotify
  BY <1>20 DEF IsrNotify
<1>21. CASE IsrWake
  BY <1>21 DEF IsrWake
<1>22. CASE UNCHANGED vars
  BY <1>22 DEF vars
<1>23. QED
  BY <1>1, <1>2, <1>3, <1>4, <1>5, <1>6, <1>7, <1>8, <1>9, <1>10, <1>11,
     <1>12, <1>13, <1>14, <1>15, <1>16, <1>17, <1>18, <1>19, <1>20, <1>21,
     <1>22
  DEF Next, ThreadNext, KernelStep, IsrNext, IsrStep

(* irq_lock is held exactly inside the guarded sections, and the CPU of a     *)
(* thread that holds it neither runs nor can enter the ISR.                   *)
LEMMA LockStep == TypeOK /\ LockInv /\ [Next]_vars => LockInv'
<1> SUFFICES ASSUME TypeOK /\ LockInv, [Next]_vars
             PROVE  LockInv'
  OBVIOUS
<1> USE ConstantsAssumption DEF LockInv, TypeOK, WaitPcs, LockPcs, IsrPcs, At,
        CanRun, FreeCpus, Goto, SpinLockIrqSave, SpinUnlockIrqRestore,
        EndWait, Arm, Queued, Woken, FirstStores, WakeQueue, ctxVars,
        lockVars, callVars, isrVars, histVars
<1>1. ASSUME NEW t \in Threads, WaitCall(t) PROVE LockInv'
  BY <1>1 DEF WaitCall
<1>2. ASSUME NEW t \in Threads, WaitRefuse(t) PROVE LockInv'
  BY <1>2 DEF WaitRefuse
<1>3. ASSUME NEW t \in Threads, WaitRegister(t) PROVE LockInv'
  BY <1>3 DEF WaitRegister
<1>4. ASSUME NEW t \in Threads, WaitCheck(t) PROVE LockInv'
  BY <1>4 DEF WaitCheck
<1>5. ASSUME NEW t \in Threads, PrepareToWait(t) PROVE LockInv'
  BY <1>5 DEF PrepareToWait
<1>6. ASSUME NEW t \in Threads, WaitCond(t) PROVE LockInv'
  BY <1>6 DEF WaitCond
<1>7. ASSUME NEW t \in Threads, WakeUp(t) PROVE LockInv'
  BY <1>7 DEF WakeUp
<1>8. ASSUME NEW t \in Threads, WaitReturn(t) PROVE LockInv'
  BY <1>8 DEF WaitReturn
<1>9. ASSUME NEW t \in Threads, CancelCall(t) PROVE LockInv'
  BY <1>9 DEF CancelCall
<1>10. ASSUME NEW t \in Threads, CancelRefuse(t) PROVE LockInv'
  BY <1>10 DEF CancelRefuse
<1>11. ASSUME NEW t \in Threads, CancelFirstStore(t) PROVE LockInv'
  BY <1>11 DEF CancelFirstStore
<1>12. ASSUME NEW t \in Threads, CancelSecondStore(t) PROVE LockInv'
  BY <1>12 DEF CancelSecondStore
<1>13. ASSUME NEW t \in Threads, CancelWake(t) PROVE LockInv'
  BY <1>13 DEF CancelWake
<1>14. ASSUME NEW t \in Threads, Signal(t) PROVE LockInv'
  BY <1>14 DEF Signal
<1>15. ASSUME NEW s \in Sources, RaiseIrq(s) PROVE LockInv'
  BY <1>15 DEF RaiseIrq
<1>16. ASSUME NEW c \in CPUs, IsrEnter(c) PROVE LockInv'
  BY <1>16 DEF IsrEnter
<1>17. CASE IsrRead
  BY <1>17 DEF IsrRead
<1>18. CASE IsrAck
  BY <1>18 DEF IsrAck
<1>19. CASE IsrLock
  BY <1>19 DEF IsrLock
<1>20. CASE IsrNotify
  BY <1>20 DEF IsrNotify
<1>21. CASE IsrWake
  BY <1>21 DEF IsrWake
<1>22. CASE UNCHANGED vars
  BY <1>22 DEF vars
<1>23. QED
  BY <1>1, <1>2, <1>3, <1>4, <1>5, <1>6, <1>7, <1>8, <1>9, <1>10, <1>11,
     <1>12, <1>13, <1>14, <1>15, <1>16, <1>17, <1>18, <1>19, <1>20, <1>21,
     <1>22
  DEF Next, ThreadNext, KernelStep, IsrNext, IsrStep

(* Only between the two stores of a WAIT_CANCEL, made under irq_lock, do the  *)
(* flags say waiting and cancelled at once.                                   *)
LEMMA FlagStep == TypeOK /\ LockInv /\ FlagInv /\ [Next]_vars => FlagInv'
<1> SUFFICES ASSUME TypeOK /\ LockInv /\ FlagInv, [Next]_vars
             PROVE  FlagInv'
  OBVIOUS
<1> USE ConstantsAssumption DEF FlagInv, LockInv, TypeOK, WaitPcs, LockPcs,
        IsrPcs, At, CanRun, FreeCpus, Goto, SpinLockIrqSave,
        SpinUnlockIrqRestore, EndWait, Arm, Queued, Woken, FirstStores,
        WakeQueue, ctxVars, lockVars, callVars, isrVars, histVars
<1>1. ASSUME NEW t \in Threads, WaitCall(t) PROVE FlagInv'
  BY <1>1 DEF WaitCall
<1>2. ASSUME NEW t \in Threads, WaitRefuse(t) PROVE FlagInv'
  BY <1>2 DEF WaitRefuse
<1>3. ASSUME NEW t \in Threads, WaitRegister(t) PROVE FlagInv'
  BY <1>3 DEF WaitRegister
<1>4. ASSUME NEW t \in Threads, WaitCheck(t) PROVE FlagInv'
  BY <1>4 DEF WaitCheck
<1>5. ASSUME NEW t \in Threads, PrepareToWait(t) PROVE FlagInv'
  BY <1>5 DEF PrepareToWait
<1>6. ASSUME NEW t \in Threads, WaitCond(t) PROVE FlagInv'
  BY <1>6 DEF WaitCond
<1>7. ASSUME NEW t \in Threads, WakeUp(t) PROVE FlagInv'
  BY <1>7 DEF WakeUp
<1>8. ASSUME NEW t \in Threads, WaitReturn(t) PROVE FlagInv'
  BY <1>8 DEF WaitReturn
<1>9. ASSUME NEW t \in Threads, CancelCall(t) PROVE FlagInv'
  BY <1>9 DEF CancelCall
<1>10. ASSUME NEW t \in Threads, CancelRefuse(t) PROVE FlagInv'
  BY <1>10 DEF CancelRefuse
<1>11. ASSUME NEW t \in Threads, CancelFirstStore(t) PROVE FlagInv'
  BY <1>11 DEF CancelFirstStore
<1>12. ASSUME NEW t \in Threads, CancelSecondStore(t) PROVE FlagInv'
  BY <1>12 DEF CancelSecondStore
<1>13. ASSUME NEW t \in Threads, CancelWake(t) PROVE FlagInv'
  BY <1>13 DEF CancelWake
<1>14. ASSUME NEW t \in Threads, Signal(t) PROVE FlagInv'
  BY <1>14 DEF Signal
<1>15. ASSUME NEW s \in Sources, RaiseIrq(s) PROVE FlagInv'
  BY <1>15 DEF RaiseIrq
<1>16. ASSUME NEW c \in CPUs, IsrEnter(c) PROVE FlagInv'
  BY <1>16 DEF IsrEnter
<1>17. CASE IsrRead
  BY <1>17 DEF IsrRead
<1>18. CASE IsrAck
  BY <1>18 DEF IsrAck
<1>19. CASE IsrLock
  BY <1>19 DEF IsrLock
<1>20. CASE IsrNotify
  BY <1>20 DEF IsrNotify
<1>21. CASE IsrWake
  BY <1>21 DEF IsrWake
<1>22. CASE UNCHANGED vars
  BY <1>22 DEF vars
<1>23. QED
  BY <1>1, <1>2, <1>3, <1>4, <1>5, <1>6, <1>7, <1>8, <1>9, <1>10, <1>11,
     <1>12, <1>13, <1>14, <1>15, <1>16, <1>17, <1>18, <1>19, <1>20, <1>21,
     <1>22
  DEF Next, ThreadNext, KernelStep, IsrNext, IsrStep

(* Whoever clears waiting_for_irq has its wake-up ahead of it, and a thread   *)
(* queues itself before it tests the flag again.                              *)
LEMMA WakeupStep == TypeOK /\ FlagInv /\ NoLostWakeup /\ [Next]_vars => NoLostWakeup'
<1> SUFFICES ASSUME TypeOK /\ FlagInv /\ NoLostWakeup, [Next]_vars
             PROVE  NoLostWakeup'
  OBVIOUS
<1> USE ConstantsAssumption DEF NoLostWakeup, WakerAhead, FlagInv, TypeOK,
        WaitPcs, LockPcs, IsrPcs, At, CanRun, FreeCpus, Goto, SpinLockIrqSave,
        SpinUnlockIrqRestore, EndWait, Arm, Queued, Woken, FirstStores,
        WakeQueue, ctxVars, lockVars, callVars, isrVars, histVars
<1>1. ASSUME NEW t \in Threads, WaitCall(t) PROVE NoLostWakeup'
  BY <1>1 DEF WaitCall
<1>2. ASSUME NEW t \in Threads, WaitRefuse(t) PROVE NoLostWakeup'
  BY <1>2 DEF WaitRefuse
<1>3. ASSUME NEW t \in Threads, WaitRegister(t) PROVE NoLostWakeup'
  BY <1>3 DEF WaitRegister
<1>4. ASSUME NEW t \in Threads, WaitCheck(t) PROVE NoLostWakeup'
  BY <1>4 DEF WaitCheck
<1>5. ASSUME NEW t \in Threads, PrepareToWait(t) PROVE NoLostWakeup'
  BY <1>5 DEF PrepareToWait
<1>6. ASSUME NEW t \in Threads, WaitCond(t) PROVE NoLostWakeup'
  BY <1>6 DEF WaitCond
<1>7. ASSUME NEW t \in Threads, WakeUp(t) PROVE NoLostWakeup'
  BY <1>7 DEF WakeUp
<1>8. ASSUME NEW t \in Threads, WaitReturn(t) PROVE NoLostWakeup'
  BY <1>8 DEF WaitReturn
<1>9. ASSUME NEW t \in Threads, CancelCall(t) PROVE NoLostWakeup'
  BY <1>9 DEF CancelCall
<1>10. ASSUME NEW t \in Threads, CancelRefuse(t) PROVE NoLostWakeup'
  BY <1>10 DEF CancelRefuse
<1>11. ASSUME NEW t \in Threads, CancelFirstStore(t) PROVE NoLostWakeup'
  BY <1>11 DEF CancelFirstStore
<1>12. ASSUME NEW t \in Threads, CancelSecondStore(t) PROVE NoLostWakeup'
  BY <1>12 DEF CancelSecondStore
<1>13. ASSUME NEW t \in Threads, CancelWake(t) PROVE NoLostWakeup'
  BY <1>13 DEF CancelWake
<1>14. ASSUME NEW t \in Threads, Signal(t) PROVE NoLostWakeup'
  BY <1>14 DEF Signal
<1>15. ASSUME NEW s \in Sources, RaiseIrq(s) PROVE NoLostWakeup'
  BY <1>15 DEF RaiseIrq
<1>16. ASSUME NEW c \in CPUs, IsrEnter(c) PROVE NoLostWakeup'
  BY <1>16 DEF IsrEnter
<1>17. CASE IsrRead
  BY <1>17 DEF IsrRead
<1>18. CASE IsrAck
  BY <1>18 DEF IsrAck
<1>19. CASE IsrLock
  BY <1>19 DEF IsrLock
<1>20. CASE IsrNotify
  BY <1>20 DEF IsrNotify
<1>21. CASE IsrWake
  BY <1>21 DEF IsrWake
<1>22. CASE UNCHANGED vars
  BY <1>22 DEF vars
<1>23. QED
  BY <1>1, <1>2, <1>3, <1>4, <1>5, <1>6, <1>7, <1>8, <1>9, <1>10, <1>11,
     <1>12, <1>13, <1>14, <1>15, <1>16, <1>17, <1>18, <1>19, <1>20, <1>21,
     <1>22
  DEF Next, ThreadNext, KernelStep, IsrNext, IsrStep

(* The ISR clears a status bit before, never after, it looks for a waiter.    *)
LEMMA IrqStep == TypeOK /\ NoLostIrq /\ [Next]_vars => NoLostIrq'
<1> SUFFICES ASSUME TypeOK /\ NoLostIrq, [Next]_vars
             PROVE  NoLostIrq'
  OBVIOUS
<1> USE ConstantsAssumption DEF NoLostIrq, TypeOK, WaitPcs, LockPcs, IsrPcs,
        At, CanRun, FreeCpus, Goto, SpinLockIrqSave, SpinUnlockIrqRestore,
        EndWait, Arm, Queued, Woken, FirstStores, WakeQueue, ctxVars,
        lockVars, callVars, isrVars, histVars
<1>1. ASSUME NEW t \in Threads, WaitCall(t) PROVE NoLostIrq'
  BY <1>1 DEF WaitCall
<1>2. ASSUME NEW t \in Threads, WaitRefuse(t) PROVE NoLostIrq'
  BY <1>2 DEF WaitRefuse
<1>3. ASSUME NEW t \in Threads, WaitRegister(t) PROVE NoLostIrq'
  BY <1>3 DEF WaitRegister
<1>4. ASSUME NEW t \in Threads, WaitCheck(t) PROVE NoLostIrq'
  BY <1>4 DEF WaitCheck
<1>5. ASSUME NEW t \in Threads, PrepareToWait(t) PROVE NoLostIrq'
  BY <1>5 DEF PrepareToWait
<1>6. ASSUME NEW t \in Threads, WaitCond(t) PROVE NoLostIrq'
  BY <1>6 DEF WaitCond
<1>7. ASSUME NEW t \in Threads, WakeUp(t) PROVE NoLostIrq'
  BY <1>7 DEF WakeUp
<1>8. ASSUME NEW t \in Threads, WaitReturn(t) PROVE NoLostIrq'
  BY <1>8 DEF WaitReturn
<1>9. ASSUME NEW t \in Threads, CancelCall(t) PROVE NoLostIrq'
  BY <1>9 DEF CancelCall
<1>10. ASSUME NEW t \in Threads, CancelRefuse(t) PROVE NoLostIrq'
  BY <1>10 DEF CancelRefuse
<1>11. ASSUME NEW t \in Threads, CancelFirstStore(t) PROVE NoLostIrq'
  BY <1>11 DEF CancelFirstStore
<1>12. ASSUME NEW t \in Threads, CancelSecondStore(t) PROVE NoLostIrq'
  BY <1>12 DEF CancelSecondStore
<1>13. ASSUME NEW t \in Threads, CancelWake(t) PROVE NoLostIrq'
  BY <1>13 DEF CancelWake
<1>14. ASSUME NEW t \in Threads, Signal(t) PROVE NoLostIrq'
  BY <1>14 DEF Signal
<1>15. ASSUME NEW s \in Sources, RaiseIrq(s) PROVE NoLostIrq'
  BY <1>15 DEF RaiseIrq
<1>16. ASSUME NEW c \in CPUs, IsrEnter(c) PROVE NoLostIrq'
  BY <1>16 DEF IsrEnter
<1>17. CASE IsrRead
  BY <1>17 DEF IsrRead
<1>18. CASE IsrAck
  BY <1>18 DEF IsrAck
<1>19. CASE IsrLock
  BY <1>19 DEF IsrLock
<1>20. CASE IsrNotify
  BY <1>20 DEF IsrNotify
<1>21. CASE IsrWake
  BY <1>21 DEF IsrWake
<1>22. CASE UNCHANGED vars
  BY <1>22 DEF vars
<1>23. QED
  BY <1>1, <1>2, <1>3, <1>4, <1>5, <1>6, <1>7, <1>8, <1>9, <1>10, <1>11,
     <1>12, <1>13, <1>14, <1>15, <1>16, <1>17, <1>18, <1>19, <1>20, <1>21,
     <1>22
  DEF Next, ThreadNext, KernelStep, IsrNext, IsrStep

(* A registration lasts until an interrupt or a cancellation ends it, and the *)
(* flags keep telling its thread how until the next registration.             *)
LEMMA SlotStep == TypeOK /\ LockInv /\ FlagInv /\ SlotInv /\ [Next]_vars => SlotInv'
<1> SUFFICES ASSUME TypeOK /\ LockInv /\ FlagInv /\ SlotInv, [Next]_vars
             PROVE  SlotInv'
  OBVIOUS
<1> USE ConstantsAssumption DEF SlotInv, WaiterInv, LeaverInv, CancelPcs,
        InWait, LockInv, FlagInv, EALREADY, ECANCELED, TypeOK, WaitPcs,
        LockPcs, IsrPcs, At, CanRun, FreeCpus, Goto, SpinLockIrqSave,
        SpinUnlockIrqRestore, EndWait, Arm, Queued, Woken, FirstStores,
        WakeQueue, ctxVars, lockVars, callVars, isrVars, histVars
<1>1. ASSUME NEW t \in Threads, WaitCall(t) PROVE SlotInv'
  BY <1>1 DEF WaitCall
<1>2. ASSUME NEW t \in Threads, WaitRefuse(t) PROVE SlotInv'
  BY <1>2 DEF WaitRefuse
<1>3. ASSUME NEW t \in Threads, WaitRegister(t) PROVE SlotInv'
  BY <1>3 DEF WaitRegister
<1>4. ASSUME NEW t \in Threads, WaitCheck(t) PROVE SlotInv'
  BY <1>4 DEF WaitCheck
<1>5. ASSUME NEW t \in Threads, PrepareToWait(t) PROVE SlotInv'
  BY <1>5 DEF PrepareToWait
<1>6. ASSUME NEW t \in Threads, WaitCond(t) PROVE SlotInv'
  BY <1>6 DEF WaitCond
<1>7. ASSUME NEW t \in Threads, WakeUp(t) PROVE SlotInv'
  BY <1>7 DEF WakeUp
<1>8. ASSUME NEW t \in Threads, WaitReturn(t) PROVE SlotInv'
  BY <1>8 DEF WaitReturn
<1>9. ASSUME NEW t \in Threads, CancelCall(t) PROVE SlotInv'
  BY <1>9 DEF CancelCall
<1>10. ASSUME NEW t \in Threads, CancelRefuse(t) PROVE SlotInv'
  BY <1>10 DEF CancelRefuse
<1>11. ASSUME NEW t \in Threads, CancelFirstStore(t) PROVE SlotInv'
  BY <1>11 DEF CancelFirstStore
<1>12. ASSUME NEW t \in Threads, CancelSecondStore(t) PROVE SlotInv'
  BY <1>12 DEF CancelSecondStore
<1>13. ASSUME NEW t \in Threads, CancelWake(t) PROVE SlotInv'
  BY <1>13 DEF CancelWake
<1>14. ASSUME NEW t \in Threads, Signal(t) PROVE SlotInv'
  BY <1>14 DEF Signal
<1>15. ASSUME NEW s \in Sources, RaiseIrq(s) PROVE SlotInv'
  BY <1>15 DEF RaiseIrq
<1>16. ASSUME NEW c \in CPUs, IsrEnter(c) PROVE SlotInv'
  BY <1>16 DEF IsrEnter
<1>17. CASE IsrRead
  BY <1>17 DEF IsrRead
<1>18. CASE IsrAck
  BY <1>18 DEF IsrAck
<1>19. CASE IsrLock
  BY <1>19 DEF IsrLock
<1>20. CASE IsrNotify
  BY <1>20 DEF IsrNotify
<1>21. CASE IsrWake
  BY <1>21 DEF IsrWake
<1>22. CASE UNCHANGED vars
  BY <1>22 DEF vars
<1>23. QED
  BY <1>1, <1>2, <1>3, <1>4, <1>5, <1>6, <1>7, <1>8, <1>9, <1>10, <1>11,
     <1>12, <1>13, <1>14, <1>15, <1>16, <1>17, <1>18, <1>19, <1>20, <1>21,
     <1>22
  DEF Next, ThreadNext, KernelStep, IsrNext, IsrStep

(* IRQ_WAIT returns what the flags say, and nothing rewrites it afterwards.   *)
LEMMA OutcomeStep == IInv /\ [Next]_vars => (IrqReported /\ SuccessMeansIrq)'
<1> SUFFICES ASSUME IInv, [Next]_vars
             PROVE  (IrqReported /\ SuccessMeansIrq)'
  OBVIOUS
<1> USE ConstantsAssumption DEF IInv, IrqReported, SuccessMeansIrq,
        Undisturbed, SlotInv, WaiterInv, LeaverInv, CancelPcs, InWait,
        LockInv, FlagInv, EALREADY, ECANCELED, TypeOK, WaitPcs, LockPcs,
        IsrPcs, At, CanRun, FreeCpus, Goto, SpinLockIrqSave,
        SpinUnlockIrqRestore, EndWait, Arm, Queued, Woken, FirstStores,
        WakeQueue, ctxVars, lockVars, callVars, isrVars, histVars
<1>1. ASSUME NEW t \in Threads, WaitCall(t) PROVE (IrqReported /\ SuccessMeansIrq)'
  BY <1>1 DEF WaitCall
<1>2. ASSUME NEW t \in Threads, WaitRefuse(t) PROVE (IrqReported /\ SuccessMeansIrq)'
  BY <1>2 DEF WaitRefuse
<1>3. ASSUME NEW t \in Threads, WaitRegister(t) PROVE (IrqReported /\ SuccessMeansIrq)'
  BY <1>3 DEF WaitRegister
<1>4. ASSUME NEW t \in Threads, WaitCheck(t) PROVE (IrqReported /\ SuccessMeansIrq)'
  BY <1>4 DEF WaitCheck
<1>5. ASSUME NEW t \in Threads, PrepareToWait(t) PROVE (IrqReported /\ SuccessMeansIrq)'
  BY <1>5 DEF PrepareToWait
<1>6. ASSUME NEW t \in Threads, WaitCond(t) PROVE (IrqReported /\ SuccessMeansIrq)'
  BY <1>6 DEF WaitCond
<1>7. ASSUME NEW t \in Threads, WakeUp(t) PROVE (IrqReported /\ SuccessMeansIrq)'
  BY <1>7 DEF WakeUp
<1>8. ASSUME NEW t \in Threads, WaitReturn(t) PROVE (IrqReported /\ SuccessMeansIrq)'
  BY <1>8 DEF WaitReturn
<1>9. ASSUME NEW t \in Threads, CancelCall(t) PROVE (IrqReported /\ SuccessMeansIrq)'
  BY <1>9 DEF CancelCall
<1>10. ASSUME NEW t \in Threads, CancelRefuse(t) PROVE (IrqReported /\ SuccessMeansIrq)'
  BY <1>10 DEF CancelRefuse
<1>11. ASSUME NEW t \in Threads, CancelFirstStore(t) PROVE (IrqReported /\ SuccessMeansIrq)'
  BY <1>11 DEF CancelFirstStore
<1>12. ASSUME NEW t \in Threads, CancelSecondStore(t) PROVE (IrqReported /\ SuccessMeansIrq)'
  BY <1>12 DEF CancelSecondStore
<1>13. ASSUME NEW t \in Threads, CancelWake(t) PROVE (IrqReported /\ SuccessMeansIrq)'
  BY <1>13 DEF CancelWake
<1>14. ASSUME NEW t \in Threads, Signal(t) PROVE (IrqReported /\ SuccessMeansIrq)'
  BY <1>14 DEF Signal
<1>15. ASSUME NEW s \in Sources, RaiseIrq(s) PROVE (IrqReported /\ SuccessMeansIrq)'
  BY <1>15 DEF RaiseIrq
<1>16. ASSUME NEW c \in CPUs, IsrEnter(c) PROVE (IrqReported /\ SuccessMeansIrq)'
  BY <1>16 DEF IsrEnter
<1>17. CASE IsrRead
  BY <1>17 DEF IsrRead
<1>18. CASE IsrAck
  BY <1>18 DEF IsrAck
<1>19. CASE IsrLock
  BY <1>19 DEF IsrLock
<1>20. CASE IsrNotify
  BY <1>20 DEF IsrNotify
<1>21. CASE IsrWake
  BY <1>21 DEF IsrWake
<1>22. CASE UNCHANGED vars
  BY <1>22 DEF vars
<1>23. QED
  BY <1>1, <1>2, <1>3, <1>4, <1>5, <1>6, <1>7, <1>8, <1>9, <1>10, <1>11,
     <1>12, <1>13, <1>14, <1>15, <1>16, <1>17, <1>18, <1>19, <1>20, <1>21,
     <1>22
  DEF Next, ThreadNext, KernelStep, IsrNext, IsrStep

(* kzalloc zeroes the context, and no thread is in an ioctl: all parts of the *)
(* inductive invariant hold at the start.                                     *)
LEMMA InitInv == Init => IInv
<1> SUFFICES ASSUME Init PROVE IInv
  OBVIOUS
<1> USE ConstantsAssumption DEF Init
<1>1. TypeOK
  BY DEF TypeOK, WaitPcs, LockPcs, IsrPcs
<1>2. LockInv
  BY DEF LockInv, LockPcs
<1>3. FlagInv
  BY DEF FlagInv
<1>4. SlotInv
  BY DEF SlotInv, LeaverInv, CancelPcs, InWait, WaitPcs
<1>5. NoLostWakeup /\ NoLostIrq
  BY DEF NoLostWakeup, NoLostIrq
<1>6. IrqReported /\ SuccessMeansIrq
  BY DEF IrqReported, SuccessMeansIrq, Undisturbed
<1>7. QED
  BY <1>1, <1>2, <1>3, <1>4, <1>5, <1>6 DEF IInv

(* Every step preserves all of them.                                          *)
LEMMA InvStep == IInv /\ [Next]_vars => IInv'
  BY TypeStep, LockStep, FlagStep, SlotStep, WakeupStep, IrqStep, OutcomeStep
  DEF IInv

(* IInv is an invariant of the two ioctls, the ISR, the card and the signals. *)
THEOREM Inductive == Spec => []IInv
  BY InvStep, InitInv, PTL DEF Spec

(* The fields of the device context, the program counters and the lock always *)
(* have their types.                                                          *)
THEOREM TypeCorrect == Spec => []TypeOK
<1>1. IInv => TypeOK
  BY DEF IInv
<1>2. QED
  BY <1>1, Inductive, PTL

(* The ISR never spins for irq_lock on the CPU of the thread that holds it,   *)
(* because spin_lock_irqsave keeps the ISR off that CPU.                      *)
THEOREM SelfDeadlockFree == Spec => []NoSelfDeadlock
<1>1. IInv => NoSelfDeadlock
  BY ConstantsAssumption DEF IInv, TypeOK, LockInv, NoSelfDeadlock
<1>2. QED
  BY <1>1, Inductive, PTL

(* No wakeup is lost, whatever the number of waiters and cancellers: a thread *)
(* asleep with waiting_for_irq clear has a wake_up_interruptible ahead.       *)
THEOREM WakeupNotLost == Spec => []NoLostWakeup
<1>1. IInv => NoLostWakeup
  BY DEF IInv
<1>2. QED
  BY <1>1, Inductive, PTL

(* A set waiting_for_irq belongs to a thread that is inside IRQ_WAIT, or that *)
(* a signal can have taken out of it.                                         *)
THEOREM SlotHasOwner == Spec => []SlotOwned
<1>1. IInv => SlotOwned
  BY DEF IInv, TypeOK, FlagInv, SlotInv, LeaverInv, SlotOwned
<1>2. QED
  BY <1>1, Inductive, PTL

(* An undisturbed IRQ_WAIT that an interrupt ended never returns -ECANCELED,  *)
(* whatever the order of the stores of WAIT_CANCEL.                           *)
THEOREM OutcomeTrue == Spec => []IrqReported
<1>1. IInv => IrqReported
  BY DEF IInv
<1>2. QED
  BY <1>1, Inductive, PTL

(* With those stores in program order an undisturbed IRQ_WAIT returns 0 only  *)
(* for an interrupt: never for a cancellation, which any number of other      *)
(* threads may issue.                                                         *)
THEOREM SuccessTrue == Spec => []SuccessMeansIrq
<1>1. IInv => SuccessMeansIrq
  BY DEF IInv
<1>2. QED
  BY <1>1, Inductive, PTL

(* An interrupt raised during a registered wait is still latched or in the    *)
(* hands of an ISR that will notify, as long as the wait is not over.         *)
THEOREM InterruptNotLost == Spec => []NoLostIrq
<1>1. IInv => NoLostIrq
  BY DEF IInv
<1>2. QED
  BY <1>1, Inductive, PTL

=============================================================================
