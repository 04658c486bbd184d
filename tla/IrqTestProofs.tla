--------------------------- MODULE IrqTestProofs ---------------------------
(***************************************************************************)
(* Proofs about IrqTest: what the test program learns from WaitForIRQ and  *)
(* AbortRequest, for any number of rounds, CPUs and interrupt sources and  *)
(* for both orders of the two stores of WAIT_CANCEL.                       *)
(*                                                                         *)
(* Every step of the program is a step of IrqWait, so the inductive        *)
(* invariant of IrqWait holds throughout.  On top of it TestInv ties the   *)
(* places of the two threads to the one wait the program makes.            *)
(***************************************************************************)
EXTENDS IrqTest, IrqWaitProofs

(* The test program only calls the two ioctls and makes the card interrupt:   *)
(* each of its steps is a step of IrqWait or leaves the driver alone.         *)
LEMMA TestStepsAreSteps == [TestNext]_allVars => [Next]_vars
<1> SUFFICES ASSUME [TestNext]_allVars PROVE [Next]_vars
  OBVIOUS
<1> USE TestAssumption
<1>1. ASSUME NEW t \in Threads, WaitCall(t) \/ CancelCall(t) \/ KernelStep(t) PROVE Next
  BY <1>1 DEF Next, ThreadNext
<1>2. CASE MainThread
  BY <1>1, <1>2 DEF MainThread, InDriver, MainSetUp, MainWait, MainReturn, MainJoin
<1>3. CASE GenThread
  <2>1. ASSUME NEW s \in Sources, RaiseIrq(s) PROVE Next
    BY <2>1 DEF Next
  <2>2. QED
    BY <1>1, <1>3, <2>1 DEF GenThread, InDriver, GenRound, GenAbort, GenReturn
<1>4. CASE IsrNext
  BY <1>4 DEF Next
<1>5. CASE AnyProgram
  BY <1>5 DEF AnyProgram
<1>6. CASE UNCHANGED allVars
  BY <1>6 DEF allVars
<1>7. QED
  BY <1>2, <1>3, <1>4, <1>5, <1>6 DEF TestNext

-----------------------------------------------------------------------------
(* What the invariant of IrqWait says about the wait of main while no one    *)
(* else waits: waiting_for_irq is set exactly while main is registered, and  *)
(* main leaves wait_event_interruptible only after the wait was ended.       *)
WaitFacts ==
  /\ waiting_for_irq \in {0, 1}
  /\ waiting_for_irq = 1 => owner = Main /\ InWait(Main) /\ ended[Main] = "none"
  /\ waiting_for_irq = 0 => owner = None
  /\ InWait(Main) => call[Main] = "wait"
  /\ pc[Main] = "w_crit" => call[Main] = "wait"
  /\ pc[Main] = "w_ret" => ended[Main] # "none"
  /\ pc[Gen] = "c_store" => waiting_for_irq = 1

TypeFacts ==
  /\ pc \in [Threads -> {"user", "c_wake"} \cup LockPcs \cup WaitPcs]
  /\ call \in [Threads -> {"none", "wait", "cancel"}]
  /\ status \in [Threads -> {0, -EALREADY, -ECANCELED}]
  /\ ended \in [Threads -> {"none", "irq", "cancel"}]

TestParts == MainInv /\ GenInv /\ AloneInv

(* The facts follow from the two invariants.                                  *)
LEMMA TestFacts == IInv /\ AloneInv => WaitFacts /\ TypeFacts
<1> SUFFICES ASSUME IInv, AloneInv PROVE WaitFacts /\ TypeFacts
  OBVIOUS
<1> USE TestAssumption, ConstantsAssumption
<1>1. TypeFacts /\ waiting_for_irq \in {0, 1}
  BY DEF IInv, TypeOK, TypeFacts
<1>2. (waiting_for_irq = 1 <=> owner \in Threads) /\ (pc[Gen] = "c_store" => waiting_for_irq = 1)
  BY DEF IInv, FlagInv
<1>3. InWait(Main) => WaiterInv(Main)
  BY DEF IInv, SlotInv
<1>4. ~InWait(Main) => LeaverInv(Main)
  BY DEF IInv, SlotInv
<1>5. sig = {} /\ owner \in {None, Main} /\ (owner = Main => InWait(Main))
  BY DEF AloneInv
<1>6. QED
  BY <1>1, <1>2, <1>3, <1>4, <1>5 DEF WaitFacts, WaiterInv, LeaverInv, InWait, WaitPcs

(* main calls WaitForIRQ.                                                     *)
LEMMA MainWaitStep ==
  ASSUME TypeFacts, WaitFacts, TestParts, MainWait PROVE TestParts'
<1> USE TestAssumption, ConstantsAssumption
<1> USE DEF MainWait, WaitCall, Goto, TestParts, TypeFacts, WaitFacts, WaitPcs, InWait, ctxVars
<1>1. MainInv'
  BY DEF MainInv
<1>2. GenInv'
  BY DEF GenInv, Aborted, MainInv, callVars
<1>3. AloneInv'
  BY DEF AloneInv, MainInv
<1>4. QED
  BY <1>1, <1>2, <1>3

(* GenIrq calls AbortRequest.                                                 *)
LEMMA GenAbortStep ==
  ASSUME TypeFacts, WaitFacts, TestParts, GenAbort PROVE TestParts'
<1> USE TestAssumption, ConstantsAssumption
<1> USE DEF GenAbort, CancelCall, Goto, TestParts, TypeFacts, WaitPcs, InWait, ctxVars,
        histVars
<1>1. MainInv'
  BY DEF MainInv, Waited, GenInv
<1>2. GenInv'
  BY DEF GenInv
<1>3. AloneInv'
  BY DEF AloneInv
<1>4. QED
  BY <1>1, <1>2, <1>3

(* A step of main inside IRQ_WAIT: it is never refused, since only its own    *)
(* wait is ever registered, and it returns only once that wait was ended.     *)
LEMMA MainDriverStep ==
  ASSUME TypeFacts, WaitFacts, TestParts, KernelStep(Main), UNCHANGED testVars
  PROVE  TestParts'
<1> USE TestAssumption, ConstantsAssumption
<1> USE DEF At, Goto, TestParts, TypeFacts, WaitFacts, WaitPcs, LockPcs, InWait, ctxVars,
        callVars, histVars, isrVars, testVars, Queued, Woken, EALREADY, ECANCELED
<1>1. CASE WaitRefuse(Main)
  <2>1. FALSE
    BY <1>1 DEF WaitRefuse
  <2>2. QED
    BY <2>1
<1>2. CASE WaitRegister(Main)
  <2>1. MainInv'
    BY <1>2 DEF WaitRegister, Arm, MainInv, Waited
  <2>2. GenInv'
    BY <1>2 DEF WaitRegister, GenInv, Aborted
  <2>3. AloneInv'
    BY <1>2 DEF WaitRegister, AloneInv, GenInv, Aborted
  <2>4. QED
    BY <2>1, <2>2, <2>3
<1>3. CASE WaitCheck(Main) \/ PrepareToWait(Main) \/ WaitCond(Main) \/ WakeUp(Main)
  <2>1. MainInv'
    BY <1>3 DEF WaitCheck, PrepareToWait, WaitCond, WakeUp, MainInv, Waited, AloneInv
  <2>2. GenInv'
    BY <1>3 DEF WaitCheck, PrepareToWait, WaitCond, WakeUp, GenInv, Aborted
  <2>3. AloneInv'
    BY <1>3 DEF WaitCheck, PrepareToWait, WaitCond, WakeUp, AloneInv
  <2>4. QED
    BY <2>1, <2>2, <2>3
<1>4. CASE WaitReturn(Main)
  <2>1. MainInv'
    BY <1>4 DEF WaitReturn, MainInv, Waited
  <2>2. GenInv'
    BY <1>4 DEF WaitReturn, GenInv, Aborted
  <2>3. AloneInv'
    BY <1>4 DEF WaitReturn, AloneInv
  <2>4. QED
    BY <2>1, <2>2, <2>3
<1>5. ~ (CancelRefuse(Main) \/ CancelFirstStore(Main) \/ CancelSecondStore(Main)
           \/ CancelWake(Main))
  BY DEF CancelRefuse, CancelFirstStore, CancelSecondStore, CancelWake, MainInv, Waited
<1>6. QED
  BY <1>1, <1>2, <1>3, <1>4, <1>5 DEF KernelStep

(* A step of GenIrq inside WAIT_CANCEL: it is refused only while no wait is   *)
(* registered, and otherwise the wait it ends is that of main.                *)
LEMMA GenDriverStep ==
  ASSUME TypeFacts, WaitFacts, TestParts, KernelStep(Gen), UNCHANGED testVars
  PROVE  TestParts'
<1> USE TestAssumption, ConstantsAssumption
<1> USE DEF At, Goto, TestParts, TypeFacts, WaitFacts, WaitPcs, LockPcs, InWait, ctxVars,
        callVars, histVars, isrVars, testVars, EndWait, EALREADY, ECANCELED
<1>1. CASE CancelRefuse(Gen)
  <2>1. MainInv'
    BY <1>1 DEF CancelRefuse, MainInv, Waited
  <2>2. GenInv'
    BY <1>1 DEF CancelRefuse, GenInv, Aborted
  <2>3. AloneInv'
    BY <1>1 DEF CancelRefuse, AloneInv
  <2>4. QED
    BY <2>1, <2>2, <2>3
<1>2. CASE CancelFirstStore(Gen)
  <2>1. MainInv'
    BY <1>2 DEF CancelFirstStore, MainInv, Waited
  <2>2. GenInv'
    BY <1>2 DEF CancelFirstStore, GenInv, Aborted
  <2>3. AloneInv'
    BY <1>2 DEF CancelFirstStore, AloneInv
  <2>4. QED
    BY <2>1, <2>2, <2>3
<1>3. CASE CancelSecondStore(Gen)
  <2>1. MainInv'
    BY <1>3 DEF CancelSecondStore, MainInv, Waited
  <2>2. GenInv'
    BY <1>3 DEF CancelSecondStore, GenInv, Aborted
  <2>3. AloneInv'
    BY <1>3 DEF CancelSecondStore, AloneInv
  <2>4. QED
    BY <2>1, <2>2, <2>3
<1>4. CASE CancelWake(Gen)
  <2>1. MainInv'
    BY <1>4 DEF CancelWake, MainInv, Waited
  <2>2. GenInv'
    BY <1>4 DEF CancelWake, GenInv, Aborted
  <2>3. AloneInv'
    BY <1>4 DEF CancelWake, AloneInv
  <2>4. QED
    BY <2>1, <2>2, <2>3
<1>5. ~ (WaitRefuse(Gen) \/ WaitRegister(Gen) \/ WaitCheck(Gen) \/ PrepareToWait(Gen)
           \/ WaitCond(Gen) \/ WakeUp(Gen) \/ WaitReturn(Gen))
  BY DEF WaitRefuse, WaitRegister, WaitCheck, PrepareToWait, WaitCond, WakeUp, WaitReturn,
         GenInv, Aborted
<1>6. QED
  BY <1>1, <1>2, <1>3, <1>4, <1>5 DEF KernelStep

(* A step of the ISR: the wait it ends is that of main, and not while GenIrq  *)
(* is between the two stores of WAIT_CANCEL.                                  *)
LEMMA IsrDriverStep ==
  ASSUME TypeFacts, WaitFacts, LockInv, TestParts, IsrNext, UNCHANGED testVars
  PROVE  TestParts'
<1> USE TestAssumption, ConstantsAssumption
<1> USE DEF TestParts, TypeFacts, WaitFacts, WaitPcs, InWait, ctxVars, callVars, histVars,
        lockVars, isrVars, testVars
<1>1. CASE IsrNotify /\ waiting_for_irq # 0
  <2>1. pc[Gen] \notin LockPcs
    BY <1>1 DEF LockInv, IsrNotify
  <2>2. ended' = [ended EXCEPT ![Main] = "irq"] /\ owner' = None
    BY <1>1 DEF IsrNotify, EndWait
  <2>3. MainInv'
    BY <1>1, <2>2 DEF IsrNotify, MainInv, Waited
  <2>4. GenInv'
    BY <1>1, <2>1, <2>2 DEF IsrNotify, GenInv, Aborted, LockPcs
  <2>5. AloneInv'
    BY <1>1, <2>2 DEF IsrNotify, AloneInv
  <2>6. QED
    BY <2>3, <2>4, <2>5
<1>2. CASE ~ (IsrNotify /\ waiting_for_irq # 0)
  <2>1. UNCHANGED <<pc, call, status, sig, owner, ended, overtaken>>
    BY <1>2 DEF IsrNext, IsrEnter, IsrLock, IsrStep, IsrRead, IsrAck, IsrNotify, IsrWake
  <2>2. QED
    BY <2>1 DEF MainInv, GenInv, AloneInv, Waited, Aborted
<1>3. QED
  BY <1>1, <1>2

-----------------------------------------------------------------------------
(* TestInv is inductive relative to the invariant of IrqWait.                 *)
LEMMA TestInvStep == IInv /\ TestInv /\ [TestNext]_allVars => TestInv'
<1> SUFFICES ASSUME IInv, TestInv, [TestNext]_allVars PROVE TestInv'
  OBVIOUS
<1>1. UNCHANGED program
  BY DEF TestNext, MainThread, GenThread, InDriver, Running, AnyProgram, testVars, allVars
<1>2. CASE program = "test"
  <2>1. TestParts
    BY <1>2 DEF TestInv, TestParts
  <2>2. WaitFacts /\ TypeFacts /\ LockInv
    BY <2>1, TestFacts DEF TestParts, IInv
  <2>3. ASSUME MainSetUp PROVE TestParts'
    BY <2>1, <2>3 DEF MainSetUp, vars, TestParts, MainInv, GenInv, AloneInv, Waited, Aborted,
       InWait
  <2>4. ASSUME MainReturn PROVE TestParts'
    BY <2>1, <2>4 DEF MainReturn, vars, TestParts, MainInv, GenInv, AloneInv, Waited, Aborted,
       InWait, WaitPcs
  <2>5. ASSUME MainJoin PROVE TestParts'
    BY <2>1, <2>5 DEF MainJoin, vars, TestParts, MainInv, GenInv, AloneInv, Waited, Aborted,
       InWait
  <2>6. ASSUME GenRound PROVE TestParts'
    <3>1. UNCHANGED <<pc, call, status, sig, owner, ended, overtaken>>
      BY <2>6 DEF GenRound, RaiseIrq, vars, callVars
    <3>2. QED
      BY <2>1, <2>6, <3>1 DEF GenRound, TestParts, MainInv, GenInv, AloneInv, Waited, Aborted,
         InWait
  <2>7. ASSUME GenReturn PROVE TestParts'
    BY <2>1, <2>7 DEF GenReturn, vars, TestParts, MainInv, GenInv, AloneInv, Waited, Aborted,
       InWait
  <2>8. ASSUME UNCHANGED allVars PROVE TestParts'
    BY <2>1, <2>8 DEF allVars, vars, testVars, TestParts, MainInv, GenInv, AloneInv, Waited,
       Aborted, InWait
  <2>9. TestParts'
    BY <1>2, <2>1, <2>2, <2>3, <2>4, <2>5, <2>6, <2>7, <2>8, MainWaitStep, GenAbortStep,
       MainDriverStep, GenDriverStep, IsrDriverStep
    DEF TestNext, MainThread, GenThread, InDriver, AnyProgram
  <2>10. QED
    BY <1>1, <1>2, <2>9 DEF TestInv, TestParts
<1>3. CASE program # "test"
  BY <1>1, <1>3 DEF TestInv, TestNext, MainThread, GenThread, InDriver, Running, AnyProgram,
     testVars, allVars
<1>4. QED
  BY <1>2, <1>3

(* The program starts outside the driver, with no wait made.                  *)
LEMMA TestInitInv == TestInit => IInv /\ TestInv
<1> SUFFICES ASSUME TestInit PROVE TestInv
  BY InitInv DEF TestInit
<1> USE TestAssumption, ConstantsAssumption DEF TestInit, Init
<1>1. MainInv /\ GenInv
  BY DEF MainInv, GenInv
<1>2. AloneInv
  BY DEF AloneInv
<1>3. QED
  BY <1>1, <1>2 DEF TestInv

(* Both invariants hold throughout the program.                               *)
THEOREM TestInvariant == TestSpec => [](IInv /\ TestInv)
<1>1. IInv /\ TestInv /\ [TestNext]_allVars => (IInv /\ TestInv)'
  BY InvStep, TestInvStep, TestStepsAreSteps
<1>2. QED
  BY <1>1, TestInitInv, PTL DEF TestSpec

(* Once both threads are through, the result of AbortRequest says whether it  *)
(* or an interrupt ended the wait of main, and WaitForIRQ reports success for *)
(* a wait that an interrupt ended, whenever the cancellation came.            *)
THEOREM TestAbortTells == TestSpec => []AbortTells
<1>1. IInv /\ TestInv => AbortTells
  <2> SUFFICES ASSUME IInv, TestInv, main \in {"join", "done"}, gen = "done"
               PROVE  \/ ended[Main] = "irq" /\ LibStatus(Main) = 0 /\ LibStatus(Gen) = -1
                      \/ ended[Main] = "cancel" /\ LibStatus(Gen) = 0
    BY DEF AbortTells
  <2> USE TestAssumption
  <2>1. Waited /\ Aborted /\ sig = {} /\ overtaken = {}
    BY DEF TestInv, MainInv, GenInv, AloneInv
  <2>2. TypeFacts
    BY DEF IInv, TypeOK, TypeFacts
  <2>3. ended[Main] = "irq" => status[Main] # -ECANCELED
    BY <2>1 DEF IInv, IrqReported, Undisturbed, Waited
  <2>4. QED
    BY <2>1, <2>2, <2>3 DEF TypeFacts, Waited, Aborted, LibStatus, Ioctl, EALREADY, ECANCELED
<1>2. QED
  BY <1>1, TestInvariant, PTL
=============================================================================
