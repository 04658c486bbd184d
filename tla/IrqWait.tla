------------------------------ MODULE IrqWait ------------------------------
(***************************************************************************)
(* The interrupt-wait protocol of one card, src/module/accesio_pci.c.      *)
(*                                                                         *)
(* User threads issue the ioctls IRQ_WAIT and IRQ_WAIT_CANCEL on the card; *)
(* the ISR interrupt_adio16f_style acknowledges the card and notifies a    *)
(* registered waiter.  They share waiting_for_irq and irq_cancelled, the   *)
(* spinlock irq_lock and the kernel wait queue.  The spinlock, the wait    *)
(* queue macro wait_event_interruptible and the delivery of interrupts and *)
(* signals belong to the kernel and are modelled from how the driver uses  *)
(* them.                                                                   *)
(*                                                                         *)
(* An operator whose name contains Bug is a faulty variant of the          *)
(* definition after it; the specification never uses it.  A property that  *)
(* such a variant breaks is a property the code really has to work for.    *)
(***************************************************************************)
EXTENDS Integers

CONSTANTS
  Threads,          \* user threads that hold the device node open
  CPUs,             \* processors: a thread or the ISR runs on one of them
  Sources,          \* the status bits selected by ADIO16F_INTERRUPT_MASK
  Interruptible,    \* threads that may receive a signal while they wait
  StoresReordered,  \* the build may swap the two plain stores of WAIT_CANCEL
  Isr,              \* the ISR as a holder of irq_lock
  None              \* no thread, no holder, no CPU

ASSUME ConstantsAssumption ==
  /\ Interruptible \subseteq Threads
  /\ StoresReordered \in BOOLEAN
  /\ Isr \notin Threads
  /\ None \notin Threads \cup CPUs \cup {Isr}

(* errno values the two ioctls return, negated. *)
EALREADY  == 114
ECANCELED == 125

VARIABLES
  \* struct accesio_pci_device_context
  waiting_for_irq,  \* 1 while a wait is registered
  irq_cancelled,    \* 1 when the last wait was ended by WAIT_CANCEL
  irq_lock,         \* holder of the spinlock: a thread, Isr or None
  wait_queue,       \* threads queued and not yet woken
  \* processors
  lock_cpu,         \* the CPU of the thread that holds irq_lock, else None
  irqs_off,         \* CPUs whose local interrupts are disabled
  \* threads
  pc,               \* where each thread is
  call,             \* its last ioctl
  status,           \* what that ioctl returned (meaningful at "user")
  sig,              \* threads with a pending signal
  \* card and ISR
  irq_status,       \* latched status bits of register 0x40, masked
  isr,              \* where the ISR is
  isr_cpu,          \* the CPU it runs on, or None
  isr_snap,         \* its local irq_status & ADIO16F_INTERRUPT_MASK
  \* history: nothing above depends on these
  owner,            \* the thread whose registration waiting_for_irq stands for
  ended,            \* how the last registration of each thread was ended
  overtaken,        \* threads that saw a later registration before returning
  fired             \* the card raised an interrupt since the registration

ctxVars   == <<waiting_for_irq, irq_cancelled>>
lockVars  == <<irq_lock, lock_cpu, irqs_off>>
callVars  == <<call, status>>
isrVars   == <<isr, isr_cpu, isr_snap>>
histVars  == <<owner, ended, overtaken, fired>>
vars == <<waiting_for_irq, irq_cancelled, irq_lock, wait_queue, lock_cpu,
          irqs_off, pc, call, status, sig, irq_status, isr, isr_cpu, isr_snap,
          owner, ended, overtaken, fired>>

(* Between a registration and the return of IRQ_WAIT. *)
WaitPcs == {"w_check", "w_prep", "w_cond", "w_sleep", "w_ret"}
(* Inside a section guarded by irq_lock. *)
LockPcs == {"w_crit", "c_crit", "c_store", "c_store_swapped"}
IsrPcs  == {"off", "read", "ack", "lock", "crit", "wake"}

InWait(t) == pc[t] \in WaitPcs

(* CPUs on which a thread other than the lock holder can run. *)
FreeCpus == CPUs \ {isr_cpu, lock_cpu}

(* A lock holder runs on its CPU unless the ISR has interrupted it there. *)
CanRun(t) == IF irq_lock = t THEN lock_cpu # isr_cpu ELSE FreeCpus # {}

At(t, p) == pc[t] = p /\ CanRun(t)
Goto(t, p) == pc' = [pc EXCEPT ![t] = p]

-----------------------------------------------------------------------------
(* The spinlock as the ioctls use it. *)

(* spin_lock in place of spin_lock_irqsave. *)
SpinLockBugIrqsOn(t, c) ==
  /\ irq_lock = None
  /\ irq_lock' = t
  /\ lock_cpu' = c
  /\ UNCHANGED irqs_off

SpinLockIrqSave(t, c) ==
  /\ irq_lock = None
  /\ irq_lock' = t
  /\ lock_cpu' = c
  /\ irqs_off' = irqs_off \cup {c}

SpinUnlockIrqRestore(t) ==
  /\ irq_lock' = None
  /\ lock_cpu' = None
  /\ irqs_off' = irqs_off \ {lock_cpu}

(* waiting_for_irq = 0, with the history of what ended the wait. *)
EndWait(how) ==
  /\ waiting_for_irq' = 0
  /\ owner' = None
  /\ ended' = [ended EXCEPT ![owner] = how]

-----------------------------------------------------------------------------
(* ioctl_ACCESIO_PCI_IRQ_WAIT *)

WaitCall(t) ==
  /\ pc[t] = "user"
  /\ \E c \in FreeCpus : SpinLockIrqSave(t, c)
  /\ Goto(t, "w_crit")
  /\ call' = [call EXCEPT ![t] = "wait"]
  /\ sig' = sig \ {t}
  /\ ended' = [ended EXCEPT ![t] = "none"]
  /\ overtaken' = overtaken \ {t}
  /\ UNCHANGED <<ctxVars, wait_queue, status, irq_status, isrVars, owner, fired>>

WaitRefuse(t) ==
  /\ At(t, "w_crit")
  /\ waiting_for_irq = 1
  /\ SpinUnlockIrqRestore(t)
  /\ Goto(t, "user")
  /\ status' = [status EXCEPT ![t] = -EALREADY]
  /\ UNCHANGED <<ctxVars, wait_queue, call, sig, irq_status, isrVars, histVars>>

(* Only lock holders write the two flags and the stores of a registration   *)
(* differ for no reader, so they are one step.                              *)
ArmBugCounts == waiting_for_irq' = waiting_for_irq + 1 /\ irq_cancelled' = 0
ArmBugStale ==
  waiting_for_irq # 1 /\ waiting_for_irq' = 1 /\ UNCHANGED irq_cancelled
Arm == waiting_for_irq # 1 /\ waiting_for_irq' = 1 /\ irq_cancelled' = 0

WaitRegister(t) ==
  /\ At(t, "w_crit")
  /\ Arm
  /\ SpinUnlockIrqRestore(t)
  /\ Goto(t, "w_check")
  /\ owner' = t
  /\ overtaken' = overtaken \cup {v \in Threads : InWait(v)}
  /\ fired' = FALSE
  /\ UNCHANGED <<wait_queue, callVars, sig, irq_status, isrVars, ended>>

(* wait_event_interruptible: once queued it tests the condition again, and   *)
(* so it does after every wakeup.                                            *)
QueuedBugNoTest == "w_sleep"
Queued == "w_cond"

WokenBugNoLoop == "w_ret"
Woken == "w_prep"

(* The test before anything is queued. *)
WaitCheck(t) ==
  /\ At(t, "w_check")
  /\ Goto(t, IF waiting_for_irq = 0 THEN "w_ret" ELSE "w_prep")
  /\ UNCHANGED <<ctxVars, lockVars, wait_queue, callVars, sig, irq_status,
                 isrVars, histVars>>

(* prepare_to_wait_event: queue the thread, or with a signal pending leave   *)
(* the queue; the driver ignores the -ERESTARTSYS this ends in.              *)
PrepareToWait(t) ==
  /\ At(t, "w_prep")
  /\ \/ /\ t \notin sig
        /\ wait_queue' = wait_queue \cup {t}
        /\ Goto(t, Queued)
     \/ /\ t \in sig
        /\ wait_queue' = wait_queue \ {t}
        /\ Goto(t, "w_ret")
  /\ UNCHANGED <<ctxVars, lockVars, callVars, sig, irq_status, isrVars, histVars>>

(* The test after queueing: finish_wait, or schedule(). *)
WaitCond(t) ==
  /\ At(t, "w_cond")
  /\ \/ /\ waiting_for_irq = 0
        /\ wait_queue' = wait_queue \ {t}
        /\ Goto(t, "w_ret")
     \/ /\ waiting_for_irq # 0
        /\ Goto(t, "w_sleep")
        /\ UNCHANGED wait_queue
  /\ UNCHANGED <<ctxVars, lockVars, callVars, sig, irq_status, isrVars, histVars>>

(* schedule() returns once the thread was woken or has a signal pending. *)
WakeUp(t) ==
  /\ At(t, "w_sleep")
  /\ t \notin wait_queue \/ t \in sig
  /\ Goto(t, Woken)
  /\ UNCHANGED <<ctxVars, lockVars, wait_queue, callVars, sig, irq_status,
                 isrVars, histVars>>

(* irq_cancelled is read after the wait, without the lock. *)
WaitReturn(t) ==
  /\ At(t, "w_ret")
  /\ Goto(t, "user")
  /\ status' = [status EXCEPT ![t] = IF irq_cancelled = 1 THEN -ECANCELED ELSE 0]
  /\ UNCHANGED <<ctxVars, lockVars, wait_queue, call, sig, irq_status,
                 isrVars, histVars>>

-----------------------------------------------------------------------------
(* ioctl_ACCESIO_PCI_IRQ_WAIT_CANCEL *)

CancelCall(t) ==
  /\ pc[t] = "user"
  /\ \E c \in FreeCpus : SpinLockIrqSave(t, c)
  /\ Goto(t, "c_crit")
  /\ call' = [call EXCEPT ![t] = "cancel"]
  /\ UNCHANGED <<ctxVars, wait_queue, status, sig, irq_status, isrVars, histVars>>

(* -EALREADY is not returned. *)
CancelRefuseBugSuccess(t) ==
  /\ At(t, "c_crit")
  /\ waiting_for_irq = 0
  /\ SpinUnlockIrqRestore(t)
  /\ Goto(t, "user")
  /\ status' = [status EXCEPT ![t] = 0]
  /\ UNCHANGED <<ctxVars, wait_queue, call, sig, irq_status, isrVars, histVars>>

CancelRefuse(t) ==
  /\ At(t, "c_crit")
  /\ waiting_for_irq = 0
  /\ SpinUnlockIrqRestore(t)
  /\ Goto(t, "user")
  /\ status' = [status EXCEPT ![t] = -EALREADY]
  /\ UNCHANGED <<ctxVars, wait_queue, call, sig, irq_status, isrVars, histVars>>

(* The waiters read both flags without the lock, so the two stores are two  *)
(* steps; they are plain stores and a build may emit them in either order.  *)
FirstStoresBugSwapped == {"waiting_for_irq"}
FirstStores ==
  {"irq_cancelled"} \cup (IF StoresReordered THEN {"waiting_for_irq"} ELSE {})

CancelFirstStore(t) ==
  /\ At(t, "c_crit")
  /\ waiting_for_irq # 0
  /\ \/ /\ "irq_cancelled" \in FirstStores
        /\ irq_cancelled' = 1
        /\ Goto(t, "c_store")
        /\ UNCHANGED <<waiting_for_irq, owner, ended>>
     \/ /\ "waiting_for_irq" \in FirstStores
        /\ EndWait("cancel")
        /\ Goto(t, "c_store_swapped")
        /\ UNCHANGED irq_cancelled
  /\ UNCHANGED <<lockVars, wait_queue, callVars, sig, irq_status, isrVars,
                 overtaken, fired>>

CancelSecondStore(t) ==
  /\ \/ /\ At(t, "c_store")
        /\ EndWait("cancel")
        /\ UNCHANGED irq_cancelled
     \/ /\ At(t, "c_store_swapped")
        /\ irq_cancelled' = 1
        /\ UNCHANGED <<waiting_for_irq, owner, ended>>
  /\ SpinUnlockIrqRestore(t)
  /\ Goto(t, "c_wake")
  /\ UNCHANGED <<wait_queue, callVars, sig, irq_status, isrVars, overtaken, fired>>

(* wake_up_interruptible wakes and dequeues every queued thread. *)
WakeQueueBugNone == UNCHANGED wait_queue
WakeQueue == wait_queue' = {}

CancelWake(t) ==
  /\ At(t, "c_wake")
  /\ WakeQueue
  /\ Goto(t, "user")
  /\ status' = [status EXCEPT ![t] = 0]
  /\ UNCHANGED <<ctxVars, lockVars, call, sig, irq_status, isrVars, histVars>>

-----------------------------------------------------------------------------
(* The card and interrupt_adio16f_style.  The line is shared, so the ISR is *)
(* also entered when this card raised nothing.                              *)

RaiseIrq(s) ==
  /\ irq_status' = irq_status \cup {s}
  /\ fired' = (fired \/ waiting_for_irq = 1)
  /\ UNCHANGED <<ctxVars, lockVars, wait_queue, pc, callVars, sig, isrVars,
                 owner, ended, overtaken>>

IsrEnter(c) ==
  /\ isr = "off"
  /\ c \notin irqs_off
  /\ isr' = "read"
  /\ isr_cpu' = c
  /\ UNCHANGED <<ctxVars, lockVars, wait_queue, pc, callVars, sig, irq_status,
                 isr_snap, histVars>>

(* Register 0x40 is read once; with no masked bit set, IRQ_NONE. *)
IsrRead ==
  /\ isr = "read"
  /\ \/ /\ irq_status = {}
        /\ isr' = "off"
        /\ isr_cpu' = None
        /\ UNCHANGED isr_snap
     \/ /\ irq_status # {}
        /\ isr' = "ack"
        /\ isr_snap' = irq_status
        /\ UNCHANGED isr_cpu
  /\ UNCHANGED <<ctxVars, lockVars, wait_queue, pc, callVars, sig, irq_status,
                 histVars>>

(* No accesio_notify_user, as in the other interrupt styles. *)
IsrAckBugNoNotify ==
  /\ isr = "ack"
  /\ irq_status' = irq_status \ isr_snap
  /\ isr' = "off"
  /\ isr_cpu' = None
  /\ isr_snap' = {}
  /\ UNCHANGED <<ctxVars, lockVars, wait_queue, pc, callVars, sig, histVars>>

(* Writing the bits read back to 0x40 clears those and no others. *)
IsrAck ==
  /\ isr = "ack"
  /\ irq_status' = irq_status \ isr_snap
  /\ isr' = "lock"
  /\ isr_snap' = {}
  /\ UNCHANGED <<ctxVars, lockVars, wait_queue, pc, callVars, sig, isr_cpu, histVars>>

IsrLock ==
  /\ isr = "lock"
  /\ irq_lock = None
  /\ irq_lock' = Isr
  /\ isr' = "crit"
  /\ UNCHANGED <<ctxVars, lock_cpu, irqs_off, wait_queue, pc, callVars, sig,
                 irq_status, isr_cpu, isr_snap, histVars>>

(* accesio_notify_user: end the registered wait, if any, and unlock. *)
IsrNotify ==
  /\ isr = "crit"
  /\ irq_lock' = None
  /\ \/ /\ waiting_for_irq # 0
        /\ EndWait("irq")
        /\ isr' = "wake"
        /\ UNCHANGED isr_cpu
     \/ /\ waiting_for_irq = 0
        /\ isr' = "off"
        /\ isr_cpu' = None
        /\ UNCHANGED <<waiting_for_irq, owner, ended>>
  /\ UNCHANGED <<irq_cancelled, lock_cpu, irqs_off, wait_queue, pc, callVars,
                 sig, irq_status, isr_snap, overtaken, fired>>

IsrWake ==
  /\ isr = "wake"
  /\ WakeQueue
  /\ isr' = "off"
  /\ isr_cpu' = None
  /\ UNCHANGED <<ctxVars, lockVars, pc, callVars, sig, irq_status, isr_snap, histVars>>

(* A signal reaches a thread inside IRQ_WAIT; it is taken when the ioctl has *)
(* returned, and stays in sig until the next IRQ_WAIT of the thread.         *)
Signal(t) ==
  /\ t \in Interruptible \ sig
  /\ InWait(t) \/ pc[t] = "w_crit"
  /\ sig' = sig \cup {t}
  /\ UNCHANGED <<ctxVars, lockVars, wait_queue, pc, callVars, irq_status,
                 isrVars, histVars>>

-----------------------------------------------------------------------------
(* kzalloc in probe zeroes the context. *)
Init ==
  /\ waiting_for_irq = 0
  /\ irq_cancelled = 0
  /\ irq_lock = None
  /\ wait_queue = {}
  /\ lock_cpu = None
  /\ irqs_off = {}
  /\ pc = [t \in Threads |-> "user"]
  /\ call = [t \in Threads |-> "none"]
  /\ status = [t \in Threads |-> 0]
  /\ sig = {}
  /\ irq_status = {}
  /\ isr = "off"
  /\ isr_cpu = None
  /\ isr_snap = {}
  /\ owner = None
  /\ ended = [t \in Threads |-> "none"]
  /\ overtaken = {}
  /\ fired = FALSE

(* What a thread does by itself once it is inside an ioctl. *)
KernelStep(t) ==
  \/ WaitRefuse(t) \/ WaitRegister(t) \/ WaitCheck(t) \/ PrepareToWait(t)
  \/ WaitCond(t) \/ WakeUp(t) \/ WaitReturn(t)
  \/ CancelRefuse(t) \/ CancelFirstStore(t) \/ CancelSecondStore(t) \/ CancelWake(t)

ThreadNext(t) == WaitCall(t) \/ CancelCall(t) \/ KernelStep(t) \/ Signal(t)

IsrStep == IsrRead \/ IsrAck \/ IsrNotify \/ IsrWake

IsrNext == (\E c \in CPUs : IsrEnter(c)) \/ IsrLock \/ IsrStep

Next ==
  \/ \E t \in Threads : ThreadNext(t)
  \/ IsrNext
  \/ \E s \in Sources : RaiseIrq(s)

Spec == Init /\ [][Next]_vars

(* A runnable thread is eventually scheduled, a raised line is eventually    *)
(* delivered to a CPU that accepts it, a queued spinlock is granted in turn. *)
IsrFairness ==
  /\ SF_vars(irq_status # {} /\ \E c \in CPUs : IsrEnter(c))
  /\ SF_vars(IsrLock)
  /\ WF_vars(IsrStep)

Fairness == IsrFairness /\ \A t \in Threads : SF_vars(KernelStep(t))

FairSpec == Spec /\ Fairness

-----------------------------------------------------------------------------
(* Properties *)

(* Every variable has its type. *)
TypeOK ==
  /\ waiting_for_irq \in {0, 1}
  /\ irq_cancelled \in {0, 1}
  /\ irq_lock \in Threads \cup {Isr, None}
  /\ wait_queue \subseteq Threads
  /\ lock_cpu \in CPUs \cup {None}
  /\ irqs_off \subseteq CPUs
  /\ pc \in [Threads -> {"user", "c_wake"} \cup LockPcs \cup WaitPcs]
  /\ call \in [Threads -> {"none", "wait", "cancel"}]
  /\ status \in [Threads -> {0, -EALREADY, -ECANCELED}]
  /\ sig \subseteq Threads
  /\ irq_status \subseteq Sources
  /\ isr \in IsrPcs
  /\ isr_cpu \in CPUs \cup {None}
  /\ isr_snap \subseteq Sources
  /\ owner \in Threads \cup {None}
  /\ ended \in [Threads -> {"none", "irq", "cancel"}]
  /\ overtaken \subseteq Threads
  /\ fired \in BOOLEAN

(* The ISR never spins on irq_lock on the very CPU whose interrupted thread   *)
(* holds it: both ioctls take the lock with spin_lock_irqsave.                *)
NoSelfDeadlock ==
  ~ (isr = "lock" /\ irq_lock \in Threads /\ lock_cpu = isr_cpu)

(* A thread asleep in wait_event_interruptible although waiting_for_irq is 0  *)
(* will still be woken: the ISR or a WAIT_CANCEL that cleared the flag has    *)
(* its wake_up_interruptible ahead of it.                                     *)
WakerAhead ==
  \/ isr = "wake"
  \/ \E u \in Threads : pc[u] \in {"c_store_swapped", "c_wake"}

NoLostWakeup ==
  \A t \in Threads :
    pc[t] = "w_sleep" /\ t \in wait_queue /\ waiting_for_irq = 0 => WakerAhead

(* While waiting_for_irq is 1 and makes every IRQ_WAIT fail with -EALREADY,   *)
(* the thread that registered is still inside IRQ_WAIT - unless a signal can  *)
(* have taken it out of wait_event_interruptible, which leaves the flag set.  *)
SlotOwned ==
  waiting_for_irq = 1 => /\ owner \in Threads
                         /\ InWait(owner) \/ owner \in Interruptible

(* The outcome of an IRQ_WAIT that returned, was not cut short by a signal    *)
(* and was not overtaken by the next registration.                            *)
Undisturbed(t) ==
  /\ pc[t] = "user" /\ call[t] = "wait"
  /\ t \notin sig /\ t \notin overtaken

(* A wait that an interrupt ended is not reported as cancelled, whatever      *)
(* cancellations came before or after it.                                     *)
IrqReported ==
  \A t \in Threads : Undisturbed(t) /\ ended[t] = "irq" => status[t] # -ECANCELED

(* An IRQ_WAIT returns success only when an interrupt ended it: one that      *)
(* WAIT_CANCEL ended returns -ECANCELED, provided the two stores of           *)
(* WAIT_CANCEL become visible in program order.                               *)
SuccessMeansIrq ==
  ~StoresReordered =>
    \A t \in Threads : Undisturbed(t) /\ status[t] = 0 => ended[t] = "irq"

(* An interrupt the card raised during a registered wait is not dropped: the  *)
(* wait is over, or the status bit is still latched, or the ISR that cleared  *)
(* it has yet to look at waiting_for_irq.                                     *)
NoLostIrq ==
  fired /\ waiting_for_irq = 1 => irq_status # {} \/ isr \in {"lock", "crit"}

(* Once an interrupt or a cancellation has ended the wait of a thread, the    *)
(* thread returns from IRQ_WAIT - unless a later registration overtakes it    *)
(* and puts it back to sleep.                                                 *)
EndedWaitReturns ==
  \A t \in Threads :
    InWait(t) /\ ended[t] # "none" ~> ~InWait(t) \/ t \in overtaken

(* An interrupt raised while a thread is registered ends that wait.           *)
IrqEndsWait ==
  \A t \in Threads :
    InWait(t) /\ owner = t /\ irq_status # {} ~> owner # t

-----------------------------------------------------------------------------
(* The inductive invariant behind the properties above. *)

(* The holder of irq_lock is where the code holds it, its CPU has interrupts *)
(* off and does not run the ISR.                                             *)
LockInv ==
  /\ \A t \in Threads : irq_lock = t <=> pc[t] \in LockPcs
  /\ irq_lock = Isr <=> isr = "crit"
  /\ irq_lock \in Threads => lock_cpu \in CPUs /\ lock_cpu \in irqs_off
  /\ irq_lock \notin Threads => lock_cpu = None
  /\ lock_cpu # None => lock_cpu # isr_cpu

(* What the two flags say about the cancellation in progress. *)
FlagInv ==
  /\ waiting_for_irq = 1 <=> owner \in Threads
  /\ waiting_for_irq = 1 /\ irq_cancelled = 1 => \E u \in Threads : pc[u] = "c_store"
  /\ \A u \in Threads :
       /\ pc[u] = "c_store" => waiting_for_irq = 1 /\ irq_cancelled = 1
       /\ pc[u] = "c_store_swapped" => waiting_for_irq = 0 /\ StoresReordered

(* A thread inside IRQ_WAIT is registered until its wait is ended, and       *)
(* irq_cancelled then tells how, until the next registration.                *)
WaiterInv(t) ==
  /\ call[t] = "wait"
  /\ ended[t] = "none" <=> owner = t
  /\ ended[t] = "none" /\ pc[t] = "w_ret" => t \in sig
  /\ ended[t] # "none" /\ t \notin overtaken =>
       /\ waiting_for_irq = 0
       /\ ended[t] = "irq" =>
            /\ irq_cancelled = 0
            /\ \A u \in Threads : pc[u] # "c_store_swapped"
       /\ ended[t] = "cancel" =>
            irq_cancelled = 1 \/ \E u \in Threads : pc[u] = "c_store_swapped"

(* A thread outside IRQ_WAIT that is still the owner left through a signal,  *)
(* and may have been refused since.                                          *)
CancelPcs == {"c_crit", "c_store", "c_store_swapped", "c_wake"}

LeaverInv(t) ==
  /\ owner = t => t \in Interruptible
  /\ owner = t /\ pc[t] = "user" /\ call[t] = "wait" =>
       t \in sig \/ status[t] = -EALREADY
  /\ pc[t] = "w_crit" => ended[t] = "none" /\ call[t] = "wait"
  /\ pc[t] \in CancelPcs => call[t] = "cancel"

SlotInv ==
  /\ sig \subseteq Interruptible
  /\ \A t \in Threads : IF InWait(t) THEN WaiterInv(t) ELSE LeaverInv(t)

IInv ==
  /\ TypeOK /\ LockInv /\ FlagInv /\ SlotInv
  /\ NoLostWakeup /\ NoLostIrq /\ IrqReported /\ SuccessMeansIrq

=============================================================================
