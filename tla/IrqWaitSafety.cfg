\* Safety: two threads of which t2 can be interrupted by signals, two CPUs, two
\* interrupt sources, the stores of WAIT_CANCEL in program order.
SPECIFICATION Spec
CONSTANTS
  t1 = t1  t2 = t2
  c1 = c1  c2 = c2
  s1 = s1  s2 = s2
  Isr = Isr
  None = None
  Threads <- TwoThreads
  CPUs <- TwoCpus
  Sources <- TwoSources
  Interruptible <- OneThread
  StoresReordered = FALSE
SYMMETRY CpuSymmetry
INVARIANTS
  TypeOK
  NoSelfDeadlock
  NoLostWakeup
  SlotOwned
  IrqReported
  SuccessMeansIrq
  NoLostIrq
PROPERTY
  ImplementsService
