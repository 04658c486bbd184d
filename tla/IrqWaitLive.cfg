\* Liveness: two threads that call at will or are those of the test program, one
\* CPU (the ISR preempts them), one interrupt source, no signals, the stores of
\* WAIT_CANCEL in either order.
SPECIFICATION TestSpec
CONSTANTS
  t1 = t1  t2 = t2
  c1 = c1  c2 = c2
  s1 = s1  s2 = s2
  Isr = Isr
  None = None
  Threads <- TwoThreads
  CPUs <- OneCpu
  Sources <- OneSource
  Interruptible <- NoThreads
  StoresReordered = TRUE
  Main = t1
  Gen = t2
  Rounds = 3
CHECK_DEADLOCK FALSE
INVARIANT
  AbortTells
PROPERTIES
  EndedWaitReturns
  IrqEndsWait
  ProgramEnds
