\* The order of request_irq and spin_lock_init in probe: one card, one probe.
SPECIFICATION Spec
CONSTANTS
  k1 = k1  k2 = k2  f1 = f1  None = None
  Cards <- OneCard
  Pid <- DifferentCards
  Tables <- GoodTables
  Files <- OneFile
  MayFail <- NoCalls
  SerialProbes = TRUE
  MaxProbes = 1
  MaxLoads = 1
CHECK_DEADLOCK FALSE
INVARIANT
  InitBeforeHandler
