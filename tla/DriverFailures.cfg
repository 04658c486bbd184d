\* Two cards of different kinds, probed and removed one at a time while kernel
\* calls other than pci_iomap fail; three probes in one load.  A behaviour ends at the bounds.
SPECIFICATION Spec
CONSTANTS
  k1 = k1  k2 = k2  f1 = f1  None = None
  Cards <- TwoCards
  Pid <- DifferentCards
  Tables <- ProbeTables
  Files <- OneFile
  MayFail <- ProbeCalls
  SerialProbes = TRUE
  MaxProbes = 3
  MaxLoads = 1
CHECK_DEADLOCK FALSE
INVARIANTS
  TypeOK
  IsrSafe
  WakeInitialised
  NodeOpensItsCard
  BoundHasNode
  CleanRemove
