\* Two cards probed and removed concurrently over two loads, with agreeing and
\* disagreeing tables, every kernel call failing at will and interrupts at any time.
SPECIFICATION FairSpec
CONSTANTS
  k1 = k1  k2 = k2  f1 = f1  None = None
  Cards <- TwoCards
  Pid <- DifferentCards
  Tables <- AllTables
  Files <- NoFiles
  MayFail <- AllCalls
  SerialProbes = FALSE
  MaxProbes = 2
  MaxLoads = 2
CHECK_DEADLOCK FALSE
INVARIANTS
  NodesApart
  CleanUnload
  DescriptorFound
PROPERTIES
  ImplementsCards
  UnloadCompletes
