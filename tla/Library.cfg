\* Two threads make overlapping calls of different widths, on stray numbers too;
\* as many nodes to list as there are slots.
SPECIFICATION Spec
CONSTANTS
  n1 = n1  n2 = n2  n3 = n3  n4 = n4  t1 = t1  t2 = t2  None = None
  Nodes <- FourNodes
  PciNamed <- PciNodes
  IoBars <- MixedBars
  Override <- Switched
  Slots = 3
  Threads <- TwoThreads
  Calls <- FewCalls
  MayFail <- AllFailures
SYMMETRY ThreadSymmetry
INVARIANTS
  TypeOK
  NumbersAreCards
  StrayNumbers
  WithinCards
  ErrorMeansUnwritten
  ReadsAreWhole
