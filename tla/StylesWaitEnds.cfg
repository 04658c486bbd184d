\* A wait on one card of PCIe style 2.
SPECIFICATION FairSpec
CONSTANTS
  k1 = k1  k2 = k2  None = None
  Cards <- OneCard
  Styles <- Pcie2
  LatchBars <- InBoth
PROPERTY
  WaitForIRQReturns
