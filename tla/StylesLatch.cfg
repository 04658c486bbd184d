\* One card of PCI style 4 that shows its latch register in BAR 1 only.
SPECIFICATION FairSpec
CONSTANTS
  k1 = k1  k2 = k2  None = None
  Cards <- OneCard
  Styles <- Pci4
  LatchBars <- InBar1
PROPERTY
  LatchInBar1
