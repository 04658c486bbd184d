\* One card of PCI style 1.
SPECIFICATION FairSpec
CONSTANTS
  k1 = k1  k2 = k2  None = None
  Cards <- OneCard
  Styles <- Pci1
  LatchBars <- InBoth
PROPERTY
  LineDrops
