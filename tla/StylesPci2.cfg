\* One card of PCI style 2.
SPECIFICATION Spec
CONSTANTS
  k1 = k1  k2 = k2  None = None
  Cards <- OneCard
  Styles <- Pci2
  LatchBars <- InBoth
INVARIANT
  ChoiceKept
