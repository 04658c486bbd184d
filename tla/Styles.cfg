\* Every style that agrees with the register table, next to one of each shape.
SPECIFICATION FairSpec
CONSTANTS
  k1 = k1  k2 = k2  None = None
  Cards <- TwoCards
  Styles <- MixedStyles
  LatchBars <- InEither
INVARIANTS
  TypeOK
  Acknowledged
  ChoiceKept
PROPERTIES
  LineDrops
  WaitEnds
