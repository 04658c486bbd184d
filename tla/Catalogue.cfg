\* A card of every kind in the tables beside each of nine others, and all calls of
\* QueryCardInfo on them with a buffer of 32 characters.
SPECIFICATION Spec
CONSTANTS
  Kinds <- TwoCards
  NameBuffer = 32
INVARIANTS
  TypeOK
  TablesAccepted
  HandlerFitsCard
  RegistersInReach
  EveryCardNumbered
  WholeName
