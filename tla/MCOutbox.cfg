SPECIFICATION MCSpec
CONSTANTS
  card = card
  edit1 = edit1
  edit2 = edit2
  Delivery <- CardDeliveries
  Target <- CardTarget
  None = none
  Worker = {w1, w2}
  MaxAttempts = 2
  MaxDisruptions = 1
INVARIANTS
  VerdictIsHonest
  EditsAreCoalesced
  CopiesArePaidFor
PROPERTIES
  ImplementsWorkQueue
  EveryDeliverySettles
CHECK_DEADLOCK FALSE
