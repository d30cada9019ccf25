SPECIFICATION Spec
CONSTANTS
  MaxCreated = 4
  MaxUniverses = 3
  BubbleSize = 3
  MaxRaids = 1
  Submitters = {1}
INVARIANTS
  TypeOK
  EveryoneIsPlaced
  NoSeatIsLeftOpen
  LegacyIsPaidOnce
PROPERTIES
  SeatsHoldStill
  NobodyWaitsForever
  QueuedIsAnswered
\* With every universe created and gone there is nothing to do.
CHECK_DEADLOCK FALSE
