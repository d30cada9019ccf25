SPECIFICATION Spec
CONSTANTS
  noop = noop
  portal = portal
  NumSlots = 2
  Kinds = {noop, portal}
  NoOp = noop
  Portal = portal
  Masks <- SomeMasks
  StepLimit = 2
  MaxSubmissions = 2
  MaxSequence = 1
  MaxFrames = 3
INVARIANTS
  TypeOK
  RecordAndRaidsReproduceMatch
  DesyncIsDeserved
PROPERTIES
  BatchIsCanonical
  OnlyLegalActionsReachTheCore
  RaidsAreAskedFor
  MatchEnds
\* A match that has ended has nothing left to do.
CHECK_DEADLOCK FALSE
