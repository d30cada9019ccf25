SPECIFICATION Spec
CONSTANTS
  noop = noop
  portal = portal
  NumSlots = 2
  Kinds = {noop, portal}
  NoOp = noop
  Portal = portal
  Masks <- SomeMasks
  StepLimit = 2
  MaxSubmissions = 2
  MaxSequence = 1
  MaxFrames = 3
INVARIANT ReplayReproducesMatch
CHECK_DEADLOCK FALSE
