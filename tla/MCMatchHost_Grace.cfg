SPECIFICATION Spec
CONSTANTS
  Names = {alice, bob}
  NoName = NoName
  StepLimit = 2
  SettledLimit = 1
  MaxConns = 3
  MaxChallenges = 2
  MaxMatches = 2
INVARIANT GraceWindowHonoured
CHECK_DEADLOCK FALSE
