SPECIFICATION Spec
CONSTANTS
  Names = {alice, bob}
  NoName = NoName
  StepLimit = 2
  SettledLimit = 1
  MaxConns = 3
  MaxChallenges = 2
  MaxMatches = 2
INVARIANTS
  TypeOK
  NamesAreLive
  EveryPlayerIsAccountedFor
  NoStaleEntry
PROPERTIES
  FinalHashesWait
  MatchesEnd
\* When every connection was used and every match is over, the host idles.
CHECK_DEADLOCK FALSE
