SPECIFICATION Spec
CONSTANTS
  NoRecord = NoRecord
  Torn = Torn
  MaxPrestige = 2
  MaxMatches = 2
  MaxCrashes = 1
INVARIANT PrestigeSurvives
CHECK_DEADLOCK FALSE
