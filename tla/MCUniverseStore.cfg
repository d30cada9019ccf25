SPECIFICATION Spec
CONSTANTS
  NoRecord = NoRecord
  Torn = Torn
  MaxPrestige = 2
  MaxMatches = 2
  MaxCrashes = 1
INVARIANTS
  TypeOK
  FileIsWhole
  AwardIsCarried
PROPERTIES
  EndIsRecorded
\* With every match over and every player away there may be nothing to do.
CHECK_DEADLOCK FALSE
