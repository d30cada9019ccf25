SPECIFICATION Spec
CONSTANTS
  NumTasks = 3
  WorkerCount = 2
  MaxFaults = 1
  SpawnMayFail = TRUE
INVARIANTS
  TypeOK
  Accounted
  VerdictIsDeserved
  HeldTaskIsTimed
  NoThreadIsForgotten
PROPERTIES
  KeepsLedger
  Settles
\* A settled pool has nothing left to do.
CHECK_DEADLOCK FALSE
