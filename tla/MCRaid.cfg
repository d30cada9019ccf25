\* One raid of at most three engagement ticks; the host's god can afford two
\* prohibitions, or one permission, levy or ward, the raider's one directive.
CONSTANTS
  Raiders = {1, 2}
  Wardens = {3}
  RaiderSquads = {}
  WardenSquads = {7}
  NodeCount = 6
  Nodes = {1, 2, 3, 4, 5, 6}
  Axes = {"perdo"}
  Cells = {"ignem", "umbra"}
  Excludes <- mcExcludes
  Screening = {"attacker", "defender"}
  Gates = {1}
  Bolts = {2, 6}
  Calls = {5}
  Readers = {3}
  Blights = {4}
  Books = {1, 2}
  Loose = {}
  Objectives = {"library"}
  Library = "library"
  Archmage = "archmage"
  MaxSummons = 1
  LootLimit = 1
  Need = 2
  Strength = 2
  Stabilities = {3}
  Decay = 1
  Ceiling = 3
  WithdrawAfter = 1
  MusterCeiling = 2
  ResolutionOnset = 3
  Favor = 2
  Vis = 1
  MendBy = 1
  MaxRaids = 1
  MaxWorldTick <- mcMaxWorldTick
  Body <- mcBody
  Vigor <- mcVigor
  Skills <- mcSkills
  Tier <- mcTier
  AxesOf <- mcAxesOf
  CellOf <- mcCellOf
  CastCost <- mcCastCost
  NodeOf <- mcNodeOf
  Muster <- mcMuster
  Cost <- mcCost
SPECIFICATION LiveSpec
INVARIANTS TypeOK LawOfTheRaid NoMindIsLaundered NothingIsOverdrawn
PROPERTIES NothingIsUndone ClocksAreKept RaidEnds
\* A run ends when the raids and the world ticks of its bounds are used up.
CHECK_DEADLOCK FALSE
