CONSTANTS
  Universes = {a, b, c}
  Headless = {a}
  MaxWire = 2
  MaxDepartures = 2
SPECIFICATION LiveSpec
PROPERTIES PromotesTheLast DeathComesThrough
