SPECIFICATION Spec
CONSTANTS
  Ids <- MCIds
  MaxClock = 6
  Scenarios <- MCScenarios
INVARIANTS
    FormedIsWhole
PROPERTIES
    FormationCompletes
CHECK_DEADLOCK FALSE
