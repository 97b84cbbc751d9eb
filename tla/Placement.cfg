SPECIFICATION Spec
CONSTANTS
  Ids <- MCIds
  ZoneOf <- MCZoneOf
  Scenarios <- MCScenarios
INVARIANTS
    ZoneLossKeepsQuorum
PROPERTIES
    TieBreakerHandover
    LayoutConverges
CHECK_DEADLOCK FALSE
