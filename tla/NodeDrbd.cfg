SPECIFICATION Spec
CONSTANTS
  Peers = {1, 2}
  MaxMinor = 4
  R = {"r1", "r2"}
  Old = "old"
  Adopted = "r1"
  Disks = {"d1", "d2"}
  Ports = {1, 2, 3, 4, 5}
  Scenarios <- PassScenarios
INVARIANTS
    NoAlias
    PortsDistinct
PROPERTIES
    
    NodeSettles
CHECK_DEADLOCK FALSE
