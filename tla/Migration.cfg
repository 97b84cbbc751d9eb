SPECIFICATION Spec
CONSTANTS
  r1 = r1
  r2 = r2
  Resources = {r1, r2}
  Replicas = {0, 1}
  MaxIterations = 2
  Scenarios <- MCScenarios
INVARIANTS
    LinstorOutlivesItsUse
    MaintenanceCoversAdoption

    
CHECK_DEADLOCK FALSE
