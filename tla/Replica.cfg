SPECIFICATION Spec
CONSTANTS
    MaxRev = 9
    MaxSize = 2
    Scenarios <- MCScenarios
INVARIANTS
    DiskHeld
PROPERTIES
    KeepsContract
    Converges
    DeletedReplicaGoes
CHECK_DEADLOCK FALSE
