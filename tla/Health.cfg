SPECIFICATION Spec
CONSTANTS
    Scenarios <- MCScenarios
    MaxRev = 9
INVARIANTS
    CriticalOnlyAfterQuorum
PROPERTIES
    LostQuorumIsCritical
    
CHECK_DEADLOCK FALSE
