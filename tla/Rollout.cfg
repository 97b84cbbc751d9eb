SPECIFICATION Spec
CONSTANTS
    Volumes = {1, 2, 3}
    Stuck = {"X"}
    Scenarios <- MCScenarios
INVARIANTS
    RolloutBudget
PROPERTIES
    RolloutCompletes
CHECK_DEADLOCK FALSE
