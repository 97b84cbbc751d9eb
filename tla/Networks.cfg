SPECIFICATION Spec
CONSTANTS
    Ids = {1, 2, 3}
    FullMesh = {1}
    Nets = {"a", "b", "c"}
    MaxIP = 2
    Scenarios <- MCScenarios
PROPERTIES
    NeverCutOff
    
CHECK_DEADLOCK FALSE
