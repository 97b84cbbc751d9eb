SPECIFICATION Spec
CONSTANTS
    c1 = c1
    c2 = c2
    p1 = p1
    p2 = p2
    Classes = {c1, c2}
    Pools = {p1, p2}
    Nodes = {"n1"}
    Volumes = {"v1"}
    Layouts <- MCLayouts
    NewSpecs <- MCNewSpecs
    Policies = {"Delete", "Retain"}
    Scenarios <- MCScenarios
INVARIANTS
    PoolHeldWhileUsed
PROPERTIES
    StorageSettles
CHECK_DEADLOCK FALSE
