SPECIFICATION Spec
CONSTANTS
    N = 3
    MaxDiskMembers = 8
    Scenarios <- SafetyScenarios
INVARIANTS
    NoSplitBrain
    BaselineHonoured
    HealthyKeepsQuorum
    EffectiveLayoutHonest
    NoDualPrimary
PROPERTIES
    CopiesAreKept
CHECK_DEADLOCK FALSE
