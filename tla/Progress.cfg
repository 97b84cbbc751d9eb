SPECIFICATION FairSpec
CONSTANTS
    N = 3
    MaxDiskMembers = 8
    Scenarios <- ProgressScenarios
INVARIANTS
    FinalizerHeldUntilLeft
PROPERTIES
    UndisturbedMembershipEnds
    AttachmentServed
    QuorumRestored
CHECK_DEADLOCK FALSE
