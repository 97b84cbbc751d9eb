SPECIFICATION FairSpec
CONSTANTS
    n1 = n1
    n2 = n2
    Nodes <- MCNodes
    Scenarios <- MCScenarios
CHECK_DEADLOCK FALSE
INVARIANTS
    UnpublishedIsDetached
    PublishedIsAttached
    VolumeGoneIsClean
PROPERTIES
    AttachedReplicaKept
    AttachmentsSettle
