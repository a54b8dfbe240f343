SPECIFICATION Spec
CONSTANTS
    c1 = c1
    c2 = c2
    Clients <- MCClients
    MaxVersion = 3
    MaxAttempts = 3
    MaxUnpublished = 2
    MaxRetries = 1
    CheckpointVersions = {1, 2}
    ForeignVersions = {1, 2}
SYMMETRY Symmetric
INVARIANTS
    NothingRatifiedIsLost
    PublishedInOrder
    SnapshotIsHistory
    LoadAndPublishSucceed
    ReportsAreTrue
CHECK_DEADLOCK FALSE
CONSTRAINT ThirdCommitAlone
