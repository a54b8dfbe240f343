SPECIFICATION Spec
CONSTANTS
    f1 = f1
    f2 = f2
    w1 = w1
    w2 = w2
    l1 = l1
    l2 = l2
    NoTimestamp = NoTimestamp
    Files <- TwoFiles
    Irrelevant <- FirstFileIrrelevant
    Apps <- NoElements
    Domains <- NoElements
    FileRetention = 0
    TxnRetention = 0
    Workers <- TwoWorkers
    Leaves <- TwoLeaves
    MaxCommits = 2
    MaxRetries = 1
INVARIANT ParallelIsSequential
PROPERTY ImplementsScanContract
SYMMETRY Symmetric
CHECK_DEADLOCK FALSE
