SPECIFICATION Spec
CONSTANTS
    f1 = f1
    f2 = f2
    a1 = a1
    d1 = d1
    m1 = m1
    m2 = m2
    NoTimestamp = NoTimestamp
    None = None
    Files <- TwoFiles
    Apps <- OneApp
    Domains <- OneDomain
    Irrelevant <- FirstFileIrrelevant
    Maintainers <- OneMaintainer
    Unstamped = {"txn", "remove"}
    Compactions <- NoElements
    FileRetention = 1
    TxnRetention = 1
    Kinds = {"add", "remove", "txn", "domainMetadata"}
    ForeignFormats = {}
    MaxVersion = 3
    MaxClock = 2
    MaxRows = 1
INVARIANT ScanFaithful
INVARIANT TombstonesKept
INVARIANT CheckpointExact
INVARIANT LiveIdentifiersRead
CHECK_DEADLOCK FALSE
