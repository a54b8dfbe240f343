SPECIFICATION Spec
CONSTANTS
    f1 = f1
    f2 = f2
    a1 = a1
    d1 = d1
    m1 = m1
    m2 = m2
    NoTimestamp = NoTimestamp
    None = None
    Files <- OneFile
    Apps <- NoElements
    Domains <- NoElements
    Irrelevant <- NoElements
    Maintainers <- OneMaintainer
    Unstamped = {}
    Compactions <- AllRanges
    FileRetention = 1
    TxnRetention = 1
    Kinds = {"add", "remove"}
    ForeignFormats = {}
    MaxVersion = 3
    MaxClock = 2
    MaxRows = 2
INVARIANT RemovedFilesStayRemoved
CHECK_DEADLOCK FALSE
