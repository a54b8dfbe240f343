SPECIFICATION Spec
CONSTANTS
    f1 = f1
    f2 = f2
    a1 = a1
    d1 = d1
    m1 = m1
    m2 = m2
    NoTimestamp = NoTimestamp
    None = None
    Files <- OneFile
    Apps <- NoElements
    Domains <- NoElements
    Irrelevant <- NoElements
    Maintainers <- OneMaintainer
    Unstamped = {}
    Compactions <- AllRanges
    FileRetention = 5
    TxnRetention = 1
    Kinds = {"add", "remove", "metaData"}
    ForeignFormats = {"v1", "v2"}
    MaxVersion = 3
    MaxClock = 1
    MaxRows = 1
CONSTRAINT FewFiles
INVARIANT HintTransparent
INVARIANT CoverExact
INVARIANT ReplayIsCurrent
CHECK_DEADLOCK FALSE
