SPECIFICATION Spec
CONSTANTS
    t1 = t1
    t2 = t2
    t3 = t3
    a1 = a1
    a2 = a2
    NoCommit = NoCommit
    Txns <- ThreeTxns
    Apps <- OneApp
    MaxVersion = 2
    Timestamps = {1, 3}
    RowCounts = {0, 2}
    Operations = {"WRITE"}
    VersionModulus = 16
    MaxAttempts = 2
INVARIANT ExactlyOnce
INVARIANT AtMostOneVersionPerTxn
INVARIANT IctIncreasing
INVARIANT RowIdsDisjoint
INVARIANT ReportsAreTrue
PROPERTY ImplementsSerialTable
SYMMETRY TxnSymmetry
CHECK_DEADLOCK FALSE
