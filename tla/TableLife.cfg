SPECIFICATION Spec
CONSTANTS
    Requests <- AllRequests
    ForeignTables <- AllForeign
    ColumnNames = {"a", "b"}
    MaxAlters = 2
    MaxFiles = 1
    MaxCheckpoints = 2
    MaxAltersCheckpointed = 1
INVARIANT SupportedScansAreRight
INVARIANT StatsAreOfTheirColumn
INVARIANT CreatedTablesAreUsable
 
CHECK_DEADLOCK FALSE
