SPECIFICATION Spec
CONSTANTS
    NULL = NULL
    MaxJunctions = 1
INVARIANTS
    FileSkippingIsSound
    RowGroupSkippingIsSound
    PruningIsSound
    SupportedCheckpointSkippingIsSound
CHECK_DEADLOCK FALSE
