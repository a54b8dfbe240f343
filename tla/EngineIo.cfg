SPECIFICATION Spec
CONSTANTS
    c1 = c1
    c2 = c2
    c3 = c3
    Callers <- ThreeCallers
    Setups <- AllSetups
    Fates <- AllFates
    BufferSize = 2
    Capacity = 1
    Workers = 1
    MaxBlocking = 3
    MaxErrors = 2
INVARIANT IteratorsAreInOrder
INVARIANT NoPartialFiles
PROPERTY CallsReturn
CHECK_DEADLOCK FALSE
