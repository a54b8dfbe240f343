SPECIFICATION Spec
CONSTANTS
    f1 = f1
    f2 = f2
    Files <- MCFiles
    NumRows = 2
    MaxCommits = 3
    MaxWrites = 2
    Layouts <- TwoRowLayouts
    DvPrefixes <- TwoPrefixes
    I32Max = 22
SYMMETRY Symmetric
INVARIANT UnchangedRowsAreLeftOut
CHECK_DEADLOCK FALSE
