CONSTANTS
    a = a
    b = b
    w1 = w1
    w2 = w2
    Files <- OneFile
    Size <- OneSize
    Workers <- TwoThreads
    MaxAttempts = 2
    MaxInodes = 2
SYMMETRY Symmetry
SPECIFICATION Spec
INVARIANTS
    TargetWhole
    PartialIsPrefix
