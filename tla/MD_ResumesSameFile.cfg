CONSTANTS
    a = a
    b = b
    w1 = w1
    w2 = w2
    Files <- TwoFiles
    Size <- TwoSizes
    Workers <- OneThread
    MaxAttempts = 3
    MaxInodes = 2
SPECIFICATION Spec
INVARIANT
    ResumesSameFile
