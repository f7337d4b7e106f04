CONSTANTS
    home = home
    ext = ext
    pub = pub
    n1 = n1
    n2 = n2
    m1 = m1
    m2 = m2
    m3 = m3
    w1 = w1
    w2 = w2
    None = None
    Models = {m1, m2, m3}
    Dirs <- ThreeDirs
    AppDirs <- TwoApp
    Default = home
    Names <- TwoNames
    Installed <- TwoInstalled
    Imports <- OneImport
    Backups <- TwoBackups
    Threads = {w1, w2}
    MaxInodes = 4
    MaxBegun = 3
SYMMETRY Variants
CONSTRAINTS UntilCollision OverlapEarly
VIEW Canonical
SPECIFICATION Spec
INVARIANTS
    NoModelLost
    PathFollowsModel
    AllListed
CHECK_DEADLOCK FALSE
