SPECIFICATION Spec
CONSTANTS
    Machines = {m1}
    Shards = {s1}
    Clusters = {c1}
    Metas = {}
    Epochs = {1, 2}
    Seqs = {1, 2}
    Prices = {1}
    FreePool = {}
    CanDelete = TRUE
    HasReadiness = FALSE
    SaveMayFail = TRUE
    MaxOp = 3
    MaxRev = 0
    NoHost = NoHost
    PreHost = PreHost
    NoCluster = NoCluster
    NoMeta = NoMeta
    NoMark = NoMark
    ZeroToken = ZeroToken
CONSTRAINT NothingLost
SYMMETRY Symmetry
INVARIANTS
    FencesDurable
    DiskCurrent
    OpIdsUnique
    AcceptedInTokenOrder
