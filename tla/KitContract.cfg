SPECIFICATION FairSpec
CONSTANTS
    Machines = {m1}
    Shards = {s1}
    Clusters = {c1}
    Metas = {d1}
    Epochs = {1}
    Seqs = {1, 2}
    Prices = {1, 2}
    FreePool = {}
    CanDelete = TRUE
    HasReadiness = TRUE
    SaveMayFail = FALSE
    MaxOp = 4
    MaxRev = 2
    NoHost = NoHost
    PreHost = PreHost
    NoCluster = NoCluster
    NoMeta = NoMeta
    NoMark = NoMark
    ZeroToken = ZeroToken
PROPERTIES
    TransitionsEnd
    ImplementsContract
