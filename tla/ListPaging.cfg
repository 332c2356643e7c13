SPECIFICATION PollSpec
CONSTANTS
    Machines = {m1, m2}
    Shards = {}
    Clusters = {c1}
    Metas = {}
    Epochs = {1}
    Seqs = {1}
    Prices = {1}
    FreePool = {}
    CanDelete = TRUE
    HasReadiness = TRUE
    SaveMayFail = FALSE
    MaxOp = 2
    MaxRev = 0
    NoHost = NoHost
    PreHost = PreHost
    NoCluster = NoCluster
    NoMeta = NoMeta
    NoMark = NoMark
    ZeroToken = ZeroToken
    MaxResults = 1
    NoCursor = NoCursor
INVARIANTS
    PagingSkipsNothing
