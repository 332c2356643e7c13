SPECIFICATION Spec
CONSTANTS
    Machines = {m1, m2}
    Shards = {}
    Clusters = {c1}
    Metas = {d1}
    Epochs = {1}
    Seqs = {1}
    Prices <- MovingPrices
    FreePool = {m2}
    CanDelete = TRUE
    HasReadiness = TRUE
    SaveMayFail = FALSE
    MaxOp = 4
    MaxRev = 2
    NoHost = NoHost
    PreHost = PreHost
    NoCluster = NoCluster
    NoMeta = NoMeta
    NoMark = NoMark
    ZeroToken = ZeroToken
INVARIANTS
    TypeOK
    OneDriver
    SubstrateMatchesRecord
    NoPhantomCapacity
    BindingSpan
    RecordsInShape
PROPERTIES
    LegalSteps
