SPECIFICATION CatalogueSpec
CONSTANTS
    Machines = {m1, m2}
    Shards = {}
    Clusters = {c1}
    Metas = {}
    Epochs = {1}
    Seqs = {1}
    Prices = {1, 2}
    FreePool = {m2}
    CanDelete = TRUE
    HasReadiness = TRUE
    SaveMayFail = FALSE
    MaxOp = 2
    MaxRev = 2
    NoHost = NoHost
    PreHost = PreHost
    NoCluster = NoCluster
    NoMeta = NoMeta
    NoMark = NoMark
    ZeroToken = ZeroToken
    MaxResults = 0
    NoCursor = NoCursor
    t1 = t1
    Types = {t1}
    Menus <- SomeMenus
    MaxRequotes = 1
    MaxLives = 1
    Clouds <- AllClouds
INVARIANTS
    NothingMissed
    CursorNotAhead
    NeverFree
    CapacityKnown
PROPERTIES
    FailuresAreSeen
    LastKnownKept
    PriceFollows
