SPECIFICATION FairSpec
CONSTANTS
    Slots = {s1}
    VMs = {i1, i2}
    NoVM = NoVM
    NoSlot = NoSlot
    NoNotice = NoNotice
    MaxNotices = 2
    MaxRestarts = 1
    Providers = {"azure"}
PROPERTIES
    EvictedSlotReturns
CHECK_DEADLOCK FALSE
