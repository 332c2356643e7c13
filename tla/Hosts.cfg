SPECIFICATION Spec
CONSTANTS
    Slots = {s1, s2}
    Hosts = {h1, h2}
    NoSlot = NoSlot
    NoHost = NoHost
    MaxOps = 3
    MaxRestarts = 1
    Providers <- AllProviders
SYMMETRY Symmetric
INVARIANTS OwnHost NotOnItsWayOut FreeSlotIsFree OneHostPerSlot MarkIsTrue IdleIsUnbound
PROPERTIES CreateSpared NeverWiped
CHECK_DEADLOCK FALSE
