SPECIFICATION FairSpec
CONSTANTS
    Machines = {m1}
    MaxCalls = 2
    MaxRestarts = 1
    Serial = FALSE
    Vaults = {"digitalocean", "scaleway"}
    OverSSH = {"hetzner", "upcloud", "ovhcloud", "gcp", "latitude"}
    GuestAgents = {"libvirt", "proxmox"}
    Keys = {k1, k2}
    NoKey = NoKey
    NoEntry = NoEntry
INVARIANTS
    NoOrphanWaiter
    ServedWhileWanted
    OwnAckWhileIdsAreFresh
    OneScriptAtATime
    LaterConnectionsVerified
PROPERTIES
    CallsEnd
CHECK_DEADLOCK FALSE
