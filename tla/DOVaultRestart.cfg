SPECIFICATION Spec
CONSTANTS
    Machines = {m1}
    MaxCalls = 3
    MaxRestarts = 1
    Serial = TRUE
INVARIANTS
    ReleasedByOwnAck
CHECK_DEADLOCK FALSE
