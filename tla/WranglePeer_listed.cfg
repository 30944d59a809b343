\* Two requests with the default options.
SPECIFICATION Spec
CONSTANTS
    Jobs = {j1, j2}
    Options <- Default
    RES_MOD = 64
    LEN_MOD = 65536
    MAX_COUNTER = 3
    Responses <- Success
    Incoming <- Nothing_
    MaxIncoming = 0
    Strays = {"malformed", "forged"}
    MaxTime = 1
    MaxInput = 1
    MaxTicks = 1
    MaxStops = 0
    MaxCreated = 1
CHECK_DEADLOCK FALSE
INVARIANTS
    TimeoutListed
