\* Two requests that may be sent again, over a network that duplicates and delays, to a
\* remote server whose answer may be unreadable, until the counter is used up.
SPECIFICATION Spec
CONSTANTS
    Jobs = {j1, j2}
    Options <- Retrying
    RES_MOD = 64
    LEN_MOD = 65536
    MAX_COUNTER = 2
    Responses <- OkOrJunk
    Incoming <- Nothing_
    MaxIncoming = 0
    Strays = {"malformed", "forged"}
    MaxTime = 1
    MaxInput = 1
    MaxTicks = 1
    MaxStops = 0
    MaxCreated = 1
SYMMETRY AnyOrder
CHECK_DEADLOCK FALSE
INVARIANTS
    TypeOK
    SentIsRouted
    PreJobHasMessage
    TimeoutsInOrder
    NoThreadDies
