\* Everything at once: requests of every kind, a re-creation of the association, stop and
\* start, incoming requests.
SPECIFICATION Spec
CONSTANTS
    Jobs = {j1, j2}
    Options <- AnyAsk
    RES_MOD = 64
    LEN_MOD = 65536
    MAX_COUNTER = 2
    Responses <- Success
    Incoming <- ConfirmedOnly
    MaxIncoming = 1
    Strays = {"unknown"}
    MaxTime = 0
    MaxInput = 1
    MaxTicks = 1
    MaxStops = 1
    MaxCreated = 2
SYMMETRY AnyOrder
CHECK_DEADLOCK FALSE
INVARIANTS
    AnswerIsOwn
CONSTRAINT NotCrossed
