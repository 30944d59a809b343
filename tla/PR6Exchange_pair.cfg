\* Two requests, two transmissions, a server that yields and is overtaken.
SPECIFICATION Spec
CONSTANTS
    c1 = c1
    m1 = m1
    Clients = {c1}
    Methods = {m1}
    ArgLens = {0}
    PoolSizes = {2}
    OutMaxes = {9}
    Modes <- StopOrSilent
    ServerOutMaxes = {5, 6, 9}
    ReturnLens = {0}
    MethodErrors = {"PERMANENT"}
    RES_MOD = 2
    LEN_MOD = 65536
    MaxRequests = 2
    MaxTransmissions = 2
    MaxYields = 1
CHECK_DEADLOCK FALSE
INVARIANTS
    AnswerIsTaken
PROPERTIES
    ImplementsRemoteInvocation
