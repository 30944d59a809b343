\* Which answer an instance takes and what it makes of it: a structure used for two
\* requests, three transmissions under two residues of the counter, lists of one and
\* two invocations, answers of every shape.
SPECIFICATION Spec
CONSTANTS
    c1 = c1
    m1 = m1
    m2 = m2
    Clients = {c1}
    Methods = {m1, m2}
    ArgLens = {0}
    PoolSizes = {0, 1, 2}
    OutMaxes = {4, 9}
    Modes <- BothModes
    Answers <- MixedAnswers
    RES_MOD = 2
    LEN_MOD = 65536
    MaxRequests = 2
    MaxTransmissions = 3
CHECK_DEADLOCK FALSE
INVARIANTS
    TypeOK
    AnswerIsOwn
    ResultsAreTheAnswer
    NoPartialResult
    TransmissionsAgree
