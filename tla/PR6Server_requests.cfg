\* Requests that follow or overtake each other, methods that yield, buffers of every
\* size at which the server decides differently, return values around the first change
\* of the length determinant.  For the codec every short buffer over the bytes at which
\* the encoding changes, for the wrapper lengths around both ends, for the object
\* interface every list of up to six objects.
SPECIFICATION SpecOrGiven
CONSTANTS
    Tags = {"METHOD_REQ", "METHOD_NC_REQ", "METHOD_BOE_REQ", "METHOD_NC_BOE_REQ", "METHOD_RES", "UNKNOWN"}
    ListSizes = {0, 1, 3}
    OutMaxes = {1, 3, 5, 6, 7, 9, 10, 130, 131, 132, 133, 134}
    ReturnLens = {0, 1, 126, 127, 128}
    MaxRequests = 2
    MaxYields = 2
    Sample = {0, 1, 2, 126, 127, 128, 129, 130, 131, 254, 255}
    MaxLen = 4
    METHOD_INDEX_MAX = 3
    ObjectIDs = {0, 1, 2, 3, 4, 5}
    MethodLists <- SmallMethodLists
    MaxObjects = 6
    PayloadLens = {0, 1, 2, 38, 1162, 1163, 65497, 65498, 65535}
    LenErrors = {0, 1, 2, 3}
CHECK_DEADLOCK FALSE
INVARIANTS
    TypeOK
    BufferIsEnough
    ResultsAreOutcomes
    StopsAtError
    CalledInOrder
    SilentIfUnconfirmed
    ShortOnlyIfFull
    OneEncoding
    ReadBack
    ReadsTheSame
    UnpackedWhole
    SameVerdict
PROPERTIES
    EveryRequestEnds
