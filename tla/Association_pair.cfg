\* One association whose ends are deleted and created again, up to the last counter: every
\* order of arrival, a receiver whose window is resized.
SPECIFICATION Spec
CONSTANTS
    a = a
    b = b
    g = g
    Entities = {a, b}
    Groups = {}
    Senders = {a}
    Keys <- Pair
    Windows <- Resized
    MAX_COUNTER = 3
    MaxGen = 2
    Concurrent = FALSE
CHECK_DEADLOCK FALSE
INVARIANTS
    TypeOK
    UniqueIV
    WindowIsGenuine
    AcceptedOnce
PROPERTIES
    RefusedStaysRefused
    ImplementsAtMostOnce
