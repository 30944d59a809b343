\* A group address.
SPECIFICATION Spec
CONSTANTS
    a = a
    b = b
    g = g
    Entities = {a, b}
    Groups = {g}
    Senders = {a}
    Keys <- Group
    Windows <- Fixed
    MAX_COUNTER = 3
    MaxGen = 2
    Concurrent = FALSE
CHECK_DEADLOCK FALSE
INVARIANTS
    GroupAcceptedOnce
