\* Small addresses, whose product a Float holds exactly.
SPECIFICATION Spec
CONSTANTS
    PRECISION = 64
    Addresses = {0, 1, 2, 3}
CHECK_DEADLOCK FALSE
INVARIANTS
    OneIDOnePair
