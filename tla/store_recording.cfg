\* A connection dialled in the context of a statement.
CONSTANTS
    c1 = c1
    c2 = c2
    c3 = c3
    Clients = {c1, c2, c3}
    MaxConns = 2
SPECIFICATION Spec
CHECK_DEADLOCK FALSE
INVARIANT SetupStaysOutOfRecordings
