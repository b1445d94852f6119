\* Three clients of one store whose pool holds at most two connections.
CONSTANTS
    c1 = c1
    c2 = c2
    c3 = c3
    Clients = {c1, c2, c3}
    MaxConns = 2
SPECIFICATION FairSpec
CHECK_DEADLOCK FALSE
INVARIANTS
    TypeOK
    NothingLeftOpen
PROPERTIES
    CloseReturns
    EveryStatementEnds
