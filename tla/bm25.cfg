\* Two retrievals on a pool of one connection beside one writer.
CONSTANTS
    c1 = c1
    c2 = c2
    w1 = w1
    w2 = w2
    Nobody = Nobody
    None = None
    Failed = Failed
    Callers = {c1, c2}
    Writers = {w1}
    TTL = 1
    MaxEpoch = 2
    PoolSize = 1
SPECIFICATION BMFairSpec
INVARIANTS
    BMTypeOK
    UnscoredOnlyIfNew
    ConnectionsAccounted
PROPERTY EveryRetrieveReturns
