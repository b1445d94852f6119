\* Two callers and two writers, statistics that expire after two ticks.
CONSTANTS
    c1 = c1
    c2 = c2
    w1 = w1
    w2 = w2
    Nobody = Nobody
    None = None
    Failed = Failed
    Callers = {c1, c2}
    Writers = {w1, w2}
    TTL = 2
    MaxEpoch = 2
SPECIFICATION FairSpec
INVARIANT TypeOK
PROPERTIES
    ImplementsFreshStats
    OldStatsExpire
    EveryCallReturns
