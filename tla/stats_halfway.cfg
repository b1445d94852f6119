\* A reingest seen by Stats between its two commits.
CONSTANTS
    c1 = c1
    c2 = c2
    w1 = w1
    w2 = w2
    Nobody = Nobody
    None = None
    Failed = Failed
    Callers = {c1, c2}
    Writers = {w1}
    TTL = 0
    MaxEpoch = 2
SPECIFICATION Spec
INVARIANT NeverHalfway
