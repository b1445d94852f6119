\* Three rows, similarities that reach below 0.
CONSTANTS
    r1 = r1
    r2 = r2
    r3 = r3
    r4 = r4
    Ids <- ThreeIds
    VectorScores <- WithNegative
    KeywordScores = {1, 2}
    Depth = 2
    Den = 2
    MaxK = 2
    Unit = 4
    PrintUnit = 2
    Floors = {0}
SPECIFICATION Spec
INVARIANT VectorEndpoint
