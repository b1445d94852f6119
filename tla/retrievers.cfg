\* Four rows, depth 2, similarities below 0 and above, matches of rank 0,
\* alpha 0, 1/2 and 1.
CONSTANTS
    r1 = r1
    r2 = r2
    r3 = r3
    r4 = r4
    Ids <- MCIds
    VectorScores <- BelowAndAbove
    KeywordScores = {0, 1, 2}
    Depth = 2
    Den = 2
    MaxK = 3
    Unit = 4
    PrintUnit = 2
    Floors <- MCFloors
SPECIFICATION Spec
SYMMETRY Symmetry
INVARIANTS
    TypeOK
    CloseRowsFirst
    RankedRowsFirst
    BetterOnBothSidesFirst
    ScaleDoesNotMatter
    ClosestOverTheFloor
