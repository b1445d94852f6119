\* Three rows over two lexemes, one row added or removed behind the statistics.
CONSTANTS
    r1 = r1
    r2 = r2
    r3 = r3
    x = x
    y = y
    Ids <- MCIds
    Lexemes <- MCLexemes
    MaxTF = 2
    Params <- MCParams
    BDen = 2
    MaxK = 1
    MaxWrites = 1
SPECIFICATION Spec
SYMMETRY Symmetry
INVARIANTS
    TypeOK
    MoreAndShorterFirst
    RarerTermFirst
    HeldTermsCount
