\* A PDF of up to two pages and a text document, ingested up to twice.
CONSTANTS
    Letters = {"a", "b", "c", "d", "e"}
    PdfPages <- MCPdfs
    TextFiles <- MCFiles
    MaxCut = 5
    MaxOverlap = 1
    MaxAttempts = 2
SPECIFICATION Spec
CHECK_DEADLOCK FALSE
INVARIANTS
    TypeOK
    EveryLetterIsIndexed
    WordsKeepTheirEdges
    ChunksAreStorable
    OnlyWholeDocuments
