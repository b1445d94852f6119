\* Two callers of one engine, three requests with different keys, two entries.
CONSTANTS
    c1 = c1
    c2 = c2
    t1 = t1
    user = user
    a = a
    q = q
    strict = strict
    soft = soft
    NL = NL
    Blank = Blank
    SystemPrompt = SystemPrompt
    Assistant = Assistant
    System = System
    Helpful = Helpful
    Nobody = Nobody
    NoValue = NoValue
    Callers = {c1, c2}
    Bodies = {t1}
    InstructionPairs = {strict, soft}
    MaxHits = 1
    Requests <- MCRequests
    Keys <- MCKeys
    Values <- Rewrites
    MaxEntries = 2
SPECIFICATION EngineFairSpec
INVARIANTS
    TypeOK
    CacheSurvivesConcurrency
    ServedOwnRewrite
    EngineTypeOK
    AnsweredFromOwnContext
    ConversationKeepsItsVoices
PROPERTIES
    PaidOnlyWhenForgotten
    EveryQuestionReturns

