\* A follow-up and a question over several lines with the same cache key.
CONSTANTS
    c1 = c1
    c2 = c2
    t1 = t1
    t2 = t2
    user = user
    a = a
    q = q
    NL = NL
    Blank = Blank
    SystemPrompt = SystemPrompt
    Nobody = Nobody
    NoValue = NoValue
    Callers = {c1, c2}
    Bodies = {t1, t2}
    Requests <- MultilineRequests
    Keys <- MCKeys
    Values <- Rewrites
    MaxEntries = 2
SPECIFICATION Spec
INVARIANT ServedOwnRewrite
