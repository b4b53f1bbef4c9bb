SPECIFICATION Spec
CONSTANTS
    Agent = {hr}
    Target = {t1}
    MaxRetries = 1
    MaxTurns = 2
    MaxLooks = 0
    MaxBreaks = 1
    None = None
INVARIANT AnsweredIsHeard
CHECK_DEADLOCK FALSE
