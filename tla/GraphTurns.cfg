SPECIFICATION LiveSpec
CONSTANTS
    Agent = {hr, legal}
    Target = {t1, t2}
    MaxRetries = 2
    MaxTurns = 3
    MaxLooks = 1
    MaxBreaks = 1
    None = None
INVARIANT TypeOK
INVARIANT AnswerIsForThisTurn
INVARIANT NoAgentIsLeftOut
INVARIANT CollisionNeedsBadCall
PROPERTY TurnsEnd
CHECK_DEADLOCK FALSE
