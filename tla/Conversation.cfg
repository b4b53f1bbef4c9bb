SPECIFICATION SessionSpec
CONSTANTS
    Thread = {th1, th2}
    Turn = {t1, t2}
    Click = {c1}
    Load = {l1}
    MaxFaults = 1
    None = None
CONSTRAINT OneDisturbance
SYMMETRY Alike
INVARIANT RunningIsUnderWay
INVARIANT TurnsAreRecorded
INVARIANT EventsAgreeWithRow
INVARIANT ViewIsOfThread
INVARIANT PageShowsWhatIsKept
 
CHECK_DEADLOCK FALSE
