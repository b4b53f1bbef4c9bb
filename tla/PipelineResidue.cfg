SPECIFICATION Spec
CONSTANTS
    Document = {d1}
    Job = {j1, j2}
    Worker = {w1}
    Handler = {h1}
    IngestMode = {"mg"}
    MaxAttempts = 1
    MaxChunks = 1
    MaxFaults = 1
    MaxCrashes = 0
    QueueFaults = {}
    None = None
SYMMETRY Symmetry
INVARIANT RemovedIsUnindexed
CHECK_DEADLOCK FALSE
