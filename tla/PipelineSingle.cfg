SPECIFICATION Spec
CONSTANTS
    Document = {d1}
    Job = {j1, j2, j3}
    Worker = {w1}
    Handler = {h1, h2}
    IngestMode = {"mg", "milvus"}
    MaxAttempts = 2
    MaxChunks = 1
    MaxFaults = 2
    MaxCrashes = 1
    QueueFaults = {"duplicated"}
    None = None
SYMMETRY Symmetry
INVARIANT ReadyIsIndexed
INVARIANT RemovedHasNoFile
INVARIANT OrderlyRemovalIsComplete
CHECK_DEADLOCK FALSE
