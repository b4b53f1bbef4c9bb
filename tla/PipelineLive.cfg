SPECIFICATION FairSpec
CONSTANTS
    Document = {d1}
    Job = {j1, j2}
    Worker = {w1, w2}
    Handler = {h1}
    IngestMode = {"milvus"}
    MaxAttempts = 2
    MaxChunks = 1
    MaxFaults = 2
    MaxCrashes = 0
    QueueFaults = {"refused", "reply_lost"}
    None = None
INVARIANT TypeOK
 
 
CHECK_DEADLOCK FALSE
