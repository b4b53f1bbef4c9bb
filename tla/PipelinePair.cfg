SPECIFICATION Spec
CONSTANTS
    Document = {d1}
    Job = {j1, j2}
    Worker = {w1, w2}
    Handler = {h1, h2}
    IngestMode = {"mg"}
    MaxAttempts = 2
    MaxChunks = 2
    MaxFaults = 2
    MaxCrashes = 1
    QueueFaults = {"refused"}
    None = None
SYMMETRY Symmetry
INVARIANT ActiveJobIsCarried
INVARIANT BusyDocumentIsCarried
INVARIANT OneCarrierPerJob
INVARIANT ReportIsExact
PROPERTY AcknowledgedIsAudited
 
CHECK_DEADLOCK FALSE
