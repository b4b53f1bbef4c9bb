SPECIFICATION MCSpec
CONSTANTS
    Upload = {u1}
    Request = {r1, r2, r3, r4}
    FileSize = 3
    ChunkSize = 2
    Overlaps = {"complete"}
    MaxFaults = 1
    MaxCrashes = 1
    None = None
SYMMETRY Symmetry
INVARIANT TypeOK
INVARIANT DocumentIsWhole
INVARIANT DocumentHasFile
 
INVARIANT AcknowledgedChunkIsKept
 
INVARIANT WaitingClientGetsOne
PROPERTY RefusedOnlyIfIncomplete
CHECK_DEADLOCK FALSE
