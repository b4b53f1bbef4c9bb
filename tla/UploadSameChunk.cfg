SPECIFICATION MCSpec
CONSTANTS
    Upload = {u1}
    Request = {r1, r2}
    FileSize = 3
    ChunkSize = 2
    Overlaps = {"chunk"}
    MaxFaults = 0
    MaxCrashes = 0
    None = None
SYMMETRY Symmetry
INVARIANT PartHasDeclaredSize
CHECK_DEADLOCK FALSE
