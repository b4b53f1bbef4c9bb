SPECIFICATION FairSpec
CONSTANTS
    User = {"u1", "u2"}
    Tenant <- MCTenant
    Groups <- MCGroups
    Document <- MCDocument
    Owner <- MCOwner
    Chunk <- MCChunk
    File <- MCFile
    Text <- MCText
    Facts <- MCFacts
    Search = {"s1", "s2"}
    Reader <- MCReader
    Length <- MCLength
    Modes = {"graph", "mg"}
    CandidateTopK = 3
    FusionLimit = 2
    TopN = 2
    RrfK = 3
    MaxPerDocument = 1
    MaxChars = 2
    MaxChanges = 1
    None = None
 
 
INVARIANT EvidenceIsOwn
PROPERTY SearchesEnd
CHECK_DEADLOCK FALSE
