SPECIFICATION StandaloneSpec
CONSTANTS
    None = None
    Args <- MCArgs
    Name <- MCName
    Plans <- MCPlans
    Text <- MCText
    Rows <- MCRows
    TableRuns <- MCTableRuns
    Matches <- MCMatches
    Documents <- MCDocuments
    Neighbours <- MCNeighbours
    Questions <- MCQuestions
    Orders <- MCOrders
    Matching <- MCMatching
    RankingPlans <- MCRankingPlans
    Near = 1
    Far = 2
    Batch = 2
    Tuning = 1
    Id = {1, 2, 3, 4}
    MaxTime = 2
    Limit = 1
    EventKinds <- MCEventKinds
    Own = "t1"
    Nothing = Nothing
INVARIANT PagesMissNothing
PROPERTY ScoresAreOfCalls
PROPERTY ScoresAreOfParses
 
 
CHECK_DEADLOCK FALSE
