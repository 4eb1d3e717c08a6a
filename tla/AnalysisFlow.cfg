SPECIFICATION FairSpec
CONSTANTS
    Plans <- MCPlans
    Requests <- MCRequests
    Codes = {"a", "b"}
    LastDay = 4
    MaxQueries = 3
    MaxVertexAttempts = 2
    MaxAttempts = 5
    TargetCandidates = 3
    MaxIdentical = 3
INVARIANTS AnswersRestOnTheirReads  ValidPlansAreUsed
PROPERTY AnalysesEnd
CHECK_DEADLOCK FALSE
