SPECIFICATION Spec
CONSTANTS
    AnalysisIds = {a1}
    DiscoveryIds = {d1}
    Requests = {r1, r2}
    Submitters = {s1, s2}
    Executions = {e1, e2}
    Pollers = {p1}
    MaxAttempts = 2
    MaxRetries = 1
    NoTask = NoTask
SYMMETRY ProcessSymmetry
INVARIANTS TypeOK RecordsCoherent UnfinishedTasksOwned
PROPERTY SettledForGood
CHECK_DEADLOCK FALSE
