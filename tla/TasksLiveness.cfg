SPECIFICATION Spec
CONSTANTS
    AnalysisIds = {a1}
    DiscoveryIds = {d1}
    Requests = {r1}
    Submitters = {s1, s2}
    Executions = {e1, e2}
    Pollers = {p1}
    MaxAttempts = 1
    MaxRetries = 1
    NoTask = NoTask
PROPERTIES TasksSettle DiscoverySettles
CHECK_DEADLOCK FALSE
