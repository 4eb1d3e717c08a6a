SPECIFICATION Spec
CONSTANTS
    Runtimes <- MCBothRuntimes
    MaxProgress = 1
    EditLimit = 2
    MaxRounds = 2
    StagnationLimit = 2
    MaxCalls = 1
    MaxAttempts = 2
    MaxFaults = 2
    Labels <- MCLabels
    PublicUrl = TRUE
    None = None
INVARIANTS AnswersAreRecorded OutcomeShown LastEditIsForTheOutcome WorkspaceShowsTheWorkbook
PROPERTY RunsEnd
CHECK_DEADLOCK FALSE
