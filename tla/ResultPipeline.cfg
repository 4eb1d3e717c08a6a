SPECIFICATION Spec
CONSTANTS
    Results <- MCResults
    Succeeded = {"source", "member", "alike"}
    SourceQuery = "source"
    MemberQuery = "member"
    Steps <- MCSteps
    MaxSteps = 3
INVARIANTS  ConstraintsRestrict RestrictedBeforeRanking ChecksAcceptTheResult
CHECK_DEADLOCK FALSE
