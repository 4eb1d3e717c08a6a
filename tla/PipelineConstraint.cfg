SPECIFICATION Spec
CONSTANTS
    Results <- MCResults
    Succeeded = {"source", "member", "alike"}
    SourceQuery = "source"
    MemberQuery = "member"
    Steps <- MCSteps
    MaxSteps = 2
INVARIANT AcceptedConstraintsRestrict
CHECK_DEADLOCK FALSE
