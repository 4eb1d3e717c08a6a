SPECIFICATION Spec
CONSTANTS
    Requests <- MCFollowUps
    Proposals <- MCProposals
INVARIANT PreviewedPlanRuns
CHECK_DEADLOCK FALSE
