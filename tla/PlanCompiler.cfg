SPECIFICATION Spec
CONSTANTS
    Requests <- MCRequests
    Proposals <- MCProposals
INVARIANTS UnverifiableIsRefused 
CHECK_DEADLOCK FALSE
