SPECIFICATION Spec
CONSTANTS
    Requests = {r1}
    None = None
    NConfirmations = 1
    AuditTimeout = 3
    SubmissionTimeoutLimit = 3
    BlockDiscardOnRestart = 1
    MaxAssignedRequests = 2
    MaxSubmissionAttempts = 3
    PoliceNode = FALSE
    EnablePoliceAuditPolling = FALSE
    Reorgs = TRUE
    PollReadsRaise = TRUE
    MaxBlock = 4
    MaxCrashes = 0
    MaxLostWrites = 0
    MaxUnanswered = 0
    MaxBids = 1
INVARIANTS TypeOK AttemptsBounded SavedIsAssigned
PROPERTY ImplementsLifecycle
