SPECIFICATION FairSpec
CONSTANTS
    Requests = {r1}
    None = None
    NConfirmations = 1
    AuditTimeout = 2
    SubmissionTimeoutLimit = 2
    BlockDiscardOnRestart = 1
    MaxAssignedRequests = 2
    MaxSubmissionAttempts = 2
    PoliceNode = TRUE
    EnablePoliceAuditPolling = FALSE
    Reorgs = FALSE
    PollReadsRaise = FALSE
    MaxBlock = 3
    MaxCrashes = 0
    MaxLostWrites = 0
    MaxUnanswered = 0
    MaxBids = 1
PROPERTY SubmittedIsResolved
