SPECIFICATION FairSpec
CONSTANTS
    Requests = {r1}
    None = None
    NConfirmations = 1
    AuditTimeout = 2
    SubmissionTimeoutLimit = 2
    BlockDiscardOnRestart = 1
    MaxAssignedRequests = 2
    MaxSubmissionAttempts = 1
    PoliceNode = FALSE
    EnablePoliceAuditPolling = FALSE
    Reorgs = FALSE
    PollReadsRaise = FALSE
    MaxBlock = 3
    MaxCrashes = 1
    MaxLostWrites = 0
    MaxUnanswered = 0
    MaxBids = 1
PROPERTIES ConfirmedIsSaved ReportIsSubmitted
