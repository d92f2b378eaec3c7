SPECIFICATION Spec
CONSTANTS
    Requests = {r1}
    None = None
    NConfirmations = 1
    AuditTimeout = 2
    SubmissionTimeoutLimit = 2
    BlockDiscardOnRestart = 1
    MaxAssignedRequests = 2
    MaxSubmissionAttempts = 2
    PoliceNode = FALSE
    EnablePoliceAuditPolling = FALSE
    Reorgs = FALSE
    PollReadsRaise = FALSE
    MaxBlock = 3
    MaxCrashes = 1
    MaxLostWrites = 1
    MaxUnanswered = 1
    MaxBids = 1
INVARIANTS SubmissionsBounded HistoryInv
PROPERTIES TerminalIsFinal StaleIsDiscarded
