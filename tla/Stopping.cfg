SPECIFICATION FairSpec
CONSTANTS
    Callers = {t1, t2}
    QueueSize = 2
    WorkerFails = TRUE
    Signals = TRUE
    HandlersRaise = TRUE
CHECK_DEADLOCK FALSE
INVARIANTS AcceptedIsExecuted ClosedAfterThreads LifecycleInv
PROPERTIES AcceptedIsAnswered CleanStopEnds
