SPECIFICATION FairSpec
CONSTANTS
    Senders = {"main", "submit", "claim"}
    Waiting = {"main", "claim"}
    None = None
    Attempts = 2
    N = 1
    GasPrices = {1, 2}
    MaxGasPrice = 2
    MaxFailures = 1
    MaxCalls = 1
    MaxRewards = 1
INVARIANTS TypeOK NoncesHaveNoGap PendingOnce NothingDisplaced AcceptedOnce ConfirmedStays 
PROPERTIES CallsEnd RewardsAreClaimed
