SPECIFICATION FairSpec
CONSTANTS
    Requests = {r1, r2}
    None = None
    NumAnalyzers = 2
    Outputs = {"success", "error", "nostatus", "unusable", "expired"}
    MaxFailures = 1
CHECK_DEADLOCK FALSE
INVARIANTS TypeOK ReportsAreOwn ExpiredIsTimeout SuccessIsEarned TimeoutsAreTolerated
PROPERTIES AuditsEnd
