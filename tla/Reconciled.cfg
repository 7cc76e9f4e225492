CONSTANTS
    c1 = c1
    w1 = w1
    Callers = {c1}
    Workers = {w1}
    Steps <- MCOne
    Deps <- MCOneDep
    Requests = {"ci_success", "retry_latest", "recover", "cli_retry"}
    Faults = {"crash", "submit_fails", "qa_raises"}
    WindmillEnabled = TRUE
    MaxRetries = 1
    JobFaults = {"failed", "canceled"}
SPECIFICATION FairReconcileSpec
CHECK_DEADLOCK FALSE
INVARIANT ReconcileTypeOK
PROPERTY DriftRepaired
