CONSTANTS
    c1 = c1
    w1 = w1
    Callers = {c1}
    Workers = {w1}
    Steps <- MCOne
    Deps <- MCOneDep
    Requests = {"ci_success"}
    Faults = {}
    WindmillEnabled = TRUE
    MaxRetries = 1
    JobFaults = {}
SPECIFICATION ReconcileSpec
CHECK_DEADLOCK FALSE
PROPERTY NeverFixesTerminal
