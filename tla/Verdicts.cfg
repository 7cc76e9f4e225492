CONSTANTS
    c1 = c1
    w1 = w1
    w2 = w2
    Callers = {c1}
    Workers = {w1, w2}
    Steps <- MCThreeSteps
    Deps <- MCJoin
    Requests = {"api_start", "api_cancel", "retry_latest",
                "run_next_step", "ci_success", "ci_failure", "flow_success", "recover",
                "api_pause", "cli_pause", "cli_resume"}
    Faults = {}
    WindmillEnabled = TRUE
    MaxRetries = 1
SPECIFICATION FairSpec
CHECK_DEADLOCK FALSE
INVARIANT CompletedIsSound
PROPERTY VerdictReached
