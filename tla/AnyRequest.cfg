CONSTANTS
    c1 = c1
    w1 = w1
    w2 = w2
    Callers = {c1}
    Workers = {w1}
    Steps <- MCOne
    Deps <- MCOneDep
    Requests = {"api_start", "api_pause", "api_resume", "api_cancel", "retry_latest",
                "run_next_step", "ci_success", "ci_failure", "flow_success", "recover",
                "cli_start", "cli_plan", "cli_pause", "cli_resume", "cli_cancel",
                "cli_retry", "execute", "qa", "cli_qa", "cli_run_step"}
    Faults = {"engine_raises", "qa_raises", "submit_fails", "crash"}
    WindmillEnabled = TRUE
    MaxRetries = 1
SPECIFICATION FairSpec
CHECK_DEADLOCK FALSE
INVARIANT InFlightOwned
PROPERTY StepLeavesFlight
