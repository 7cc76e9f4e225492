CONSTANTS
    c1 = c1
    w1 = w1
    w2 = w2
    Callers = {c1}
    Workers = {w1, w2}
    Steps <- MCSteps
    Deps <- MCChain
    Requests = {"api_start", "api_pause", "api_resume", "api_cancel", "retry_latest",
                "run_next_step", "ci_success", "ci_failure", "flow_success", "recover",
                "cli_start", "cli_plan", "cli_pause", "cli_resume", "cli_retry"}
    Faults = {"engine_raises", "qa_raises", "submit_fails"}
    WindmillEnabled = TRUE
    MaxRetries = 2
SPECIFICATION Spec
CHECK_DEADLOCK FALSE
INVARIANT TypeOK
INVARIANT SingleExecution
INVARIANT DependencyOrder
PROPERTY RetriesCount
PROPERTY ImplementsSchedule
