SPECIFICATION Spec
CONSTANTS
    e1 = e1
    e2 = e2
    c1 = c1
    s1 = s1
    Executions <- OneExecution
    Streams <- OneStream
    Cancellers <- Nobody
    Sources <- BothSources
    Stages = 1
    MaxLines = 1
    MaxLogs = 3
    MaxCompleted = 1
    LateReaders = FALSE
    Raises = FALSE
INVARIANT StreamSendsEveryLine
CHECK_DEADLOCK FALSE
