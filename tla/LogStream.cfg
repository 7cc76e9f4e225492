SPECIFICATION FairSpec
CONSTANTS
    e1 = e1
    e2 = e2
    c1 = c1
    s1 = s1
    Executions <- TwoExecutions
    Streams <- OneStream
    Cancellers <- Nobody
    Sources <- OneSource
    Stages = 1
    MaxLines = 1
    MaxLogs = 3
    MaxCompleted = 1
    LateReaders = FALSE
    Raises = FALSE
PROPERTY StreamEnds
CHECK_DEADLOCK FALSE
INVARIANT StreamSendsEveryLine
