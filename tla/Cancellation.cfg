SPECIFICATION Spec
CONSTANTS
    e1 = e1
    e2 = e2
    c1 = c1
    s1 = s1
    Executions <- TwoExecutions
    Streams <- Nobody
    Cancellers <- OneCanceller
    Sources <- OneSource
    Stages = 2
    MaxLines = 1
    MaxLogs = 3
    MaxCompleted = 1
    LateReaders = TRUE
    Raises = TRUE
SYMMETRY Symmetry
INVARIANT TypeOK
INVARIANT CancelObeyed
INVARIANT EndedBounded
PROPERTY CancelKept
CHECK_DEADLOCK FALSE
