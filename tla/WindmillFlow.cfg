SPECIFICATION FairSpec
CONSTANTS
    flow = flow
    branch1 = branch1
    branch2 = branch2
    step1 = step1
    step2 = step2
    step3 = step3
    Jobs <- MCJobs
    Plan <- MCPlan
    Root = flow
    Workers = {w1, w2}
    Monitor = monitor
    NoJob = NoJob
    MaxFaults = 1
    MaxCancels = 1
    FailsAt = {"starting", "chaining", "reading", "updating", "judging", "finishing"}
INVARIANT TypeOK
 
INVARIANT CountedOnce
INVARIANT PushedOnce
 
PROPERTY ServesJobs
PROPERTY EndsUnlessLost
CHECK_DEADLOCK FALSE
