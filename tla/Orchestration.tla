---------------------------- MODULE Orchestration ----------------------------
(***************************************************************************)
(* The life of one protocol run and of its step runs.                      *)
(*                                                                         *)
(* All the state is in database rows.  Every handler (an API route, a CLI  *)
(* command, a webhook, the recovery at API startup, the execution service  *)
(* a Windmill job calls) is a thread that reads rows, decides, and then    *)
(* overwrites rows, and every database call is a transaction of its own.   *)
(* One action is one database call (or one answer of the engine, of the QA *)
(* gates or of Windmill), so two handlers interleave between any two of    *)
(* their calls and each may act on a row that has changed since it was     *)
(* read.                                                                   *)
(***************************************************************************)
EXTENDS Integers, FiniteSets

CONSTANTS
    Steps,            \* the step runs, numbered by step_index
    Deps,             \* Deps[s]: the step runs named by s.depends_on
    Callers,          \* threads that serve API, CLI, webhook and startup requests
    Workers,          \* threads that serve the execute call of a Windmill job
    Requests,         \* the entry points the environment uses
    Faults,           \* the failures that may happen
    WindmillEnabled,  \* config.windmill_enabled
    MaxRetries        \* bound: a retry of a step with this many retries is not asked for

Threads == Callers \cup Workers

\* The values of ProtocolStatus and of StepStatus.
ProtocolStatus ==
    {"pending", "planning", "planned", "running", "paused", "blocked",
     "needs_qa", "failed", "cancelled", "completed"}
StepStatus ==
    {"pending", "running", "needs_qa", "skipped", "completed", "failed",
     "timeout", "cancelled", "blocked"}

\* Requests that start a step by the scheduler's choice, or start none.
ScheduledRequests ==
    {"api_start", "api_pause", "api_resume", "api_cancel", "retry_latest",
     "run_next_step", "ci_success", "ci_failure", "flow_success", "recover",
     "cli_start", "cli_plan", "cli_pause", "cli_resume", "cli_cancel", "cli_retry"}
\* Requests that name the step to run or to judge.
DirectRequests == {"execute", "qa", "cli_qa", "cli_run_step"}
AllRequests == ScheduledRequests \cup DirectRequests

AllFaults == {"engine_raises", "qa_raises", "submit_fails", "crash"}

NoStep == -1     \* a thread that works on no step in particular
Keep   == -1     \* a step write that leaves the retries column alone

ASSUME StepsAssumption    == Steps \subseteq Nat /\ Steps # {} /\ IsFiniteSet(Steps)
ASSUME DepsAssumption     == Deps \in [Steps -> SUBSET Steps]
ASSUME ThreadsAssumption  == Callers \cap Workers = {}
ASSUME RequestsAssumption == Requests \subseteq AllRequests
ASSUME FaultsAssumption   == Faults \subseteq AllFaults
ASSUME ConfigAssumption   == WindmillEnabled \in BOOLEAN
ASSUME BoundAssumption    == MaxRetries \in Nat

VARIABLES
    proto,     \* protocol_runs.status
    step,      \* step_runs.status of each step run
    retries,   \* step_runs.retries of each step run
    jobs,      \* number of Windmill jobs waiting to execute each step run
    thread,    \* what each thread is doing, with the values it has read
    done,      \* history: the step runs that have been COMPLETED at some time
    orphan     \* history: the step runs given up by whoever was to move them on

rows == <<proto, step, retries>>
vars == <<proto, step, retries, jobs, thread, done, orphan>>

-----------------------------------------------------------------------------
(* Threads.  "by" is where the request came from, where that makes a       *)
(* difference later on.  "at" is where the thread is in its handler.  At "write"  *)
(* it has decided on writes it has not made yet: status "to" (and a new    *)
(* value of retries, unless Keep) to each step run in "rows", then status  *)
(* "proto" to the protocol run (unless "keep"); it goes on at "next".      *)

Labels ==
    {"idle", "write", "pause", "resume", "cancel", "retry", "retry_latest",
     "select", "ci", "enqueue", "claim", "dispatch", "execute", "engine",
     "gates", "settle", "plan", "plan_work", "recover", "recover_check"}

\* Where a handler goes on after its writes.
Continuations ==
    {"idle", "enqueue", "claim", "dispatch", "engine", "gates", "settle", "plan_work", "plan"}

Origins == {"none", "webhook", "recovery", "cli_qa"}

ThreadState ==
    [by : Origins, at : Labels, step : Steps \cup {NoStep},
     rows : SUBSET Steps, to : StepStatus, retries : Nat \cup {Keep},
     proto : ProtocolStatus \cup {"keep"}, next : Continuations]

\* A thread at label l, for step s, with nothing to write.
At(b, s, l) == [by |-> b, at |-> l, step |-> s, rows |-> {}, to |-> "pending",
                retries |-> Keep, proto |-> "keep", next |-> "idle"]

Idle == At("none", NoStep, "idle")

Turn(t, th) == thread' = [thread EXCEPT ![t] = th]

Return(t) == Turn(t, Idle)

Enter(t, b, s, l) == Turn(t, At(b, s, l))

Goto(t, l) == Turn(t, [thread[t] EXCEPT !.at = l])

\* The handler has decided on writes: status s for the step runs R, with the
\* retries n, and status p for the protocol run.  It goes on at l.
WriteRows(t, R, s, n, p, l) ==
    Turn(t, [by |-> thread[t].by, at |-> "write", step |-> thread[t].step, rows |-> R,
             to |-> s, retries |-> n, proto |-> p, next |-> l])

WriteStatus(t, p, l) == WriteRows(t, {}, "pending", Keep, p, l)

\* A thread that has made one of its writes: th is what remains to do.
Advance(t, th) ==
    \/ /\ th.rows # {} \/ th.proto # "keep"
       /\ Turn(t, th)
    \/ /\ th.rows = {} /\ th.proto = "keep" /\ th.next = "idle"
       /\ Return(t)
    \/ /\ th.rows = {} /\ th.proto = "keep" /\ th.next # "idle"
       /\ Turn(t, At(th.by, th.step, th.next))

\* db.update_step_status: unconditional, whatever the row holds by now.
WriteStep(t) ==
    LET th == thread[t] IN
    /\ th.at = "write"
    /\ \E s \in th.rows :
          /\ \A r \in th.rows : s <= r
          /\ step' = [step EXCEPT ![s] = th.to]
          /\ retries' = IF th.retries = Keep THEN retries
                        ELSE [retries EXCEPT ![s] = th.retries]
          /\ done' = IF th.to = "completed" THEN done \cup {s} ELSE done
          /\ orphan' = orphan \ {s}
          /\ Advance(t, [th EXCEPT !.rows = @ \ {s}])
    /\ UNCHANGED <<proto, jobs>>

\* db.update_protocol_status: unconditional as well.
WriteProtocol(t) ==
    LET th == thread[t] IN
    /\ th.at = "write"
    /\ th.rows = {}
    /\ th.proto # "keep"
    /\ proto' = th.proto
    /\ Advance(t, [th EXCEPT !.proto = "keep"])
    /\ UNCHANGED <<step, retries, jobs, done, orphan>>

-----------------------------------------------------------------------------
(* What a handler finds out by listing the step runs.                      *)

Ended  == {"completed", "cancelled", "skipped", "failed", "timeout"}
Active == {"running", "needs_qa"}

AllEnded  == \A s \in Steps : step[s] \in Ended
AnyActive == \E s \in Steps : step[s] \in Active

\* A verdict that takes every ended step for a success.
VerdictIgnoringFailures == "completed"

\* check_and_complete_protocol: TIMEOUT does not count as failed.
Verdict == IF \E s \in Steps : step[s] = "failed" THEN "failed" ELSE "completed"

\* A listing that forgets the dependencies.
ReadyIgnoringDeps(s) == step[s] = "pending"

Ready(s) == step[s] = "pending" /\ \A d \in Deps[s] : step[d] = "completed"

\* The step that enqueue_next_step, _find_runnable_step and the run_next_step
\* route choose.  The first two sort by priority, but no conversion of a row
\* reads the priority column, so the stable sort leaves the order of step_index.
First(s) == Ready(s) /\ \A r \in Steps : Ready(r) => s <= r

\* A choice that takes a step in flight for one that has stopped.
LatestOrRunning(s) ==
    /\ step[s] \in {"failed", "blocked", "running"}
    /\ \A r \in Steps : step[r] \in {"failed", "blocked", "running"} => r <= s

Latest(s) ==
    /\ step[s] \in {"failed", "blocked"}
    /\ \A r \in Steps : step[r] \in {"failed", "blocked"} => r <= s

-----------------------------------------------------------------------------
(* Requests: the first read of each entry point, of the protocol status,   *)
(* where it has one.  A request that is refused changes nothing.           *)

Accept(t, r, S) ==
    /\ r \in Requests
    /\ thread[t].at = "idle"
    /\ proto \in S

Closed == {"completed", "cancelled", "failed"}

ApiStart(t)    == Accept(t, "api_start", {"pending", "planned"})
                  /\ WriteStatus(t, "planning", "plan")
ApiPause(t)    == Accept(t, "api_pause", {"running"})
                  /\ WriteStatus(t, "paused", "idle")
ApiResume(t)   == Accept(t, "api_resume", {"paused"})
                  /\ WriteStatus(t, "running", "idle")
ApiCancel(t)   == Accept(t, "api_cancel", ProtocolStatus \ {"completed", "cancelled"})
                  /\ WriteStatus(t, "cancelled", "idle")
\* A failed workflow or pipeline, or a failed Windmill flow: no guard at all.
CiFailure(t)   == Accept(t, "ci_failure", ProtocolStatus)
                  /\ WriteStatus(t, "blocked", "idle")
FlowSuccess(t) == Accept(t, "flow_success", ProtocolStatus)
                  /\ Enter(t, "none", NoStep, "settle")
CiSuccess(t)   == Accept(t, "ci_success",
                         {"pending", "planning", "planned", "running", "needs_qa"})
                  /\ Enter(t, "webhook", NoStep, "ci")
RunNextStep(t) == Accept(t, "run_next_step", ProtocolStatus \ {"completed", "cancelled"})
                  /\ Enter(t, "none", NoStep, "select")
Recover(t)     == Accept(t, "recover", {"running"})
                  /\ Enter(t, "recovery", NoStep, "recover")
CliStart(t)    == Accept(t, "cli_start", {"pending", "paused"})
                  /\ WriteStatus(t, "planning", "idle")
CliPlan(t)     == Accept(t, "cli_plan", ProtocolStatus)
                  /\ Enter(t, "none", NoStep, "plan")
CliPause(t)    == Accept(t, "cli_pause", {"running"})
                  /\ Enter(t, "none", NoStep, "pause")
CliResume(t)   == Accept(t, "cli_resume", {"paused"})
                  /\ Enter(t, "none", NoStep, "resume")
CliCancel(t)   == Accept(t, "cli_cancel", ProtocolStatus \ Closed)
                  /\ Enter(t, "none", NoStep, "cancel")

\* The protocol status decides now whether it is set to running after the
\* step is reset: the step runs are listed afterwards.
RetryLatest(t) ==
    /\ Accept(t, "retry_latest", ProtocolStatus \ {"completed", "cancelled"})
    /\ Turn(t, [At("none", NoStep, "retry_latest") EXCEPT !.proto =
                    IF proto \in {"paused", "failed"} THEN "running" ELSE "keep"])

\* Entry points that name a step and do not look at the protocol run.
CliRetry(t, s)   == Accept(t, "cli_retry", ProtocolStatus)
                    /\ Enter(t, "none", s, "retry")
CliRunStep(t, s) == Accept(t, "cli_run_step", ProtocolStatus)
                    /\ Enter(t, "none", s, "claim")
Execute(t, s)    == Accept(t, "execute", ProtocolStatus)
                    /\ Enter(t, "none", s, "execute")
RunQa(t, s)      == Accept(t, "qa", ProtocolStatus)
                    /\ Enter(t, "none", s, "gates")
CliQa(t, s)      == Accept(t, "cli_qa", ProtocolStatus)
                    /\ Enter(t, "cli_qa", s, "gates")

Request(t) ==
    /\ \/ ApiStart(t) \/ ApiPause(t) \/ ApiResume(t) \/ ApiCancel(t)
       \/ CiFailure(t) \/ FlowSuccess(t) \/ CiSuccess(t) \/ RunNextStep(t)
       \/ Recover(t) \/ CliStart(t) \/ CliPlan(t) \/ CliPause(t)
       \/ CliResume(t) \/ CliCancel(t) \/ RetryLatest(t)
       \/ \E s \in Steps :
             CliRetry(t, s) \/ CliRunStep(t, s) \/ Execute(t, s) \/ RunQa(t, s)
                \/ CliQa(t, s)
    /\ UNCHANGED <<rows, jobs, done, orphan>>

-----------------------------------------------------------------------------
(* Protocol control, planning and completion.                              *)

\* OrchestratorService.pause_protocol, after the CLI's own check.
PauseProtocol(t) ==
    /\ thread[t].at = "pause"
    /\ \/ proto \notin Closed /\ WriteStatus(t, "paused", "idle")
       \/ proto \in Closed /\ Return(t)

ResumeProtocol(t) ==
    /\ thread[t].at = "resume"
    /\ \/ proto = "paused" /\ WriteStatus(t, "running", "enqueue")
       \/ proto # "paused" /\ Return(t)

\* Only the steps RUNNING in this listing are cancelled.
CancelProtocol(t) ==
    /\ thread[t].at = "cancel"
    /\ WriteRows(t, {s \in Steps : step[s] = "running"}, "cancelled", Keep,
                 "cancelled", "idle")

\* plan_protocol writes PLANNING first; the work in between may fail, and
\* then nothing is written.
PlanProtocol(t) ==
    \/ thread[t].at = "plan" /\ WriteStatus(t, "planning", "plan_work")
    \/ thread[t].at = "plan_work" /\ WriteStatus(t, "planned", "idle")
    \/ thread[t].at = "plan_work" /\ Return(t)

\* check_and_complete_protocol, whatever the protocol status.
CheckAndComplete(t) ==
    /\ thread[t].at = "settle"
    /\ \/ AllEnded /\ WriteStatus(t, Verdict, "idle")
       \/ ~AllEnded /\ Return(t)

-----------------------------------------------------------------------------
(* Choosing, claiming and dispatching a step.                              *)

\* _maybe_advance_protocol_on_ci.
AdvanceOnCi(t) ==
    /\ thread[t].at = "ci"
    /\ \/ ~AnyActive /\ Goto(t, "enqueue")
       \/ AnyActive /\ Return(t)

EnqueueNextStep(t) ==
    /\ thread[t].at = "enqueue"
    /\ \/ \E s \in Steps :
             /\ First(s)
             /\ Enter(t, thread[t].by, s, "claim")
       \/ ~(\E s \in Steps : Ready(s)) /\ Goto(t, "settle")

\* The run_next_step flow: the route only selects; the flow then executes.
SelectNextStep(t) ==
    /\ thread[t].at = "select"
    /\ \/ \E s \in Steps :
             /\ First(s)
             /\ Enter(t, "none", s, "execute")
       \/ ~(\E s \in Steps : Ready(s)) /\ Return(t)

\* run_step: a recovery that finds its step taken blocks the protocol.
RunStep(t) ==
    LET s == thread[t].step IN
    /\ thread[t].at = "claim"
    /\ \/ /\ step[s] \in {"pending", "failed", "blocked"}
          /\ WriteRows(t, {s}, "running", Keep, "keep", "dispatch")
       \/ /\ step[s] \notin {"pending", "failed", "blocked"}
          /\ thread[t].by = "recovery"
          /\ WriteStatus(t, "blocked", "idle")
       \/ /\ step[s] \notin {"pending", "failed", "blocked"}
          /\ thread[t].by # "recovery"
          /\ Return(t)

\* The CLI builds its orchestrator without a Windmill client and without an
\* execution service, and so does the API when Windmill is off.
HasClient(t) == WindmillEnabled /\ thread[t].by \in {"webhook", "recovery"}

SubmitJob(t) ==
    /\ thread[t].at = "dispatch"
    /\ HasClient(t)
    /\ jobs' = [jobs EXCEPT ![thread[t].step] = @ + 1]
    /\ Return(t)
    /\ UNCHANGED <<rows, done, orphan>>

\* run_script raises, or there is nothing to submit to: RUNNING stays.
NoSubmission(t) ==
    /\ thread[t].at = "dispatch"
    /\ HasClient(t) => "submit_fails" \in Faults
    /\ orphan' = orphan \cup {thread[t].step}
    /\ Return(t)
    /\ UNCHANGED <<rows, jobs, done>>

\* A retry that starts a new count.
RetryStepReset(t) ==
    LET s == thread[t].step IN
    /\ thread[t].at = "retry"
    /\ \/ /\ step[s] \in {"failed", "blocked", "timeout"}
          /\ WriteRows(t, {s}, "pending", 0, "keep", "claim")
       \/ /\ step[s] \notin {"failed", "blocked", "timeout"}
          /\ Return(t)

\* OrchestratorService.retry_step.
RetryStep(t) ==
    LET s == thread[t].step
        may == step[s] \in {"failed", "blocked", "timeout"} /\ retries[s] < MaxRetries
    IN
    /\ thread[t].at = "retry"
    /\ \/ may /\ WriteRows(t, {s}, "pending", retries[s] + 1, "keep", "claim")
       \/ ~may /\ Return(t)

\* The retry_latest route; it starts nothing.
RetryLatestStep(t) ==
    /\ thread[t].at = "retry_latest"
    /\ \/ \E s \in Steps :
             /\ Latest(s)
             /\ retries[s] < MaxRetries
             /\ WriteRows(t, {s}, "pending", retries[s] + 1, thread[t].proto, "idle")
       \/ /\ \A s \in Steps : Latest(s) => retries[s] >= MaxRetries
          /\ Return(t)

-----------------------------------------------------------------------------
(* Executing a step and judging it.                                        *)

\* A worker that does not check that a job waits.
StartAnyJob(w) ==
    /\ thread[w].at = "idle"
    /\ \E s \in Steps :
          /\ step[s] = "running"
          /\ jobs' = [jobs EXCEPT ![s] = @ - 1]
          /\ Enter(w, "none", s, "execute")
    /\ UNCHANGED <<rows, done, orphan>>

\* A Windmill worker takes a job and calls the execute route.
StartJob(w) ==
    /\ thread[w].at = "idle"
    /\ \E s \in Steps :
          /\ jobs[s] > 0
          /\ jobs' = [jobs EXCEPT ![s] = @ - 1]
          /\ Enter(w, "none", s, "execute")
    /\ UNCHANGED <<rows, done, orphan>>

\* ExecutionService.execute_step up to the engine call: an open blocking
\* clarification or policy finding blocks, everything else runs, whatever
\* the two statuses are.
ExecuteStep(t) ==
    LET s == thread[t].step IN
    /\ thread[t].at = "execute"
    /\ \/ WriteRows(t, {s}, "blocked", Keep, "blocked", "idle")
       \/ WriteRows(t, {s}, "running", Keep, "running", "engine")

\* An execution that leaves the step to a QA run somebody else must ask for.
EngineReturnsNoQa(t) ==
    /\ thread[t].at = "engine"
    /\ \/ WriteRows(t, {thread[t].step}, "needs_qa", Keep, "keep", "idle")
       \/ WriteRows(t, {thread[t].step}, "failed", Keep, "blocked", "idle")

\* _handle_result, _fail_step_pre_execution and the except clause.
EngineReturns(t) ==
    LET s == thread[t].step IN
    /\ thread[t].at = "engine"
    /\ \/ WriteRows(t, {s}, "needs_qa", Keep, "keep", "gates")
       \/ \E o \in {"blocked", "failed", "timeout"} :
             WriteRows(t, {s}, o, Keep, "blocked", "idle")
       \/ /\ "engine_raises" \in Faults
          /\ WriteRows(t, {s}, "failed", Keep, "keep", "idle")

\* QA without the check that follows it.
GatesReturnNoCheck(t) ==
    /\ thread[t].at = "gates"
    /\ \/ WriteRows(t, {thread[t].step}, "completed", Keep, "keep", "idle")
       \/ WriteRows(t, {thread[t].step}, "failed", Keep, "blocked", "idle")

\* run_qa and the check that follows it, except in the CLI's "step qa".
GatesReturn(t) ==
    LET s == thread[t].step
        next == IF thread[t].by = "cli_qa" THEN "idle" ELSE "settle"
    IN
    /\ thread[t].at = "gates"
    /\ \/ WriteRows(t, {s}, "completed", Keep, "keep", next)
       \/ WriteRows(t, {s}, "failed", Keep, "blocked", next)

\* The automatic QA swallows the exception, the route answers 500.
GatesRaise(t) ==
    /\ "qa_raises" \in Faults
    /\ thread[t].at = "gates"
    /\ orphan' = orphan \cup {thread[t].step}
    /\ Return(t)
    /\ UNCHANGED <<rows, jobs, done>>

-----------------------------------------------------------------------------
(* recover_stuck_protocols decides on one listing but completes on another.*)

RecoverList(t) ==
    /\ thread[t].at = "recover"
    /\ \/ AnyActive /\ Return(t)
       \/ /\ ~AnyActive
          /\ (\E s \in Steps : step[s] \in {"failed", "timeout", "blocked"})
                \/ ~(\E s \in Steps : Ready(s))
          /\ Turn(t, [At("recovery", NoStep, "recover_check") EXCEPT !.proto = "blocked"])
       \/ /\ ~AnyActive
          /\ \A s \in Steps : step[s] \notin {"failed", "timeout", "blocked"}
          /\ \E s \in Steps :
                /\ First(s)
                /\ Enter(t, "recovery", s, "recover_check")

RecoverCheck(t) ==
    /\ thread[t].at = "recover_check"
    /\ \/ AllEnded /\ WriteStatus(t, Verdict, "idle")
       \/ ~AllEnded /\ thread[t].proto = "blocked" /\ WriteStatus(t, "blocked", "idle")
       \/ ~AllEnded /\ thread[t].proto = "keep" /\ Goto(t, "claim")

\* The process a thread runs in dies.
Crash(t) ==
    /\ "crash" \in Faults
    /\ thread[t].at # "idle"
    /\ orphan' = orphan \cup ({thread[t].step} \cap Steps)
    /\ Return(t)
    /\ UNCHANGED <<rows, jobs, done>>

-----------------------------------------------------------------------------
Decide(t) ==
    /\ \/ PauseProtocol(t) \/ ResumeProtocol(t) \/ CancelProtocol(t)
       \/ PlanProtocol(t) \/ CheckAndComplete(t) \/ AdvanceOnCi(t)
       \/ EnqueueNextStep(t) \/ SelectNextStep(t) \/ RunStep(t)
       \/ RetryStep(t) \/ RetryLatestStep(t) \/ ExecuteStep(t)
       \/ EngineReturns(t) \/ GatesReturn(t)
       \/ RecoverList(t) \/ RecoverCheck(t)
    /\ UNCHANGED <<rows, jobs, done, orphan>>

Progress(t) ==
    \/ Decide(t) \/ WriteStep(t) \/ WriteProtocol(t)
    \/ SubmitJob(t) \/ NoSubmission(t) \/ GatesRaise(t)

Init ==
    /\ proto = "planned"
    /\ step = [s \in Steps |-> "pending"]
    /\ retries = [s \in Steps |-> 0]
    /\ jobs = [s \in Steps |-> 0]
    /\ thread = [t \in Threads |-> Idle]
    /\ done = {}
    /\ orphan = {}

Next ==
    \/ \E t \in Callers : Request(t)
    \/ \E w \in Workers : StartJob(w)
    \/ \E t \in Threads : Progress(t) \/ Crash(t)

Spec == Init /\ [][Next]_vars

\* A handler that has begun goes on, and a waiting job is taken by a worker.
Fairness ==
    /\ \A t \in Threads : WF_vars(Progress(t))
    /\ \A w \in Workers : WF_vars(StartJob(w))

FairSpec == Spec /\ Fairness
-----------------------------------------------------------------------------
(* Properties.                                                             *)

\* Type invariant: the rows hold known statuses, and a thread that works on
\* a step names one.
TypeOK ==
    /\ proto \in ProtocolStatus
    /\ step \in [Steps -> StepStatus]
    /\ retries \in [Steps -> Nat]
    /\ jobs \in [Steps -> Nat]
    /\ thread \in [Threads -> ThreadState]
    /\ done \in SUBSET Steps
    /\ orphan \in SUBSET Steps

\* A thread at one of these labels will move its step out of flight, or give
\* it up.
OwnerLabels == {"dispatch", "execute", "engine", "gates"}

Owns(t, s) ==
    /\ thread[t].step = s
    /\ \/ thread[t].at \in OwnerLabels
       \/ thread[t].at = "write" /\ (s \in thread[t].rows \/ thread[t].next \in OwnerLabels)

\* No step is forgotten in flight: a step whose row says RUNNING or NEEDS_QA
\* waits in a Windmill job, is in the hands of a handler, or was given up (no
\* client to submit to, a failed submission, a crash).  However many handlers
\* interleave, a RUNNING row is never left behind by two of them that
\* overwrite each other's result.
InFlightOwned ==
    \A s \in Steps : step[s] \in Active =>
        jobs[s] > 0 \/ s \in orphan \/ \E t \in Threads : Owns(t, s)

\* The schedule follows the dependencies: a step leaves PENDING only when
\* every step run it depends on has been COMPLETED, even though the list of
\* completed steps is read long before the row is written.
DependencyOrder ==
    \A s \in Steps : step[s] # "pending" => Deps[s] \subseteq done

Executes(t, s) == thread[t].step = s /\ thread[t].at \in {"execute", "engine", "gates"}

\* One execution per step: between selecting a step, marking it RUNNING, the
\* job that waits and the execution itself, one dispatcher never gets a step
\* executed by two threads or queued while it is executed.  It speaks of the
\* dispatch: a job is run once here, and that Windmill restarts the job of a
\* worker which seems dead is the subject of module WindmillJobs.
SingleExecution ==
    \A s \in Steps :
        /\ jobs[s] <= 1
        /\ jobs[s] = 1 => \A t \in Threads : ~Executes(t, s)
        /\ \A t, u \in Threads : Executes(t, s) /\ Executes(u, s) => t = u

\* A COMPLETED protocol run has no step left to run and none that is FAILED,
\* although the verdict is written after the step runs were listed.  A step
\* that timed out is admitted: check_and_complete_protocol counts it as ended
\* and not as failed.
CompletedIsSound ==
    proto = "completed" =>
        \A s \in Steps : step[s] \in {"completed", "cancelled", "skipped", "timeout"}

\* Retries only grow, and only with a step that had stopped and is pending
\* again: no execution is discarded by a retry, no retry is forgotten.
RetriesCount ==
    [][\A s \in Steps : retries'[s] # retries[s] =>
          /\ retries'[s] = retries[s] + 1
          /\ step[s] \in {"failed", "blocked", "timeout"}
          /\ step'[s] = "pending"]_vars

\* A step does not stay RUNNING or NEEDS_QA for ever, whoever else writes to
\* its row, unless a submission or QA failed or a process died over it.
StepLeavesFlight ==
    \A s \in Steps : step[s] \in Active ~> (step[s] \notin Active \/ s \in orphan)

\* A RUNNING protocol run whose step runs have all ended gets its verdict: no
\* interleaving of the last executions with each other, with a pause or with
\* resume_protocol leaves it RUNNING for ever.  It is not claimed of the API's
\* resume, which writes RUNNING over a verdict that was written meanwhile and
\* starts nothing, of an engine that raises, or of a crash.
VerdictReached ==
    (proto = "running" /\ AllEnded) ~> (proto # "running" \/ ~AllEnded)

\* One dispatcher implements the schedule that module StepSchedule promises.
Phase(st) ==
    CASE st = "pending"   -> "waiting"
      [] st \in Active    -> "working"
      [] st = "completed" -> "succeeded"
      [] OTHER            -> "stopped"

Schedule == INSTANCE StepSchedule
            WITH phase <- [s \in Steps |-> Phase(step[s])], attempts <- retries

ImplementsSchedule == Schedule!ScheduleSpec
=============================================================================
