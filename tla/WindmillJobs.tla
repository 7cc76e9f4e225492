----------------------------- MODULE WindmillJobs -----------------------------
(***************************************************************************)
(* The job queue of the vendored Windmill: push, pull, the worker's poller *)
(* and its completion of the job, the cancellation by the API server and   *)
(* the monitor that restarts the jobs whose worker is silent.              *)
(*                                                                         *)
(* All of them share the database only.  A completion is two steps: the    *)
(* INSERT ... SELECT FROM v2_job_queue ... ON CONFLICT DO UPDATE reads the *)
(* queue when it begins, and the transaction writes and deletes when it    *)
(* commits.  Every other statement is one step.                            *)
(***************************************************************************)
EXTENDS Naturals, FiniteSets

CONSTANTS
    Jobs,
    Steps,          \* the jobs that are steps of a flow: they have a parent_job
    Workers,        \* each runs one job at a time
    Requests,       \* requests to cancel a job
    NoJob,
    RestartLimit,   \* RESTART_LIMIT
    Stalls          \* whether a live worker may miss ZOMBIE_JOB_TIMEOUT

ASSUME NoJobAssumption        == NoJob \notin Jobs
ASSUME StepsAssumption        == Steps \subseteq Jobs
ASSUME RestartLimitAssumption == RestartLimit \in Nat
ASSUME StallsAssumption       == Stalls \in BOOLEAN

VARIABLES
    queue,      \* v2_job_queue: no row, running = false, running = true
    canceledBy, \* the rows whose canceled_by is set
    ping,       \* v2_job_runtime.ping: null, recent, or past the timeout
    counter,    \* zombie_job_counter
    outcome,    \* v2_job_completed.status
    at,         \* where each worker is
    holds,      \* the job it pulled
    verdict,    \* the status it is about to record
    request,    \* where each cancellation is, and its job
    doomed,     \* the jobs the monitor is about to fail
    failing,    \* and those it is committing as failed
    starts      \* history: how often each job's code was started

row     == <<queue, canceledBy, ping>>
works   == <<at, holds, verdict>>
monitor == <<doomed, failing>>
vars    == <<row, counter, outcome, works, request, monitor, starts>>

Ended == {"success", "failure", "canceled"}

HeldBy(w, j) == holds[w] = j
Busy(w)      == at[w] # "idle"

-----------------------------------------------------------------------------
(* The client pushes a job, a worker pulls it.                             *)

Push(j) ==
    /\ queue[j] = "absent" /\ outcome[j] = "none"
    /\ queue' = [queue EXCEPT ![j] = "queued"]
    /\ UNCHANGED <<canceledBy, ping, counter, outcome, works, request,
                   monitor, starts>>

\* A pull that does not ask that the job is not running.
PullAgain(w, j) ==
    /\ at[w] = "idle"
    /\ queue[j] # "absent"
    /\ queue' = [queue EXCEPT ![j] = "running"]
    /\ ping' = [ping EXCEPT ![j] = "recent"]
    /\ holds' = [holds EXCEPT ![w] = j]
    /\ at' = [at EXCEPT ![w] = "executing"]
    /\ starts' = [starts EXCEPT ![j] = @ + 1]
    /\ UNCHANGED <<canceledBy, counter, outcome, verdict, request, monitor>>

\* A pull that executes what is cancelled.
PullCancelled(w, j) ==
    /\ queue[j] = "queued"
    /\ PullAgain(w, j)

\* The statement of the pull, for the row that its peek selects.
TakeRow(j) ==
    /\ queue[j] = "queued"
    /\ queue' = [queue EXCEPT ![j] = "running"]
    /\ ping' = [ping EXCEPT ![j] = "recent"]

\* A job that is pulled cancelled is reported as failed and not executed.
HandleQueuedJob(w, j) ==
    \/ /\ j \notin canceledBy
       /\ at' = [at EXCEPT ![w] = "executing"]
       /\ starts' = [starts EXCEPT ![j] = @ + 1]
       /\ UNCHANGED verdict
    \/ /\ j \in canceledBy
       /\ at' = [at EXCEPT ![w] = "retrying"]
       /\ verdict' = [verdict EXCEPT ![w] = "failure"]
       /\ UNCHANGED starts

Pull(w, j) ==
    /\ at[w] = "idle"
    /\ TakeRow(j)
    /\ holds' = [holds EXCEPT ![w] = j]
    /\ HandleQueuedJob(w, j)
    /\ UNCHANGED <<canceledBy, counter, outcome, request, monitor>>

-----------------------------------------------------------------------------
(* The worker: the child process and the poller beside it.                 *)

Report(w, status) ==
    /\ at[w] = "executing"
    /\ at' = [at EXCEPT ![w] = "reporting"]
    /\ verdict' = [verdict EXCEPT ![w] = status]
    /\ UNCHANGED holds

Release(w) ==
    /\ at' = [at EXCEPT ![w] = "idle"]
    /\ holds' = [holds EXCEPT ![w] = NoJob]
    /\ verdict' = [verdict EXCEPT ![w] = "none"]

ChildExits(w) ==
    /\ \E status \in {"success", "failure"} : Report(w, status)
    /\ UNCHANGED <<row, counter, outcome, request, monitor, starts>>

\* set_job_cancelled_query writes whatever the row says, if there is one.
ChildTimesOut(w) ==
    /\ Report(w, "failure")
    /\ canceledBy' = IF queue[holds[w]] = "absent"
                     THEN canceledBy ELSE canceledBy \cup {holds[w]}
    /\ UNCHANGED <<queue, ping, counter, outcome, request, monitor, starts>>

\* update_job_ping_query: the ping is written if the row exists, and the
\* answer says whether it does and whether it is cancelled.
Poll(w) ==
    /\ at[w] = "executing"
    /\ \/ /\ queue[holds[w]] = "absent"
          /\ Release(w)
          /\ UNCHANGED ping
       \/ /\ queue[holds[w]] # "absent"
          /\ ping' = [ping EXCEPT ![holds[w]] = "recent"]
          /\ IF holds[w] \in canceledBy
             THEN Report(w, "canceled") ELSE UNCHANGED works
    /\ UNCHANGED <<queue, canceledBy, counter, outcome, request, monitor, starts>>

\* The worker dies; another takes its place.
Crash(w) ==
    /\ Busy(w)
    /\ Release(w)
    /\ UNCHANGED <<row, counter, outcome, request, monitor, starts>>

-----------------------------------------------------------------------------
(* commit_completed_job.                                                   *)

\* A completion that leaves the row in the queue.
CompleteAndKeep(j, status) ==
    /\ outcome' = [outcome EXCEPT ![j] = status]
    /\ UNCHANGED <<queue, canceledBy, ping>>

\* The writes of the transaction: the status overwrites another one, and the
\* queue's row goes, if it has not gone already.
Complete(j, status) ==
    /\ outcome' = [outcome EXCEPT ![j] = status]
    /\ queue' = [queue EXCEPT ![j] = "absent"]
    /\ canceledBy' = canceledBy \ {j}
    /\ ping' = [ping EXCEPT ![j] = "null"]

\* Without a row to select from the job is already completed.
BeginReport(w) ==
    /\ at[w] \in {"reporting", "retrying"}
    /\ IF queue[holds[w]] # "absent"
       THEN at' = [at EXCEPT ![w] = "committing"] /\ UNCHANGED <<holds, verdict>>
       ELSE Release(w)
    /\ UNCHANGED <<row, counter, outcome, request, monitor, starts>>

CommitReport(w) ==
    /\ at[w] = "committing"
    /\ Complete(holds[w], verdict[w])
    /\ Release(w)
    /\ UNCHANGED <<counter, request, monitor, starts>>

\* A job that cannot be completed is dropped from the queue.
ReportFailsAndDeletes(w) ==
    /\ at[w] = "retrying"
    /\ queue' = [queue EXCEPT ![holds[w]] = "absent"]
    /\ Release(w)
    /\ UNCHANGED <<canceledBy, ping, counter, outcome, request, monitor, starts>>

\* The completion fails for good: it is tried once more as an error, and when
\* that fails too the job is left as it is.
ReportFails(w) ==
    /\ \/ /\ at[w] = "reporting"
          /\ at' = [at EXCEPT ![w] = "retrying"]
          /\ verdict' = [verdict EXCEPT ![w] =
                            IF @ = "success" THEN "failure" ELSE @]
          /\ UNCHANGED holds
       \/ at[w] = "retrying" /\ Release(w)
    /\ UNCHANGED <<row, counter, outcome, request, monitor, starts>>

-----------------------------------------------------------------------------
(* cancel_job: a read of the row, and later what the read led to.          *)

Moves(r, to) == request' = [request EXCEPT ![r].at = to]

\* A root job that is not running, and any job by force, is completed by a
\* spawned task; the others are marked.
ReadToCancel(r, j, force) ==
    /\ request[r].at = "new"
    /\ queue[j] # "absent"
    /\ LET spawn == force \/ (j \notin Steps /\ queue[j] = "queued")
       IN  request' = [request EXCEPT ![r] =
                          [at |-> IF spawn THEN "spawned" ELSE "marking", job |-> j]]
    /\ UNCHANGED <<row, counter, outcome, works, monitor, starts>>

Mark(r) ==
    /\ request[r].at = "marking"
    /\ canceledBy' = IF queue[request[r].job] = "absent"
                     THEN canceledBy ELSE canceledBy \cup {request[r].job}
    /\ Moves(r, "done")
    /\ UNCHANGED <<queue, ping, counter, outcome, works, monitor, starts>>

BeginCancel(r) ==
    /\ request[r].at = "spawned"
    /\ Moves(r, IF queue[request[r].job] = "absent" THEN "done" ELSE "committing")
    /\ UNCHANGED <<row, counter, outcome, works, monitor, starts>>

CommitCancel(r) ==
    /\ request[r].at = "committing"
    /\ Complete(request[r].job, "canceled")
    /\ Moves(r, "done")
    /\ UNCHANGED <<counter, works, monitor, starts>>

\* The task dies with the server, or its completion fails.
LoseCancel(r) ==
    /\ request[r].at \in {"spawned", "committing"}
    /\ Moves(r, "done")
    /\ UNCHANGED <<row, counter, outcome, works, monitor, starts>>

-----------------------------------------------------------------------------
(* handle_zombie_jobs.                                                     *)

\* ZOMBIE_JOB_TIMEOUT passes without a ping.
PingExpires(j) ==
    /\ ping[j] = "recent"
    /\ Stalls \/ \A w \in Workers : ~HeldBy(w, j)
    /\ ping' = [ping EXCEPT ![j] = "old"]
    /\ UNCHANGED <<queue, canceledBy, counter, outcome, works, request,
                   monitor, starts>>

\* A statement that does not select the jobs that reached the limit.
ZombiesBelowLimit ==
    {j \in Jobs : queue[j] = "running" /\ ping[j] = "old" /\ counter[j] < RestartLimit}

Zombies == {j \in Jobs : queue[j] = "running" /\ ping[j] = "old"}

\* The limit counted as the last restart that is allowed.
RestartedOnceMore == {j \in Zombies : counter[j] <= RestartLimit}

Restarted == {j \in Zombies : counter[j] < RestartLimit}

\* A restart that is not counted.
MonitorRoundUncounted ==
    /\ Restarted # {}
    /\ queue' = [j \in Jobs |-> IF j \in Restarted THEN "queued" ELSE queue[j]]
    /\ ping' = [j \in Jobs |-> IF j \in Restarted THEN "null" ELSE ping[j]]
    /\ UNCHANGED <<canceledBy, counter, outcome, works, request, monitor, starts>>

\* The statement restarts by the counter it read; the list of the jobs to fail
\* is made from that counter plus one.
MonitorRound ==
    /\ Zombies # {}
    /\ queue' = [j \in Jobs |-> IF j \in Restarted THEN "queued" ELSE queue[j]]
    /\ ping' = [j \in Jobs |-> IF j \in Restarted THEN "null" ELSE ping[j]]
    /\ counter' = [j \in Jobs |-> IF j \in Restarted THEN counter[j] + 1
                                                     ELSE counter[j]]
    /\ doomed' = doomed \cup {j \in Zombies : ~(counter[j] + 1 < RestartLimit)}
    /\ UNCHANGED <<canceledBy, outcome, works, request, failing, starts>>

BeginFail(j) ==
    /\ j \in doomed
    /\ doomed' = doomed \ {j}
    /\ failing' = IF queue[j] = "absent" THEN failing ELSE failing \cup {j}
    /\ UNCHANGED <<row, counter, outcome, works, request, starts>>

CommitFail(j) ==
    /\ j \in failing
    /\ failing' = failing \ {j}
    /\ Complete(j, "failure")
    /\ UNCHANGED <<counter, works, request, doomed, starts>>

\* A statement of the monitor fails, or its server stops.
MonitorGivesUp(j) ==
    /\ j \in doomed \cup failing
    /\ doomed' = doomed \ {j}
    /\ failing' = failing \ {j}
    /\ UNCHANGED <<row, counter, outcome, works, request, starts>>

-----------------------------------------------------------------------------
Init ==
    /\ queue = [j \in Jobs |-> "absent"]
    /\ canceledBy = {}
    /\ ping = [j \in Jobs |-> "null"]
    /\ counter = [j \in Jobs |-> 0]
    /\ outcome = [j \in Jobs |-> "none"]
    /\ at = [w \in Workers |-> "idle"]
    /\ holds = [w \in Workers |-> NoJob]
    /\ verdict = [w \in Workers |-> "none"]
    /\ request = [r \in Requests |-> [at |-> "new", job |-> NoJob]]
    /\ doomed = {}
    /\ failing = {}
    /\ starts = [j \in Jobs |-> 0]

Worker(w) ==
    \/ ChildExits(w) \/ ChildTimesOut(w) \/ Poll(w)
    \/ BeginReport(w) \/ CommitReport(w) \/ ReportFails(w)

Cancellation(r) == Mark(r) \/ BeginCancel(r) \/ CommitCancel(r) \/ LoseCancel(r)

Next ==
    \/ \E j \in Jobs :
        \/ Push(j)
        \/ \E w \in Workers : Pull(w, j)
        \/ \E r \in Requests, force \in BOOLEAN : ReadToCancel(r, j, force)
        \/ PingExpires(j) \/ BeginFail(j) \/ CommitFail(j) \/ MonitorGivesUp(j)
    \/ \E w \in Workers : Worker(w) \/ Crash(w)
    \/ \E r \in Requests : Cancellation(r)
    \/ MonitorRound

\* Workers and the monitor loop for ever, an execution ends by itself or by
\* its timeout, and a job that is silent is found silent.  That a failing of
\* the monitor is not lost each time needs the stronger fairness.
Fairness ==
    /\ \A j \in Jobs :
        /\ WF_vars(\E w \in Workers : Pull(w, j))
        /\ WF_vars(PingExpires(j))
        /\ SF_vars(BeginFail(j))
        /\ SF_vars(CommitFail(j))
    /\ \A w \in Workers :
        /\ WF_vars(ChildExits(w) \/ ChildTimesOut(w))
        /\ WF_vars(BeginReport(w) \/ ReportFails(w))
        /\ WF_vars(CommitReport(w))
    /\ WF_vars(MonitorRound)

Spec     == Init /\ [][Next]_vars
FairSpec == Spec /\ Fairness

-----------------------------------------------------------------------------
(* Properties.                                                             *)

TypeOK ==
    /\ queue \in [Jobs -> {"absent", "queued", "running"}]
    /\ canceledBy \subseteq Jobs
    /\ ping \in [Jobs -> {"null", "recent", "old"}]
    /\ counter \in [Jobs -> 0 .. RestartLimit]
    /\ outcome \in [Jobs -> Ended \cup {"none"}]
    /\ at \in [Workers -> {"idle", "executing", "reporting", "retrying", "committing"}]
    /\ holds \in [Workers -> Jobs \cup {NoJob}]
    /\ verdict \in [Workers -> Ended \cup {"none"}]
    /\ request \in [Requests -> [at : {"new", "marking", "spawned", "committing", "done"},
                                 job : Jobs \cup {NoJob}]]
    /\ doomed \subseteq Jobs
    /\ failing \subseteq Jobs
    /\ starts \in [Jobs -> Nat]

\* A job is queued or completed, never both, and one that is marked running
\* has a ping: without it the monitor would never see that its worker died.
Accounted ==
    \A j \in Jobs :
        /\ queue[j] = "absent" \/ outcome[j] = "none"
        /\ queue[j] = "running" => ping[j] # "null"

\* Every execution of a job's code after the first is owed to a restart that
\* the monitor counted, so a job whose workers die runs a bounded number of
\* times.
OwedStarts ==
    \A j \in Jobs :
        /\ starts[j] <= counter[j] + 1
        /\ queue[j] = "queued" => starts[j] <= counter[j]

\* Two workers have the same job only when one of them missed the timeout and
\* the monitor gave the job away.
SharedOnlyAfterRestart ==
    \A w1, w2 \in Workers :
        w1 # w2 /\ holds[w1] = holds[w2] /\ holds[w1] # NoJob
            => Stalls /\ counter[holds[w1]] > 0

\* Once a row is marked as cancelled the job's code is not started any more,
\* not even by a restart.
CancelledNotStarted == [][\A j \in canceledBy : starts'[j] = starts[j]]_vars

\* The job service that its clients rely on: a lost row would be a step back
\* to "absent", and a job that ended is never queued again.
Service == INSTANCE JobService WITH
    job <- [j \in Jobs |-> IF outcome[j] = "none" THEN queue[j] ELSE outcome[j]]
ServesJobs == Service!Spec

\* A pushed job ends, however often the workers that execute it die or stall.
EveryJobEnds == \A j \in Jobs : queue[j] # "absent" ~> outcome[j] # "none"
===============================================================================
