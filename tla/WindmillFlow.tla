----------------------------- MODULE WindmillFlow -----------------------------
(***************************************************************************)
(* How a flow of the vendored Windmill goes from one module to the next.   *)
(* There is no coordinator: the worker that completes a job updates the    *)
(* status of the job's flow and pushes the next module's jobs or completes *)
(* the flow in turn and goes on with the flow's own parent.  The monitor   *)
(* looks for the flows whose last worker died between two transactions.    *)
(*                                                                         *)
(* A flow is what FlowGenerator makes: a sequence of modules, each a job   *)
(* or a parallel branchall, of which every branch is a flow of its own.    *)
(* How a single job is queued and restarted in detail is WindmillJobs,     *)
(* with workers that only look dead to the monitor.  Here who looks dead   *)
(* is dead: a push is decided from the status that was read with the flow  *)
(* and written whatever the status is by then, so that two workers at one  *)
(* flow, a stalled one and one that was given the restarted flow, push a   *)
(* module twice, as jobs with new ids for which the plan has no name.      *)
(***************************************************************************)
EXTENDS Naturals, Sequences, FiniteSets

CONSTANTS
    Jobs,
    Plan,           \* of each flow, the sets of jobs of its modules
    Root,
    Workers,
    Monitor,        \* a process as well: it too updates flows
    NoJob,
    MaxFaults,      \* how many processes die or statements fail
    MaxCancels,     \* how often the user cancels the flow
    FailsAt         \* where statements fail

Flows   == DOMAIN Plan
Leaves  == Jobs \ Flows
Process == Workers \cup {Monitor}
Last(f) == Len(Plan[f])
Children(f) == UNION {Plan[f][i] : i \in 1 .. Last(f)}
Parallel(f, i) == i <= Last(f) /\ Cardinality(Plan[f][i]) > 1
Parent(j) == IF j = Root THEN NoJob ELSE CHOOSE f \in Flows : j \in Children(f)

ASSUME PlanAssumption ==
    /\ Flows \subseteq Jobs /\ Root \in Flows /\ NoJob \notin Jobs
    /\ \A f \in Flows : Plan[f] \in Seq(SUBSET Jobs) /\ Last(f) > 0 /\ Root \notin Children(f)
    /\ \A j \in Jobs \ {Root} :
        \E f \in Flows : \E i \in DOMAIN Plan[f] :
            /\ j \in Plan[f][i]
            /\ \A g \in Flows : \A k \in DOMAIN Plan[g] :
                j \in Plan[g][k] => g = f /\ k = i
ASSUME ProcessAssumption == Monitor \notin Workers
ASSUME BoundsAssumption  == MaxFaults \in Nat /\ MaxCancels \in Nat

VARIABLES
    queue,      \* v2_job_queue: no row, running = false, running = true
    canceledBy, \* the rows whose canceled_by is set
    outcome,    \* v2_job_completed.status
    ping,       \* the flows whose ping is not null
    lock,       \* parallel_monitor_lock: no row, without last_ping, with it
    step,       \* flow_status.step of each flow, from 1
    status,     \* the status of its modules
    branch,     \* branchall.branch of its modules
    reported,   \* the branches with a value in flow_jobs_success
    work,       \* what each process is doing
    killing,    \* the jobs a forced cancellation is about to complete
    asked,      \* how often the user has cancelled the flow
    faults,     \* how many faults there were
    died        \* history: where processes died

row    == <<queue, canceledBy, outcome>>
signs  == <<ping, lock>>
flows  == <<step, status, branch, reported>>
budget == <<faults, died>>
vars   == <<row, signs, flows, work, killing, asked, budget>>

Idle == [at |-> "idle", job |-> NoJob, flow |-> NoJob, sub |-> NoJob,
         ok |-> FALSE, tries |-> 0, seen |-> 0, branchall |-> FALSE,
         canceled |-> FALSE]

Goes(p, w) == work' = [work EXCEPT ![p] = w]
At(p, place) == work[p].at = place

\* update_flow_status_after_job_completion for flow f, called with the job j by
\* process_completed_job (tries = 0) or by handle_job_error (tries = 2).
Reports(p, j, f, sub, ok, tries) ==
    Goes(p, [Idle EXCEPT !.at = "reading", !.job = j, !.flow = f,
                         !.sub = sub, !.ok = ok, !.tries = tries])

Queued(j)   == queue[j] # "absent"
Canceled(j) == j \in canceledBy

-----------------------------------------------------------------------------
(* commit_completed_job, for a job whose row is there: the parent's ping    *)
(* says that a transition is going on, and so does the lock of a branch     *)
(* that update_flow_status completes.                                       *)

Complete(j, verdict, flowIsDone) ==
    /\ outcome' = [outcome EXCEPT ![j] = verdict]
    /\ queue' = [queue EXCEPT ![j] = "absent"]
    /\ canceledBy' = canceledBy \ {j}
    /\ ping' = IF j # Root /\ Queued(Parent(j)) /\ ~Canceled(Parent(j))
               THEN ping \cup {Parent(j)} ELSE ping
    /\ lock' = IF flowIsDone /\ lock[j] # "none"
               THEN [lock EXCEPT ![j] = "pinged"] ELSE lock

\* The job is already completed when there is no row.
CompleteIfQueued(j, verdict) ==
    IF Queued(j) THEN Complete(j, verdict, FALSE) ELSE UNCHANGED <<row, signs>>

-----------------------------------------------------------------------------
(* A worker takes a job.                                                    *)

\* A flow is pushed on, a job is executed, and what is cancelled fails.
Pull(w, j) ==
    /\ At(w, "idle")
    /\ queue[j] = "queued"
    /\ queue' = [queue EXCEPT ![j] = "running"]
    /\ ping' = IF j \in Flows THEN ping \cup {j} ELSE ping
    /\ \/ /\ Canceled(j)
          /\ Goes(w, [Idle EXCEPT !.at = "failing", !.job = j])
       \/ /\ ~Canceled(j) /\ j \in Leaves
          /\ Goes(w, [Idle EXCEPT !.at = "executing", !.job = j])
       \/ /\ ~Canceled(j) /\ j \in Flows
          /\ Goes(w, [Idle EXCEPT !.at = "starting", !.job = j, !.flow = j,
                                  !.seen = step[j]])
    /\ UNCHANGED <<canceledBy, outcome, lock, flows, killing, asked, budget>>

\* process_completed_job.  When the job is already completed handle_job_error
\* updates the flow nevertheless, with a failure.
ChildEnds(w, verdict) ==
    LET j == work[w].job
    IN  /\ At(w, "executing")
        /\ verdict = "canceled" => Canceled(j)
        /\ IF Queued(j)
           THEN /\ Complete(j, verdict, FALSE)
                /\ Reports(w, j, Parent(j), j, verdict = "success", 0)
           ELSE /\ Reports(w, j, Parent(j), j, FALSE, 2)
                /\ UNCHANGED <<row, signs>>
        /\ UNCHANGED <<flows, killing, asked, budget>>

\* The poller finds no row and stops the child.
Poll(w) ==
    /\ At(w, "executing")
    /\ ~Queued(work[w].job)
    /\ Goes(w, Idle)
    /\ UNCHANGED <<row, signs, flows, killing, asked, budget>>

\* handle_job_error, for a job that could not be handled at all.
FailJob(p) ==
    LET j == work[p].job
    IN  /\ At(p, "failing")
        /\ IF j = Root
           THEN /\ Reports(p, j, j, NoJob, FALSE, 2)
                /\ UNCHANGED <<row, signs>>
           ELSE /\ Reports(p, j, Parent(j), j, FALSE, 2)
                /\ CompleteIfQueued(j, "failure")
        /\ UNCHANGED <<flows, killing, asked, budget>>

-----------------------------------------------------------------------------
(* update_flow_status_after_job_completion_internal.                        *)

\* What the transaction decides from is read before it.
ReadStatus(p) ==
    /\ At(p, "reading")
    /\ LET f == work[p].flow
       IN  Goes(p, [work[p] EXCEPT
               !.at = "updating", !.seen = step[f],
               !.branchall = Parallel(f, step[f]) /\ status[f][step[f]] = "progress"])
    /\ UNCHANGED <<row, signs, flows, killing, asked, budget>>

\* A module that is judged by one of its branches.
JudgedByOne(f, i) == \E j \in Plan[f][i] : outcome[j] = "success"

Judged(f, i) == \A j \in Plan[f][i] : outcome[j] \in {"none", "success"}

Free(f) == \A p \in Process : ~(At(p, "judging") /\ work[p].flow = f)

\* A job of the current module has ended, and it is not the last one.
CountBranch(p) ==
    LET w == work[p]
    IN  /\ At(p, "updating")
        /\ Free(w.flow)
        /\ w.branchall
        /\ branch[w.flow][w.seen] + 1 # Cardinality(Plan[w.flow][w.seen])
        /\ branch' = [branch EXCEPT ![w.flow][w.seen] = @ + 1]
        /\ reported' = reported \cup {w.sub}
        /\ ping' = ping \ {w.flow}
        /\ Goes(p, [w EXCEPT !.at = "unlocking"])
        /\ UNCHANGED <<row, lock, step, status, killing, asked, budget>>

Unlock(p) ==
    /\ At(p, "unlocking")
    /\ lock' = [lock EXCEPT ![work[p].sub] = "none"]
    /\ Goes(p, Idle)
    /\ UNCHANGED <<row, ping, flows, killing, asked, budget>>

\* A module that ends with its first failing branch.
UnlockAllEarly(p) ==
    LET w == work[p]
    IN  /\ At(p, "updating")
        /\ Free(w.flow)
        /\ w.branchall
        /\ branch[w.flow][w.seen] + 1 = Cardinality(Plan[w.flow][w.seen]) \/ ~w.ok
        /\ lock' = [j \in Jobs |-> IF j \in Children(w.flow) THEN "none" ELSE lock[j]]
        /\ Goes(p, [w EXCEPT !.at = "judging"])
        /\ UNCHANGED <<row, ping, flows, killing, asked, budget>>

\* The locks of the flow go in a statement of their own, while the
\* transaction that counts the last branch holds the status's row.
UnlockAll(p) ==
    LET w == work[p]
    IN  /\ At(p, "updating")
        /\ Free(w.flow)
        /\ w.branchall
        /\ branch[w.flow][w.seen] + 1 = Cardinality(Plan[w.flow][w.seen])
        /\ lock' = [j \in Jobs |-> IF j \in Children(w.flow) THEN "none" ELSE lock[j]]
        /\ Goes(p, [w EXCEPT !.at = "judging"])
        /\ UNCHANGED <<row, ping, flows, killing, asked, budget>>

\* The flow's next module is pushed, or the flow is completed.
Continues(p, ok, next) ==
    LET w == work[p]
        canceled == Canceled(w.flow)
    IN  IF ok /\ next <= Last(w.flow) /\ ~canceled
        THEN Goes(p, [w EXCEPT !.at = "chaining", !.ok = ok, !.seen = next,
                               !.branchall = FALSE])
        ELSE Goes(p, [w EXCEPT !.at = "finishing", !.canceled = canceled, !.seen = 0,
                               !.branchall = FALSE,
                               !.ok = ok /\ w.seen <= Last(w.flow)])

\* A step that is counted on whatever the end.
EndModuleAnyway(f, i, ok) ==
    /\ status' = IF i > Last(f) THEN status
                 ELSE [status EXCEPT ![f][i] = IF ok THEN "success" ELSE "failure"]
    /\ step' = [step EXCEPT ![f] = i + 1]

\* The module's end, and the step after a success.  A flow that is past its
\* last module has its failure module in that place, whose status is left out.
EndModule(f, i, ok) ==
    /\ status' = IF i > Last(f) THEN status
                 ELSE [status EXCEPT ![f][i] = IF ok THEN "success" ELSE "failure"]
    /\ step' = IF ok THEN [step EXCEPT ![f] = i + 1] ELSE step

\* The last branch: the module is judged by the jobs' rows among the completed
\* ones, and the count is written with the verdict.
JudgeBranches(p) ==
    LET w  == work[p]
        ok == Judged(w.flow, w.seen)
    IN  /\ At(p, "judging")
        /\ Queued(w.flow)
        /\ branch' = [branch EXCEPT ![w.flow][w.seen] = @ + 1]
        /\ reported' = reported \cup {w.sub}
        /\ ping' = ping \ {w.flow}
        /\ EndModule(w.flow, w.seen, ok)
        /\ Continues(p, ok, w.seen + 1)
        /\ UNCHANGED <<row, lock, killing, asked, budget>>

\* A module that is no branchall in progress.
EndStep(p) ==
    LET w == work[p]
    IN  /\ At(p, "updating")
        /\ Free(w.flow)
        /\ ~w.branchall
        /\ Queued(w.flow)
        /\ EndModule(w.flow, w.seen, w.ok)
        /\ Continues(p, w.ok, w.seen + 1)
        /\ UNCHANGED <<row, signs, branch, reported, killing, asked, budget>>

\* push_next_flow_job.  The module and its place were decided when the flow was
\* read, and are written whatever the status is by now.
PushNext(p) ==
    LET w == work[p]
        next == Plan[w.flow][w.seen]
    IN  /\ At(p, "starting") \/ At(p, "chaining")
        /\ w.seen \in 1 .. Last(w.flow)
        /\ queue' = [j \in Jobs |-> IF j \in next THEN "queued" ELSE queue[j]]
        /\ lock' = [j \in Jobs |-> IF j \in next /\ Parallel(w.flow, w.seen)
                                   THEN "silent" ELSE lock[j]]
        /\ ping' = ping \ {w.flow}
        /\ status' = [status EXCEPT ![w.flow][w.seen] = "progress"]
        /\ step' = [step EXCEPT ![w.flow] = w.seen]
        /\ Goes(p, Idle)
        /\ UNCHANGED <<canceledBy, outcome, branch, reported, killing, asked, budget>>

\* The parent is told before the branch's end is recorded.
FinishFlowUnrecorded(p) ==
    LET w == work[p]
        f == w.flow
    IN  /\ At(p, "finishing")
        /\ Queued(f)
        /\ IF f = Root THEN Complete(f, "success", TRUE) /\ Goes(p, Idle)
           ELSE /\ UNCHANGED <<row, signs>>
                /\ Reports(p, w.job, Parent(f), f, w.ok, IF w.tries < 2 THEN 0 ELSE 2)
        /\ UNCHANGED <<flows, killing, asked, budget>>

\* The flow is completed, and then its parent's status is updated.
FinishFlow(p) ==
    LET w == work[p]
        f == w.flow
    IN  /\ At(p, "finishing")
        /\ Queued(f)
        /\ Complete(f, IF w.canceled THEN "canceled"
                       ELSE IF w.ok THEN "success" ELSE "failure", TRUE)
        /\ IF f = Root THEN Goes(p, Idle)
           ELSE Reports(p, w.job, Parent(f), f, w.ok, IF w.tries < 2 THEN 0 ELSE 2)
        /\ UNCHANGED <<flows, killing, asked, budget>>

-----------------------------------------------------------------------------
(* Errors.                                                                  *)

\* An update that failed is tried again, as a failure; then the error of the
\* job is handled, which updates the flow twice more; then the flow is
\* completed.
Recovers(p) ==
    LET w == work[p]
    IN  IF w.tries = 3
        THEN /\ Goes(p, Idle)
             /\ IF w.job = Root THEN UNCHANGED <<row, signs>>
                ELSE CompleteIfQueued(Parent(w.job), "failure")
        ELSE /\ IF w.tries = 1 THEN Reports(p, w.job, Parent(w.job), w.job, FALSE, 2)
                ELSE Reports(p, w.job, w.flow, w.sub, FALSE, w.tries + 1)
             /\ UNCHANGED <<row, signs>>

\* The flow has left the queue.
FlowIsGone(p) ==
    /\ \/ At(p, "judging") \/ At(p, "finishing")
       \/ At(p, "updating") /\ ~work[p].branchall
    /\ ~Queued(work[p].flow)
    /\ Recovers(p)
    /\ UNCHANGED <<flows, killing, asked, budget>>

\* A statement fails and its transaction is rolled back.  A flow that cannot be
\* pushed on is completed as failed, but its parent is told what the module's
\* end was.
StatementFails(p) ==
    LET w == work[p]
    IN  /\ faults < MaxFaults
        /\ w.at \in FailsAt
        /\ faults' = faults + 1
        /\ \/ /\ w.at \in {"reading", "updating", "unlocking", "judging", "finishing"}
              /\ Recovers(p)
           \/ /\ w.at = "starting"
              /\ Goes(p, [Idle EXCEPT !.at = "failing", !.job = w.job])
              /\ UNCHANGED <<row, signs>>
           \/ /\ w.at = "chaining"
              /\ IF Queued(w.flow) THEN Complete(w.flow, "failure", TRUE)
                 ELSE UNCHANGED <<row, signs>>
              /\ IF w.flow = Root THEN Goes(p, Idle)
                 ELSE Reports(p, w.job, Parent(w.flow), w.flow, w.ok,
                              IF w.tries < 2 THEN 0 ELSE 2)
        /\ UNCHANGED <<flows, killing, asked, died>>

\* A process dies, and another takes its place.
Crash(p) ==
    /\ faults < MaxFaults
    /\ ~At(p, "idle")
    /\ faults' = faults + 1
    /\ died' = died \cup {work[p].at}
    /\ Goes(p, Idle)
    /\ UNCHANGED <<row, signs, flows, killing, asked>>

-----------------------------------------------------------------------------
(* The monitor and the API server.                                          *)

Silent(j)   == \A p \in Process : work[p].job # j
Deserted(f) == \A p \in Process : f \notin {work[p].flow, work[p].job}

\* A restart that does not ask for a running row.
RestartJobEnded(j) ==
    /\ j \in Leaves /\ outcome[j] = "failure" /\ Silent(j)
    /\ queue' = [queue EXCEPT ![j] = "queued"]
    /\ outcome' = [outcome EXCEPT ![j] = "none"]
    /\ UNCHANGED <<canceledBy, signs, flows, work, killing, asked, budget>>

\* handle_zombie_jobs restarts a job, or fails it when that was done too often.
RestartJob(j) ==
    /\ j \in Leaves /\ queue[j] = "running" /\ Silent(j)
    /\ queue' = [queue EXCEPT ![j] = "queued"]
    /\ UNCHANGED <<canceledBy, outcome, signs, flows, work, killing, asked,
                   budget>>

GiveUpJob(j) ==
    /\ j \in Leaves /\ queue[j] = "running" /\ Silent(j)
    /\ At(Monitor, "idle")
    /\ Goes(Monitor, [Idle EXCEPT !.at = "failing", !.job = j])
    /\ UNCHANGED <<row, signs, flows, killing, asked, budget>>

\* cancel_job with force: from the highest parent that is queued, every job
\* below is to be completed by a task of its own.
ForceCancel(f) ==
    LET top == IF f # Root /\ Queued(Parent(f)) THEN Parent(f) ELSE f
        children == {j \in Children(top) : Queued(j)}
    IN  killing' = killing \cup {top} \cup children
                   \cup {j \in UNION {Children(g) : g \in children \cap Flows} : Queued(j)}

Kill(j) ==
    /\ j \in killing
    /\ killing' = killing \ {j}
    /\ CompleteIfQueued(j, "canceled")
    /\ UNCHANGED <<flows, work, asked, budget>>

\* handle_zombie_flows: a flow whose ping is old is restarted if it has not
\* begun and cancelled if it has.
Zombie(f) == f \in ping /\ queue[f] = "running" /\ ~Canceled(f) /\ Deserted(f)

\* A restart of a flow that has begun.
RestartFlowBegun(f) ==
    /\ Zombie(f)
    /\ queue' = [queue EXCEPT ![f] = "queued"]
    /\ UNCHANGED <<canceledBy, outcome, signs, flows, work, killing, asked,
                   budget>>

\* The zombies are selected first and updated one by one; nobody is at them.
RestartFlow(f) ==
    /\ Zombie(f)
    /\ status[f][1] = "waiting"
    /\ queue' = [queue EXCEPT ![f] = "queued"]
    /\ UNCHANGED <<canceledBy, outcome, signs, flows, work, killing, asked,
                   budget>>

\* Only the flows in the middle of a module are cancelled.
CancelFlowInProgress(f) ==
    /\ Zombie(f)
    /\ status[f][1] = "progress"
    /\ ForceCancel(f)
    /\ killing' # killing
    /\ UNCHANGED <<row, signs, flows, work, asked, budget>>

CancelFlow(f) ==
    /\ Zombie(f)
    /\ status[f][1] # "waiting"
    /\ ForceCancel(f)
    /\ killing' # killing
    /\ UNCHANGED <<row, signs, flows, work, asked, budget>>

\* The same for a branch whose lock is old.  The lock goes in a transaction
\* before that of the cancellation, which only a second fault could separate.
CancelBranches(j) ==
    /\ lock[j] = "pinged"
    /\ \A p \in Process : work[p].sub # j
    /\ lock' = [lock EXCEPT ![j] = "none"]
    /\ IF queue[Parent(j)] = "running" /\ ~Canceled(Parent(j))
       THEN ForceCancel(Parent(j)) ELSE UNCHANGED killing
    /\ UNCHANGED <<row, ping, flows, work, asked, budget>>

\* The user cancels the flow without force: a flow that waits for a worker is
\* completed by a task, a running one is marked with all the jobs below.
Cancel ==
    /\ asked < MaxCancels /\ Queued(Root)
    /\ asked' = asked + 1
    /\ LET children == {j \in Children(Root) : Queued(j)}
           below == {j \in UNION {Children(g) : g \in children \cap Flows} : Queued(j)}
       IN  /\ canceledBy' = canceledBy \cup children \cup below
                            \cup {f \in {Root} : queue[f] = "running"}
           /\ killing' = killing \cup {f \in {Root} : queue[f] = "queued"}
    /\ UNCHANGED <<queue, outcome, signs, flows, work, budget>>

-----------------------------------------------------------------------------
Submit ==
    /\ queue[Root] = "absent" /\ outcome[Root] = "none"
    /\ queue' = [queue EXCEPT ![Root] = "queued"]
    /\ UNCHANGED <<canceledBy, outcome, signs, flows, work, killing, asked,
                   budget>>

Init ==
    /\ queue = [j \in Jobs |-> "absent"]
    /\ canceledBy = {}
    /\ outcome = [j \in Jobs |-> "none"]
    /\ ping = {}
    /\ lock = [j \in Jobs |-> "none"]
    /\ step = [f \in Flows |-> 1]
    /\ status = [f \in Flows |-> [i \in 1 .. Last(f) |-> "waiting"]]
    /\ branch = [f \in Flows |-> [i \in 1 .. Last(f) |-> 0]]
    /\ reported = {}
    /\ work = [p \in Process |-> Idle]
    /\ killing = {}
    /\ asked = 0
    /\ faults = 0
    /\ died = {}

Ended == {"success", "failure", "canceled"}

Update(p) ==
    \/ FailJob(p) \/ ReadStatus(p) \/ CountBranch(p) \/ Unlock(p)
    \/ UnlockAll(p) \/ JudgeBranches(p) \/ EndStep(p) \/ PushNext(p)
    \/ FinishFlow(p) \/ FlowIsGone(p)

Execute(w) == Poll(w) \/ \E verdict \in Ended : ChildEnds(w, verdict)

Watch ==
    \/ \E j \in Jobs : \/ RestartJob(j) \/ GiveUpJob(j) \/ Kill(j)
                       \/ CancelBranches(j)
    \/ \E f \in Flows : RestartFlow(f) \/ CancelFlow(f)

Next ==
    \/ Submit \/ Cancel
    \/ \E w \in Workers : Execute(w) \/ \E j \in Jobs : Pull(w, j)
    \/ \E p \in Process : Update(p) \/ StatementFails(p) \/ Crash(p)
    \/ Watch

\* Every process goes on, and the monitor and its tasks do their rounds.
Fairness ==
    /\ \A j \in Jobs : WF_vars(\E w \in Workers : Pull(w, j))
    /\ \A w \in Workers : WF_vars(Execute(w))
    /\ \A p \in Process : WF_vars(Update(p))
    /\ \A j \in Jobs :
        /\ WF_vars(RestartJob(j) \/ GiveUpJob(j))
        /\ WF_vars(Kill(j))
        /\ WF_vars(CancelBranches(j))
    /\ \A f \in Flows : WF_vars(RestartFlow(f)) /\ WF_vars(CancelFlow(f))

Spec     == Init /\ [][Next]_vars
FairSpec == Spec /\ Fairness

-----------------------------------------------------------------------------
(* Properties.                                                              *)

TypeOK ==
    /\ queue \in [Jobs -> {"absent", "queued", "running"}]
    /\ canceledBy \subseteq Jobs
    /\ outcome \in [Jobs -> Ended \cup {"none"}]
    /\ ping \subseteq Flows
    /\ lock \in [Jobs -> {"none", "silent", "pinged"}]
    /\ \A f \in Flows :
        /\ step[f] \in 1 .. Last(f) + 1
        /\ \A i \in 1 .. Last(f) :
            /\ status[f][i] \in {"waiting", "progress", "success", "failure"}
            /\ branch[f][i] \in 0 .. Cardinality(Plan[f][i])
    /\ \A p \in Process :
        /\ work[p].at \in {"idle", "executing", "failing", "starting", "chaining",
                           "reading", "updating", "unlocking", "judging", "finishing"}
        /\ work[p].job \in Jobs \cup {NoJob}
        /\ work[p].flow \in Flows \cup {NoJob}
        /\ work[p].tries \in 0 .. 3
    /\ killing \subseteq Jobs /\ reported \subseteq Jobs

Pushed(j) == Queued(j) \/ outcome[j] # "none"

\* What the order of the modules is for: a job is pushed only when all the
\* jobs of the module before have ended with success.
ModulesInOrder ==
    \A f \in Flows : \A i \in 2 .. Last(f) :
        \A j \in Plan[f][i] : Pushed(j) =>
            \A k \in Plan[f][i - 1] : outcome[k] = "success"

\* Every branch is counted once, and only after it has ended: the number that
\* tells the last branch from the others is that of the branches in
\* flow_jobs_success, and each of them is recorded as completed.
CountedOnce ==
    /\ \A f \in Flows : \A i \in 1 .. Last(f) :
        branch[f][i] = Cardinality(Plan[f][i] \cap reported)
    /\ \A j \in reported : outcome[j] # "none"

\* A module is pushed once: whoever is about to push one finds it untouched.
PushedOnce ==
    \A p \in Process :
        work[p].at \in {"starting", "chaining"} =>
            \A j \in Plan[work[p].flow][work[p].seen] : ~Pushed(j)

\* A flow ends with success only after all its jobs did, and with failure only
\* when none of them is left behind.
FlowOutcome ==
    \A f \in Flows :
        /\ outcome[f] = "success" => \A j \in Children(f) : outcome[j] = "success"
        /\ outcome[f] = "failure" => \A j \in Children(f) : ~Queued(j)

\* A flow that nothing refers to any more: no process is at it, none of its
\* jobs is left and no branch's lock is pinged; the monitor does not look for
\* it, for it is cancelled or a process died after the transaction that took
\* its ping back and before the one that was to follow.
Lost(f) ==
    /\ queue[f] = "running" /\ f \notin killing
    /\ \A p \in Process : f \notin {work[p].flow, work[p].job}
    /\ \A j \in Children(f) : ~Queued(j) /\ lock[j] # "pinged"
    /\ \/ Canceled(f)
       \/ f \notin ping /\ died \cap {"judging", "chaining", "finishing"} # {}

\* A flow that was submitted ends, unless a crash between two transactions
\* leaves one that nothing refers to.
EndsUnlessLost == Queued(Root) ~> (outcome[Root] # "none" \/ \E f \in Flows : Lost(f))

\* The job service that pushes and asks for each of these jobs.
Service == INSTANCE JobService WITH
    job <- [j \in Jobs |-> IF outcome[j] = "none" THEN queue[j] ELSE outcome[j]]
ServesJobs == Service!Spec
===============================================================================
