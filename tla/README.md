# TLA+ models and proofs for DevGodzilla

DevGodzilla (`src/devgodzilla`) drives AI coding agents through *protocol runs*:
a run is planned into *step runs* with dependencies, each step is executed by an
engine, judged by QA gates, and the run ends when its steps have. All of that
state is rows in SQLite or PostgreSQL. Every API route, CLI command, webhook and
Windmill job reads rows, decides and writes rows back, and every database call is
a transaction of its own. So the hard part of the program is not any one handler:
it is what becomes of a run when two handlers interleave, when one fails halfway,
or when a handler's process dies. This directory holds the TLA+ modules that
say what happens then, the TLC configurations that check them on small instances,
and the theorems that hold on every instance.

To check a run: `tlc -config OneDispatcher.cfg MCOrchestration.tla` (the run's module is in
`PROJECT.json`). To check the proofs: `tlapm` on each module whose name ends in `Proofs`.

## The system

| Part | Source | State | Operations |
| --- | --- | --- | --- |
| Orchestration core | `services/orchestrator.py` | status of protocol runs, status and retries of step runs | start, run, retry, enqueue, pause, resume, cancel, complete, recover |
| Execution | `services/execution.py` | the same rows | block / run the engine / record the result / QA / complete |
| QA | `services/quality.py`, `qa/` | the same rows, QA results, clarifications | run gates, aggregate, write COMPLETED or FAILED |
| API, CLI, webhooks | `api/routes/*.py`, `cli/*.py` | none | entry points; several write the rows themselves |
| Windmill client and scripts | `windmill/client.py`, `worker.py`, `src/windmill/` | `job_runs` rows | submit a script, report job and flow status |
| Vendored Windmill | `src/Origins/Windmill/backend/` (`windmill-queue`, `windmill-worker`, `src/monitor.rs`) | `v2_job_queue`, `v2_job_completed`, `v2_job_runtime`, `v2_job_status` | push, pull, execute, complete and cancel jobs, restart silent ones, go through a flow |
| Flow generation | `windmill/flow_generator.py` | none (pure) | steps -> DAG -> levels -> Windmill flow |
| Reconciliation | `services/reconciliation.py` | step runs | compare rows with Windmill jobs and repair them |
| Planning | `services/planning.py`, `spec.py`, `spec_to_protocol.py` | protocol and step rows, files, worktrees | plan a run, create its steps |
| CLI execution tracker | `services/cli_execution_tracker.py` | in-process executions, log rings, subscribers | start, log, complete, cancel, clean up |
| Events | `services/events.py`, `event_persistence.py` | handler tables, `events` rows | publish, persist, notify |
| Sprints | `services/sprint_integration.py`, `sprint_event_handlers.py`, `task_sync.py` | sprints and tasks | follow the steps of a run |
| Clarifications, feedback | `services/clarifier.py`, `qa/feedback.py` | clarification rows, attempt counts | ask, answer, route QA findings |
| Policies, errors, retries | `services/policy.py`, `error_classification.py`, `retry_config.py` | policy packs, configuration | resolve, classify, delay |
| Git and worktrees | `services/git.py`, `worktree.py` | a repository | lock, worktree, push, PR |
| The rest | engines, speckit, agent configuration, templates, health, metrics, TUI, frontend | files, processes | no interleaving of their own |

How the parts interact: a dispatcher (a CI webhook, the recovery at API startup,
the CLI) calls `enqueue_next_step`, which lists the step runs, picks one and calls
`run_step`; `run_step` writes RUNNING and submits a Windmill job; the job calls the
API's execute route; `ExecutionService.execute_step` writes RUNNING again, calls
the engine, writes NEEDS_QA, runs the gates, which write COMPLETED or FAILED, and
calls `check_and_complete_protocol`. Meanwhile anybody may pause, cancel, retry or
plan, and the reconciliation compares the rows with the Windmill jobs and overwrites them.
The parts share nothing but the rows and the Windmill queue. Windmill itself is vendored
under `src/Origins`: several workers and a monitor around tables of their own.

What makes each part correct, and what is hard about it:

- *Orchestration, execution, QA*: an order of steps that respects the dependencies, one
  execution at a time, no step and no run that everybody has forgotten, verdicts that fit
  the steps. Hard because the handlers check and write in separate transactions, and
  because they may fail or die in between.
- *Flow generation*: the flow has every step, once, after its dependencies. Hard because
  the dependencies are arbitrary text of a specification.
- *CLI execution tracker*: a cancellation is kept and obeyed, a stream shows the whole log
  and ends, memory stays bounded. Hard because of the threads: discovery, two readers per
  process, requests and the event loop.
- *Reconciliation*: it repairs rows without undoing what a handler has just written. Hard
  because it compares a listing with a job, and both are out of date when it writes.
- *Windmill*: a job that was pushed ends, its code is not started more often than the
  monitor restarted it, what is cancelled does not start; the modules of a flow run in
  order and once. Hard because nobody coordinates: whoever completes a job updates its flow,
  workers die between two transactions, and a worker that only seems dead goes on.
- *Planning*: planning twice makes every step once; dependencies are step runs.
- *Events and sprints*: each event reaches each handler; a task follows its step.
- *Job runs and onboarding*: the last status of a job wins, in whatever order they come.
- *Clarifications, feedback, policies, retries*: counts that end, configuration that is
  resolved in the documented order.

What of it is hard to test is listed with its source line under `hazards` in
`PROJECT.json`.

## Modules

| Module | Content |
| --- | --- |
| `StepSchedule` | what the orchestration promises of the step runs: order by dependencies, success is final, a retry is counted |
| `Orchestration` | the rows and every handler that writes their status, one action per database call |
| `MCOrchestration` | the small instances |
| `OrchestrationProofs` | type invariant, `InFlightOwned` and `DependencyOrder`, for every instance |
| `DispatcherProofs` | `SingleExecution`, `RetriesCount`, `CompletedIsSound` and the refinement of `StepSchedule`, for every instance with one caller |
| `StepGraph` | the dependency lists of step runs, and reference definitions: the cycles, the steps that can never run |
| `CycleDetection` | the search for cycles, edge by edge |
| `FlowGenerator` | the levels and the flow made of them, round by round |
| `CreateFlow` | the two together, as `create_flow_from_steps` calls them |
| `MCFlow` | the small graphs |
| `FlowGeneratorProofs` | the levels' properties and the completeness of the flow, for every graph |
| `CreateFlowProofs` | the search finds exactly the cycles, and with the loop it implements `FlowGenerator`, for every graph |
| `CliExecutions` | the tracker, the discovery runs, the cancel route and the log stream |
| `MCCliExecutions` | its small instances |
| `CliExecutionsProofs` | a cancellation is kept and obeyed, types and the bound on ended executions, for every instance |
| `Reconciliation` | the reconciliation and Windmill's status of the steps' jobs, beside every handler of `Orchestration`, which it extends |
| `MCReconciliation` | its small instances |
| `ReconciliationProofs` | type invariant, `InFlightOwned` and `DependencyOrder` with the reconciliation, for every instance |
| `JobService` | what Windmill promises of a job to those who push it and ask for it |
| `WindmillJobs` | the queue, the workers, the cancellation and the monitor of single jobs; implements `JobService` |
| `WindmillJobsProofs` | its safety properties and the refinement, for every instance |
| `WindmillFlow` | the flows `FlowGenerator` makes, from module to module; implements `JobService` as well |
| `MCWindmillFlow` | a flow of two steps side by side and a third |
| `WindmillFlowProofs` | the refinement `ServesJobs`, types, order, counts and ends of the flows, for every plan the generator makes |

`FlowGenerator` and `CycleDetection` share `StepGraph` and its `edges`. `FlowGenerator` alone refuses a graph
that has a cycle by definition (`CyclesOf`); `CreateFlow` puts the search in the place of the
definition and is shown to implement it. `Reconciliation` runs beside all of `Orchestration`'s
actions on the same rows. `WindmillFlow` takes a single job's life as coarser steps than
`WindmillJobs`; both implement `JobService`, which is what `Orchestration`'s `jobs` and the
answers that `Reconciliation` gets rest on.

### Orchestration

`proto`, `step` and `retries` are the columns `protocol_runs.status`,
`step_runs.status` and `step_runs.retries` of one protocol run; `jobs` counts the
Windmill jobs that wait to execute each step; `thread` is what each handler is
doing and the values it has read. `done` and `orphan` are history variables for
the properties: the steps that have been COMPLETED at some time, and the steps
that were given up by the handler that was to move them on.

A handler is a *thread*. `Callers` serve requests of the API, the CLI, the webhooks
and the startup; `Workers` serve the execute call of a Windmill job. A thread's
`at` is its place in the handler. A handler alternates between *reading and
deciding* (one action: it reads rows and settles what it will write) and *writing*
(`WriteStep`, `WriteProtocol`: one action for each `UPDATE`, which overwrites the
row whatever it holds by then). Everything another thread does in between is
possible, which is the point: neither `update_step_status` nor
`update_protocol_status` has a condition.

| Action | Code |
| --- | --- |
| `Request` (one disjunct per entry point) | the guard of each route or command: its first read of the protocol run |
| `EnqueueNextStep`, `RunStep` | the methods of the same name; `RunStep` also ends a recovery whose step is refused |
| `SubmitJob`, `NoSubmission` | the rest of `run_step`: the job, or nothing to submit to, or a failed submission |
| `SelectNextStep` | the `run_next_step` route and the flow that executes its answer |
| `StartJob`, `ExecuteStep`, `EngineReturns`, `GatesReturn`, `GatesRaise` | a job, `execute_step`, `_handle_result`, `run_qa` |
| `CheckAndComplete` | `check_and_complete_protocol` |
| `RetryStep`, `RetryLatestStep` | the service's and the route's retry, which differ: the route starts nothing and does not retry a timeout |
| `PauseProtocol`, `ResumeProtocol`, `CancelProtocol`, `PlanProtocol` | the methods; the API has its own versions, which only write the status |
| `RecoverList`, `RecoverCheck` | `recover_stuck_protocols`, which lists the steps twice |
| `Crash` | the process of a handler dies between two calls |

What is abstracted: what an engine or a gate does is its possible outcomes;
clarifications and policy findings are a nondeterministic "blocked" in
`ExecuteStep`; events, summaries, artifacts and logs are left out; the step runs of
a protocol run are fixed (planning a run again adds only steps with new names).
`Faults` lists the failures an instance may meet: `engine_raises`, `qa_raises`,
`submit_fails`, `crash`. The order of steps is that of `step_index` (`First`): the
code sorts by a priority which no row conversion reads.

Not modelled here: the operations without callers under `src/`
(`run_protocol_flow`, `run_step_qa`, `handle_step_error`).

### Reconciliation

`latest` is Windmill's status of the newest job of each step, as `get_job` maps it;
`listing` is the steps still to be reconciled with the status they had when they were listed;
`fix` is the status that is about to be written to the first of them.

| Action | Code |
| --- | --- |
| `List` | the query of the routes: all steps of a run, or one. Listing the steps of all runs skips the runs that have ended and takes at most 500: what it lists is listed here as well, on more occasions |
| `Ask` | `_reconcile_step` up to `_can_auto_fix`: the newest row of `job_runs`, the job's status, the rules |
| `Fix` | `update_step_status`, whatever the row holds by then |
| `Track` | a submission makes a new newest job; Windmill starts the jobs of a step in their order |
| `JobEnds` | the script `step_execute_api.py` ends: its call has been answered, or 30 seconds have passed without an answer, which `api_json` turns into a result without an error; or Windmill ends the script (`JobFaults`) |

A job is complete when its script is, and the script does not wait for the handler: a job
may be complete while the step is executed, and it is complete for a step that failed or was
blocked (both are answers with status 200). The reading of the `job_runs` row and of the
job is one action, the submission and its `job_runs` row are one, and a row that cannot be
written, a dry run and errors of Windmill (the step is left alone) are left out. The routes
are coroutines that await nothing but each other, so there is one reconciliation at a time.

### CycleDetection, FlowGenerator and CreateFlow

`edges` is the list of edges, in the order `build_from_steps` appends them. In
`CycleDetection`, `index`, `lowlinks`, `stack` and `sccs` are the variables of
`_tarjan_scc`; `calls` is the Python call stack, a frame being the node and the place in the
list of edges; `on_stack` is membership in `stack`.

| Action | Code |
| --- | --- |
| `Root`, `Descend` | a call of `strongconnect`, from the outer loop or for a successor without an index |
| `Examine` | a successor that has an index |
| `Close` | the end of `strongconnect`, and the caller's `min` with the callee's low link |

In `FlowGenerator`, `inDegree`, `remaining` and `levels` are the variables of
`_topological_levels`, `flow` the groups in the order `generate` emits them, `at` the
place in `create_flow_from_steps`.

| Action | Code |
| --- | --- |
| `CheckCycles` | `detect_cycles` by the definition of a cycle, the refusal, and the in-degrees |
| `TakeLevel` | one round of the loop |
| `Generate` | the end of the loop, by `break` or not, and the sorting of the groups by their names |

In `CreateFlow` the search (`DetectCycles`) comes first, `CheckFound` looks at what it
returns, and `MakeFlow` is the rest of `FlowGenerator`.

`KeyRank` is the order of the strings `group_0` to `group_99`. What a group's modules
contain, and the two calls that send and store the flow, are left out.

### CliExecutions

| Variable | Code |
| --- | --- |
| `run`, `stage`, `failed`, `reader` | where `run_discovery` is, its results, the threads that read its process |
| `status`, `tracked`, `ended`, `subs` | `CLIExecution.status`, `_executions`, its finished entries by `finished_at`, `_subscribers` |
| `entries`, `lines`, `telling` | the length of `logs`, the entries that came through `log()`, the threads between its two halves |
| `stream`, `canceller` | the requests that stream and that cancel |
| `started` | history: the processes started for a cancelled execution |

| Action | Code |
| --- | --- |
| `Start`, `Begin`, `CheckStage`, `AfterStage`, `Report`, `Finish` | `start_execution`, `run_discovery`, `complete` |
| `Spawn`, `EngineReturns`, `ReadLine` | `run_cli_command` with `set_pid`, its end, its reader threads |
| `StageRaises` | an exception that leaves `run_discovery` |
| `Log`, `TakeNewest`, `Tell`, `LogReturns` | `log()`: the append under the lock; then, without it, the newest entry is read and the subscribers are called one by one |
| `RequestCancel`, `MarkCancelled` | the two halves of the cancel route |
| `Open`, `Subscribe`, `SendExisting`, `SendNew`, `SendLast`, `Abandon`, `Leave` | the log stream |

An entry is its number in the log, so a queue and what has been sent are sets of numbers;
the order of delivery is left out. The ring keeps the last `MaxLogs` entries, and what a
subscriber copies begins there (`Oldest`, `from`). The subscribers of an execution are a list, and
the position of a thread that goes through it stays when an `unsubscribe` shifts the list
(`Without`). The pid is left out: a signal makes the process end sooner, and it may end at any time. A reader that
outlives its process (`LateReaders`) shares its place with the reader of the next stage.

### WindmillJobs

| Variable | Code |
| --- | --- |
| `queue`, `canceledBy` | a job's row in `v2_job_queue`, its `running` and `canceled_by` |
| `ping`, `counter` | `v2_job_runtime.ping` (null, recent, or older than the timeout), `zombie_job_counter` |
| `outcome` | `v2_job_completed.status` |
| `at`, `holds`, `verdict` | where each worker is, its job, the status it is about to record |
| `request` | the calls of `cancel_job` and the tasks they spawn |
| `doomed`, `failing` | the jobs `handle_zombie_jobs` is about to fail |
| `starts` | history: how often a job's code was started |

| Action | Code |
| --- | --- |
| `Push`, `Pull` | `push`; the pull query, and a job that is pulled cancelled |
| `ChildExits`, `ChildTimesOut`, `Poll` | `handle_child` and the poller beside it |
| `BeginReport`, `CommitReport`, `ReportFails` | `commit_completed_job`: the statement that reads the queue's row, the transaction that writes and deletes; its retry as an error |
| `ReadToCancel`, `Mark`, `BeginCancel`, `CommitCancel`, `LoseCancel` | `cancel_job` with and without force, `cancel_single_job` |
| `PingExpires`, `MonitorRound`, `BeginFail`, `CommitFail`, `MonitorGivesUp` | `handle_zombie_jobs` |
| `Crash` | a worker's process dies and another takes its place |

A completion is two actions because its first statement reads what others may delete before
it commits. Everything else is one statement or one transaction.

### WindmillFlow

`Plan` gives the modules of each flow: a set of one job is a step, a larger one a parallel
`branchall` whose branches are flows. `queue`, `canceledBy` and `outcome` are as above;
`step`, `status` and `branch` are `flow_status.step`, the status of each module and
`branchall.branch`; `reported` the branches with a value in `flow_jobs_success`; `ping` the
flows with a ping, which says that a transition is going on; `lock` the row of a branch in
`parallel_monitor_lock`; `work` what each worker and the monitor is doing, with what it has
read; `killing` the jobs that a forced cancellation is about to complete.

| Action | Code |
| --- | --- |
| `Pull`, `ChildEnds`, `Poll`, `FailJob` | a worker takes a job, executes it, completes it or handles its error |
| `ReadStatus` | the reads at the beginning of `update_flow_status_after_job_completion_internal`, outside its transaction |
| `CountBranch`, `Unlock` | a branch that is not the last: the count is committed, then the lock's row is deleted |
| `UnlockAll`, `JudgeBranches` | the last branch: the locks go first, while the transaction holds the status's row (`Free`) |
| `EndStep`, `PushNext`, `FinishFlow` | a module that is no branchall; the push of the next; the end of the flow and the report to its parent |
| `FlowIsGone`, `StatementFails`, `Recovers` | the error paths: twice more for the flow, then for the job, then the flow is completed |
| `RestartJob`, `GiveUpJob`, `RestartFlow`, `CancelFlow`, `CancelBranches`, `Kill` | the monitor's rounds and the tasks they spawn. `RestartFlow` selects the zombie and updates it in one step, and `CancelBranches` deletes the lock and cancels in one: two transactions each, between which only a worker that is not dead after all, or a second fault, makes a difference |
| `Cancel`, `Crash` | the user cancels; a process dies |

## Properties

- `TypeOK`: the type invariant.
- `InFlightOwned`: a step whose row says RUNNING or NEEDS_QA waits in a job, is in
  the hands of a handler, or was visibly given up. Two handlers never leave a
  RUNNING row behind by overwriting each other's result.
- `DependencyOrder`: a step leaves PENDING only after every step it depends on has
  been COMPLETED, although the decision rests on a listing that is stale when the
  row is written.
- `SingleExecution`: one dispatcher never gets a step executed by two threads, or
  queued while it is executed. It is a property of the dispatch: no job is restarted here, as
  Windmill does (`JobService` allows it; see `WindmillJobs`). (With two dispatchers it does happen: `run_step`
  checks and writes in two transactions. That is why this property is checked with
  one caller.)
- `CompletedIsSound`: a COMPLETED protocol run has no open step and no FAILED one.
  TIMEOUT is admitted: `check_and_complete_protocol` does not count it as failed. A test names
  the opposite outcome, see the disagreements below.
- `RetriesCount`: the retries of a step change only by one, and only when a stopped
  step becomes PENDING.
- `ImplementsSchedule`: the rows implement `StepSchedule`, with `phase` the class of
  a status (RUNNING and NEEDS_QA are "working") and `attempts` the retries.
- `StepLeavesFlight`: a step leaves RUNNING and NEEDS_QA, unless it was given up.
- `VerdictReached`: a RUNNING run whose steps have ended gets its verdict, whatever the last
  executions, a pause and `resume_protocol` do at the same time. It is not claimed of the API's
  resume, of an engine that raises or of crashes: there the code leaves the run RUNNING.
- `CyclesExact`: the search finds exactly the cycles of more than one step. `Ends` (in both
  modules): the loops end on every graph.
- `LevelsInOrder`, `LevelsTight`: a step comes after its dependencies, and as early as
  they allow. `OnlyStuckLeftOut`: no step that could run is lost. `FlowComplete`: with the
  cycle check, and dependencies that are other step runs, no step is lost at all.
- `CancelObeyed`: a cancelled discovery that the tracker still knows starts at most the stage it
  had decided to start. A cancelled execution that `_cleanup_old_executions` has removed goes on
  with its stages, since `run_discovery` finds nothing and takes that for "not cancelled".
  `CancelKept`: no later result takes a cancellation back. `EndedBounded`: the finished
  executions stay within `_max_completed` and the cancelled ones that still run.
- `StreamSendsEveryLine`, `StreamEnds`: a client that sees `complete` has seen the log, from the
  oldest entry which the ring held when it subscribed, and the stream comes to an end. They are
  checked with one logging thread, one client and stages that return; the first is false with two
  threads and with several clients.
- `ImplementsGenerator`: search and loop together do only what `FlowGenerator` does with the
  definition of a cycle.
- `DriftRepaired`: a step in flight whose job has ended does not stay in flight, as long as
  its protocol run is reconciled again and again.
- `Accounted`: a job is queued or completed and never both, and a running one has a ping.
  `OwedStarts`: every start of a job's code is owed to its push or to a restart that was
  counted. `SharedOnlyAfterRestart`: two workers hold one job only after a restart.
  `CancelledNotStarted`: a row that is marked is not started any more. `EveryJobEnds`.
- `ModulesInOrder`, `PushedOnce`, `CountedOnce`: the modules of a flow are pushed in order, once,
  and each branch is counted once, after its end. `FlowOutcome`: a flow that succeeds has only
  jobs that did, one that fails leaves none behind. `EndsUnlessLost`: it ends, unless a crash
  left a flow that nothing refers to.
- `ServesJobs` (of both): the implementation of `JobService`.
- Three properties say what documents or the code's own words say and the code does not
  keep: `FlowInOrder` for chains of eleven steps and more, `StreamSendsEveryLine` with two
  output threads, and `NeverFixesTerminal`, that the reconciliation leaves a row alone which
  has ended. Each has a run that shows the counterexample; `findings` in `PROJECT.json`
  quotes the words.

Other disagreements met while modelling, which are in the modules as the code has them and
which need no run to be seen:

- `test_completed_and_timeout_marks_failed`
  (`src/tests/test_devgodzilla_orchestrator_lifecycle.py:477`) says by its name that a run with a
  COMPLETED and a TIMEOUT step is failed. `check_and_complete_protocol` completes it: only FAILED
  counts (`orchestrator.py:627`). The test passes because its assertion (`:497`) accepts
  COMPLETED as well as FAILED (`Verdict`; `CompletedIsSound` follows the code).
- A cancelled execution that the cleanup removes while its run goes on is no longer cancelled for
  `run_discovery` (`Cleanup`, `ExecutionCancelled`).
- `log()` goes through the live list of subscribers without the lock
  (`cli_execution_tracker.py:184`): when one of several clients has been called and unsubscribes,
  the list is shifted and the next client is skipped, so its stream loses the line (`Tell`,
  `Close`). An instance of `CliExecutions` with one output thread and two streams violates
  `StreamSendsEveryLine` this way; no run of the project has two.
- `protocol_run`'s row may leave CANCELLED, which `cancel_protocol` calls terminal
  (`orchestrator.py:581`): `execute_step`, `_handle_result`, the QA and a failed CI write
  RUNNING or BLOCKED over it (`ExecuteStep`, `EngineReturns`, `CiFailure`).
- A planning failure leaves the run in PLANNING, where the documented state machine goes to
  FAILED; the API's start then refuses the run (`PlanProtocol`, `ApiStart`).
- An engine that raises fails the step and leaves the protocol run RUNNING; no check follows
  (`EngineReturns` with the fault `engine_raises`).
- The CLI's `step run` ("Execute a step.") writes RUNNING, and nobody executes the step: its
  orchestrator has neither a Windmill client nor an execution service (`NoSubmission`).
- `create_flow_from_steps` reports success when a step that depends on itself or on
  something that is no step has been left out of the flow, with all that depends on it
  (`Generate`; `OnlyStuckLeftOut` and `FlowComplete` say which steps).
- A stage that raises leaves the execution RUNNING and its log stream open for ever, since
  nobody calls `complete()` (`StageRaises`).
- An execution that completes while the cancel route signals its process goes from SUCCEEDED
  to CANCELLED, although the route refuses finished executions (`MarkCancelled`).
- Steps are sorted by a priority that no row conversion reads (`First`).
- The documented step machine ends in CANCELLED ("cancelled --> [*]",
  `docs/legacy/2026-02-21-DevGodzilla-subsystems/02-ORCHESTRATION-CORE.md:379`), but
  `execute_step` does not look at the step: a job submitted before a cancellation executes its
  step afterwards and writes RUNNING or BLOCKED over CANCELLED (`execution.py:228`, `:269`).
- `_can_auto_fix` says "Can update to NEEDS_QA (from RUNNING when Windmill shows COMPLETED)"
  (`reconciliation.py:559`), but what is written is COMPLETED, without any QA. Since a job is
  complete for a step that was blocked or has been reset for a retry as well, the
  reconciliation also completes steps that nobody executed successfully (`Fix`). It never asks
  whether the run is complete, so a run all of whose steps it has ended stays RUNNING.
- The API's resume sets RUNNING and starts nothing, unlike `resume_protocol` (`ApiResume`). When
  the last execution writes its verdict between the read and the write of a pause, which is then
  resumed, or between those of the resume itself, the run stays RUNNING for ever with nothing left
  to start. No fault is needed for it; with `"api_resume"` among the requests of `Verdicts` TLC
  finds it.
- Windmill describes a flow's modules as "Array of steps that execute in sequence"
  (`openflow.openapi.yaml:48`). When the statement that deletes a branch's lock fails, the
  branch has been counted already; the update is repeated as a failure and counts it again
  (`worker_flow.rs:856`, `:138`), and with as many counts as branches only those completed by
  then are judged (`:761`), so the next module may start before the other branch has run. The
  run `WindmillFlow` leaves this one statement out of `FailsAt`. Workers that stall long
  enough to be taken for dead lead to the same. They also make a module be pushed twice: a worker
  that stalls before it pushes the first module and the one that pulls the restarted flow have
  both read a flow whose module waits (`worker_flow.rs:2060`, `:1209`), and each pushes it and
  overwrites the status (`:3592`). `WindmillFlow` has no stalled workers.
- `handle_zombie_jobs` restarts jobs by the counter in the row and chooses those to fail by
  that counter plus one: in the last round a job is restarted and failed at once
  (`monitor.rs:2077`, `:2123`; `MonitorRound`).
- A flow is lost when its worker dies between the transaction that takes the flow's ping back
  and the one that pushes the next module or completes it: `handle_zombie_flows` looks for
  pings only (`worker_flow.rs:676`, `monitor.rs:2456`). So is a flow that was cancelled without
  force, which it skips. `Lost` names these states; `EndsUnlessLost` excludes no others.

## Runs

| Run | Instance | Checks |
| --- | --- | --- |
| `OneDispatcher` | 1 caller, 2 workers, 2 chained steps, all scheduled requests but the CLI's cancel, all faults but crashes | `TypeOK`, `SingleExecution`, `DependencyOrder`, `RetriesCount`, `ImplementsSchedule` |
| `AnyRequest` | 1 caller, 1 worker, 1 step, every request, every fault, fairness | `InFlightOwned`, `StepLeavesFlight` |
| `Verdicts` | 1 caller, 2 workers, 3 steps (a join), the requests of the API but its resume, the webhooks', the CLI's pause and resume, no faults, fairness | `CompletedIsSound`, `VerdictReached` |
| `Reconciled` | 1 caller, 1 worker, 1 step, dispatch, retries and recovery, crashes and lost calls, jobs that end in any way, fairness | `ReconcileTypeOK`, `DriftRepaired` |
| `TerminalFixed` | the smallest instance with a job and a reconciliation | `NeverFixesTerminal`, violated |
| `FlowLevels` | every graph of 4 steps without self-dependencies; every graph of 3 with them and an unknown dependency; the same with repetitions | `TypesOK`, `CyclesExact`, `LevelsInOrder`, `LevelsTight`, `OnlyStuckLeftOut`, `FlowComplete`, `ImplementsGenerator`, `Ends` |
| `LongChain` | a chain of 12 | `FlowInOrder`, violated |
| `Cancellation` | 2 runs of 2 stages, 1 cancel request, 1 output thread that may be late, stages that raise, `_max_completed` 1, a ring of 3 | `TypeOK`, `CancelObeyed`, `EndedBounded`, `CancelKept` |
| `LogStream` | 2 runs of 1 stage, 1 output thread with 1 line, 1 client, `_max_completed` 1, a ring of 3, fairness | `StreamSendsEveryLine`, `StreamEnds` |
| `TwoOutputs` | 1 run, 2 output threads with 1 line, 1 client | `StreamSendsEveryLine`, violated |
| `WindmillJobs` | 1 step, 2 workers, 2 cancellations, `RestartLimit` 3, stalls, crashes, failing commits, fairness | `TypeOK`, `Accounted`, `OwedStarts`, `SharedOnlyAfterRestart`, `CancelledNotStarted`, `ServesJobs`, `EveryJobEnds` |
| `WindmillFlow` | 2 steps side by side and a third, 2 workers and the monitor, 1 fault anywhere, 1 cancellation, fairness | `TypeOK`, `ModulesInOrder`, `CountedOnce`, `PushedOnce`, `FlowOutcome`, `ServesJobs`, `EndsUnlessLost` |

Bounds of the orchestration. `MaxRetries` bounds how often a step is retried (1 or 2: enough for a second
attempt to meet the remains of the first, and for the count to be overwritten); it is a bound on what is asked for, the
code has none. Two threads in a handler are the smallest number that
interleave; a chain of two steps the smallest with a dependency, a join of three
the smallest in which the two last executions end a run together.
The theorems remove these bounds from what they state. Deadlock is not checked: with `Requests` limited and the retries
used up the system really stops.

Bounds of the others. Three steps are enough for a cycle behind or before a step, a
self-dependency and a join; four for two cycles and for an edge into a closed component, where
the search can go wrong; eleven levels are the fewest whose names sort wrongly. In
`Cancellation` the two executions are interchangeable (symmetry; it checks no liveness).
`_max_completed` is 1 instead of 100 so that two executions reach it. `MaxLines` bounds what a
process writes, and `MaxLogs` is 3 instead of 10000: an execution of one stage logs more. One
step is enough for the reconciliation: it treats the steps one by one, and nothing it reads is
about another step. `RestartLimit` is Windmill's own. One job is enough for `WindmillJobs`,
whose actions concern one job each but for the monitor's round; the theorems cover any number.
`MaxFaults` and `MaxCancels` are 1 in `WindmillFlow`: each fault is followed through every
interleaving, two of them are not. A flow with a branchall of two and a module after it is the
smallest in which the last branch has to be told from the others, and flows of flows go no
deeper than the ones `FlowGenerator` makes. Workers do not stall in this module; in
`WindmillJobs` they do. Deadlock is not checked because every one of these programs ends or
waits for requests.

The instances leave requests out where they would only add states: `OneDispatcher`
leaves out the CLI's cancel because it breaks `ImplementsSchedule` in a known way (a
cancelled step whose job waits or has just begun is worked on all the same, see above).
`Verdicts` leaves it out for the same reason: such a step is open in a run that has ended; and the
API's resume because it breaks `VerdictReached` (see above).

Fairness. `WF(Progress(t))`: a handler that has begun goes on. It is a thread of a
running process between two calls that return; engines have a timeout and the gates
run subprocesses with one. `WF(StartJob(w))`: Windmill's workers take waiting
jobs. Requests are never assumed to come. In `Reconciliation` a job's script
does not wait for ever (it has a timeout) and a reconciliation that has begun goes on; that
one begins again and again is the premise of `DriftRepaired`, not an assumption. `WF(CreateNext)` of
the flow generation: a single thread that goes on. In `CliExecutions` the threads of a
discovery run (`RunnerStep`, `LogStep`) and an open stream (`StreamStep`, which looks again
every second) go on; that a client leaves, or that anybody cancels, is not assumed. In the two
Windmill modules workers and monitor loop for ever, so a job that is queued is pulled, one
that is executed ends or times out, what is silent is found silent, and a spawned task runs.
That the monitor's attempts to fail a job are not all lost is strong fairness of `BeginFail` and
`CommitFail`: it tries again in every round. Faults are never assumed to happen or to stop by
fairness; where they are unbounded (`WindmillJobs`), the restarts are not.

## Proofs

`OrchestrationProofs` proves `Spec => []TypeOK` and `Spec => []InFlightOwned`,
and `Spec => []DependencyOrder` when no request names the step to run
(`Requests \cap DirectRequests = {}`: the execute and QA routes and the CLI's `step
run` run any step they are given, so the assumption is necessary). They
hold for any finite non-empty set of steps, any dependencies, any number of
callers and workers, all faults.

The inductive invariants:

- `TInv` adds to the types that a thread at a place that works on a step names one
  (`Named`), and that a thread which is about to write RUNNING or NEEDS_QA writes it
  to its own step only and stays with that step afterwards (`Follows`). The latter
  is what makes `InFlightOwned` inductive: the writer of a RUNNING row is its owner.
- `InFlightOwned` needs nothing more: each action either leaves the owner alone or
  hands the step on to a job, to a write, or to `orphan`.
- `DInv` adds to `DependencyOrder` that a COMPLETED step is in `done`, that a queued
  job's dependencies are in `done`, and that every thread is `Committed`: the step it
  has selected, and every row it will move out of PENDING, has its dependencies
  in `done`. It is inductive because `done` only grows, so a stale listing stays a
  valid reason.

`DispatcherProofs` proves what needs one caller (`OneCaller`): `SingleExecution` and
`RetriesCount`, when no request names its step; `ImplementsSchedule`, when moreover nobody uses
the CLI's cancel; `CompletedIsSound`, when nobody uses the CLI's retry either. The number of
Windmill workers is any, and so are the steps, the dependencies and the faults. The argument is
that a step is in one pair of hands (`HInv`), although nothing in the code locks its row:

- `InOneHand`: a step has at most one job; while it has one nobody touches it, and otherwise at
  most one thread does.
- `Believes`: what a thread read when it chose the step is still what the row says (`Expected`),
  because only whoever has the step in hand writes to its row. The CLI's cancel is
  the exception, hence the `"cancelled"` in `InHand`.
- `Intends`, `Counts`, `WorkerOnly`: what a thread that is about to write goes on with, what
  count it writes, and that a job never resets or cancels a step. They make the writes that
  follow a stale read predictable.

`KInv` adds, for the refinement, that no step is cancelled and that what is in `done` is
COMPLETED: only then does a write over a row that was read earlier map to a step of the abstract
schedule. `CInv` adds that a run which is COMPLETED has succeeded in the sense of
`CompletedIsSound`, and that a thread which is about to write this verdict still has grounds for
it (`Concludes`). Each assumption is needed, because of what the code does: with two callers
`run_step` checks the row and writes it in two transactions, so both dispatch the step; a request
that names its step runs it whatever its row says; the CLI's cancel overwrites the rows of steps
that others work on; the CLI's retry restarts a TIMEOUT step that the verdict has counted as ended.

`FlowGeneratorProofs` proves `LevelsInOrder`, `LevelsTight`, `OnlyStuckLeftOut` and
`FlowComplete` for any finite set of steps and any set of lists of edges. Its invariant `GInv`
says that the in-degree of a step that remains is exactly the number of its edges that come from
a step that remains or from no step at all (so repetitions are taken off as often as they were
counted), that a step which is free now was freed by the last level, and that stuck steps
remain. `FlowComplete` needs two facts more. On a graph without cycles nothing is stuck
(`AcyclicNoneStuck`): of a set of steps that wait for each other, take one with a smallest set of
ancestors; what it depends on has the same ancestors, hence the two are on a cycle. And the
places of the keys are a permutation (`Places`): no two keys have the same rank, so the groups
are the levels, each once, whatever their order. `ShortFlowsInOrder` is the other side of the
finding of `LongChain`: up to ten levels the names of the groups sort like their numbers, and the
flow runs every step after its dependencies.

`CreateFlowProofs` proves `CyclesExact`, `ImplementsGenerator` and `TypesOK` of `CreateFlow` for any
finite set of steps, any lists of edges and any order of the nodes, so what is proved of
`FlowGenerator` holds of `create_flow_from_steps` with the search it really calls. The invariant
`SInv` of Tarjan's search says, between any two of its steps:

- `Shape` and `Frames`: the stack and the frames are in the order of the indices, and a frame is
  at the edge that leads to the node of the next one.
- `Upward` and `Downward`: the nodes that were on the stack when a frame's node called the next
  one lead to that frame's node, and the frame's node leads to everything above it.
- `EdgesFollowed`: an edge that has been dealt with leads to a visited node, and from a popped
  one to a popped one; so what has been popped is closed (`PoppedClosed`).
- `LowSound` and `LowComplete`: a low link is the index of a node on the stack that is reached,
  and the low link of a frame's node is as low as every node on the stack that an edge dealt
  with leads to, from it or from the finished nodes above it. This is what both branches of
  `min` are for: leave out the test of the stack and `LowSound` fails, leave out the caller's
  share of the low link and `LowComplete` fails.
- `Components`: what has been popped so far is in one component each, and each is a whole class.

Then what lies above a root on the stack leads to the root and is reached from it, and no edge
leaves it but to what has been popped: it is a class (`AboveIsClass`). A node that is no root
reaches one below it on the stack, which leads to the caller, so `Upward` survives its return.

`CliExecutionsProofs` proves `CancelObeyed` (of the executions that are tracked) and `CancelKept`
for any number of executions, stages, requests, streams and output threads. Its invariant `CInv` says that a tracked
execution has started nothing after its cancellation, or one stage, and then is past the start of a
process: `AfterStage` sends it to the report, so the loop is not entered again. `EInv` adds what
the registry and the clients hold (`RegistrySound`: the tracked executions that have ended are
listed, each once, and one whose thread is done is among them), from which `TypeOK` and
`EndedBounded` follow.

`StreamSendsEveryLine` is only model-checked: with the two output threads of every real process, or
with two clients, it is false.

`ReconciliationProofs` proves `ReconcileSpec => []ReconcileTypeOK`, `[]InFlightOwned` and, under the
same assumption on requests as above, `[]DependencyOrder`. It reuses the lemmas about the steps of
`Orchestration`, which stay steps of `ReconcileNext`. Its own part (`ListingOK`, `RInv`): only
steps of the listing are corrected, a correction is never to PENDING or NEEDS_QA, and a step that
has a job has been dispatched, hence its dependencies are in `done`; so even a status that is
written from a stale listing does not put a step before its dependencies.

`WindmillJobsProofs` proves `TypeOK`, `Accounted`, `OwedStarts`, `SharedOnlyAfterRestart`,
`CancelledNotStarted` and the refinement `ServesJobs` for any number of jobs, workers and
cancellations and every limit. Its invariant `IInv` adds that a job never pushed was never
started, that whoever is about to complete a job has seen its row, and that a job which is held
and queued was given away by the monitor.

`WindmillFlowProofs` proves `TypeOK`, `ModulesInOrder`, `CountedOnce`, `PushedOnce` and the refinement
`ServesJobs` for any number of workers, faults and cancellations, and `FlowOutcome` for at most one
fault. These need hypotheses, and TLC has a counterexample without each of them:

- `PlanIsGenerated`: a module that is not a branchall holds scripts, as in every flow that
  `FlowGenerator` makes. (When pushing the next module of a flow fails that is such a module
  itself, the flow is completed as failed, its parent is told of a success and goes on.)
- `Orderly`: no statement fails that removes the lock of a branch which has been counted
  (`"unlocking"` is not in `FailsAt`), else the branch is counted again by the error handler.
- `MaxFaults <= 1`, for `FlowOutcome` only: when the report of a failed job fails as well, twice,
  the last resort of `handle_job_error` completes the flow while another branch is still queued.

The first invariant, `FInv`, has four parts: a queued job has no outcome, so ending it never
overwrites one (`RowsSound`); the statuses of a flow are those of its modules (`StatusSound`);
the jobs of a module that waits are not pushed (`WaitingUntouched`); and a process that updates a
flow knows it, with the root reported only as an error (`WorkSound`), without which a failure
would be written to the parent that the root does not have. It is inductive only as long as
whoever is about to push is at the flow's step and the module still waits (`Timely`): the push
itself asks for nothing and overwrites the status. The steps are sorted by what they do to the
rows: they end, start or requeue one job or none (`Quiet`), or they push (`Pushes`).

The invariant `OInv` follows the ends of the jobs and has `Timely`. A job of a flow whose end is
not reported yet is owed to its flow: its module is in progress, it is not counted, and nobody
else is reporting it (`OwedOnce`). Hence two processes update the same flow only when they
report two branches of a module in progress, or when the flow is closed (`NoTwo`); who counts
the last branch is alone (`ReportsEnded`, by the cardinality of the branches), and who pushes
the next module finds it waiting (`Drives`), hence not pushed, which is what `ServesJobs` asks
of a push. `ModulesSound` says that the modules before a flow's step have succeeded, that those
after it wait, and what a module's status says of its jobs; `JobKnown` whose error a failing
update is going to report; `Waits` and `Handled` that a job is in the queue or in one process's
hands, and that nothing of it has begun. `FlowsEnd` adds that a flow that has failed is
`Closed`: nothing can happen in it any more. `SignsSound` and `TriesBounded` are what the types
need beyond that.

Assumptions: the `ASSUME`s of the modules (finite, non-empty sets of steps, types of the bounds),
which TLC evaluates in every run, and the hypotheses the theorems above state. The properties
outside these hypotheses are false, not unproved.

Model-checked only:

- Liveness (`StepLeavesFlight`, `VerdictReached`, `Ends`, `StreamEnds`, `DriftRepaired`,
  `EveryJobEnds`, `EndsUnlessLost`): fairness is defined with `ENABLED`, which the prover does not
  expand.

## Not modelled

The components with status `not_modelled` in `PROJECT.json`, each with its reason there.
In short: what has no order of steps of its own (policies, templates, gates, metrics), what
is outside the repository (git, engines) and what the plan below has left.

Most of the Rust code of the repository is the vendored Windmill, and most of that is API
handlers, generated clients, language runtimes and administration that the steps of a protocol
run never meet. Of what they do meet, these are left out because no flow or script of
DevGodzilla uses them: retries and failure modules, loops, `branchone`, suspension and approval,
the preprocessor, early stops, jobs on the same worker, schedules, concurrency limits, agent
workers and `RESTART_ZOMBIE_JOBS=false`. The terminal client `src/tui-rs` only shows what the
API answers.

## Plan

Done: the schedule and the orchestration with their proofs, because the rows are what everything
else hangs on; the flow generation; the CLI executions; the reconciliation over the rows; the
job queue and the flows of the vendored Windmill under both.

Next, the most important first:

1. `JobRuns`: `job_runs` rows, job webhooks that come early, late, twice and out of order,
   the onboarding queue, which submits a job before it writes its row; abstract
   specification: the last status of a job.
2. `Planning`: the step runs as a growing set, two plannings at a time, dependencies that
   are no step runs, composed with `StepGraph`.
3. `EventBus` with the sprint handlers: which events reach a task (`publish` calls the
   synchronous handlers only), with `ImplementsSchedule`'s step as the source of events.
4. `Feedback`: the attempt counts of the QA feedback router.

Theorems worth proving next: the flow that `FlowGenerator` makes satisfies what `WindmillFlow`
assumes of a plan (`PlanIsGenerated`), so that the two compose in one specification, and the
invariants of the modules above.
