---------------------------- MODULE CliExecutions ----------------------------
(***************************************************************************)
(* The CLI executions of one API process: CLIExecutionTracker, the         *)
(* discovery runs that are tracked in it (run_discovery and the engine's   *)
(* CLI process with a thread per output stream), the route that cancels    *)
(* one and the route that streams its log.                                 *)
(*                                                                         *)
(* Every tracker method holds the lock while it changes an execution, so   *)
(* it is one action.  log() is more: it appends under the lock, and then,  *)
(* without the lock, reads the newest entry and calls the subscribers one  *)
(* by one, in a list that others change meanwhile.                         *)
(***************************************************************************)
EXTENDS Naturals, FiniteSets, SequencesExt

CONSTANTS
    Executions,     \* discovery runs
    Streams,        \* clients of the log stream
    Cancellers,     \* requests to cancel an execution
    Sources,        \* the output streams of a process that are read
    Stages,         \* number of stages of a discovery run
    MaxLines,       \* bound: lines a process writes to an output stream
    MaxLogs,        \* maxlen of CLIExecution.logs
    MaxCompleted,   \* _max_completed
    LateReaders,    \* whether a reader thread may outlive join(timeout=0.2)
    Raises          \* whether a stage may raise (prompt file, engine)

ASSUME ExecutionsAssumption == IsFiniteSet(Executions)
ASSUME SourcesAssumption    == "runner" \notin Sources
ASSUME BoundsAssumption     == /\ Stages \in Nat /\ MaxLines \in Nat /\ MaxCompleted \in Nat
                               /\ MaxLogs \in Nat \ {0}
ASSUME ChoicesAssumption    == LateReaders \in BOOLEAN /\ Raises \in BOOLEAN

Writers == Sources \cup {"runner"}

ExecutionStatus == {"pending", "running", "succeeded", "failed", "cancelled"}
Finished == {"succeeded", "failed", "cancelled"}

VARIABLES
    run,        \* where run_discovery is with each execution
    stage,      \* number of stages behind it
    failed,     \* whether one of them failed
    reader,     \* lines each reader thread may still read
    status,     \* CLIExecution.status
    entries,    \* entries appended to CLIExecution.logs, which keeps the last MaxLogs
    lines,      \* which of the entries came through log()
    telling,    \* where each thread is inside log(), behind the append
    tracked,    \* keys of _executions
    ended,      \* the tracked executions that have finished, by finished_at
    subs,       \* _subscribers: a list for each execution
    stream,     \* what each client of the log stream has been sent
    canceller,  \* where each cancel request is
    started     \* history: stages started after the execution was cancelled

runner   == <<run, stage, failed, reader>>
logged   == <<entries, lines, telling>>
registry == <<tracked, ended, subs>>
clients  == <<stream, canceller>>
vars     == <<runner, status, logged, registry, clients, started>>

-----------------------------------------------------------------------------
(* CLIExecutionTracker.                                                    *)

\* add_log without a callback, as the tracker's own methods do.
AddLog(e) ==
    /\ entries' = [entries EXCEPT ![e] = @ + 1]
    /\ UNCHANGED <<lines, telling>>

\* A thread that is not inside log().
Out == [at |-> "out", entry |-> 0, next |-> 1]

\* log() up to the release of the lock: nothing for an execution that is not tracked.
Log(e, w) ==
    IF e \in tracked
    THEN /\ entries' = [entries EXCEPT ![e] = @ + 1]
         /\ lines' = [lines EXCEPT ![e] = @ \cup {entries[e] + 1}]
         /\ telling' = [telling EXCEPT ![e][w].at = "logged"]
    ELSE UNCHANGED logged

\* logs[-1] is read.  The list of subscribers is taken here too, but it is the
\* one that others change.  (Unless there is none yet, or the cleanup drops it:
\* a stream that subscribes later copies the entry, and one whose execution is
\* cleaned up does not say "complete".)
TakeNewest(e, w) ==
    /\ telling[e][w].at = "logged"
    /\ telling' = [telling EXCEPT ![e][w] = [@ EXCEPT !.at = "calling", !.entry = entries[e]]]
    /\ UNCHANGED <<runner, status, entries, lines, registry, clients, started>>

\* The iterator over the list calls who is at its position by now.
Tell(e, w) ==
    /\ telling[e][w].at = "calling"
    /\ telling[e][w].next \in DOMAIN subs[e]
    /\ telling' = [telling EXCEPT ![e][w].next = @ + 1]
    /\ stream' = [stream EXCEPT ![subs[e][telling[e][w].next]].queue =
                                    @ \cup {telling[e][w].entry}]
    /\ UNCHANGED <<runner, status, entries, lines, registry, canceller, started>>

LogReturns(e, w) ==
    /\ telling[e][w].at = "calling"
    /\ telling[e][w].next \notin DOMAIN subs[e]
    /\ telling' = [telling EXCEPT ![e][w] = Out]
    /\ UNCHANGED <<runner, status, entries, lines, registry, clients, started>>

\* list.remove: q without x, the later ones moved up.
Without(q, x) ==
    IF \E i \in DOMAIN q : q[i] = x THEN RemoveAt(q, CHOOSE i \in DOMAIN q : q[i] = x) ELSE q

\* finished_at is set: e is the last to have finished, and no longer where it was.
Ending(e) == Append(Without(ended, e), e)

\* _cleanup_old_executions, with q in place of ended.
Cleanup(q) ==
    LET excess == IF Len(q) > MaxCompleted THEN Len(q) - MaxCompleted ELSE 0
        oldest == {q[i] : i \in 1..excess}
    IN /\ ended' = SubSeq(q, excess + 1, Len(q))
       /\ tracked' = tracked \ oldest
       /\ subs' = [e \in Executions |-> IF e \in oldest THEN <<>> ELSE subs[e]]

\* complete() that forgets the cleanup for a cancelled execution.
CompleteNoCleanup(e, ok) ==
    IF e \notin tracked THEN UNCHANGED <<status, logged, registry>>
    ELSE /\ AddLog(e)
         /\ IF status[e] = "cancelled"
            THEN UNCHANGED <<status, registry>>
            ELSE /\ status' = [status EXCEPT ![e] = IF ok THEN "succeeded" ELSE "failed"]
                 /\ Cleanup(Ending(e))

\* complete() that takes every result.
CompleteAlways(e, ok) ==
    IF e \notin tracked THEN UNCHANGED <<status, logged, registry>>
    ELSE /\ AddLog(e)
         /\ status' = [status EXCEPT ![e] = IF ok THEN "succeeded" ELSE "failed"]
         /\ Cleanup(Ending(e))

\* complete(): a cancelled execution keeps its status.
Complete(e, ok) ==
    IF e \notin tracked THEN UNCHANGED <<status, logged, registry>>
    ELSE /\ AddLog(e)
         /\ IF status[e] = "cancelled"
            THEN /\ UNCHANGED status
                 /\ Cleanup(ended)
            ELSE /\ status' = [status EXCEPT ![e] = IF ok THEN "succeeded" ELSE "failed"]
                 /\ Cleanup(Ending(e))

-----------------------------------------------------------------------------
(* run_discovery: its thread goes on after its log calls have returned.    *)

At(e, p) == run[e] = p /\ telling[e]["runner"].at = "out"

Goto(e, p) == run' = [run EXCEPT ![e] = p]

\* start_execution.
Start(e) ==
    /\ run[e] = "new"
    /\ Goto(e, "begin")
    /\ status' = [status EXCEPT ![e] = "running"]
    /\ tracked' = tracked \cup {e}
    /\ AddLog(e)
    /\ UNCHANGED <<stage, failed, reader, ended, subs, clients, started>>

Begin(e) ==
    /\ At(e, "begin")
    /\ Goto(e, "check")
    /\ Log(e, "runner")
    /\ UNCHANGED <<stage, failed, reader, status, registry, clients, started>>

\* A question that is never answered yes.
NeverCancelled(e) == FALSE

\* _execution_cancelled: an execution that is no longer tracked is not.
ExecutionCancelled(e) == e \in tracked /\ status[e] = "cancelled"

\* The head of the loop over the stages.
CheckStage(e) ==
    /\ At(e, "check")
    /\ \/ /\ ExecutionCancelled(e) /\ stage[e] < Stages
          /\ Goto(e, "report") /\ Log(e, "runner")
          /\ UNCHANGED <<stage, failed>>
       \/ /\ ~ExecutionCancelled(e) /\ stage[e] < Stages
          /\ Goto(e, "spawn") /\ Log(e, "runner")
          /\ UNCHANGED <<stage, failed>>
       \/ /\ ~ExecutionCancelled(e) /\ stage[e] < Stages    \* no such prompt
          /\ stage' = [stage EXCEPT ![e] = @ + 1]
          /\ failed' = [failed EXCEPT ![e] = TRUE]
          /\ UNCHANGED <<run, logged>>
       \/ /\ stage[e] = Stages
          /\ Goto(e, "report")
          /\ UNCHANGED <<stage, failed, logged>>
    /\ UNCHANGED <<reader, status, registry, clients, started>>

\* The process starts and set_pid records it.
Spawn(e) ==
    /\ At(e, "spawn")
    /\ Goto(e, "running")
    /\ reader' = [reader EXCEPT ![e] = [src \in Sources |-> MaxLines]]
    /\ started' = IF status[e] = "cancelled" THEN [started EXCEPT ![e] = @ + 1] ELSE started
    /\ IF e \in tracked THEN AddLog(e) ELSE UNCHANGED logged
    /\ UNCHANGED <<stage, failed, status, registry, clients>>

\* The prompt cannot be read, or the engine raises before there is a process:
\* nobody calls complete().
StageRaises(e) ==
    /\ Raises
    /\ \/ At(e, "check") /\ ~ExecutionCancelled(e) /\ stage[e] < Stages
       \/ At(e, "spawn")
    /\ Goto(e, "raised")
    /\ UNCHANGED <<stage, failed, reader, status, logged, registry, clients, started>>

\* A reader thread reads a line, or the end of the stream.
ReadLine(e, src) ==
    /\ reader[e][src] > 0
    /\ telling[e][src].at = "out"
    /\ \/ reader' = [reader EXCEPT ![e][src] = @ - 1] /\ Log(e, src)
       \/ reader' = [reader EXCEPT ![e][src] = 0] /\ UNCHANGED logged
    /\ UNCHANGED <<run, stage, failed, status, registry, clients, started>>

ReadersJoined(e) == \A src \in Sources : reader[e][src] = 0 /\ telling[e][src].at = "out"

\* The process has ended, by itself, by a signal or by the timeout.
EngineReturns(e) ==
    /\ At(e, "running")
    /\ ReadersJoined(e) \/ LateReaders
    /\ Goto(e, "after")
    /\ stage' = [stage EXCEPT ![e] = @ + 1]
    /\ \E ok \in BOOLEAN : failed' = [failed EXCEPT ![e] = @ \/ ~ok]
    /\ Log(e, "runner")
    /\ UNCHANGED <<reader, status, registry, clients, started>>

AfterStage(e) ==
    /\ At(e, "after")
    /\ \/ ExecutionCancelled(e) /\ Goto(e, "report") /\ Log(e, "runner")
       \/ ~ExecutionCancelled(e) /\ Goto(e, "check") /\ UNCHANGED logged
    /\ UNCHANGED <<stage, failed, reader, status, registry, clients, started>>

\* The outputs are looked for, and the outcome is logged.
Report(e) ==
    /\ At(e, "report")
    /\ Goto(e, "completing")
    /\ \E missing \in BOOLEAN : failed' = [failed EXCEPT ![e] = @ \/ missing]
    /\ Log(e, "runner")
    /\ UNCHANGED <<stage, reader, status, registry, clients, started>>

Finish(e) ==
    /\ At(e, "completing")
    /\ Goto(e, "done")
    /\ Complete(e, ~failed[e])
    /\ UNCHANGED <<stage, failed, reader, clients, started>>

-----------------------------------------------------------------------------
(* cancel_execution: it looks, signals the process, and then cancels.      *)

RequestCancel(c) ==
    /\ canceller[c].at = "idle"
    /\ \E e \in tracked :
          /\ status[e] = "running"
          /\ canceller' = [canceller EXCEPT ![c] = [at |-> "signalled", of |-> {e}]]
    /\ UNCHANGED <<runner, status, logged, registry, stream, started>>

\* A tracker.cancel that sets no finished_at.
MarkCancelledUndated(c) ==
    /\ canceller[c].at = "signalled"
    /\ canceller' = [canceller EXCEPT ![c].at = "done"]
    /\ \E e \in canceller[c].of :
          IF e \in tracked
          THEN status' = [status EXCEPT ![e] = "cancelled"] /\ AddLog(e)
          ELSE UNCHANGED <<status, logged>>
    /\ UNCHANGED <<runner, tracked, ended, subs, stream, started>>

\* tracker.cancel: whatever the status is by now.
MarkCancelled(c) ==
    /\ canceller[c].at = "signalled"
    /\ canceller' = [canceller EXCEPT ![c].at = "done"]
    /\ \E e \in canceller[c].of :
          IF e \in tracked
          THEN /\ status' = [status EXCEPT ![e] = "cancelled"]
               /\ ended' = Ending(e)
               /\ AddLog(e)
          ELSE UNCHANGED <<status, ended, logged>>
    /\ UNCHANGED <<runner, tracked, subs, stream, started>>

-----------------------------------------------------------------------------
(* stream_execution_logs.  "of" is the execution, in a set.                *)

Open(s) ==
    /\ stream[s].at = "idle"
    /\ \E e \in tracked : stream' = [stream EXCEPT ![s].at = "opened", ![s].of = {e}]
    /\ UNCHANGED <<runner, status, logged, registry, canceller, started>>

Subscribe(s) ==
    /\ stream[s].at = "opened"
    /\ subs' = [e \in Executions |-> IF e \in stream[s].of THEN Append(subs[e], s) ELSE subs[e]]
    /\ stream' = [stream EXCEPT ![s].at = "subscribed"]
    /\ UNCHANGED <<runner, status, logged, tracked, ended, canceller, started>>

\* The oldest entry that the ring still holds.
Oldest(e) == IF entries[e] > MaxLogs THEN entries[e] - MaxLogs + 1 ELSE 1

SendExisting(s) ==
    /\ stream[s].at = "subscribed"
    /\ \E e \in stream[s].of :
          stream' = [stream EXCEPT ![s].at = "streaming", ![s].from = Oldest(e),
                                   ![s].sent = Oldest(e)..entries[e]]
    /\ UNCHANGED <<runner, status, logged, registry, canceller, started>>

\* The end of the generator: what is sent last, and unsubscribe.
Close(s, p, last) ==
    /\ stream' = [stream EXCEPT ![s].at = p, ![s].sent = @ \cup last, ![s].queue = {}]
    /\ subs' = [e \in Executions |-> Without(subs[e], s)]
    /\ UNCHANGED <<runner, status, logged, tracked, ended, canceller, started>>

\* A round of the loop of an execution that goes on.
SendNew(s) ==
    /\ stream[s].at = "streaming"
    /\ \E e \in stream[s].of : e \in tracked /\ status[e] \notin Finished
    /\ \E k \in stream[s].queue :
          stream' = [stream EXCEPT ![s].queue = @ \ {k}, ![s].sent = @ \cup {k}]
    /\ UNCHANGED <<runner, status, logged, registry, canceller, started>>

\* A last round for the executions that succeed only.
SendLastSucceeded(s) ==
    /\ stream[s].at = "streaming"
    /\ \E e \in stream[s].of : e \in tracked /\ status[e] = "succeeded"
    /\ Close(s, "complete", stream[s].queue)

\* A last round that does not look at the queue again.
SendLastAtOnce(s) ==
    /\ stream[s].at = "streaming"
    /\ \E e \in stream[s].of : e \in tracked /\ status[e] \in Finished
    /\ Close(s, "complete", {})

\* The last round: the remaining entries and the event "complete".
SendLast(s) ==
    /\ stream[s].at = "streaming"
    /\ \E e \in stream[s].of : e \in tracked /\ status[e] \in Finished
    /\ Close(s, "complete", stream[s].queue)

\* The execution has been cleaned up.
Abandon(s) ==
    /\ stream[s].at = "streaming"
    /\ stream[s].of \cap tracked = {}
    /\ Close(s, "not_found", {})

\* The client goes away.
Leave(s) ==
    /\ stream[s].at \in {"subscribed", "streaming"}
    /\ Close(s, "left", {})

-----------------------------------------------------------------------------
RunnerStep(e) ==
    \/ Begin(e) \/ CheckStage(e) \/ Spawn(e) \/ StageRaises(e)
    \/ EngineReturns(e) \/ AfterStage(e) \/ Report(e) \/ Finish(e)

LogStep(e) == \/ \E src \in Sources : ReadLine(e, src)
              \/ \E w \in Writers : TakeNewest(e, w) \/ Tell(e, w) \/ LogReturns(e, w)

StreamStep(s) == Subscribe(s) \/ SendExisting(s) \/ SendNew(s) \/ SendLast(s) \/ Abandon(s)

Init ==
    /\ run = [e \in Executions |-> "new"]
    /\ stage = [e \in Executions |-> 0]
    /\ failed = [e \in Executions |-> FALSE]
    /\ reader = [e \in Executions |-> [src \in Sources |-> 0]]
    /\ status = [e \in Executions |-> "pending"]
    /\ entries = [e \in Executions |-> 0]
    /\ lines = [e \in Executions |-> {}]
    /\ telling = [e \in Executions |-> [w \in Writers |-> Out]]
    /\ tracked = {}
    /\ ended = <<>>
    /\ subs = [e \in Executions |-> <<>>]
    /\ stream = [s \in Streams |-> [at |-> "idle", of |-> {}, from |-> 1, queue |-> {}, sent |-> {}]]
    /\ canceller = [c \in Cancellers |-> [at |-> "idle", of |-> {}]]
    /\ started = [e \in Executions |-> 0]

Next ==
    \/ \E e \in Executions : Start(e) \/ RunnerStep(e) \/ LogStep(e)
    \/ \E c \in Cancellers : RequestCancel(c) \/ MarkCancelled(c)
    \/ \E s \in Streams : Open(s) \/ StreamStep(s) \/ Leave(s)

Spec == Init /\ [][Next]_vars

\* The threads of a discovery run go on, and so does an open stream, which
\* looks again every second; engines have a timeout.
Fairness ==
    /\ \A e \in Executions : WF_vars(RunnerStep(e)) /\ WF_vars(LogStep(e))
    /\ \A s \in Streams : WF_vars(StreamStep(s))

FairSpec == Spec /\ Fairness

-----------------------------------------------------------------------------
(* Properties.                                                             *)

Points == {"new", "begin", "check", "spawn", "running", "after", "report",
           "completing", "done", "raised"}

LogCall == [at : {"out", "logged", "calling"}, entry : Nat, next : Nat \ {0}]

\* Types; the finished executions that are tracked are the ones that have a
\* finished_at (_cleanup_old_executions sorts by it), each once.
TypeOK ==
    /\ run \in [Executions -> Points]
    /\ stage \in [Executions -> 0..Stages]
    /\ failed \in [Executions -> BOOLEAN]
    /\ reader \in [Executions -> [Sources -> 0..MaxLines]]
    /\ status \in [Executions -> ExecutionStatus]
    /\ entries \in [Executions -> Nat]
    /\ \A e \in Executions : lines[e] \subseteq 1..entries[e]
    /\ telling \in [Executions -> [Writers -> LogCall]]
    /\ tracked \subseteq Executions
    /\ {ended[i] : i \in DOMAIN ended} = {e \in tracked : status[e] \in Finished}
    /\ \A i, j \in DOMAIN ended : ended[i] = ended[j] => i = j
    /\ \A e \in Executions : \A i \in DOMAIN subs[e] :
           stream[subs[e][i]].of = {e} /\ stream[subs[e][i]].at \in {"subscribed", "streaming"}
    /\ started \in [Executions -> Nat]

\* A cancelled discovery that the tracker still knows starts at most the stage
\* it had already decided to start: run_discovery looks at the status before
\* and after every stage.  A cancelled execution that the cleanup has removed
\* is not spoken of: run_discovery finds nothing and goes on with its stages.
CancelObeyed ==
    \A e \in tracked : status[e] = "cancelled" => started[e] <= 1

\* "Preserve user-initiated cancellation if the process exits later": no
\* result of the process and no later step takes a cancellation back.
CancelKept ==
    [][\A e \in Executions : status[e] = "cancelled" => status'[e] = "cancelled"]_vars

\* The tracker keeps at most _max_completed finished executions, and the
\* cancelled ones whose run has not come to complete(), which cleans up.
EndedBounded ==
    Len(ended) <= MaxCompleted
                  + Cardinality({e \in tracked : status[e] = "cancelled" /\ run[e] # "done"})

\* A stream that says "complete" has sent every line the execution logged and
\* that the ring still held when the stream copied it: "Send existing logs
\* first - Then stream new logs as they arrive".
StreamSendsEveryLine ==
    \A s \in Streams, e \in Executions :
        stream[s].at = "complete" /\ stream[s].of = {e} =>
            {k \in lines[e] : k >= stream[s].from} \subseteq stream[s].sent

Closed == {"complete", "not_found", "left"}

\* A stream comes to its end: "Close when the execution completes".
StreamEnds ==
    \A s \in Streams : stream[s].at = "opened" ~> stream[s].at \in Closed
=============================================================================
