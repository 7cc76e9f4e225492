-------------------------- MODULE WindmillJobsProofs --------------------------
(***************************************************************************)
(* Theorems about WindmillJobs for every set of jobs, workers and          *)
(* cancellations, every restart limit, with workers that stall or not.     *)
(***************************************************************************)
EXTENDS WindmillJobs, TLAPS

-----------------------------------------------------------------------------
(* The inductive invariant.                                                *)

Pushed(j) == queue[j] # "absent" \/ outcome[j] # "none"

\* A job that was never pushed was never started.
NeverPushed == \A j \in Jobs : ~Pushed(j) => starts[j] = 0

\* A busy worker has a job that was pushed, and knows what it will record.
WorkersSound ==
    \A w \in Workers :
        /\ Busy(w) <=> holds[w] # NoJob
        /\ at[w] \in {"reporting", "retrying", "committing"} => verdict[w] \in Ended
        /\ Busy(w) => Pushed(holds[w])

\* Who is going to complete a job knows of it from its row.
RequestsSound ==
    /\ \A r \in Requests :
        /\ request[r].at # "new" <=> request[r].job # NoJob
        /\ request[r].at # "new" => Pushed(request[r].job)
    /\ \A j \in doomed \cup failing : Pushed(j)

\* A job that is held can be queued only when its worker missed the timeout;
\* without stalls a held job keeps its ping.
HeldSound ==
    \A w \in Workers : Busy(w) =>
        /\ queue[holds[w]] = "queued" => Stalls /\ counter[holds[w]] > 0
        /\ Stalls \/ ping[holds[w]] # "old"

IInv ==
    /\ TypeOK
    /\ Accounted
    /\ OwedStarts
    /\ SharedOnlyAfterRestart
    /\ NeverPushed
    /\ WorkersSound
    /\ RequestsSound
    /\ HeldSound

LEMMA InitIInv == Init => IInv
BY NoJobAssumption, RestartLimitAssumption
   DEF Init, IInv, TypeOK, Accounted, OwedStarts, SharedOnlyAfterRestart,
       NeverPushed, WorkersSound, RequestsSound, HeldSound, Pushed, Busy, Ended

-----------------------------------------------------------------------------
(* Each action keeps it.                                                   *)

USE NoJobAssumption, RestartLimitAssumption

\* The queue.

LEMMA PushIInv == ASSUME IInv, NEW j \in Jobs, Push(j) PROVE IInv'
<1> USE DEF Push, row, works, monitor, IInv, TypeOK, WorkersSound, Pushed, Busy, Ended
<1>1. TypeOK' /\ RequestsSound'
  BY DEF RequestsSound
<1>2. Accounted' /\ OwedStarts' /\ NeverPushed'
  BY DEF Accounted, OwedStarts, NeverPushed, RequestsSound
<1>3. WorkersSound' /\ HeldSound' /\ SharedOnlyAfterRestart'
  BY DEF HeldSound, SharedOnlyAfterRestart, Accounted, RequestsSound
<1> QED BY <1>1, <1>2, <1>3

LEMMA PullIInv == ASSUME IInv, NEW w \in Workers, NEW j \in Jobs, Pull(w, j) PROVE IInv'
<1> USE DEF Pull, TakeRow, HandleQueuedJob, monitor, IInv, TypeOK, WorkersSound, Pushed, Busy, Ended
<1>1. TypeOK' /\ RequestsSound'
  BY DEF RequestsSound
<1>2. Accounted' /\ OwedStarts' /\ NeverPushed'
  BY DEF Accounted, OwedStarts, NeverPushed, RequestsSound
<1>3. WorkersSound' /\ HeldSound' /\ SharedOnlyAfterRestart'
  BY DEF HeldSound, SharedOnlyAfterRestart, Accounted, RequestsSound
<1> QED BY <1>1, <1>2, <1>3

\* The worker.

LEMMA ChildExitsIInv == ASSUME IInv, NEW w \in Workers, ChildExits(w) PROVE IInv'
<1> USE DEF ChildExits, Report, row, monitor, IInv, TypeOK, WorkersSound, Pushed, Busy, Ended
<1>1. TypeOK' /\ RequestsSound'
  BY DEF RequestsSound
<1>2. Accounted' /\ OwedStarts' /\ NeverPushed'
  BY DEF Accounted, OwedStarts, NeverPushed, RequestsSound
<1>3. WorkersSound' /\ HeldSound' /\ SharedOnlyAfterRestart'
  BY DEF HeldSound, SharedOnlyAfterRestart, Accounted, RequestsSound
<1> QED BY <1>1, <1>2, <1>3

LEMMA ChildTimesOutIInv == ASSUME IInv, NEW w \in Workers, ChildTimesOut(w) PROVE IInv'
<1> USE DEF ChildTimesOut, Report, monitor, IInv, TypeOK, WorkersSound, Pushed, Busy, Ended
<1>1. TypeOK' /\ RequestsSound'
  BY DEF RequestsSound
<1>2. Accounted' /\ OwedStarts' /\ NeverPushed'
  BY DEF Accounted, OwedStarts, NeverPushed, RequestsSound
<1>3. WorkersSound' /\ HeldSound' /\ SharedOnlyAfterRestart'
  BY DEF HeldSound, SharedOnlyAfterRestart, Accounted, RequestsSound
<1> QED BY <1>1, <1>2, <1>3

LEMMA PollIInv == ASSUME IInv, NEW w \in Workers, Poll(w) PROVE IInv'
<1> USE DEF Poll, Report, Release, works, monitor, IInv, TypeOK, WorkersSound, Pushed, Busy, Ended
<1>1. TypeOK' /\ RequestsSound'
  BY DEF RequestsSound
<1>2. Accounted' /\ OwedStarts' /\ NeverPushed'
  BY DEF Accounted, OwedStarts, NeverPushed, RequestsSound
<1>3. WorkersSound' /\ HeldSound' /\ SharedOnlyAfterRestart'
  BY DEF HeldSound, SharedOnlyAfterRestart, Accounted, RequestsSound
<1> QED BY <1>1, <1>2, <1>3

LEMMA CrashIInv == ASSUME IInv, NEW w \in Workers, Crash(w) PROVE IInv'
<1> USE DEF Crash, Release, row, monitor, IInv, TypeOK, WorkersSound, Pushed, Busy, Ended
<1>1. TypeOK' /\ RequestsSound'
  BY DEF RequestsSound
<1>2. Accounted' /\ OwedStarts' /\ NeverPushed'
  BY DEF Accounted, OwedStarts, NeverPushed, RequestsSound
<1>3. WorkersSound' /\ HeldSound' /\ SharedOnlyAfterRestart'
  BY DEF HeldSound, SharedOnlyAfterRestart, Accounted, RequestsSound
<1> QED BY <1>1, <1>2, <1>3

LEMMA BeginReportIInv == ASSUME IInv, NEW w \in Workers, BeginReport(w) PROVE IInv'
<1> USE DEF BeginReport, Release, row, monitor, IInv, TypeOK, WorkersSound, Pushed, Busy, Ended
<1>1. TypeOK' /\ RequestsSound'
  BY DEF RequestsSound
<1>2. Accounted' /\ OwedStarts' /\ NeverPushed'
  BY DEF Accounted, OwedStarts, NeverPushed, RequestsSound
<1>3. WorkersSound' /\ HeldSound' /\ SharedOnlyAfterRestart'
  BY DEF HeldSound, SharedOnlyAfterRestart, Accounted, RequestsSound
<1> QED BY <1>1, <1>2, <1>3

LEMMA CommitReportIInv == ASSUME IInv, NEW w \in Workers, CommitReport(w) PROVE IInv'
<1> USE DEF CommitReport, Complete, Release, monitor, IInv, TypeOK, WorkersSound, Pushed, Busy, Ended
<1>1. TypeOK' /\ RequestsSound'
  BY DEF RequestsSound
<1>2. Accounted' /\ OwedStarts' /\ NeverPushed'
  BY DEF Accounted, OwedStarts, NeverPushed, RequestsSound
<1>3. WorkersSound' /\ HeldSound' /\ SharedOnlyAfterRestart'
  BY DEF HeldSound, SharedOnlyAfterRestart, Accounted, RequestsSound
<1> QED BY <1>1, <1>2, <1>3

LEMMA ReportFailsIInv == ASSUME IInv, NEW w \in Workers, ReportFails(w) PROVE IInv'
<1> USE DEF ReportFails, Release, row, monitor, IInv, TypeOK, WorkersSound, Pushed, Busy, Ended
<1>1. TypeOK' /\ RequestsSound'
  BY DEF RequestsSound
<1>2. Accounted' /\ OwedStarts' /\ NeverPushed'
  BY DEF Accounted, OwedStarts, NeverPushed, RequestsSound
<1>3. WorkersSound' /\ HeldSound' /\ SharedOnlyAfterRestart'
  BY DEF HeldSound, SharedOnlyAfterRestart, Accounted, RequestsSound
<1> QED BY <1>1, <1>2, <1>3

\* The cancellations.

LEMMA ReadToCancelIInv == ASSUME IInv, NEW r \in Requests, NEW j \in Jobs, NEW force \in BOOLEAN, ReadToCancel(r, j, force) PROVE IInv'
<1> USE DEF ReadToCancel, row, works, monitor, IInv, TypeOK, WorkersSound, Pushed, Busy, Ended
<1>1. TypeOK' /\ RequestsSound'
  BY DEF RequestsSound
<1>2. Accounted' /\ OwedStarts' /\ NeverPushed'
  BY DEF Accounted, OwedStarts, NeverPushed, RequestsSound
<1>3. WorkersSound' /\ HeldSound' /\ SharedOnlyAfterRestart'
  BY DEF HeldSound, SharedOnlyAfterRestart, Accounted, RequestsSound
<1> QED BY <1>1, <1>2, <1>3

LEMMA MarkIInv == ASSUME IInv, NEW r \in Requests, Mark(r) PROVE IInv'
<1> USE DEF Mark, Moves, works, monitor, IInv, TypeOK, WorkersSound, Pushed, Busy, Ended
<1>1. TypeOK' /\ RequestsSound'
  BY DEF RequestsSound
<1>2. Accounted' /\ OwedStarts' /\ NeverPushed'
  BY DEF Accounted, OwedStarts, NeverPushed, RequestsSound
<1>3. WorkersSound' /\ HeldSound' /\ SharedOnlyAfterRestart'
  BY DEF HeldSound, SharedOnlyAfterRestart, Accounted, RequestsSound
<1> QED BY <1>1, <1>2, <1>3

LEMMA BeginCancelIInv == ASSUME IInv, NEW r \in Requests, BeginCancel(r) PROVE IInv'
<1> USE DEF BeginCancel, Moves, row, works, monitor, IInv, TypeOK, WorkersSound, Pushed, Busy, Ended
<1>1. TypeOK' /\ RequestsSound'
  BY DEF RequestsSound
<1>2. Accounted' /\ OwedStarts' /\ NeverPushed'
  BY DEF Accounted, OwedStarts, NeverPushed, RequestsSound
<1>3. WorkersSound' /\ HeldSound' /\ SharedOnlyAfterRestart'
  BY DEF HeldSound, SharedOnlyAfterRestart, Accounted, RequestsSound
<1> QED BY <1>1, <1>2, <1>3

LEMMA CommitCancelIInv == ASSUME IInv, NEW r \in Requests, CommitCancel(r) PROVE IInv'
<1> USE DEF CommitCancel, Complete, Moves, works, monitor, IInv, TypeOK, WorkersSound, Pushed, Busy, Ended
<1>1. TypeOK' /\ RequestsSound'
  BY DEF RequestsSound
<1>2. Accounted' /\ OwedStarts' /\ NeverPushed'
  BY DEF Accounted, OwedStarts, NeverPushed, RequestsSound
<1>3. WorkersSound' /\ HeldSound' /\ SharedOnlyAfterRestart'
  BY DEF HeldSound, SharedOnlyAfterRestart, Accounted, RequestsSound
<1> QED BY <1>1, <1>2, <1>3

LEMMA LoseCancelIInv == ASSUME IInv, NEW r \in Requests, LoseCancel(r) PROVE IInv'
<1> USE DEF LoseCancel, Moves, row, works, monitor, IInv, TypeOK, WorkersSound, Pushed, Busy, Ended
<1>1. TypeOK' /\ RequestsSound'
  BY DEF RequestsSound
<1>2. Accounted' /\ OwedStarts' /\ NeverPushed'
  BY DEF Accounted, OwedStarts, NeverPushed, RequestsSound
<1>3. WorkersSound' /\ HeldSound' /\ SharedOnlyAfterRestart'
  BY DEF HeldSound, SharedOnlyAfterRestart, Accounted, RequestsSound
<1> QED BY <1>1, <1>2, <1>3

\* The monitor.

LEMMA PingExpiresIInv == ASSUME IInv, NEW j \in Jobs, PingExpires(j) PROVE IInv'
<1> USE DEF PingExpires, HeldBy, works, monitor, IInv, TypeOK, WorkersSound, Pushed, Busy, Ended
<1>1. TypeOK' /\ RequestsSound'
  BY DEF RequestsSound
<1>2. Accounted' /\ OwedStarts' /\ NeverPushed'
  BY DEF Accounted, OwedStarts, NeverPushed, RequestsSound
<1>3. WorkersSound' /\ HeldSound' /\ SharedOnlyAfterRestart'
  BY DEF HeldSound, SharedOnlyAfterRestart, Accounted, RequestsSound
<1> QED BY <1>1, <1>2, <1>3

LEMMA MonitorRoundIInv == ASSUME IInv, MonitorRound PROVE IInv'
<1> USE DEF MonitorRound, Zombies, Restarted, works, IInv, TypeOK, WorkersSound, Pushed, Busy, Ended
<1>1. TypeOK' /\ RequestsSound'
  BY DEF RequestsSound
<1>2. Accounted' /\ OwedStarts' /\ NeverPushed'
  BY DEF Accounted, OwedStarts, NeverPushed, RequestsSound
<1>3. WorkersSound' /\ HeldSound' /\ SharedOnlyAfterRestart'
  BY DEF HeldSound, SharedOnlyAfterRestart, Accounted, RequestsSound
<1> QED BY <1>1, <1>2, <1>3

LEMMA BeginFailIInv == ASSUME IInv, NEW j \in Jobs, BeginFail(j) PROVE IInv'
<1> USE DEF BeginFail, row, works, IInv, TypeOK, WorkersSound, Pushed, Busy, Ended
<1>1. TypeOK' /\ RequestsSound'
  BY DEF RequestsSound
<1>2. Accounted' /\ OwedStarts' /\ NeverPushed'
  BY DEF Accounted, OwedStarts, NeverPushed, RequestsSound
<1>3. WorkersSound' /\ HeldSound' /\ SharedOnlyAfterRestart'
  BY DEF HeldSound, SharedOnlyAfterRestart, Accounted, RequestsSound
<1> QED BY <1>1, <1>2, <1>3

LEMMA CommitFailIInv == ASSUME IInv, NEW j \in Jobs, CommitFail(j) PROVE IInv'
<1> USE DEF CommitFail, Complete, works, IInv, TypeOK, WorkersSound, Pushed, Busy, Ended
<1>1. TypeOK' /\ RequestsSound'
  BY DEF RequestsSound
<1>2. Accounted' /\ OwedStarts' /\ NeverPushed'
  BY DEF Accounted, OwedStarts, NeverPushed, RequestsSound
<1>3. WorkersSound' /\ HeldSound' /\ SharedOnlyAfterRestart'
  BY DEF HeldSound, SharedOnlyAfterRestart, Accounted, RequestsSound
<1> QED BY <1>1, <1>2, <1>3

LEMMA MonitorGivesUpIInv == ASSUME IInv, NEW j \in Jobs, MonitorGivesUp(j) PROVE IInv'
<1> USE DEF MonitorGivesUp, row, works, IInv, TypeOK, WorkersSound, Pushed, Busy, Ended
<1>1. TypeOK' /\ RequestsSound'
  BY DEF RequestsSound
<1>2. Accounted' /\ OwedStarts' /\ NeverPushed'
  BY DEF Accounted, OwedStarts, NeverPushed, RequestsSound
<1>3. WorkersSound' /\ HeldSound' /\ SharedOnlyAfterRestart'
  BY DEF HeldSound, SharedOnlyAfterRestart, Accounted, RequestsSound
<1> QED BY <1>1, <1>2, <1>3

-----------------------------------------------------------------------------
(* The theorems.                                                           *)

LEMMA NextIInv == ASSUME IInv, [Next]_vars PROVE IInv'
<1>1. CASE UNCHANGED vars
  BY <1>1 DEF vars, row, works, monitor, IInv, TypeOK, Accounted, OwedStarts,
              NeverPushed, SharedOnlyAfterRestart, WorkersSound, RequestsSound,
              HeldSound, Pushed, Busy
<1>2. ASSUME NEW j \in Jobs,
             \/ Push(j)
             \/ \E w \in Workers : Pull(w, j)
             \/ \E r \in Requests, force \in BOOLEAN : ReadToCancel(r, j, force)
             \/ PingExpires(j) \/ BeginFail(j) \/ CommitFail(j) \/ MonitorGivesUp(j)
      PROVE  IInv'
  BY <1>2, PushIInv, PullIInv, ReadToCancelIInv, PingExpiresIInv, BeginFailIInv,
     CommitFailIInv, MonitorGivesUpIInv
<1>3. ASSUME NEW w \in Workers, Worker(w) \/ Crash(w) PROVE IInv'
  BY <1>3, ChildExitsIInv, ChildTimesOutIInv, PollIInv, BeginReportIInv,
     CommitReportIInv, ReportFailsIInv, CrashIInv DEF Worker
<1>4. ASSUME NEW r \in Requests, Cancellation(r) PROVE IInv'
  BY <1>4, MarkIInv, BeginCancelIInv, CommitCancelIInv, LoseCancelIInv DEF Cancellation
<1>5. CASE MonitorRound
  BY <1>5, MonitorRoundIInv
<1> QED BY <1>1, <1>2, <1>3, <1>4, <1>5 DEF Next

LEMMA AlwaysIInv == Spec => []IInv
BY InitIInv, NextIInv, PTL DEF Spec

\* Every variable keeps to its values, and the counter to the restart limit.
THEOREM TypeCorrect == Spec => []TypeOK
BY AlwaysIInv, PTL DEF IInv

\* A job is in exactly one of the queue and the completed jobs, and one that is
\* marked running can be found by the monitor.
THEOREM JobsAccounted == Spec => []Accounted
BY AlwaysIInv, PTL DEF IInv

\* Whatever dies, stalls or is cancelled, a job's code is started at most once
\* more than the monitor restarted it.
THEOREM StartsOwed == Spec => []OwedStarts
BY AlwaysIInv, PTL DEF IInv

\* No two workers share a job that was not taken from a worker that stalled; in
\* particular none do when no worker stalls.
THEOREM SharingExplained == Spec => []SharedOnlyAfterRestart
BY AlwaysIInv, PTL DEF IInv

\* Marking a row as cancelled is enough to keep its code from being started.
THEOREM CancellationHolds == Spec => CancelledNotStarted
<1>1. ASSUME IInv, [Next]_vars PROVE [\A j \in canceledBy : starts'[j] = starts[j]]_vars
  <2> SUFFICES ASSUME Next, NEW j \in canceledBy PROVE starts'[j] = starts[j]
    BY <1>1
  <2>1. j \in Jobs /\ starts \in [Jobs -> Nat]
    BY <1>1 DEF IInv, TypeOK
  <2>2. ASSUME NEW w \in Workers, NEW i \in Jobs, Pull(w, i) PROVE starts'[j] = starts[j]
    BY <2>1, <2>2 DEF Pull, TakeRow, HandleQueuedJob
  <2> QED
    BY <2>2 DEF Next, Worker, Cancellation, Push, ChildExits, ChildTimesOut, Poll, Crash,
        BeginReport, CommitReport, ReportFails, ReadToCancel, Mark, BeginCancel,
        CommitCancel, LoseCancel, PingExpires, MonitorRound, BeginFail, CommitFail,
        MonitorGivesUp
<1> QED BY <1>1, AlwaysIInv, PTL DEF Spec, CancelledNotStarted

-----------------------------------------------------------------------------
(* WindmillJobs implements JobService.                                     *)

Answer == [j \in Jobs |-> IF outcome[j] = "none" THEN queue[j] ELSE outcome[j]]

\* What a completion writes is the end of a queued job, or overwrites one that
\* another completion ended first.
LEMMA CompleteServes ==
    ASSUME IInv, NEW j \in Jobs, NEW status \in Ended, Complete(j, status),
           Pushed(j)
    PROVE  Service!End(j, status) \/ Service!Overwrite(j, status)
<1> USE DEF Service!End, Service!Overwrite, Service!Becomes, Service!Ended, Ended,
            Complete, IInv, TypeOK, Accounted, Pushed
<1>1. Answer' = [Answer EXCEPT ![j] = status]
  BY DEF Answer
<1>2. Answer[j] \in {"queued", "running"} \cup Ended
  BY DEF Answer
<1> QED BY <1>1, <1>2 DEF Answer

LEMMA PushServes == ASSUME IInv, NEW j \in Jobs, Push(j) PROVE Service!Submit({j})
<1> USE DEF Service!Submit, Ended, Push, IInv, TypeOK
<1>1. Answer' = [Answer EXCEPT ![j] = "queued"]
  BY DEF Answer
<1>2. Answer[j] = "absent"
  BY DEF Answer
<1> QED BY <1>1, <1>2 DEF Answer

LEMMA PullServes ==
    ASSUME IInv, NEW j \in Jobs, NEW w \in Workers, Pull(w, j) PROVE Service!Start(j)
<1> USE DEF Service!Start, Service!Becomes, Ended, Pull, TakeRow, IInv, TypeOK, Accounted
<1>1. Answer' = [Answer EXCEPT ![j] = "running"]
  BY DEF Answer
<1>2. Answer[j] = "queued"
  BY DEF Answer
<1> QED BY <1>1, <1>2 DEF Answer

LEMMA NextServes == ASSUME IInv, [Next]_vars PROVE [Service!Next]_Answer
<1> DEFINE Goal == Service!Next \/ Answer' = Answer
<1> USE DEF IInv, TypeOK
<1>1. ASSUME NEW j \in Jobs, Push(j) PROVE Service!Submit({j})
  BY <1>1, PushServes
<1>2. ASSUME NEW j \in Jobs, NEW w \in Workers, Pull(w, j) PROVE Service!Start(j)
  BY <1>2, PullServes
<1>3. ASSUME MonitorRound PROVE Service!Requeue(Restarted)
  BY <1>3 DEF MonitorRound, Restarted, Zombies, Answer, Accounted, Service!Requeue
<1>4. ASSUME NEW j \in Jobs, NEW status \in Ended, Complete(j, status), Pushed(j)
      PROVE  Service!Next
  BY <1>4, CompleteServes DEF Service!Next, Service!Ended, Ended
<1>5. ASSUME NEW w \in Workers, CommitReport(w) PROVE Goal
  BY <1>4, <1>5 DEF CommitReport, WorkersSound, Busy
<1>6. ASSUME NEW r \in Requests, CommitCancel(r) PROVE Goal
  BY <1>4, <1>6 DEF CommitCancel, RequestsSound, Ended
<1>7. ASSUME NEW j \in Jobs, CommitFail(j) PROVE Goal
  BY <1>4, <1>7 DEF CommitFail, RequestsSound, Ended
<1>8. ASSUME UNCHANGED <<queue, outcome>> PROVE Goal
  BY <1>8 DEF Answer
<1>9. ASSUME NEW w \in Workers, Worker(w) \/ Crash(w) PROVE Goal
  BY <1>5, <1>8, <1>9 DEF Worker, Crash, ChildExits, ChildTimesOut, Poll, BeginReport,
                         ReportFails, row
<1>10. ASSUME NEW r \in Requests, Cancellation(r) PROVE Goal
  BY <1>6, <1>8, <1>10 DEF Cancellation, Mark, BeginCancel, LoseCancel, row
<1>11. ASSUME NEW j \in Jobs,
              \/ \E r \in Requests, force \in BOOLEAN : ReadToCancel(r, j, force)
              \/ PingExpires(j) \/ BeginFail(j) \/ CommitFail(j) \/ MonitorGivesUp(j)
       PROVE  Goal
  BY <1>7, <1>8, <1>11 DEF ReadToCancel, PingExpires, BeginFail, MonitorGivesUp, row
<1>12. CASE UNCHANGED vars
  BY <1>8, <1>12 DEF vars, row
<1>13. Service!Next \/ Answer' = Answer
  <2>1. CASE MonitorRound
    <3>1. Restarted \in SUBSET Jobs
      BY DEF Restarted, Zombies
    <3> QED BY <1>3, <2>1, <3>1 DEF Service!Next, Service!Requeue
  <2>2. ASSUME NEW j \in Jobs, Push(j) \/ \E w \in Workers : Pull(w, j) PROVE Goal
    BY <1>1, <1>2, <2>2 DEF Service!Next
  <2> QED BY <1>9, <1>10, <1>11, <1>12, <2>1, <2>2 DEF Next
<1> QED BY <1>13

\* The queue, its workers, its cancellations and its monitor together serve jobs
\* as JobService says.
THEOREM JobsServed == Spec => ServesJobs
<1>1. Init => Service!Init
  BY DEF Init, Service!Init
<1>2. ASSUME IInv, [Next]_vars PROVE [Service!Next]_Answer
  BY <1>2, NextServes
<1> QED BY <1>1, <1>2, AlwaysIInv, PTL DEF Spec, ServesJobs, Service!Spec, Answer
===============================================================================
