------------------------ MODULE OrchestrationProofs ------------------------
(***************************************************************************)
(* Theorems about Orchestration for every number of steps, callers and     *)
(* workers, every dependency relation, every choice of requests and faults *)
(* and every bound on the retries.                                         *)
(***************************************************************************)
EXTENDS Orchestration, TLAPS

-----------------------------------------------------------------------------
(* What is true of one thread, whatever the others do.                     *)

\* Labels at which the thread works on a step.
StepLabels == OwnerLabels \cup {"claim", "retry"}

\* A thread that works on a step, or is about to, names it.
Named(th) ==
    \/ th.at \in StepLabels
    \/ th.next \in StepLabels
    \/ th.at = "recover_check" /\ th.proto = "keep"
    => th.step \in Steps

\* A thread that is going to write RUNNING or NEEDS_QA writes it to its own
\* step only, and goes on with that step.
Follows(th) ==
    th.at = "write" /\ th.rows # {} /\ th.to \in Active
    => th.rows = {th.step} /\ th.next \in OwnerLabels

Sound(th) == th \in ThreadState /\ Named(th) /\ Follows(th)

ThreadsSound == thread \in [Threads -> ThreadState] /\ \A t \in Threads : Sound(thread[t])

RowsOK ==
    /\ proto \in ProtocolStatus
    /\ step \in [Steps -> StepStatus]
    /\ retries \in [Steps -> Nat]
    /\ jobs \in [Steps -> Nat]
    /\ done \in SUBSET Steps
    /\ orphan \in SUBSET Steps

TInv == RowsOK /\ ThreadsSound

LEMMA NoStepIsNoStep == NoStep \notin Steps
BY StepsAssumption DEF NoStep

LEMMA IdleSound == Sound(Idle)
BY DEF Sound, Named, Follows, ThreadState, Idle, At, Origins, Labels, Continuations, StepStatus, StepLabels, OwnerLabels

\* A thread that turns into a sound state leaves all threads sound.
LEMMA TurnSound ==
    ASSUME ThreadsSound, NEW t \in Threads, NEW th, Sound(th), Turn(t, th)
    PROVE  ThreadsSound'
BY DEF ThreadsSound, Turn, Sound, Named, Follows, ThreadState

LEMMA ReturnSound ==
    ASSUME ThreadsSound, NEW t \in Threads, Return(t)
    PROVE  ThreadsSound'
BY TurnSound, IdleSound DEF Return

LEMMA WriteRowsSound ==
    ASSUME ThreadsSound, NEW t \in Threads,
           NEW R \in SUBSET Steps, NEW s \in StepStatus, NEW n \in Nat \cup {Keep},
           NEW p \in ProtocolStatus \cup {"keep"}, NEW l \in Continuations,
           l \in StepLabels => thread[t].step \in Steps,
           R # {} /\ s \in Active => R = {thread[t].step} /\ l \in OwnerLabels,
           WriteRows(t, R, s, n, p, l)
    PROVE  ThreadsSound'
<1> DEFINE th == [by |-> thread[t].by, at |-> "write", step |-> thread[t].step,
                  rows |-> R, to |-> s, retries |-> n, proto |-> p, next |-> l]
<1>1. thread[t] \in ThreadState
  BY DEF ThreadsSound
<1>2. th \in ThreadState
  BY <1>1 DEF ThreadState, Labels
<1>3. Named(th) /\ Follows(th)
  BY <1>1 DEF Named, Follows, ThreadState, StepLabels, OwnerLabels
<1>4. Turn(t, th)
  BY DEF WriteRows
<1> QED
  BY <1>2, <1>3, <1>4, TurnSound DEF Sound

LEMMA WriteStatusSound ==
    ASSUME ThreadsSound, NEW t \in Threads,
           NEW p \in ProtocolStatus, NEW l \in Continuations \ StepLabels,
           WriteStatus(t, p, l)
    PROVE  ThreadsSound'
<1>1. WriteRows(t, {}, "pending", Keep, p, l)
  BY DEF WriteStatus
<1> QED
  BY <1>1, WriteRowsSound DEF StepStatus

LEMMA EnterSound ==
    ASSUME ThreadsSound, NEW t \in Threads, NEW b \in Origins,
           NEW s \in Steps, NEW l \in Labels \ {"write"}, Enter(t, b, s, l)
    PROVE  ThreadsSound'
<1>1. Sound(At(b, s, l))
  BY DEF Sound, Named, Follows, ThreadState, At, Origins, Labels, Continuations, StepStatus
<1> QED
  BY <1>1, TurnSound DEF Enter

LEMMA EnterAloneSound ==
    ASSUME ThreadsSound, NEW t \in Threads, NEW b \in Origins,
           NEW l \in Labels \ (StepLabels \cup {"write", "recover_check"}),
           Enter(t, b, NoStep, l)
    PROVE  ThreadsSound'
<1>1. Sound(At(b, NoStep, l))
  BY DEF Sound, Named, Follows, ThreadState, At, Origins, Labels, Continuations, StepStatus, StepLabels,
         OwnerLabels
<1> QED
  BY <1>1, TurnSound DEF Enter

LEMMA GotoSound ==
    ASSUME ThreadsSound, NEW t \in Threads, NEW l \in Labels \ {"write", "recover_check"},
           l \in StepLabels => thread[t].step \in Steps,
           Goto(t, l)
    PROVE  ThreadsSound'
<1> DEFINE th == [thread[t] EXCEPT !.at = l]
<1>1. Sound(thread[t])
  BY DEF ThreadsSound
<1>2. Sound(th)
  BY <1>1 DEF Sound, Named, Follows, ThreadState
<1> QED
  BY <1>2, TurnSound DEF Goto

LEMMA AdvanceSound ==
    ASSUME ThreadsSound, NEW t \in Threads, NEW th, Sound(th), Advance(t, th),
           th.at = "write"
    PROVE  ThreadsSound'
<1>1. CASE th.rows # {} \/ th.proto # "keep"
  BY <1>1, TurnSound DEF Advance, Return
<1>2. CASE th.rows = {} /\ th.proto = "keep" /\ th.next = "idle"
  BY <1>2, ReturnSound DEF Advance
<1>3. CASE th.rows = {} /\ th.proto = "keep" /\ th.next # "idle"
  <2>1. Sound(At(th.by, th.step, th.next))
    BY <1>3 DEF Sound, Named, Follows, ThreadState, At, Origins, Labels, Continuations, StepStatus,
                StepLabels, OwnerLabels
  <2> QED
    BY <1>3, <2>1, TurnSound DEF Advance
<1> QED
  BY <1>1, <1>2, <1>3 DEF Advance

-----------------------------------------------------------------------------
(* The type invariant, action by action.                                   *)

\* A step that leaves the rows alone and turns one thread into a sound one.
LEMMA DecideSound ==
    ASSUME TInv, NEW t \in Threads, Decide(t)
    PROVE  ThreadsSound'
<1> USE DEF TInv
<1>0. thread[t] \in ThreadState /\ Named(thread[t])
  BY DEF ThreadsSound, Sound
<1>1. CASE PauseProtocol(t)
  BY <1>1, WriteStatusSound, ReturnSound
     DEF PauseProtocol, ProtocolStatus, Continuations, StepLabels, OwnerLabels
<1>2. CASE ResumeProtocol(t)
  BY <1>2, WriteStatusSound, ReturnSound
     DEF ResumeProtocol, ProtocolStatus, Continuations, StepLabels, OwnerLabels
<1>3. CASE CancelProtocol(t)
  BY <1>3, WriteRowsSound
     DEF CancelProtocol, ProtocolStatus, StepStatus, Continuations, StepLabels, OwnerLabels,
         Active
<1>4. CASE PlanProtocol(t)
  BY <1>4, WriteStatusSound, ReturnSound
     DEF PlanProtocol, ProtocolStatus, Continuations, StepLabels, OwnerLabels
<1>5. CASE CheckAndComplete(t)
  BY <1>5, WriteStatusSound, ReturnSound
     DEF CheckAndComplete, Verdict, ProtocolStatus, Continuations, StepLabels, OwnerLabels
<1>6. CASE AdvanceOnCi(t)
  BY <1>6, GotoSound, ReturnSound
     DEF AdvanceOnCi, Labels, StepLabels, OwnerLabels
<1>7. CASE EnqueueNextStep(t)
  <2>1. thread[t].by \in Origins
    BY <1>0 DEF ThreadState
  <2> QED
    BY <1>7, <2>1, GotoSound, EnterSound
       DEF EnqueueNextStep, Labels, StepLabels, OwnerLabels
<1>8. CASE SelectNextStep(t)
  BY <1>8, EnterSound, ReturnSound DEF SelectNextStep, Labels, Origins
<1>9. CASE RunStep(t)
  <2>1. thread[t].step \in Steps
    BY <1>0, <1>9 DEF Named, RunStep, StepLabels
  <2> QED
    BY <1>9, <2>1, WriteRowsSound, WriteStatusSound, ReturnSound
       DEF RunStep, StepStatus, ProtocolStatus, Continuations, StepLabels, OwnerLabels
<1>10. CASE RetryStep(t)
  <2>1. thread[t].step \in Steps
    BY <1>0, <1>10 DEF Named, RetryStep, StepLabels
  <2>2. retries[thread[t].step] + 1 \in Nat
    BY <2>1 DEF RowsOK
  <2> QED
    BY <1>10, <2>1, <2>2, WriteRowsSound, ReturnSound
       DEF RetryStep, StepStatus, Continuations, Active
<1>11. CASE RetryLatestStep(t)
  <2>1. thread[t].proto \in ProtocolStatus \cup {"keep"}
    BY <1>0 DEF ThreadState
  <2>2. \A s \in Steps : retries[s] + 1 \in Nat
    BY DEF RowsOK
  <2> QED
    BY <1>11, <2>1, <2>2, WriteRowsSound, ReturnSound
       DEF RetryLatestStep, StepStatus, Continuations, Active, StepLabels, OwnerLabels
<1>12. CASE ExecuteStep(t)
  <2>1. thread[t].step \in Steps
    BY <1>0, <1>12 DEF Named, ExecuteStep, StepLabels, OwnerLabels
  <2> QED
    BY <1>12, <2>1, WriteRowsSound
       DEF ExecuteStep, StepStatus, ProtocolStatus, Continuations, Active, OwnerLabels,
           StepLabels
<1>13. CASE EngineReturns(t)
  <2>1. thread[t].step \in Steps
    BY <1>0, <1>13 DEF Named, EngineReturns, StepLabels, OwnerLabels
  <2> QED
    BY <1>13, <2>1, WriteRowsSound
       DEF EngineReturns, StepStatus, ProtocolStatus, Continuations, Active, OwnerLabels,
           StepLabels
<1>14. CASE GatesReturn(t)
  <2>1. thread[t].step \in Steps
    BY <1>0, <1>14 DEF Named, GatesReturn, StepLabels, OwnerLabels
  <2> QED
    BY <1>14, <2>1, WriteRowsSound
       DEF GatesReturn, StepStatus, ProtocolStatus, Continuations, Active, OwnerLabels,
           StepLabels
<1>15. CASE RecoverList(t)
  <2>1. Sound([At("recovery", NoStep, "recover_check") EXCEPT !.proto = "blocked"])
    BY DEF Sound, Named, Follows, ThreadState, At, Origins, Labels, Continuations, StepStatus,
           ProtocolStatus, StepLabels, OwnerLabels
  <2> QED
    BY <1>15, <2>1, TurnSound, EnterSound, ReturnSound DEF RecoverList, Labels, Origins
<1>16. CASE RecoverCheck(t)
  <2>1. thread[t].at = "recover_check" /\ thread[t].proto = "keep"
        => thread[t].step \in Steps
    BY <1>0 DEF Named
  <2> QED
    BY <1>16, <2>1, GotoSound, WriteStatusSound
       DEF RecoverCheck, Verdict, ProtocolStatus, Continuations, Labels, StepLabels,
           OwnerLabels
<1> QED
  BY <1>1, <1>2, <1>3, <1>4, <1>5, <1>6, <1>7, <1>8, <1>9, <1>10, <1>11, <1>12, <1>13,
     <1>14, <1>15, <1>16 DEF Decide

LEMMA RequestSound ==
    ASSUME TInv, NEW t \in Threads, Request(t)
    PROVE  ThreadsSound'
<1> USE DEF TInv
<1>1. CASE RetryLatest(t)
  <2> DEFINE th == [At("none", NoStep, "retry_latest") EXCEPT !.proto =
                      IF proto \in {"paused", "failed"} THEN "running" ELSE "keep"]
  <2>1. Sound(th)
    BY DEF Sound, Named, Follows, ThreadState, At, Origins, Labels, Continuations, StepStatus,
           ProtocolStatus, StepLabels, OwnerLabels
  <2> QED
    BY <1>1, <2>1, TurnSound DEF RetryLatest
<1>2. CASE ApiStart(t) \/ ApiPause(t) \/ ApiResume(t) \/ ApiCancel(t)
           \/ CiFailure(t) \/ CliStart(t)
  BY <1>2, WriteStatusSound
     DEF ApiStart, ApiPause, ApiResume, ApiCancel, CiFailure, CliStart, ProtocolStatus,
         Continuations, StepLabels, OwnerLabels
<1>3. CASE FlowSuccess(t) \/ CiSuccess(t) \/ RunNextStep(t) \/ Recover(t) \/ CliPlan(t)
           \/ CliPause(t) \/ CliResume(t) \/ CliCancel(t)
  BY <1>3, EnterAloneSound
     DEF FlowSuccess, CiSuccess, RunNextStep, Recover, CliPlan, CliPause, CliResume,
         CliCancel, Labels, Origins, StepLabels, OwnerLabels
<1>4. CASE \E s \in Steps :
             CliRetry(t, s) \/ CliRunStep(t, s) \/ Execute(t, s) \/ RunQa(t, s)
                \/ CliQa(t, s)
  BY <1>4, EnterSound DEF CliRetry, CliRunStep, Execute, RunQa, CliQa, Labels, Origins
<1> QED
  BY <1>1, <1>2, <1>3, <1>4 DEF Request

LEMMA WriteStepSound ==
    ASSUME TInv, NEW t \in Threads, WriteStep(t)
    PROVE  TInv'
<1> DEFINE th == thread[t]
<1>1. PICK s \in th.rows :
         /\ step' = [step EXCEPT ![s] = th.to]
         /\ retries' = IF th.retries = Keep THEN retries
                       ELSE [retries EXCEPT ![s] = th.retries]
         /\ done' = IF th.to = "completed" THEN done \cup {s} ELSE done
         /\ orphan' = orphan \ {s}
         /\ Advance(t, [th EXCEPT !.rows = @ \ {s}])
         /\ UNCHANGED <<proto, jobs>>
  BY DEF WriteStep
<1>2. th.at = "write" /\ Sound(th)
  BY DEF WriteStep, TInv, ThreadsSound
<1>3. s \in Steps /\ th.to \in StepStatus /\ th.retries \in Nat \cup {Keep}
  BY <1>2 DEF Sound, ThreadState
<1>4. RowsOK'
  BY <1>1, <1>3 DEF TInv, RowsOK
<1>5. Sound([th EXCEPT !.rows = @ \ {s}])
  BY <1>2 DEF Sound, Named, Follows, ThreadState
<1>6. [th EXCEPT !.rows = @ \ {s}].at = "write"
  BY <1>2 DEF Sound, ThreadState
<1>7. ThreadsSound'
  BY <1>1, <1>5, <1>6, AdvanceSound DEF TInv
<1> QED
  BY <1>4, <1>7 DEF TInv

LEMMA WriteProtocolSound ==
    ASSUME TInv, NEW t \in Threads, WriteProtocol(t)
    PROVE  TInv'
<1> DEFINE th == thread[t]
<1>1. th.at = "write" /\ th.rows = {} /\ th.proto # "keep" /\ Sound(th)
  BY DEF WriteProtocol, TInv, ThreadsSound
<1>2. th.proto \in ProtocolStatus
  BY <1>1 DEF Sound, ThreadState
<1>3. RowsOK'
  BY <1>2 DEF WriteProtocol, TInv, RowsOK
<1>4. Sound([th EXCEPT !.proto = "keep"])
  BY <1>1 DEF Sound, Named, Follows, ThreadState
<1>5. [th EXCEPT !.proto = "keep"].at = "write"
  BY <1>1 DEF Sound, ThreadState
<1>6. ThreadsSound'
  BY <1>4, <1>5, AdvanceSound DEF WriteProtocol, TInv
<1> QED
  BY <1>3, <1>6 DEF TInv

LEMMA TInvInit == Init => TInv
BY IdleSound, RequestsAssumption
   DEF Init, TInv, RowsOK, ThreadsSound, Sound, ProtocolStatus, StepStatus

LEMMA TInvNext == TInv /\ [Next]_vars => TInv'
<1> SUFFICES ASSUME TInv, [Next]_vars
             PROVE  TInv'
  OBVIOUS
<1>1. ASSUME NEW t \in Callers, Request(t)
      PROVE  TInv'
  <2>1. t \in Threads
    BY DEF Threads
  <2>2. RowsOK'
    BY <1>1 DEF Request, TInv, RowsOK, rows
  <2> QED
    BY <1>1, <2>1, <2>2, RequestSound DEF TInv
<1>2. ASSUME NEW w \in Workers, StartJob(w)
      PROVE  TInv'
  <2>1. w \in Threads
    BY DEF Threads
  <2>2. RowsOK'
    BY <1>2 DEF StartJob, TInv, RowsOK, rows
  <2>3. ThreadsSound'
    BY <1>2, <2>1, EnterSound DEF StartJob, TInv, Labels, Origins
  <2> QED
    BY <2>2, <2>3 DEF TInv
<1>3. ASSUME NEW t \in Threads, Decide(t)
      PROVE  TInv'
  <2>1. RowsOK'
    BY <1>3 DEF Decide, TInv, RowsOK, rows
  <2> QED
    BY <1>3, <2>1, DecideSound DEF TInv
<1>4. ASSUME NEW t \in Threads, SubmitJob(t) \/ NoSubmission(t) \/ GatesRaise(t)
      PROVE  TInv'
  <2>1. thread[t].step \in Steps
    BY <1>4 DEF SubmitJob, NoSubmission, GatesRaise, TInv, ThreadsSound, Sound, Named,
                StepLabels, OwnerLabels
  <2>2. RowsOK'
    BY <1>4, <2>1 DEF SubmitJob, NoSubmission, GatesRaise, TInv, RowsOK, rows
  <2> QED
    BY <1>4, <2>2, ReturnSound DEF SubmitJob, NoSubmission, GatesRaise, TInv
<1>5. ASSUME NEW t \in Threads, Crash(t)
      PROVE  TInv'
  <2>1. RowsOK'
    BY <1>5 DEF Crash, TInv, RowsOK, rows
  <2> QED
    BY <1>5, <2>1, ReturnSound DEF Crash, TInv
<1>6. CASE UNCHANGED vars
  BY <1>6 DEF vars, TInv, RowsOK, ThreadsSound, Sound, Named, Follows
<1> QED
  BY <1>1, <1>2, <1>3, <1>4, <1>5, <1>6, WriteStepSound, WriteProtocolSound
     DEF Next, Progress

\* The rows always hold known statuses and every thread that works on a step
\* names one, whatever the requests, the faults and the number of threads.
THEOREM TypeInvariant == Spec => []TypeOK
<1>1. TInv => TypeOK
  BY DEF TInv, RowsOK, ThreadsSound, TypeOK
<1> QED
  BY <1>1, TInvInit, TInvNext, PTL DEF Spec

-----------------------------------------------------------------------------
(* No step is forgotten in flight.                                         *)

\* What has to be shown of a step of thread t that writes no step run: what
\* waits in a job, and what t owned, is still owned by somebody.
LEMMA OwnedKept ==
    ASSUME ThreadsSound, InFlightOwned, NEW t \in Threads, NEW th, Turn(t, th),
           step' = step, orphan \subseteq orphan',
           \A s \in Steps : jobs[s] > 0 => jobs'[s] > 0 \/ Owns(t, s)',
           \A s \in Steps : Owns(t, s) => Owns(t, s)' \/ s \in orphan' \/ jobs'[s] > 0
    PROVE  InFlightOwned'
<1> SUFFICES ASSUME NEW s \in Steps, step[s] \in Active
             PROVE  jobs'[s] > 0 \/ s \in orphan' \/ \E u \in Threads : Owns(u, s)'
  BY DEF InFlightOwned, Active
<1>1. CASE jobs[s] > 0
  BY <1>1
<1>2. CASE s \in orphan
  BY <1>2
<1>3. ASSUME NEW u \in Threads, Owns(u, s), u # t
      PROVE  Owns(u, s)'
  BY <1>3 DEF Turn, Owns, ThreadsSound
<1>4. CASE Owns(t, s)
  BY <1>4
<1> QED
  BY <1>1, <1>2, <1>3, <1>4 DEF InFlightOwned

\* A thread that owns nothing may turn into anything.
LEMMA FreeThreadOwnedKept ==
    ASSUME ThreadsSound, InFlightOwned, NEW t \in Threads, NEW th, Turn(t, th),
           step' = step, jobs' = jobs, orphan' = orphan,
           thread[t].at \notin OwnerLabels \cup {"write"}
    PROVE  InFlightOwned'
<1>1. \A s \in Steps : ~Owns(t, s)
  BY DEF Owns
<1> QED
  BY <1>1, OwnedKept

\* Executing and judging hand the step on to the write that follows.
LEMMA WorkOwnedKept ==
    ASSUME ThreadsSound, InFlightOwned, NEW t \in Threads,
           NEW s, NEW n, NEW p, NEW l,
           WriteRows(t, {thread[t].step}, s, n, p, l),
           step' = step, jobs' = jobs, orphan' = orphan
    PROVE  InFlightOwned'
<1> DEFINE th == [by |-> thread[t].by, at |-> "write", step |-> thread[t].step,
                  rows |-> {thread[t].step}, to |-> s, retries |-> n, proto |-> p,
                  next |-> l]
<1>1. Turn(t, th)
  BY DEF WriteRows
<1>2. thread'[t] = th
  BY <1>1 DEF Turn, ThreadsSound
<1>3. \A r \in Steps : Owns(t, r) => Owns(t, r)'
  BY <1>2 DEF Owns
<1> QED
  BY <1>1, <1>3, OwnedKept

LEMMA DecideOwned ==
    ASSUME TInv, InFlightOwned, NEW t \in Threads, Decide(t)
    PROVE  InFlightOwned'
<1>1. step' = step /\ jobs' = jobs /\ orphan' = orphan
  BY DEF Decide, rows
<1>2. CASE ExecuteStep(t) \/ EngineReturns(t) \/ GatesReturn(t)
  BY <1>1, <1>2, WorkOwnedKept DEF ExecuteStep, EngineReturns, GatesReturn, TInv
<1>3. CASE ~(ExecuteStep(t) \/ EngineReturns(t) \/ GatesReturn(t))
  <2>1. thread[t].at \notin OwnerLabels \cup {"write"}
    BY <1>3 DEF Decide, PauseProtocol, ResumeProtocol, CancelProtocol, PlanProtocol,
         CheckAndComplete, AdvanceOnCi, EnqueueNextStep, SelectNextStep, RunStep, RetryStep,
         RetryLatestStep, RecoverList, RecoverCheck, OwnerLabels
  <2>2. \E th : Turn(t, th)
    BY <1>3 DEF Decide, PauseProtocol, ResumeProtocol, CancelProtocol, PlanProtocol,
         CheckAndComplete, AdvanceOnCi, EnqueueNextStep, SelectNextStep, RunStep, RetryStep,
         RetryLatestStep, RecoverList, RecoverCheck, WriteStatus, WriteRows, Return, Goto,
         Enter
  <2> QED
    BY <1>1, <2>1, <2>2, FreeThreadOwnedKept DEF TInv
<1> QED
  BY <1>2, <1>3

LEMMA RequestOwned ==
    ASSUME TInv, InFlightOwned, NEW t \in Threads, Request(t)
    PROVE  InFlightOwned'
<1>1. step' = step /\ jobs' = jobs /\ orphan' = orphan
  BY DEF Request, rows
<1>2. thread[t].at \notin OwnerLabels \cup {"write"}
  BY DEF Request, ApiStart, ApiPause, ApiResume, ApiCancel, CiFailure, FlowSuccess,
         CiSuccess, RunNextStep, Recover, CliStart, CliPlan, CliPause, CliResume, CliCancel,
         RetryLatest, CliRetry, CliRunStep, Execute, RunQa, CliQa, Accept, OwnerLabels
<1>3. \E th : Turn(t, th)
  BY DEF Request, ApiStart, ApiPause, ApiResume, ApiCancel, CiFailure, FlowSuccess,
         CiSuccess, RunNextStep, Recover, CliStart, CliPlan, CliPause, CliResume, CliCancel,
         RetryLatest, CliRetry, CliRunStep, Execute, RunQa, CliQa, WriteStatus, WriteRows, Enter
<1> QED
  BY <1>1, <1>2, <1>3, FreeThreadOwnedKept DEF TInv

\* Writing the protocol run: the thread keeps its step.
LEMMA WriteProtocolOwned ==
    ASSUME TInv, InFlightOwned, NEW t \in Threads, WriteProtocol(t)
    PROVE  InFlightOwned'
<1> DEFINE th == [thread[t] EXCEPT !.proto = "keep"]
<1>1. thread[t] \in ThreadState /\ thread[t].rows = {} /\ thread[t].at = "write"
  BY DEF WriteProtocol, TInv, ThreadsSound
<1>2. /\ th.rows = {} /\ th.at = "write" /\ th.proto = "keep"
      /\ th.step = thread[t].step /\ th.next = thread[t].next
  BY <1>1 DEF ThreadState
<1>3. Advance(t, th) /\ step' = step /\ jobs' = jobs /\ orphan' = orphan
  BY DEF WriteProtocol
<1>4. CASE th.next = "idle"
  <2>1. Turn(t, Idle)
    BY <1>2, <1>3, <1>4 DEF Advance, Return
  <2>2. \A s \in Steps : ~Owns(t, s)
    BY <1>1, <1>2, <1>4 DEF Owns, OwnerLabels
  <2> QED
    BY <1>3, <2>1, <2>2, OwnedKept DEF TInv
<1>5. CASE th.next # "idle"
  <2>1. Turn(t, At(th.by, th.step, th.next))
    BY <1>2, <1>3, <1>5 DEF Advance
  <2>2. thread'[t] = At(th.by, th.step, th.next)
    BY <2>1 DEF Turn, TInv, ThreadsSound
  <2>3. \A s \in Steps : Owns(t, s) => Owns(t, s)'
    BY <1>1, <1>2, <2>2 DEF Owns, At, OwnerLabels
  <2> QED
    BY <1>3, <2>1, <2>3, OwnedKept DEF TInv
<1> QED
  BY <1>4, <1>5

\* Writing a step run: RUNNING and NEEDS_QA are written by a thread that goes
\* on with the step; every other step keeps its owner.
LEMMA WriteStepOwned ==
    ASSUME TInv, InFlightOwned, NEW t \in Threads, WriteStep(t)
    PROVE  InFlightOwned'
<1> DEFINE th == thread[t]
<1>1. PICK w \in th.rows :
         /\ step' = [step EXCEPT ![w] = th.to]
         /\ orphan' = orphan \ {w}
         /\ Advance(t, [th EXCEPT !.rows = @ \ {w}])
         /\ jobs' = jobs
  BY DEF WriteStep
<1> DEFINE left == [th EXCEPT !.rows = @ \ {w}]
<1>2. th \in ThreadState /\ th.at = "write" /\ Follows(th) /\ w \in Steps
  BY DEF WriteStep, TInv, ThreadsSound, Sound, ThreadState
<1>3. /\ left.rows = th.rows \ {w} /\ left.at = "write" /\ left.proto = th.proto
      /\ left.step = th.step /\ left.next = th.next
  BY <1>2 DEF ThreadState
<1>4. \/ thread'[t] = left
      \/ left.rows = {} /\ left.next = "idle"
      \/ left.rows = {} /\ thread'[t] = At(left.by, left.step, left.next)
  BY <1>1 DEF Advance, Return, Turn, TInv, ThreadsSound
<1>5. ASSUME NEW r \in Steps, left.step = r, left.next \in OwnerLabels
      PROVE  Owns(t, r)'
  <2>1. CASE thread'[t] = left
    BY <1>3, <1>5, <2>1 DEF Owns
  <2>2. CASE thread'[t] = At(left.by, left.step, left.next)
    BY <1>5, <2>2 DEF Owns, At
  <2> QED
    BY <1>4, <1>5, <2>1, <2>2 DEF OwnerLabels
<1>6. \A u \in Threads : u # t => thread'[u] = thread[u]
  BY <1>1 DEF Advance, Return, Turn, TInv, ThreadsSound
<1> SUFFICES ASSUME NEW s \in Steps, step'[s] \in Active
             PROVE  jobs[s] > 0 \/ s \in orphan' \/ \E u \in Threads : Owns(u, s)'
  BY <1>1 DEF InFlightOwned, Active
<1>7. CASE s = w
  <2>1. th.to \in Active
    BY <1>1, <1>2, <1>7 DEF TInv, RowsOK
  <2>2. th.rows = {th.step} /\ th.next \in OwnerLabels
    BY <1>1, <1>2, <2>1 DEF Follows
  <2>3. s = left.step /\ left.next \in OwnerLabels
    BY <1>3, <1>7, <2>2
  <2> QED
    BY <1>5, <2>3
<1>8. CASE s # w
  <2>1. step[s] \in Active
    BY <1>1, <1>2, <1>8 DEF TInv, RowsOK
  <2>2. CASE s \in orphan
    BY <1>1, <1>8, <2>2
  <2>3. ASSUME NEW u \in Threads, Owns(u, s), u # t
        PROVE  Owns(u, s)'
    BY <1>6, <2>3 DEF Owns
  <2>4. CASE Owns(t, s)
    <3>1. th.step = s /\ (s \in th.rows \/ th.next \in OwnerLabels)
      BY <1>2, <2>4 DEF Owns, OwnerLabels
    <3>2. CASE th.next \in OwnerLabels
      BY <1>3, <1>5, <3>1, <3>2
    <3>3. CASE s \in th.rows
      <4>1. s \in left.rows
        BY <1>3, <1>8, <3>3
      <4>2. thread'[t] = left
        BY <1>4, <4>1
      <4> QED
        BY <1>3, <3>1, <4>1, <4>2 DEF Owns
    <3> QED
      BY <3>1, <3>2, <3>3
  <2> QED
    BY <2>1, <2>2, <2>3, <2>4 DEF InFlightOwned
<1> QED
  BY <1>7, <1>8

LEMMA InFlightOwnedNext == TInv /\ InFlightOwned /\ [Next]_vars => InFlightOwned'
<1> SUFFICES ASSUME TInv, InFlightOwned, [Next]_vars
             PROVE  InFlightOwned'
  OBVIOUS
<1>1. ASSUME NEW t \in Callers, Request(t)
      PROVE  InFlightOwned'
  BY <1>1, RequestOwned DEF Threads
<1>2. ASSUME NEW w \in Workers, StartJob(w)
      PROVE  InFlightOwned'
  <2>1. w \in Threads /\ thread[w].at = "idle" /\ step' = step /\ orphan' = orphan
    BY <1>2 DEF StartJob, Threads, rows
  <2>2. PICK s \in Steps :
          jobs[s] > 0 /\ jobs' = [jobs EXCEPT ![s] = @ - 1]
          /\ Turn(w, At("none", s, "execute"))
    BY <1>2 DEF StartJob, Enter
  <2>3. Owns(w, s)'
    BY <2>1, <2>2 DEF Owns, Turn, At, OwnerLabels, TInv, ThreadsSound
  <2>4. \A r \in Steps : ~Owns(w, r)
    BY <2>1 DEF Owns, OwnerLabels
  <2>5. \A r \in Steps : jobs[r] > 0 => jobs'[r] > 0 \/ Owns(w, r)'
    BY <2>2, <2>3 DEF TInv, RowsOK
  <2> QED
    BY <2>1, <2>2, <2>4, <2>5, OwnedKept DEF TInv
<1>3. ASSUME NEW t \in Threads, SubmitJob(t)
      PROVE  InFlightOwned'
  <2>1. thread[t].step \in Steps /\ thread[t].at = "dispatch"
    BY <1>3 DEF SubmitJob, TInv, ThreadsSound, Sound, Named, StepLabels, OwnerLabels
  <2>2. /\ jobs' = [jobs EXCEPT ![thread[t].step] = @ + 1]
        /\ Turn(t, Idle) /\ step' = step /\ orphan' = orphan
    BY <1>3 DEF SubmitJob, Return, rows
  <2>3. \A s \in Steps : Owns(t, s) => jobs'[s] > 0
    BY <2>1, <2>2 DEF Owns, TInv, RowsOK
  <2>4. \A s \in Steps : jobs[s] > 0 => jobs'[s] > 0
    BY <2>1, <2>2 DEF TInv, RowsOK
  <2> QED
    BY <2>2, <2>3, <2>4, OwnedKept DEF TInv
<1>4. ASSUME NEW t \in Threads, NoSubmission(t) \/ GatesRaise(t) \/ Crash(t)
      PROVE  InFlightOwned'
  <2>1. /\ Turn(t, Idle) /\ step' = step /\ jobs' = jobs
        /\ orphan \subseteq orphan'
        /\ \A s \in Steps : thread[t].step = s => s \in orphan'
    BY <1>4 DEF NoSubmission, GatesRaise, Crash, Return, rows
  <2> QED
    BY <2>1, OwnedKept DEF TInv, Owns
<1>5. CASE UNCHANGED vars
  BY <1>5 DEF vars, InFlightOwned, Owns
<1> QED
  BY <1>1, <1>2, <1>3, <1>4, <1>5, DecideOwned, WriteStepOwned, WriteProtocolOwned
     DEF Next, Progress

\* A RUNNING or NEEDS_QA row is never left behind: for any number of handlers
\* that overwrite each other's rows, and through crashes, failed submissions
\* and QA exceptions, the step waits in a job, is in somebody's hands, or was
\* given up at one of the places the orphan variable counts.
THEOREM NoStepForgotten == Spec => []InFlightOwned
<1>1. Init => InFlightOwned
  BY DEF Init, InFlightOwned, Active
<1> QED
  BY <1>1, TInvInit, TInvNext, InFlightOwnedNext, PTL DEF Spec

-----------------------------------------------------------------------------
(***************************************************************************)
(* The schedule follows the dependencies, for any number of handlers, as   *)
(* long as no request names the step to execute.  What is read is a list   *)
(* of step runs; by the time the RUNNING row is written other handlers may *)
(* have changed any of them.  The argument is that what a handler has      *)
(* chosen, queued or decided to write was justified by steps that had been *)
(* completed, and having been completed is for ever.                       *)
(***************************************************************************)

\* The thread has chosen its step to be run.
Selected(th) ==
    \/ th.at \in StepLabels \ {"retry"}
    \/ th.at = "write" /\ th.next \in StepLabels
    \/ th.at = "recover_check" /\ th.proto = "keep"

\* With d the step runs completed so far: the step a thread has chosen, and
\* those it is going to move out of PENDING, may run.
Committed(th, d) ==
    /\ Selected(th) => Deps[th.step] \subseteq d
    /\ th.at = "write" /\ th.to # "pending" => \A s \in th.rows : Deps[s] \subseteq d

AllCommitted == \A t \in Threads : Committed(thread[t], done)

DInv ==
    /\ DependencyOrder
    /\ \A s \in Steps : step[s] = "completed" => s \in done
    /\ \A s \in Steps : jobs[s] > 0 => Deps[s] \subseteq done
    /\ AllCommitted

\* One thread turns into a committed one while completions only accumulate.
LEMMA TurnCommitted ==
    ASSUME ThreadsSound, AllCommitted, NEW t \in Threads, NEW th, Turn(t, th),
           done \subseteq done', Committed(th, done')
    PROVE  AllCommitted'
<1> SUFFICES ASSUME NEW u \in Threads
             PROVE  Committed(thread'[u], done')
  BY DEF AllCommitted
<1>1. CASE u = t
  BY <1>1 DEF Turn, ThreadsSound
<1>2. CASE u # t
  <2>1. thread'[u] = thread[u]
    BY <1>2 DEF Turn, ThreadsSound
  <2>2. Committed(thread[u], done)
    BY DEF AllCommitted
  <2> QED
    BY <2>1, <2>2 DEF Committed
<1> QED
  BY <1>1, <1>2

LEMMA IdleCommitted == \A d : Committed(Idle, d)
BY DEF Committed, Selected, Idle, At, StepLabels, OwnerLabels

LEMMA ReturnCommitted ==
    ASSUME ThreadsSound, AllCommitted, NEW t \in Threads, Return(t), done \subseteq done'
    PROVE  AllCommitted'
BY IdleCommitted, TurnCommitted DEF Return

LEMMA EnterCommitted ==
    ASSUME ThreadsSound, AllCommitted, NEW t \in Threads, NEW b, NEW s, NEW l,
           l # "write", Enter(t, b, s, l), done' = done,
           l \in StepLabels \ {"retry"} \/ l = "recover_check" => Deps[s] \subseteq done
    PROVE  AllCommitted'
<1>1. Committed(At(b, s, l), done')
  BY DEF Committed, Selected, At
<1> QED
  BY <1>1, TurnCommitted DEF Enter

LEMMA GotoCommitted ==
    ASSUME ThreadsSound, AllCommitted, NEW t \in Threads, NEW l,
           l \notin {"write", "recover_check"}, Goto(t, l), done' = done,
           l \in StepLabels => Deps[thread[t].step] \subseteq done
    PROVE  AllCommitted'
<1> DEFINE th == [thread[t] EXCEPT !.at = l]
<1>1. th.at = l /\ th.step = thread[t].step
  BY DEF ThreadsSound, ThreadState
<1>2. Committed(th, done')
  BY <1>1 DEF Committed, Selected
<1> QED
  BY <1>2, TurnCommitted DEF Goto

LEMMA WriteRowsCommitted ==
    ASSUME ThreadsSound, AllCommitted, NEW t \in Threads,
           NEW R, NEW s, NEW n, NEW p, NEW l,
           WriteRows(t, R, s, n, p, l), done' = done,
           l \in StepLabels => Deps[thread[t].step] \subseteq done,
           s # "pending" => \A r \in R : Deps[r] \subseteq done
    PROVE  AllCommitted'
<1> DEFINE th == [by |-> thread[t].by, at |-> "write", step |-> thread[t].step,
                  rows |-> R, to |-> s, retries |-> n, proto |-> p, next |-> l]
<1>1. Committed(th, done')
  BY DEF Committed, Selected, StepLabels, OwnerLabels
<1> QED
  BY <1>1, TurnCommitted DEF WriteRows

LEMMA WriteStatusCommitted ==
    ASSUME ThreadsSound, AllCommitted, NEW t \in Threads, NEW p, NEW l,
           WriteStatus(t, p, l), done' = done, l \notin StepLabels
    PROVE  AllCommitted'
BY WriteRowsCommitted DEF WriteStatus

LEMMA ReadyMayRun ==
    ASSUME DInv, NEW s \in Steps, Ready(s)
    PROVE  Deps[s] \subseteq done
BY DepsAssumption DEF DInv, Ready

LEMMA DecideCommitted ==
    ASSUME TInv, DInv, NEW t \in Threads, Decide(t)
    PROVE  AllCommitted'
<1> USE DEF TInv
<1>0. /\ done' = done /\ AllCommitted
      /\ Selected(thread[t]) => Deps[thread[t].step] \subseteq done
  BY DEF Decide, DInv, AllCommitted, Committed
<1>1. CASE PauseProtocol(t) \/ ResumeProtocol(t) \/ PlanProtocol(t) \/ CheckAndComplete(t)
  BY <1>0, <1>1, WriteStatusCommitted, ReturnCommitted
     DEF PauseProtocol, ResumeProtocol, PlanProtocol, CheckAndComplete, StepLabels,
         OwnerLabels
<1>2. CASE CancelProtocol(t)
  <2>1. \A r \in {s \in Steps : step[s] = "running"} : Deps[r] \subseteq done
    BY DEF DInv, DependencyOrder
  <2> QED
    BY <1>0, <1>2, <2>1, WriteRowsCommitted DEF CancelProtocol, StepLabels, OwnerLabels
<1>3. CASE AdvanceOnCi(t)
  BY <1>0, <1>3, GotoCommitted, ReturnCommitted DEF AdvanceOnCi, StepLabels, OwnerLabels
<1>4. CASE EnqueueNextStep(t)
  <2>1. ASSUME NEW s \in Steps, First(s), Enter(t, thread[t].by, s, "claim")
        PROVE  AllCommitted'
    BY <1>0, <2>1, EnterCommitted, ReadyMayRun DEF First
  <2> QED
    BY <1>0, <1>4, <2>1, GotoCommitted DEF EnqueueNextStep, StepLabels, OwnerLabels
<1>5. CASE SelectNextStep(t)
  <2>1. ASSUME NEW s \in Steps, First(s), Enter(t, "none", s, "execute")
        PROVE  AllCommitted'
    BY <1>0, <2>1, EnterCommitted, ReadyMayRun DEF First
  <2> QED
    BY <1>0, <1>5, <2>1, ReturnCommitted DEF SelectNextStep
<1>6. CASE RunStep(t)
  <2>1. Deps[thread[t].step] \subseteq done
    BY <1>0, <1>6 DEF RunStep, Selected, StepLabels
  <2> QED
    BY <1>0, <1>6, <2>1, WriteRowsCommitted, WriteStatusCommitted, ReturnCommitted
       DEF RunStep, StepLabels, OwnerLabels
<1>7. CASE RetryStep(t)
  <2>1. thread[t].step \in Steps
    BY <1>7 DEF RetryStep, ThreadsSound, Sound, Named, StepLabels
  <2>2. step[thread[t].step] \in {"failed", "blocked", "timeout"}
        => Deps[thread[t].step] \subseteq done
    BY <2>1 DEF DInv, DependencyOrder
  <2> QED
    BY <1>0, <1>7, <2>2, WriteRowsCommitted, ReturnCommitted DEF RetryStep
<1>8. CASE RetryLatestStep(t)
  BY <1>0, <1>8, WriteRowsCommitted, ReturnCommitted
     DEF RetryLatestStep, StepLabels, OwnerLabels
<1>9. CASE ExecuteStep(t) \/ EngineReturns(t) \/ GatesReturn(t)
  <2>1. Deps[thread[t].step] \subseteq done
    BY <1>0, <1>9 DEF ExecuteStep, EngineReturns, GatesReturn, Selected, StepLabels,
                      OwnerLabels
  <2> QED
    BY <1>0, <1>9, <2>1, WriteRowsCommitted DEF ExecuteStep, EngineReturns, GatesReturn
<1>10. CASE RecoverList(t)
  <2> DEFINE th == [At("recovery", NoStep, "recover_check") EXCEPT !.proto = "blocked"]
  <2>1. Committed(th, done')
    BY DEF Committed, Selected, At, StepLabels, OwnerLabels
  <2>2. ASSUME NEW s \in Steps, First(s), Enter(t, "recovery", s, "recover_check")
        PROVE  AllCommitted'
    BY <1>0, <2>2, EnterCommitted, ReadyMayRun DEF First
  <2> QED
    BY <1>0, <1>10, <2>1, <2>2, TurnCommitted, ReturnCommitted DEF RecoverList
<1>11. CASE RecoverCheck(t)
  <2>1. thread[t].proto = "keep" => Deps[thread[t].step] \subseteq done
    BY <1>0, <1>11 DEF RecoverCheck, Selected
  <2> QED
    BY <1>0, <1>11, <2>1, WriteStatusCommitted, GotoCommitted
       DEF RecoverCheck, StepLabels, OwnerLabels
<1> QED
  BY <1>1, <1>2, <1>3, <1>4, <1>5, <1>6, <1>7, <1>8, <1>9, <1>10, <1>11 DEF Decide

\* This is where the requests matter: none of them names a step to execute.
LEMMA RequestCommitted ==
    ASSUME TInv, DInv, Requests \cap DirectRequests = {}, NEW t \in Threads, Request(t)
    PROVE  AllCommitted'
<1>0. done' = done /\ ThreadsSound /\ AllCommitted
  BY DEF Request, TInv, DInv
<1>1. CASE RetryLatest(t)
  <2> DEFINE th == [At("none", NoStep, "retry_latest") EXCEPT !.proto =
                      IF proto \in {"paused", "failed"} THEN "running" ELSE "keep"]
  <2>1. Committed(th, done')
    BY DEF Committed, Selected, At, StepLabels, OwnerLabels
  <2> QED
    BY <1>0, <1>1, <2>1, TurnCommitted DEF RetryLatest
<1>2. CASE ApiStart(t) \/ ApiPause(t) \/ ApiResume(t) \/ ApiCancel(t)
           \/ CiFailure(t) \/ CliStart(t)
  BY <1>0, <1>2, WriteStatusCommitted
     DEF ApiStart, ApiPause, ApiResume, ApiCancel, CiFailure, CliStart, StepLabels,
         OwnerLabels
<1>3. CASE FlowSuccess(t) \/ CiSuccess(t) \/ RunNextStep(t) \/ Recover(t) \/ CliPlan(t)
           \/ CliPause(t) \/ CliResume(t) \/ CliCancel(t)
  BY <1>0, <1>3, EnterCommitted
     DEF FlowSuccess, CiSuccess, RunNextStep, Recover, CliPlan, CliPause, CliResume,
         CliCancel, StepLabels, OwnerLabels
<1>4. CASE \E s \in Steps :
             CliRetry(t, s) \/ CliRunStep(t, s) \/ Execute(t, s) \/ RunQa(t, s)
                \/ CliQa(t, s)
  <2>1. PICK s \in Steps : CliRetry(t, s)
    BY <1>4 DEF CliRunStep, Execute, RunQa, CliQa, Accept, DirectRequests
  <2> QED
    BY <1>0, <2>1, EnterCommitted DEF CliRetry
<1> QED
  BY <1>1, <1>2, <1>3, <1>4 DEF Request

\* What remains of a write is as justified as the write was.
LEMMA AdvanceCommitted ==
    ASSUME ThreadsSound, AllCommitted, NEW t \in Threads, NEW th, Advance(t, th),
           th.at = "write", th.next \in Continuations,
           done \subseteq done', Committed(th, done')
    PROVE  AllCommitted'
<1>1. CASE th.rows # {} \/ th.proto # "keep"
  BY <1>1, TurnCommitted DEF Advance
<1>2. CASE th.rows = {} /\ th.proto = "keep" /\ th.next = "idle"
  BY <1>2, ReturnCommitted DEF Advance
<1>3. CASE th.rows = {} /\ th.proto = "keep" /\ th.next # "idle"
  <2>1. Committed(At(th.by, th.step, th.next), done')
    BY <1>3 DEF Committed, Selected, At, Continuations
  <2> QED
    BY <1>3, <2>1, TurnCommitted DEF Advance
<1> QED
  BY <1>1, <1>2, <1>3 DEF Advance

LEMMA WriteStepDInv ==
    ASSUME TInv, DInv, NEW t \in Threads, WriteStep(t)
    PROVE  DInv'
<1> DEFINE th == thread[t]
<1>1. PICK w \in th.rows :
         /\ step' = [step EXCEPT ![w] = th.to]
         /\ done' = IF th.to = "completed" THEN done \cup {w} ELSE done
         /\ Advance(t, [th EXCEPT !.rows = @ \ {w}])
         /\ jobs' = jobs
  BY DEF WriteStep
<1> DEFINE left == [th EXCEPT !.rows = @ \ {w}]
<1>2. th \in ThreadState /\ th.at = "write" /\ w \in Steps
  BY DEF WriteStep, TInv, ThreadsSound, ThreadState
<1>3. /\ left.rows = th.rows \ {w} /\ left.at = "write" /\ left.to = th.to
      /\ left.proto = th.proto /\ left.step = th.step
      /\ left.next = th.next /\ left.next \in Continuations
  BY <1>2 DEF ThreadState
<1>4. done \subseteq done'
  BY <1>1
<1>5. Committed(th, done)
  BY DEF DInv, AllCommitted
<1>6. Committed(left, done')
  BY <1>2, <1>3, <1>4, <1>5 DEF Committed, Selected, StepLabels, OwnerLabels
<1>7. AllCommitted'
  BY <1>1, <1>3, <1>4, <1>6, AdvanceCommitted DEF TInv, DInv
<1>8. \A s \in Steps : step'[s] # "pending" => Deps[s] \subseteq done'
  <2> SUFFICES ASSUME NEW s \in Steps, step'[s] # "pending"
               PROVE  Deps[s] \subseteq done'
    OBVIOUS
  <2>1. CASE s = w
    BY <1>1, <1>2, <1>4, <1>5, <2>1 DEF Committed, TInv, RowsOK
  <2>2. CASE s # w
    BY <1>1, <1>2, <1>4, <2>2 DEF DInv, DependencyOrder, TInv, RowsOK
  <2> QED
    BY <2>1, <2>2
<1>9. \A s \in Steps : step'[s] = "completed" => s \in done'
  BY <1>1, <1>2, <1>4 DEF DInv, TInv, RowsOK
<1>10. \A s \in Steps : jobs'[s] > 0 => Deps[s] \subseteq done'
  BY <1>1, <1>4 DEF DInv
<1> QED
  BY <1>7, <1>8, <1>9, <1>10 DEF DInv, DependencyOrder

LEMMA WriteProtocolCommitted ==
    ASSUME TInv, DInv, NEW t \in Threads, WriteProtocol(t)
    PROVE  AllCommitted'
<1> DEFINE th == [thread[t] EXCEPT !.proto = "keep"]
<1>1. thread[t] \in ThreadState /\ thread[t].at = "write" /\ Committed(thread[t], done)
  BY DEF WriteProtocol, TInv, ThreadsSound, DInv, AllCommitted
<1>2. /\ th.rows = thread[t].rows /\ th.at = "write" /\ th.to = thread[t].to
      /\ th.step = thread[t].step /\ th.next = thread[t].next /\ th.next \in Continuations
  BY <1>1 DEF ThreadState
<1>3. Committed(th, done)
  BY <1>1, <1>2 DEF Committed, Selected, StepLabels, OwnerLabels
<1>4. Advance(t, th) /\ done' = done
  BY DEF WriteProtocol
<1> QED
  BY <1>2, <1>3, <1>4, AdvanceCommitted DEF TInv, DInv

\* A step that writes no step run and adds no job has only the threads to show.
LEMMA RowsKeptDInv ==
    ASSUME DInv, AllCommitted', step' = step, done' = done,
           \A s \in Steps : jobs'[s] > 0 => Deps[s] \subseteq done
    PROVE  DInv'
BY DEF DInv, DependencyOrder

LEMMA DInvNext ==
    ASSUME Requests \cap DirectRequests = {}
    PROVE  TInv /\ DInv /\ [Next]_vars => DInv'
<1> SUFFICES ASSUME TInv, DInv, [Next]_vars
             PROVE  DInv'
  OBVIOUS
<1>0. \A s \in Steps : jobs[s] > 0 => Deps[s] \subseteq done
  BY DEF DInv
<1>1. ASSUME NEW t \in Callers, Request(t)
      PROVE  DInv'
  <2>1. t \in Threads /\ step' = step /\ done' = done /\ jobs' = jobs
    BY <1>1 DEF Threads, Request, rows
  <2> QED
    BY <1>0, <1>1, <2>1, RequestCommitted, RowsKeptDInv
<1>2. ASSUME NEW w \in Workers, StartJob(w)
      PROVE  DInv'
  <2>1. w \in Threads /\ step' = step /\ done' = done
    BY <1>2 DEF StartJob, Threads, rows
  <2>2. PICK s \in Steps : jobs[s] > 0 /\ jobs' = [jobs EXCEPT ![s] = @ - 1]
                           /\ Enter(w, "none", s, "execute")
    BY <1>2 DEF StartJob
  <2>3. AllCommitted'
    BY <1>0, <2>1, <2>2, EnterCommitted DEF TInv, DInv
  <2>4. \A r \in Steps : jobs'[r] > 0 => jobs[r] > 0
    BY <2>2 DEF TInv, RowsOK
  <2> QED
    BY <1>0, <2>1, <2>3, <2>4, RowsKeptDInv
<1>3. ASSUME NEW t \in Threads, Decide(t)
      PROVE  DInv'
  <2>1. step' = step /\ done' = done /\ jobs' = jobs
    BY <1>3 DEF Decide, rows
  <2> QED
    BY <1>0, <1>3, <2>1, DecideCommitted, RowsKeptDInv
<1>4. ASSUME NEW t \in Threads, WriteProtocol(t)
      PROVE  DInv'
  <2>1. step' = step /\ done' = done /\ jobs' = jobs
    BY <1>4 DEF WriteProtocol
  <2> QED
    BY <1>0, <1>4, <2>1, WriteProtocolCommitted, RowsKeptDInv
<1>5. ASSUME NEW t \in Threads, SubmitJob(t)
      PROVE  DInv'
  <2>1. thread[t].at = "dispatch" /\ thread[t].step \in Steps
    BY <1>5 DEF SubmitJob, TInv, ThreadsSound, Sound, Named, StepLabels, OwnerLabels
  <2>2. Deps[thread[t].step] \subseteq done
    BY <2>1 DEF DInv, AllCommitted, Committed, Selected, StepLabels, OwnerLabels
  <2>3. /\ jobs' = [jobs EXCEPT ![thread[t].step] = @ + 1]
        /\ Return(t) /\ step' = step /\ done' = done
    BY <1>5 DEF SubmitJob, rows
  <2>4. \A s \in Steps : jobs'[s] > 0 => Deps[s] \subseteq done
    BY <1>0, <2>1, <2>2, <2>3 DEF TInv, RowsOK
  <2> QED
    BY <2>3, <2>4, ReturnCommitted, RowsKeptDInv DEF TInv, DInv
<1>6. ASSUME NEW t \in Threads, NoSubmission(t) \/ GatesRaise(t) \/ Crash(t)
      PROVE  DInv'
  <2>1. Return(t) /\ step' = step /\ done' = done /\ jobs' = jobs
    BY <1>6 DEF NoSubmission, GatesRaise, Crash, rows
  <2> QED
    BY <1>0, <2>1, ReturnCommitted, RowsKeptDInv DEF TInv, DInv
<1>7. CASE UNCHANGED vars
  BY <1>7 DEF vars, DInv, DependencyOrder, AllCommitted, Committed, Selected
<1> QED
  BY <1>1, <1>2, <1>3, <1>4, <1>5, <1>6, <1>7, WriteStepDInv DEF Next, Progress

\* When no request names the step to execute (no execute, no QA, no CLI "step
\* run"), a step leaves PENDING only after all the steps it depends on have
\* been completed, for any number of handlers between whose reads and writes
\* anything may happen, and through every fault of the model.
THEOREM DependenciesFirst ==
    ASSUME Requests \cap DirectRequests = {}
    PROVE  Spec => []DependencyOrder
<1>1. Init => DInv
  BY IdleCommitted DEF Init, DInv, DependencyOrder, AllCommitted
<1>2. DInv => DependencyOrder
  BY DEF DInv
<1>3. TInv /\ DInv /\ [Next]_vars => DInv'
  BY DInvNext
<1> QED
  BY <1>1, <1>2, <1>3, TInvInit, TInvNext, PTL DEF Spec
=============================================================================
