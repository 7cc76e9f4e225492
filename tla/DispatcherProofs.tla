-------------------------- MODULE DispatcherProofs --------------------------
(***************************************************************************)
(* What holds when one thread at a time serves requests, beside any number *)
(* of Windmill workers, and no request names the step to execute.  Every   *)
(* handler still decides on rows that it read earlier; the argument is     *)
(* that nobody else writes to a step's row in between, because a step is   *)
(* in one pair of hands: it waits in a job, or a worker has it, and then   *)
(* its row says that it is in flight, or the caller has it.                *)
(***************************************************************************)
EXTENDS OrchestrationProofs

\* The one caller may be replaced by another after a crash, but there are no two.
OneCaller == \A t, u \in Callers : t = u

NoDirectRequest == Requests \cap DirectRequests = {}

-----------------------------------------------------------------------------
(* The hands a step is in.                                                 *)

\* A step in somebody's hands; the CLI's cancel changes the row all the same.
InHand  == Active \cup {"cancelled"}
Stopped == {"failed", "blocked", "timeout"}

\* The thread has chosen s, or is about to write its row for another reason
\* than the CLI's cancel, which writes to the rows of others.
Touches(th, s) ==
    \/ Selected(th) /\ th.step = s
    \/ th.at = "write" /\ th.to # "cancelled" /\ s \in th.rows

\* What the row of a step says while a thread touches it.
Chosen(th) ==
    \/ th.at \in {"claim", "recover_check"}
    \/ th.at = "write" /\ th.next = "dispatch"
Resets(th) == th.at = "write" /\ th.to = "pending"
Begins(th) ==
    \/ th.at = "execute"
    \/ th.at = "write" /\ th.rows # {} /\ th.to \in {"running", "blocked"}

Expected(th) ==
    CASE Chosen(th) -> {"pending"}
      [] ~Chosen(th) /\ Resets(th) -> Stopped
      [] ~Chosen(th) /\ ~Resets(th) /\ Begins(th) -> InHand \cup {"pending"}
      [] ~Chosen(th) /\ ~Resets(th) /\ ~Begins(th) -> InHand

\* What a thread that writes goes on with, and what it leaves to be written.
Intends(th) ==
    th.at = "write" =>
        /\ th.next = "claim"    => th.to = "pending" /\ th.rows = {th.step} /\ th.proto = "keep"
        /\ th.next = "dispatch" => th.to = "running" /\ th.rows = {th.step} /\ th.proto = "keep"
        /\ th.next = "engine"   => th.to = "running" /\ th.rows \subseteq {th.step}
        /\ th.next = "gates"    => th.to = "needs_qa" /\ th.rows = {th.step} /\ th.proto = "keep"
        /\ th.to = "cancelled"  => th.next = "idle"
        /\ th.to # "cancelled"  => \A r, s \in th.rows : r = s

\* Only a reset changes the retries, by one.
Counts(th) ==
    th.at = "write" => \A s \in th.rows :
        IF th.to = "pending" THEN th.retries = retries[s] + 1 ELSE th.retries = Keep

\* A worker does nothing but execute and judge what it was given.
WorkerOnly(th) ==
    /\ th.at \in {"idle", "execute", "engine", "gates", "settle", "write"}
    /\ th.at = "write" => /\ th.next \in {"idle", "engine", "gates", "settle"}
                          /\ th.rows # {} => th.to \notin {"pending", "cancelled"}

Believes(t, th) ==
    \A s \in Steps : Touches(th, s) =>
        step[s] \in Expected(th) /\ (t \in Workers => step[s] \in InHand)

Fits(t, th) ==
    /\ Intends(th) /\ Counts(th) /\ Believes(t, th)
    /\ t \in Workers => WorkerOnly(th)

AllFit == \A t \in Threads : Fits(t, thread[t])

InOneHand ==
    \A s \in Steps :
        /\ jobs[s] <= 1
        /\ jobs[s] > 0 => step[s] \in InHand /\ \A t \in Threads : ~Touches(thread[t], s)
        /\ \A t, u \in Threads : Touches(thread[t], s) /\ Touches(thread[u], s) => t = u

HInv == AllFit /\ InOneHand

-----------------------------------------------------------------------------
(* One thread turns into another state, and no row changes.                *)

LEMMA TurnKeeps ==
    ASSUME OneCaller, ThreadsSound, HInv, UNCHANGED <<step, retries, jobs>>,
           NEW t \in Threads, NEW th, Turn(t, th), Fits(t, th),
           \A s \in Steps : Touches(th, s) =>
               Touches(thread[t], s) \/ (t \notin Workers /\ step[s] \notin InHand)
    PROVE  HInv'
<1>1. thread'[t] = th /\ \A u \in Threads : u # t => thread'[u] = thread[u]
  BY DEF Turn, ThreadsSound
<1>2. AllFit'
  <2> SUFFICES ASSUME NEW u \in Threads
               PROVE  Fits(u, thread[u])'
    BY DEF AllFit
  <2>1. CASE u = t
    BY <1>1, <2>1 DEF Fits, Counts, Believes
  <2>2. CASE u # t
    BY <1>1, <2>2 DEF HInv, AllFit, Fits, Counts, Believes
  <2> QED
    BY <2>1, <2>2
<1>3. ASSUME NEW s \in Steps, Touches(th, s)
      PROVE  ~(jobs[s] > 0) /\ \A u \in Threads : u # t => ~Touches(thread[u], s)
  <2>1. CASE Touches(thread[t], s)
    BY <2>1 DEF HInv, InOneHand
  <2>2. CASE t \notin Workers /\ step[s] \notin InHand
    <3>1. \A u \in Threads : u # t => u \in Workers
      BY <2>2 DEF OneCaller, Threads
    <3> QED
      BY <2>2, <3>1 DEF HInv, InOneHand, AllFit, Fits, Believes
  <2> QED
    BY <1>3, <2>1, <2>2
<1>4. InOneHand'
  <2> SUFFICES ASSUME NEW s \in Steps
               PROVE  /\ jobs[s] <= 1
                      /\ jobs[s] > 0 =>
                            step[s] \in InHand /\ \A u \in Threads : ~Touches(thread'[u], s)
                      /\ \A u, v \in Threads :
                            Touches(thread'[u], s) /\ Touches(thread'[v], s) => u = v
    BY DEF InOneHand
  <2>1. jobs[s] <= 1 /\ (jobs[s] > 0 => step[s] \in InHand)
    BY DEF HInv, InOneHand
  <2>2. jobs[s] > 0 => \A u \in Threads : ~Touches(thread'[u], s)
    BY <1>1, <1>3 DEF HInv, InOneHand
  <2>3. ASSUME NEW u \in Threads, NEW v \in Threads,
               Touches(thread'[u], s), Touches(thread'[v], s)
        PROVE  u = v
    BY <1>1, <1>3, <2>3 DEF HInv, InOneHand
  <2> QED
    BY <2>1, <2>2, <2>3
<1> QED
  BY <1>2, <1>4 DEF HInv

\* A thread that lets go of its step, or never had one.
LEMMA FreeKeeps ==
    ASSUME OneCaller, ThreadsSound, HInv, UNCHANGED <<step, retries, jobs>>,
           NEW t \in Threads, NEW th, Turn(t, th), Intends(th), Counts(th),
           t \in Workers => WorkerOnly(th), \A s \in Steps : ~Touches(th, s)
    PROVE  HInv'
<1>1. Fits(t, th)
  BY DEF Fits, Believes
<1> QED
  BY <1>1, TurnKeeps

LEMMA IdleFits ==
    ASSUME NEW t \in Threads
    PROVE  Intends(Idle) /\ Counts(Idle) /\ WorkerOnly(Idle) /\ \A s \in Steps : ~Touches(Idle, s)
BY DEF Idle, At, Intends, Counts, WorkerOnly, Touches, Selected, StepLabels, OwnerLabels

LEMMA ReturnKeeps ==
    ASSUME OneCaller, ThreadsSound, HInv, UNCHANGED <<step, retries, jobs>>,
           NEW t \in Threads, Return(t)
    PROVE  HInv'
BY IdleFits, FreeKeeps DEF Return

LEMMA WriteStatusKeeps ==
    ASSUME OneCaller, ThreadsSound, HInv, UNCHANGED <<step, retries, jobs>>,
           NEW t \in Threads, NEW p, NEW l \in {"idle", "enqueue", "plan", "plan_work"},
           t \in Workers => l = "idle", WriteStatus(t, p, l)
    PROVE  HInv'
<1> DEFINE th == [by |-> thread[t].by, at |-> "write", step |-> thread[t].step,
                  rows |-> {}, to |-> "pending", retries |-> Keep, proto |-> p, next |-> l]
<1>1. Turn(t, th)
  BY DEF WriteStatus, WriteRows
<1>2. Intends(th) /\ Counts(th) /\ (t \in Workers => WorkerOnly(th))
  BY DEF Intends, Counts, WorkerOnly
<1>3. \A s \in Steps : ~Touches(th, s)
  BY DEF Touches, Selected, StepLabels, OwnerLabels
<1> QED
  BY <1>1, <1>2, <1>3, FreeKeeps

FreeLabels ==
    {"settle", "ci", "select", "recover", "plan", "pause", "resume", "cancel", "retry",
     "retry_latest", "enqueue"}

LEMMA EnterFreeKeeps ==
    ASSUME OneCaller, ThreadsSound, HInv, UNCHANGED <<step, retries, jobs>>,
           NEW t \in Threads \ Workers, NEW b, NEW s, NEW l \in FreeLabels, Enter(t, b, s, l)
    PROVE  HInv'
<1> DEFINE th == At(b, s, l)
<1>1. Turn(t, th) /\ th.at = l
  BY DEF Enter, At
<1>2. Intends(th) /\ Counts(th) /\ \A r \in Steps : ~Touches(th, r)
  BY <1>1 DEF Intends, Counts, Touches, Selected, StepLabels, OwnerLabels, FreeLabels
<1> HIDE DEF th
<1> QED
  BY <1>1, <1>2, FreeKeeps

LEMMA GotoFreeKeeps ==
    ASSUME OneCaller, ThreadsSound, HInv, UNCHANGED <<step, retries, jobs>>,
           NEW t \in Threads \ Workers, NEW l \in FreeLabels, Goto(t, l)
    PROVE  HInv'
<1> DEFINE th == [thread[t] EXCEPT !.at = l]
<1>1. Turn(t, th) /\ th.at = l
  BY DEF Goto, ThreadsSound, ThreadState
<1>2. Intends(th) /\ Counts(th) /\ \A r \in Steps : ~Touches(th, r)
  BY <1>1 DEF Intends, Counts, Touches, Selected, StepLabels, OwnerLabels, FreeLabels
<1> HIDE DEF th
<1> QED
  BY <1>1, <1>2, FreeKeeps

\* The caller chooses a step that has not begun or has stopped.
LEMMA EnterChosenKeeps ==
    ASSUME OneCaller, ThreadsSound, HInv, UNCHANGED <<step, retries, jobs>>,
           NEW t \in Threads \ Workers, NEW b, NEW s \in Steps, step[s] = "pending",
           NEW l \in {"claim", "execute", "recover_check"}, Enter(t, b, s, l)
    PROVE  HInv'
<1> DEFINE th == At(b, s, l)
<1>1. Turn(t, th) /\ th.at = l /\ th.step = s
  BY DEF Enter, At
<1>2. \A r \in Steps : Touches(th, r) => r = s
  BY <1>1 DEF Touches
<1>3. "pending" \in Expected(th) /\ "pending" \notin InHand
  BY <1>1 DEF Expected, Chosen, Resets, Begins, InHand, Active
<1>4. Fits(t, th)
  BY <1>1, <1>2, <1>3 DEF Fits, Intends, Counts, Believes
<1> HIDE DEF th
<1> QED
  BY <1>1, <1>2, <1>3, <1>4, TurnKeeps

\* A thread that has its step decides what to write to its row.
LEMMA WorkKeeps ==
    ASSUME OneCaller, ThreadsSound, HInv, UNCHANGED <<step, retries, jobs>>,
           NEW t \in Threads, thread[t].step \in Steps,
           NEW s, NEW p, NEW l, WriteRows(t, {thread[t].step}, s, Keep, p, l),
           s \notin {"pending", "cancelled"},
           \/ l = "dispatch" /\ s = "running" /\ p = "keep" /\ thread[t].at = "claim"
           \/ /\ thread[t].at = "execute"
              /\ <<s, l>> \in {<<"running", "engine">>, <<"blocked", "idle">>}
           \/ /\ thread[t].at \in {"engine", "gates"}
              /\ (l = "gates" /\ s = "needs_qa" /\ p = "keep") \/ l \in {"idle", "settle"}
    PROVE  HInv'
<1> DEFINE old == thread[t]
           th  == [by |-> old.by, at |-> "write", step |-> old.step, rows |-> {old.step},
                   to |-> s, retries |-> Keep, proto |-> p, next |-> l]
<1>1. Turn(t, th)
  BY DEF WriteRows
<1>2. Fits(t, old)
  BY DEF HInv, AllFit
<1>3. \A r \in Steps : Touches(th, r) => r = old.step
  BY DEF Touches
<1>4. Touches(old, old.step)
  BY DEF Touches, Selected, StepLabels, OwnerLabels
<1>5. step[old.step] \in Expected(old) /\ (t \in Workers => step[old.step] \in InHand)
  BY <1>2, <1>4 DEF Fits, Believes
<1>6. Expected(old) \subseteq Expected(th)
  BY DEF Expected, Chosen, Resets, Begins
<1>7. Believes(t, th)
  BY <1>3, <1>5, <1>6 DEF Believes
<1>8. Intends(th) /\ Counts(th)
  BY DEF Intends, Counts
<1>9. t \in Workers => WorkerOnly(th)
  BY <1>2 DEF Fits, WorkerOnly
<1>10. Fits(t, th)
  BY <1>7, <1>8, <1>9 DEF Fits
<1> HIDE DEF th
<1> QED
  BY <1>1, <1>3, <1>4, <1>10, TurnKeeps

\* The caller decides to reset a step that has stopped.
LEMMA ResetKeeps ==
    ASSUME OneCaller, ThreadsSound, HInv, UNCHANGED <<step, retries, jobs>>,
           NEW t \in Threads \ Workers, NEW s \in Steps, step[s] \in Stopped,
           NEW p, NEW l, WriteRows(t, {s}, "pending", retries[s] + 1, p, l),
           l = "idle" \/ (l = "claim" /\ s = thread[t].step /\ p = "keep")
    PROVE  HInv'
<1> DEFINE th == [by |-> thread[t].by, at |-> "write", step |-> thread[t].step,
                  rows |-> {s}, to |-> "pending", retries |-> retries[s] + 1,
                  proto |-> p, next |-> l]
<1>1. Turn(t, th)
  BY DEF WriteRows
<1>2. \A r \in Steps : Touches(th, r) => r = s
  BY DEF Touches, Selected, StepLabels, OwnerLabels
<1>3. Expected(th) = Stopped /\ step[s] \notin InHand
  BY DEF Expected, Chosen, Resets, Stopped, InHand, Active
<1>4. Fits(t, th)
  BY <1>2, <1>3 DEF Fits, Intends, Counts, Believes
<1> HIDE DEF th
<1> QED
  BY <1>1, <1>2, <1>3, <1>4, TurnKeeps

-----------------------------------------------------------------------------
(* The actions.                                                            *)

\* Where workers never are.
LEMMA CallerOnly ==
    ASSUME HInv, NEW t \in Threads,
           thread[t].at \notin {"idle", "execute", "engine", "gates", "settle", "write"}
    PROVE  t \notin Workers
BY DEF HInv, AllFit, Fits, WorkerOnly

LEMMA DecideKeeps ==
    ASSUME OneCaller, TInv, HInv, NEW t \in Threads, Decide(t)
    PROVE  HInv'
<1>0. UNCHANGED <<step, retries, jobs>> /\ ThreadsSound
      /\ thread[t] \in ThreadState /\ Named(thread[t])
  BY DEF Decide, rows, TInv, ThreadsSound, Sound
<1>1. CASE PauseProtocol(t) \/ ResumeProtocol(t) \/ PlanProtocol(t)
  <2>1. t \notin Workers
    BY <1>1, CallerOnly DEF PauseProtocol, ResumeProtocol, PlanProtocol
  <2> QED
    BY <1>0, <1>1, <2>1, WriteStatusKeeps, ReturnKeeps
       DEF PauseProtocol, ResumeProtocol, PlanProtocol
<1>2. CASE CancelProtocol(t)
  <2> DEFINE th == [by |-> thread[t].by, at |-> "write", step |-> thread[t].step,
                    rows |-> {s \in Steps : step[s] = "running"}, to |-> "cancelled",
                    retries |-> Keep, proto |-> "cancelled", next |-> "idle"]
  <2>1. t \notin Workers /\ Turn(t, th)
    BY <1>2, CallerOnly DEF CancelProtocol, WriteRows
  <2>2. Intends(th) /\ Counts(th) /\ \A s \in Steps : ~Touches(th, s)
    BY DEF Intends, Counts, Touches, Selected, StepLabels, OwnerLabels
  <2> HIDE DEF th
  <2> QED
    BY <1>0, <2>1, <2>2, FreeKeeps
<1>3. CASE CheckAndComplete(t)
  BY <1>0, <1>3, WriteStatusKeeps, ReturnKeeps DEF CheckAndComplete
<1>4. CASE AdvanceOnCi(t)
  <2>1. t \notin Workers
    BY <1>4, CallerOnly DEF AdvanceOnCi
  <2> QED
    BY <1>0, <1>4, <2>1, GotoFreeKeeps, ReturnKeeps DEF AdvanceOnCi, FreeLabels
<1>5. CASE EnqueueNextStep(t)
  <2>1. t \notin Workers
    BY <1>5, CallerOnly DEF EnqueueNextStep
  <2> QED
    BY <1>0, <1>5, <2>1, EnterChosenKeeps, GotoFreeKeeps
       DEF EnqueueNextStep, First, Ready, FreeLabels
<1>6. CASE SelectNextStep(t)
  <2>1. t \notin Workers
    BY <1>6, CallerOnly DEF SelectNextStep
  <2> QED
    BY <1>0, <1>6, <2>1, EnterChosenKeeps, ReturnKeeps DEF SelectNextStep, First, Ready
<1>7. CASE RunStep(t)
  <2>1. t \notin Workers /\ thread[t].step \in Steps /\ thread[t].at = "claim"
    BY <1>0, <1>7, CallerOnly DEF RunStep, Named, StepLabels
  <2> QED
    BY <1>0, <1>7, <2>1, WorkKeeps, WriteStatusKeeps, ReturnKeeps DEF RunStep
<1>8. CASE RetryStep(t)
  <2>1. t \notin Workers /\ thread[t].step \in Steps
    BY <1>0, <1>8, CallerOnly DEF RetryStep, Named, StepLabels
  <2> QED
    BY <1>0, <1>8, <2>1, ResetKeeps, ReturnKeeps DEF RetryStep, Stopped
<1>9. CASE RetryLatestStep(t)
  <2>1. t \notin Workers
    BY <1>9, CallerOnly DEF RetryLatestStep
  <2> QED
    BY <1>0, <1>9, <2>1, ResetKeeps, ReturnKeeps DEF RetryLatestStep, Latest, Stopped
<1>10. CASE ExecuteStep(t) \/ EngineReturns(t) \/ GatesReturn(t)
  <2>1. thread[t].step \in Steps
    BY <1>0, <1>10 DEF ExecuteStep, EngineReturns, GatesReturn, Named, StepLabels, OwnerLabels
  <2>2. CASE ExecuteStep(t)
    <3>1. thread[t].at = "execute"
      BY <2>2 DEF ExecuteStep
    <3>2. ASSUME NEW s, NEW l, WriteRows(t, {thread[t].step}, s, Keep, s, l),
                 <<s, l>> \in {<<"running", "engine">>, <<"blocked", "idle">>}
          PROVE  HInv'
      <4>1. s \notin {"pending", "cancelled"}
        BY <3>2
      <4> QED
        BY <1>0, <2>1, <3>1, <3>2, <4>1, WorkKeeps
    <3> QED
      BY <2>2, <3>2 DEF ExecuteStep
  <2>3. CASE EngineReturns(t)
    BY <1>0, <2>1, <2>3, WorkKeeps DEF EngineReturns
  <2>4. CASE GatesReturn(t)
    BY <1>0, <2>1, <2>4, WorkKeeps DEF GatesReturn
  <2> QED
    BY <1>10, <2>2, <2>3, <2>4
<1>11. CASE RecoverList(t)
  <2> DEFINE th == [At("recovery", NoStep, "recover_check") EXCEPT !.proto = "blocked"]
  <2>1. t \notin Workers
    BY <1>11, CallerOnly DEF RecoverList
  <2>2. Intends(th) /\ Counts(th) /\ \A s \in Steps : ~Touches(th, s)
    BY DEF Intends, Counts, Touches, Selected, StepLabels, OwnerLabels, At
  <2> HIDE DEF th
  <2>3. CASE Turn(t, th)
    BY <1>0, <2>1, <2>2, <2>3, FreeKeeps
  <2>4. ASSUME NEW s \in Steps, First(s), Enter(t, "recovery", s, "recover_check")
        PROVE  HInv'
    BY <1>0, <2>1, <2>4, EnterChosenKeeps DEF First, Ready
  <2> QED
    BY <1>0, <1>11, <2>3, <2>4, ReturnKeeps DEF RecoverList, th
<1>12. CASE RecoverCheck(t)
  <2> DEFINE th == [thread[t] EXCEPT !.at = "claim"]
  <2>1. t \notin Workers /\ thread[t].at = "recover_check"
    BY <1>12, CallerOnly DEF RecoverCheck
  <2>2. CASE Goto(t, "claim") /\ thread[t].proto = "keep"
    <3>1. Turn(t, th) /\ th.at = "claim" /\ th.step = thread[t].step
      BY <1>0, <2>2 DEF Goto, ThreadState
    <3>2. \A s \in Steps : Touches(th, s) => Touches(thread[t], s)
      BY <2>1, <2>2, <3>1 DEF Touches, Selected
    <3>3. Expected(thread[t]) = {"pending"} /\ Expected(th) = {"pending"}
      BY <2>1, <3>1 DEF Expected, Chosen
    <3>4. Fits(t, thread[t])
      BY DEF HInv, AllFit
    <3>5. Fits(t, th)
      BY <2>1, <3>1, <3>2, <3>3, <3>4 DEF Fits, Intends, Counts, Believes
    <3> HIDE DEF th
    <3> QED
      BY <1>0, <3>1, <3>2, <3>5, TurnKeeps
  <2> QED
    BY <1>0, <1>12, <2>1, <2>2, WriteStatusKeeps DEF RecoverCheck
<1> QED
  BY <1>1, <1>2, <1>3, <1>4, <1>5, <1>6, <1>7, <1>8, <1>9, <1>10, <1>11, <1>12 DEF Decide

LEMMA RequestKeeps ==
    ASSUME OneCaller, NoDirectRequest, TInv, HInv, NEW t \in Callers, Request(t)
    PROVE  HInv'
<1>0. UNCHANGED <<step, retries, jobs>> /\ ThreadsSound /\ t \in Threads \ Workers
  BY ThreadsAssumption DEF Request, rows, TInv, Threads
<1>1. CASE RetryLatest(t)
  <2> DEFINE th == [At("none", NoStep, "retry_latest") EXCEPT !.proto =
                      IF proto \in {"paused", "failed"} THEN "running" ELSE "keep"]
  <2>1. Turn(t, th)
    BY <1>1 DEF RetryLatest
  <2>2. Intends(th) /\ Counts(th) /\ \A s \in Steps : ~Touches(th, s)
    BY DEF Intends, Counts, Touches, Selected, StepLabels, OwnerLabels, At
  <2> HIDE DEF th
  <2> QED
    BY <1>0, <2>1, <2>2, FreeKeeps
<1>2. CASE ApiStart(t) \/ ApiPause(t) \/ ApiResume(t) \/ ApiCancel(t)
           \/ CiFailure(t) \/ CliStart(t)
  BY <1>0, <1>2, WriteStatusKeeps
     DEF ApiStart, ApiPause, ApiResume, ApiCancel, CiFailure, CliStart
<1>3. CASE FlowSuccess(t) \/ CiSuccess(t) \/ RunNextStep(t) \/ Recover(t) \/ CliPlan(t)
           \/ CliPause(t) \/ CliResume(t) \/ CliCancel(t)
  BY <1>0, <1>3, EnterFreeKeeps
     DEF FlowSuccess, CiSuccess, RunNextStep, Recover, CliPlan, CliPause, CliResume,
         CliCancel, FreeLabels
<1>4. CASE \E s \in Steps :
             CliRetry(t, s) \/ CliRunStep(t, s) \/ Execute(t, s) \/ RunQa(t, s)
                \/ CliQa(t, s)
  <2>1. PICK s \in Steps : CliRetry(t, s)
    BY <1>4 DEF CliRunStep, Execute, RunQa, CliQa, Accept, DirectRequests, NoDirectRequest
  <2> QED
    BY <1>0, <2>1, EnterFreeKeeps DEF CliRetry, FreeLabels
<1> QED
  BY <1>1, <1>2, <1>3, <1>4 DEF Request

\* The job is handed to the worker, which is the only one to touch the step.
LEMMA StartJobKeeps ==
    ASSUME TInv, HInv, NEW w \in Workers, StartJob(w)
    PROVE  HInv'
<1>1. w \in Threads /\ UNCHANGED <<step, retries>>
  BY DEF StartJob, Threads, rows
<1>2. PICK s \in Steps :
        jobs[s] > 0 /\ jobs' = [jobs EXCEPT ![s] = @ - 1] /\ Enter(w, "none", s, "execute")
  BY DEF StartJob
<1> DEFINE th == At("none", s, "execute")
<1>3. thread'[w] = th /\ \A u \in Threads : u # w => thread'[u] = thread[u]
  BY <1>1, <1>2 DEF Enter, Turn, TInv, ThreadsSound
<1>4. \A r \in Steps : Touches(th, r) <=> r = s
  BY <1>2 DEF Touches, Selected, StepLabels, OwnerLabels, At
<1>5. /\ jobs[s] = 1 /\ step[s] \in InHand /\ jobs'[s] = 0
      /\ \A r \in Steps : r # s => jobs'[r] = jobs[r]
      /\ \A t \in Threads : ~Touches(thread[t], s)
  BY <1>2 DEF HInv, InOneHand, TInv, RowsOK
<1>6. /\ Intends(th) /\ th.at = "execute" /\ WorkerOnly(th)
      /\ Expected(th) = InHand \cup {"pending"}
  BY DEF Intends, WorkerOnly, Expected, Chosen, Resets, Begins, At
<1> HIDE DEF th
<1>7. AllFit'
  <2> SUFFICES ASSUME NEW u \in Threads
               PROVE  Fits(u, thread[u])'
    BY DEF AllFit
  <2>1. CASE u = w
    BY <1>1, <1>3, <1>4, <1>5, <1>6, <2>1 DEF Fits, Counts, Believes
  <2>2. CASE u # w
    BY <1>1, <1>3, <2>2 DEF HInv, AllFit, Fits, Counts, Believes
  <2> QED
    BY <2>1, <2>2
<1>8. InOneHand'
  <2> SUFFICES ASSUME NEW r \in Steps
               PROVE  /\ jobs'[r] <= 1
                      /\ jobs'[r] > 0 =>
                            step[r] \in InHand /\ \A t \in Threads : ~Touches(thread'[t], r)
                      /\ \A t, u \in Threads :
                            Touches(thread'[t], r) /\ Touches(thread'[u], r) => t = u
    BY <1>1 DEF InOneHand
  <2>1. CASE r = s
    BY <1>3, <1>5, <2>1
  <2>2. CASE r # s
    BY <1>3, <1>4, <1>5, <2>2 DEF HInv, InOneHand
  <2> QED
    BY <2>1, <2>2
<1> QED
  BY <1>7, <1>8 DEF HInv

LEMMA SubmitJobKeeps ==
    ASSUME TInv, HInv, NEW t \in Threads, SubmitJob(t)
    PROVE  HInv'
<1> DEFINE s == thread[t].step
<1>1. /\ UNCHANGED <<step, retries>> /\ thread[t].at = "dispatch" /\ s \in Steps
      /\ jobs' = [jobs EXCEPT ![s] = @ + 1]
  BY DEF SubmitJob, rows, TInv, ThreadsSound, Sound, Named, StepLabels, OwnerLabels
<1>2. thread'[t] = Idle /\ \A u \in Threads : u # t => thread'[u] = thread[u]
  BY DEF SubmitJob, Return, Turn, TInv, ThreadsSound
<1>3. Touches(thread[t], s) /\ Expected(thread[t]) = InHand
  BY <1>1 DEF Touches, Selected, StepLabels, OwnerLabels, Expected, Chosen, Resets, Begins
<1>4. /\ step[s] \in InHand /\ jobs[s] = 0 /\ jobs'[s] = 1
      /\ \A r \in Steps : r # s => jobs'[r] = jobs[r]
      /\ \A u \in Threads : u # t => ~Touches(thread[u], s)
  BY <1>1, <1>3 DEF HInv, InOneHand, AllFit, Fits, Believes, TInv, RowsOK
<1>5. Intends(Idle) /\ Idle.at # "write" /\ WorkerOnly(Idle) /\ \A r \in Steps : ~Touches(Idle, r)
  BY IdleFits DEF Idle, At
<1>6. AllFit'
  <2> SUFFICES ASSUME NEW u \in Threads
               PROVE  Fits(u, thread[u])'
    BY DEF AllFit
  <2>1. CASE u = t
    BY <1>1, <1>2, <1>5, <2>1 DEF Fits, Counts, Believes
  <2>2. CASE u # t
    BY <1>1, <1>2, <2>2 DEF HInv, AllFit, Fits, Counts, Believes
  <2> QED
    BY <2>1, <2>2
<1>7. InOneHand'
  <2> SUFFICES ASSUME NEW r \in Steps
               PROVE  /\ jobs'[r] <= 1
                      /\ jobs'[r] > 0 =>
                            step[r] \in InHand /\ \A u \in Threads : ~Touches(thread'[u], r)
                      /\ \A u, v \in Threads :
                            Touches(thread'[u], r) /\ Touches(thread'[v], r) => u = v
    BY <1>1 DEF InOneHand
  <2>1. CASE r = s
    BY <1>2, <1>4, <1>5, <2>1
  <2>2. CASE r # s
    BY <1>2, <1>4, <1>5, <2>2 DEF HInv, InOneHand
  <2> QED
    BY <2>1, <2>2
<1> QED
  BY <1>6, <1>7 DEF HInv

\* Whoever writes a row other than to cancel it has the step to itself.
LEMMA OwnRowKeeps ==
    ASSUME ThreadsSound, HInv, NEW t \in Threads, NEW w \in Steps, Touches(thread[t], w),
           thread[t].at = "write", jobs' = jobs,
           \A s \in Steps : s # w => step'[s] = step[s] /\ retries'[s] = retries[s],
           NEW th, Turn(t, th), Fits(t, th)',
           \A s \in Steps : Touches(th, s) => s = w
    PROVE  HInv'
<1>1. thread'[t] = th /\ \A u \in Threads : u # t => thread'[u] = thread[u]
  BY DEF Turn, ThreadsSound
<1>2. /\ \A u \in Threads : u # t => ~Touches(thread[u], w)
      /\ ~(jobs[w] > 0) /\ jobs[w] <= 1
  BY DEF HInv, InOneHand
<1>3. AllFit'
  <2> SUFFICES ASSUME NEW u \in Threads
               PROVE  Fits(u, thread[u])'
    BY DEF AllFit
  <2>1. CASE u = t
    BY <1>1, <2>1 DEF Fits, Counts, Believes
  <2>2. CASE u # t
    <3>1. Fits(u, thread[u]) /\ thread'[u] = thread[u] /\ ~Touches(thread[u], w)
      BY <1>1, <1>2, <2>2 DEF HInv, AllFit
    <3>2. Believes(u, thread[u])'
      BY <3>1 DEF Fits, Believes
    <3>3. Counts(thread[u])'
      <4>1. thread[u] \in ThreadState
        BY DEF ThreadsSound
      <4>2. SUFFICES ASSUME thread[u].at = "write", NEW s \in thread[u].rows
                     PROVE  IF thread[u].to = "pending" THEN thread[u].retries = retries'[s] + 1
                            ELSE thread[u].retries = Keep
        BY <3>1 DEF Counts
      <4>3. s \in Steps
        BY <4>1, <4>2 DEF ThreadState
      <4>4. thread[u].to = "pending" => s # w
        BY <3>1, <4>2 DEF Touches
      <4> QED
        BY <3>1, <4>2, <4>3, <4>4 DEF Fits, Counts
    <3> QED
      BY <3>1, <3>2, <3>3 DEF Fits
  <2> QED
    BY <2>1, <2>2
<1>4. InOneHand'
  <2> SUFFICES ASSUME NEW r \in Steps
               PROVE  /\ jobs[r] <= 1
                      /\ jobs[r] > 0 =>
                            step'[r] \in InHand /\ \A u \in Threads : ~Touches(thread'[u], r)
                      /\ \A u, v \in Threads :
                            Touches(thread'[u], r) /\ Touches(thread'[v], r) => u = v
    BY DEF InOneHand
  <2>1. CASE r = w
    BY <1>1, <1>2, <2>1
  <2>2. CASE r # w
    BY <1>1, <2>2 DEF HInv, InOneHand
  <2> QED
    BY <2>1, <2>2
<1> QED
  BY <1>3, <1>4 DEF HInv

\* Cancelling writes to the rows of others, and what they know of their steps
\* allows for it.
LEMMA CancelRowKeeps ==
    ASSUME OneCaller, TInv, HInv, NEW t \in Threads \ Workers, NEW w \in Steps,
           step' = [step EXCEPT ![w] = "cancelled"], UNCHANGED <<retries, jobs>>,
           NEW th, Turn(t, th), Fits(t, th), \A s \in Steps : ~Touches(th, s)
    PROVE  HInv'
<1>1. thread'[t] = th /\ \A u \in Threads : u # t => thread'[u] = thread[u] /\ u \in Workers
  BY DEF Turn, TInv, ThreadsSound, OneCaller, Threads
<1>2. "cancelled" \in InHand /\ \A s \in Steps : step'[s] = step[s] \/ step'[s] = "cancelled"
  BY DEF InHand, TInv, RowsOK
<1>3. AllFit'
  <2> SUFFICES ASSUME NEW u \in Threads
               PROVE  Fits(u, thread[u])'
    BY DEF AllFit
  <2>1. CASE u = t
    BY <1>1, <2>1 DEF Fits, Counts, Believes
  <2>2. CASE u # t
    <3>1. Fits(u, thread[u]) /\ thread'[u] = thread[u] /\ WorkerOnly(thread[u])
          /\ thread[u] \in ThreadState
      BY <1>1, <2>2 DEF HInv, AllFit, Fits, TInv, ThreadsSound
    <3>2. ASSUME NEW s \in Steps, Touches(thread[u], s)
          PROVE  InHand \subseteq Expected(thread[u])
      <4>1. ~Chosen(thread[u])
        BY <3>1 DEF WorkerOnly, Chosen
      <4>2. ~Resets(thread[u])
        BY <3>1, <3>2 DEF WorkerOnly, Resets, Fits, Intends, Touches, Selected, StepLabels,
                          OwnerLabels
      <4> QED
        BY <4>1, <4>2 DEF Expected
    <3>3. Believes(u, thread[u])'
      BY <1>2, <3>1, <3>2 DEF Fits, Believes
    <3> QED
      BY <3>1, <3>3 DEF Fits, Counts
  <2> QED
    BY <2>1, <2>2
<1>4. InOneHand'
  BY <1>1, <1>2 DEF HInv, InOneHand
<1> QED
  BY <1>3, <1>4 DEF HInv

\* The thread goes on with a step after its writes, or has one write left.
LEMMA GoesOn ==
    ASSUME NEW t \in Threads, NEW th, th.at = "write", th.next \in Continuations,
           th.rows = {}, t \in Workers => WorkerOnly(th), Advance(t, th),
           th.proto # "keep" => Intends(th) /\ th.next \notin {"claim", "dispatch", "gates"}
    PROVE  \E nth : /\ Turn(t, nth) /\ Intends(nth)
                    /\ nth.at = "write" => nth.rows = {}
                    /\ t \in Workers => WorkerOnly(nth)
                    /\ \A s \in Steps : Touches(nth, s) =>
                          /\ s = th.step
                          /\ \/ th.next = "claim" /\ Expected(nth) = {"pending"}
                             \/ th.next \in OwnerLabels /\ InHand \subseteq Expected(nth)
<1>1. CASE th.proto # "keep"
  <2>1. Turn(t, th) /\ Intends(th) /\ "engine" \in OwnerLabels
    BY <1>1 DEF Advance, OwnerLabels
  <2>2. \A s \in Steps : Touches(th, s) => s = th.step /\ th.next = "engine"
    BY <1>1 DEF Touches, Selected, Continuations, StepLabels, OwnerLabels
  <2>3. th.next = "engine" => Expected(th) = InHand
    BY <1>1 DEF Expected, Chosen, Resets, Begins, Intends
  <2> QED
    BY <2>1, <2>2, <2>3, Zenon
<1>2. CASE th.proto = "keep" /\ th.next = "idle"
  BY <1>2, IdleFits DEF Advance, Return, Idle, At
<1>3. CASE th.proto = "keep" /\ th.next # "idle"
  <2> DEFINE nth == At(th.by, th.step, th.next)
  <2>1. Turn(t, nth)
    BY <1>3 DEF Advance
  <2>2. nth.at = th.next /\ nth.at # "write" /\ nth.at # "execute" /\ nth.at # "recover_check"
        /\ nth.step = th.step
    BY DEF At, Continuations
  <2> HIDE DEF nth
  <2>3. \A s \in Steps : Touches(nth, s) => s = th.step /\ th.next \in OwnerLabels \cup {"claim"}
    BY <2>2 DEF Touches, Selected, Continuations, StepLabels, OwnerLabels
  <2>4. th.next = "claim" => Expected(nth) = {"pending"}
    BY <2>2 DEF Expected, Chosen
  <2>5. th.next \in OwnerLabels => Expected(nth) = InHand
    BY <2>2 DEF Expected, Chosen, Resets, Begins, OwnerLabels
  <2>6. t \in Workers => WorkerOnly(nth)
    BY <2>2 DEF WorkerOnly
  <2>7. Intends(nth)
    BY <2>2 DEF Intends
  <2> QED
    BY <2>1, <2>2, <2>3, <2>4, <2>5, <2>6, <2>7
<1> QED
  BY <1>1, <1>2, <1>3

LEMMA WriteStepKeeps ==
    ASSUME OneCaller, TInv, HInv, NEW t \in Threads, WriteStep(t)
    PROVE  HInv'
<1> DEFINE th == thread[t]
<1>1. PICK w \in th.rows :
         /\ step' = [step EXCEPT ![w] = th.to]
         /\ retries' = IF th.retries = Keep THEN retries
                       ELSE [retries EXCEPT ![w] = th.retries]
         /\ Advance(t, [th EXCEPT !.rows = @ \ {w}])
         /\ jobs' = jobs
  BY DEF WriteStep
<1> DEFINE left == [th EXCEPT !.rows = @ \ {w}]
<1>2. th \in ThreadState /\ th.at = "write" /\ w \in Steps /\ ThreadsSound
  BY DEF WriteStep, TInv, ThreadsSound, ThreadState
<1>3. /\ left.rows = th.rows \ {w} /\ left.at = "write" /\ left.to = th.to
      /\ left.proto = th.proto /\ left.step = th.step /\ left.retries = th.retries
      /\ left.next = th.next /\ left.next \in Continuations
  BY <1>2 DEF ThreadState
<1>4. Fits(t, th)
  BY DEF HInv, AllFit
<1>5. CASE th.to = "cancelled"
  <2>1. t \notin Workers /\ th.retries = Keep /\ th.next = "idle"
    BY <1>1, <1>2, <1>4, <1>5 DEF Fits, WorkerOnly, Counts, Intends
  <2>2. Intends(left) /\ Counts(left) /\ \A s \in Steps : ~Touches(left, s)
    BY <1>3, <1>5, <2>1 DEF Intends, Counts, Touches, Selected, StepLabels, OwnerLabels
  <2>3. PICK nth \in {left, Idle} : Turn(t, nth)
    BY <1>1, <1>3, <2>1 DEF Advance, Return
  <2>4. Fits(t, nth) /\ \A s \in Steps : ~Touches(nth, s)
    BY <2>1, <2>2, IdleFits DEF Fits, Believes
  <2> HIDE DEF left
  <2> QED
    BY <1>1, <1>2, <1>5, <2>1, <2>3, <2>4, CancelRowKeeps
<1>6. CASE th.to # "cancelled"
  <2>1. Touches(th, w) /\ th.rows = {w} /\ left.rows = {}
    BY <1>1, <1>2, <1>3, <1>4, <1>6 DEF Touches, Fits, Intends
  <2>2. /\ t \in Workers => WorkerOnly(left)
        /\ th.proto # "keep" =>
              Intends(left) /\ left.next \notin {"claim", "dispatch", "gates"}
    <3>1. Intends(th) /\ (t \in Workers => WorkerOnly(th))
      BY <1>4 DEF Fits
    <3>2. th.next \notin {"claim", "dispatch", "gates"} \/ th.proto = "keep"
      BY <1>2, <3>1 DEF Intends
    <3>3. th.proto # "keep" => Intends(left)
      BY <1>2, <1>3, <2>1, <3>1 DEF Intends
    <3>4. t \in Workers => WorkerOnly(left)
      BY <1>2, <1>3, <3>1 DEF WorkerOnly
    <3> QED
      BY <1>3, <3>2, <3>3, <3>4
  <2>3. /\ left.at = "write" /\ left.next \in Continuations /\ left.rows = {}
        /\ Advance(t, left)
    BY <1>1, <1>3, <2>1, <2>2
  <2>4. PICK nth : /\ Turn(t, nth) /\ Intends(nth)
                   /\ nth.at = "write" => nth.rows = {}
                   /\ t \in Workers => WorkerOnly(nth)
                   /\ \A s \in Steps : Touches(nth, s) =>
                         /\ s = th.step
                         /\ \/ th.next = "claim" /\ Expected(nth) = {"pending"}
                            \/ th.next \in OwnerLabels /\ InHand \subseteq Expected(nth)
    <3> HIDE DEF left
    <3> QED
      BY <1>3, <2>2, <2>3, GoesOn
  <2>5. ASSUME NEW s \in Steps, Touches(nth, s)
        PROVE  /\ s = w /\ th.to \in Expected(nth)
               /\ t \in Workers => th.to \in InHand
    <3>1. Intends(th) /\ (t \in Workers => WorkerOnly(th))
      BY <1>4 DEF Fits
    <3>2. th.next \in {"claim", "dispatch", "engine", "gates"}
      BY <1>3, <2>4, <2>5 DEF OwnerLabels, Continuations
    <3>3. s = w
      BY <1>2, <2>1, <2>4, <2>5, <3>1, <3>2 DEF Intends
    <3>4. th.to \in Expected(nth)
      BY <1>2, <2>4, <2>5, <3>1, <3>2 DEF Intends, OwnerLabels, InHand, Active
    <3>5. t \in Workers => th.to \in InHand
      BY <1>2, <3>1, <3>2 DEF Intends, WorkerOnly, InHand, Active
    <3> QED
      BY <3>3, <3>4, <3>5
  <2>6. step'[w] = th.to
    BY <1>1, <1>2 DEF TInv, RowsOK
  <2>7. Fits(t, nth)'
    BY <2>4, <2>5, <2>6 DEF Fits, Counts, Believes
  <2>8. \A s \in Steps : s # w => step'[s] = step[s] /\ retries'[s] = retries[s]
    BY <1>1, <1>2 DEF TInv, RowsOK
  <2> QED
    BY <1>1, <1>2, <2>1, <2>4, <2>5, <2>7, <2>8, OwnRowKeeps
<1> QED
  BY <1>5, <1>6

LEMMA WriteProtocolKeeps ==
    ASSUME OneCaller, TInv, HInv, NEW t \in Threads, WriteProtocol(t)
    PROVE  HInv'
<1> DEFINE old == thread[t]
           th  == [old EXCEPT !.proto = "keep"]
<1>1. /\ old \in ThreadState /\ old.at = "write" /\ old.rows = {} /\ old.proto # "keep"
      /\ UNCHANGED <<step, retries, jobs>> /\ ThreadsSound /\ Advance(t, th)
  BY DEF WriteProtocol, TInv, ThreadsSound
<1>2. /\ th.at = "write" /\ th.rows = {} /\ th.proto = "keep" /\ th.step = old.step
      /\ th.to = old.to /\ th.next = old.next /\ th.next \in Continuations
  BY <1>1 DEF ThreadState
<1>3. Intends(old) /\ Believes(t, old) /\ (t \in Workers => WorkerOnly(old))
  BY DEF HInv, AllFit, Fits
<1>4. t \in Workers => WorkerOnly(th)
  BY <1>1, <1>2, <1>3 DEF WorkerOnly
<1>5. th.next \notin {"claim", "dispatch", "gates"}
  BY <1>1, <1>2, <1>3 DEF Intends
<1>6. PICK nth : /\ Turn(t, nth) /\ Intends(nth)
                 /\ nth.at = "write" => nth.rows = {}
                 /\ t \in Workers => WorkerOnly(nth)
                 /\ \A s \in Steps : Touches(nth, s) =>
                       /\ s = th.step
                       /\ \/ th.next = "claim" /\ Expected(nth) = {"pending"}
                          \/ th.next \in OwnerLabels /\ InHand \subseteq Expected(nth)
  <2> HIDE DEF th
  <2> QED
    BY <1>1, <1>2, <1>4, GoesOn
<1>7. ASSUME NEW s \in Steps, Touches(nth, s)
      PROVE  Touches(old, s) /\ step[s] \in InHand /\ InHand \subseteq Expected(nth)
  <2>1. s = old.step /\ old.next = "engine" /\ InHand \subseteq Expected(nth)
    BY <1>2, <1>5, <1>6, <1>7 DEF Continuations, OwnerLabels
  <2>2. Touches(old, s)
    BY <1>1, <2>1 DEF Touches, Selected, StepLabels, OwnerLabels
  <2>3. Expected(old) = InHand
    BY <1>1, <1>3, <2>1 DEF Expected, Chosen, Resets, Begins, Intends
  <2> QED
    BY <1>3, <2>1, <2>2, <2>3 DEF Believes
<1>8. Fits(t, nth)
  BY <1>6, <1>7 DEF Fits, Counts, Believes
<1> QED
  BY <1>1, <1>6, <1>7, <1>8, TurnKeeps

LEMMA HInvInit == Init => HInv
<1> SUFFICES ASSUME Init
             PROVE  HInv
  OBVIOUS
<1>1. \A t \in Threads : thread[t] = Idle
  BY DEF Init
<1>2. \A s \in Steps : jobs[s] = 0
  BY DEF Init
<1> QED
  BY <1>1, <1>2, IdleFits DEF HInv, AllFit, InOneHand, Fits, Believes

LEMMA HInvNext ==
    ASSUME OneCaller, NoDirectRequest
    PROVE  TInv /\ HInv /\ [Next]_vars => HInv'
<1> SUFFICES ASSUME TInv, HInv, [Next]_vars
             PROVE  HInv'
  OBVIOUS
<1>1. ASSUME NEW t \in Threads, NoSubmission(t) \/ GatesRaise(t) \/ Crash(t)
      PROVE  HInv'
  BY <1>1, ReturnKeeps DEF NoSubmission, GatesRaise, Crash, TInv, rows
<1>2. CASE UNCHANGED vars
  BY <1>2 DEF vars, HInv, AllFit, InOneHand, Fits, Counts, Believes
<1> QED
  BY <1>1, <1>2, RequestKeeps, StartJobKeeps, SubmitJobKeeps, DecideKeeps, WriteStepKeeps,
     WriteProtocolKeeps
     DEF Next, Progress

LEMMA AlwaysHInv ==
    ASSUME OneCaller, NoDirectRequest
    PROVE  Spec => [](TInv /\ HInv)
<1>1. TInv /\ HInv /\ [Next]_vars => HInv'
  BY HInvNext
<1> QED
  BY <1>1, TInvInit, TInvNext, HInvInit, PTL DEF Spec

-----------------------------------------------------------------------------
(* What follows.                                                           *)

\* One thread at a time that serves requests, and no request that names its
\* step: then no step is ever executed by two threads, nor queued twice, nor
\* queued while it is executed, whatever the number of Windmill workers,
\* although run_step, the job and execute_step never lock the row.
THEOREM ExecutedOnce ==
    ASSUME OneCaller, NoDirectRequest
    PROVE  Spec => []SingleExecution
<1>1. TInv /\ HInv => SingleExecution
  <2> SUFFICES ASSUME TInv, HInv, NEW s \in Steps
               PROVE  /\ jobs[s] <= 1
                      /\ jobs[s] = 1 => \A t \in Threads : ~Executes(t, s)
                      /\ \A t, u \in Threads : Executes(t, s) /\ Executes(u, s) => t = u
    BY DEF SingleExecution
  <2>1. \A t \in Threads : Executes(t, s) => Touches(thread[t], s)
    BY DEF Executes, Touches, Selected, StepLabels, OwnerLabels
  <2> QED
    BY <2>1 DEF HInv, InOneHand
<1> QED
  BY <1>1, AlwaysHInv, PTL

\* Under the same assumptions a retry is neither lost nor counted twice: the
\* retries column is written only over a step that has stopped, and with one
\* more than it holds at that moment, although it was read earlier.
THEOREM RetriesAreCounted ==
    ASSUME OneCaller, NoDirectRequest
    PROVE  Spec => RetriesCount
<1> DEFINE Counted ==
             \A s \in Steps : retries'[s] # retries[s] =>
                /\ retries'[s] = retries[s] + 1
                /\ step[s] \in {"failed", "blocked", "timeout"}
                /\ step'[s] = "pending"
<1>1. ASSUME TInv, HInv, [Next]_vars
      PROVE  Counted
  <2>1. CASE retries' = retries
    BY <2>1
  <2>2. ASSUME NEW t \in Threads, WriteStep(t)
        PROVE  Counted
    <3> DEFINE th == thread[t]
    <3>1. PICK w \in th.rows :
             /\ step' = [step EXCEPT ![w] = th.to]
             /\ retries' = IF th.retries = Keep THEN retries
                           ELSE [retries EXCEPT ![w] = th.retries]
      BY <2>2 DEF WriteStep
    <3>2. th \in ThreadState /\ th.at = "write" /\ w \in Steps
      BY <1>1, <2>2 DEF WriteStep, TInv, ThreadsSound, ThreadState
    <3>3. Counts(th) /\ Intends(th) /\ Believes(t, th)
      BY <1>1 DEF HInv, AllFit, Fits
    <3>4. CASE th.to = "pending"
      <4>1. th.retries = retries[w] + 1 /\ Touches(th, w)
        BY <3>2, <3>3, <3>4 DEF Counts, Touches
      <4>2. Expected(th) = Stopped
        BY <3>2, <3>3, <3>4 DEF Expected, Chosen, Resets, Intends
      <4>3. step[w] \in Stopped
        BY <3>2, <3>3, <4>1, <4>2 DEF Believes
      <4> QED
        BY <1>1, <3>1, <3>2, <3>4, <4>1, <4>3 DEF Stopped, TInv, RowsOK
    <3>5. CASE th.to # "pending"
      BY <3>1, <3>2, <3>3, <3>5 DEF Counts
    <3> QED
      BY <3>4, <3>5
  <2>3. CASE \A t \in Threads : ~WriteStep(t)
    BY <1>1, <2>1, <2>3
       DEF Next, Progress, Request, StartJob, Decide, WriteProtocol, SubmitJob, NoSubmission,
           GatesRaise, Crash, rows, vars
  <2> QED
    BY <2>2, <2>3
<1> QED
  BY <1>1, AlwaysHInv, PTL DEF Spec, RetriesCount

-----------------------------------------------------------------------------
(* The schedule.  A step that the CLI's cancel has stopped in the hands of *)
(* somebody goes on all the same, which the schedule does not allow, so    *)
(* that request is excluded.                                               *)

NoCancelRequest == "cli_cancel" \notin Requests

CancelsNothing(th) == th.at # "cancel" /\ th.to # "cancelled"

KInv ==
    /\ \A t \in Threads : CancelsNothing(thread[t])
    /\ \A s \in Steps : step[s] # "cancelled"
    /\ \A s \in done : step[s] = "completed"

LEMMA IdleCancelsNothing == CancelsNothing(Idle)
BY DEF CancelsNothing, Idle, At

LEMMA DecideCancelsNothing ==
    ASSUME TInv, NEW t \in Threads, CancelsNothing(thread[t]), Decide(t)
    PROVE  \E th : Turn(t, th) /\ CancelsNothing(th)
<1>0. thread[t] \in ThreadState
  BY DEF TInv, ThreadsSound
<1>1. ASSUME NEW l \in Labels \ {"cancel"}, NEW b, NEW s, Enter(t, b, s, l) \/ Goto(t, l)
      PROVE  \E th : Turn(t, th) /\ CancelsNothing(th)
  <2>1. CASE Enter(t, b, s, l)
    BY <1>1, <2>1 DEF Enter, At, CancelsNothing
  <2>2. CASE Goto(t, l)
    BY <1>0, <1>1, <2>2 DEF Goto, CancelsNothing, ThreadState
  <2> QED
    BY <1>1, <2>1, <2>2
<1>2. ASSUME NEW R, NEW s, NEW n, NEW p, NEW l, WriteRows(t, R, s, n, p, l), s # "cancelled"
      PROVE  \E th : Turn(t, th) /\ CancelsNothing(th)
  BY <1>2 DEF WriteRows, CancelsNothing
<1>3. ASSUME NEW p, NEW l, WriteStatus(t, p, l)
      PROVE  \E th : Turn(t, th) /\ CancelsNothing(th)
  BY <1>2, <1>3 DEF WriteStatus
<1>4. ASSUME Return(t)
      PROVE  \E th : Turn(t, th) /\ CancelsNothing(th)
  BY <1>4, IdleCancelsNothing DEF Return
<1>5. CASE PauseProtocol(t) \/ ResumeProtocol(t) \/ CancelProtocol(t) \/ PlanProtocol(t)
           \/ CheckAndComplete(t)
  BY <1>3, <1>4, <1>5
     DEF PauseProtocol, ResumeProtocol, CancelProtocol, PlanProtocol, CheckAndComplete,
         CancelsNothing
<1>6. CASE AdvanceOnCi(t) \/ EnqueueNextStep(t) \/ SelectNextStep(t)
  BY <1>1, <1>4, <1>6 DEF AdvanceOnCi, EnqueueNextStep, SelectNextStep, Labels
<1>7. CASE RunStep(t) \/ RetryStep(t) \/ RetryLatestStep(t)
  BY <1>2, <1>3, <1>4, <1>7 DEF RunStep, RetryStep, RetryLatestStep
<1>8. CASE ExecuteStep(t) \/ EngineReturns(t) \/ GatesReturn(t)
  BY <1>2, <1>8 DEF ExecuteStep, EngineReturns, GatesReturn
<1>9. CASE RecoverList(t)
  <2>1. CancelsNothing([At("recovery", NoStep, "recover_check") EXCEPT !.proto = "blocked"])
    BY DEF CancelsNothing, At
  <2> QED
    BY <1>1, <1>4, <1>9, <2>1 DEF RecoverList, Labels
<1>10. CASE RecoverCheck(t)
  BY <1>1, <1>3, <1>10 DEF RecoverCheck, Labels
<1> QED
  BY <1>5, <1>6, <1>7, <1>8, <1>9, <1>10 DEF Decide

LEMMA RequestCancelsNothing ==
    ASSUME NoCancelRequest, NEW t \in Callers, Request(t)
    PROVE  \E th : Turn(t, th) /\ CancelsNothing(th)
<1>1. ASSUME NEW l, l # "cancel", NEW b, NEW s, Enter(t, b, s, l)
      PROVE  \E th : Turn(t, th) /\ CancelsNothing(th)
  BY <1>1 DEF Enter, At, CancelsNothing
<1>2. ASSUME NEW p, NEW l, WriteStatus(t, p, l)
      PROVE  \E th : Turn(t, th) /\ CancelsNothing(th)
  BY <1>2 DEF WriteStatus, WriteRows, CancelsNothing
<1>3. CASE RetryLatest(t)
  <2> DEFINE th == [At("none", NoStep, "retry_latest") EXCEPT !.proto =
                      IF proto \in {"paused", "failed"} THEN "running" ELSE "keep"]
  <2>1. Turn(t, th) /\ CancelsNothing(th)
    BY <1>3 DEF RetryLatest, CancelsNothing, At
  <2> QED
    BY <2>1
<1>4. CASE ApiStart(t) \/ ApiPause(t) \/ ApiResume(t) \/ ApiCancel(t)
           \/ CiFailure(t) \/ CliStart(t)
  BY <1>2, <1>4 DEF ApiStart, ApiPause, ApiResume, ApiCancel, CiFailure, CliStart
<1>5. CASE FlowSuccess(t) \/ CiSuccess(t) \/ RunNextStep(t) \/ Recover(t) \/ CliPlan(t)
           \/ CliPause(t) \/ CliResume(t) \/ CliCancel(t)
  BY <1>1, <1>5
     DEF FlowSuccess, CiSuccess, RunNextStep, Recover, CliPlan, CliPause, CliResume,
         CliCancel, Accept, NoCancelRequest
<1>6. ASSUME NEW s \in Steps, \/ CliRetry(t, s) \/ CliRunStep(t, s) \/ Execute(t, s)
                              \/ RunQa(t, s) \/ CliQa(t, s)
      PROVE  \E th : Turn(t, th) /\ CancelsNothing(th)
  BY <1>1, <1>6 DEF CliRetry, CliRunStep, Execute, RunQa, CliQa
<1> QED
  BY <1>3, <1>4, <1>5, <1>6 DEF Request

LEMMA AdvanceCancelsNothing ==
    ASSUME NEW t \in Threads, NEW th, CancelsNothing(th), th.next \in Continuations,
           Advance(t, th)
    PROVE  \E nth : Turn(t, nth) /\ CancelsNothing(nth)
<1>1. CancelsNothing(At(th.by, th.step, th.next))
  BY DEF CancelsNothing, At, Continuations
<1> QED
  BY <1>1, IdleCancelsNothing DEF Advance, Return

\* What the row held when a thread writes to it: the only reason to write to a
\* row in flight is to end the flight or to go on with it.
LEMMA WrittenOver ==
    ASSUME TInv, HInv, KInv, NEW t \in Threads, thread[t].at = "write",
           NEW w \in thread[t].rows
    PROVE  /\ w \in Steps
           /\ step[w] \in Stopped \cup Active \cup {"pending"}
           /\ step[w] \in Stopped <=> thread[t].to = "pending"
           /\ step[w] = "pending" => thread[t].to \in {"running", "blocked"}
<1> DEFINE th == thread[t]
<1>1. th \in ThreadState /\ th.to # "cancelled" /\ w \in Steps
  BY DEF TInv, ThreadsSound, KInv, CancelsNothing, ThreadState
<1>2. Intends(th) /\ Believes(t, th) /\ Touches(th, w)
  BY <1>1 DEF HInv, AllFit, Fits, Touches
<1>3. step[w] \in Expected(th) /\ step[w] # "cancelled"
  BY <1>1, <1>2 DEF Believes, KInv
<1>4. CASE th.to = "pending"
  <2>1. Expected(th) = Stopped
    BY <1>2, <1>4 DEF Expected, Chosen, Resets, Intends
  <2> QED
    BY <1>1, <1>3, <1>4, <2>1 DEF Stopped, Active
<1>5. CASE th.to \in {"running", "blocked"}
  <2>1. Expected(th) \subseteq InHand \cup {"pending"}
    BY <1>2, <1>5 DEF Expected, Chosen, Resets, Begins, Intends
  <2> QED
    BY <1>1, <1>3, <1>5, <2>1 DEF Stopped, InHand, Active
<1>6. CASE th.to \notin {"pending", "running", "blocked"}
  <2>1. Expected(th) = InHand
    BY <1>2, <1>6 DEF Expected, Chosen, Resets, Begins, Intends
  <2> QED
    BY <1>1, <1>3, <1>6, <2>1 DEF Stopped, InHand, Active
<1> QED
  BY <1>4, <1>5, <1>6

LEMMA KInvNext ==
    ASSUME NoCancelRequest
    PROVE  TInv /\ HInv /\ KInv /\ [Next]_vars => KInv'
<1> SUFFICES ASSUME TInv, HInv, KInv, [Next]_vars
             PROVE  KInv'
  OBVIOUS
<1>1. ASSUME NEW t \in Threads, NEW th, Turn(t, th), CancelsNothing(th)
      PROVE  \A u \in Threads : CancelsNothing(thread'[u])
  BY <1>1 DEF Turn, KInv, TInv, ThreadsSound
<1>2. ASSUME UNCHANGED <<step, done>>, \A u \in Threads : CancelsNothing(thread'[u])
      PROVE  KInv'
  BY <1>2 DEF KInv
<1>3. ASSUME NEW t \in Callers, Request(t)
      PROVE  KInv'
  <2>1. t \in Threads /\ UNCHANGED <<step, done>>
    BY <1>3 DEF Request, rows, Threads
  <2> QED
    BY <1>1, <1>2, <1>3, <2>1, RequestCancelsNothing
<1>4. ASSUME NEW w \in Workers, StartJob(w)
      PROVE  KInv'
  <2>1. w \in Threads /\ UNCHANGED <<step, done>>
    BY <1>4 DEF StartJob, rows, Threads
  <2>2. PICK s \in Steps : Enter(w, "none", s, "execute")
    BY <1>4 DEF StartJob
  <2>3. CancelsNothing(At("none", s, "execute"))
    BY DEF CancelsNothing, At
  <2> QED
    BY <1>1, <1>2, <2>1, <2>2, <2>3 DEF Enter
<1>5. ASSUME NEW t \in Threads, Decide(t)
      PROVE  KInv'
  <2>1. UNCHANGED <<step, done>> /\ CancelsNothing(thread[t])
    BY <1>5 DEF Decide, rows, KInv
  <2> QED
    BY <1>1, <1>2, <1>5, <2>1, DecideCancelsNothing
<1>6. ASSUME NEW t \in Threads, WriteProtocol(t)
      PROVE  KInv'
  <2> DEFINE th == [thread[t] EXCEPT !.proto = "keep"]
  <2>1. UNCHANGED <<step, done>> /\ Advance(t, th)
    BY <1>6 DEF WriteProtocol
  <2>2. CancelsNothing(th) /\ th.next \in Continuations
    BY DEF KInv, CancelsNothing, TInv, ThreadsSound, ThreadState
  <2> HIDE DEF th
  <2> QED
    BY <1>1, <1>2, <2>1, <2>2, AdvanceCancelsNothing
<1>7. ASSUME NEW t \in Threads, WriteStep(t)
      PROVE  KInv'
  <2> DEFINE th == thread[t]
  <2>1. PICK w \in th.rows :
           /\ step' = [step EXCEPT ![w] = th.to]
           /\ done' = IF th.to = "completed" THEN done \cup {w} ELSE done
           /\ Advance(t, [th EXCEPT !.rows = @ \ {w}])
    BY <1>7 DEF WriteStep
  <2> DEFINE left == [th EXCEPT !.rows = @ \ {w}]
  <2>2. CancelsNothing(left) /\ left.next \in Continuations /\ th.to # "cancelled"
    BY DEF KInv, CancelsNothing, TInv, ThreadsSound, ThreadState
  <2>3. \A u \in Threads : CancelsNothing(thread'[u])
    <3> HIDE DEF left
    <3> QED
      BY <1>1, <2>1, <2>2, AdvanceCancelsNothing DEF left
  <2>4. w \in Steps /\ step[w] # "completed"
    BY <1>7, <2>1, WrittenOver DEF WriteStep, Stopped, Active
  <2>5. w \notin done
    BY <2>4 DEF KInv
  <2> QED
    BY <2>1, <2>2, <2>3, <2>4, <2>5 DEF KInv, TInv, RowsOK
<1>8. ASSUME NEW t \in Threads, SubmitJob(t) \/ NoSubmission(t) \/ GatesRaise(t) \/ Crash(t)
      PROVE  KInv'
  <2>1. UNCHANGED <<step, done>> /\ Turn(t, Idle)
    BY <1>8 DEF SubmitJob, NoSubmission, GatesRaise, Crash, rows, Return
  <2> QED
    BY <1>1, <1>2, <2>1, IdleCancelsNothing
<1>9. CASE UNCHANGED vars
  BY <1>9 DEF vars, KInv
<1> QED
  BY <1>3, <1>4, <1>5, <1>6, <1>7, <1>8, <1>9 DEF Next, Progress

\* The refinement mapping.
Progressed == [s \in Steps |-> Phase(step[s])]

LEMMA PhaseIs ==
    /\ Phase("pending") = "waiting"
    /\ \A st \in Active : Phase(st) = "working"
    /\ Phase("completed") = "succeeded"
    /\ \A st \in Stopped \cup {"skipped"} : Phase(st) = "stopped"
BY DEF Phase, Active, Stopped

LEMMA WriteStepSchedules ==
    ASSUME TInv, HInv, DInv, KInv, NEW t \in Threads, WriteStep(t)
    PROVE  Schedule!ScheduleNext \/ UNCHANGED <<Progressed, retries>>
<1> DEFINE th == thread[t]
<1>1. PICK w \in th.rows :
         /\ step' = [step EXCEPT ![w] = th.to]
         /\ retries' = IF th.retries = Keep THEN retries
                       ELSE [retries EXCEPT ![w] = th.retries]
  BY DEF WriteStep
<1>2. /\ w \in Steps /\ th.at = "write" /\ th.to \in StepStatus /\ th.to # "cancelled"
      /\ Counts(th) /\ Committed(th, done)
  BY DEF WriteStep, TInv, ThreadsSound, ThreadState, KInv, CancelsNothing, HInv, AllFit,
         Fits, DInv, AllCommitted
<1>3. /\ step[w] \in Stopped \cup Active \cup {"pending"}
      /\ step[w] \in Stopped <=> th.to = "pending"
      /\ step[w] = "pending" => th.to \in {"running", "blocked"}
  BY <1>2, WrittenOver
<1>4. Progressed' = [Progressed EXCEPT ![w] = Phase(th.to)]
  <2>1. step \in [Steps -> StepStatus]
    BY DEF TInv, RowsOK
  <2> QED
    BY <1>1, <1>2, <2>1 DEF Progressed
<1>5. \A d \in done : Progressed[d] = "succeeded"
  BY PhaseIs DEF Progressed, KInv, TInv, RowsOK
<1>6. CASE th.to = "pending"
  <2>1. retries' = [retries EXCEPT ![w] = @ + 1]
    <3>1. th.retries = retries[w] + 1 /\ retries[w] \in Nat
      BY <1>2, <1>6 DEF Counts, TInv, RowsOK
    <3>2. th.retries # Keep
      BY <3>1 DEF Keep
    <3> QED
      BY <1>1, <3>1, <3>2
  <2>2. Progressed[w] = "stopped" /\ Phase(th.to) = "waiting"
    BY <1>2, <1>3, <1>6, PhaseIs DEF Progressed
  <2>3. Schedule!Retry(w)
    BY <1>4, <2>1, <2>2 DEF Schedule!Retry, Progressed
  <2> QED
    BY <1>2, <2>3 DEF Schedule!ScheduleNext
<1>7. CASE th.to # "pending"
  <2>1. retries' = retries
    BY <1>1, <1>2, <1>7 DEF Counts
  <2>2. CASE step[w] = "pending"
    <3>1. Progressed[w] = "waiting" /\ \A d \in Deps[w] : Progressed[d] = "succeeded"
      <4>1. Deps[w] \subseteq done
        BY <1>2, <1>7 DEF Committed
      <4> QED
        BY <1>2, <1>5, <2>2, <4>1, PhaseIs DEF Progressed
    <3>2. Phase("running") = "working" /\ Phase("blocked") = "stopped"
      BY PhaseIs DEF Active, Stopped
    <3>3. Schedule!Start(w) \/ Schedule!Refuse(w)
      BY <1>3, <1>4, <2>1, <2>2, <3>1, <3>2
         DEF Schedule!Start, Schedule!Refuse, Schedule!Eligible, Progressed
    <3> QED
      BY <1>2, <3>3 DEF Schedule!ScheduleNext
  <2>3. CASE step[w] \in Active
    <3>1. Progressed[w] = "working"
      BY <1>2, <2>3, PhaseIs DEF Progressed
    <3>2. Phase(th.to) \in {"working", "succeeded", "stopped"}
      BY <1>2, <1>7, PhaseIs DEF StepStatus, Active, Stopped
    <3>3. CASE Phase(th.to) = "working"
      BY <1>4, <2>1, <3>1, <3>3 DEF Progressed
    <3>4. CASE Phase(th.to) \in {"succeeded", "stopped"}
      <4>1. Schedule!Finish(w)
        BY <1>4, <2>1, <3>1, <3>4 DEF Schedule!Finish, Progressed
      <4> QED
        BY <1>2, <4>1 DEF Schedule!ScheduleNext
    <3> QED
      BY <3>2, <3>3, <3>4
  <2> QED
    BY <1>3, <1>7, <2>2, <2>3
<1> QED
  BY <1>6, <1>7

\* One dispatcher implements the abstract schedule: a step is worked on only
\* after its dependencies have succeeded, what has succeeded is never worked on
\* again, and a step that stopped waits again only through a counted retry.
THEOREM DispatcherImplementsSchedule ==
    ASSUME OneCaller, NoDirectRequest, NoCancelRequest
    PROVE  Spec => ImplementsSchedule
<1>1. Init => Schedule!ScheduleInit
  BY PhaseIs DEF Init, Schedule!ScheduleInit
<1>2. Init => DInv /\ KInv
  BY IdleCommitted, IdleCancelsNothing
     DEF Init, DInv, DependencyOrder, AllCommitted, KInv
<1>3. TInv /\ DInv /\ [Next]_vars => DInv'
  BY DInvNext DEF NoDirectRequest
<1>4. TInv /\ HInv /\ [Next]_vars => HInv'
  BY HInvNext
<1>5. TInv /\ HInv /\ KInv /\ [Next]_vars => KInv'
  BY KInvNext
<1>6. TInv /\ HInv /\ DInv /\ KInv /\ [Next]_vars
      => [Schedule!ScheduleNext]_<<Progressed, retries>>
  <2> SUFFICES ASSUME TInv, HInv, DInv, KInv, [Next]_vars
               PROVE  Schedule!ScheduleNext \/ UNCHANGED <<Progressed, retries>>
    OBVIOUS
  <2>1. CASE \A t \in Threads : ~WriteStep(t)
    BY <2>1
       DEF Next, Progress, Request, StartJob, Decide, WriteProtocol, SubmitJob, NoSubmission,
           GatesRaise, Crash, rows, vars, Progressed
  <2> QED
    BY <2>1, WriteStepSchedules
<1> QED
  BY <1>1, <1>2, <1>3, <1>4, <1>5, <1>6, TInvInit, TInvNext, HInvInit, PTL
     DEF Spec, ImplementsSchedule, Schedule!ScheduleSpec, Progressed

-----------------------------------------------------------------------------
(* The verdict.  It is decided on a listing and written later; the CLI's   *)
(* retry restarts a step that timed out, which the listing counted as      *)
(* ended for good, so that request is excluded too.                        *)

NoCliRetry == "cli_retry" \notin Requests

Succeeded == \A s \in Steps : step[s] \in {"completed", "cancelled", "skipped", "timeout"}

\* What a thread has concluded is still so, and it resets no step that counts
\* as ended.
Concludes(th) ==
    /\ th.proto = "completed" => Succeeded
    /\ th.at # "retry"
    /\ Resets(th) => \A s \in th.rows : step[s] \in {"failed", "blocked"}

CInv ==
    /\ proto = "completed" => Succeeded
    /\ \A t \in Threads : Concludes(thread[t])

LEMMA IdleConcludes == Concludes(Idle)
BY DEF Concludes, Resets, Idle, At

LEMMA EnterConcludes ==
    ASSUME NEW t \in Threads, NEW b, NEW s, NEW l \in Labels \ {"retry", "write"},
           Enter(t, b, s, l)
    PROVE  \E th : Turn(t, th) /\ Concludes(th)
BY DEF Enter, At, Concludes, Resets

LEMMA WriteStatusConcludes ==
    ASSUME NEW t \in Threads, NEW p, NEW l, WriteStatus(t, p, l),
           p = "completed" => Succeeded
    PROVE  \E th : Turn(t, th) /\ Concludes(th)
BY DEF WriteStatus, WriteRows, Concludes

LEMMA VerdictConcludes ==
    ASSUME TInv, AllEnded, Verdict = "completed"
    PROVE  Succeeded
BY DEF AllEnded, Verdict, Ended, Succeeded

LEMMA DecideConcludes ==
    ASSUME TInv, NEW t \in Threads, Concludes(thread[t]), Decide(t)
    PROVE  \E th : Turn(t, th) /\ Concludes(th)
<1>0. thread[t] \in ThreadState
  BY DEF TInv, ThreadsSound
<1>1. ASSUME NEW l \in Labels \ {"retry", "write"}, Goto(t, l)
      PROVE  \E th : Turn(t, th) /\ Concludes(th)
  <2> DEFINE th == [thread[t] EXCEPT !.at = l]
  <2>1. Turn(t, th) /\ th.at = l /\ th.proto = thread[t].proto
    BY <1>0, <1>1 DEF Goto, ThreadState
  <2> HIDE DEF th
  <2>2. Concludes(th)
    BY <1>1, <2>1 DEF Concludes, Resets
  <2> QED
    BY <2>1, <2>2
<1>2. ASSUME NEW R, NEW s, NEW n, NEW p, NEW l, WriteRows(t, R, s, n, p, l),
             p = "completed" => Succeeded,
             s = "pending" => \A r \in R : step[r] \in {"failed", "blocked"}
      PROVE  \E th : Turn(t, th) /\ Concludes(th)
  <2> DEFINE th == [by |-> thread[t].by, at |-> "write", step |-> thread[t].step,
                    rows |-> R, to |-> s, retries |-> n, proto |-> p, next |-> l]
  <2>1. Turn(t, th)
    BY <1>2 DEF WriteRows
  <2>2. Concludes(th)
    BY <1>2 DEF Concludes, Resets
  <2> HIDE DEF th
  <2> QED
    BY <2>1, <2>2
<1>3. ASSUME Return(t)
      PROVE  \E th : Turn(t, th) /\ Concludes(th)
  BY <1>3, IdleConcludes DEF Return
<1>4. CASE PauseProtocol(t) \/ ResumeProtocol(t) \/ PlanProtocol(t)
  BY <1>3, <1>4, WriteStatusConcludes DEF PauseProtocol, ResumeProtocol, PlanProtocol
<1>5. CASE CancelProtocol(t)
  BY <1>2, <1>5 DEF CancelProtocol
<1>6. CASE CheckAndComplete(t)
  BY <1>3, <1>6, WriteStatusConcludes, VerdictConcludes DEF CheckAndComplete
<1>7. CASE AdvanceOnCi(t) \/ EnqueueNextStep(t) \/ SelectNextStep(t)
  BY <1>1, <1>3, <1>7, EnterConcludes
     DEF AdvanceOnCi, EnqueueNextStep, SelectNextStep, Labels
<1>8. CASE RunStep(t)
  BY <1>2, <1>3, <1>8, WriteStatusConcludes DEF RunStep
<1>9. CASE RetryStep(t)
  BY <1>9 DEF RetryStep, Concludes
<1>10. CASE RetryLatestStep(t)
  <2>1. ASSUME NEW s \in Steps, Latest(s),
               WriteRows(t, {s}, "pending", retries[s] + 1, thread[t].proto, "idle")
        PROVE  \E th : Turn(t, th) /\ Concludes(th)
    BY <1>2, <2>1 DEF Latest, Concludes
  <2> QED
    BY <1>3, <1>10, <2>1 DEF RetryLatestStep
<1>11. CASE ExecuteStep(t) \/ EngineReturns(t) \/ GatesReturn(t)
  BY <1>2, <1>11 DEF ExecuteStep, EngineReturns, GatesReturn
<1>12. CASE RecoverList(t)
  <2>1. Concludes([At("recovery", NoStep, "recover_check") EXCEPT !.proto = "blocked"])
    BY DEF Concludes, Resets, At
  <2> QED
    BY <1>3, <1>12, <2>1, EnterConcludes DEF RecoverList, Labels
<1>13. CASE RecoverCheck(t)
  BY <1>1, <1>13, WriteStatusConcludes, VerdictConcludes DEF RecoverCheck, Labels
<1> QED
  BY <1>4, <1>5, <1>6, <1>7, <1>8, <1>9, <1>10, <1>11, <1>12, <1>13 DEF Decide

LEMMA RequestConcludes ==
    ASSUME NoDirectRequest, NoCliRetry, NEW t \in Callers, Request(t)
    PROVE  \E th : Turn(t, th) /\ Concludes(th)
<1>0. t \in Threads
  BY DEF Threads
<1>1. CASE RetryLatest(t)
  <2> DEFINE th == [At("none", NoStep, "retry_latest") EXCEPT !.proto =
                      IF proto \in {"paused", "failed"} THEN "running" ELSE "keep"]
  <2>1. Turn(t, th)
    BY <1>1 DEF RetryLatest
  <2>2. Concludes(th)
    BY DEF Concludes, Resets, At
  <2> QED
    BY <2>1, <2>2
<1>2. CASE ApiStart(t) \/ ApiPause(t) \/ ApiResume(t) \/ ApiCancel(t)
           \/ CiFailure(t) \/ CliStart(t)
  BY <1>0, <1>2, WriteStatusConcludes
     DEF ApiStart, ApiPause, ApiResume, ApiCancel, CiFailure, CliStart
<1>3. CASE FlowSuccess(t) \/ CiSuccess(t) \/ RunNextStep(t) \/ Recover(t) \/ CliPlan(t)
           \/ CliPause(t) \/ CliResume(t) \/ CliCancel(t)
  BY <1>0, <1>3, EnterConcludes
     DEF FlowSuccess, CiSuccess, RunNextStep, Recover, CliPlan, CliPause, CliResume,
         CliCancel, Labels
<1>4. ~(\E s \in Steps : \/ CliRetry(t, s) \/ CliRunStep(t, s) \/ Execute(t, s)
                         \/ RunQa(t, s) \/ CliQa(t, s))
  BY DEF CliRetry, CliRunStep, Execute, RunQa, CliQa, Accept, DirectRequests,
         NoDirectRequest, NoCliRetry
<1> QED
  BY <1>1, <1>2, <1>3, <1>4 DEF Request

\* Nothing writes to a step any more once all have succeeded.
LEMMA NobodyWrites ==
    ASSUME TInv, HInv, KInv, CInv, Succeeded, NEW t \in Threads
    PROVE  ~WriteStep(t)
<1> SUFFICES ASSUME WriteStep(t)
             PROVE  FALSE
  OBVIOUS
<1>1. PICK w \in thread[t].rows : TRUE
  BY DEF WriteStep
<1>2. /\ w \in Steps /\ thread[t].at = "write"
      /\ step[w] \in Stopped \cup Active \cup {"pending"}
      /\ step[w] \in Stopped => thread[t].to = "pending"
  BY <1>1, WrittenOver DEF WriteStep
<1>3. step[w] = "timeout" /\ thread[t].to = "pending"
  BY <1>2 DEF Succeeded, Stopped, Active
<1> QED
  BY <1>1, <1>2, <1>3 DEF CInv, Concludes, Resets

LEMMA CInvNext ==
    ASSUME NoDirectRequest, NoCliRetry
    PROVE  TInv /\ HInv /\ KInv /\ CInv /\ [Next]_vars => CInv'
<1> SUFFICES ASSUME TInv, HInv, KInv, CInv, [Next]_vars
             PROVE  CInv'
  OBVIOUS
<1>1. ASSUME NEW t \in Threads, NEW th, Turn(t, th), Concludes(th), step' = step
      PROVE  \A u \in Threads : Concludes(thread[u])'
  <2>1. \A u \in Threads : thread'[u] = th \/ thread'[u] = thread[u]
    BY <1>1 DEF Turn, TInv, ThreadsSound
  <2> QED
    BY <1>1, <2>1 DEF CInv, Concludes, Succeeded
<1>2. ASSUME UNCHANGED <<proto, step>>, \A u \in Threads : Concludes(thread[u])'
      PROVE  CInv'
  BY <1>2 DEF CInv, Succeeded
<1>3. ASSUME NEW t \in Callers, Request(t)
      PROVE  CInv'
  <2>1. t \in Threads /\ UNCHANGED <<proto, step>>
    BY <1>3 DEF Request, rows, Threads
  <2>2. PICK th : Turn(t, th) /\ Concludes(th)
    BY <1>3, RequestConcludes
  <2> QED
    BY <1>1, <1>2, <2>1, <2>2
<1>4. ASSUME NEW w \in Workers, StartJob(w)
      PROVE  CInv'
  <2>1. w \in Threads /\ UNCHANGED <<proto, step>>
    BY <1>4 DEF StartJob, rows, Threads
  <2>2. PICK th : Turn(w, th) /\ Concludes(th)
    BY <1>4, <2>1, EnterConcludes DEF StartJob, Labels
  <2> QED
    BY <1>1, <1>2, <2>1, <2>2
<1>5. ASSUME NEW t \in Threads, Decide(t)
      PROVE  CInv'
  <2>1. UNCHANGED <<proto, step>> /\ Concludes(thread[t])
    BY <1>5 DEF Decide, rows, CInv
  <2>2. PICK th : Turn(t, th) /\ Concludes(th)
    BY <1>5, <2>1, DecideConcludes
  <2> QED
    BY <1>1, <1>2, <2>1, <2>2
<1>6. ASSUME NEW t \in Threads, SubmitJob(t) \/ NoSubmission(t) \/ GatesRaise(t) \/ Crash(t)
      PROVE  CInv'
  <2>1. UNCHANGED <<proto, step>> /\ Turn(t, Idle)
    BY <1>6 DEF SubmitJob, NoSubmission, GatesRaise, Crash, rows, Return
  <2> QED
    BY <1>1, <1>2, <2>1, IdleConcludes
\* What remains of a write, in the state after it.
<1>7. ASSUME NEW t \in Threads, NEW left, Advance(t, left), left.next \in Continuations,
             Concludes(left)'
      PROVE  Concludes(thread[t])'
  <2>1. thread'[t] \in {left, Idle, At(left.by, left.step, left.next)}
    BY <1>7 DEF Advance, Return, Turn, TInv, ThreadsSound
  <2>2. Concludes(Idle)' /\ Concludes(At(left.by, left.step, left.next))'
    BY <1>7 DEF Concludes, Resets, Idle, At, Continuations
  <2> QED
    BY <1>7, <2>1, <2>2
<1>8. ASSUME NEW t \in Threads, NEW left, Advance(t, left)
      PROVE  \A u \in Threads : u # t => thread'[u] = thread[u]
  BY <1>8 DEF Advance, Return, Turn, TInv, ThreadsSound
<1>9. ASSUME NEW t \in Threads, WriteProtocol(t)
      PROVE  CInv'
  <2>0. PICK left : left = [thread[t] EXCEPT !.proto = "keep"]
    OBVIOUS
  <2>1. step' = step /\ proto' = thread[t].proto /\ Advance(t, left) /\ thread[t].at = "write"
    BY <1>9, <2>0 DEF WriteProtocol
  <2>2. thread[t] \in ThreadState /\ Concludes(thread[t])
    BY DEF TInv, ThreadsSound, CInv
  <2>3. /\ left.at = "write" /\ left.proto = "keep" /\ left.rows = thread[t].rows
        /\ left.to = thread[t].to /\ left.next \in Continuations
    BY <2>0, <2>1, <2>2 DEF ThreadState
  <2>4. Concludes(left)'
    BY <2>1, <2>2, <2>3 DEF Concludes, Resets
  <2>5. \A u \in Threads : Concludes(thread[u])'
    BY <1>7, <1>8, <2>1, <2>3, <2>4 DEF CInv, Concludes, Succeeded
  <2> QED
    BY <2>1, <2>2, <2>5 DEF CInv, Concludes, Succeeded
<1>10. ASSUME NEW t \in Threads, WriteStep(t)
       PROVE  CInv'
  <2> DEFINE th == thread[t]
  <2>1. ~Succeeded
    BY <1>10, NobodyWrites
  <2>2. proto # "completed" /\ \A u \in Threads : thread[u].proto # "completed"
    BY <2>1 DEF CInv, Concludes
  <2>3. PICK w \in th.rows :
           /\ step' = [step EXCEPT ![w] = th.to]
           /\ Advance(t, [th EXCEPT !.rows = @ \ {w}])
           /\ proto' = proto
    BY <1>10 DEF WriteStep
  <2>4. PICK left : left = [th EXCEPT !.rows = @ \ {w}]
    OBVIOUS
  <2>5. /\ th \in ThreadState /\ th.at = "write" /\ w \in Steps /\ th.to # "cancelled"
        /\ Concludes(th) /\ Touches(th, w) /\ th.rows = {w}
    BY <1>10, <2>3 DEF WriteStep, TInv, ThreadsSound, ThreadState, KInv, CancelsNothing, CInv,
                       Touches, HInv, AllFit, Fits, Intends
  <2>6. /\ left.at = "write" /\ left.proto = th.proto /\ left.rows = {}
        /\ left.next \in Continuations
    BY <2>5, <2>4 DEF ThreadState
  <2>7. Concludes(left)'
    BY <2>2, <2>6 DEF Concludes
  <2>8. Concludes(thread[t])'
    BY <1>7, <2>3, <2>6, <2>7, <2>4
  <2>9. ASSUME NEW u \in Threads, u # t
        PROVE  Concludes(thread[u])'
    <3>1. thread'[u] = thread[u] /\ Concludes(thread[u]) /\ thread[u] \in ThreadState
      BY <1>8, <2>3, <2>9 DEF CInv, TInv, ThreadsSound
    <3>2. ASSUME Resets(thread[u]), NEW s \in thread[u].rows
          PROVE  step'[s] \in {"failed", "blocked"}
      <4>1. s \in Steps /\ Touches(thread[u], s)
        BY <3>1, <3>2 DEF ThreadState, Resets, Touches
      <4>2. s # w
        BY <2>5, <2>9, <4>1 DEF HInv, InOneHand
      <4> QED
        BY <2>3, <3>1, <3>2, <4>1, <4>2 DEF Concludes, TInv, RowsOK
    <3> QED
      BY <2>2, <3>1, <3>2 DEF Concludes
  <2> QED
    BY <2>2, <2>3, <2>8, <2>9 DEF CInv
<1>11. CASE UNCHANGED vars
  BY <1>11 DEF vars, CInv, Concludes, Succeeded
<1> QED
  BY <1>3, <1>4, <1>5, <1>6, <1>9, <1>10, <1>11 DEF Next, Progress

\* One dispatcher never completes a protocol run with a step left to run or a
\* failed one, although the verdict is written after the step runs were
\* listed, as long as nobody cancels or retries from the command line.
THEOREM CompletedOnlyWhenEnded ==
    ASSUME OneCaller, NoDirectRequest, NoCancelRequest, NoCliRetry
    PROVE  Spec => []CompletedIsSound
<1>1. Init => KInv /\ CInv
  BY IdleCancelsNothing, IdleConcludes DEF Init, KInv, CInv
<1>2. TInv /\ HInv /\ [Next]_vars => HInv'
  BY HInvNext
<1>3. TInv /\ HInv /\ KInv /\ [Next]_vars => KInv'
  BY KInvNext
<1>4. TInv /\ HInv /\ KInv /\ CInv /\ [Next]_vars => CInv'
  BY CInvNext
<1>5. CInv => CompletedIsSound
  BY DEF CInv, CompletedIsSound, Succeeded
<1> QED
  BY <1>1, <1>2, <1>3, <1>4, <1>5, TInvInit, TInvNext, HInvInit, PTL DEF Spec
=============================================================================
