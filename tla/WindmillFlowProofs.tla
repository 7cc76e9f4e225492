-------------------------- MODULE WindmillFlowProofs --------------------------
(***************************************************************************)
(* What WindmillFlow promises, for every number of workers, faults and     *)
(* cancellations.                                                          *)
(*                                                                         *)
(* For every plan that FlowGenerator makes, when no lock is left behind by *)
(* a failing statement: the modules of a flow are gone through in order,   *)
(* each pushed once, each branch counted once; therefore the jobs of a     *)
(* flow are served as JobService says; and with at most one fault a flow   *)
(* ends as its jobs did.                                                   *)
(***************************************************************************)
EXTENDS WindmillFlow, FiniteSetTheorems, TLAPS

-----------------------------------------------------------------------------
(* The plan.                                                               *)

LEMMA ParentIsFlow == ASSUME NEW j \in Jobs, j # Root PROVE Parent(j) \in Flows
<1>1. \E f \in Flows : \E i \in DOMAIN Plan[f] : j \in Plan[f][i]
  BY PlanAssumption
<1>2. \E f \in Flows : j \in Children(f)
  BY <1>1, PlanAssumption DEF Children, Last
<1> QED BY <1>2 DEF Parent

\* A job belongs to one module of one flow, and the root to none.
LEMMA OneModule ==
    ASSUME NEW f \in Flows, NEW i \in 1 .. Last(f), NEW j \in Plan[f][i]
    PROVE  /\ j \in Jobs \ {Root}
           /\ \A g \in Flows : \A k \in 1 .. Last(g) : j \in Plan[g][k] => g = f /\ k = i
<1>1. j \in Children(f)
  BY DEF Children
<1>2. j \in Jobs \ {Root}
  BY <1>1, PlanAssumption DEF Last
<1> QED BY <1>2, PlanAssumption DEF Last

-----------------------------------------------------------------------------
(* The inductive invariant.                                                *)

ModuleStatus == {"waiting", "progress", "success", "failure"}

Places == {"idle", "executing", "failing", "starting", "chaining", "reading",
           "updating", "unlocking", "judging", "finishing"}

WorkState ==
    [at : Places, job : Jobs \cup {NoJob}, flow : Flows \cup {NoJob},
     sub : Jobs \cup {NoJob}, ok : BOOLEAN, tries : Nat, seen : Nat,
     branchall : BOOLEAN, canceled : BOOLEAN]

\* A process that updates a flow knows it.  The root has no parent to report
\* to, and nobody reports it but as an error.
Sound(w) ==
    /\ w.at # "idle" => w.job \in Jobs
    /\ w.at = "executing" => w.job \in Leaves
    /\ w.at \notin {"idle", "executing", "failing"} => w.flow \in Flows
    /\ w.job = Root => w.at \in {"starting", "failing"} \/ w.tries >= 2

WorkSound == work \in [Process -> WorkState] /\ \A p \in Process : Sound(work[p])

RowsSound ==
    /\ queue \in [Jobs -> {"absent", "queued", "running"}]
    /\ outcome \in [Jobs -> Ended \cup {"none"}]
    /\ \A j \in Jobs : Queued(j) => outcome[j] = "none"

StatusSound ==
    /\ step \in [Flows -> Nat]
    /\ status \in [Flows -> UNION {[1 .. n -> ModuleStatus] : n \in Nat}]
    /\ \A f \in Flows : DOMAIN status[f] = 1 .. Last(f)

\* The jobs of a module that waits have not been pushed.
WaitingUntouched ==
    \A f \in Flows : \A i \in 1 .. Last(f) :
        status[f][i] = "waiting" => \A j \in Plan[f][i] : ~Pushed(j)

FInv == WorkSound /\ RowsSound /\ StatusSound /\ WaitingUntouched

\* Nothing in push_next_flow_job asks for it: who pushes a module is at the
\* flow's step, and the module still waits.  OInv, below, has it.
Timely ==
    \A p \in Process : work[p].at \in {"starting", "chaining"} =>
        /\ work[p].seen = step[work[p].flow]
        /\ status[work[p].flow][work[p].seen] = "waiting"

LEMMA InitFInv == Init => FInv
<1> SUFFICES ASSUME Init PROVE FInv
  OBVIOUS
<1>1. Idle \in WorkState /\ Sound(Idle)
  BY PlanAssumption DEF Idle, WorkState, Places, Sound
<1>2. WorkSound
  BY <1>1 DEF Init, WorkSound
<1>3. RowsSound
  BY DEF Init, RowsSound, Queued
<1>4. StatusSound
  <2>1. \A f \in Flows : Last(f) \in Nat
    BY PlanAssumption DEF Last
  <2> QED BY <2>1 DEF Init, StatusSound, ModuleStatus
<1>5. WaitingUntouched
  <2>1. \A j \in Jobs : ~Pushed(j)
    BY DEF Init, Pushed, Queued
  <2> QED BY <2>1, OneModule DEF WaitingUntouched
<1> QED BY <1>2, <1>3, <1>4, <1>5 DEF FInv

-----------------------------------------------------------------------------
(* What a step does to the jobs' rows.                                     *)

Ends(j, verdict) ==
    /\ Queued(j)
    /\ queue' = [queue EXCEPT ![j] = "absent"]
    /\ outcome' = [outcome EXCEPT ![j] = verdict]

Pulls(j) ==
    /\ queue[j] = "queued"
    /\ queue' = [queue EXCEPT ![j] = "running"]
    /\ outcome' = outcome

Requeues(j) ==
    /\ queue[j] = "running"
    /\ queue' = [queue EXCEPT ![j] = "queued"]
    /\ outcome' = outcome

Pushes(new) ==
    /\ \A j \in new : ~Pushed(j)
    /\ queue' = [j \in Jobs |-> IF j \in new THEN "queued" ELSE queue[j]]
    /\ outcome' = outcome

\* A step that pushes nothing.
QuietRows ==
    \/ UNCHANGED <<queue, outcome>>
    \/ \E j \in Jobs : Pulls(j) \/ Requeues(j) \/ \E verdict \in Ended : Ends(j, verdict)

LEMMA QuietRowsSound ==
    ASSUME RowsSound, QuietRows
    PROVE  RowsSound' /\ \A j \in Jobs : Pushed(j)' => Pushed(j)
<1> USE DEF RowsSound, Queued, Pushed, Ended
<1>1. CASE UNCHANGED <<queue, outcome>>
  BY <1>1
<1>2. ASSUME NEW j \in Jobs, Pulls(j) \/ Requeues(j)
      PROVE  RowsSound' /\ \A k \in Jobs : Pushed(k)' => Pushed(k)
  BY <1>2 DEF Pulls, Requeues
<1>3. ASSUME NEW j \in Jobs, NEW verdict \in Ended, Ends(j, verdict)
      PROVE  RowsSound' /\ \A k \in Jobs : Pushed(k)' => Pushed(k)
  BY <1>3 DEF Ends
<1> QED BY <1>1, <1>2, <1>3 DEF QuietRows

LEMMA PushesSound ==
    ASSUME RowsSound, NEW new \in SUBSET Jobs, Pushes(new)
    PROVE  RowsSound' /\ \A j \in Jobs \ new : Pushed(j)' => Pushed(j)
BY DEF RowsSound, Pushes, Queued, Pushed, Ended

\* Statuses are kept, or changed to one that is not waiting.
StatusKept ==
    /\ StatusSound'
    /\ \A f \in Flows : \A i \in 1 .. Last(f) :
        status'[f][i] = "waiting" => status[f][i] = "waiting"

LEMMA QuietWaiting ==
    ASSUME RowsSound, WaitingUntouched, QuietRows, StatusKept
    PROVE  WaitingUntouched'
BY QuietRowsSound, OneModule DEF WaitingUntouched, StatusKept

LEMMA SameStatus == ASSUME StatusSound, UNCHANGED <<step, status>> PROVE StatusKept
BY DEF StatusSound, StatusKept

LEMMA EndModuleKept ==
    ASSUME StatusSound, NEW f \in Flows, NEW i \in Nat, NEW ok \in BOOLEAN, EndModule(f, i, ok)
    PROVE  StatusKept
<1>1. step' \in [Flows -> Nat]
  BY DEF EndModule, StatusSound
<1>2. CASE status' = status
  BY <1>1, <1>2 DEF StatusSound, StatusKept
<1>3. CASE status' = [status EXCEPT ![f][i] = IF ok THEN "success" ELSE "failure"]
  <2> DEFINE new == [status[f] EXCEPT ![i] = IF ok THEN "success" ELSE "failure"]
  <2>1. PICK n \in Nat : status[f] \in [1 .. n -> ModuleStatus]
    BY DEF StatusSound
  <2>2. new \in [1 .. n -> ModuleStatus] /\ DOMAIN new = DOMAIN status[f]
    BY <2>1 DEF ModuleStatus
  <2>3. status' = [status EXCEPT ![f] = new]
    BY <1>3
  <2>4. StatusSound'
    BY <1>1, <2>2, <2>3 DEF StatusSound
  <2>5. \A k \in DOMAIN status[f] : new[k] = "waiting" => status[f][k] = "waiting"
    BY <2>1
  <2> QED BY <2>3, <2>4, <2>5 DEF StatusSound, StatusKept
<1> QED BY <1>2, <1>3 DEF EndModule

-----------------------------------------------------------------------------
(* What a step does to the processes.                                      *)

LEMMA GoesSound ==
    ASSUME WorkSound, NEW p \in Process, NEW w \in WorkState, Sound(w), Goes(p, w)
    PROVE  WorkSound'
BY DEF WorkSound, Goes

LEMMA GoesIdle ==
    ASSUME WorkSound, NEW p \in Process, Goes(p, Idle) PROVE WorkSound'
<1>1. Idle \in WorkState /\ Sound(Idle)
  BY PlanAssumption DEF Idle, WorkState, Places, Sound
<1> QED BY <1>1, GoesSound

LEMMA GoesFailing ==
    ASSUME WorkSound, NEW p \in Process, NEW j \in Jobs,
           Goes(p, [Idle EXCEPT !.at = "failing", !.job = j])
    PROVE  WorkSound'
<1> DEFINE w == [Idle EXCEPT !.at = "failing", !.job = j]
<1>1. w \in WorkState /\ Sound(w)
  BY DEF Idle, WorkState, Places, Sound
<1> QED BY <1>1, GoesSound

LEMMA ReportsSound ==
    ASSUME WorkSound, NEW p \in Process, NEW j \in Jobs, NEW f \in Flows,
           NEW sub \in Jobs \cup {NoJob}, NEW ok \in BOOLEAN, NEW tries \in Nat,
           j = Root => tries >= 2, Reports(p, j, f, sub, ok, tries)
    PROVE  WorkSound'
<1> DEFINE w == [Idle EXCEPT !.at = "reading", !.job = j, !.flow = f,
                             !.sub = sub, !.ok = ok, !.tries = tries]
<1>1. w \in WorkState /\ Sound(w)
  BY DEF Idle, WorkState, Places, Sound
<1> QED BY <1>1, GoesSound DEF Reports

LEMMA SameWork == ASSUME WorkSound, work' = work PROVE WorkSound'
BY DEF WorkSound

LEMMA CompleteQuiet ==
    ASSUME NEW j \in Jobs, NEW verdict \in Ended, Queued(j), NEW done, Complete(j, verdict, done)
    PROVE  QuietRows
BY DEF Complete, QuietRows, Ends

LEMMA CompleteIfQueuedQuiet ==
    ASSUME NEW j \in Jobs, NEW verdict \in Ended, CompleteIfQueued(j, verdict)
    PROVE  QuietRows
BY CompleteQuiet DEF CompleteIfQueued, QuietRows, row

\* The place of an update, and what follows from it.
Updating == {"reading", "updating", "unlocking", "judging", "finishing"}

LEMMA UpdatingSound ==
    ASSUME WorkSound, NEW p \in Process, work[p].at \in Updating \cup {"chaining", "starting"}
    PROVE  /\ work[p] \in WorkState
           /\ work[p].job \in Jobs /\ work[p].flow \in Flows /\ work[p].flow \in Jobs
           /\ work[p].job = Root => work[p].at = "starting" \/ work[p].tries >= 2
BY PlanAssumption DEF WorkSound, Sound, Updating

LEMMA RecoversQuiet ==
    ASSUME FInv, NEW p \in Process, work[p].at \in Updating, Recovers(p)
    PROVE  WorkSound' /\ QuietRows
<1> DEFINE w == work[p]
<1>1. /\ w \in WorkState /\ w.job \in Jobs /\ w.flow \in Flows /\ WorkSound
      /\ w.job = Root => w.tries >= 2
  BY UpdatingSound DEF FInv, Updating
<1>2. w.job # Root => Parent(w.job) \in Flows /\ Parent(w.job) \in Jobs
  BY <1>1, ParentIsFlow, PlanAssumption
<1>3. CASE w.tries = 3
  <2>1. WorkSound'
    BY <1>1, <1>3, GoesIdle DEF Recovers
  <2>2. QuietRows
    BY <1>1, <1>2, <1>3, CompleteIfQueuedQuiet DEF Recovers, QuietRows, row, Ended
  <2> QED BY <2>1, <2>2
<1>4. CASE w.tries = 1
  <2>1. Parent(w.job) \in Flows
    BY <1>1, <1>2, <1>4
  <2>2. Reports(p, w.job, Parent(w.job), w.job, FALSE, 2)
    <3>1. w.tries # 3
      BY <1>4
    <3> QED BY <1>4, <3>1, Zenon DEF Recovers
  <2>3. WorkSound'
    <3>1. w.job \in Jobs \cup {NoJob} /\ 2 \in Nat /\ 2 >= 2
      BY <1>1
    <3> HIDE DEF w
    <3> QED BY <1>1, <2>1, <2>2, <3>1, ReportsSound, Zenon
  <2> QED BY <1>4, <2>3 DEF Recovers, QuietRows, row
<1>5. CASE w.tries # 1 /\ w.tries # 3
  <2>1. w.sub \in Jobs \cup {NoJob} /\ w.tries + 1 \in Nat
        /\ (w.job = Root => w.tries + 1 >= 2)
    BY <1>1 DEF WorkState
  <2>2. WorkSound'
    BY <1>1, <1>5, <2>1, ReportsSound DEF Recovers
  <2> QED BY <1>5, <2>2 DEF Recovers, QuietRows, row
<1> QED BY <1>3, <1>4, <1>5

LEMMA ContinuesSound ==
    ASSUME WorkSound, NEW p \in Process, work[p].at \in {"updating", "judging"},
           NEW ok \in BOOLEAN, NEW next \in Nat, Continues(p, ok, next)
    PROVE  WorkSound'
<1> DEFINE w == work[p]
           Chain(o) == [w EXCEPT !.at = "chaining", !.ok = o, !.seen = next,
                                 !.branchall = FALSE]
           Finish(o, c) == [w EXCEPT !.at = "finishing", !.canceled = c, !.seen = 0,
                                     !.branchall = FALSE, !.ok = o]
<1>1. w \in WorkState /\ w.job \in Jobs /\ w.flow \in Flows /\ (w.job = Root => w.tries >= 2)
  BY UpdatingSound DEF Updating
<1>2. Chain(ok) \in WorkState /\ Sound(Chain(ok))
  BY <1>1 DEF WorkState, Places, Sound
<1>3. ASSUME NEW o \in BOOLEAN, NEW c \in BOOLEAN
      PROVE  Finish(o, c) \in WorkState /\ Sound(Finish(o, c))
  BY <1>1 DEF WorkState, Places, Sound
<1>4. Goes(p, Chain(ok)) \/ Goes(p, Finish(ok /\ w.seen <= Last(w.flow), Canceled(w.flow)))
  BY DEF Continues
<1>5. Canceled(w.flow) \in BOOLEAN /\ (ok /\ w.seen <= Last(w.flow)) \in BOOLEAN
  BY DEF Canceled
<1> HIDE DEF Chain, Finish
<1>6. /\ Finish(ok /\ w.seen <= Last(w.flow), Canceled(w.flow)) \in WorkState
      /\ Sound(Finish(ok /\ w.seen <= Last(w.flow), Canceled(w.flow)))
  BY <1>3, <1>5, Zenon
<1> QED BY <1>2, <1>4, <1>6, GoesSound, Zenon

-----------------------------------------------------------------------------
(* The steps that push nothing.                                            *)

Quiet == QuietRows /\ StatusKept /\ WorkSound'

\* A step that leaves the rows and the modules alone.
LEMMA OnlyWork ==
    ASSUME FInv, UNCHANGED <<queue, outcome, step, status>>, WorkSound' PROVE Quiet
BY SameStatus DEF FInv, Quiet, QuietRows

LEMMA PullQuiet ==
    ASSUME FInv, NEW p \in Workers, NEW j \in Jobs, Pull(p, j) PROVE Quiet
<1>1. QuietRows
  BY DEF Pull, QuietRows, Pulls
<1>2. StatusKept
  BY SameStatus DEF Pull, flows, FInv
<1>3. ASSUME NEW w, w \in WorkState /\ Sound(w), Goes(p, w) PROVE WorkSound'
  BY <1>3, GoesSound DEF FInv, Process
<1>4. /\ [Idle EXCEPT !.at = "failing", !.job = j] \in WorkState
      /\ Sound([Idle EXCEPT !.at = "failing", !.job = j])
  BY DEF Idle, WorkState, Places, Sound
<1>5. ASSUME j \in Leaves
      PROVE  /\ [Idle EXCEPT !.at = "executing", !.job = j] \in WorkState
             /\ Sound([Idle EXCEPT !.at = "executing", !.job = j])
  BY <1>5, PlanAssumption DEF Idle, WorkState, Places, Sound, Leaves
<1>6. ASSUME j \in Flows
      PROVE  /\ [Idle EXCEPT !.at = "starting", !.job = j, !.flow = j, !.seen = step[j]]
                    \in WorkState
             /\ Sound([Idle EXCEPT !.at = "starting", !.job = j, !.flow = j, !.seen = step[j]])
  <2>1. step[j] \in Nat
    BY <1>6 DEF FInv, StatusSound
  <2> QED BY <1>6, <2>1 DEF Idle, WorkState, Places, Sound
<1>7. WorkSound'
  BY <1>3, <1>4, <1>5, <1>6 DEF Pull
<1> QED BY <1>1, <1>2, <1>7 DEF Quiet

LEMMA ExecuteQuiet ==
    ASSUME FInv, NEW p \in Workers, Execute(p) PROVE Quiet
<1> DEFINE j == work[p].job
<1>1. p \in Process /\ WorkSound /\ StatusKept
  BY SameStatus DEF Process, FInv, Execute, Poll, ChildEnds, flows
<1>2. CASE Poll(p)
  BY <1>1, <1>2, GoesIdle DEF Poll, Quiet, QuietRows, row
<1>3. ASSUME NEW verdict \in Ended, ChildEnds(p, verdict) PROVE Quiet
  <2>1. j \in Jobs /\ j # Root /\ j \in Jobs \cup {NoJob}
    BY <1>1, <1>3, PlanAssumption DEF ChildEnds, At, WorkSound, Sound, Leaves
  <2>2. Parent(j) \in Flows
    BY <2>1, ParentIsFlow
  <2>3. CASE Queued(j)
    <3>1. Complete(j, verdict, FALSE) /\ Reports(p, j, Parent(j), j, verdict = "success", 0)
      BY <1>3, <2>3 DEF ChildEnds
    <3>2. QuietRows
      BY <2>1, <2>3, <3>1, CompleteQuiet
    <3>3. (verdict = "success") \in BOOLEAN /\ 0 \in Nat
      OBVIOUS
    <3>4. WorkSound'
      BY <1>1, <2>1, <2>2, <3>1, <3>3, ReportsSound, Zenon
    <3> QED BY <1>1, <3>2, <3>4 DEF Quiet
  <2>4. CASE ~Queued(j)
    <3>1. Reports(p, j, Parent(j), j, FALSE, 2) /\ UNCHANGED <<row, signs>>
      BY <1>3, <2>4 DEF ChildEnds
    <3>2. 2 \in Nat
      OBVIOUS
    <3>3. WorkSound'
      BY <1>1, <2>1, <2>2, <3>1, <3>2, ReportsSound, Zenon
    <3> QED BY <1>1, <3>1, <3>3 DEF Quiet, QuietRows, row
  <2> QED BY <2>3, <2>4
<1> QED BY <1>2, <1>3 DEF Execute

LEMMA FailJobQuiet ==
    ASSUME FInv, NEW p \in Process, FailJob(p) PROVE Quiet
<1> DEFINE j == work[p].job
<1>1. WorkSound /\ j \in Jobs /\ j \in Jobs \cup {NoJob} /\ StatusKept
  BY SameStatus DEF FailJob, At, FInv, WorkSound, Sound, flows
<1>2. 2 \in Nat /\ 2 >= 2 /\ NoJob \in Jobs \cup {NoJob}
  OBVIOUS
<1>3. CASE j = Root
  <2>1. Reports(p, j, j, NoJob, FALSE, 2) /\ UNCHANGED <<row, signs>>
    BY <1>3 DEF FailJob
  <2>2. j \in Flows
    BY <1>3, PlanAssumption
  <2>3. WorkSound'
    BY <1>1, <1>2, <2>1, <2>2, ReportsSound, Zenon
  <2> QED BY <1>1, <2>1, <2>3 DEF Quiet, QuietRows, row
<1>4. CASE j # Root
  <2>1. Reports(p, j, Parent(j), j, FALSE, 2) /\ CompleteIfQueued(j, "failure")
    BY <1>4 DEF FailJob
  <2>2. Parent(j) \in Flows
    BY <1>1, <1>4, ParentIsFlow
  <2>3. WorkSound'
    BY <1>1, <1>2, <2>1, <2>2, ReportsSound, Zenon
  <2>4. QuietRows
    BY <1>1, <2>1, CompleteIfQueuedQuiet DEF Ended
  <2> QED BY <1>1, <2>3, <2>4 DEF Quiet
<1> QED BY <1>3, <1>4

\* The steps of an update that change neither rows nor modules.
LEMMA UpdatingQuiet ==
    ASSUME FInv, NEW p \in Process,
           ReadStatus(p) \/ CountBranch(p) \/ Unlock(p) \/ UnlockAll(p)
    PROVE  Quiet
<1> DEFINE w == work[p]
<1>1. WorkSound /\ w \in WorkState /\ w.job \in Jobs /\ w.flow \in Flows
      /\ (w.job = Root => w.tries >= 2)
  BY UpdatingSound DEF ReadStatus, CountBranch, Unlock, UnlockAll, At, FInv, Updating
<1>2. UNCHANGED <<queue, outcome, step, status>>
  BY DEF ReadStatus, CountBranch, Unlock, UnlockAll, row, flows
<1>3. ASSUME NEW place \in {"unlocking", "judging"}, Goes(p, [w EXCEPT !.at = place])
      PROVE  WorkSound'
  <2>1. [w EXCEPT !.at = place] \in WorkState /\ Sound([w EXCEPT !.at = place])
    BY <1>1 DEF WorkState, Places, Sound
  <2> QED BY <1>1, <1>3, <2>1, GoesSound
<1>4. CASE ReadStatus(p)
  <2> DEFINE R(i, b) == [w EXCEPT !.at = "updating", !.seen = i, !.branchall = b]
             both == Parallel(w.flow, step[w.flow])
                        /\ status[w.flow][step[w.flow]] = "progress"
  <2>1. step[w.flow] \in Nat /\ both \in BOOLEAN
    BY <1>1 DEF FInv, StatusSound, Parallel
  <2>2. ASSUME NEW i \in Nat, NEW b \in BOOLEAN PROVE R(i, b) \in WorkState /\ Sound(R(i, b))
    BY <1>1 DEF WorkState, Places, Sound
  <2>3. Goes(p, R(step[w.flow], both))
    BY <1>4 DEF ReadStatus
  <2> HIDE DEF R, both
  <2>4. R(step[w.flow], both) \in WorkState /\ Sound(R(step[w.flow], both))
    BY <2>1, <2>2, Zenon
  <2>5. WorkSound'
    BY <1>1, <2>3, <2>4, GoesSound, Zenon
  <2> QED BY <1>2, <2>5, OnlyWork
<1>5. CASE Unlock(p)
  BY <1>1, <1>2, <1>5, GoesIdle, OnlyWork DEF Unlock
<1>6. CASE CountBranch(p) \/ UnlockAll(p)
  BY <1>2, <1>3, <1>6, OnlyWork DEF CountBranch, UnlockAll
<1> QED BY <1>4, <1>5, <1>6

LEMMA EndModuleQuiet ==
    ASSUME FInv, NEW p \in Process, JudgeBranches(p) \/ EndStep(p) PROVE Quiet
<1> DEFINE w == work[p]
<1>1. WorkSound /\ StatusSound /\ w.flow \in Flows /\ w.seen \in Nat /\ w.ok \in BOOLEAN
      /\ w.at \in {"updating", "judging"}
  BY UpdatingSound DEF JudgeBranches, EndStep, At, FInv, Updating, WorkState
<1>2. PICK ok \in BOOLEAN : EndModule(w.flow, w.seen, ok) /\ Continues(p, ok, w.seen + 1)
  <2>1. Judged(w.flow, w.seen) \in BOOLEAN
    BY DEF Judged
  <2> HIDE DEF w
  <2> QED BY <1>1, <2>1 DEF JudgeBranches, EndStep, w
<1>3. StatusKept
  BY <1>1, <1>2, EndModuleKept
<1>4. WorkSound'
  BY <1>1, <1>2, ContinuesSound
<1>5. QuietRows
  BY DEF JudgeBranches, EndStep, row, QuietRows
<1> QED BY <1>3, <1>4, <1>5 DEF Quiet

\* A flow that is completed, and what its parent is told.
LEMMA FlowEnds ==
    ASSUME FInv, NEW p \in Process, work[p].at \in {"finishing", "chaining"},
           NEW verdict \in Ended,
           Queued(work[p].flow) => Complete(work[p].flow, verdict, TRUE),
           ~Queued(work[p].flow) => UNCHANGED <<row, signs>>,
           IF work[p].flow = Root THEN Goes(p, Idle)
           ELSE Reports(p, work[p].job, Parent(work[p].flow), work[p].flow, work[p].ok,
                        IF work[p].tries < 2 THEN 0 ELSE 2)
    PROVE  QuietRows /\ WorkSound'
<1> DEFINE w == work[p]
           tries == IF w.tries < 2 THEN 0 ELSE 2
<1>1. /\ WorkSound /\ w \in WorkState /\ w.job \in Jobs /\ w.flow \in Flows /\ w.flow \in Jobs
      /\ w.job = Root => w.tries >= 2
  BY UpdatingSound DEF FInv, Updating
<1>2. QuietRows
  <2>1. CASE Queued(w.flow)
    BY <1>1, <2>1, CompleteQuiet
  <2>2. CASE ~Queued(w.flow)
    BY <2>2 DEF QuietRows, row
  <2> QED BY <2>1, <2>2
<1>3. CASE w.flow = Root
  BY <1>1, <1>2, <1>3, GoesIdle
<1>4. CASE w.flow # Root
  <2>1. Reports(p, w.job, Parent(w.flow), w.flow, w.ok, tries)
    BY <1>4
  <2>2. Parent(w.flow) \in Flows /\ w.flow \in Jobs \cup {NoJob} /\ w.ok \in BOOLEAN
    BY <1>1, <1>4, ParentIsFlow DEF WorkState
  <2>3. tries \in Nat /\ (w.job = Root => tries >= 2)
    BY <1>1 DEF WorkState
  <2> HIDE DEF w, tries
  <2>4. w.job \in Jobs /\ WorkSound
    BY <1>1
  <2>5. WorkSound'
    BY <2>1, <2>2, <2>3, <2>4, ReportsSound, Zenon
  <2> QED BY <1>2, <2>5
<1> QED BY <1>3, <1>4

LEMMA FinishFlowQuiet ==
    ASSUME FInv, NEW p \in Process, FinishFlow(p) \/ FlowIsGone(p) PROVE Quiet
<1> DEFINE w == work[p]
<1>1. StatusKept
  BY SameStatus DEF FinishFlow, FlowIsGone, flows, FInv
<1>2. CASE FinishFlow(p)
  <2>1. PICK verdict \in Ended : Complete(w.flow, verdict, TRUE)
    BY <1>2 DEF FinishFlow, Ended
  <2>2. QuietRows /\ WorkSound'
    BY <1>2, <2>1, FlowEnds DEF FinishFlow, At
  <2> QED BY <1>1, <2>2 DEF Quiet
<1>3. CASE FlowIsGone(p)
  BY <1>1, <1>3, RecoversQuiet DEF FlowIsGone, At, Updating, Quiet
<1> QED BY <1>2, <1>3

LEMMA StatementFailsQuiet ==
    ASSUME FInv, NEW p \in Process, StatementFails(p) PROVE Quiet
<1> DEFINE w == work[p]
<1>1. StatusKept /\ WorkSound
  BY SameStatus DEF StatementFails, flows, FInv
<1>2. CASE w.at \in Updating /\ Recovers(p)
  BY <1>1, <1>2, RecoversQuiet DEF Quiet
<1>3. CASE /\ w.at = "starting"
           /\ Goes(p, [Idle EXCEPT !.at = "failing", !.job = w.job])
           /\ UNCHANGED <<row, signs>>
  <2>1. w.job \in Jobs
    BY <1>1, <1>3, UpdatingSound
  <2>2. WorkSound'
    BY <1>1, <1>3, <2>1, GoesFailing
  <2> QED BY <1>1, <1>3, <2>2 DEF Quiet, QuietRows, row
<1>4. CASE /\ w.at = "chaining"
           /\ IF Queued(w.flow) THEN Complete(w.flow, "failure", TRUE)
              ELSE UNCHANGED <<row, signs>>
           /\ IF w.flow = Root THEN Goes(p, Idle)
              ELSE Reports(p, w.job, Parent(w.flow), w.flow, w.ok,
                           IF w.tries < 2 THEN 0 ELSE 2)
  <2>1. "failure" \in Ended
    BY DEF Ended
  <2>2. QuietRows /\ WorkSound'
    BY <1>4, <2>1, FlowEnds
  <2> QED BY <1>1, <2>2 DEF Quiet
<1> QED BY <1>2, <1>3, <1>4 DEF StatementFails, Updating

LEMMA CrashQuiet ==
    ASSUME FInv, NEW p \in Process, Crash(p) PROVE Quiet
BY GoesIdle, OnlyWork DEF Crash, FInv, row, flows

LEMMA WatchQuiet == ASSUME FInv, Watch \/ Cancel PROVE Quiet
<1>1. ASSUME NEW j \in Jobs, RestartJob(j) PROVE Quiet
  BY <1>1, SameStatus, SameWork DEF RestartJob, Requeues, QuietRows, Quiet, FInv, flows
<1>2. ASSUME NEW f \in Flows, RestartFlow(f) PROVE Quiet
  BY <1>2, SameStatus, SameWork, PlanAssumption
     DEF RestartFlow, Zombie, Requeues, QuietRows, Quiet, FInv, flows
<1>3. ASSUME NEW j \in Jobs, GiveUpJob(j) PROVE Quiet
  <2>1. Monitor \in Process
    BY DEF Process
  <2> QED BY <1>3, <2>1, GoesFailing, OnlyWork DEF GiveUpJob, FInv, row, flows
<1>4. ASSUME NEW j \in Jobs, Kill(j) PROVE Quiet
  <2>1. QuietRows
    BY <1>4, CompleteIfQueuedQuiet DEF Kill, Ended
  <2> QED BY <1>4, <2>1, SameStatus, SameWork DEF Kill, Quiet, FInv, flows
<1>5. ASSUME \/ Cancel \/ \E f \in Flows : CancelFlow(f)
             \/ \E j \in Jobs : CancelBranches(j)
      PROVE  Quiet
  BY <1>5, SameWork, OnlyWork DEF Cancel, CancelFlow, CancelBranches, FInv, row, flows
<1> QED BY <1>1, <1>2, <1>3, <1>4, <1>5 DEF Watch

-----------------------------------------------------------------------------
(* The steps that push.                                                    *)

LEMMA PushNextSound ==
    ASSUME FInv, Timely, NEW p \in Process, PushNext(p)
    PROVE  FInv' /\ \E new \in SUBSET Jobs : Pushes(new)
<1> DEFINE f == work[p].flow
           i == work[p].seen
           new == Plan[f][i]
<1>1. WorkSound /\ RowsSound /\ StatusSound /\ WaitingUntouched
  BY DEF FInv
<1>0. i = step[f]
  BY DEF PushNext, At, Timely
<1>2. f \in Flows /\ i \in 1 .. Last(f) /\ status[f][i] = "waiting"
  BY <1>1, UpdatingSound DEF PushNext, At, Timely
<1>3. new \in SUBSET Jobs
  BY <1>2, OneModule
<1>4. Pushes(new)
  <2>1. \A j \in new : ~Pushed(j)
    BY <1>1, <1>2 DEF WaitingUntouched
  <2> QED BY <2>1 DEF PushNext, Pushes
<1>5. RowsSound' /\ \A j \in Jobs \ new : Pushed(j)' => Pushed(j)
  BY <1>1, <1>3, <1>4, PushesSound
<1>6. WorkSound'
  BY <1>1, GoesIdle DEF PushNext
<1> DEFINE modules == [status[f] EXCEPT ![i] = "progress"]
<1>7. status' = [status EXCEPT ![f] = modules] /\ step' = step
  <2>1. status' = [status EXCEPT ![f] = modules] /\ step' = [step EXCEPT ![f] = i]
    BY DEF PushNext
  <2>2. PICK g : g = f
    OBVIOUS
  <2>3. PICK s : s = [step EXCEPT ![g] = step[g]]
    OBVIOUS
  <2>4. s \in [Flows -> Nat] /\ step \in [Flows -> Nat] /\ \A x \in Flows : s[x] = step[x]
    BY <1>0, <1>1, <1>2, <2>2, <2>3 DEF StatusSound
  <2>5. s = step
    BY <2>4
  <2> QED BY <1>0, <2>1, <2>2, <2>3, <2>5
<1>8. StatusSound'
  <2>1. PICK n \in Nat : status[f] \in [1 .. n -> ModuleStatus]
    BY <1>1, <1>2 DEF StatusSound
  <2>2. modules \in [1 .. n -> ModuleStatus] /\ DOMAIN modules = DOMAIN status[f]
    BY <2>1 DEF ModuleStatus
  <2> QED BY <1>1, <1>2, <1>7, <2>2 DEF StatusSound
<1>9. ASSUME NEW g \in Flows, NEW k \in 1 .. Last(g), status'[g][k] = "waiting",
             NEW j \in Plan[g][k]
      PROVE  ~Pushed(j)'
  <2>1. status[g][k] = "waiting" /\ ~(g = f /\ k = i)
    BY <1>1, <1>2, <1>7, <1>9 DEF StatusSound
  <2>2. j \in Jobs /\ j \notin new
    BY <1>2, <2>1, OneModule
  <2>3. ~Pushed(j)
    BY <1>1, <2>1 DEF WaitingUntouched
  <2> QED BY <1>5, <2>2, <2>3
<1>10. WaitingUntouched'
  BY <1>9 DEF WaitingUntouched
<1> QED BY <1>3, <1>4, <1>5, <1>6, <1>8, <1>10 DEF FInv

LEMMA SubmitSound ==
    ASSUME FInv, Submit PROVE FInv' /\ \E new \in SUBSET Jobs : Pushes(new)
<1>1. WorkSound /\ RowsSound /\ StatusSound /\ WaitingUntouched
  BY DEF FInv
<1>2. {Root} \in SUBSET Jobs /\ Root \in Jobs
  BY PlanAssumption
<1>3. Pushes({Root})
  BY <1>1, <1>2 DEF Submit, Pushes, Pushed, Queued, RowsSound
<1>4. RowsSound' /\ \A j \in Jobs \ {Root} : Pushed(j)' => Pushed(j)
  BY <1>1, <1>2, <1>3, PushesSound
<1>5. WorkSound' /\ StatusSound'
  BY <1>1, SameWork, SameStatus DEF Submit, flows, StatusKept
<1>6. WaitingUntouched'
  BY <1>1, <1>4, OneModule DEF WaitingUntouched, Submit, flows
<1> QED BY <1>2, <1>3, <1>4, <1>5, <1>6 DEF FInv

-----------------------------------------------------------------------------
(* The specification.                                                      *)

LEMMA NextRows ==
    ASSUME FInv, Timely, Next PROVE Quiet \/ (FInv' /\ \E new \in SUBSET Jobs : Pushes(new))
<1> DEFINE Goal == Quiet \/ (FInv' /\ \E new \in SUBSET Jobs : Pushes(new))
<1>1. ASSUME NEW p \in Process, Update(p) PROVE Goal
  BY <1>1, FailJobQuiet, UpdatingQuiet, EndModuleQuiet, PushNextSound, FinishFlowQuiet
     DEF Update
<1>2. ASSUME NEW p \in Process, StatementFails(p) \/ Crash(p) PROVE Goal
  BY <1>2, StatementFailsQuiet, CrashQuiet
<1>3. ASSUME NEW p \in Workers, Execute(p) \/ \E j \in Jobs : Pull(p, j) PROVE Goal
  BY <1>3, ExecuteQuiet, PullQuiet
<1>4. CASE Submit
  BY <1>4, SubmitSound
<1>5. CASE Watch \/ Cancel
  BY <1>5, WatchQuiet
<1> QED BY <1>1, <1>2, <1>3, <1>4, <1>5 DEF Next

LEMMA NextFInv == FInv /\ Timely /\ [Next]_vars => FInv'
<1> SUFFICES ASSUME FInv, Timely, [Next]_vars PROVE FInv'
  OBVIOUS
<1>1. CASE Quiet
  <2>1. WaitingUntouched'
    BY <1>1, QuietWaiting DEF FInv, Quiet
  <2>2. RowsSound'
    BY <1>1, QuietRowsSound DEF FInv, Quiet
  <2> QED BY <1>1, <2>1, <2>2 DEF FInv, Quiet, StatusKept
<1>2. CASE UNCHANGED vars
  <2>1. Quiet
    BY <1>2, SameWork, OnlyWork DEF vars, row, flows, FInv
  <2> QED BY <1>1, <2>1
<1> QED BY <1>1, <1>2, NextRows

\* What a query of each job's status answers.
Answer == [j \in Jobs |-> IF outcome[j] = "none" THEN queue[j] ELSE outcome[j]]

LEMMA EndsServes ==
    ASSUME RowsSound, NEW j \in Jobs, NEW verdict \in Ended, Ends(j, verdict)
    PROVE  Service!End(j, verdict)
<1> USE DEF RowsSound, Ends, Ended, Queued
<1>1. Answer[j] \in {"queued", "running"}
  BY DEF Answer
<1>2. Answer' = [Answer EXCEPT ![j] = verdict]
  BY DEF Answer
<1> QED BY <1>1, <1>2 DEF Answer, Service!End, Service!Becomes

LEMMA PullsServes ==
    ASSUME RowsSound, NEW j \in Jobs, Pulls(j) PROVE Service!Start(j)
<1> USE DEF RowsSound, Pulls, Ended, Queued
<1>1. Answer[j] = "queued"
  BY DEF Answer
<1>2. Answer' = [Answer EXCEPT ![j] = "running"]
  BY DEF Answer
<1> QED BY <1>1, <1>2 DEF Answer, Service!Start, Service!Becomes

LEMMA RequeuesServes ==
    ASSUME RowsSound, NEW j \in Jobs, Requeues(j) PROVE Service!Requeue({j})
BY DEF RowsSound, Requeues, Queued, Service!Requeue

LEMMA PushesServes ==
    ASSUME RowsSound, NEW new \in SUBSET Jobs, Pushes(new) PROVE Service!Submit(new)
BY DEF RowsSound, Pushes, Pushed, Queued, Service!Submit

LEMMA NextServes == ASSUME FInv, Timely, [Next]_vars PROVE [Service!Next]_Answer
<1> DEFINE Goal == Service!Next \/ Answer' = Answer
<1>1. RowsSound
  BY DEF FInv
<1>2. CASE UNCHANGED <<queue, outcome>>
  BY <1>2 DEF Answer
<1>3. ASSUME NEW new \in SUBSET Jobs, Pushes(new) PROVE Goal
  BY <1>1, <1>3, PushesServes DEF Service!Next
<1>4. ASSUME NEW j \in Jobs, Pulls(j) PROVE Goal
  BY <1>1, <1>4, PullsServes DEF Service!Next
<1>5. ASSUME NEW j \in Jobs, Requeues(j) PROVE Goal
  BY <1>1, <1>5, RequeuesServes DEF Service!Next
<1>6. ASSUME NEW j \in Jobs, NEW verdict \in Ended, Ends(j, verdict) PROVE Goal
  BY <1>1, <1>6, EndsServes DEF Service!Next, Service!Ended, Ended
<1>7. CASE QuietRows
  BY <1>2, <1>4, <1>5, <1>6, <1>7 DEF QuietRows
<1>8. CASE UNCHANGED vars
  BY <1>2, <1>8 DEF vars, row
<1>9. Goal
  BY <1>3, <1>7, <1>8, NextRows DEF Quiet
<1> QED BY <1>9

-----------------------------------------------------------------------------
(* The order of the modules.                                               *)
(*                                                                         *)
(* A job that was pushed owes its flow an end.  As long as the end is      *)
(* owed, the flow is at the job's module and has not counted it, and       *)
(* nobody is reporting it; who takes the job over pays the debt by         *)
(* reporting it, and who is interrupted reports it again.  So two          *)
(* processes update the same flow only for two branches of a module in     *)
(* progress, and the one that counts the last branch is alone with the     *)
(* flow: it may judge the module, push the next one or complete the flow.  *)

\* What FlowGenerator makes: a module of one job is a step of its own.
PlanIsGenerated ==
    \A f \in Flows : \A i \in 1 .. Last(f) :
        /\ IsFiniteSet(Plan[f][i])
        /\ ~Parallel(f, i) => Plan[f][i] \subseteq Leaves

\* No lock is left behind by a failing statement.
Orderly == "unlocking" \notin FailsAt

LEMMA ParentOf ==
    ASSUME NEW f \in Flows, NEW i \in 1 .. Last(f), NEW j \in Plan[f][i]
    PROVE  Parent(j) = f
<1>1. j # Root /\ j \in Children(f)
  BY OneModule DEF Children
<1>2. ASSUME NEW g \in Flows, j \in Children(g) PROVE g = f
  BY <1>2, OneModule DEF Children
<1> QED BY <1>1, <1>2 DEF Parent

\* Two different jobs of a set that has one more than those counted.
LEMMA LastOne ==
    ASSUME NEW S, IsFiniteSet(S), NEW R, Cardinality(S \cap R) + 1 = Cardinality(S),
           NEW a \in S \ R, NEW b \in S \ R
    PROVE  a = b
<1>1. S \cap R \subseteq (S \ {a}) \ {b}
  OBVIOUS
<1> SUFFICES ASSUME a # b PROVE FALSE
  OBVIOUS
<1>2. IsFiniteSet(S \ {a}) /\ Cardinality(S \ {a}) = Cardinality(S) - 1
  BY FS_RemoveElement
<1>3. b \in S \ {a}
  OBVIOUS
<1>4. /\ IsFiniteSet((S \ {a}) \ {b})
      /\ Cardinality((S \ {a}) \ {b}) = Cardinality(S \ {a}) - 1
  BY <1>2, <1>3, FS_RemoveElement
<1>5. Cardinality(S \cap R) <= Cardinality((S \ {a}) \ {b})
  BY <1>1, <1>4, FS_Subset
<1>6. Cardinality(S) \in Nat /\ Cardinality(S \cap R) \in Nat
  BY FS_CardinalityType, FS_Subset
<1> QED BY <1>2, <1>4, <1>5, <1>6

LEMMA OnlyOne ==
    ASSUME NEW S, IsFiniteSet(S), Cardinality(S) <= 1, NEW a \in S, NEW b \in S
    PROVE  a = b
<1> SUFFICES ASSUME a # b PROVE FALSE
  OBVIOUS
<1>1. {a, b} \subseteq S
  OBVIOUS
<1>2. Cardinality({a, b}) <= Cardinality(S)
  BY <1>1, FS_Subset
<1>3. Cardinality({a}) = 1 /\ IsFiniteSet({a})
  BY FS_Singleton
<1>4. Cardinality({a} \cup {b}) = 2
  BY <1>3, FS_AddElement
<1>5. {a, b} = {a} \cup {b}
  OBVIOUS
<1>6. Cardinality(S) \in Nat
  BY FS_CardinalityType
<1> QED BY <1>2, <1>4, <1>5, <1>6

Updaters == {"starting", "chaining", "reading", "updating", "judging", "finishing"}
Reporters == {"reading", "updating", "judging"}
Pushers == {"starting", "chaining"}

InProgress(g) == step[g] <= Last(g) /\ status[g][step[g]] = "progress"
Begun(g)      == ~(step[g] = 1 /\ status[g][1] = "waiting")
Updates(p, g) == work[p].at \in Updaters /\ work[p].flow = g
Pushing(p, g) == work[p].at \in Pushers /\ work[p].flow = g
Handles(p, j) == work[p].at \in {"executing", "failing"} /\ work[p].job = j

\* A flow that nothing can happen in any more.
Closed(g) == outcome[g] # "none" /\ ~InProgress(g) /\ \A p \in Process : ~Pushing(p, g)

\* A job whose end is still to be reported to its flow.
Owed(j) ==
    \/ Queued(j)
    \/ \E p \in Process : Handles(p, j)
    \/ j \in Flows /\ Pushed(j) /\ ~Closed(j)

\* The modules before the current one have succeeded, those after it wait, and
\* what a module's status says of its jobs is so.
ModulesSound ==
    \A g \in Flows :
        /\ step[g] \in 1 .. Last(g) + 1
        /\ \A i \in 1 .. Last(g) :
            /\ i < step[g] => status[g][i] = "success"
            /\ i > step[g] => status[g][i] = "waiting"
            /\ status[g][i] = "success" => \A j \in Plan[g][i] : outcome[j] = "success"
            /\ status[g][i] = "failure" => \A j \in Plan[g][i] : ~Queued(j)

NotPushed == \A g \in Flows : ~Pushed(g) => ~Begun(g)

\* Who pushes a module or completes the flow.
Drives(p) ==
    LET w == work[p]
        g == w.flow
    IN  /\ w.at \in Pushers =>
            /\ w.seen = step[g] /\ step[g] <= Last(g)
            /\ status[g][step[g]] = "waiting"
        /\ w.at = "starting" => w.job = g /\ step[g] = 1
        /\ w.at \in {"chaining", "finishing"} => Begun(g)
        /\ w.at = "finishing" =>
            /\ ~InProgress(g)
            /\ w.ok /\ ~w.canceled => step[g] = Last(g) + 1

\* Who reports a job: to a module in progress, a job of it that has ended and
\* is not counted.
ReportsEnded(p) ==
    LET w == work[p]
        g == w.flow
    IN  /\ w.at \in Updaters /\ InProgress(g) =>
            /\ w.at \in Reporters
            /\ w.sub \in Plan[g][step[g]] /\ w.sub \notin reported
            /\ outcome[w.sub] # "none"
        /\ w.at \in {"reading", "updating"} =>
            /\ ~InProgress(g) => ~w.ok
            /\ w.ok /\ w.sub \in Leaves => outcome[w.sub] = "success"
        /\ w.at \in {"updating", "judging"} => w.seen = step[g]
        /\ w.at = "updating" => (w.branchall <=> Parallel(g, step[g]) /\ InProgress(g))
        /\ w.at = "judging" =>
            /\ InProgress(g) /\ Parallel(g, step[g])
            /\ branch[g][step[g]] + 1 = Cardinality(Plan[g][step[g]])

\* Which job's error an update that fails is going to report.
JobKnown(p) ==
    LET w == work[p]
    IN  /\ w.at \in Updaters => Pushed(w.flow) /\ w.tries <= 3
        /\ w.at \in Updaters \ {"starting"} =>
            /\ w.job # Root =>
                \/ w.sub = w.job /\ w.flow = Parent(w.job)
                \/ Closed(Parent(w.job)) /\ Begun(Parent(w.job))
            /\ w.job = Root => w.flow = Root
            /\ w.job \in Flows => w.tries >= 2
        /\ w.at \in Updaters /\ w.tries = 3 /\ Queued(w.flow) => faults >= 1

\* Two processes update the same flow only for two branches of a module in
\* progress, or when there is nothing left to do.
NoTwo(p, q) ==
    \A g \in Flows : Updates(p, g) /\ Updates(q, g) =>
        Closed(g) \/ (InProgress(g) /\ work[p].sub # work[q].sub)

\* An end is owed to a module in progress, in which it has not been counted
\* and nobody is reporting it.
OwedOnce ==
    \A j \in Jobs \ {Root} : Owed(j) =>
        /\ InProgress(Parent(j))
        /\ j \in Plan[Parent(j)][step[Parent(j)]] /\ j \notin reported
        /\ \A q \in Process : Updates(q, Parent(j)) => work[q].sub # j

\* A job that waits for a worker, and one that a process has taken.
Untouched(j) == j \in Flows => ~Begun(j) /\ \A p \in Process : ~Updates(p, j)

Waits   == \A j \in Jobs : queue[j] = "queued" =>
               Untouched(j) /\ \A p \in Process : ~Handles(p, j)
Handled == \A p \in Process : \A j \in Jobs : Handles(p, j) =>
               /\ Pushed(j) /\ Untouched(j)
               /\ \A q \in Process : Handles(q, j) => p = q

Processes ==
    /\ \A p \in Process : Drives(p) /\ ReportsEnded(p) /\ JobKnown(p)
    /\ \A p, q \in Process : p # q => NoTwo(p, q)

\* The counts of the branches.
BranchSound ==
    /\ branch \in [Flows -> UNION {[1 .. n -> Nat] : n \in Nat}]
    /\ \A f \in Flows : DOMAIN branch[f] = 1 .. Last(f)
    /\ reported \subseteq Jobs

OInv ==
    /\ FInv
    /\ faults \in Nat
    /\ BranchSound
    /\ CountedOnce
    /\ ModulesSound
    /\ NotPushed
    /\ Processes
    /\ OwedOnce
    /\ Waits
    /\ Handled

LEMMA InitOInv == ASSUME PlanIsGenerated PROVE Init => OInv
<1> SUFFICES ASSUME Init PROVE OInv
  OBVIOUS
<1>1. FInv /\ faults \in Nat /\ BranchSound
  <2>1. \A g \in Flows : Last(g) \in Nat
    BY PlanAssumption DEF Last
  <2>2. BranchSound
    BY <2>1 DEF Init, BranchSound
  <2> QED BY <2>2, InitFInv DEF Init
<1>2. \A p \in Process : work[p] = Idle /\ work[p].at = "idle"
  BY DEF Init, Idle
<1>3. \A j \in Jobs : ~Pushed(j) /\ ~Queued(j) /\ queue[j] # "queued"
  BY DEF Init, Pushed, Queued
<1>4. CountedOnce
  <2>1. \A f \in Flows : \A i \in 1 .. Last(f) : Plan[f][i] \cap {} = {}
    OBVIOUS
  <2> QED BY <2>1, FS_EmptySet DEF Init, CountedOnce
<1>5. ModulesSound
  <2>1. \A g \in Flows : Last(g) \in Nat /\ Last(g) > 0
    BY PlanAssumption DEF Last
  <2> QED BY <2>1 DEF Init, ModulesSound
<1>6. NotPushed
  <2>1. \A g \in Flows : Last(g) \in Nat /\ Last(g) > 0
    BY PlanAssumption DEF Last
  <2> QED BY <2>1 DEF Init, NotPushed, Begun
<1>7. Processes
  BY <1>2 DEF Processes, Drives, ReportsEnded, JobKnown, NoTwo, Updates, Updaters, Pushers,
              Reporters
<1>8. OwedOnce
  BY <1>2, <1>3 DEF OwedOnce, Owed, Handles
<1>9. Waits /\ Handled
  BY <1>2, <1>3 DEF Waits, Handled, Handles
<1> QED BY <1>1, <1>4, <1>5, <1>6, <1>7, <1>8, <1>9 DEF OInv

-----------------------------------------------------------------------------
(* The steps that leave the modules alone.                                 *)

\* Nothing is pushed, and what has ended stays so.
RowsMove ==
    \A j \in Jobs :
        /\ Pushed(j)' <=> Pushed(j)
        /\ outcome[j] # "none" => outcome'[j] = outcome[j]
        /\ Queued(j)' => Queued(j)

LEMMA QuietRowsMove == ASSUME RowsSound, QuietRows PROVE RowsMove
<1> USE DEF RowsSound, Queued, Pushed, Ended, RowsMove
<1>1. CASE UNCHANGED <<queue, outcome>>
  BY <1>1
<1>2. ASSUME NEW j \in Jobs, Pulls(j) \/ Requeues(j) PROVE RowsMove
  BY <1>2 DEF Pulls, Requeues
<1>3. ASSUME NEW j \in Jobs, NEW verdict \in Ended, Ends(j, verdict) PROVE RowsMove
  BY <1>3 DEF Ends
<1> QED BY <1>1, <1>2, <1>3 DEF QuietRows

LEMMA ModulesKept ==
    ASSUME OInv, UNCHANGED flows, RowsMove
    PROVE  ModulesSound' /\ NotPushed' /\ BranchSound' /\ CountedOnce'
<1>1. \A g \in Flows : g \in Jobs
  BY PlanAssumption
<1>2. \A g \in Flows : \A i \in 1 .. Last(g) : Plan[g][i] \subseteq Jobs
  BY OneModule
<1>3. ModulesSound'
  BY <1>2 DEF OInv, ModulesSound, flows, RowsMove
<1>4. NotPushed'
  BY <1>1 DEF OInv, NotPushed, Begun, flows, RowsMove
<1>5. CountedOnce'
  BY DEF OInv, BranchSound, CountedOnce, flows, RowsMove
<1>6. BranchSound'
  BY DEF OInv, BranchSound, flows
<1> QED BY <1>3, <1>4, <1>5, <1>6

\* A process that stays where it is.
LEMMA SameProcess ==
    ASSUME OInv, UNCHANGED flows, RowsMove, NEW p \in Process, work'[p] = work[p],
           \A g \in Flows : Closed(g) => Closed(g)',
           faults' \in Nat, faults' >= faults
    PROVE  (Drives(p) /\ ReportsEnded(p) /\ JobKnown(p))'
<1> PICK w : w = work[p]
  OBVIOUS
<1>1. Drives(p) /\ ReportsEnded(p) /\ JobKnown(p)
  BY DEF OInv, Processes
<1>2. step' = step /\ status' = status /\ branch' = branch /\ reported' = reported
  BY DEF flows
<1>3. /\ w.at \in Updaters => w.flow \in Flows /\ w.flow \in Jobs /\ w.job \in Jobs
      /\ w.at \in Updaters /\ InProgress(w.flow) => w.sub \in Jobs
      /\ w.sub \in Leaves => w.sub \in Jobs
      /\ w.at \in Updaters /\ w.job # Root => Parent(w.job) \in Flows
  <2>1. w.at \in Updaters => w.flow \in Flows /\ w.flow \in Jobs /\ w.job \in Jobs
    BY UpdatingSound DEF OInv, FInv, Updaters, Updating
  <2>2. w.at \in Updaters /\ InProgress(w.flow) => w.sub \in Jobs
    BY <1>1, <2>1, OneModule DEF ReportsEnded, InProgress, OInv, ModulesSound
  <2> QED BY <2>1, <2>2, ParentIsFlow DEF Leaves
<1>4. Drives(p)'
  BY <1>1, <1>2 DEF Drives, InProgress, Begun, Pushers
<1>5. ReportsEnded(p)'
  <2>1. InProgress(w.flow)' <=> InProgress(w.flow)
    BY <1>2 DEF InProgress
  <2>2. w.sub \in Jobs /\ outcome[w.sub] # "none" => outcome'[w.sub] = outcome[w.sub]
    BY DEF RowsMove
  <2> QED BY <1>1, <1>2, <1>3, <2>1, <2>2 DEF ReportsEnded, InProgress, Updaters, Reporters
<1>6. JobKnown(p)'
  <2>1. w.at \in Updaters => /\ Pushed(w.flow)' <=> Pushed(w.flow)
                             /\ Queued(w.flow)' => Queued(w.flow)
    BY <1>3 DEF RowsMove
  <2>2. w.at \in Updaters /\ w.job # Root =>
            /\ Closed(Parent(w.job)) => Closed(Parent(w.job))'
            /\ Begun(Parent(w.job)) => Begun(Parent(w.job))'
    BY <1>2, <1>3 DEF Begun
  <2>3. faults >= 1 => faults' >= 1
    BY DEF OInv
  <2> QED BY <1>1, <2>1, <2>2, <2>3 DEF JobKnown
<1> QED BY <1>4, <1>5, <1>6

\* A process that stops, a job that ends or is put back in the queue.
Calm ==
    /\ UNCHANGED flows
    /\ QuietRows
    /\ \A q \in Process : work'[q] = work[q] \/ work'[q].at \in {"idle", "unlocking"}
    /\ faults' \in Nat /\ faults' >= faults
    /\ \A j \in Jobs : queue'[j] = "queued" =>
        \/ queue[j] = "queued"
        \/ Untouched(j) /\ \A p \in Process : ~Handles(p, j)

LEMMA CalmSound == ASSUME OInv, FInv', Calm PROVE OInv'
<1>1. RowsMove
  BY QuietRowsMove DEF OInv, FInv, Calm
<1>2. ModulesSound' /\ NotPushed' /\ BranchSound' /\ CountedOnce' /\ UNCHANGED flows
  BY <1>1, ModulesKept DEF Calm
<1>3. \A q \in Process : \A g : /\ Updates(q, g)' => Updates(q, g) /\ work'[q] = work[q]
                                /\ Pushing(q, g)' => Pushing(q, g)
                                /\ Handles(q, g)' => Handles(q, g)
  BY DEF Calm, Updates, Updaters, Pushing, Pushers, Handles
<1>4. \A g \in Flows : /\ InProgress(g)' <=> InProgress(g)
                       /\ Begun(g)' <=> Begun(g)
                       /\ Closed(g) => Closed(g)'
  BY <1>1, <1>2, <1>3, PlanAssumption DEF InProgress, Begun, Closed, flows, RowsMove
<1>5. \A j \in Jobs : Owed(j)' => Owed(j)
  BY <1>1, <1>3, <1>4 DEF Owed, RowsMove
<1>6. OwedOnce'
  BY <1>2, <1>3, <1>4, <1>5, ParentIsFlow DEF OInv, OwedOnce, flows
<1>7. \A p, q \in Process : NoTwo(p, q) => NoTwo(p, q)'
  BY <1>3, <1>4 DEF NoTwo
<1>8. ASSUME NEW p \in Process PROVE (Drives(p) /\ ReportsEnded(p) /\ JobKnown(p))'
  <2>1. CASE work'[p].at \in {"idle", "unlocking"}
    BY <2>1 DEF Drives, ReportsEnded, JobKnown, Updaters, Pushers, Reporters
  <2>2. CASE work'[p] = work[p]
    BY <1>1, <1>2, <1>4, <2>2, SameProcess DEF Calm
  <2> QED BY <2>1, <2>2 DEF Calm
<1>9. \A j \in Jobs : Untouched(j) => Untouched(j)'
  BY <1>3, <1>4 DEF Untouched
<1>10. Waits'
  BY <1>3, <1>9 DEF Waits, OInv, Calm
<1>11. Handled'
  BY <1>1, <1>3, <1>9 DEF Handled, OInv, RowsMove
<1> QED BY <1>2, <1>6, <1>7, <1>8, <1>10, <1>11 DEF OInv, Processes, Calm, flows

\* A process that goes to work, or from one piece of work to the next.
LEMMA Moves ==
    ASSUME OInv, FInv', UNCHANGED flows, RowsMove, faults' \in Nat, faults' >= faults,
           NEW p \in Process,
           \A q \in Process \ {p} : work'[q] = work[q],
           (Drives(p) /\ ReportsEnded(p) /\ JobKnown(p))',
           \A q \in Process \ {p} : NoTwo(p, q)',
           \A j \in Jobs \ {Root} :
                Updates(p, Parent(j))' /\ work'[p].sub = j => ~Owed(j)',
           \A j \in Jobs \ {Root} : Owed(j)' => Owed(j),
           \A g \in Flows : Closed(g) => Closed(g)',
           Waits', Handled'
    PROVE  OInv'
<1>1. ModulesSound' /\ NotPushed' /\ BranchSound' /\ CountedOnce' /\ UNCHANGED flows
  BY ModulesKept
<1>2. \A q \in Process \ {p} : \A g : Updates(q, g)' <=> Updates(q, g)
  BY DEF Updates
<1>3. \A g \in Flows : InProgress(g)' <=> InProgress(g)
  BY <1>1 DEF InProgress, flows
<1>4. OwedOnce'
  <2>1. ASSUME NEW j \in Jobs \ {Root}, Owed(j)'
        PROVE  /\ InProgress(Parent(j))'
               /\ j \in Plan[Parent(j)][step'[Parent(j)]] /\ j \notin reported'
               /\ \A q \in Process : Updates(q, Parent(j))' => work'[q].sub # j
    <3>1. Owed(j) /\ Parent(j) \in Flows
      BY <2>1, ParentIsFlow
    <3>2. /\ InProgress(Parent(j))
          /\ j \in Plan[Parent(j)][step[Parent(j)]] /\ j \notin reported
          /\ \A q \in Process : Updates(q, Parent(j)) => work[q].sub # j
      BY <3>1 DEF OInv, OwedOnce
    <3>3. ASSUME NEW q \in Process, Updates(q, Parent(j))' PROVE work'[q].sub # j
      <4>1. CASE q = p
        BY <2>1, <3>3, <4>1
      <4>2. CASE q # p
        BY <1>2, <3>2, <3>3, <4>2
      <4> QED BY <4>1, <4>2
    <3> QED BY <1>1, <1>3, <3>1, <3>2, <3>3 DEF flows
  <2> QED BY <2>1 DEF OwedOnce
<1>5. \A q \in Process : (Drives(q) /\ ReportsEnded(q) /\ JobKnown(q))'
  BY SameProcess
<1>6. \A q, r \in Process : q # r => NoTwo(q, r)'
  <2>1. ASSUME NEW q \in Process \ {p}, NEW r \in Process \ {p}, q # r PROVE NoTwo(q, r)'
    <3>1. NoTwo(q, r)
      BY <2>1 DEF OInv, Processes
    <3>2. \A g : Updates(q, g) => g \in Flows
      BY UpdatingSound DEF OInv, FInv, Updates, Updaters, Updating
    <3> QED BY <1>2, <1>3, <3>1, <3>2 DEF NoTwo
  <2>2. ASSUME NEW q \in Process \ {p} PROVE NoTwo(q, p)'
    <3>1. NoTwo(p, q)'
      OBVIOUS
    <3> QED BY <3>1 DEF NoTwo
  <2> QED BY <2>1, <2>2
<1> QED BY <1>1, <1>4, <1>5, <1>6 DEF OInv, Processes, flows

\* A process takes a job that nobody has: a worker one of the queue, the
\* monitor one whose worker is gone, an error handler the flow it began.
LEMMA Takes ==
    ASSUME OInv, FInv', UNCHANGED flows, QuietRows, faults' \in Nat, faults' >= faults,
           \A j \in Jobs : queue'[j] = "queued" => queue[j] = "queued",
           NEW p \in Process, \A q \in Process \ {p} : work'[q] = work[q],
           NEW j \in Jobs, work'[p].at \in {"executing", "failing"}, work'[p].job = j,
           Pushed(j), Owed(j), queue'[j] # "queued",
           \A q \in Process \ {p} : ~Handles(q, j),
           j \in Flows => ~Begun(j) /\ \A q \in Process \ {p} : ~Updates(q, j)
    PROVE  OInv'
<1>1. RowsMove
  BY QuietRowsMove DEF OInv, FInv
<1>2. \A q \in Process \ {p} : \A g : /\ Updates(q, g)' <=> Updates(q, g)
                                      /\ Pushing(q, g)' <=> Pushing(q, g)
                                      /\ Handles(q, g)' <=> Handles(q, g)
  BY DEF Updates, Pushing, Handles
<1>3. \A g : ~Updates(p, g)' /\ ~Pushing(p, g)' /\ (Handles(p, g)' <=> g = j)
  BY DEF Updates, Updaters, Pushing, Pushers, Handles
<1>4. \A g \in Flows : /\ InProgress(g)' <=> InProgress(g)
                       /\ Begun(g)' <=> Begun(g)
  BY DEF InProgress, Begun, flows
<1>5. \A g \in Flows : Closed(g) => Closed(g)'
  BY <1>1, <1>2, <1>3, <1>4, PlanAssumption DEF Closed, RowsMove
<1>6. (Drives(p) /\ ReportsEnded(p) /\ JobKnown(p))'
  BY DEF Drives, ReportsEnded, JobKnown, Updaters, Pushers, Reporters
<1>7. \A q \in Process \ {p} : NoTwo(p, q)'
  BY <1>3 DEF NoTwo
<1>8. \A k \in Jobs : Owed(k)' => Owed(k)
  BY <1>1, <1>2, <1>3, <1>5 DEF Owed, RowsMove
<1>9. \A k \in Jobs : Untouched(k) => Untouched(k)'
  BY <1>2, <1>3, <1>4 DEF Untouched
<1>10. Untouched(j)'
  BY <1>2, <1>3, <1>4 DEF Untouched
<1>11. Waits'
  BY <1>2, <1>3, <1>9 DEF Waits, OInv
<1>12. Handled'
  <2>1. ASSUME NEW q \in Process, NEW k \in Jobs, Handles(q, k)'
        PROVE  Pushed(k)' /\ Untouched(k)' /\ \A r \in Process : Handles(r, k)' => q = r
    <3>1. CASE k = j
      BY <1>1, <1>2, <1>10, <2>1, <3>1 DEF RowsMove
    <3>2. CASE k # j
      BY <1>1, <1>2, <1>3, <1>9, <2>1, <3>2 DEF RowsMove, OInv, Handled
    <3> QED BY <3>1, <3>2
  <2> QED BY <2>1 DEF Handled
<1>13. \A k \in Jobs \ {Root} : Updates(p, Parent(k))' /\ work'[p].sub = k => ~Owed(k)'
  BY <1>3
<1> QED BY <1>1, <1>5, <1>6, <1>7, <1>8, <1>11, <1>12, <1>13, Moves

\* A worker takes a flow and is to push its first module.
LEMMA Starts ==
    ASSUME OInv, FInv', UNCHANGED flows, QuietRows, faults' \in Nat, faults' >= faults,
           \A j \in Jobs : queue'[j] = "queued" => queue[j] = "queued",
           NEW p \in Process, \A q \in Process \ {p} : work'[q] = work[q],
           NEW f \in Flows, work'[p].at = "starting", work'[p].job = f, work'[p].flow = f,
           work'[p].sub = NoJob, work'[p].seen = step[f], work'[p].tries = 0,
           queue[f] = "queued", queue'[f] # "queued"
    PROVE  OInv'
<1>1. RowsMove
  BY QuietRowsMove DEF OInv, FInv
<1>2. \A q \in Process \ {p} : \A g : /\ Updates(q, g)' <=> Updates(q, g)
                                      /\ Pushing(q, g)' <=> Pushing(q, g)
                                      /\ Handles(q, g)' <=> Handles(q, g)
  BY DEF Updates, Pushing, Handles
<1>3. \A g : (Updates(p, g)' <=> g = f) /\ (Pushing(p, g)' <=> g = f) /\ ~Handles(p, g)'
  BY DEF Updates, Updaters, Pushing, Pushers, Handles
<1>4. \A g \in Flows : /\ InProgress(g)' <=> InProgress(g)
                       /\ Begun(g)' <=> Begun(g)
  BY DEF InProgress, Begun, flows
<1>5. /\ f \in Jobs /\ Queued(f) /\ outcome[f] = "none" /\ Pushed(f) /\ ~Begun(f)
      /\ \A q \in Process : ~Updates(q, f) /\ ~Handles(q, f)
  BY PlanAssumption DEF OInv, FInv, RowsSound, Waits, Untouched, Queued, Pushed
<1>6. \A g \in Flows : Closed(g) => Closed(g)'
  BY <1>1, <1>2, <1>3, <1>4, <1>5, PlanAssumption DEF Closed, RowsMove
<1>7. 1 <= Last(f) /\ Last(f) \in Nat
  BY PlanAssumption DEF Last
<1>8. (Drives(p) /\ ReportsEnded(p) /\ JobKnown(p))'
  <2>1. step'[f] = 1 /\ status'[f][1] = "waiting" /\ ~InProgress(f)'
    BY <1>4, <1>5 DEF Begun, InProgress, flows
  <2>2. Drives(p)'
    BY <1>7, <2>1 DEF Drives, Pushers, flows
  <2>3. ReportsEnded(p)'
    BY <2>1 DEF ReportsEnded, Updaters, Reporters
  <2>4. JobKnown(p)'
    BY <1>1, <1>5 DEF JobKnown, Updaters, RowsMove
  <2> QED BY <2>2, <2>3, <2>4
<1>9. \A q \in Process \ {p} : NoTwo(p, q)'
  BY <1>2, <1>3, <1>5 DEF NoTwo
<1>10. \A k \in Jobs : Owed(k)' => Owed(k)
  BY <1>1, <1>2, <1>3, <1>6 DEF Owed, RowsMove
<1>11. \A k \in Jobs : k # f /\ Untouched(k) => Untouched(k)'
  BY <1>2, <1>3, <1>4 DEF Untouched
<1>12. Waits'
  BY <1>2, <1>3, <1>11 DEF Waits, OInv
<1>13. Handled'
  BY <1>1, <1>2, <1>3, <1>5, <1>11 DEF RowsMove, OInv, Handled
<1>14. \A k \in Jobs \ {Root} : Updates(p, Parent(k))' /\ work'[p].sub = k => ~Owed(k)'
  BY PlanAssumption
<1> QED BY <1>1, <1>6, <1>8, <1>9, <1>10, <1>12, <1>13, <1>14, Moves

\* What a report of sub to the flow f has to be for it to be sound.
LEMMA Reporting ==
    ASSUME OInv, FInv', UNCHANGED flows, QuietRows, faults' \in Nat, faults' >= faults,
           \A k \in Jobs : queue'[k] = "queued" => queue[k] = "queued",
           NEW p \in Process, NEW j \in Jobs, NEW f \in Flows, NEW sub \in Jobs \cup {NoJob},
           NEW ok \in BOOLEAN, NEW tries \in 0 .. 3, Reports(p, j, f, sub, ok, tries),
           Pushed(f), tries = 3 /\ Queued(f)' => faults' >= 1, j \in Flows => tries >= 2,
           IF j = Root THEN f = Root
           ELSE \/ sub = j /\ f = Parent(j)
                \/ Closed(Parent(j))' /\ Begun(Parent(j)),
           ~InProgress(f) => ~ok,
           ok /\ sub \in Leaves => outcome'[sub] = "success",
           InProgress(f) =>
                /\ sub \in Plan[f][step[f]] /\ sub \notin reported
                /\ outcome'[sub] # "none" /\ (Owed(sub)' => ~Owed(sub)),
           \A q \in Process \ {p} : Updates(q, f) =>
                Closed(f)' \/ (InProgress(f) /\ work[q].sub # sub),
           Begun(f) \/ (queue'[f] # "queued" /\ \A q \in Process \ {p} : ~Handles(q, f))
    PROVE  OInv'
<1>1. RowsMove
  BY QuietRowsMove DEF OInv, FInv
<1>2. /\ \A q \in Process \ {p} : work'[q] = work[q]
      /\ work'[p].at = "reading" /\ work'[p].job = j /\ work'[p].flow = f
      /\ work'[p].sub = sub /\ work'[p].ok = ok /\ work'[p].tries = tries
  BY DEF Reports, Goes, Idle, OInv, FInv, WorkSound
<1>3. \A q \in Process \ {p} : \A g : /\ Updates(q, g)' <=> Updates(q, g)
                                      /\ Pushing(q, g)' <=> Pushing(q, g)
                                      /\ Handles(q, g)' <=> Handles(q, g)
  BY <1>2 DEF Updates, Pushing, Handles
<1>4. \A g : (Updates(p, g)' <=> g = f) /\ ~Pushing(p, g)' /\ ~Handles(p, g)'
  BY <1>2 DEF Updates, Updaters, Pushing, Pushers, Handles
<1>5. \A g \in Flows : /\ InProgress(g)' <=> InProgress(g)
                       /\ Begun(g)' <=> Begun(g)
  BY DEF InProgress, Begun, flows
<1>6. \A g \in Flows : Closed(g) => Closed(g)'
  BY <1>1, <1>3, <1>4, <1>5, PlanAssumption DEF Closed, RowsMove
<1>7. (Drives(p) /\ ReportsEnded(p) /\ JobKnown(p))'
  <2>1. Drives(p)'
    BY <1>2 DEF Drives, Pushers
  <2>2. ReportsEnded(p)'
    BY <1>2, <1>5 DEF ReportsEnded, Updaters, Reporters, flows
  <2>3. Pushed(f)'
    BY <1>1, PlanAssumption DEF RowsMove
  <2>4. j # Root => \/ sub = j /\ f = Parent(j)
                    \/ (Closed(Parent(j)) /\ Begun(Parent(j)))'
    BY <1>5, ParentIsFlow
  <2>5. JobKnown(p)'
    BY <1>2, <2>3, <2>4 DEF JobKnown, Updaters
  <2> QED BY <2>1, <2>2, <2>5
<1>8. \A q \in Process \ {p} : NoTwo(p, q)'
  <2>1. ASSUME NEW q \in Process \ {p}, NEW g \in Flows, Updates(p, g)', Updates(q, g)'
        PROVE  Closed(g)' \/ (InProgress(g)' /\ work'[p].sub # work'[q].sub)
    BY <1>2, <1>3, <1>4, <1>5, <2>1
  <2> QED BY <2>1 DEF NoTwo
<1>9. \A k \in Jobs : Owed(k)' => Owed(k)
  BY <1>1, <1>3, <1>4, <1>6 DEF Owed, RowsMove
<1>10. ASSUME NEW k \in Jobs \ {Root}, Updates(p, Parent(k))', work'[p].sub = k
       PROVE  ~Owed(k)'
  <2>1. Parent(k) = f /\ sub = k
    BY <1>2, <1>4, <1>10
  <2>2. Owed(k) => InProgress(f)
    BY <2>1 DEF OInv, OwedOnce
  <2> QED BY <1>9, <2>1, <2>2
<1>11. \A k \in Jobs : k # f /\ Untouched(k) => Untouched(k)'
  BY <1>3, <1>4, <1>5 DEF Untouched
<1>12. Waits'
  <2>1. ASSUME NEW k \in Jobs, queue'[k] = "queued"
        PROVE  Untouched(k)' /\ \A q \in Process : ~Handles(q, k)'
    <3>1. queue[k] = "queued" /\ Untouched(k) /\ \A q \in Process : ~Handles(q, k)
      BY <2>1 DEF OInv, Waits
    <3>2. k # f
      BY <2>1, <3>1 DEF Untouched
    <3> QED BY <1>3, <1>4, <1>11, <3>1, <3>2
  <2> QED BY <2>1 DEF Waits
<1>13. Handled'
  <2>1. ASSUME NEW q \in Process, NEW k \in Jobs, Handles(q, k)'
        PROVE  Pushed(k)' /\ Untouched(k)' /\ \A r \in Process : Handles(r, k)' => q = r
    <3>1. q # p /\ Handles(q, k)
      BY <1>3, <1>4, <2>1
    <3>2. Pushed(k) /\ Untouched(k) /\ \A r \in Process : Handles(r, k) => q = r
      BY <3>1 DEF OInv, Handled
    <3>3. k # f
      BY <3>1, <3>2 DEF Untouched
    <3> QED BY <1>1, <1>3, <1>4, <1>11, <3>2, <3>3 DEF RowsMove
  <2> QED BY <2>1 DEF Handled
<1> QED BY <1>1, <1>2, <1>6, <1>7, <1>8, <1>9, <1>10, <1>12, <1>13, Moves

\* The end of a job that was owed.
LEMMA FirstReport ==
    ASSUME OInv, FInv', UNCHANGED flows, QuietRows, faults' \in Nat, faults' >= faults,
           \A k \in Jobs : queue'[k] = "queued" => queue[k] = "queued",
           NEW p \in Process, NEW j \in Jobs \ {Root}, NEW sub \in Jobs \ {Root},
           NEW ok \in BOOLEAN, NEW tries \in 0 .. 2, j \in Flows => tries >= 2,
           Reports(p, j, Parent(sub), sub, ok, tries),
           Owed(sub), ~Owed(sub)', outcome'[sub] # "none",
           sub = j \/ (Closed(Parent(j))' /\ Begun(Parent(j))),
           ok /\ sub \in Leaves => outcome'[sub] = "success"
    PROVE  OInv'
<1> DEFINE f == Parent(sub)
<1>1. f \in Flows /\ f \in Jobs
  BY ParentIsFlow, PlanAssumption
<1>2. /\ InProgress(f)
      /\ sub \in Plan[f][step[f]] /\ sub \notin reported
      /\ \A q \in Process : Updates(q, f) => work[q].sub # sub
  BY DEF OInv, OwedOnce
<1>3. Begun(f) /\ Pushed(f)
  BY <1>1, <1>2 DEF OInv, NotPushed, Begun, InProgress
<1>4. tries \in 0 .. 3 /\ tries # 3 /\ sub \in Jobs \cup {NoJob} /\ j \in Jobs /\ j # Root
  OBVIOUS
<1> HIDE DEF f
<1>5. Reports(p, j, f, sub, ok, tries)
  BY DEF f
<1>6. \/ sub = j /\ f = Parent(j)
      \/ Closed(Parent(j))' /\ Begun(Parent(j))
  BY DEF f
<1> QED BY <1>1, <1>2, <1>3, <1>4, <1>5, <1>6, Reporting

\* The same report again, as a failure.
LEMMA ReportAgain ==
    ASSUME OInv, FInv', UNCHANGED <<flows, queue, outcome>>,
           faults' \in Nat, faults' >= faults,
           NEW p \in Process, work[p].at \in Updaters \ Pushers,
           NEW tries \in 0 .. 3, work[p].job \in Flows => tries >= 2,
           tries = 3 /\ Queued(work[p].flow) => faults' >= 1,
           Reports(p, work[p].job, work[p].flow, work[p].sub, FALSE, tries)
    PROVE  OInv'
<1> PICK w : w = work[p]
  OBVIOUS
<1> PICK f : f = w.flow
  OBVIOUS
<1>1. w.job \in Jobs /\ f \in Flows /\ f \in Jobs /\ w.sub \in Jobs \cup {NoJob}
  BY UpdatingSound DEF OInv, FInv, Updaters, Pushers, Updating, WorkState
<1>2. Updates(p, f) /\ ReportsEnded(p) /\ JobKnown(p) /\ w.at # "starting"
  BY DEF Updates, OInv, Processes, Pushers
<1>3. QuietRows /\ \A k \in Jobs : queue'[k] = queue[k]
  BY DEF QuietRows
<1>4. InProgress(f) =>
        w.sub \in Plan[f][step[f]] /\ w.sub \notin reported /\ outcome[w.sub] # "none"
  BY <1>2 DEF ReportsEnded, Updates
<1>5. InProgress(f) => ~Owed(w.sub)
  <2>1. InProgress(f) => w.sub \in Jobs \ {Root} /\ Parent(w.sub) = f
    BY <1>1, <1>4, OneModule, ParentOf DEF InProgress, OInv, ModulesSound
  <2> QED BY <1>2, <2>1 DEF OInv, OwedOnce
<1>6. \A q \in Process \ {p} : ~Pushing(q, f)' <=> ~Pushing(q, f)
  BY DEF Reports, Goes, Pushing, OInv, FInv, WorkSound
<1>7. \A g \in Flows : Closed(g) => Closed(g)'
  <2>1. \A q \in Process : \A g : Pushing(q, g)' => Pushing(q, g)
    BY DEF Reports, Goes, Idle, Pushing, Pushers, OInv, FInv, WorkSound
  <2> QED BY <2>1 DEF Closed, InProgress, flows
<1>8. \A q \in Process \ {p} : Updates(q, f) =>
        Closed(f)' \/ (InProgress(f) /\ work[q].sub # w.sub)
  BY <1>1, <1>2, <1>7 DEF OInv, Processes, NoTwo
<1>9. queue[f] # "queued" /\ \A q \in Process : ~Handles(q, f)
  BY <1>1, <1>2 DEF OInv, Waits, Handled, Untouched
<1>10. Pushed(f) /\ IF w.job = Root THEN f = Root
                    ELSE \/ w.sub = w.job /\ f = Parent(w.job)
                         \/ Closed(Parent(w.job))' /\ Begun(Parent(w.job))
  BY <1>1, <1>2, <1>7, ParentIsFlow DEF JobKnown, Updates
<1>11. Queued(f)' => Queued(f)
  BY DEF Queued
<1>12. UNCHANGED flows /\ Reports(p, w.job, f, w.sub, FALSE, tries)
       /\ (tries = 3 /\ Queued(f)' => faults' >= 1) /\ (w.job \in Flows => tries >= 2)
  BY <1>11
<1>13. PICK j \in Jobs, sub \in Jobs \cup {NoJob} : j = w.job /\ sub = w.sub
  BY <1>1
<1>14. ASSUME NEW ok \in BOOLEAN, ok = FALSE, Reports(p, j, f, sub, ok, tries)
       PROVE  OInv'
  <2>1. /\ j \in Flows => tries >= 2
        /\ tries = 3 /\ Queued(f)' => faults' >= 1
        /\ Pushed(f) /\ QuietRows /\ UNCHANGED flows
        /\ \A k \in Jobs : queue'[k] = "queued" => queue[k] = "queued"
    BY <1>3, <1>10, <1>12, <1>13
  <2>2. IF j = Root THEN f = Root
        ELSE \/ sub = j /\ f = Parent(j)
             \/ Closed(Parent(j))' /\ Begun(Parent(j))
    BY <1>10, <1>13
  <2>3. InProgress(f) => /\ sub \in Plan[f][step[f]] /\ sub \notin reported
                         /\ outcome'[sub] # "none" /\ (Owed(sub)' => ~Owed(sub))
    BY <1>4, <1>5, <1>13
  <2>4. \A q \in Process \ {p} : Updates(q, f) =>
            Closed(f)' \/ (InProgress(f) /\ work[q].sub # sub)
    BY <1>8, <1>13
  <2>5. Begun(f) \/ (queue'[f] # "queued" /\ \A q \in Process \ {p} : ~Handles(q, f))
    BY <1>9
  <2> QED BY <1>1, <1>14, <2>1, <2>2, <2>3, <2>4, <2>5, Reporting
<1> QED BY <1>12, <1>13, <1>14

\* The error of a job whose flow was completed in the meantime.
LEMMA LateReport ==
    ASSUME OInv, FInv', UNCHANGED <<flows, queue, outcome>>,
           faults' \in Nat, faults' >= faults,
           NEW p \in Process, NEW j \in Jobs \ {Root}, work[p].at \notin Pushers,
           Closed(Parent(j)), Begun(Parent(j)), Reports(p, j, Parent(j), j, FALSE, 2)
    PROVE  OInv'
<1> DEFINE f == Parent(j)
<1>1. f \in Flows /\ f \in Jobs /\ j \in Jobs /\ j # Root /\ j \in Jobs \cup {NoJob}
  BY ParentIsFlow, PlanAssumption
<1>2. QuietRows /\ \A k \in Jobs : queue'[k] = queue[k]
  BY DEF QuietRows
<1>3. Closed(f)'
  <2>1. \A q \in Process : Pushing(q, f)' => Pushing(q, f)
    BY DEF Reports, Goes, Idle, Pushing, Pushers, OInv, FInv, WorkSound
  <2> QED BY <1>1, <2>1 DEF Closed, InProgress, flows
<1>4. ~InProgress(f) /\ Begun(f) /\ Pushed(f)
  BY DEF Closed, Pushed
<1>5. FALSE \in BOOLEAN /\ 2 \in 0 .. 3 /\ 2 # 3 /\ 2 >= 2 /\ UNCHANGED flows
  OBVIOUS
<1> HIDE DEF f
<1>6. Reports(p, j, f, j, FALSE, 2) /\ f = Parent(j)
  BY DEF f
<1> QED BY <1>1, <1>2, <1>3, <1>4, <1>5, <1>6, Reporting

-----------------------------------------------------------------------------
(* The actions that leave the modules alone.                               *)

LEMMA RecoversSound ==
    ASSUME OInv, FInv', UNCHANGED flows, faults' \in Nat, faults' >= faults,
           NEW p \in Process, work[p].at \in Updaters \ Pushers, Recovers(p),
           work[p].tries = 2 /\ Queued(work[p].flow) => faults' >= 1
    PROVE  OInv'
<1> PICK w : w = work[p]
  OBVIOUS
<1>1. /\ FInv /\ w.at \in Updating /\ w.job \in Jobs /\ w.flow \in Flows
      /\ JobKnown(p) /\ w.tries \in Nat /\ w.tries <= 3
  BY UpdatingSound
     DEF OInv, FInv, Updaters, Pushers, Updating, Processes, JobKnown, WorkState
<1>2. CASE w.tries = 3
  <2>1. Goes(p, Idle) /\ QuietRows
    BY <1>1, <1>2, RecoversQuiet DEF Recovers
  <2>2. \A j \in Jobs : queue'[j] = "queued" => queue[j] = "queued"
    <3>1. queue' = queue \/ queue' = [queue EXCEPT ![Parent(w.job)] = "absent"]
      BY <1>2 DEF Recovers, CompleteIfQueued, Complete, row
    <3> QED BY <3>1 DEF OInv, FInv, RowsSound
  <2>3. \A q \in Process : work'[q] = work[q] \/ work'[q].at \in {"idle", "unlocking"}
    BY <2>1 DEF Goes, Idle, OInv, FInv, WorkSound
  <2> QED BY <2>1, <2>2, <2>3, CalmSound DEF Calm
<1>3. CASE w.tries = 1
  <2>1. Reports(p, w.job, Parent(w.job), w.job, FALSE, 2) /\ UNCHANGED <<row, signs>>
    <3>1. w.tries # 3
      BY <1>3
    <3> QED BY <1>3, <3>1, Zenon DEF Recovers
  <2>2. UNCHANGED <<flows, queue, outcome>> /\ 2 \in 0 .. 3 /\ 2 >= 2 /\ 2 # 3
    BY <2>1 DEF row
  <2>3. w.job \in Jobs \ {Root} /\ w.at \in Updaters \ {"starting"}
    BY <1>1, <1>3, PlanAssumption DEF JobKnown, Pushers
  <2>4. CASE w.sub = w.job /\ w.flow = Parent(w.job)
    BY <2>1, <2>2, <2>4, ReportAgain
  <2>5. CASE Closed(Parent(w.job)) /\ Begun(Parent(w.job))
    BY <2>1, <2>2, <2>3, <2>5, LateReport
  <2> QED BY <1>1, <2>3, <2>4, <2>5 DEF JobKnown
<1>4. CASE w.tries # 1 /\ w.tries # 3
  <2>1. Reports(p, w.job, w.flow, w.sub, FALSE, w.tries + 1) /\ UNCHANGED <<row, signs>>
    BY <1>4, Zenon DEF Recovers
  <2>2. UNCHANGED <<flows, queue, outcome>>
    BY <2>1 DEF row
  <2>3. w.job \in Flows => w.tries >= 2
    BY <1>1 DEF JobKnown, Pushers
  <2> PICK tries \in 0 .. 3 : tries = w.tries + 1
    BY <1>1, <1>4
  <2>4. /\ work[p].job \in Flows => tries >= 2
        /\ tries = 3 /\ Queued(work[p].flow) => faults' >= 1
    BY <1>1, <2>3
  <2>5. Reports(p, work[p].job, work[p].flow, work[p].sub, FALSE, tries)
    BY <2>1
  <2> QED BY <2>2, <2>4, <2>5, ReportAgain
<1> QED BY <1>2, <1>3, <1>4

LEMMA CalmSteps ==
    ASSUME OInv, FInv',
           \/ Cancel \/ UNCHANGED vars
           \/ \E j \in Jobs : RestartJob(j) \/ Kill(j) \/ CancelBranches(j)
           \/ \E f \in Flows : RestartFlow(f) \/ CancelFlow(f)
           \/ \E p \in Process : Poll(p) \/ Unlock(p) \/ Crash(p)
    PROVE  OInv'
<1>1. /\ faults \in Nat /\ FInv /\ RowsSound /\ ModulesSound
      /\ queue \in [Jobs -> {"absent", "queued", "running"}]
      /\ work \in [Process -> WorkState]
  BY DEF OInv, FInv, WorkSound, RowsSound
<1> SUFFICES Calm
  BY CalmSound
<1> DEFINE Same == \A j \in Jobs : queue'[j] = "queued" => queue[j] = "queued"
<1>2. CASE \/ Cancel \/ UNCHANGED vars
           \/ \E j \in Jobs : CancelBranches(j)
           \/ \E f \in Flows : CancelFlow(f)
  BY <1>1, <1>2
     DEF Cancel, CancelBranches, CancelFlow, vars, Calm, QuietRows, row, flows, budget
<1>3. ASSUME NEW j \in Jobs, Kill(j) PROVE Calm
  <2>1. QuietRows
    BY <1>3, CompleteIfQueuedQuiet DEF Kill, Ended
  <2>2. queue' = queue \/ queue' = [queue EXCEPT ![j] = "absent"]
    BY <1>3 DEF Kill, CompleteIfQueued, Complete, row
  <2> QED BY <1>1, <1>3, <2>1, <2>2 DEF Kill, Calm, budget
<1>4. ASSUME NEW j \in Jobs, RestartJob(j) PROVE Calm
  <2>1. QuietRows
    BY <1>4 DEF RestartJob, Requeues, QuietRows
  <2>2. Untouched(j) /\ \A p \in Process : ~Handles(p, j)
    BY <1>4 DEF RestartJob, Silent, Leaves, Untouched, Handles
  <2> QED BY <1>1, <1>4, <2>1, <2>2 DEF RestartJob, Calm, budget
<1>5. ASSUME NEW f \in Flows, RestartFlow(f) PROVE Calm
  <2>1. QuietRows
    BY <1>5, PlanAssumption DEF RestartFlow, Zombie, Requeues, QuietRows
  <2>2. step[f] = 1
    <3>1. Last(f) \in Nat /\ Last(f) > 0
      BY PlanAssumption DEF Last
    <3> QED BY <1>1, <1>5, <3>1 DEF RestartFlow, ModulesSound
  <2>3. Untouched(f) /\ \A p \in Process : ~Handles(p, f)
    BY <1>5, <2>2
       DEF RestartFlow, Zombie, Deserted, Untouched, Begun, Handles, Updates
  <2> QED BY <1>1, <1>5, <2>1, <2>3 DEF RestartFlow, Calm, budget
<1>6. ASSUME NEW p \in Process, Poll(p) \/ Unlock(p) \/ Crash(p) PROVE Calm
  <2>1. UNCHANGED <<queue, outcome>> /\ Goes(p, Idle) /\ faults' \in {faults, faults + 1}
        /\ UNCHANGED flows
    BY <1>6 DEF Poll, Unlock, Crash, row, budget
  <2>2. \A q \in Process : work'[q] = work[q] \/ work'[q].at \in {"idle", "unlocking"}
    BY <1>1, <2>1 DEF Goes, Idle
  <2> QED BY <1>1, <2>1, <2>2 DEF Calm, QuietRows
<1> QED BY <1>2, <1>3, <1>4, <1>5, <1>6

LEMMA PullSound ==
    ASSUME OInv, FInv', NEW p \in Workers, NEW j \in Jobs, Pull(p, j) PROVE OInv'
<1>1. /\ FInv /\ faults \in Nat /\ faults' = faults /\ UNCHANGED flows
      /\ queue \in [Jobs -> {"absent", "queued", "running"}]
      /\ work \in [Process -> WorkState] /\ p \in Process
  BY DEF OInv, FInv, WorkSound, RowsSound, Pull, budget, Process
<1>2. QuietRows
  BY <1>1, PullQuiet DEF Quiet
<1>3. /\ queue[j] = "queued" /\ queue'[j] = "running"
      /\ \A k \in Jobs : queue'[k] = "queued" => queue[k] = "queued"
  BY <1>1 DEF Pull
<1>4. /\ Pushed(j) /\ Owed(j) /\ Untouched(j)
      /\ \A q \in Process : ~Handles(q, j)
  BY <1>3 DEF Pushed, Owed, Queued, OInv, Waits
<1>5. ASSUME NEW place \in {"executing", "failing"},
             Goes(p, [Idle EXCEPT !.at = place, !.job = j])
      PROVE  OInv'
  <2>1. /\ \A q \in Process \ {p} : work'[q] = work[q]
        /\ work'[p].at \in {"executing", "failing"} /\ work'[p].job = j
    BY <1>1, <1>5 DEF Goes, Idle
  <2> QED BY <1>1, <1>2, <1>3, <1>4, <2>1, Takes DEF Untouched
<1>6. ASSUME j \in Flows, Goes(p, [Idle EXCEPT !.at = "starting", !.job = j, !.flow = j,
                                               !.seen = step[j]])
      PROVE  OInv'
  <2>1. /\ \A q \in Process \ {p} : work'[q] = work[q]
        /\ work'[p].at = "starting" /\ work'[p].job = j /\ work'[p].flow = j
        /\ work'[p].sub = NoJob /\ work'[p].seen = step[j] /\ work'[p].tries = 0
    BY <1>1, <1>6 DEF Goes, Idle
  <2> QED BY <1>1, <1>2, <1>3, <1>6, <2>1, Starts
<1> QED BY <1>5, <1>6 DEF Pull

LEMMA GiveUpJobSound ==
    ASSUME OInv, FInv', NEW j \in Jobs, GiveUpJob(j) PROVE OInv'
<1>1. /\ faults \in Nat /\ faults' = faults /\ UNCHANGED flows /\ QuietRows
      /\ UNCHANGED queue /\ work \in [Process -> WorkState] /\ Monitor \in Process
  BY DEF OInv, FInv, WorkSound, GiveUpJob, budget, Process, QuietRows, row
<1>2. Pushed(j) /\ Owed(j) /\ queue'[j] # "queued" /\ j \notin Flows
  BY DEF GiveUpJob, Pushed, Owed, Queued, row, Leaves
<1>3. \A q \in Process : ~Handles(q, j)
  BY DEF GiveUpJob, Silent, Handles
<1>4. /\ \A q \in Process \ {Monitor} : work'[q] = work[q]
      /\ work'[Monitor].at \in {"executing", "failing"} /\ work'[Monitor].job = j
  BY <1>1 DEF GiveUpJob, Goes, Idle
<1> QED BY <1>1, <1>2, <1>3, <1>4, Takes

\* Only one process has the job.
LEMMA LetsGo ==
    ASSUME OInv, NEW p \in Process, NEW j \in Jobs, Handles(p, j), NEW w, Goes(p, w),
           w.at \notin {"executing", "failing"}
    PROVE  \A q \in Process : ~Handles(q, j)'
BY DEF OInv, FInv, WorkSound, Handled, Handles, Goes

LEMMA ChildEndsSound ==
    ASSUME OInv, FInv', NEW p \in Workers, NEW verdict \in Ended, ChildEnds(p, verdict)
    PROVE  OInv'
<1> PICK j : j = work[p].job
  OBVIOUS
<1>1. /\ FInv /\ faults \in Nat /\ faults' = faults /\ UNCHANGED flows /\ p \in Process
      /\ j \in Jobs /\ j \in Leaves /\ j \notin Flows /\ j # Root /\ Handles(p, j)
      /\ RowsSound
  BY PlanAssumption DEF OInv, FInv, ChildEnds, budget, Process, WorkSound, Sound, At, Leaves,
                        Handles
<1>2. QuietRows
  BY <1>1, ExecuteQuiet DEF Execute, Quiet
<1>3. Pushed(j) /\ Owed(j)
  BY <1>1 DEF OInv, Handled, Owed
<1>4. CASE Queued(j)
  <2>1. Complete(j, verdict, FALSE) /\ Reports(p, j, Parent(j), j, verdict = "success", 0)
    BY <1>4 DEF ChildEnds
  <2>2. /\ \A k \in Jobs : queue'[k] = "queued" => queue[k] = "queued"
        /\ ~Queued(j)' /\ outcome'[j] = verdict /\ verdict # "none"
    BY <1>1, <2>1 DEF Complete, RowsSound, Queued, Ended
  <2>3. \A q \in Process : ~Handles(q, j)'
    BY <1>1, <2>1, LetsGo DEF Reports, Idle
  <2>4. ~Owed(j)'
    BY <1>1, <2>2, <2>3 DEF Owed
  <2>5. ASSUME NEW ok \in BOOLEAN, ok => verdict = "success", NEW tries \in 0 .. 2,
               Reports(p, j, Parent(j), j, ok, tries)
        PROVE  OInv'
    <3>1. j \in Jobs \ {Root} /\ (ok /\ j \in Leaves => outcome'[j] = "success")
      BY <1>1, <2>2, <2>5
    <3> QED BY <1>1, <1>2, <1>3, <2>2, <2>4, <2>5, <3>1, FirstReport
  <2>6. (verdict = "success") \in BOOLEAN /\ 0 \in 0 .. 2
    OBVIOUS
  <2> QED BY <2>1, <2>5, <2>6, Zenon
<1>5. CASE ~Queued(j)
  <2>1. Reports(p, j, Parent(j), j, FALSE, 2) /\ UNCHANGED <<row, signs>>
    BY <1>5 DEF ChildEnds
  <2>2. /\ \A k \in Jobs : queue'[k] = "queued" => queue[k] = "queued"
        /\ ~Queued(j)' /\ outcome'[j] # "none"
    BY <1>3, <1>5, <2>1 DEF row, Queued, Pushed
  <2>3. \A q \in Process : ~Handles(q, j)'
    BY <1>1, <2>1, LetsGo DEF Reports, Idle
  <2>4. ~Owed(j)'
    BY <1>1, <2>2, <2>3 DEF Owed
  <2>5. ASSUME NEW ok \in BOOLEAN, ok = FALSE, Reports(p, j, Parent(j), j, ok, 2)
        PROVE  OInv'
    <3>1. 2 \in 0 .. 2 /\ j \in Jobs \ {Root}
      BY <1>1
    <3> QED BY <1>1, <1>2, <1>3, <2>2, <2>4, <2>5, <3>1, FirstReport
  <2> QED BY <2>1, <2>5
<1> QED BY <1>4, <1>5

LEMMA ReportsReads ==
    ASSUME WorkSound, NEW p \in Process, NEW j, NEW f, NEW sub, NEW ok, NEW tries,
           Reports(p, j, f, sub, ok, tries)
    PROVE  (\A q \in Process \ {p} : work'[q] = work[q]) /\ work'[p].at = "reading"
BY DEF WorkSound, Reports, Goes, Idle

\* A flow that fails before it has begun.
LEMMA FailJobCloses ==
    ASSUME OInv, NEW p \in Process, FailJob(p), NEW j \in Flows \ {Root}, j = work[p].job
    PROVE  Closed(j)'
<1>1. /\ RowsSound /\ WorkSound /\ UNCHANGED flows /\ j \in Jobs
      /\ Pushed(j) /\ Untouched(j)
  BY PlanAssumption DEF OInv, FInv, FailJob, At, Handled, Handles
<1>2. Reports(p, j, Parent(j), j, FALSE, 2) /\ CompleteIfQueued(j, "failure")
  BY DEF FailJob
<1>3. outcome'[j] # "none"
  BY <1>1, <1>2 DEF CompleteIfQueued, Complete, row, Queued, Pushed, RowsSound
<1>4. \A q \in Process : Pushing(q, j)' => Pushing(q, j)
  BY <1>1, <1>2, ReportsReads DEF Pushing, Pushers
<1>5. ~InProgress(j)' /\ \A q \in Process : ~Pushing(q, j)
  BY <1>1 DEF Untouched, Begun, InProgress, Updates, Pushing, Pushers, Updaters, flows
<1> QED BY <1>3, <1>4, <1>5 DEF Closed

LEMMA FailJobSound == ASSUME OInv, FInv', NEW p \in Process, FailJob(p) PROVE OInv'
<1> PICK j : j = work[p].job
  OBVIOUS
<1>1. /\ FInv /\ faults \in Nat /\ faults' = faults /\ UNCHANGED flows
      /\ j \in Jobs /\ Handles(p, j) /\ RowsSound /\ work \in [Process -> WorkState]
  BY DEF OInv, FInv, FailJob, budget, WorkSound, Sound, At, Handles
<1>2. QuietRows
  BY <1>1, FailJobQuiet DEF Quiet
<1>3. Pushed(j) /\ Untouched(j) /\ Owed(j) /\ \A q \in Process : Handles(q, j) => q = p
  BY <1>1 DEF OInv, Handled, Owed
<1>4. CASE j = Root
  <2>1. Reports(p, j, j, NoJob, FALSE, 2) /\ UNCHANGED <<row, signs>>
    BY <1>4 DEF FailJob
  <2>2. /\ queue' = queue /\ queue[j] # "queued" /\ j \in Flows
        /\ ~InProgress(j) /\ \A q \in Process : ~Updates(q, j)
    <3>1. 1 <= Last(Root) /\ Last(Root) \in Nat /\ Root \in Flows
      BY PlanAssumption DEF Last
    <3> QED BY <1>1, <1>3, <1>4, <2>1, <3>1 DEF row, Untouched, Begun, InProgress, OInv, Waits
  <2>3. ASSUME NEW ok \in BOOLEAN, ok = FALSE, NEW tries \in 0 .. 3, tries = 2,
               NEW sub \in Jobs \cup {NoJob}, Reports(p, j, j, sub, ok, tries)
        PROVE  OInv'
    BY <1>1, <1>2, <1>3, <1>4, <2>2, <2>3, Reporting
  <2>4. FALSE \in BOOLEAN /\ 2 \in 0 .. 3 /\ NoJob \in Jobs \cup {NoJob}
    OBVIOUS
  <2> QED BY <2>1, <2>3, <2>4, Zenon
<1>5. CASE j # Root
  <2>1. Reports(p, j, Parent(j), j, FALSE, 2) /\ CompleteIfQueued(j, "failure")
    BY <1>5 DEF FailJob
  <2>2. /\ \A k \in Jobs : queue'[k] = "queued" => queue[k] = "queued"
        /\ ~Queued(j)' /\ outcome'[j] # "none"
    BY <1>1, <1>3, <2>1 DEF CompleteIfQueued, Complete, row, Queued, Pushed, RowsSound
  <2>3. \A q \in Process : ~Handles(q, j)'
    BY <1>1, <2>1, LetsGo DEF Reports, Idle
  <2>4. j \in Flows => Closed(j)'
    BY <1>5, FailJobCloses
  <2>5. ~Owed(j)'
    BY <2>2, <2>3, <2>4 DEF Owed
  <2>6. ASSUME NEW ok \in BOOLEAN, ok = FALSE, NEW tries \in 0 .. 2, tries = 2,
               Reports(p, j, Parent(j), j, ok, tries)
        PROVE  OInv'
    <3>1. j \in Jobs \ {Root}
      BY <1>1, <1>5
    <3> QED BY <1>1, <1>2, <1>3, <2>2, <2>5, <2>6, <3>1, FirstReport
  <2>7. FALSE \in BOOLEAN /\ 2 \in 0 .. 2
    OBVIOUS
  <2> QED BY <2>1, <2>6, <2>7, Zenon
<1> QED BY <1>4, <1>5

\* A flow that is completed, and its parent told.
LEMMA FlowEndsSound ==
    ASSUME OInv, FInv', UNCHANGED flows, faults' \in Nat, faults' >= faults,
           NEW p \in Process, work[p].at \in {"finishing", "chaining"},
           NEW f, f = work[p].flow,
           work[p].at = "finishing" => Queued(work[p].flow),
           NEW verdict \in Ended,
           Queued(work[p].flow) => Complete(work[p].flow, verdict, TRUE),
           ~Queued(work[p].flow) => UNCHANGED <<row, signs>>,
           IF work[p].flow = Root THEN Goes(p, Idle)
           ELSE Reports(p, work[p].job, Parent(work[p].flow), work[p].flow, work[p].ok,
                        IF work[p].tries < 2 THEN 0 ELSE 2)
    PROVE  OInv' /\ Closed(f)'
<1> PICK w : w = work[p]
  OBVIOUS
<1>1. /\ FInv /\ RowsSound /\ work \in [Process -> WorkState]
      /\ w.job \in Jobs /\ f \in Flows /\ f \in Jobs /\ w \in WorkState
      /\ JobKnown(p) /\ Drives(p) /\ Updates(p, f)
  BY UpdatingSound DEF OInv, FInv, Processes, WorkSound, Updates, Updaters, Updating
<1>2. QuietRows
  BY <1>1, FlowEnds
<1>3. RowsMove
  BY <1>1, <1>2, QuietRowsMove
<1>4. /\ \A k \in Jobs : queue'[k] = "queued" => queue[k] = "queued"
      /\ ~Queued(f)' /\ (Queued(f) => outcome'[f] # "none")
  BY <1>1 DEF Complete, row, Queued, RowsSound, Ended
<1>5. ~InProgress(f) /\ ~Closed(f) /\ Begun(f) /\ Pushed(f)
  BY <1>1 DEF Drives, JobKnown, InProgress, Closed, RowsSound, Pushing, Pushers, Updaters
<1>6. \A q \in Process \ {p} : ~Updates(q, f)
  BY <1>1, <1>5 DEF OInv, Processes, NoTwo
<1>7. /\ \A q \in Process : \A g : Pushing(q, g)' => Pushing(q, g)
      /\ \A g : ~Pushing(p, g)'
      /\ \A q \in Process : ~Handles(q, f)'
  <2>1. \A q \in Process : ~Handles(q, f)
    BY <1>1 DEF OInv, Handled, Untouched
  <2>2. (\A q \in Process \ {p} : work'[q] = work[q]) /\ work'[p].at \in {"idle", "reading"}
    <3>1. CASE work[p].flow = Root
      BY <1>1, <3>1 DEF Goes, Idle
    <3>2. CASE work[p].flow # Root
      <4>1. PICK tries : Reports(p, work[p].job, Parent(work[p].flow), work[p].flow,
                                 work[p].ok, tries)
        BY <3>2, Zenon
      <4> QED BY <1>1, <4>1, ReportsReads DEF FInv
    <3> QED BY <3>1, <3>2
  <2> QED BY <2>1, <2>2 DEF Pushing, Pushers, Handles
<1>8. Closed(f)'
  <2>1. outcome'[f] # "none"
    BY <1>1, <1>3, <1>4, <1>5 DEF RowsMove, Pushed
  <2>2. \A q \in Process : ~Pushing(q, f)'
    BY <1>6, <1>7 DEF Pushing, Updates, Pushers, Updaters
  <2> QED BY <1>5, <2>1, <2>2 DEF Closed, InProgress, flows
<1>9. \A g \in Flows : Closed(g) => Closed(g)'
  BY <1>3, <1>7, PlanAssumption DEF Closed, RowsMove, InProgress, flows
<1>10. ~Owed(f)' /\ Owed(f)
  BY <1>1, <1>4, <1>5, <1>7, <1>8 DEF Owed
<1>11. CASE f = Root
  <2>1. Goes(p, Idle)
    BY <1>11
  <2>2. \A q \in Process : work'[q] = work[q] \/ work'[q].at \in {"idle", "unlocking"}
    BY <1>1, <2>1 DEF Goes, Idle
  <2> QED BY <1>2, <1>4, <1>8, <2>2, CalmSound DEF Calm
<1>12. CASE f # Root
  <2>1. w.job \in Jobs \ {Root} /\ f \in Jobs \ {Root} /\ f \notin Leaves
    BY <1>1, <1>12 DEF JobKnown, Updaters, Leaves
  <2>2. Closed(Parent(w.job))' /\ Begun(Parent(w.job))
    BY <1>1, <1>5, <1>8, <1>9, <2>1, ParentIsFlow DEF JobKnown, Updaters
  <2>3. PICK tries \in 0 .. 2 : /\ tries = IF w.tries < 2 THEN 0 ELSE 2
                                /\ w.job \in Flows => tries >= 2
    BY <1>1 DEF JobKnown, Updaters, WorkState
  <2>4. PICK ok \in BOOLEAN : ok = w.ok
    BY <1>1 DEF WorkState
  <2>5. PICK j \in Jobs \ {Root} : j = w.job
    BY <2>1
  <2>6. Reports(p, j, Parent(f), f, ok, tries)
    BY <1>12, <2>3, <2>4, <2>5
  <2>7. outcome'[f] # "none"
    BY <1>8 DEF Closed
  <2> QED BY <1>2, <1>4, <1>8, <1>10, <2>1, <2>2, <2>3, <2>5, <2>6, <2>7, FirstReport
<1> QED BY <1>8, <1>11, <1>12

LEMMA FinishFlowSound == ASSUME OInv, FInv', NEW p \in Process, FinishFlow(p) PROVE OInv'
<1> DEFINE w == work[p]
<1>1. /\ work[p].at \in {"finishing", "chaining"} /\ Queued(work[p].flow)
      /\ faults' \in Nat /\ faults' >= faults /\ UNCHANGED flows
  BY DEF FinishFlow, At, budget, OInv
<1>2. PICK verdict \in Ended : Complete(work[p].flow, verdict, TRUE)
  BY DEF FinishFlow, Ended
<1>3. IF work[p].flow = Root THEN Goes(p, Idle)
      ELSE Reports(p, work[p].job, Parent(work[p].flow), work[p].flow, work[p].ok,
                   IF work[p].tries < 2 THEN 0 ELSE 2)
  BY DEF FinishFlow
<1> QED BY <1>1, <1>2, <1>3, FlowEndsSound

LEMMA FlowIsGoneSound == ASSUME OInv, FInv', NEW p \in Process, FlowIsGone(p) PROVE OInv'
<1>1. /\ faults' \in Nat /\ faults' >= faults /\ UNCHANGED flows /\ Recovers(p)
      /\ work[p].at \in Updaters \ Pushers /\ ~Queued(work[p].flow)
  BY DEF FlowIsGone, At, budget, OInv, Updaters, Pushers
<1> QED BY <1>1, RecoversSound

LEMMA StatementFailsSound ==
    ASSUME OInv, Orderly, FInv', NEW p \in Process, StatementFails(p) PROVE OInv'
<1> DEFINE w == work[p]
<1>1. /\ faults \in Nat /\ faults' \in Nat /\ faults' = faults + 1 /\ UNCHANGED flows
      /\ w.at \in FailsAt /\ w.at # "unlocking" /\ FInv
  BY DEF StatementFails, OInv, Orderly
<1>2. CASE w.at \in {"reading", "updating", "unlocking", "judging", "finishing"} /\ Recovers(p)
  BY <1>1, <1>2, RecoversSound DEF Updaters, Pushers
<1>3. CASE /\ w.at = "starting"
           /\ Goes(p, [Idle EXCEPT !.at = "failing", !.job = w.job])
           /\ UNCHANGED <<row, signs>>
  <2>1. PICK f : f = work[p].flow
    OBVIOUS
  <2>2. /\ f \in Flows /\ f \in Jobs /\ work[p].job = f /\ Updates(p, f) /\ Pushing(p, f)
        /\ Pushed(f) /\ ~Begun(f)
        /\ status[f][step[f]] = "waiting" /\ ~InProgress(f) /\ ~Closed(f)
    <3>1. /\ f \in Flows /\ f \in Jobs /\ Updates(p, f) /\ Pushing(p, f)
          /\ Drives(p) /\ JobKnown(p)
      BY <1>1, <1>3, <2>1, UpdatingSound
         DEF OInv, FInv, Processes, Updates, Updaters, Pushing, Pushers
    <3>2. /\ work[p].job = f /\ Pushed(f) /\ step[f] = 1 /\ status[f][step[f]] = "waiting"
      BY <1>3, <2>1, <3>1 DEF Drives, JobKnown, Updaters, Pushers
    <3> QED BY <3>1, <3>2 DEF Begun, InProgress, Closed
  <2>3. UNCHANGED <<queue, outcome>> /\ QuietRows
    BY <1>3 DEF row, QuietRows
  <2>4. queue'[f] # "queued" /\ \A q \in Process : ~Handles(q, f)
    BY <2>2, <2>3 DEF OInv, Waits, Handled, Untouched
  <2>5. \A q \in Process \ {p} : ~Updates(q, f)
    BY <2>2 DEF OInv, Processes, NoTwo
  <2>6. /\ \A q \in Process \ {p} : work'[q] = work[q]
        /\ work'[p].at \in {"executing", "failing"} /\ work'[p].job = f
    BY <1>1, <1>3, <2>2 DEF Goes, Idle, FInv, WorkSound
  <2> QED BY <1>1, <2>2, <2>3, <2>4, <2>5, <2>6, Takes DEF Owed
<1>4. CASE /\ w.at = "chaining"
           /\ IF Queued(w.flow) THEN Complete(w.flow, "failure", TRUE)
              ELSE UNCHANGED <<row, signs>>
           /\ IF w.flow = Root THEN Goes(p, Idle)
              ELSE Reports(p, w.job, Parent(w.flow), w.flow, w.ok,
                           IF w.tries < 2 THEN 0 ELSE 2)
  <2>1. "failure" \in Ended
    BY DEF Ended
  <2>2. /\ faults' \in Nat /\ faults' >= faults /\ UNCHANGED flows
        /\ work[p].at \in {"finishing", "chaining"}
        /\ work[p].at = "finishing" => Queued(work[p].flow)
    BY <1>1, <1>4
  <2>3. PICK verdict \in Ended :
          /\ Queued(work[p].flow) => Complete(work[p].flow, verdict, TRUE)
          /\ ~Queued(work[p].flow) => UNCHANGED <<row, signs>>
    BY <1>4, <2>1
  <2> QED BY <1>4, <2>2, <2>3, FlowEndsSound
<1> QED BY <1>2, <1>3, <1>4 DEF StatementFails

\* The steps of an update before it writes.
LEMMA Advances ==
    ASSUME OInv, FInv', UNCHANGED <<flows, queue, outcome, faults>>,
           NEW p \in Process, \A q \in Process \ {p} : work'[q] = work[q],
           work[p].at \in Reporters, work'[p].at \in Reporters,
           work'[p].job = work[p].job, work'[p].flow = work[p].flow,
           work'[p].sub = work[p].sub, work'[p].tries = work[p].tries,
           ReportsEnded(p)'
    PROVE  OInv'
<1>1. \A q \in Process : \A g : /\ Updates(q, g)' <=> Updates(q, g)
                                /\ Pushing(q, g)' <=> Pushing(q, g)
                                /\ Handles(q, g)' <=> Handles(q, g)
  BY DEF Updates, Updaters, Reporters, Pushing, Pushers, Handles
<1>2. \A g : /\ InProgress(g)' <=> InProgress(g)
             /\ Begun(g)' <=> Begun(g)
             /\ Closed(g)' <=> Closed(g)
             /\ Pushed(g)' <=> Pushed(g)
             /\ Queued(g)' <=> Queued(g)
  BY <1>1 DEF InProgress, Begun, Closed, Pushed, Queued, flows
<1>3. RowsMove
  BY <1>2 DEF RowsMove
<1>4. Drives(p)'
  BY DEF Drives, Reporters, Pushers
<1>5. JobKnown(p)'
  <2>1. JobKnown(p)
    BY DEF OInv, Processes
  <2> QED BY <1>2, <2>1 DEF JobKnown, Updaters, Reporters
<1>6. \A j \in Jobs : Owed(j)' <=> Owed(j)
  BY <1>1, <1>2 DEF Owed
<1>7. \A q \in Process \ {p} : NoTwo(p, q)'
  <2>1. \A q \in Process \ {p} : NoTwo(p, q)
    BY DEF OInv, Processes
  <2> QED BY <1>1, <1>2, <2>1 DEF NoTwo
<1>8. \A j \in Jobs \ {Root} : Updates(p, Parent(j))' /\ work'[p].sub = j => ~Owed(j)'
  BY <1>1, <1>6 DEF OInv, OwedOnce
<1>9. \A j \in Jobs : Untouched(j)' <=> Untouched(j)
  BY <1>1, <1>2 DEF Untouched
<1>10. Waits' /\ Handled'
  BY <1>1, <1>2, <1>9 DEF OInv, Waits, Handled
<1>11. faults' \in Nat /\ faults' >= faults /\ UNCHANGED flows
  BY DEF OInv
<1> QED BY <1>2, <1>3, <1>4, <1>5, <1>6, <1>7, <1>8, <1>10, <1>11, Moves

LEMMA AdvancesSound ==
    ASSUME OInv, FInv', NEW p \in Process, ReadStatus(p) \/ UnlockAll(p) PROVE OInv'
<1> PICK w : w = work[p]
  OBVIOUS
<1> PICK f : f = w.flow
  OBVIOUS
<1>1. /\ work \in [Process -> WorkState] /\ w \in WorkState /\ f \in Flows
      /\ w.at \in {"reading", "updating"} /\ ReportsEnded(p)
      /\ UNCHANGED <<flows, queue, outcome, faults>> /\ step[f] \in 1 .. Last(f) + 1
  BY UpdatingSound
     DEF ReadStatus, UnlockAll, At, OInv, FInv, WorkSound, Processes, Updating, row, budget,
         ModulesSound
<1>2. UNCHANGED <<flows, queue, outcome, faults>> /\ (InProgress(f)' <=> InProgress(f))
  BY <1>1 DEF InProgress, flows
<1>3. CASE ReadStatus(p)
  <2>1. PICK b \in BOOLEAN : b = (Parallel(f, step[f]) /\ status[f][step[f]] = "progress")
    BY DEF Parallel
  <2> DEFINE read == [w EXCEPT !.at = "updating", !.seen = step[f], !.branchall = b]
  <2>5. Goes(p, read)
    BY <1>3, <2>1 DEF ReadStatus
  <2>2. b <=> Parallel(f, step[f]) /\ InProgress(f)
    BY <2>1 DEF Parallel, InProgress
  <2>3. /\ \A q \in Process \ {p} : work'[q] = work[q]
        /\ work'[p] = [w EXCEPT !.at = "updating", !.seen = step[f], !.branchall = b]
    BY <1>1, <2>5 DEF Goes
  <2>4. ReportsEnded(p)'
    BY <1>1, <1>2, <2>2, <2>3 DEF ReportsEnded, WorkState, Updaters, Reporters, flows
  <2> QED BY <1>1, <2>3, <2>4, Advances DEF WorkState, Reporters
<1>4. CASE UnlockAll(p)
  <2>1. /\ \A q \in Process \ {p} : work'[q] = work[q]
        /\ work'[p] = [w EXCEPT !.at = "judging"]
    BY <1>1, <1>4 DEF UnlockAll, Goes
  <2>2. /\ w.at = "updating" /\ w.branchall
        /\ branch[f][w.seen] + 1 = Cardinality(Plan[f][w.seen])
    BY <1>4 DEF UnlockAll, At
  <2>3. ReportsEnded(p)'
    BY <1>1, <1>2, <2>1, <2>2 DEF ReportsEnded, WorkState, Updaters, Reporters, flows
  <2> QED BY <1>1, <2>1, <2>3, Advances DEF WorkState, Reporters
<1> QED BY <1>3, <1>4

-----------------------------------------------------------------------------
(* The count of the branches.                                              *)

Counts(f, i, sub) ==
    /\ branch' = [branch EXCEPT ![f][i] = @ + 1]
    /\ reported' = reported \cup {sub}

LEMMA CountsSound ==
    ASSUME OInv, PlanIsGenerated, outcome' = outcome, NEW f \in Flows, NEW i \in 1 .. Last(f),
           NEW sub \in Plan[f][i], sub \notin reported, outcome[sub] # "none",
           Counts(f, i, sub)
    PROVE  CountedOnce' /\ BranchSound' /\ \A g \in Flows \ {f} : branch'[g] = branch[g]
<1>1. sub \in Jobs
  BY OneModule
<1>2. PICK n \in Nat : branch[f] \in [1 .. n -> Nat]
  BY DEF OInv, BranchSound
<1>3. 1 .. n = 1 .. Last(f)
  BY <1>2 DEF OInv, BranchSound
<1> DEFINE new == [branch[f] EXCEPT ![i] = branch[f][i] + 1]
<1>4. new \in [1 .. n -> Nat] /\ new[i] = branch[f][i] + 1
      /\ \A k \in 1 .. Last(f) : k # i => new[k] = branch[f][k]
  <2>1. i \in 1 .. n
    BY <1>3
  <2>2. branch[f][i] \in Nat
    BY <1>2, <2>1
  <2>3. branch[f][i] + 1 \in Nat
    BY <2>2
  <2> QED BY <1>2, <1>3, <2>1, <2>3
<1>5. branch' = [branch EXCEPT ![f] = new]
  BY DEF Counts
<1> HIDE DEF new
<1>6. BranchSound'
  <2>1. DOMAIN new = 1 .. Last(f)
    BY <1>3, <1>4
  <2>2. branch' \in [Flows -> UNION {[1 .. m -> Nat] : m \in Nat}]
    BY <1>2, <1>4, <1>5 DEF OInv, BranchSound
  <2>3. \A g \in Flows : DOMAIN branch'[g] = 1 .. Last(g)
    BY <1>5, <2>1 DEF OInv, BranchSound
  <2> QED BY <1>1, <2>2, <2>3 DEF OInv, BranchSound, Counts
<1>7. ASSUME NEW g \in Flows, NEW k \in 1 .. Last(g)
      PROVE  branch'[g][k] = Cardinality(Plan[g][k] \cap reported')
  <2>1. branch[g][k] = Cardinality(Plan[g][k] \cap reported)
    BY DEF OInv, CountedOnce
  <2>2. CASE g = f /\ k = i
    <3>1. branch'[g][k] = branch[g][k] + 1
      BY <1>4, <1>5, <2>2 DEF OInv, BranchSound
    <3>2. IsFiniteSet(Plan[f][i] \cap reported)
      BY FS_Subset DEF PlanIsGenerated
    <3>3. Cardinality((Plan[f][i] \cap reported) \cup {sub})
            = Cardinality(Plan[f][i] \cap reported) + 1
      BY <3>2, FS_AddElement
    <3>4. Plan[f][i] \cap reported' = (Plan[f][i] \cap reported) \cup {sub}
      BY DEF Counts
    <3> QED BY <2>1, <2>2, <3>1, <3>3, <3>4
  <2>3. CASE ~(g = f /\ k = i)
    <3>1. branch'[g][k] = branch[g][k]
      BY <1>4, <1>5, <2>3 DEF OInv, BranchSound
    <3>2. sub \notin Plan[g][k]
      BY <2>3, OneModule
    <3>3. Plan[g][k] \cap reported' = Plan[g][k] \cap reported
      BY <3>2 DEF Counts
    <3> QED BY <2>1, <3>1, <3>3
  <2> QED BY <2>2, <2>3
<1>8. CountedOnce'
  BY <1>7 DEF CountedOnce, Counts, OInv
<1>9. \A g \in Flows \ {f} : branch'[g] = branch[g]
  BY <1>5 DEF OInv, BranchSound
<1> QED BY <1>6, <1>8, <1>9

LEMMA CountBranchSound ==
    ASSUME OInv, PlanIsGenerated, FInv', NEW p \in Process, CountBranch(p) PROVE OInv'
<1> PICK w : w = work[p]
  OBVIOUS
<1> PICK f : f = w.flow
  OBVIOUS
<1> PICK i : i = step[f]
  OBVIOUS
<1>1. /\ work \in [Process -> WorkState] /\ f \in Flows /\ f \in Jobs
      /\ w.at = "updating" /\ Updates(p, f) /\ ReportsEnded(p)
  BY UpdatingSound
     DEF CountBranch, At, OInv, FInv, WorkSound, Processes, Updating, Updates, Updaters
<1>2. w.branchall /\ w.seen = i /\ InProgress(f) /\ i \in 1 .. Last(f)
  BY <1>1 DEF CountBranch, ReportsEnded, InProgress, OInv, ModulesSound
<1>3. PICK sub \in Jobs : /\ sub = w.sub /\ sub \in Plan[f][i] /\ sub \notin reported
                          /\ outcome[sub] # "none"
  BY <1>1, <1>2, OneModule DEF ReportsEnded, Updaters
<1>4. /\ Counts(f, i, sub) /\ UNCHANGED <<queue, outcome, step, status, faults>>
      /\ \A q \in Process \ {p} : work'[q] = work[q]
      /\ work'[p].at = "unlocking"
      /\ \A q \in Process : ~(At(q, "judging") /\ work[q].flow = f)
  BY <1>1, <1>2, <1>3 DEF CountBranch, Counts, row, budget, Goes, WorkState, Free
<1>5. CountedOnce' /\ BranchSound' /\ \A g \in Flows \ {f} : branch'[g] = branch[g]
  BY <1>2, <1>1, <1>3, <1>4, CountsSound
<1>6. \A q \in Process : \A g : /\ Updates(q, g)' <=> q # p /\ Updates(q, g)
                                /\ Pushing(q, g)' <=> Pushing(q, g)
                                /\ Handles(q, g)' <=> Handles(q, g)
  BY <1>1, <1>4 DEF Updates, Updaters, Pushing, Pushers, Handles
<1>7. \A g : /\ InProgress(g)' <=> InProgress(g)
             /\ Begun(g)' <=> Begun(g)
             /\ Pushed(g)' <=> Pushed(g)
             /\ Queued(g)' <=> Queued(g)
             /\ Closed(g)' <=> Closed(g)
  BY <1>4, <1>6 DEF InProgress, Begun, Closed, Pushed, Queued
<1>8. \A q \in Process \ {p} : Updates(q, f) => work[q].sub # sub
  BY <1>1, <1>2, <1>3 DEF OInv, Processes, NoTwo, Closed
<1>9. ModulesSound' /\ NotPushed'
  BY <1>4, <1>7 DEF OInv, ModulesSound, NotPushed
<1>10. ASSUME NEW q \in Process PROVE (Drives(q) /\ ReportsEnded(q) /\ JobKnown(q))'
  <2>1. CASE q = p
    BY <1>4, <2>1 DEF Drives, ReportsEnded, JobKnown, Updaters, Pushers, Reporters
  <2>2. CASE q # p
    <3> PICK v : v = work[q]
      OBVIOUS
    <3> PICK g : g = v.flow
      OBVIOUS
    <3>1. /\ Drives(q) /\ ReportsEnded(q) /\ JobKnown(q) /\ work'[q] = v
          /\ v.at \in Updaters => g \in Flows /\ Updates(q, g)
      BY <1>4, <2>2, UpdatingSound DEF OInv, FInv, Processes, Updates, Updaters, Updating
    <3>2. Drives(q)'
      BY <1>4, <1>7, <3>1 DEF Drives, Pushers
    <3>3. JobKnown(q)'
      BY <1>4, <1>7, <3>1 DEF JobKnown, Updaters
    <3>4. v.at \in Updaters /\ InProgress(g) => v.sub # sub
      <4>1. v.at \in Updaters /\ InProgress(g) =>
                step[g] \in 1 .. Last(g) /\ v.sub \in Plan[g][step[g]]
        BY <3>1 DEF ReportsEnded, InProgress, OInv, ModulesSound
      <4> QED BY <1>1, <1>2, <1>3, <1>8, <2>2, <3>1, <4>1, OneModule
    <3>5. v.at = "judging" => branch'[g] = branch[g]
      BY <1>4, <1>5, <3>1 DEF At, Updaters
    <3>6. ReportsEnded(q)'
      BY <1>4, <1>7, <3>1, <3>4, <3>5 DEF ReportsEnded, Updaters, Reporters, Counts
    <3> QED BY <3>2, <3>3, <3>6
  <2> QED BY <2>1, <2>2
<1>11. ASSUME NEW q \in Process, NEW r \in Process, q # r PROVE NoTwo(q, r)'
  <2>1. NoTwo(q, r)
    BY <1>11 DEF OInv, Processes
  <2> QED BY <1>4, <1>6, <1>7, <2>1 DEF NoTwo
<1>12. \A j \in Jobs : Owed(j)' <=> Owed(j)
  BY <1>6, <1>7 DEF Owed
<1>13. OwedOnce'
  <2>1. ASSUME NEW j \in Jobs \ {Root}, Owed(j) PROVE j # sub
    BY <1>1, <1>2, <1>3, <2>1, ParentOf DEF OInv, OwedOnce
  <2> QED BY <1>4, <1>6, <1>7, <1>12, <2>1 DEF OInv, OwedOnce, Counts
<1>14. \A j \in Jobs : Untouched(j) => Untouched(j)'
  BY <1>6, <1>7 DEF Untouched
<1>15. Waits' /\ Handled'
  BY <1>4, <1>6, <1>7, <1>14 DEF OInv, Waits, Handled
<1> QED BY <1>4, <1>5, <1>9, <1>10, <1>11, <1>13, <1>15 DEF OInv, Processes

-----------------------------------------------------------------------------
(* The end of a module.                                                    *)

\* What a module's end writes.
LEMMA EndModuleWrites ==
    ASSUME OInv, NEW f \in Flows, NEW i, i = step[f], NEW ok \in BOOLEAN, EndModule(f, i, ok),
           ok => i <= Last(f)
    PROVE  /\ \A g \in Flows \ {f} : step'[g] = step[g] /\ status'[g] = status[g]
           /\ step'[f] = IF ok THEN i + 1 ELSE i
           /\ \A k \in 1 .. Last(f) :
                status'[f][k] = IF k # i THEN status[f][k]
                                ELSE IF ok THEN "success" ELSE "failure"
<1>1. /\ StatusSound /\ i \in 1 .. Last(f) + 1 /\ Last(f) \in Nat
  BY PlanAssumption DEF OInv, FInv, ModulesSound, Last
<1>2. /\ \A g \in Flows \ {f} : step'[g] = step[g]
      /\ step'[f] = IF ok THEN i + 1 ELSE i
  BY <1>1 DEF EndModule, StatusSound
<1>3. CASE i > Last(f)
  BY <1>1, <1>2, <1>3 DEF EndModule
<1>4. CASE i <= Last(f)
  <2> DEFINE new == [status[f] EXCEPT ![i] = IF ok THEN "success" ELSE "failure"]
  <2>1. PICK n \in Nat : status[f] \in [1 .. n -> ModuleStatus] /\ 1 .. n = 1 .. Last(f)
    BY <1>1 DEF StatusSound
  <2>2. \A k \in 1 .. Last(f) :
            new[k] = IF k # i THEN status[f][k] ELSE IF ok THEN "success" ELSE "failure"
    BY <1>1, <1>4, <2>1
  <2>3. status' = [status EXCEPT ![f] = new]
    BY <1>1, <1>4 DEF EndModule
  <2> HIDE DEF new
  <2>4. status'[f] = new /\ \A g \in Flows \ {f} : status'[g] = status[g]
    BY <1>1, <2>3 DEF StatusSound
  <2> QED BY <1>2, <2>2, <2>4
<1> QED BY <1>1, <1>3, <1>4

\* Where the process goes that ended the module.
LEMMA ContinuesTo ==
    ASSUME WorkSound, NEW p \in Process, NEW f \in Flows, work[p].flow = f, NEW ok \in BOOLEAN,
           NEW next, Continues(p, ok, next)
    PROVE  /\ \A q \in Process \ {p} : work'[q] = work[q]
           /\ work'[p].flow = f /\ work'[p].job = work[p].job
           /\ work'[p].sub = work[p].sub /\ work'[p].tries = work[p].tries
           /\ \/ /\ work'[p].at = "chaining" /\ work'[p].seen = next
                 /\ ok /\ next <= Last(f)
              \/ /\ work'[p].at = "finishing"
                 /\ work'[p].ok /\ ~work'[p].canceled => ok /\ ~(next <= Last(f))
<1> DEFINE w == work[p]
           chain == [w EXCEPT !.at = "chaining", !.ok = ok, !.seen = next, !.branchall = FALSE]
           finish == [w EXCEPT !.at = "finishing", !.canceled = Canceled(f), !.seen = 0,
                               !.branchall = FALSE, !.ok = ok /\ w.seen <= Last(f)]
<1>1. work \in [Process -> WorkState] /\ w \in WorkState
  BY DEF WorkSound
<1>2. CASE ok /\ next <= Last(f) /\ ~Canceled(f)
  <2>1. Goes(p, chain)
    BY <1>2 DEF Continues
  <2>2. /\ chain.flow = f /\ chain.job = w.job /\ chain.sub = w.sub /\ chain.tries = w.tries
        /\ chain.at = "chaining" /\ chain.seen = next
    BY <1>1 DEF WorkState
  <2> HIDE DEF chain
  <2> QED BY <1>1, <1>2, <2>1, <2>2 DEF Goes
<1>3. CASE ~(ok /\ next <= Last(f) /\ ~Canceled(f))
  <2>1. Goes(p, finish)
    BY <1>3 DEF Continues
  <2>2. /\ finish.flow = f /\ finish.job = w.job /\ finish.sub = w.sub
        /\ finish.tries = w.tries /\ finish.at = "finishing"
        /\ finish.ok = (ok /\ w.seen <= Last(f)) /\ finish.canceled = Canceled(f)
    BY <1>1 DEF WorkState
  <2> HIDE DEF finish
  <2>3. finish.ok /\ ~finish.canceled => ok /\ ~(next <= Last(f))
    BY <1>3, <2>2
  <2>4. work'[p] = finish /\ \A q \in Process \ {p} : work'[q] = work[q]
    BY <1>1, <2>1 DEF Goes
  <2> QED BY <2>2, <2>3, <2>4
<1> QED BY <1>2, <1>3

\* The end of a module that only one process updates and in which nothing is
\* left.
LEMMA ModuleEnds ==
    ASSUME OInv, FInv', NEW p \in Process, NEW f \in Flows, NEW i, i = step[f],
           Updates(p, f), work[p].at \in {"updating", "judging"}, Queued(f),
           UNCHANGED <<queue, outcome, faults>>,
           NEW ok \in BOOLEAN, EndModule(f, i, ok), Continues(p, ok, i + 1),
           BranchSound', CountedOnce', \A g \in Flows \ {f} : branch'[g] = branch[g],
           \A g \in Flows \ {f} : \A k \in 1 .. Last(g) : \A j \in Plan[g][k] :
                j \in reported' => j \in reported,
           \A q \in Process \ {p} : ~Updates(q, f),
           \A j \in Jobs \ {Root} : Owed(j) => Parent(j) # f,
           ok => i <= Last(f),
           i <= Last(f) => \A j \in Plan[f][i] :
                IF ok THEN outcome[j] = "success" ELSE ~Queued(j)
    PROVE  OInv'
<1>1. /\ i \in 1 .. Last(f) + 1 /\ Last(f) \in Nat /\ 1 <= Last(f) /\ f \in Jobs
      /\ WorkSound /\ work \in [Process -> WorkState] /\ work[p].flow = f /\ RowsSound
      /\ \A k \in 1 .. Last(f) : /\ k < i => status[f][k] = "success"
                                 /\ k > i => status[f][k] = "waiting"
  <2>1. Last(f) \in Nat /\ 1 <= Last(f) /\ f \in Jobs
    BY PlanAssumption DEF Last
  <2>2. WorkSound /\ RowsSound /\ ModulesSound
    BY DEF OInv, FInv
  <2> QED BY <2>1, <2>2 DEF ModulesSound, Updates, WorkSound
<1>2. /\ \A g \in Flows \ {f} : step'[g] = step[g] /\ status'[g] = status[g]
      /\ step'[f] = IF ok THEN i + 1 ELSE i
      /\ \A k \in 1 .. Last(f) : status'[f][k] = IF k # i THEN status[f][k]
                                                 ELSE IF ok THEN "success" ELSE "failure"
  BY EndModuleWrites
<1>3. /\ \A q \in Process \ {p} : work'[q] = work[q]
      /\ work'[p].flow = f /\ work'[p].job = work[p].job
      /\ work'[p].sub = work[p].sub /\ work'[p].tries = work[p].tries
      /\ \/ /\ work'[p].at = "chaining" /\ work'[p].seen = i + 1
            /\ ok /\ i + 1 <= Last(f)
         \/ /\ work'[p].at = "finishing"
            /\ work'[p].ok /\ ~work'[p].canceled => ok /\ ~(i + 1 <= Last(f))
  <2>1. PICK next : next = i + 1
    OBVIOUS
  <2>2. Continues(p, ok, next)
    BY <2>1
  <2> QED BY <1>1, <2>1, <2>2, ContinuesTo
<1>4. ~InProgress(f)' /\ Begun(f)' /\ (ok /\ i + 1 <= Last(f) => status'[f][i + 1] = "waiting")
  BY <1>1, <1>2 DEF InProgress, Begun
<1>5. \A g \in Flows \ {f} : (InProgress(g)' <=> InProgress(g)) /\ (Begun(g)' <=> Begun(g))
  BY <1>2 DEF InProgress, Begun
<1>6. /\ \A g : \A q \in Process \ {p} : /\ Updates(q, g)' <=> Updates(q, g)
                                         /\ Pushing(q, g)' <=> Pushing(q, g)
                                         /\ Handles(q, g)' <=> Handles(q, g)
      /\ \A g : ~Handles(p, g)' /\ ~Handles(p, g) /\ ~Pushing(p, g)
      /\ \A g : g # f => ~Updates(p, g)' /\ ~Pushing(p, g)'
  BY <1>1, <1>3 DEF Updates, Pushing, Pushers, Handles
<1>7. \A j : (Pushed(j)' <=> Pushed(j)) /\ (Queued(j)' <=> Queued(j))
  BY DEF Pushed, Queued
<1>8. Pushed(f) /\ outcome[f] = "none" /\ \A g \in Flows : Closed(g)' <=> Closed(g)
  <2>1. Pushed(f) /\ outcome[f] = "none"
    BY <1>1 DEF Pushed, RowsSound
  <2>2. ~Closed(f) /\ ~Closed(f)'
    BY <2>1 DEF Closed
  <2>3. \A g \in Flows \ {f} : Closed(g)' <=> Closed(g)
    BY <1>5, <1>6 DEF Closed
  <2> QED BY <2>1, <2>2, <2>3
<1>9. ModulesSound'
  <2>1. ASSUME NEW g \in Flows \ {f}
        PROVE  /\ step'[g] \in 1 .. Last(g) + 1
               /\ \A k \in 1 .. Last(g) :
                    /\ k < step'[g] => status'[g][k] = "success"
                    /\ k > step'[g] => status'[g][k] = "waiting"
                    /\ status'[g][k] = "success" => \A j \in Plan[g][k] : outcome'[j] = "success"
                    /\ status'[g][k] = "failure" => \A j \in Plan[g][k] : ~Queued(j)'
    BY <1>2, <1>7 DEF OInv, ModulesSound
  <2>2. step'[f] \in 1 .. Last(f) + 1
    BY <1>1, <1>2
  <2>3. ASSUME NEW k \in 1 .. Last(f)
        PROVE  /\ k < step'[f] => status'[f][k] = "success"
               /\ k > step'[f] => status'[f][k] = "waiting"
    BY <1>1, <1>2
  <2>4. ASSUME NEW k \in 1 .. Last(f)
        PROVE  /\ status'[f][k] = "success" => \A j \in Plan[f][k] : outcome'[j] = "success"
               /\ status'[f][k] = "failure" => \A j \in Plan[f][k] : ~Queued(j)'
    <3>1. CASE k = i
      BY <1>2, <1>7, <3>1
    <3>2. CASE k # i
      BY <1>2, <1>7, <3>2 DEF OInv, ModulesSound
    <3> QED BY <3>1, <3>2
  <2> QED BY <2>1, <2>2, <2>3, <2>4 DEF ModulesSound
<1>10. NotPushed'
  BY <1>5, <1>7, <1>8 DEF OInv, NotPushed
<1>11. (Drives(p) /\ ReportsEnded(p) /\ JobKnown(p))'
  <2>1. Drives(p)'
    BY <1>1, <1>2, <1>3, <1>4 DEF Drives, Pushers
  <2>2. ReportsEnded(p)'
    BY <1>3, <1>4 DEF ReportsEnded
  <2>3. PICK j : j = work[p].job
    OBVIOUS
  <2>4. JobKnown(p) /\ j \in Jobs
    <3>1. work[p].at \in Updating
      BY DEF Updating
    <3>2. j \in Jobs
      BY <1>1, <2>3, <3>1, UpdatingSound
    <3> QED BY <3>2 DEF OInv, Processes
  <2>5. j # Root => /\ Parent(j) \in Flows
                    /\ Closed(Parent(j)) => Closed(Parent(j))'
                    /\ Begun(Parent(j)) => Begun(Parent(j))'
    BY <1>4, <1>5, <1>8, <2>4, ParentIsFlow
  <2>6. JobKnown(p)'
    BY <1>1, <1>3, <1>7, <1>8, <2>3, <2>4, <2>5 DEF JobKnown, Updaters
  <2> QED BY <2>1, <2>2, <2>6
<1>12. ASSUME NEW q \in Process \ {p} PROVE (Drives(q) /\ ReportsEnded(q) /\ JobKnown(q))'
  <2> PICK v : v = work[q]
    OBVIOUS
  <2> PICK g : g = v.flow
    OBVIOUS
  <2> PICK j : j = v.job
    OBVIOUS
  <2>1. /\ Drives(q) /\ ReportsEnded(q) /\ JobKnown(q) /\ work'[q] = v
        /\ v.at \in Updaters => g \in Flows \ {f} /\ j \in Jobs
    BY <1>3, UpdatingSound DEF OInv, FInv, Processes, Updates, Updaters, Updating
  <2>2. Drives(q)'
    BY <1>2, <1>5, <2>1 DEF Drives, Pushers, Updaters
  <2>3. v.at \in Updaters /\ j # Root =>
            /\ Closed(Parent(j)) => Closed(Parent(j))'
            /\ Begun(Parent(j)) => Begun(Parent(j))'
    BY <1>4, <1>5, <1>8, <2>1, ParentIsFlow
  <2>4. JobKnown(q)'
    BY <1>7, <2>1, <2>3 DEF JobKnown
  <2>5. v.at \in Updaters /\ InProgress(g) => (v.sub \notin reported => v.sub \notin reported')
    BY <2>1 DEF ReportsEnded, InProgress, OInv, ModulesSound
  <2>6. ReportsEnded(q)'
    <3>1. v.at \in Updaters => /\ step'[g] = step[g] /\ branch'[g] = branch[g]
                               /\ InProgress(g)' <=> InProgress(g)
      BY <1>2, <1>5, <2>1
    <3> QED BY <2>1, <2>5, <3>1 DEF ReportsEnded, Updaters, Reporters
  <2> QED BY <2>2, <2>4, <2>6
<1>13. ASSUME NEW q \in Process, NEW r \in Process, q # r PROVE NoTwo(q, r)'
  <2>1. NoTwo(q, r)
    BY <1>13 DEF OInv, Processes
  <2>2. ASSUME NEW g, Updates(q, g)', Updates(r, g)' PROVE g # f /\ q # p /\ r # p
    BY <1>6, <1>13, <2>2
  <2>3. \A g : (Updates(q, g) => g \in Flows)
    BY UpdatingSound DEF OInv, FInv, Updates, Updaters, Updating
  <2> QED BY <1>3, <1>5, <1>6, <1>8, <2>1, <2>2, <2>3 DEF NoTwo
<1>14. \A j \in Jobs : Owed(j)' <=> Owed(j)
  BY <1>6, <1>7, <1>8 DEF Owed
<1>15. OwedOnce'
  <2>1. ASSUME NEW j \in Jobs \ {Root}, Owed(j)'
        PROVE  /\ InProgress(Parent(j))'
               /\ j \in Plan[Parent(j)][step'[Parent(j)]] /\ j \notin reported'
               /\ \A q \in Process : Updates(q, Parent(j))' => work'[q].sub # j
    <3>1. PICK g \in Flows \ {f} : g = Parent(j)
      BY <1>14, <2>1, ParentIsFlow
    <3>2. /\ InProgress(g) /\ j \in Plan[g][step[g]] /\ j \notin reported
          /\ \A q \in Process : Updates(q, g) => work[q].sub # j
      BY <1>14, <2>1, <3>1 DEF OInv, OwedOnce
    <3>3. step[g] \in 1 .. Last(g)
      BY <3>2 DEF InProgress, OInv, ModulesSound
    <3>4. InProgress(g)' /\ j \in Plan[g][step'[g]] /\ j \notin reported'
      BY <1>2, <1>5, <3>2, <3>3
    <3>5. \A q \in Process : Updates(q, g)' => work'[q].sub # j
      BY <1>3, <1>6, <3>2
    <3> QED BY <3>1, <3>4, <3>5
  <2> QED BY <2>1 DEF OwedOnce
<1>16. \A j \in Jobs : Untouched(j) => j # f /\ Untouched(j)'
  BY <1>5, <1>6 DEF Untouched
<1>17. Waits' /\ Handled'
  <2>1. Waits'
    BY <1>6, <1>16 DEF OInv, Waits
  <2>2. Handled'
    BY <1>6, <1>7, <1>16 DEF OInv, Handled
  <2> QED BY <2>1, <2>2
<1>18. faults' \in Nat
  BY DEF OInv
<1> QED BY <1>9, <1>10, <1>11, <1>12, <1>13, <1>15, <1>17, <1>18 DEF OInv, Processes

LEMMA JudgeBranchesSound ==
    ASSUME OInv, PlanIsGenerated, FInv', NEW p \in Process, JudgeBranches(p) PROVE OInv'
<1> PICK w : w = work[p]
  OBVIOUS
<1> PICK f : f = w.flow
  OBVIOUS
<1> PICK i : i = step[f]
  OBVIOUS
<1>1. f \in Flows /\ w.at = "judging" /\ Updates(p, f) /\ ReportsEnded(p)
  BY UpdatingSound DEF JudgeBranches, At, OInv, FInv, Processes, Updating, Updates, Updaters
<1>2. /\ InProgress(f) /\ Parallel(f, i) /\ w.seen = i /\ i \in 1 .. Last(f)
      /\ branch[f][i] + 1 = Cardinality(Plan[f][i])
      /\ w.sub \in Plan[f][i] /\ w.sub \notin reported /\ outcome[w.sub] # "none"
  <2>1. i \in 1 .. Last(f) + 1 /\ Last(f) \in Nat
    BY <1>1, PlanAssumption DEF OInv, ModulesSound, Last
  <2>2. /\ InProgress(f) /\ Parallel(f, i) /\ w.seen = i
        /\ branch[f][i] + 1 = Cardinality(Plan[f][i])
    BY <1>1 DEF ReportsEnded
  <2> QED BY <1>1, <2>1, <2>2 DEF ReportsEnded, InProgress, Updaters
<1>3. PICK sub \in Jobs : sub = w.sub
  BY <1>1, <1>2, OneModule
<1>4. \A j \in Plan[f][i] : j \notin reported => j = sub
  <2>1. IsFiniteSet(Plan[f][i]) /\ Cardinality(Plan[f][i] \cap reported) + 1
                                      = Cardinality(Plan[f][i])
    BY <1>1, <1>2 DEF PlanIsGenerated, OInv, CountedOnce
  <2> QED BY <1>2, <1>3, <2>1, LastOne
<1>5. ASSUME NEW q \in Process \ {p} PROVE ~Updates(q, f)
  <2> SUFFICES ASSUME Updates(q, f) PROVE FALSE
    OBVIOUS
  <2>1. ReportsEnded(q) /\ NoTwo(p, q)
    BY DEF OInv, Processes
  <2>2. work[q].sub \in Plan[f][i] /\ work[q].sub \notin reported
    BY <1>2, <2>1 DEF ReportsEnded, Updates
  <2>3. work[q].sub # sub
    BY <1>1, <1>2, <1>3, <2>1 DEF NoTwo, Closed
  <2> QED BY <1>4, <2>2, <2>3
<1>6. ASSUME NEW j \in Jobs \ {Root}, Owed(j) PROVE Parent(j) # f
  <2> SUFFICES ASSUME Parent(j) = f PROVE FALSE
    OBVIOUS
  <2>1. j \in Plan[f][i] /\ j \notin reported /\ w.sub # j
    BY <1>1, <1>6 DEF OInv, OwedOnce
  <2> QED BY <1>3, <1>4, <2>1
<1>7. PICK ok \in BOOLEAN : ok = Judged(f, i)
  BY DEF Judged
<1>8. /\ Queued(f) /\ UNCHANGED <<queue, outcome, faults>> /\ Counts(f, i, sub)
      /\ EndModule(f, i, ok) /\ Continues(p, ok, i + 1)
  BY <1>2, <1>3, <1>7 DEF JudgeBranches, row, budget, Counts
<1>9. CountedOnce' /\ BranchSound' /\ \A g \in Flows \ {f} : branch'[g] = branch[g]
  BY <1>1, <1>2, <1>3, <1>8, CountsSound
<1>10. \A g \in Flows \ {f} : \A k \in 1 .. Last(g) : \A j \in Plan[g][k] :
            j \in reported' => j \in reported
  BY <1>1, <1>2, <1>3, <1>8, OneModule DEF Counts
<1>11. ASSUME NEW j \in Plan[f][i] PROVE IF ok THEN outcome[j] = "success" ELSE ~Queued(j)
  <2>1. outcome[j] # "none"
    BY <1>2, <1>3, <1>4 DEF OInv, CountedOnce
  <2>2. Queued(j) => FALSE
    BY <1>1, <1>2, <1>6, OneModule, ParentOf DEF Owed
  <2> QED BY <1>7, <2>1, <2>2 DEF Judged
<1>12. ok => i <= Last(f)
  BY <1>2
<1>13. \A q \in Process \ {p} : ~Updates(q, f)
  BY <1>5
<1>14. \A j \in Jobs \ {Root} : Owed(j) => Parent(j) # f
  BY <1>6
<1>15. work[p].at \in {"updating", "judging"}
  BY <1>1
<1> QED BY <1>1, <1>8, <1>9, <1>10, <1>11, <1>12, <1>13, <1>14, <1>15, ModuleEnds

LEMMA EndStepSound ==
    ASSUME OInv, PlanIsGenerated, FInv', NEW p \in Process, EndStep(p) PROVE OInv'
<1> PICK w : w = work[p]
  OBVIOUS
<1> PICK f : f = w.flow
  OBVIOUS
<1> PICK i : i = step[f]
  OBVIOUS
<1> PICK ok : ok = w.ok
  OBVIOUS
<1>1. /\ f \in Flows /\ w.at = "updating" /\ Updates(p, f) /\ ReportsEnded(p) /\ ok \in BOOLEAN
      /\ w.seen = i /\ i \in 1 .. Last(f) + 1 /\ Last(f) \in Nat
  <2>1. w.at = "updating" /\ ReportsEnded(p) /\ ModulesSound /\ WorkSound
    BY DEF EndStep, At, OInv, FInv, Processes
  <2>2. f \in Flows /\ ok \in BOOLEAN
    BY <2>1, UpdatingSound DEF Updating, WorkState
  <2> QED BY <2>1, <2>2, PlanAssumption
          DEF ReportsEnded, ModulesSound, Updates, Updaters, Last
<1>2. /\ ~w.branchall /\ Queued(f) /\ UNCHANGED <<queue, outcome, faults, branch, reported>>
      /\ EndModule(f, i, ok) /\ Continues(p, ok, i + 1)
  BY <1>1 DEF EndStep, row, budget
<1>3. ~Closed(f)
  <2>1. f \in Jobs /\ RowsSound
    BY <1>1, PlanAssumption DEF OInv, FInv
  <2> QED BY <1>2, <2>1 DEF Closed, RowsSound
<1>4. InProgress(f) =>
        /\ i \in 1 .. Last(f) /\ Plan[f][i] = {w.sub} /\ w.sub \in Leaves
        /\ outcome[w.sub] # "none" /\ (ok => outcome[w.sub] = "success")
  <2> SUFFICES ASSUME InProgress(f)
               PROVE  /\ i \in 1 .. Last(f) /\ Plan[f][i] = {w.sub} /\ w.sub \in Leaves
                      /\ outcome[w.sub] # "none" /\ (ok => outcome[w.sub] = "success")
    OBVIOUS
  <2>1. /\ i \in 1 .. Last(f) /\ w.sub \in Plan[f][i] /\ outcome[w.sub] # "none"
        /\ ~Parallel(f, i) /\ (ok /\ w.sub \in Leaves => outcome[w.sub] = "success")
    BY <1>1, <1>2 DEF ReportsEnded, InProgress, Updaters
  <2>2. /\ IsFiniteSet(Plan[f][i]) /\ Plan[f][i] \subseteq Leaves
        /\ Cardinality(Plan[f][i]) <= 1
    <3>1. IsFiniteSet(Plan[f][i]) /\ Plan[f][i] \subseteq Leaves
      BY <1>1, <2>1 DEF PlanIsGenerated
    <3> QED BY <2>1, <3>1, FS_CardinalityType DEF Parallel
  <2>3. \A j \in Plan[f][i] : j = w.sub
    BY <2>1, <2>2, OnlyOne
  <2> QED BY <2>1, <2>2, <2>3
<1>5. ASSUME NEW q \in Process \ {p} PROVE ~Updates(q, f)
  <2> SUFFICES ASSUME Updates(q, f) PROVE FALSE
    OBVIOUS
  <2>1. ReportsEnded(q) /\ NoTwo(p, q)
    BY DEF OInv, Processes
  <2>2. InProgress(f) /\ work[q].sub # w.sub
    BY <1>1, <1>3, <2>1 DEF NoTwo
  <2>3. work[q].sub \in Plan[f][i]
    BY <2>1, <2>2 DEF ReportsEnded, Updates
  <2> QED BY <1>4, <2>2, <2>3
<1>6. ASSUME NEW j \in Jobs \ {Root}, Owed(j) PROVE Parent(j) # f
  <2> SUFFICES ASSUME Parent(j) = f PROVE FALSE
    OBVIOUS
  <2>1. InProgress(f) /\ j \in Plan[f][i] /\ w.sub # j
    BY <1>1, <1>6 DEF OInv, OwedOnce
  <2> QED BY <1>4, <2>1
<1>7. ok => InProgress(f)
  BY <1>1 DEF ReportsEnded
<1>8. ASSUME i <= Last(f), NEW j \in Plan[f][i]
      PROVE  IF ok THEN outcome[j] = "success" ELSE ~Queued(j)
  <2>1. ok => outcome[j] = "success"
    BY <1>4, <1>7
  <2>2. j \in Jobs \ {Root} /\ Parent(j) = f
    BY <1>1, <1>8, OneModule, ParentOf
  <2>3. ~Queued(j)
    BY <1>6, <2>2 DEF Owed
  <2> QED BY <2>1, <2>3
<1>9. CountedOnce' /\ BranchSound' /\ \A g \in Flows \ {f} : branch'[g] = branch[g]
  BY <1>2 DEF OInv, CountedOnce, BranchSound
<1>10. ok => i <= Last(f)
  BY <1>4, <1>7
<1>11. \A q \in Process \ {p} : ~Updates(q, f)
  BY <1>5
<1>12. \A j \in Jobs \ {Root} : Owed(j) => Parent(j) # f
  BY <1>6
<1>13. work[p].at \in {"updating", "judging"} /\ \A j : j \in reported' => j \in reported
  BY <1>1, <1>2
<1>14. i <= Last(f) => \A j \in Plan[f][i] : IF ok THEN outcome[j] = "success" ELSE ~Queued(j)
  BY <1>8
<1> QED BY <1>1, <1>2, <1>9, <1>10, <1>11, <1>12, <1>13, <1>14, ModuleEnds

-----------------------------------------------------------------------------
(* The steps that push jobs.                                               *)

\* Nobody has to do with a job that was never pushed.
LEMMA NeverPushed ==
    ASSUME OInv, NEW j \in Jobs, ~Pushed(j)
    PROVE  /\ j \notin reported /\ Untouched(j) /\ \A q \in Process : ~Handles(q, j)
<1>1. j \notin reported /\ \A q \in Process : ~Handles(q, j)
  BY DEF OInv, CountedOnce, Handled, Pushed
<1>2. \A q \in Process : ~Updates(q, j)
  BY DEF OInv, Processes, JobKnown, Updates
<1> QED BY <1>1, <1>2 DEF OInv, NotPushed, Untouched

LEMMA PushNextOrder == ASSUME OInv, FInv', NEW p \in Process, PushNext(p) PROVE OInv'
<1> PICK f : f = work[p].flow
  OBVIOUS
<1> PICK i : i = work[p].seen
  OBVIOUS
<1> DEFINE new == Plan[f][i]
<1>1. /\ WorkSound /\ RowsSound /\ StatusSound /\ WaitingUntouched /\ ModulesSound
      /\ Drives(p) /\ JobKnown(p) /\ work \in [Process -> WorkState]
      /\ work[p].at \in Pushers
  BY DEF OInv, FInv, WorkSound, Processes, PushNext, At, Pushers
<1>2. /\ f \in Flows /\ f \in Jobs /\ i \in 1 .. Last(f) /\ status[f][i] = "waiting"
      /\ i = step[f] /\ Updates(p, f) /\ Pushing(p, f) /\ Pushed(f)
  <2>1. i \in 1 .. Last(f) /\ f \in Flows /\ f \in Jobs
    BY <1>1, UpdatingSound DEF PushNext, Pushers
  <2>2. i = step[f] /\ status[f][i] = "waiting" /\ Updates(p, f) /\ Pushing(p, f)
    BY <1>1 DEF Drives, Updates, Updaters, Pushing, Pushers
  <2> QED BY <1>1, <2>1, <2>2 DEF JobKnown, Updates
<1>3. /\ new \subseteq Jobs \ {Root} /\ \A j \in new : Parent(j) = f /\ ~Pushed(j)
      /\ f \notin new
  <2>1. \A j \in new : ~Pushed(j)
    BY <1>1, <1>2 DEF WaitingUntouched
  <2> QED BY <1>2, <2>1, OneModule, ParentOf
<1>4. /\ \A j \in new : queue'[j] = "queued"
      /\ \A j \in Jobs \ new : queue'[j] = queue[j]
      /\ UNCHANGED <<outcome, step, branch, reported, faults>>
  BY <1>1, <1>2, <1>3 DEF PushNext, StatusSound, budget
<1>5. /\ status'[f][i] = "progress"
      /\ \A k \in 1 .. Last(f) : k # i => status'[f][k] = status[f][k]
      /\ \A g \in Flows \ {f} : status'[g] = status[g]
  <2>1. status' = [status EXCEPT ![f][i] = "progress"]
    BY DEF PushNext
  <2> QED BY <1>1, <1>2, <2>1 DEF StatusSound
<1>6. (\A q \in Process \ {p} : work'[q] = work[q]) /\ work'[p].at = "idle"
  BY <1>1 DEF PushNext, Goes, Idle
<1> HIDE DEF new
<1>7. ~Closed(f) /\ ~Closed(f)' /\ ~InProgress(f) /\ InProgress(f)' /\ Begun(f)'
  <2>1. Last(f) \in Nat
    BY <1>2, PlanAssumption DEF Last
  <2> QED BY <1>2, <1>4, <1>5, <2>1 DEF Closed, InProgress, Begun
<1>8. \A q \in Process \ {p} : ~Updates(q, f)
  BY <1>2, <1>7 DEF OInv, Processes, NoTwo
<1>9. \A q \in Process : \A g : /\ Updates(q, g)' <=> q # p /\ Updates(q, g)
                                /\ Pushing(q, g)' <=> q # p /\ Pushing(q, g)
                                /\ Handles(q, g)' <=> Handles(q, g)
  BY <1>1, <1>6 DEF Updates, Updaters, Pushing, Pushers, Handles
<1>10. \A g \in Flows \ {f} : /\ InProgress(g)' <=> InProgress(g)
                              /\ Begun(g)' <=> Begun(g)
                              /\ Closed(g)' <=> Closed(g)
                              /\ ~Updates(p, g) /\ ~Pushing(p, g)
  BY <1>2, <1>4, <1>5, <1>9 DEF InProgress, Begun, Closed, Updates, Pushing
<1>11. \A j \in Jobs : /\ Queued(j)' <=> j \in new \/ Queued(j)
                       /\ Pushed(j)' <=> j \in new \/ Pushed(j)
  BY <1>4 DEF Queued, Pushed
<1>12. ModulesSound'
  <2>1. ASSUME NEW g \in Flows, NEW k \in 1 .. Last(g), ~(g = f /\ k = i)
        PROVE  status'[g][k] = status[g][k] /\ \A j \in Plan[g][k] : Queued(j)' <=> Queued(j)
    <3>1. \A j \in Plan[g][k] : j \in Jobs /\ j \notin new
      BY <1>2, <2>1, OneModule DEF new
    <3> QED BY <1>5, <1>11, <2>1, <3>1
  <2>2. ASSUME NEW g \in Flows, NEW k \in 1 .. Last(g)
        PROVE  /\ k < step[g] => status'[g][k] = "success"
               /\ k > step[g] => status'[g][k] = "waiting"
               /\ status'[g][k] = "success" => \A j \in Plan[g][k] : outcome[j] = "success"
               /\ status'[g][k] = "failure" => \A j \in Plan[g][k] : ~Queued(j)'
    <3>1. CASE g = f /\ k = i
      BY <1>2, <1>5, <3>1, PlanAssumption DEF Last
    <3>2. CASE ~(g = f /\ k = i)
      BY <1>1, <2>1, <3>2 DEF ModulesSound
    <3> QED BY <3>1, <3>2
  <2> QED BY <1>1, <1>4, <2>2 DEF ModulesSound
<1>13. NotPushed'
  BY <1>2, <1>10, <1>11, PlanAssumption DEF OInv, NotPushed
<1>14. BranchSound' /\ CountedOnce' /\ faults' \in Nat
  BY <1>4 DEF OInv, BranchSound, CountedOnce
<1>15. ASSUME NEW q \in Process PROVE (Drives(q) /\ ReportsEnded(q) /\ JobKnown(q))'
  <2>1. CASE q = p
    BY <1>6, <2>1 DEF Drives, ReportsEnded, JobKnown, Updaters, Pushers, Reporters
  <2>2. CASE q # p
    <3> PICK v : v = work[q]
      OBVIOUS
    <3> PICK g : g = v.flow
      OBVIOUS
    <3> PICK j : j = v.job
      OBVIOUS
    <3>1. /\ Drives(q) /\ ReportsEnded(q) /\ JobKnown(q) /\ work'[q] = v
          /\ v.at \in Updaters => g \in Flows \ {f} /\ g \in Jobs /\ j \in Jobs
      <4>1. v.at \in Updaters => g \in Flows /\ g \in Jobs /\ j \in Jobs /\ Updates(q, g)
        BY <1>1, UpdatingSound DEF Updates, Updaters, Updating
      <4> QED BY <1>6, <1>8, <2>2, <4>1 DEF OInv, Processes
    <3>2. v.at \in Updaters =>
            /\ status'[g] = status[g] /\ (InProgress(g)' <=> InProgress(g))
            /\ (Begun(g)' <=> Begun(g)) /\ Pushed(g)' /\ (Queued(g)' <=> Queued(g))
      BY <1>3, <1>5, <1>10, <1>11, <3>1 DEF JobKnown
    <3>3. v.at \in Updaters /\ j # Root =>
            /\ Closed(Parent(j)) => Closed(Parent(j))'
            /\ Begun(Parent(j)) => Begun(Parent(j))'
      BY <1>7, <1>10, <3>1, ParentIsFlow
    <3>4. Drives(q)'
      BY <1>4, <3>1, <3>2 DEF Drives, Pushers, Updaters
    <3>5. ReportsEnded(q)'
      BY <1>4, <3>1, <3>2 DEF ReportsEnded, Updaters, Reporters
    <3>6. JobKnown(q)'
      BY <1>4, <3>1, <3>2, <3>3 DEF JobKnown
    <3> QED BY <3>4, <3>5, <3>6
  <2> QED BY <2>1, <2>2
<1>16. ASSUME NEW q \in Process, NEW r \in Process, q # r PROVE NoTwo(q, r)'
  <2>1. NoTwo(q, r)
    BY <1>16 DEF OInv, Processes
  <2>2. \A g : Updates(q, g) => g \in Flows
    BY <1>1, UpdatingSound DEF Updates, Updaters, Updating
  <2> QED BY <1>6, <1>8, <1>9, <1>10, <2>1, <2>2 DEF NoTwo
<1>17. \A j \in Jobs : Owed(j)' => j \in new \/ Owed(j)
  BY <1>7, <1>9, <1>10, <1>11 DEF Owed
<1>18. OwedOnce'
  <2>1. ASSUME NEW j \in Jobs \ {Root}, Owed(j)'
        PROVE  /\ InProgress(Parent(j))'
               /\ j \in Plan[Parent(j)][step'[Parent(j)]] /\ j \notin reported'
               /\ \A q \in Process : Updates(q, Parent(j))' => work'[q].sub # j
    <3>1. CASE j \in new
      <4>1. j \notin reported /\ Parent(j) = f
        BY <1>3, <3>1, NeverPushed
      <4>2. \A q \in Process : ~Updates(q, f)'
        BY <1>8, <1>9
      <4> QED BY <1>2, <1>4, <1>7, <3>1, <4>1, <4>2 DEF new
    <3>2. CASE j \notin new
      <4>1. /\ InProgress(Parent(j))
            /\ j \in Plan[Parent(j)][step[Parent(j)]] /\ j \notin reported
            /\ \A q \in Process : Updates(q, Parent(j)) => work[q].sub # j
        BY <1>17, <2>1, <3>2 DEF OInv, OwedOnce
      <4>2. Parent(j) \in Flows \ {f}
        BY <1>7, <4>1, ParentIsFlow
      <4> QED BY <1>4, <1>6, <1>9, <1>10, <4>1, <4>2
    <3> QED BY <3>1, <3>2
  <2> QED BY <2>1 DEF OwedOnce
<1>19. \A j \in Jobs : Untouched(j) => j # f /\ Untouched(j)'
  BY <1>2, <1>9, <1>10 DEF Untouched
<1>20. Waits'
  <2>1. ASSUME NEW j \in Jobs, queue'[j] = "queued"
        PROVE  Untouched(j) /\ \A q \in Process : ~Handles(q, j)
    BY <1>3, <1>4, <2>1, NeverPushed DEF OInv, Waits
  <2> QED BY <1>9, <1>19, <2>1 DEF Waits
<1>21. Handled'
  BY <1>9, <1>11, <1>19 DEF OInv, Handled
<1> QED BY <1>12, <1>13, <1>14, <1>15, <1>16, <1>18, <1>20, <1>21 DEF OInv, Processes

LEMMA SubmitOrder == ASSUME OInv, FInv', Submit PROVE OInv'
<1>1. /\ Root \in Flows /\ Root \in Jobs /\ ~Pushed(Root) /\ RowsSound /\ WorkSound
      /\ UNCHANGED <<outcome, step, status, branch, reported, work, faults>>
      /\ queue'[Root] = "queued" /\ \A j \in Jobs \ {Root} : queue'[j] = queue[j]
  <2>1. Root \in Flows /\ Root \in Jobs /\ RowsSound /\ WorkSound
    BY PlanAssumption DEF OInv, FInv
  <2> QED BY <2>1 DEF Submit, RowsSound, Pushed, Queued, flows, budget
<1>2. \A q \in Process : \A g : /\ Updates(q, g)' <=> Updates(q, g)
                                /\ Pushing(q, g)' <=> Pushing(q, g)
                                /\ Handles(q, g)' <=> Handles(q, g)
  BY <1>1 DEF Updates, Pushing, Handles
<1>3. \A g : /\ InProgress(g)' <=> InProgress(g)
             /\ Begun(g)' <=> Begun(g)
             /\ Closed(g)' <=> Closed(g)
  BY <1>1, <1>2 DEF InProgress, Begun, Closed
<1>4. \A j \in Jobs : /\ Queued(j)' <=> j = Root \/ Queued(j)
                      /\ Pushed(j)' <=> j = Root \/ Pushed(j)
  BY <1>1 DEF Queued, Pushed
<1>5. Untouched(Root) /\ \A q \in Process : ~Handles(q, Root) /\ ~Updates(q, Root)
  BY <1>1, NeverPushed DEF Untouched
<1>6. ModulesSound' /\ NotPushed'
  <2>1. \A g \in Flows : \A k \in 1 .. Last(g) : \A j \in Plan[g][k] : j \in Jobs /\ j # Root
    BY OneModule
  <2>2. ModulesSound'
    BY <1>1, <1>4, <2>1 DEF OInv, ModulesSound
  <2>3. NotPushed'
    BY <1>3, <1>4, PlanAssumption DEF OInv, NotPushed
  <2> QED BY <2>2, <2>3
<1>7. BranchSound' /\ CountedOnce' /\ faults' \in Nat
  BY <1>1 DEF OInv, BranchSound, CountedOnce
<1>8. ASSUME NEW q \in Process PROVE (Drives(q) /\ ReportsEnded(q) /\ JobKnown(q))'
  <2> PICK v : v = work[q]
    OBVIOUS
  <2>1. Drives(q) /\ ReportsEnded(q) /\ JobKnown(q) /\ work'[q] = v
    BY <1>1 DEF OInv, Processes
  <2>2. v.at \in Updaters => v.flow \in Jobs /\ v.flow # Root
    BY <1>1, <1>5, UpdatingSound DEF Updates, Updaters, Updating
  <2>3. Drives(q)' /\ ReportsEnded(q)'
    BY <1>1, <1>3, <2>1 DEF Drives, ReportsEnded
  <2>4. JobKnown(q)'
    BY <1>1, <1>3, <1>4, <2>1, <2>2 DEF JobKnown, Updaters
  <2> QED BY <2>3, <2>4
<1>9. \A q, r \in Process : q # r => NoTwo(q, r)'
  BY <1>1, <1>2, <1>3 DEF OInv, Processes, NoTwo
<1>10. \A j \in Jobs \ {Root} : Owed(j)' <=> Owed(j)
  BY <1>2, <1>3, <1>4 DEF Owed
<1>11. OwedOnce'
  BY <1>1, <1>2, <1>3, <1>10 DEF OInv, OwedOnce
<1>12. \A j \in Jobs : Untouched(j) => Untouched(j)'
  BY <1>2, <1>3 DEF Untouched
<1>13. Waits' /\ Handled'
  BY <1>1, <1>2, <1>4, <1>5, <1>12 DEF OInv, Waits, Handled
<1> QED BY <1>6, <1>7, <1>8, <1>9, <1>11, <1>13 DEF OInv, Processes

-----------------------------------------------------------------------------
(* What the invariant says.                                                *)

LEMMA OInvTimely == OInv => Timely
BY DEF OInv, Processes, Drives, Pushers, Updaters, Timely

LEMMA NextOInv == ASSUME PlanIsGenerated, Orderly PROVE OInv /\ [Next]_vars => OInv'
<1> SUFFICES ASSUME OInv, [Next]_vars PROVE OInv'
  OBVIOUS
<1>1. FInv'
  BY NextFInv, OInvTimely DEF OInv
<1>2. ASSUME NEW p \in Process, Update(p) PROVE OInv'
  BY <1>1, <1>2, FailJobSound, AdvancesSound, CountBranchSound, CalmSteps, JudgeBranchesSound,
     EndStepSound, PushNextOrder, FinishFlowSound, FlowIsGoneSound DEF Update
<1>3. ASSUME NEW p \in Process, StatementFails(p) \/ Crash(p) PROVE OInv'
  BY <1>1, <1>3, StatementFailsSound, CalmSteps
<1>4. ASSUME NEW p \in Workers, Execute(p) \/ \E j \in Jobs : Pull(p, j) PROVE OInv'
  <2>1. p \in Process
    BY DEF Process
  <2> QED BY <1>1, <1>4, <2>1, ChildEndsSound, PullSound, CalmSteps DEF Execute
<1>5. CASE Submit
  BY <1>1, <1>5, SubmitOrder
<1>6. CASE Watch \/ Cancel \/ UNCHANGED vars
  BY <1>1, <1>6, CalmSteps, GiveUpJobSound DEF Watch
<1> QED BY <1>2, <1>3, <1>4, <1>5, <1>6 DEF Next

LEMMA AlwaysOInv == ASSUME PlanIsGenerated, Orderly PROVE Spec => []OInv
<1>1. Init => OInv
  BY InitOInv
<1>2. OInv /\ [Next]_vars => OInv'
  BY NextOInv
<1> QED BY <1>1, <1>2, PTL DEF Spec

\* A flow has its jobs served as JobService says: no worker pushes a job that was
\* pushed before, although push_next_flow_job does not look, and no restart or
\* completion brings an ended job back.
THEOREM JobsServed == ASSUME PlanIsGenerated, Orderly PROVE Spec => ServesJobs
<1>1. Init => Service!Init
  BY DEF Init, Service!Init
<1>2. ASSUME OInv, [Next]_vars PROVE [Service!Next]_Answer
  BY <1>2, NextServes, OInvTimely DEF OInv
<1>3. Spec => []OInv
  BY AlwaysOInv
<1> QED BY <1>1, <1>2, <1>3, PTL DEF Spec, ServesJobs, Service!Spec, Answer

\* A job is pushed only when all the jobs of the module before have ended with
\* success: push_next_flow_job is reached from the end of that module, which
\* update_flow_status_after_job_completion_internal records once, after every
\* job of it, and never again, whatever crashes, is retried or is cancelled.
THEOREM JobsInOrder == ASSUME PlanIsGenerated, Orderly PROVE Spec => []ModulesInOrder
<1>1. ASSUME OInv PROVE ModulesInOrder
  <2>1. ASSUME NEW f \in Flows, NEW i \in 2 .. Last(f), NEW j \in Plan[f][i], Pushed(j),
               NEW k \in Plan[f][i - 1]
        PROVE  outcome[k] = "success"
    <3>1. Last(f) \in Nat /\ i \in 1 .. Last(f) /\ i - 1 \in 1 .. Last(f)
      BY PlanAssumption DEF Last
    <3>2. status[f][i] # "waiting"
      BY <1>1, <2>1, <3>1 DEF OInv, FInv, WaitingUntouched
    <3>3. step[f] \in 1 .. Last(f) + 1 /\ i - 1 < step[f]
      BY <1>1, <3>1, <3>2 DEF OInv, ModulesSound
    <3>4. status[f][i - 1] = "success"
      BY <1>1, <3>1, <3>3 DEF OInv, ModulesSound
    <3> QED BY <1>1, <3>1, <3>4 DEF OInv, ModulesSound
  <2> QED BY <2>1 DEF ModulesInOrder
<1>2. Spec => []OInv
  BY AlwaysOInv
<1> QED BY <1>1, <1>2, PTL

\* The number in branchall.branch that tells the last branch from the others is
\* that of the branches which have ended and reported: the retries of a failed
\* update and the error handlers never report one twice.
THEOREM BranchesCountedOnce == ASSUME PlanIsGenerated, Orderly PROVE Spec => []CountedOnce
<1>1. OInv => CountedOnce
  BY DEF OInv
<1>2. Spec => []OInv
  BY AlwaysOInv
<1> QED BY <1>1, <1>2, PTL

\* Who is about to push a module finds none of its jobs pushed: no two processes
\* are at the same transition, for only the end of the last job leads to it.
THEOREM ModulesPushedOnce == ASSUME PlanIsGenerated, Orderly PROVE Spec => []PushedOnce
<1>1. ASSUME OInv PROVE PushedOnce
  <2>1. ASSUME NEW p \in Process, work[p].at \in {"starting", "chaining"},
               NEW j \in Plan[work[p].flow][work[p].seen]
        PROVE  ~Pushed(j)
    <3>1. /\ work[p].flow \in Flows /\ work[p].seen = step[work[p].flow]
          /\ step[work[p].flow] <= Last(work[p].flow)
          /\ status[work[p].flow][step[work[p].flow]] = "waiting"
      BY <1>1, <2>1, UpdatingSound DEF OInv, FInv, Processes, Drives, Pushers
    <3>2. work[p].seen \in 1 .. Last(work[p].flow)
      BY <1>1, <3>1 DEF OInv, ModulesSound
    <3> QED BY <1>1, <2>1, <3>1, <3>2 DEF OInv, FInv, WaitingUntouched
  <2> QED BY <2>1 DEF PushedOnce
<1>2. Spec => []OInv
  BY AlwaysOInv
<1> QED BY <1>1, <1>2, PTL

-----------------------------------------------------------------------------
(* How a flow ends.                                                        *)

\* A flow that has failed is one that nothing can happen in.
EndsWell(f) ==
    /\ outcome[f] = "success" => \A j \in Children(f) : outcome[j] = "success"
    /\ outcome[f] = "failure" => Closed(f)

FlowsEnd == \A f \in Flows : EndsWell(f)

LEMMA OutcomesStay ==
    ASSUME OInv, [Next]_vars, NEW j \in Jobs, outcome[j] # "none"
    PROVE  outcome'[j] = outcome[j]
<1>1. FInv /\ RowsSound
  BY DEF OInv, FInv
<1>2. CASE UNCHANGED vars
  BY <1>2 DEF vars, row
<1>3. CASE Quiet
  BY <1>1, <1>3, QuietRowsMove DEF Quiet, RowsMove
<1>4. CASE \E new \in SUBSET Jobs : Pushes(new)
  BY <1>4 DEF Pushes
<1> QED BY <1>1, <1>2, <1>3, <1>4, NextRows, OInvTimely

\* A process that does not go to push.
LEMMA NoPusher ==
    ASSUME WorkSound, NEW p \in Process, NEW w, Goes(p, w), w.at \notin Pushers,
           NEW g, \A q \in Process : ~Pushing(q, g)
    PROVE  \A q \in Process : ~Pushing(q, g)'
BY DEF WorkSound, Goes, Pushing

LEMMA NoPusherReports ==
    ASSUME WorkSound, NEW p \in Process, NEW j, NEW f, NEW sub, NEW ok, NEW tries,
           Reports(p, j, f, sub, ok, tries), NEW g, \A q \in Process \ {p} : ~Pushing(q, g)
    PROVE  \A q \in Process : ~Pushing(q, g)'
BY ReportsReads DEF Pushing, Pushers

LEMMA NoPusherRecovers ==
    ASSUME WorkSound, NEW p \in Process, Recovers(p),
           NEW g, \A q \in Process \ {p} : ~Pushing(q, g)
    PROVE  \A q \in Process : ~Pushing(q, g)'
<1>1. CASE Goes(p, Idle)
  BY <1>1 DEF WorkSound, Goes, Pushing, Pushers, Idle
<1>2. CASE \E j, f, sub, ok, tries : Reports(p, j, f, sub, ok, tries)
  BY <1>2, NoPusherReports
<1> QED BY <1>1, <1>2, Zenon DEF Recovers

LEMMA ClosedStays ==
    ASSUME OInv, [Next]_vars, NEW g \in Flows, Closed(g) PROVE Closed(g)'
<1>1. /\ g \in Jobs /\ WorkSound /\ RowsSound /\ ~Queued(g) /\ queue[g] # "queued"
      /\ outcome'[g] # "none" /\ ~InProgress(g) /\ \A q \in Process : ~Pushing(q, g)
  <2>1. g \in Jobs /\ WorkSound /\ RowsSound
    BY PlanAssumption DEF OInv, FInv
  <2> QED BY <2>1, OutcomesStay DEF Closed, RowsSound, Queued
<1> SUFFICES ~InProgress(g)' /\ \A q \in Process : ~Pushing(q, g)'
  BY <1>1 DEF Closed
<1>2. ASSUME NEW p \in Process, FailJob(p)
      PROVE  ~InProgress(g)' /\ \A q \in Process : ~Pushing(q, g)'
  <2>1. UNCHANGED flows /\ \E j, f, sub : Reports(p, j, f, sub, FALSE, 2)
    BY <1>2 DEF FailJob
  <2> QED BY <1>1, <2>1, NoPusherReports DEF InProgress, flows
<1>3. ASSUME NEW p \in Process, JudgeBranches(p) \/ EndStep(p)
      PROVE  ~InProgress(g)' /\ \A q \in Process : ~Pushing(q, g)'
  <2> PICK f : f = work[p].flow
    OBVIOUS
  <2>1. f \in Flows /\ f # g
    BY <1>1, <1>3, UpdatingSound DEF JudgeBranches, EndStep, At, Updating
  <2>2. PICK ok \in BOOLEAN : \E i, next : EndModule(f, i, ok) /\ Continues(p, ok, next)
    <3>1. PICK judged \in BOOLEAN : judged = Judged(f, work[p].seen)
      BY DEF Judged
    <3>2. work[p].ok \in BOOLEAN
      BY <1>1 DEF WorkSound, WorkState
    <3>3. \/ EndModule(f, work[p].seen, judged) /\ Continues(p, judged, work[p].seen + 1)
          \/ EndModule(f, work[p].seen, work[p].ok) /\ Continues(p, work[p].ok, work[p].seen + 1)
      BY <1>3, <3>1 DEF JudgeBranches, EndStep
    <3> QED BY <3>2, <3>3, Zenon
  <2>3. step'[g] = step[g] /\ status'[g] = status[g]
    <3>1. StatusSound
      BY DEF OInv, FInv
    <3> QED BY <2>1, <2>2, <3>1 DEF EndModule, StatusSound
  <2>4. (\A q \in Process \ {p} : work'[q] = work[q]) /\ work'[p].flow = f
    BY <1>1, <2>1, <2>2, ContinuesTo
  <2> QED BY <1>1, <2>1, <2>3, <2>4 DEF InProgress, Pushing
<1>4. ASSUME NEW p \in Process, PushNext(p)
      PROVE  ~InProgress(g)' /\ \A q \in Process : ~Pushing(q, g)'
  <2> PICK f : f = work[p].flow
    OBVIOUS
  <2>1. f \in Flows /\ f # g
    BY <1>1, <1>4, UpdatingSound DEF PushNext, At, Pushing, Pushers
  <2>2. /\ step' = [step EXCEPT ![f] = work[p].seen] /\ Goes(p, Idle)
        /\ status' = [status EXCEPT ![f][work[p].seen] = "progress"]
    BY <1>4 DEF PushNext
  <2>3. status'[g] = status[g] /\ step'[g] = step[g]
    BY <2>1, <2>2 DEF OInv, FInv, StatusSound
  <2>4. Idle.at \notin Pushers
    BY DEF Idle, Pushers
  <2> QED BY <1>1, <2>2, <2>3, <2>4, NoPusher DEF InProgress
<1>5. ASSUME NEW p \in Process,
             ReadStatus(p) \/ CountBranch(p) \/ Unlock(p) \/ UnlockAll(p) \/ Crash(p) \/ Poll(p)
      PROVE  ~InProgress(g)' /\ \A q \in Process : ~Pushing(q, g)'
  <2>1. step' = step /\ status' = status
    BY <1>5 DEF ReadStatus, CountBranch, Unlock, UnlockAll, Crash, Poll, flows
  <2>2. PICK w : Goes(p, w) /\ w.at \notin Pushers
    <3> PICK v : v = work[p]
      OBVIOUS
    <3>1. v \in WorkState /\ Idle.at \notin Pushers
      BY <1>1 DEF WorkSound, Idle, Pushers
    <3>2. CASE Unlock(p) \/ Crash(p) \/ Poll(p)
      BY <3>1, <3>2 DEF Unlock, Crash, Poll
    <3>3. CASE CountBranch(p) \/ UnlockAll(p)
      <4>1. PICK place \in {"unlocking", "judging"} : Goes(p, [v EXCEPT !.at = place])
        BY <3>3 DEF CountBranch, UnlockAll
      <4>2. [v EXCEPT !.at = place].at = place
        BY <3>1 DEF WorkState
      <4> QED BY <4>1, <4>2 DEF Pushers
    <3>4. CASE ReadStatus(p)
      <4>1. PICK i, b : Goes(p, [v EXCEPT !.at = "updating", !.seen = i, !.branchall = b])
        BY <3>4, Zenon DEF ReadStatus
      <4>2. [v EXCEPT !.at = "updating", !.seen = i, !.branchall = b].at = "updating"
        BY <3>1 DEF WorkState
      <4> QED BY <4>1, <4>2 DEF Pushers
    <3> QED BY <1>5, <3>2, <3>3, <3>4
  <2> QED BY <1>1, <2>1, <2>2, NoPusher DEF InProgress
<1>6. ASSUME NEW p \in Process, FinishFlow(p) \/ FlowIsGone(p) \/ StatementFails(p)
      PROVE  ~InProgress(g)' /\ \A q \in Process : ~Pushing(q, g)'
  <2>1. step' = step /\ status' = status
    BY <1>6 DEF FinishFlow, FlowIsGone, StatementFails, flows
  <2>2. \/ Recovers(p) \/ Goes(p, Idle) \/ \E j, f, sub, ok, n : Reports(p, j, f, sub, ok, n)
        \/ \E j : Goes(p, [Idle EXCEPT !.at = "failing", !.job = j])
    BY <1>6, Zenon DEF FinishFlow, FlowIsGone, StatementFails
  <2>3. /\ Idle.at \notin Pushers
        /\ \A j : [Idle EXCEPT !.at = "failing", !.job = j].at \notin Pushers
    BY DEF Idle, Pushers
  <2>4. \A q \in Process : ~Pushing(q, g)'
    BY <1>1, <2>2, <2>3, NoPusher, NoPusherReports, NoPusherRecovers
  <2> QED BY <1>1, <2>1, <2>4 DEF InProgress
<1>7. ASSUME NEW p \in Workers, Execute(p) \/ \E j \in Jobs : Pull(p, j)
      PROVE  ~InProgress(g)' /\ \A q \in Process : ~Pushing(q, g)'
  <2>1. p \in Process
    BY DEF Process
  <2>2. ASSUME NEW verdict \in Ended, ChildEnds(p, verdict)
        PROVE  UNCHANGED flows /\ \E j, f, sub, ok, n : Reports(p, j, f, sub, ok, n)
    BY <2>2, Zenon DEF ChildEnds
  <2>3. ASSUME NEW j \in Jobs, Pull(p, j)
        PROVE  ~InProgress(g)' /\ \A q \in Process : ~Pushing(q, g)'
    <3>1. UNCHANGED flows /\ j # g
      BY <1>1, <2>3 DEF Pull
    <3>2. (\A q \in Process \ {p} : work'[q] = work[q])
          /\ (work'[p].at \notin Pushers \/ work'[p].flow = j)
      BY <1>1, <2>1, <2>3 DEF Pull, Goes, Idle, WorkSound, Pushers
    <3> QED BY <1>1, <3>1, <3>2 DEF InProgress, flows, Pushing
  <2> QED BY <1>1, <1>5, <1>7, <2>1, <2>2, <2>3, NoPusherReports DEF Execute, InProgress, flows
<1>8. CASE Submit \/ Cancel \/ Watch \/ UNCHANGED vars
  <2>1. UNCHANGED flows
    BY <1>8 DEF Submit, Cancel, Watch, RestartJob, GiveUpJob, Kill, CancelBranches, RestartFlow,
                CancelFlow, vars
  <2>2. \/ work' = work
        \/ \E j : Goes(Monitor, [Idle EXCEPT !.at = "failing", !.job = j])
    BY <1>8 DEF Submit, Cancel, Watch, RestartJob, GiveUpJob, Kill, CancelBranches, RestartFlow,
                CancelFlow, vars
  <2>3. /\ Monitor \in Process
        /\ \A j : [Idle EXCEPT !.at = "failing", !.job = j].at \notin Pushers
    BY DEF Process, Idle, Pushers
  <2>4. \A q \in Process : ~Pushing(q, g)'
    BY <1>1, <2>2, <2>3, NoPusher DEF Pushing
  <2> QED BY <1>1, <2>1, <2>4 DEF InProgress, flows
<1> QED BY <1>2, <1>3, <1>4, <1>5, <1>6, <1>7, <1>8 DEF Next, Update

\* The last resort of an error finds the job's flow completed.
LEMMA RecoversEndsNothing ==
    ASSUME OInv, NEW p \in Process, work[p].at \in Updaters \ Pushers, Recovers(p),
           work[p].tries = 3 => ~Queued(work[p].flow)
    PROVE  outcome' = outcome
<1> PICK w : w = work[p]
  OBVIOUS
<1>1. w.job \in Jobs /\ JobKnown(p)
  BY UpdatingSound DEF OInv, FInv, Updaters, Pushers, Updating, Processes
<1>2. w.job # Root => Parent(w.job) \in Jobs
  BY <1>1, ParentIsFlow, PlanAssumption
<1>3. w.tries = 3 /\ w.job # Root => ~Queued(Parent(w.job))
  BY <1>1, <1>2 DEF JobKnown, Pushers, Closed, OInv, FInv, RowsSound
<1>4. CASE w.tries = 3
  BY <1>3, <1>4 DEF Recovers, CompleteIfQueued, row
<1>5. CASE w.tries # 3
  <2>1. UNCHANGED <<row, signs>>
    BY <1>5, Zenon DEF Recovers
  <2> QED BY <2>1 DEF row
<1> QED BY <1>4, <1>5

\* Who completes a flow.
LEMMA FlowEndsWell ==
    ASSUME OInv, OInv', PlanIsGenerated, Orderly, MaxFaults <= 1, [Next]_vars,
           NEW f \in Flows, outcome[f] = "none"
    PROVE  EndsWell(f)'
<1>1. f \in Jobs /\ WorkSound /\ RowsSound /\ ModulesSound /\ faults \in Nat
  BY PlanAssumption DEF OInv, FInv
<1>2. CASE outcome'[f] \in {"none", "canceled"}
  BY <1>2 DEF EndsWell
<1>3. ASSUME NEW p \in Process, FinishFlow(p) PROVE EndsWell(f)'
  <2> PICK w : w = work[p]
    OBVIOUS
  <2> PICK g : g = w.flow
    OBVIOUS
  <2>5. PICK verdict \in Ended : /\ Complete(g, verdict, TRUE)
                                 /\ verdict = "success" => w.ok /\ ~w.canceled
    <3>1. CASE w.canceled
      BY <1>3, <3>1 DEF FinishFlow, Ended
    <3>2. CASE ~w.canceled /\ w.ok
      BY <1>3, <3>2 DEF FinishFlow, Ended
    <3>3. CASE ~w.canceled /\ ~w.ok
      BY <1>3, <3>3 DEF FinishFlow, Ended
    <3> QED BY <3>1, <3>2, <3>3
  <2>1. /\ w.at = "finishing" /\ Queued(g)
        /\ UNCHANGED flows /\ faults' \in Nat /\ faults' >= faults
    <3>1. w.at = "finishing" /\ Queued(g)
      BY <1>3 DEF FinishFlow, At
    <3>2. UNCHANGED flows /\ faults' = faults
      BY <1>3 DEF FinishFlow, budget
    <3> QED BY <1>1, <3>1, <3>2
  <2>2. g \in Flows /\ Drives(p)
    BY <1>1, <2>1, UpdatingSound DEF OInv, Processes, Updating
  <2>3. CASE g # f
    BY <1>1, <1>2, <2>5, <2>1, <2>3 DEF Complete, RowsSound
  <2>4. CASE g = f
    <3>1. Closed(f)'
      <4>1. IF work[p].flow = Root THEN Goes(p, Idle)
            ELSE Reports(p, work[p].job, Parent(work[p].flow), work[p].flow, work[p].ok,
                         IF work[p].tries < 2 THEN 0 ELSE 2)
        BY <1>3 DEF FinishFlow
      <4>2. FInv'
        BY DEF OInv
      <4> QED BY <2>5, <2>1, <2>4, <4>1, <4>2, FlowEndsSound
    <3>2. outcome'[f] = verdict
      BY <1>1, <2>5, <2>1, <2>4 DEF Complete, RowsSound
    <3>3. ASSUME verdict = "success", NEW j \in Children(f) PROVE outcome'[j] = "success"
      <4>1. PICK i \in 1 .. Last(f) : j \in Plan[f][i]
        BY DEF Children
      <4>2. step[f] = Last(f) + 1 /\ Last(f) \in Nat
        BY <2>5, <2>1, <2>2, <2>4, <3>3, PlanAssumption DEF Drives, Last
      <4>3. outcome[j] = "success"
        BY <1>1, <4>1, <4>2 DEF ModulesSound
      <4>4. j \in Jobs
        BY <4>1, OneModule
      <4> QED BY <4>3, <4>4, OutcomesStay
    <3> QED BY <3>1, <3>2, <3>3 DEF EndsWell
  <2> QED BY <2>3, <2>4
<1>4. ASSUME NEW p \in Process, FlowIsGone(p) PROVE EndsWell(f)'
  <2>1. outcome' = outcome
    BY <1>4, RecoversEndsNothing DEF FlowIsGone, At, Updaters, Pushers
  <2> QED BY <1>2, <2>1
<1>5. ASSUME NEW p \in Process, StatementFails(p) PROVE EndsWell(f)'
  <2> PICK w : w = work[p]
    OBVIOUS
  <2>1. faults = 0 /\ faults' = 1 /\ UNCHANGED flows /\ w.at # "unlocking"
    BY <1>1, <1>5, BoundsAssumption DEF StatementFails, Orderly
  <2>2. CASE w.at \in {"reading", "updating", "unlocking", "judging", "finishing"} /\ Recovers(p)
    <3>1. w.at \in Updaters \ Pushers /\ JobKnown(p)
      BY <2>1, <2>2 DEF Updaters, Pushers, OInv, Processes
    <3>2. w.tries = 3 => ~Queued(w.flow)
      BY <2>1, <3>1 DEF JobKnown
    <3> QED BY <1>2, <2>2, <3>1, <3>2, RecoversEndsNothing
  <2>3. CASE w.at = "starting" /\ UNCHANGED <<row, signs>>
    BY <1>2, <2>3 DEF row
  <2>4. CASE /\ w.at = "chaining"
             /\ IF Queued(w.flow) THEN Complete(w.flow, "failure", TRUE)
                ELSE UNCHANGED <<row, signs>>
             /\ IF w.flow = Root THEN Goes(p, Idle)
                ELSE Reports(p, w.job, Parent(w.flow), w.flow, w.ok,
                             IF w.tries < 2 THEN 0 ELSE 2)
    <3>1. CASE ~(Queued(w.flow) /\ w.flow = f)
      BY <1>1, <1>2, <2>4, <3>1 DEF Complete, row, RowsSound
    <3>2. CASE Queued(w.flow) /\ w.flow = f
      <4>1. outcome'[f] = "failure"
        BY <1>1, <2>4, <3>2 DEF Complete, RowsSound
      <4>2. PICK verdict \in Ended : Complete(work[p].flow, verdict, TRUE)
        BY <2>4, <3>2 DEF Ended
      <4>3. FInv' /\ faults' \in Nat /\ faults' >= faults
            /\ work[p].at \in {"finishing", "chaining"}
        BY <2>1, <2>4 DEF OInv
      <4>4. IF work[p].flow = Root THEN Goes(p, Idle)
            ELSE Reports(p, work[p].job, Parent(work[p].flow), work[p].flow, work[p].ok,
                         IF work[p].tries < 2 THEN 0 ELSE 2)
        BY <2>4
      <4>5. Closed(f)'
        BY <2>1, <3>2, <4>2, <4>3, <4>4, FlowEndsSound
      <4> QED BY <4>1, <4>5 DEF EndsWell
    <3> QED BY <3>1, <3>2
  <2> QED BY <1>5, <2>2, <2>3, <2>4 DEF StatementFails
<1>6. ASSUME NEW p \in Process, FailJob(p) PROVE EndsWell(f)'
  <2> PICK j : j = work[p].job
    OBVIOUS
  <2>1. CASE j = Root
    BY <1>2, <1>6, <2>1 DEF FailJob, row
  <2>2. CASE j # Root /\ j # f
    BY <1>1, <1>2, <1>6, <2>2 DEF FailJob, CompleteIfQueued, Complete, row, RowsSound
  <2>3. CASE j # Root /\ j = f
    <3>1. Closed(f)'
      BY <1>6, <2>3, FailJobCloses
    <3>2. outcome'[f] \in {"none", "failure"}
      BY <1>1, <1>6, <2>3 DEF FailJob, CompleteIfQueued, Complete, row, RowsSound
    <3> QED BY <3>1, <3>2 DEF EndsWell
  <2> QED BY <2>1, <2>2, <2>3
<1>7. ASSUME NEW p \in Workers, NEW verdict \in Ended, ChildEnds(p, verdict) PROVE EndsWell(f)'
  <2> PICK j : j = work[p].job
    OBVIOUS
  <2>1. j # f
    BY <1>1, <1>7 DEF ChildEnds, At, WorkSound, Sound, Process, Leaves
  <2> QED BY <1>1, <1>2, <1>7, <2>1 DEF ChildEnds, Complete, row, RowsSound
<1>8. ASSUME NEW j \in Jobs, Kill(j) PROVE EndsWell(f)'
  BY <1>1, <1>2, <1>8 DEF Kill, CompleteIfQueued, Complete, row, RowsSound
<1>9. CASE UNCHANGED outcome
  BY <1>2, <1>9
<1>10. ASSUME NEW p \in Process, Update(p) PROVE EndsWell(f)'
  BY <1>3, <1>4, <1>6, <1>9, <1>10
     DEF Update, ReadStatus, CountBranch, Unlock, UnlockAll, JudgeBranches, EndStep, PushNext,
         row
<1>11. ASSUME NEW p \in Workers, Execute(p) \/ \E j \in Jobs : Pull(p, j) PROVE EndsWell(f)'
  BY <1>7, <1>9, <1>11 DEF Execute, Poll, Pull, row
<1>12. CASE Watch
  BY <1>8, <1>9, <1>12
     DEF Watch, RestartJob, GiveUpJob, CancelBranches, RestartFlow, CancelFlow, row
<1> QED BY <1>5, <1>9, <1>10, <1>11, <1>12 DEF Next, Submit, Cancel, Crash, vars, row

LEMMA AlwaysFlowsEnd ==
    ASSUME PlanIsGenerated, Orderly, MaxFaults <= 1 PROVE Spec => [](OInv /\ FlowsEnd)
<1>1. Init => OInv /\ FlowsEnd
  <2>1. Init => FlowsEnd
    BY PlanAssumption DEF Init, FlowsEnd, EndsWell
  <2> QED BY <2>1, InitOInv
<1>2. OInv /\ FlowsEnd /\ [Next]_vars => OInv' /\ FlowsEnd'
  <2> SUFFICES ASSUME OInv, FlowsEnd, [Next]_vars PROVE OInv' /\ FlowsEnd'
    OBVIOUS
  <2>1. OInv'
    BY NextOInv
  <2>2. ASSUME NEW f \in Flows, outcome[f] # "none" PROVE EndsWell(f)'
    <3>1. outcome'[f] = outcome[f] /\ EndsWell(f)
      BY <2>2, OutcomesStay, PlanAssumption DEF FlowsEnd
    <3>2. outcome[f] = "success" => \A j \in Children(f) : outcome'[j] = "success"
      <4>1. \A j \in Children(f) : j \in Jobs
        BY OneModule DEF Children
      <4> QED BY <3>1, <4>1, OutcomesStay DEF EndsWell
    <3>3. outcome[f] = "failure" => Closed(f)'
      BY <3>1, ClosedStays DEF EndsWell
    <3> QED BY <3>1, <3>2, <3>3 DEF EndsWell
  <2> QED BY <2>1, <2>2, FlowEndsWell DEF FlowsEnd
<1> QED BY <1>1, <1>2, PTL DEF Spec

\* Whatever fails or is cancelled, a flow is completed with success only when
\* every job of it is recorded as successful, and with failure only when none
\* of its jobs is still queued: update_flow_status_after_job_completion_internal
\* completes a flow after it has judged the module that all its jobs' ends were
\* counted in.  With a second fault it need not be so: the last resort of
\* handle_job_error completes a flow whose other branches are still queued.
THEOREM FlowsEndInOrder ==
    ASSUME PlanIsGenerated, Orderly, MaxFaults <= 1 PROVE Spec => []FlowOutcome
<1>1. ASSUME OInv, FlowsEnd PROVE FlowOutcome
  <2>1. ASSUME NEW f \in Flows, outcome[f] = "failure", NEW j \in Children(f) PROVE ~Queued(j)
    <3>1. PICK i \in 1 .. Last(f) : j \in Plan[f][i]
      BY DEF Children
    <3>2. j \in Jobs \ {Root} /\ Parent(j) = f
      BY <3>1, OneModule, ParentOf
    <3>3. ~InProgress(f)
      BY <1>1, <2>1 DEF FlowsEnd, EndsWell, Closed
    <3> QED BY <1>1, <3>2, <3>3 DEF OInv, OwedOnce, Owed
  <2> QED BY <1>1, <2>1 DEF FlowOutcome, FlowsEnd, EndsWell
<1> QED BY <1>1, AlwaysFlowsEnd, PTL

-----------------------------------------------------------------------------
(* The types of the other variables.                                       *)

LockState == {"none", "silent", "pinged"}

SignsSound ==
    /\ canceledBy \subseteq Jobs /\ killing \subseteq Jobs /\ ping \subseteq Flows
    /\ lock \in [Jobs -> LockState] /\ lock[Root] = "none"

TriesBounded == \A p \in Process : work[p].tries <= 3

LEMMA CompleteSigns ==
    ASSUME SignsSound, NEW j \in Jobs, NEW verdict, NEW done, Complete(j, verdict, done)
    PROVE  canceledBy' \subseteq Jobs /\ ping' \subseteq Flows
           /\ lock' \in [Jobs -> LockState] /\ lock'[Root] = "none"
<1>1. canceledBy' \subseteq Jobs
  BY DEF Complete, SignsSound
<1>2. ping' \subseteq Flows
  BY ParentIsFlow DEF Complete, SignsSound
<1>3. lock' = lock \/ (lock' = [lock EXCEPT ![j] = "pinged"] /\ lock[j] # "none")
  BY DEF Complete
<1> QED BY <1>1, <1>2, <1>3, PlanAssumption DEF SignsSound, LockState

LEMMA CompleteIfQueuedSigns ==
    ASSUME SignsSound, NEW j \in Jobs, NEW verdict, CompleteIfQueued(j, verdict)
    PROVE  canceledBy' \subseteq Jobs /\ ping' \subseteq Flows
           /\ lock' \in [Jobs -> LockState] /\ lock'[Root] = "none"
BY CompleteSigns DEF CompleteIfQueued, SignsSound, row, signs

LEMMA ChildrenAreJobs == ASSUME NEW f \in Flows PROVE Children(f) \subseteq Jobs \ {Root}
BY OneModule DEF Children

LEMMA ForceCancelJobs ==
    ASSUME killing \subseteq Jobs, NEW f \in Flows, ForceCancel(f) PROVE killing' \subseteq Jobs
<1>1. ASSUME f # Root PROVE Parent(f) \in Flows
  BY <1>1, ParentIsFlow, PlanAssumption
<1> QED BY <1>1, ChildrenAreJobs, PlanAssumption DEF ForceCancel

LEMMA RecoversSigns ==
    ASSUME FInv, SignsSound, TriesBounded,
           NEW p \in Process, work[p].at \in Updating, Recovers(p)
    PROVE  /\ canceledBy' \subseteq Jobs /\ ping' \subseteq Flows
           /\ lock' \in [Jobs -> LockState] /\ lock'[Root] = "none"
           /\ TriesBounded'
<1> PICK w : w = work[p]
  OBVIOUS
<1>1. /\ w.job \in Jobs /\ w.tries \in Nat /\ w.tries <= 3 /\ work \in [Process -> WorkState]
      /\ w.job # Root => Parent(w.job) \in Jobs
  <2>1. w.job \in Jobs /\ w \in WorkState /\ work \in [Process -> WorkState]
    BY UpdatingSound DEF FInv, WorkSound
  <2> QED BY <2>1, ParentIsFlow, PlanAssumption DEF TriesBounded, WorkState
<1>2. CASE w.tries = 3
  <2>1. Goes(p, Idle) /\ Idle.tries = 0
    BY <1>2 DEF Recovers, Idle
  <2>2. TriesBounded'
    BY <1>1, <2>1 DEF TriesBounded, Goes
  <2>3. \/ UNCHANGED <<row, signs>>
        \/ w.job # Root /\ CompleteIfQueued(Parent(w.job), "failure")
    BY <1>2, Zenon DEF Recovers
  <2>4. CASE UNCHANGED <<row, signs>>
    BY <2>2, <2>4 DEF row, signs, SignsSound
  <2> QED BY <1>1, <2>2, <2>3, <2>4, CompleteIfQueuedSigns
<1>3. CASE w.tries # 3
  <2>1. UNCHANGED <<row, signs>>
    BY <1>3, Zenon DEF Recovers
  <2>2. PICK n \in {2, w.tries + 1} : \E j, f, sub : Reports(p, j, f, sub, FALSE, n)
    <3>1. \/ Reports(p, w.job, Parent(w.job), w.job, FALSE, 2)
          \/ Reports(p, w.job, w.flow, w.sub, FALSE, w.tries + 1)
      BY <1>3, Zenon DEF Recovers
    <3> QED BY <3>1, Zenon
  <2>3. TriesBounded'
    BY <1>1, <1>3, <2>2 DEF TriesBounded, Reports, Goes, Idle
  <2> QED BY <2>1, <2>3 DEF row, signs, SignsSound
<1> QED BY <1>2, <1>3

\* Where a process goes, its attempts stay few.
LEMMA GoesTries ==
    ASSUME FInv, TriesBounded, NEW p \in Process, NEW w, Goes(p, w), w.tries <= 3
    PROVE  TriesBounded'
BY DEF FInv, WorkSound, TriesBounded, Goes

LEMMA ReportsTries ==
    ASSUME FInv, TriesBounded, NEW p \in Process, NEW j, NEW f, NEW sub, NEW ok,
           NEW tries \in 0 .. 3, Reports(p, j, f, sub, ok, tries)
    PROVE  TriesBounded'
BY DEF FInv, WorkSound, TriesBounded, Reports, Goes, Idle

LEMMA NextTypes ==
    FInv /\ SignsSound /\ TriesBounded /\ [Next]_vars => SignsSound' /\ TriesBounded'
<1> SUFFICES ASSUME FInv, SignsSound, TriesBounded, [Next]_vars
             PROVE  SignsSound' /\ TriesBounded'
  OBVIOUS
<1> DEFINE Rows == canceledBy' \subseteq Jobs /\ ping' \subseteq Flows
                   /\ lock' \in [Jobs -> LockState] /\ lock'[Root] = "none"
<1>1. WorkSound /\ work \in [Process -> WorkState] /\ Idle.tries = 0
  BY DEF FInv, WorkSound, Idle
<1>2. Rows /\ killing' \subseteq Jobs => SignsSound'
  BY DEF SignsSound
<1>3. UNCHANGED <<canceledBy, ping, lock>> => Rows
  BY DEF SignsSound
<1>4. UNCHANGED work => TriesBounded'
  BY DEF TriesBounded
<1>5. killing \subseteq Jobs
  BY DEF SignsSound
<1> HIDE DEF Rows
<1>6. ASSUME NEW p \in Process, FailJob(p) PROVE SignsSound' /\ TriesBounded'
  <2> PICK j : j = work[p].job
    OBVIOUS
  <2>1. \E f, sub, ok : \E n \in 0 .. 3 : Reports(p, j, f, sub, ok, n)
    <3>1. 2 \in 0 .. 3
      OBVIOUS
    <3> QED BY <1>6, <3>1, Zenon DEF FailJob
  <2>2. TriesBounded'
    BY <2>1, ReportsTries
  <2>3. j \in Jobs
    BY <1>1, <1>6 DEF FailJob, At, WorkSound, Sound
  <2>4. Rows
    BY <1>3, <1>6, <2>3, CompleteIfQueuedSigns DEF FailJob, Rows, row, signs
  <2> QED BY <1>2, <1>5, <1>6, <2>2, <2>4 DEF FailJob
<1>7. ASSUME NEW p \in Process, ReadStatus(p) \/ CountBranch(p) \/ Unlock(p) \/ UnlockAll(p)
      PROVE  SignsSound' /\ TriesBounded'
  <2> PICK w : w = work[p]
    OBVIOUS
  <2>1. w \in WorkState /\ w.tries <= 3
    BY <1>1 DEF TriesBounded
  <2>2. TriesBounded'
    <3>1. CASE Unlock(p)
      BY <1>1, <3>1, GoesTries DEF Unlock
    <3>2. CASE CountBranch(p) \/ UnlockAll(p)
      <4>1. PICK place : Goes(p, [w EXCEPT !.at = place])
        BY <3>2 DEF CountBranch, UnlockAll
      <4>2. [w EXCEPT !.at = place].tries = w.tries
        BY <2>1 DEF WorkState
      <4> QED BY <2>1, <4>1, <4>2, GoesTries
    <3>3. CASE ReadStatus(p)
      <4>1. PICK i, b : Goes(p, [w EXCEPT !.at = "updating", !.seen = i, !.branchall = b])
        BY <3>3, Zenon DEF ReadStatus
      <4>2. [w EXCEPT !.at = "updating", !.seen = i, !.branchall = b].tries = w.tries
        BY <2>1 DEF WorkState
      <4> QED BY <2>1, <4>1, <4>2, GoesTries
    <3> QED BY <1>7, <3>1, <3>2, <3>3
  <2>3. ping' \subseteq Flows /\ UNCHANGED <<canceledBy, killing>>
    BY <1>7 DEF ReadStatus, CountBranch, Unlock, UnlockAll, SignsSound, row, signs
  <2>4. lock' \in [Jobs -> LockState] /\ lock'[Root] = "none"
    BY <1>7, PlanAssumption
       DEF ReadStatus, CountBranch, Unlock, UnlockAll, SignsSound, LockState, signs
  <2> QED BY <1>2, <1>5, <2>2, <2>3, <2>4 DEF Rows, SignsSound
<1>8. ASSUME NEW p \in Process, JudgeBranches(p) \/ EndStep(p) PROVE SignsSound' /\ TriesBounded'
  <2> PICK f : f = work[p].flow
    OBVIOUS
  <2>1. PICK ok \in BOOLEAN : \E next : Continues(p, ok, next)
    <3>1. PICK judged \in BOOLEAN : judged = Judged(f, work[p].seen)
      BY DEF Judged
    <3>2. work[p].ok \in BOOLEAN
      BY <1>1 DEF WorkState
    <3>3. \/ Continues(p, judged, work[p].seen + 1)
          \/ Continues(p, work[p].ok, work[p].seen + 1)
      BY <1>8, <3>1 DEF JudgeBranches, EndStep
    <3> QED BY <3>2, <3>3, Zenon
  <2>2. f \in Flows
    BY <1>1, <1>8, UpdatingSound DEF JudgeBranches, EndStep, At, Updating
  <2>3. work'[p].tries = work[p].tries /\ \A q \in Process \ {p} : work'[q] = work[q]
    BY <1>1, <2>1, <2>2, ContinuesTo
  <2>4. TriesBounded'
    BY <2>3 DEF TriesBounded
  <2>5. ping' \subseteq Flows /\ UNCHANGED <<canceledBy, lock, killing>>
    BY <1>8 DEF JudgeBranches, EndStep, SignsSound, row, signs
  <2> QED BY <2>4, <2>5 DEF SignsSound
<1>9. ASSUME NEW p \in Process, PushNext(p) PROVE SignsSound' /\ TriesBounded'
  <2>1. TriesBounded'
    BY <1>1, <1>9, GoesTries DEF PushNext
  <2>2. work[p].flow \in Flows /\ work[p].seen \in 1 .. Last(work[p].flow)
    BY <1>1, <1>9, UpdatingSound DEF PushNext, At
  <2>3. Root \notin Plan[work[p].flow][work[p].seen] /\ Root \in Jobs
    BY <2>2, OneModule, PlanAssumption
  <2>4. lock' \in [Jobs -> LockState] /\ lock'[Root] = "none"
    BY <1>9, <2>3 DEF PushNext, SignsSound, LockState
  <2>5. ping' \subseteq Flows /\ UNCHANGED <<canceledBy, killing>>
    BY <1>9 DEF PushNext, SignsSound
  <2> QED BY <2>1, <2>4, <2>5 DEF SignsSound
<1>10. ASSUME NEW p \in Process, FinishFlow(p) PROVE SignsSound' /\ TriesBounded'
  <2>1. PICK verdict : Complete(work[p].flow, verdict, TRUE)
    BY <1>10 DEF FinishFlow
  <2>2. work[p].flow \in Jobs /\ killing' = killing
    BY <1>1, <1>10, UpdatingSound DEF FinishFlow, At, Updating
  <2>3. Rows
    BY <2>1, <2>2, CompleteSigns DEF Rows
  <2>4. Goes(p, Idle) \/ \E j, f, sub, ok : \E n \in 0 .. 3 : Reports(p, j, f, sub, ok, n)
    BY <1>10 DEF FinishFlow
  <2>5. TriesBounded'
    BY <1>1, <2>4, GoesTries, ReportsTries
  <2> QED BY <1>2, <1>5, <2>2, <2>3, <2>5
<1>11. ASSUME NEW p \in Process, FlowIsGone(p) PROVE SignsSound' /\ TriesBounded'
  <2>1. work[p].at \in Updating /\ Recovers(p) /\ killing' = killing
    BY <1>11 DEF FlowIsGone, At, Updating
  <2> QED BY <1>5, <2>1, RecoversSigns DEF SignsSound
<1>12. ASSUME NEW p \in Process, StatementFails(p) PROVE SignsSound' /\ TriesBounded'
  <2> PICK w : w = work[p]
    OBVIOUS
  <2>1. killing' = killing
    BY <1>12 DEF StatementFails
  <2>2. CASE w.at \in Updating /\ Recovers(p)
    BY <1>5, <2>1, <2>2, RecoversSigns DEF SignsSound
  <2>3. CASE Goes(p, [Idle EXCEPT !.at = "failing", !.job = w.job]) /\ UNCHANGED <<row, signs>>
    <3>1. [Idle EXCEPT !.at = "failing", !.job = w.job].tries <= 3
      BY DEF Idle
    <3>2. TriesBounded'
      BY <2>3, <3>1, GoesTries
    <3> QED BY <1>2, <1>3, <1>5, <2>1, <2>3, <3>2 DEF row, signs
  <2>4. CASE /\ w.at = "chaining"
             /\ IF Queued(w.flow) THEN Complete(w.flow, "failure", TRUE)
                ELSE UNCHANGED <<row, signs>>
             /\ IF w.flow = Root THEN Goes(p, Idle)
                ELSE Reports(p, w.job, Parent(w.flow), w.flow, w.ok,
                             IF w.tries < 2 THEN 0 ELSE 2)
    <3>1. work[p].flow \in Jobs
      BY <1>1, <2>4, UpdatingSound
    <3>2. Rows
      <4>1. CASE Queued(w.flow)
        BY <2>4, <3>1, <4>1, CompleteSigns DEF Rows
      <4>2. CASE ~Queued(w.flow)
        BY <1>3, <2>4, <4>2 DEF row, signs
      <4> QED BY <4>1, <4>2
    <3>3. Goes(p, Idle) \/ \E j, f, sub, ok : \E n \in 0 .. 3 : Reports(p, j, f, sub, ok, n)
      BY <2>4
    <3>4. TriesBounded'
      BY <1>1, <3>3, GoesTries, ReportsTries
    <3> QED BY <1>2, <1>5, <2>1, <3>2, <3>4
  <2> QED BY <1>12, <2>2, <2>3, <2>4 DEF StatementFails, Updating
<1>13. ASSUME NEW p \in Process, Crash(p) PROVE SignsSound' /\ TriesBounded'
  <2>1. TriesBounded'
    BY <1>1, <1>13, GoesTries DEF Crash
  <2> QED BY <1>2, <1>3, <1>5, <1>13, <2>1 DEF Crash, row, signs
<1>14. ASSUME NEW p \in Workers, Execute(p) \/ \E j \in Jobs : Pull(p, j)
       PROVE  SignsSound' /\ TriesBounded'
  <2>1. p \in Process
    BY DEF Process
  <2>2. ASSUME NEW verdict \in Ended, ChildEnds(p, verdict) PROVE SignsSound' /\ TriesBounded'
    <3> PICK j : j = work[p].job
      OBVIOUS
    <3>1. \E f, sub, ok : \E n \in 0 .. 3 : Reports(p, j, f, sub, ok, n)
      <4>1. 0 \in 0 .. 3 /\ 2 \in 0 .. 3
        OBVIOUS
      <4> QED BY <2>2, <4>1, Zenon DEF ChildEnds
    <3>2. TriesBounded'
      BY <2>1, <3>1, ReportsTries
    <3>3. j \in Jobs
      BY <1>1, <2>1, <2>2 DEF ChildEnds, At, WorkSound, Sound
    <3>4. Rows
      BY <1>3, <2>2, <3>3, CompleteSigns DEF ChildEnds, Rows, row, signs
    <3> QED BY <1>2, <1>5, <2>2, <3>2, <3>4 DEF ChildEnds
  <2>3. ASSUME Poll(p) PROVE SignsSound' /\ TriesBounded'
    <3>1. TriesBounded'
      BY <1>1, <2>1, <2>3, GoesTries DEF Poll
    <3> QED BY <1>2, <1>3, <1>5, <2>3, <3>1 DEF Poll, row, signs
  <2>4. ASSUME NEW j \in Jobs, Pull(p, j) PROVE SignsSound' /\ TriesBounded'
    <3>1. work'[p].tries = 0 /\ \A q \in Process \ {p} : work'[q] = work[q]
      BY <1>1, <2>1, <2>4 DEF Pull, Goes, Idle
    <3>2. TriesBounded'
      BY <3>1 DEF TriesBounded
    <3>3. ping' \subseteq Flows /\ UNCHANGED <<canceledBy, lock, killing>>
      BY <2>4 DEF Pull, SignsSound
    <3> QED BY <3>2, <3>3 DEF SignsSound
  <2> QED BY <1>14, <2>2, <2>3, <2>4 DEF Execute
<1>15. ASSUME NEW j \in Jobs, RestartJob(j) \/ GiveUpJob(j) \/ Kill(j) \/ CancelBranches(j)
       PROVE  SignsSound' /\ TriesBounded'
  <2>1. CASE RestartJob(j)
    BY <1>2, <1>3, <1>4, <1>5, <2>1 DEF RestartJob, signs
  <2>2. CASE GiveUpJob(j)
    <3>1. /\ [Idle EXCEPT !.at = "failing", !.job = j].tries <= 3 /\ Monitor \in Process
          /\ Goes(Monitor, [Idle EXCEPT !.at = "failing", !.job = j])
      BY <2>2 DEF Idle, GiveUpJob, Process
    <3>2. TriesBounded'
      BY <3>1, GoesTries
    <3> QED BY <1>2, <1>3, <1>5, <2>2, <3>2 DEF GiveUpJob, row, signs
  <2>3. CASE Kill(j)
    <3>1. Rows
      BY <2>3, CompleteIfQueuedSigns DEF Kill, Rows
    <3> QED BY <1>2, <1>4, <1>5, <2>3, <3>1 DEF Kill
  <2>4. CASE CancelBranches(j)
    <3>1. j # Root /\ Parent(j) \in Flows
      BY <2>4, ParentIsFlow DEF CancelBranches, SignsSound
    <3>2. killing' \subseteq Jobs
      BY <1>5, <2>4, <3>1, ForceCancelJobs DEF CancelBranches
    <3>3. Rows
      BY <2>4, PlanAssumption DEF CancelBranches, SignsSound, Rows, LockState, row
    <3> QED BY <1>2, <1>4, <2>4, <3>2, <3>3 DEF CancelBranches
  <2> QED BY <1>15, <2>1, <2>2, <2>3, <2>4
<1>16. ASSUME NEW f \in Flows, RestartFlow(f) \/ CancelFlow(f) PROVE SignsSound' /\ TriesBounded'
  <2>1. killing' \subseteq Jobs
    BY <1>5, <1>16, ForceCancelJobs DEF RestartFlow, CancelFlow
  <2> QED BY <1>2, <1>3, <1>4, <1>16, <2>1 DEF RestartFlow, CancelFlow, row, signs
<1>17. CASE Submit \/ Cancel \/ UNCHANGED vars
  <2>1. CASE Submit \/ UNCHANGED vars
    BY <1>2, <1>3, <1>4, <1>5, <2>1 DEF Submit, vars, row, signs
  <2>2. CASE Cancel
    <3>1. Root \in Flows /\ Root \in Jobs /\ \A f \in Flows : Children(f) \subseteq Jobs
      BY ChildrenAreJobs, PlanAssumption
    <3>2. canceledBy' \subseteq Jobs /\ killing' \subseteq Jobs
      BY <2>2, <3>1 DEF Cancel, SignsSound
    <3> QED BY <1>4, <2>2, <3>2 DEF Cancel, SignsSound, signs
  <2> QED BY <1>17, <2>1, <2>2
<1> QED BY <1>6, <1>7, <1>8, <1>9, <1>10, <1>11, <1>12, <1>13, <1>14, <1>15, <1>16, <1>17
        DEF Next, Update, Watch

\* Every variable of the flow keeps to its type: a flow's step stays within its
\* modules and one past them, no more branches are counted than the module has,
\* and no error is handled a fourth time.
THEOREM TypesKept == ASSUME PlanIsGenerated, Orderly PROVE Spec => []TypeOK
<1>1. Init => SignsSound /\ TriesBounded
  BY PlanAssumption DEF Init, SignsSound, TriesBounded, LockState, Idle
<1>2. FInv /\ SignsSound /\ TriesBounded /\ [Next]_vars => SignsSound' /\ TriesBounded'
  BY NextTypes
<1>0. OInv => FInv
  BY DEF OInv
<1>3. Spec => [](SignsSound /\ TriesBounded)
  BY <1>0, <1>1, <1>2, AlwaysOInv, PTL DEF Spec
<1>4. ASSUME OInv, SignsSound, TriesBounded PROVE TypeOK
  <2>1. /\ queue \in [Jobs -> {"absent", "queued", "running"}]
        /\ outcome \in [Jobs -> Ended \cup {"none"}]
        /\ reported \subseteq Jobs
    BY <1>4 DEF OInv, FInv, RowsSound, BranchSound
  <2>2. /\ canceledBy \subseteq Jobs /\ killing \subseteq Jobs /\ ping \subseteq Flows
        /\ lock \in [Jobs -> {"none", "silent", "pinged"}]
    BY <1>4 DEF SignsSound, LockState
  <2>3. ASSUME NEW f \in Flows
        PROVE  /\ step[f] \in 1 .. Last(f) + 1
               /\ \A i \in 1 .. Last(f) :
                    /\ status[f][i] \in {"waiting", "progress", "success", "failure"}
                    /\ branch[f][i] \in 0 .. Cardinality(Plan[f][i])
    <3>1. step[f] \in 1 .. Last(f) + 1
      BY <1>4 DEF OInv, ModulesSound
    <3>2. ASSUME NEW i \in 1 .. Last(f)
          PROVE  status[f][i] \in {"waiting", "progress", "success", "failure"}
      <4>1. PICK n \in Nat : status[f] \in [1 .. n -> ModuleStatus]
        BY <1>4 DEF OInv, FInv, StatusSound
      <4>2. DOMAIN status[f] = 1 .. Last(f)
        BY <1>4 DEF OInv, FInv, StatusSound
      <4> QED BY <4>1, <4>2 DEF ModuleStatus
    <3>3. ASSUME NEW i \in 1 .. Last(f) PROVE branch[f][i] \in 0 .. Cardinality(Plan[f][i])
      <4>1. IsFiniteSet(Plan[f][i]) /\ branch[f][i] = Cardinality(Plan[f][i] \cap reported)
        BY <1>4 DEF OInv, CountedOnce, PlanIsGenerated
      <4>2. /\ IsFiniteSet(Plan[f][i] \cap reported)
            /\ Cardinality(Plan[f][i] \cap reported) <= Cardinality(Plan[f][i])
        BY <4>1, FS_Subset
      <4> QED BY <4>1, <4>2, FS_CardinalityType
    <3> QED BY <3>1, <3>2, <3>3
  <2>4. ASSUME NEW p \in Process
        PROVE  /\ work[p].at \in Places
               /\ work[p].job \in Jobs \cup {NoJob}
               /\ work[p].flow \in Flows \cup {NoJob}
               /\ work[p].tries \in 0 .. 3
    BY <1>4 DEF OInv, FInv, WorkSound, WorkState, TriesBounded
  <2> QED BY <2>1, <2>2, <2>3, <2>4 DEF TypeOK, Places
<1> QED BY <1>3, <1>4, AlwaysOInv, PTL
===============================================================================
