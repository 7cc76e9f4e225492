-------------------------- MODULE ReconciliationProofs --------------------------
(***************************************************************************)
(* What the reconciliation leaves true of the step runs, for any number of *)
(* steps, handlers and faults.  It writes statuses that may be out of date *)
(* by then; but it writes none that forgets a step in flight, and only to  *)
(* steps that were dispatched once, after what they depend on.             *)
(***************************************************************************)
EXTENDS Reconciliation, OrchestrationProofs

\* The reconciliation's own part of the type invariant.
ListingOK ==
    /\ latest \in [Steps -> JobEnded \cup {"none", "queued", "running"}]
    /\ DOMAIN listing \subseteq Steps
    /\ \A s \in DOMAIN listing : listing[s] \in StepStatus \ Ended
    /\ fix \in {"none", "running", "completed", "failed", "cancelled"}
    /\ fix # "none" => DOMAIN listing # {}

LInv == TInv /\ ListingOK

LEMMA LInvInit == ReconcileInit => LInv
BY TInvInit DEF ReconcileInit, LInv, ListingOK

LEMMA HandlersListingOK ==
    ASSUME LInv, Track
    PROVE  ListingOK'
<1>1. \A s \in Steps : Newest(s) \in JobEnded \cup {"none", "queued", "running"}
  BY DEF Newest, LInv, ListingOK
<1> QED
  BY <1>1 DEF Track, LInv, ListingOK

LEMMA JobEndsListingOK ==
    ASSUME LInv, NEW s \in Steps, JobEnds(s)
    PROVE  ListingOK'
BY JobFaultsAssumption DEF JobEnds, LInv, ListingOK, JobEnded

LEMMA ListListingOK ==
    ASSUME LInv, NEW S \in SUBSET Steps, List(S)
    PROVE  ListingOK'
<1>1. fix = "none"
  BY DEF List, LInv, ListingOK
<1> QED
  BY <1>1 DEF List, LInv, ListingOK, TInv, RowsOK

LEMMA AskListingOK ==
    ASSUME LInv, NEW s \in Steps, Ask(s)
    PROVE  ListingOK'
<1>1. CASE MayBeFixed(s) /\ fix' = Mapped(latest[s]) /\ UNCHANGED <<listing, latest>>
  <2>1. fix' \in {"running", "completed", "failed", "cancelled"}
    BY <1>1 DEF MayBeFixed, MayFix, Mapped, Ended, LInv, ListingOK, JobEnded
  <2>2. s \in DOMAIN listing
    BY DEF Ask, Current
  <2> QED
    BY <1>1, <2>1, <2>2 DEF LInv, ListingOK
<1>2. CASE listing' = Without(s) /\ UNCHANGED <<fix, latest>> /\ fix = "none"
  BY <1>2 DEF Without, LInv, ListingOK
<1> QED
  BY <1>1, <1>2 DEF Ask

LEMMA FixLInv ==
    ASSUME LInv, NEW s \in Steps, Fix(s)
    PROVE  LInv'
<1>1. fix \in StepStatus
  BY DEF Fix, LInv, ListingOK, StepStatus
<1>2. RowsOK'
  BY <1>1 DEF Fix, LInv, TInv, RowsOK
<1>3. ThreadsSound'
  BY DEF Fix, LInv, TInv, ThreadsSound
<1>4. ListingOK'
  BY DEF Fix, Without, LInv, ListingOK
<1> QED
  BY <1>2, <1>3, <1>4 DEF LInv, TInv

LEMMA LInvNext == LInv /\ [ReconcileNext]_all => LInv'
<1> SUFFICES ASSUME LInv, [ReconcileNext]_all
             PROVE  LInv'
  OBVIOUS
<1>1. ASSUME Next, Track
      PROVE  LInv'
  BY <1>1, HandlersListingOK, TInvNext DEF LInv
<1>2. ASSUME UNCHANGED vars, ListingOK'
      PROVE  LInv'
  BY <1>2, TInvNext DEF LInv
<1>3. ASSUME NEW s \in Steps, JobEnds(s) \/ List({s}) \/ Ask(s)
      PROVE  LInv'
  BY <1>2, <1>3, JobEndsListingOK, ListListingOK, AskListingOK DEF JobEnds, List, Ask
<1>4. CASE List(Steps)
  BY <1>2, <1>4, ListListingOK DEF List
<1>5. CASE UNCHANGED all
  <2>1. ListingOK'
    BY <1>5 DEF all, LInv, ListingOK
  <2> QED
    BY <1>2, <1>5, <2>1 DEF all
<1> QED
  BY <1>1, <1>3, <1>4, <1>5, FixLInv DEF ReconcileNext, Reconcile

\* The rows, the jobs' statuses and the listing are always known ones, and the
\* reconciliation never decides to write anything but RUNNING and the statuses
\* a job may end with.
THEOREM ReconcileTypeInvariant == ReconcileSpec => []ReconcileTypeOK
<1>1. LInv => ReconcileTypeOK
  BY DEF LInv, ListingOK, ReconcileTypeOK, TInv, RowsOK, ThreadsSound, TypeOK
<1> QED
  BY <1>1, LInvInit, LInvNext, PTL DEF ReconcileSpec

-----------------------------------------------------------------------------
(* No step is forgotten in flight.                                         *)

LEMMA FixOwned ==
    ASSUME LInv, InFlightOwned, NEW s \in Steps, Fix(s)
    PROVE  InFlightOwned'
<1> SUFFICES ASSUME NEW r \in Steps, step'[r] \in Active
             PROVE  jobs'[r] > 0 \/ r \in orphan' \/ \E t \in Threads : Owns(t, r)'
  BY DEF InFlightOwned, Active
<1>1. CASE r = s
  <2>1. step'[s] = fix
    BY DEF Fix, LInv, TInv, RowsOK
  <2>2. fix = "running"
    BY <1>1, <2>1 DEF LInv, ListingOK, Active
  <2> QED
    BY <1>1, <2>2 DEF Fix
<1>2. CASE r # s
  <2>1. step'[r] = step[r] /\ jobs' = jobs /\ thread' = thread
    BY <1>2 DEF Fix, LInv, TInv, RowsOK
  <2>2. r \in orphan => r \in orphan'
    BY <1>2 DEF Fix
  <2> QED
    BY <2>1, <2>2 DEF InFlightOwned, Owns
<1> QED
  BY <1>1, <1>2

\* Beside any number of handlers, any number of reconciliations leave no
\* RUNNING or NEEDS_QA row behind that nobody is bound to move on, other than
\* those given up and those a reconciliation itself set to RUNNING.
THEOREM NoStepForgottenByReconciliation == ReconcileSpec => []InFlightOwned
<1>1. ReconcileInit => InFlightOwned
  BY DEF ReconcileInit, Init, InFlightOwned, Active
<1>2. LInv /\ InFlightOwned /\ [ReconcileNext]_all => InFlightOwned'
  <2> SUFFICES ASSUME LInv, InFlightOwned, [ReconcileNext]_all
               PROVE  InFlightOwned'
    OBVIOUS
  <2>1. CASE [Next]_vars
    BY <2>1, InFlightOwnedNext DEF LInv
  <2>2. ASSUME NEW s \in Steps, Fix(s)
        PROVE  InFlightOwned'
    BY <2>2, FixOwned
  <2> QED
    BY <2>1, <2>2 DEF ReconcileNext, Reconcile, JobEnds, List, Ask, all
<1> QED
  BY <1>1, <1>2, LInvInit, LInvNext, PTL DEF ReconcileSpec

-----------------------------------------------------------------------------
(* The dependencies are respected.                                         *)

LEMMA DoneGrows == [Next]_vars => done \subseteq done'
<1>1. ASSUME NEW t \in Threads, WriteStep(t)
      PROVE  done \subseteq done'
  BY <1>1 DEF WriteStep
<1> QED
  BY <1>1 DEF Next, Progress, Request, StartJob, Decide, WriteProtocol, SubmitJob, NoSubmission,
              GatesRaise, Crash, vars

\* A step with a job was dispatched, and nothing is decided for one without.
RInv ==
    /\ DInv
    /\ \A s \in Steps : latest[s] # "none" => Deps[s] \subseteq done
    /\ fix # "none" => \A s \in Steps : Current(s) => latest[s] # "none"

LEMMA HandlersRInv ==
    ASSUME Requests \cap DirectRequests = {}, LInv, RInv, Next, Track
    PROVE  RInv'
<1>1. DInv'
  BY DInvNext DEF LInv, RInv
<1>2. done \subseteq done'
  BY DoneGrows
<1>3. TInv'
  BY TInvNext DEF LInv
<1>4. ASSUME NEW s \in Steps, latest'[s] # "none"
      PROVE  Deps[s] \subseteq done'
  <2>1. latest'[s] = Newest(s)
    BY DEF Track
  <2>2. CASE jobs'[s] > jobs[s]
    <3>1. jobs[s] \in Nat /\ jobs'[s] \in Nat
      BY <1>3 DEF LInv, TInv, RowsOK
    <3> QED
      BY <1>1, <2>2, <3>1 DEF DInv
  <2>3. CASE ~(jobs'[s] > jobs[s])
    <3>1. latest[s] # "none"
      BY <1>4, <2>1, <2>3 DEF Newest
    <3> QED
      BY <1>2, <3>1 DEF RInv
  <2> QED
    BY <2>2, <2>3
<1>5. ASSUME NEW s \in Steps, latest[s] # "none"
      PROVE  latest'[s] # "none"
  BY <1>5 DEF Track, Newest
<1>6. fix' # "none" => \A s \in Steps : Current(s)' => latest'[s] # "none"
  BY <1>5 DEF Track, Current, RInv
<1> QED
  BY <1>1, <1>4, <1>6 DEF RInv

LEMMA FixRInv ==
    ASSUME LInv, RInv, NEW s \in Steps, Fix(s)
    PROVE  RInv'
<1>1. Deps[s] \subseteq done
  BY DEF Fix, RInv
<1>2. done \subseteq done' /\ thread' = thread /\ jobs' = jobs /\ latest' = latest
  BY DEF Fix
<1>3. \A r \in Steps : step'[r] = IF r = s THEN fix ELSE step[r]
  BY DEF Fix, LInv, TInv, RowsOK
<1>4. DependencyOrder'
  BY <1>1, <1>2, <1>3 DEF DependencyOrder, RInv, DInv
<1>5. \A r \in Steps : step'[r] = "completed" => r \in done'
  BY <1>2, <1>3 DEF Fix, RInv, DInv
<1>6. AllCommitted'
  BY <1>2 DEF AllCommitted, Committed, Selected, RInv, DInv
<1>7. DInv'
  BY <1>2, <1>4, <1>5, <1>6 DEF DInv, RInv
<1> QED
  BY <1>2, <1>7 DEF RInv, Fix

LEMMA RInvNext ==
    ASSUME Requests \cap DirectRequests = {}
    PROVE  LInv /\ RInv /\ [ReconcileNext]_all => RInv'
<1> SUFFICES ASSUME LInv, RInv, [ReconcileNext]_all
             PROVE  RInv'
  OBVIOUS
<1>1. ASSUME UNCHANGED vars
      PROVE  DInv' /\ done' = done
  BY <1>1, DInvNext DEF LInv, RInv, vars
<1>2. ASSUME NEW s \in Steps, JobEnds(s)
      PROVE  RInv'
  <2>1. \A r \in Steps : latest'[r] # "none" => latest[r] # "none"
    BY <1>2 DEF JobEnds, LInv, ListingOK
  <2>2. \A r \in Steps : latest[r] # "none" => latest'[r] # "none"
    BY <1>2, JobFaultsAssumption DEF JobEnds, LInv, ListingOK
  <2> QED
    BY <1>1, <1>2, <2>1, <2>2 DEF JobEnds, RInv, Current
<1>3. ASSUME NEW S \in SUBSET Steps, List(S)
      PROVE  RInv'
  <2>1. fix' = "none"
    BY <1>3 DEF List, LInv, ListingOK
  <2> QED
    BY <1>1, <1>3, <2>1 DEF List, RInv
<1>4. ASSUME NEW s \in Steps, Ask(s)
      PROVE  RInv'
  <2>1. CASE MayBeFixed(s) /\ UNCHANGED listing
    <3>1. \A r \in Steps : Current(r)' => r = s
      BY <1>4, <2>1, StepsAssumption DEF Ask, Current
    <3> QED
      BY <1>1, <1>4, <2>1, <3>1 DEF Ask, RInv, MayBeFixed
  <2>2. CASE UNCHANGED fix
    BY <1>1, <1>4, <2>2 DEF Ask, RInv
  <2> QED
    BY <1>4, <2>1, <2>2 DEF Ask
<1>5. CASE UNCHANGED all
  BY <1>1, <1>5 DEF all, RInv, Current
<1> QED
  BY <1>2, <1>3, <1>4, <1>5, HandlersRInv, FixRInv DEF ReconcileNext, Reconcile

\* When no request names the step to execute, a step leaves PENDING only after
\* all the steps it depends on have been completed, although a reconciliation
\* completes, fails and starts steps without looking at their dependencies: it
\* does so only to steps that have a job.
THEOREM DependenciesFirstReconciled ==
    ASSUME Requests \cap DirectRequests = {}
    PROVE  ReconcileSpec => []DependencyOrder
<1>1. ReconcileInit => RInv
  BY IdleCommitted DEF ReconcileInit, Init, RInv, DInv, DependencyOrder, AllCommitted
<1>2. RInv => DependencyOrder
  BY DEF RInv, DInv
<1>3. LInv /\ RInv /\ [ReconcileNext]_all => RInv'
  BY RInvNext
<1> QED
  BY <1>1, <1>2, <1>3, LInvInit, LInvNext, PTL DEF ReconcileSpec
===============================================================================
