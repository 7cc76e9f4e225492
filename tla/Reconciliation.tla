---------------------------- MODULE Reconciliation ----------------------------
(***************************************************************************)
(* The reconciliation of the step rows with the Windmill jobs, beside the  *)
(* handlers of Orchestration.  It lists the steps that have not ended,     *)
(* asks Windmill for the newest job of each, and writes what the job says  *)
(* over the row, if the status in the LISTING may be corrected; the row    *)
(* may have changed since.  The routes are coroutines that never await, so *)
(* there is one reconciliation at a time.                                  *)
(*                                                                         *)
(* A job is a script that calls the execute route and gives up waiting for *)
(* the answer after 30 seconds, without an error: the job is then complete *)
(* while the handler (a thread of Workers) goes on.                        *)
(***************************************************************************)
EXTENDS Orchestration

CONSTANT JobFaults    \* how Windmill may end a running script besides

ASSUME JobFaultsAssumption == JobFaults \subseteq {"failed", "canceled"}

VARIABLES
    latest,     \* Windmill's status of the newest job in job_runs of each step
    listing,    \* the steps still to be reconciled, with their listed status
    fix         \* the status about to be written to the first of them

all == <<vars, latest, listing, fix>>

JobEnded == {"completed", "failed", "canceled"}

-----------------------------------------------------------------------------
(* The jobs.  Windmill starts them in the order of their submission, so    *)
(* the newest is queued as long as any is.                                 *)

Newest(s) ==
    IF jobs'[s] > jobs[s] THEN "queued"
    ELSE IF jobs'[s] = 0 /\ latest[s] = "queued" THEN "running"
    ELSE latest[s]

Track == latest' = [s \in Steps |-> Newest(s)] /\ UNCHANGED <<listing, fix>>

\* The script returns or gives up waiting, or Windmill ends it.
JobEnds(s) ==
    /\ latest[s] = "running"
    /\ \E ended \in {"completed"} \cup JobFaults : latest' = [latest EXCEPT ![s] = ended]
    /\ UNCHANGED <<vars, listing, fix>>

-----------------------------------------------------------------------------
(* The reconciliation.                                                     *)

\* reconcile_runs and reconcile_protocol list all the steps, reconcile_step
\* reads one.  Without an id reconcile_runs skips protocol runs that have ended
\* and takes 500 of the others at most: it may not list at all what is listed here.
List(S) ==
    /\ DOMAIN listing = {}
    /\ listing' = [s \in {r \in S : step[r] \notin Ended} |-> step[s]]
    /\ UNCHANGED <<vars, latest, fix>>

\* The steps are taken in the order of step_index.
Current(s) == s \in DOMAIN listing /\ \A r \in DOMAIN listing : s <= r

Without(s) == [r \in DOMAIN listing \ {s} |-> listing[r]]

Mapped(job) ==
    IF job = "queued" THEN "pending"
    ELSE IF job = "canceled" THEN "cancelled"
    ELSE job

\* Every mismatch is corrected.
MayFixAny(seen, to) == to # seen

\* Corrections of pending steps only.
MayFixPending(seen, to) == seen = "pending" /\ to \in Ended \cup {"running"}

\* _can_auto_fix, for a listed status that differs.
MayFix(seen, to) == to \in Ended \/ (seen = "pending" /\ to = "running")

\* _reconcile_step up to the write: a step without a job is left alone.
MayBeFixed(s) == latest[s] # "none" /\ MayFix(listing[s], Mapped(latest[s]))

Ask(s) ==
    /\ Current(s)
    /\ fix = "none"
    /\ \/ MayBeFixed(s) /\ fix' = Mapped(latest[s]) /\ UNCHANGED listing
       \/ ~MayBeFixed(s) /\ listing' = Without(s) /\ UNCHANGED fix
    /\ UNCHANGED <<vars, latest>>

\* The write, whatever the row holds by now.  Nobody is told to move a step on
\* that is set to RUNNING.
Fix(s) ==
    /\ Current(s)
    /\ fix # "none"
    /\ step' = [step EXCEPT ![s] = fix]
    /\ done' = IF fix = "completed" THEN done \cup {s} ELSE done
    /\ orphan' = IF fix = "running" THEN orphan \cup {s} ELSE orphan \ {s}
    /\ listing' = Without(s)
    /\ fix' = "none"
    /\ UNCHANGED <<proto, retries, jobs, thread, latest>>

Reconcile == \E s \in Steps : Ask(s) \/ Fix(s)

-----------------------------------------------------------------------------
ReconcileInit ==
    /\ Init
    /\ latest = [s \in Steps |-> "none"]
    /\ listing = [s \in {} |-> "none"]
    /\ fix = "none"

ReconcileNext ==
    \/ Next /\ Track
    \/ \E s \in Steps : JobEnds(s) \/ List({s})
    \/ List(Steps)
    \/ Reconcile

ReconcileSpec == ReconcileInit /\ [][ReconcileNext]_all

\* What Orchestration assumes; a reconciliation that has begun goes on; and a
\* script does not wait for ever.
ReconcileFairness ==
    /\ \A t \in Threads : WF_all(Progress(t) /\ Track)
    /\ \A w \in Workers : WF_all(StartJob(w) /\ Track)
    /\ \A s \in Steps : WF_all(JobEnds(s))
    /\ WF_all(Reconcile)

FairReconcileSpec == ReconcileSpec /\ ReconcileFairness

-----------------------------------------------------------------------------
(* Properties.                                                             *)

\* Type invariant of both parts; only steps of the listing are corrected.
ReconcileTypeOK ==
    /\ TypeOK
    /\ latest \in [Steps -> JobEnded \cup {"none", "queued", "running"}]
    /\ DOMAIN listing \subseteq Steps
    /\ \A s \in DOMAIN listing : listing[s] \in StepStatus \ Ended
    /\ fix \in {"none", "running", "completed", "failed", "cancelled"}
    /\ fix # "none" => DOMAIN listing # {}

\* What the reconciliation is for: a step that is still RUNNING or NEEDS_QA
\* although its job has ended does not stay so, whatever was lost and whoever
\* died, as long as its protocol run is reconciled again and again.
DriftRepaired ==
    []<><<List(Steps)>>_all =>
        \A s \in Steps :
            (step[s] \in Active /\ latest[s] \in JobEnded) ~> step[s] \notin Active

\* "Never auto-fix if DB already shows terminal."
NeverFixesTerminal == [][\A s \in Steps : Fix(s) => step[s] \notin Ended]_all
=============================================================================
