------------------------------ MODULE JobService ------------------------------
(***************************************************************************)
(* What Windmill promises of a job to those who push it and ask for it: it *)
(* is queued, it runs, perhaps more than once, and once it has ended it is *)
(* never queued again.  Its status may still change after it has ended, if *)
(* two parties were ending it at once (Overwrite).                         *)
(* WindmillJobs implements this for each job, WindmillFlow for the jobs of  *)
(* a flow.                                                                 *)
(***************************************************************************)
CONSTANT Jobs
VARIABLE job        \* what a query of each job's status answers

Ended  == {"success", "failure", "canceled"}
Status == {"absent", "queued", "running"} \cup Ended

Init == job = [j \in Jobs |-> "absent"]

Becomes(j, from, to) ==
    /\ job[j] \in from
    /\ job' = [job EXCEPT ![j] = to]

\* Jobs are pushed one by one or, in one transaction, side by side.
Submit(new) ==
    /\ \A j \in new : job[j] = "absent"
    /\ job' = [j \in Jobs |-> IF j \in new THEN "queued" ELSE job[j]]

Start(j)        == Becomes(j, {"queued"}, "running")
End(j, status)  == Becomes(j, {"queued", "running"}, status)
Overwrite(j, status) == Becomes(j, Ended, status)

\* Jobs whose workers are silent are put back together, in one statement.
Requeue(silent) ==
    /\ \A j \in silent : job[j] = "running"
    /\ job' = [j \in Jobs |-> IF j \in silent THEN "queued" ELSE job[j]]

Next ==
    \/ \E j \in Jobs :
        \/ Start(j)
        \/ \E status \in Ended : End(j, status) \/ Overwrite(j, status)
    \/ \E some \in SUBSET Jobs : Submit(some) \/ Requeue(some)

Spec == Init /\ [][Next]_job
===============================================================================
