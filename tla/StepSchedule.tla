---------------------------- MODULE StepSchedule ----------------------------
(***************************************************************************)
(* What the orchestration promises of the step runs of one protocol run,   *)
(* whoever dispatches them and through whatever entry point: a step is     *)
(* worked on only after the steps it depends on have succeeded, what has   *)
(* succeeded is never worked on again, and a step that stopped short       *)
(* becomes eligible again only by a retry, which is counted.               *)
(***************************************************************************)
EXTENDS Naturals

CONSTANTS Steps, Deps

VARIABLES
    phase,     \* phase[s]: what has become of step s
    attempts   \* attempts[s]: how often s was given another attempt

Phases == {"waiting", "working", "succeeded", "stopped"}

ScheduleTypeOK ==
    /\ phase \in [Steps -> Phases]
    /\ attempts \in [Steps -> Nat]

Eligible(s) == phase[s] = "waiting" /\ \A d \in Deps[s] : phase[d] = "succeeded"

Start(s) ==
    /\ Eligible(s)
    /\ phase' = [phase EXCEPT ![s] = "working"]
    /\ UNCHANGED attempts

\* An eligible step may be refused before any work is done on it.
Refuse(s) ==
    /\ Eligible(s)
    /\ phase' = [phase EXCEPT ![s] = "stopped"]
    /\ UNCHANGED attempts

Finish(s) ==
    /\ phase[s] = "working"
    /\ phase' \in {[phase EXCEPT ![s] = "succeeded"], [phase EXCEPT ![s] = "stopped"]}
    /\ UNCHANGED attempts

Retry(s) ==
    /\ phase[s] = "stopped"
    /\ phase' = [phase EXCEPT ![s] = "waiting"]
    /\ attempts' = [attempts EXCEPT ![s] = @ + 1]

ScheduleInit ==
    /\ phase = [s \in Steps |-> "waiting"]
    /\ attempts = [s \in Steps |-> 0]

ScheduleNext == \E s \in Steps : Start(s) \/ Refuse(s) \/ Finish(s) \/ Retry(s)

ScheduleSpec == ScheduleInit /\ [][ScheduleNext]_<<phase, attempts>>
=============================================================================
