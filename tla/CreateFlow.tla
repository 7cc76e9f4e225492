----------------------------- MODULE CreateFlow -----------------------------
(***************************************************************************)
(* create_flow_from_steps with the search it calls: detect_cycles looks    *)
(* for the cycles (CycleDetection), and what it returns decides whether    *)
(* the levels are computed and the flow is made (FlowGenerator, whose own  *)
(* check is the definition of a cycle).                                    *)
(***************************************************************************)
EXTENDS FlowGenerator, CycleDetection

ASSUME OrderAssumption == Order \in Seq(Nodes) /\ ToSet(Order) = Nodes

generating == <<at, inDegree, remaining, levels, flow>>

CreateInit == Init /\ Fresh

DetectCycles == at = "check" /\ SearchStep /\ UNCHANGED generating

CheckFound ==
    /\ Finished
    /\ Check({ToSet(Cycles[k]) : k \in DOMAIN Cycles})
    /\ UNCHANGED searching

MakeFlow == (TakeLevel \/ Generate) /\ UNCHANGED searching

CreateNext == DetectCycles \/ CheckFound \/ MakeFlow

CreateSpec == /\ CreateInit /\ [][CreateNext]_<<vars, searching>>
              /\ WF_<<vars, searching>>(CreateNext)

-----------------------------------------------------------------------------
\* Type invariant of both parts.
TypesOK == TypeOK /\ SearchTypeOK

\* What detect_cycles returns are the cycles of more than one step, each
\* once, whatever the order of the edges: the classical traps are a lowlink
\* taken over from a component that is closed, and one not handed back to the
\* caller.
CyclesExact ==
    Finished =>
        LET found == Cycles
        IN  /\ {ToSet(found[k]) : k \in DOMAIN found} = CyclesOf(edges)
            /\ \A j, k \in DOMAIN found : ToSet(found[j]) = ToSet(found[k]) => j = k

\* The search and the loop implement FlowGenerator, which refuses a graph that
\* has a cycle by definition: every step is one of FlowGenerator's or a stutter.
ImplementsGenerator == [][Next]_vars
=============================================================================
