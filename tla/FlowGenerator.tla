---------------------------- MODULE FlowGenerator ----------------------------
(***************************************************************************)
(* OrchestratorService.create_flow_from_steps: the step runs of a protocol *)
(* run become a Windmill flow, a sequence of groups of steps that run side *)
(* by side.  The graph is refused when detect_cycles finds a cycle (module *)
(* CycleDetection); otherwise Kahn's algorithm takes the steps level by    *)
(* level, one action per round of its loop, and the levels are emitted in  *)
(* the order of their keys "group_0", "group_1", ...                       *)
(***************************************************************************)
EXTENDS StepGraph

VARIABLES
    at,          \* where create_flow_from_steps is
    inDegree,    \* in_degree of each step
    remaining,   \* the steps that are in no level yet
    levels,      \* the levels so far
    flow         \* the groups of the flow, in the order they run

vars == <<edges, at, inDegree, remaining, levels, flow>>

Placed == Nodes \ remaining

\* Edges that lead from one of the steps S to step n, with their repetitions.
EdgesFrom(S, n) == {p \in DOMAIN edges : edges[p][1] \in S /\ edges[p][2] = n}

\* A generator without the check.
CheckNothing(cycles) ==
    /\ at = "check"
    /\ at' = "levels"
    /\ inDegree' = [n \in Nodes |-> Cardinality(EdgesFrom(Ids, n))]
    /\ UNCHANGED <<edges, remaining, levels, flow>>

\* The graph is refused if detect_cycles returns anything.
Check(cycles) ==
    /\ at = "check"
    /\ at' = IF cycles # {} THEN "refused" ELSE "levels"
    /\ inDegree' = [n \in Nodes |-> Cardinality(EdgesFrom(Ids, n))]
    /\ UNCHANGED <<edges, remaining, levels, flow>>

\* detect_cycles counts the components of more than one node only.
CheckCycles == Check(CyclesOf(edges))

\* A level that takes one step too early.
LevelLoose == {n \in remaining : inDegree[n] <= 1}

\* A level that holds one step only.
LevelSingle == {n \in remaining : /\ inDegree[n] = 0
                                  /\ \A m \in remaining : inDegree[m] = 0 => n <= m}

\* The steps nothing holds any more.
Level == {n \in remaining : inDegree[n] = 0}

\* A round that counts a repeated entry of depends_on once.
TakeLevelOnce ==
    /\ at = "levels"
    /\ Level # {}
    /\ levels' = Append(levels, Level)
    /\ remaining' = remaining \ Level
    /\ inDegree' = [n \in Nodes |->
                       inDegree[n] - Cardinality({edges[p] : p \in EdgesFrom(Level, n)})]
    /\ UNCHANGED <<edges, at, flow>>

\* A round of _topological_levels.
TakeLevel ==
    /\ at = "levels"
    /\ Level # {}
    /\ levels' = Append(levels, Level)
    /\ remaining' = remaining \ Level
    /\ inDegree' = [n \in Nodes |-> inDegree[n] - Cardinality(EdgesFrom(Level, n))]
    /\ UNCHANGED <<edges, at, flow>>

\* The rank of the string "group_i" among such strings, for i < 100: "group_1"
\* is followed by "group_10", ..., "group_19" and then by "group_2".
KeyRank(i) == IF i < 10 THEN 11 * i ELSE 11 * (i \div 10) + 1 + (i % 10)

\* The place of level i in sorted(parallel_groups.keys()).
Place(i) == 1 + Cardinality({j \in DOMAIN levels : KeyRank(j - 1) < KeyRank(i - 1)})

\* A loop that goes on until every step is placed.
GenerateNoBreak ==
    /\ at = "levels"
    /\ remaining = {}
    /\ at' = "created"
    /\ flow' = [k \in DOMAIN levels |-> levels[CHOOSE i \in DOMAIN levels : Place(i) = k]]
    /\ UNCHANGED <<edges, inDegree, remaining, levels>>

\* FlowGenerator.generate, when no level is left to take: whether all steps
\* have been placed makes no difference but for a warning.
Generate ==
    /\ at = "levels"
    /\ Level = {}
    /\ at' = "created"
    /\ flow' = [k \in DOMAIN levels |-> levels[CHOOSE i \in DOMAIN levels : Place(i) = k]]
    /\ UNCHANGED <<edges, inDegree, remaining, levels>>

Init ==
    /\ edges \in EdgeLists
    /\ at = "check"
    /\ inDegree = [n \in Nodes |-> 0]
    /\ remaining = Nodes
    /\ levels = <<>>
    /\ flow = <<>>

Next == CheckCycles \/ TakeLevel \/ Generate

Spec == Init /\ [][Next]_vars
-----------------------------------------------------------------------------
\* Types of what the loop works on; an in-degree never becomes negative.
LoopTypes ==
    /\ edges \in Edges
    /\ at \in {"check", "levels", "refused", "created"}
    /\ inDegree \in [Nodes -> Nat]
    /\ remaining \in SUBSET Nodes
    /\ levels \in Seq(SUBSET Nodes)

\* Type invariant.
TypeOK ==
    /\ LoopTypes
    /\ flow \in Seq(SUBSET Nodes)

\* A step is in a level only after every step it depends on is in an earlier
\* one, whatever the graph: repeated entries, self-dependencies and entries
\* that are no step run do not put a step too early.
LevelsInOrder ==
    \A i \in DOMAIN levels : \A n \in levels[i] :
        \A d \in StepDependencies(edges, n) : \E j \in 1..(i - 1) : d \in levels[j]

\* The levels are as wide as they can be: a step of a later level depends on
\* one of the level before.
LevelsTight ==
    \A i \in DOMAIN levels : i > 1 =>
        \A n \in levels[i] : StepDependencies(edges, n) \cap levels[i - 1] # {}

\* The steps that are left out of a flow are exactly those that can never
\* run.  No runnable step is lost with them.
OnlyStuckLeftOut == at = "created" => remaining = Stuck(edges)

FlowSteps == UNION {flow[k] : k \in DOMAIN flow}

\* What the cycle check is for: if it passes, and every dependency is another
\* step run, then the flow has every step.
FlowComplete ==
    at = "created"
        /\ SelfDependent(edges) = {}
        /\ (\A n \in Nodes : Dependencies(edges, n) \subseteq Nodes)
    => FlowSteps = Nodes

\* The loop ends, in a flow or in a refusal.
Ends == <>(at \in {"refused", "created"})

\* "Handles parallel branches, dependencies, and step execution": the flow
\* runs a step after the steps it depends on.
FlowInOrder ==
    \A k \in DOMAIN flow : \A n \in flow[k] :
        \A d \in StepDependencies(edges, n) : \E j \in 1..(k - 1) : d \in flow[j]
=============================================================================
