------------------------- MODULE FlowGeneratorProofs -------------------------
(***************************************************************************)
(* Theorems about FlowGenerator, for every finite set of steps and every   *)
(* list of edges.                                                          *)
(***************************************************************************)
EXTENDS FlowGenerator, FiniteSetTheorems, SequenceTheorems, WellFoundedInduction, TLAPS

USE DEF Edges

\* The edges that still keep step n from its level: those that come from a
\* step without a level or from no step at all.
Holding(n) == EdgesFrom(Ids \ Placed, n)

\* The in-degrees are exact: the loop subtracts each edge once, with its
\* repetitions, and at the right time.
DegreesExact == at # "check" => \A n \in Nodes : inDegree[n] = Cardinality(Holding(n))

\* The levels hold the placed steps and nothing else.
LevelsHoldPlaced == Placed = UNION {levels[i] : i \in DOMAIN levels}

\* A step that has become free was held by the last level.
FreedByLast ==
    at # "check" /\ levels # <<>> =>
        \A n \in Level : StepDependencies(edges, n) \cap levels[Len(levels)] # {}

\* No step that waits for ever is placed.
StuckRemain == Stuck(edges) \subseteq remaining

\* Nothing is taken before the cycle check, and the loop has ended when the
\* flow is created.
Phases ==
    /\ at = "check" => levels = <<>> /\ remaining = Nodes
    /\ at = "created" => Level = {}

GInv ==
    /\ LoopTypes /\ Phases /\ DegreesExact /\ LevelsHoldPlaced
    /\ LevelsInOrder /\ LevelsTight /\ FreedByLast /\ StuckRemain

-----------------------------------------------------------------------------
\* The edges of a list are finitely many.
LEMMA EdgesFinite ==
  ASSUME NEW S, NEW n, edges \in Edges
  PROVE  IsFiniteSet(EdgesFrom(S, n)) /\ Cardinality(EdgesFrom(S, n)) \in Nat
<1>1. IsFiniteSet(DOMAIN edges)
  BY FS_Interval, LenProperties
<1>2. EdgesFrom(S, n) \subseteq DOMAIN edges
  BY DEF EdgesFrom
<1> QED
  BY <1>1, <1>2, FS_Subset, FS_CardinalityType

\* Who holds a step without an in-degree: nobody, so all that it depends on
\* are steps with a level.
LEMMA FreeStep ==
  ASSUME LoopTypes, DegreesExact, at # "check", NEW n \in Nodes
  PROVE  inDegree[n] = 0 <=> Dependencies(edges, n) \subseteq Placed
<1>1. inDegree[n] = 0 <=> Holding(n) = {}
  BY EdgesFinite, FS_EmptySet DEF Holding, LoopTypes, DegreesExact
<1>2. \A p \in DOMAIN edges : edges[p][1] \in Ids
  BY ElementOfSeq DEF LoopTypes
<1>3. Holding(n) = {} <=> Dependencies(edges, n) \subseteq Placed
  BY <1>2 DEF Holding, EdgesFrom, Dependencies
<1> QED
  BY <1>1, <1>3

-----------------------------------------------------------------------------
\* The initial state.
LEMMA InitGInv == Init => GInv
<1> SUFFICES ASSUME Init PROVE GInv
  OBVIOUS
<1> USE NodesAssumption, EdgeListsAssumption DEF Init
<1>1. LoopTypes
  BY EmptySeq DEF LoopTypes
<1>2. Phases /\ DegreesExact /\ LevelsInOrder /\ LevelsTight /\ FreedByLast
  BY DEF Phases, DegreesExact, LevelsInOrder, LevelsTight, FreedByLast
<1>3. LevelsHoldPlaced
  BY DEF LevelsHoldPlaced, Placed
<1>4. StuckRemain
  BY DEF StuckRemain, Stuck
<1> QED
  BY <1>1, <1>2, <1>3, <1>4 DEF GInv

\* The cycle check computes the in-degrees; nothing is placed yet.
LEMMA CheckCyclesGInv == GInv /\ CheckCycles => GInv'
<1> SUFFICES ASSUME GInv, CheckCycles PROVE GInv'
  OBVIOUS
<1> USE NodesAssumption DEF GInv, CheckCycles, Check
<1>1. levels = <<>> /\ remaining = Nodes /\ Placed = {}
  BY DEF Phases, Placed
<1>2. \A n \in Nodes : inDegree'[n] = Cardinality(EdgesFrom(Ids, n)) /\ inDegree'[n] \in Nat
  BY EdgesFinite DEF LoopTypes
<1>3. LoopTypes'
  BY <1>2 DEF LoopTypes
<1>4. DegreesExact'
  <2>1. Ids \ Placed' = Ids
    BY <1>1 DEF Placed
  <2>2. \A n \in Nodes : Holding(n)' = EdgesFrom(Ids, n)
    BY <2>1 DEF Holding, EdgesFrom
  <2> QED
    BY <1>2, <2>2 DEF DegreesExact
<1>5. Phases'
  <2>1. at' # "check" /\ at' # "created"
    OBVIOUS
  <2> QED
    BY <2>1 DEF Phases
<1>6. LevelsHoldPlaced' /\ LevelsInOrder' /\ LevelsTight' /\ FreedByLast'
  BY <1>1 DEF LevelsHoldPlaced, LevelsInOrder, LevelsTight, FreedByLast, Placed
<1>7. StuckRemain'
  BY DEF StuckRemain, Stuck, Waiting, Dependencies
<1> QED
  BY <1>3, <1>4, <1>5, <1>6, <1>7

\* A round of the loop takes the edges from its level off the in-degrees.
LEMMA TakeLevelDegrees ==
  ASSUME GInv, TakeLevel, NEW n \in Nodes
  PROVE  /\ inDegree'[n] \in Nat
         /\ inDegree'[n] = Cardinality(Holding(n)')
         /\ inDegree[n] # 0 /\ inDegree'[n] = 0 =>
               StepDependencies(edges, n) \cap Level # {}
<1> USE NodesAssumption DEF GInv, TakeLevel
<1> DEFINE taken == EdgesFrom(Level, n)
<1>1. Level \subseteq remaining /\ remaining \subseteq Nodes /\ edges \in Edges
  BY DEF Level, LoopTypes
<1>2. Holding(n)' = Holding(n) \ taken
  BY <1>1 DEF Holding, EdgesFrom, Placed
<1>3. Holding(n) \cap taken = taken
  BY <1>1 DEF Holding, EdgesFrom, Placed
<1>4. IsFiniteSet(Holding(n)) /\ Cardinality(Holding(n)) \in Nat
  BY <1>1, EdgesFinite DEF Holding
<1>5. IsFiniteSet(taken) /\ Cardinality(taken) \in Nat
  BY <1>1, EdgesFinite
<1>6. /\ IsFiniteSet(Holding(n) \ taken)
      /\ Cardinality(Holding(n) \ taken) = Cardinality(Holding(n)) - Cardinality(taken)
  BY <1>3, <1>4, FS_Difference
<1>7. Cardinality(Holding(n) \ taken) \in Nat
  BY <1>6, FS_CardinalityType
<1>8. inDegree[n] = Cardinality(Holding(n))
  BY DEF DegreesExact
<1>9. inDegree'[n] = inDegree[n] - Cardinality(taken)
  OBVIOUS
<1>10. ASSUME inDegree[n] # 0, inDegree'[n] = 0
       PROVE  StepDependencies(edges, n) \cap Level # {}
  <2>1. Cardinality(taken) # 0
    BY <1>4, <1>5, <1>8, <1>9, <1>10
  <2>2. taken # {}
    BY <2>1, FS_EmptySet
  <2> QED
    BY <1>1, <2>2 DEF EdgesFrom, StepDependencies, Dependencies
<1> HIDE DEF taken, GInv, TakeLevel
<1> QED
  BY <1>2, <1>4, <1>5, <1>6, <1>7, <1>8, <1>9, <1>10

LEMMA TakeLevelGInv == GInv /\ TakeLevel => GInv'
<1> SUFFICES ASSUME GInv, TakeLevel PROVE GInv'
  OBVIOUS
<1> USE NodesAssumption
<1>1. /\ LoopTypes /\ Phases /\ DegreesExact /\ LevelsHoldPlaced
      /\ LevelsInOrder /\ LevelsTight /\ FreedByLast /\ StuckRemain
  BY DEF GInv
<1>2. /\ at = "levels" /\ at' = at /\ Level # {} /\ edges' = edges /\ flow' = flow
      /\ levels' = Append(levels, Level) /\ remaining' = remaining \ Level
  BY DEF TakeLevel
<1>3. Level \subseteq remaining /\ remaining \subseteq Nodes
  BY <1>1 DEF Level, LoopTypes
<1>4. /\ levels \in Seq(SUBSET Nodes)
      /\ levels' \in Seq(SUBSET Nodes) /\ Len(levels') = Len(levels) + 1
      /\ DOMAIN levels = 1..Len(levels) /\ DOMAIN levels' = 1..(Len(levels) + 1)
      /\ \A i \in DOMAIN levels : levels'[i] = levels[i]
      /\ levels'[Len(levels) + 1] = Level
      /\ Len(levels) \in Nat
  BY <1>1, <1>2, <1>3, AppendProperties, LenProperties DEF LoopTypes
<1>5. LoopTypes'
  <2>1. inDegree' \in [Nodes -> Nat]
    BY TakeLevelDegrees DEF TakeLevel
  <2> QED
    BY <1>1, <1>2, <1>3, <1>4, <2>1 DEF LoopTypes
<1>6. Phases'
  BY <1>2 DEF Phases
<1>7. DegreesExact'
  BY TakeLevelDegrees DEF DegreesExact
<1>8. Placed' = Placed \cup Level
  BY <1>2, <1>3 DEF Placed
<1>9. LevelsHoldPlaced'
  BY <1>1, <1>4, <1>8 DEF LevelsHoldPlaced
<1>10. LevelsInOrder'
  <2> SUFFICES ASSUME NEW i \in DOMAIN levels', NEW n \in levels'[i],
                      NEW d \in StepDependencies(edges, n)
               PROVE  \E j \in 1..(i - 1) : d \in levels'[j]
    <3>1. \A n : StepDependencies(edges, n)' = StepDependencies(edges, n)
      BY <1>2 DEF StepDependencies, Dependencies
    <3> QED
      BY <3>1 DEF LevelsInOrder
  <2>1. CASE i \in DOMAIN levels
    <3>1. PICK j \in 1..(i - 1) : d \in levels[j]
      BY <1>1, <1>4, <2>1 DEF LevelsInOrder
    <3> QED
      BY <1>4, <2>1, <3>1
  <2>2. CASE i = Len(levels) + 1
    <3>1. n \in Nodes /\ inDegree[n] = 0
      BY <1>3, <1>4, <2>2 DEF Level
    <3>2. d \in Placed
      BY <1>1, <1>2, <3>1, FreeStep DEF StepDependencies
    <3>3. PICK j \in DOMAIN levels : d \in levels[j]
      BY <1>1, <3>2 DEF LevelsHoldPlaced
    <3> QED
      BY <1>4, <2>2, <3>3
  <2> QED
    BY <1>4, <2>1, <2>2
<1>11. LevelsTight'
  <2> SUFFICES ASSUME NEW i \in DOMAIN levels', i > 1, NEW n \in levels'[i]
               PROVE  StepDependencies(edges, n) \cap levels'[i - 1] # {}
    BY <1>2 DEF LevelsTight, StepDependencies, Dependencies
  <2>1. CASE i \in DOMAIN levels
    BY <1>1, <1>4, <2>1 DEF LevelsTight
  <2>2. CASE i = Len(levels) + 1
    <3>1. levels # <<>> /\ i - 1 = Len(levels) /\ i - 1 \in DOMAIN levels
      BY <1>4, <2>2
    <3>2. StepDependencies(edges, n) \cap levels[Len(levels)] # {}
      BY <1>1, <1>2, <1>4, <2>2, <3>1 DEF FreedByLast
    <3> QED
      BY <1>4, <3>1, <3>2
  <2> QED
    BY <1>4, <2>1, <2>2
<1>12. FreedByLast'
  <2> SUFFICES ASSUME NEW n \in Level'
               PROVE  StepDependencies(edges, n) \cap Level # {}
    BY <1>2, <1>4 DEF FreedByLast, StepDependencies, Dependencies
  <2>1. n \in Nodes /\ n \in remaining /\ n \notin Level /\ inDegree'[n] = 0
    BY <1>2, <1>3 DEF Level
  <2>2. inDegree[n] # 0
    BY <2>1 DEF Level
  <2> QED
    BY <2>1, <2>2, TakeLevelDegrees
<1>13. StuckRemain'
  <2>1. Stuck(edges)' = Stuck(edges)
    BY <1>2 DEF Stuck, Waiting, Dependencies
  <2> SUFFICES ASSUME NEW S \in SUBSET Nodes, Waiting(edges, S), NEW n \in S, n \in Level
               PROVE  FALSE
    BY <1>1, <1>2, <2>1 DEF StuckRemain, Stuck
  <2>2. S \subseteq remaining
    BY <1>1 DEF StuckRemain, Stuck
  <2>3. PICK d \in Dependencies(edges, n) : d \in S \/ d \notin Nodes
    BY DEF Waiting
  <2>4. d \in Placed
    BY <1>1, <1>2, <2>3, FreeStep DEF Level
  <2> QED
    BY <2>2, <2>3, <2>4 DEF Placed
<1> QED
  BY <1>5, <1>6, <1>7, <1>9, <1>10, <1>11, <1>12, <1>13 DEF GInv

\* The flow is generated from what the loop has left.
LEMMA GenerateGInv == GInv /\ Generate => GInv'
<1> SUFFICES ASSUME GInv, Generate PROVE GInv'
  OBVIOUS
<1>1. /\ at = "levels" /\ at' = "created" /\ Level = {}
      /\ UNCHANGED <<edges, inDegree, remaining, levels>>
  BY DEF Generate
<1>2. Level' = Level /\ Placed' = Placed
  BY <1>1 DEF Level, Placed
<1>3. \A n \in Nodes : Holding(n)' = Holding(n)
  BY <1>1, <1>2 DEF Holding, EdgesFrom
<1>4. LoopTypes' /\ Phases' /\ DegreesExact'
  BY <1>1, <1>2, <1>3 DEF GInv, LoopTypes, Phases, DegreesExact
<1>5. LevelsHoldPlaced' /\ LevelsInOrder' /\ LevelsTight'
  BY <1>1, <1>2
  DEF GInv, LevelsHoldPlaced, LevelsInOrder, LevelsTight, StepDependencies, Dependencies
<1>6. FreedByLast'
  BY <1>1, <1>2 DEF FreedByLast
<1>7. StuckRemain'
  BY <1>1 DEF GInv, StuckRemain, Stuck, Waiting, Dependencies
<1> QED
  BY <1>4, <1>5, <1>6, <1>7 DEF GInv

LEMMA UnchangedGInv == GInv /\ UNCHANGED vars => GInv'
<1> SUFFICES ASSUME GInv, UNCHANGED vars PROVE GInv'
  OBVIOUS
<1>1. Level' = Level /\ Placed' = Placed
  BY DEF Level, Placed, vars
<1>2. \A n \in Nodes : Holding(n)' = Holding(n)
  BY <1>1 DEF Holding, EdgesFrom, vars
<1>3. LoopTypes' /\ Phases' /\ DegreesExact'
  BY <1>1, <1>2 DEF GInv, LoopTypes, Phases, DegreesExact, vars
<1>4. LevelsHoldPlaced' /\ LevelsInOrder' /\ LevelsTight' /\ FreedByLast'
  BY <1>1
  DEF GInv, LevelsHoldPlaced, LevelsInOrder, LevelsTight, FreedByLast, StepDependencies,
      Dependencies, vars
<1>5. StuckRemain'
  BY DEF GInv, StuckRemain, Stuck, Waiting, Dependencies, vars
<1> QED
  BY <1>3, <1>4, <1>5 DEF GInv

\* GInv is an invariant of the generator.
THEOREM GeneratorInvariant == Spec => []GInv
<1>1. GInv /\ [Next]_vars => GInv'
  BY CheckCyclesGInv, TakeLevelGInv, GenerateGInv, UnchangedGInv DEF Next
<1> QED
  BY InitGInv, <1>1, PTL DEF Spec

-----------------------------------------------------------------------------
\* A step is in a level only after all the steps it depends on, for every
\* graph the planner may leave in the database.
THEOREM LevelsOrdered == Spec => []LevelsInOrder
<1>1. GInv => LevelsInOrder
  BY DEF GInv
<1> QED
  BY <1>1, GeneratorInvariant, PTL

\* The levels are as wide as they can be.
THEOREM LevelsAreTight == Spec => []LevelsTight
<1>1. GInv => LevelsTight
  BY DEF GInv
<1> QED
  BY <1>1, GeneratorInvariant, PTL

\* When no step is free, those that remain wait for each other.
LEMMA RemainingWait ==
  ASSUME LoopTypes, DegreesExact, at # "check", Level = {}
  PROVE  Waiting(edges, remaining)
<1> SUFFICES ASSUME NEW n \in remaining
             PROVE  \E d \in Dependencies(edges, n) : d \in remaining \/ d \notin Nodes
  BY DEF Waiting
<1>1. n \in Nodes /\ inDegree[n] # 0
  BY DEF LoopTypes, Level
<1>2. ~(Dependencies(edges, n) \subseteq Placed)
  BY <1>1, FreeStep
<1> QED
  BY <1>2 DEF Placed

\* The steps without a level when the flow is created are exactly those that
\* can never run.
THEOREM NoRunnableStepLost == Spec => []OnlyStuckLeftOut
<1>1. GInv => OnlyStuckLeftOut
  <2> SUFFICES ASSUME GInv, at = "created" PROVE remaining = Stuck(edges)
    BY DEF OnlyStuckLeftOut
  <2>1. Stuck(edges) \subseteq remaining
    BY DEF GInv, StuckRemain
  <2>2. Waiting(edges, remaining)
    BY RemainingWait DEF GInv, Phases
  <2>3. remaining \in SUBSET Nodes
    BY DEF GInv, LoopTypes
  <2>4. remaining \subseteq Stuck(edges)
    BY <2>2, <2>3 DEF Stuck
  <2> QED
    BY <2>1, <2>4
<1> QED
  BY <1>1, GeneratorInvariant, PTL

-----------------------------------------------------------------------------
\* A dependency reaches what depends on it, and what reaches the dependency
\* does too.
LEMMA DependencyReaches ==
  ASSUME NEW E \in Edges, NEW n \in Nodes, NEW d \in Dependencies(E, n)
  PROVE  /\ Reaches(E, d, n)
         /\ \A m \in Nodes : Reaches(E, m, d) => Reaches(E, m, n)
<1>1. PICK p \in DOMAIN E : E[p][1] = d /\ E[p][2] = n
  BY DEF Dependencies
<1> QED
  BY <1>1 DEF Reaches, Closed

\* Without a cycle, and with step runs for all dependencies, no step waits for
\* ever: among the steps of a set one has the fewest ancestors, and what it
\* depends on would have the same ones.
LEMMA AcyclicNoneStuck ==
  ASSUME NEW E \in Edges, CyclesOf(E) = {}, SelfDependent(E) = {},
         \A n \in Nodes : Dependencies(E, n) \subseteq Nodes
  PROVE  Stuck(E) = {}
<1> USE NodesAssumption
<1> SUFFICES ASSUME NEW S \in SUBSET Nodes, Waiting(E, S), S # {}
             PROVE  FALSE
  BY DEF Stuck
<1> DEFINE Ancestors(n) == {m \in Nodes : Reaches(E, m, n)}
           Family == {Ancestors(n) : n \in S}
<1>1. PICK A \in Family : \A B \in Family : ~(B \subseteq A /\ B # A)
  <2>1. \A n \in S : Ancestors(n) \in SUBSET Nodes /\ IsFiniteSet(Ancestors(n))
    BY FS_Subset
  <2>2. Family \subseteq FiniteSubsetsOf(Nodes) /\ Family # {}
    BY <2>1 DEF FiniteSubsetsOf
  <2>3. PICK A \in Family : \A B \in Family : ~(<<B, A>> \in StrictSubsetOrdering(Nodes))
    BY <2>2, WFMin, FS_StrictSubsetOrderingWellFounded
  <2>4. \A B \in Family : B \in SUBSET Nodes
    BY <2>1
  <2> QED
    BY <2>3, <2>4 DEF StrictSubsetOrdering
<1>2. PICK n \in S : A = Ancestors(n)
  OBVIOUS
<1>3. PICK d \in Dependencies(E, n) : d \in S
  BY DEF Waiting
<1>4. d # n
  BY <1>3 DEF SelfDependent
<1>5. Reaches(E, d, n) /\ Ancestors(d) \subseteq Ancestors(n)
  BY <1>3, DependencyReaches
<1>6. n \in Ancestors(n)
  BY DEF Reaches
<1>7. Reaches(E, n, d)
  BY <1>1, <1>2, <1>3, <1>5, <1>6
<1>8. n \in Class(E, n) /\ d \in Class(E, n)
  BY <1>3, <1>5, <1>6, <1>7 DEF Class
<1>9. IsFiniteSet(Class(E, n))
  BY FS_Subset DEF Class
<1>10. Cardinality(Class(E, n)) \in Nat /\ Cardinality(Class(E, n)) # 0
       /\ Cardinality(Class(E, n)) # 1
  BY <1>4, <1>8, <1>9, FS_CardinalityType, FS_EmptySet, FS_Singleton
<1>11. Cardinality(Class(E, n)) > 1
  BY <1>10
<1> QED
  BY <1>11 DEF CyclesOf

\* No two keys "group_i" have the same rank.
LEMMA KeyRankInjective ==
  ASSUME NEW i \in Nat, NEW j \in Nat
  PROVE  KeyRank(i) \in Nat /\ (KeyRank(i) = KeyRank(j) => i = j)
BY DEF KeyRank

\* The places of the levels are a permutation.
LEMMA Places ==
  ASSUME levels \in Seq(SUBSET Nodes)
  PROVE  /\ \A i \in DOMAIN levels : Place(i) \in DOMAIN levels
         /\ \A i, j \in DOMAIN levels : Place(i) = Place(j) => i = j
         /\ \A k \in DOMAIN levels : \E i \in DOMAIN levels : Place(i) = k
<1> DEFINE D == DOMAIN levels
           Before(i) == {j \in D : KeyRank(j - 1) < KeyRank(i - 1)}
<1>1. D = 1..Len(levels) /\ Len(levels) \in Nat
  BY LenProperties
<1>2. IsFiniteSet(D) /\ Cardinality(D) = Len(levels)
  BY <1>1, FS_Interval
<1>3. \A i \in D : KeyRank(i - 1) \in Nat
  BY <1>1, KeyRankInjective
<1>4. ASSUME NEW i \in D
      PROVE  IsFiniteSet(Before(i)) /\ Cardinality(Before(i)) \in Nat /\ Place(i) \in D
  <2>1. Before(i) \subseteq D \ {i}
    BY <1>3
  <2>2. IsFiniteSet(D \ {i}) /\ Cardinality(D \ {i}) = Len(levels) - 1
    BY <1>2, FS_RemoveElement
  <2>3. IsFiniteSet(Before(i)) /\ Cardinality(Before(i)) <= Len(levels) - 1
    BY <2>1, <2>2, FS_Subset
  <2>4. Cardinality(Before(i)) \in Nat
    BY <2>3, FS_CardinalityType
  <2>5. Place(i) = 1 + Cardinality(Before(i))
    BY DEF Place
  <2> QED
    BY <1>1, <2>3, <2>4, <2>5
<1>5. ASSUME NEW i \in D, NEW j \in D, KeyRank(i - 1) < KeyRank(j - 1)
      PROVE  Place(i) # Place(j)
  <2>1. Before(i) \subseteq Before(j) /\ i \in Before(j) /\ i \notin Before(i)
    BY <1>3, <1>5
  <2>2. Cardinality(Before(i)) # Cardinality(Before(j))
    BY <1>4, <2>1, FS_Subset
  <2>3. Place(i) = 1 + Cardinality(Before(i)) /\ Place(j) = 1 + Cardinality(Before(j))
    BY DEF Place
  <2>4. Cardinality(Before(i)) \in Nat /\ Cardinality(Before(j)) \in Nat
    BY <1>4
  <2> HIDE DEF Before
  <2> QED
    BY <2>2, <2>3, <2>4
<1>6. ASSUME NEW i \in D, NEW j \in D, i # j
      PROVE  Place(i) # Place(j)
  <2>1. KeyRank(i - 1) # KeyRank(j - 1)
    BY <1>1, <1>6, KeyRankInjective
  <2> QED
    BY <1>3, <1>5, <2>1
<1> SUFFICES ASSUME NEW k \in D, \A i \in D : Place(i) # k
             PROVE  FALSE
  BY <1>4, <1>6
<1>7. IsFiniteSet(D \ {k}) /\ Cardinality(D \ {k}) < Cardinality(D)
  <2> HIDE DEF D
  <2>1. IsFiniteSet(D \ {k}) /\ Cardinality(D \ {k}) = Cardinality(D) - 1
    BY <1>2, FS_RemoveElement
  <2> QED
    BY <1>1, <1>2, <2>1
<1> DEFINE place == [i \in D |-> Place(i)]
<1>8. place \in [D -> D \ {k}]
  BY <1>4
<1>9. \E i, j \in D : i # j /\ place[i] = place[j]
  <2> HIDE DEF D, place
  <2> QED
    BY <1>2, <1>7, <1>8, FS_PigeonHole
<1> QED
  BY <1>6, <1>9

\* The loop runs only on a graph without cycles, and what Generate makes of
\* the levels.
FlowOfLevels ==
    /\ at \in {"levels", "created"} => CyclesOf(edges) = {}
    /\ at = "created" => flow = [k \in DOMAIN levels |->
                                    levels[CHOOSE i \in DOMAIN levels : Place(i) = k]]
    /\ at # "created" => flow = <<>>

\* The loop runs only on a graph that the check has passed, and the flow is
\* the levels in the order of their keys.
THEOREM FlowFollowsLevels == Spec => [](GInv /\ FlowOfLevels)
<1>1. Init => FlowOfLevels
  BY DEF Init, FlowOfLevels
<1>2. FlowOfLevels /\ [Next]_vars => FlowOfLevels'
  <2> SUFFICES ASSUME FlowOfLevels, [Next]_vars PROVE FlowOfLevels'
    OBVIOUS
  <2>1. edges' = edges
    BY DEF Next, CheckCycles, Check, TakeLevel, Generate, vars
  <2>2. CyclesOf(edges)' = CyclesOf(edges)
    BY <2>1
  <2>3. CASE CheckCycles
    BY <2>2, <2>3 DEF CheckCycles, Check, FlowOfLevels
  <2>4. CASE TakeLevel
    BY <2>2, <2>4 DEF TakeLevel, FlowOfLevels
  <2>5. CASE Generate
    BY <2>2, <2>5 DEF Generate, FlowOfLevels, Place
  <2>6. CASE UNCHANGED vars
    BY <2>2, <2>6 DEF vars, FlowOfLevels, Place
  <2> QED
    BY <2>3, <2>4, <2>5, <2>6 DEF Next
<1> QED
  BY <1>1, <1>2, GeneratorInvariant, PTL DEF Spec

\* Types: the groups of a flow are sets of steps, however the keys sort.
THEOREM FlowTypes == Spec => []TypeOK
<1>1. GInv /\ FlowOfLevels => TypeOK
  <2> SUFFICES ASSUME GInv, FlowOfLevels PROVE flow \in Seq(SUBSET Nodes)
    BY DEF TypeOK, GInv
  <2>1. CASE at # "created"
    BY <2>1, EmptySeq DEF FlowOfLevels
  <2>2. CASE at = "created"
    <3>1. levels \in Seq(SUBSET Nodes)
      BY DEF GInv, LoopTypes
    <3>2. Len(levels) \in Nat /\ DOMAIN levels = 1..Len(levels)
      BY <3>1, LenProperties
    <3> DEFINE From(k) == CHOOSE i \in DOMAIN levels : Place(i) = k
    <3>3. flow = [k \in 1..Len(levels) |-> levels[From(k)]]
      BY <2>2, <3>2 DEF FlowOfLevels
    <3>4. \A k \in 1..Len(levels) : From(k) \in DOMAIN levels
      BY <3>1, <3>2, Places
    <3>5. \A k \in 1..Len(levels) : levels[From(k)] \in SUBSET Nodes
      BY <3>1, <3>2, <3>4, ElementOfSeq
    <3> HIDE DEF From
    <3> QED
      BY <3>2, <3>3, <3>5, IsASeq
  <2> QED
    BY <2>1, <2>2
<1> QED
  BY <1>1, FlowFollowsLevels, PTL

LEMMA IntervalSize == ASSUME NEW n \in Nat PROVE Cardinality(1..n) = n
<1>1. n \in Int /\ 1 \in Int
  OBVIOUS
<1> QED
  BY <1>1, FS_Interval

\* Up to ten levels the names "group_0" to "group_9" sort as their numbers do.
LEMMA ShortPlaces ==
  ASSUME levels \in Seq(SUBSET Nodes), Len(levels) <= 10, NEW i \in DOMAIN levels
  PROVE  Place(i) = i
<1>1. Len(levels) \in Nat /\ DOMAIN levels = 1..Len(levels)
  BY LenProperties
<1>2. ASSUME NEW j \in DOMAIN levels PROVE KeyRank(j - 1) = 11 * (j - 1)
  BY <1>1, <1>2 DEF KeyRank
<1>3. {j \in DOMAIN levels : KeyRank(j - 1) < KeyRank(i - 1)} = 1..(i - 1)
  BY <1>1, <1>2
<1>4. i \in Nat /\ i - 1 \in Nat /\ 1 \in Int
  BY <1>1
<1>5. PICK top : top = i - 1
  OBVIOUS
<1>6. Cardinality(1..top) = top
  <2>1. top \in Nat
    BY <1>4, <1>5
  <2> QED
    BY <2>1, IntervalSize
<1>7. Place(i) = 1 + Cardinality(1..top)
  BY <1>3, <1>5 DEF Place
<1> QED
  BY <1>4, <1>5, <1>6, <1>7

\* A flow of at most ten levels runs every step after the steps it depends on:
\* the order of the keys spoils longer ones only.
THEOREM ShortFlowsInOrder == Spec => [](Len(levels) <= 10 => FlowInOrder)
<1>1. GInv /\ FlowOfLevels => (Len(levels) <= 10 => FlowInOrder)
  <2> SUFFICES ASSUME GInv, FlowOfLevels, Len(levels) <= 10 PROVE FlowInOrder
    OBVIOUS
  <2>1. levels \in Seq(SUBSET Nodes) /\ LevelsInOrder /\ at \in {"check", "levels", "refused", "created"}
    BY DEF GInv, LoopTypes
  <2>2. CASE at # "created"
    <3>1. DOMAIN flow = {}
      BY <2>2 DEF FlowOfLevels
    <3> QED
      BY <3>1 DEF FlowInOrder
  <2>3. CASE at = "created"
    <3> DEFINE From(k) == CHOOSE i \in DOMAIN levels : Place(i) = k
    <3>1. \A k \in DOMAIN levels : From(k) = k
      BY <2>1, ShortPlaces
    <3>2. DOMAIN flow = DOMAIN levels /\ \A k \in DOMAIN levels : flow[k] = levels[From(k)]
      BY <2>3 DEF FlowOfLevels
    <3>3. \A k \in DOMAIN levels : flow[k] = levels[k]
      BY <3>1, <3>2
    <3>4. DOMAIN levels = 1..Len(levels) /\ Len(levels) \in Nat
      BY <2>1, LenProperties
    <3>5. \A k \in DOMAIN levels : \A j \in 1..(k - 1) : j \in DOMAIN levels
      BY <3>4
    <3> QED
      BY <2>1, <3>2, <3>3, <3>5 DEF FlowInOrder, LevelsInOrder
  <2> QED
    BY <2>2, <2>3
<1> QED
  BY <1>1, FlowFollowsLevels, PTL

\* The groups of the flow are the levels, each once.
LEMMA FlowHoldsPlaced ==
  ASSUME GInv, FlowOfLevels, at = "created"
  PROVE  FlowSteps = Placed
<1>1. levels \in Seq(SUBSET Nodes)
  BY DEF GInv, LoopTypes
<1> DEFINE From(k) == CHOOSE i \in DOMAIN levels : Place(i) = k
<1>2. DOMAIN flow = DOMAIN levels /\ \A k \in DOMAIN levels : flow[k] = levels[From(k)]
  BY DEF FlowOfLevels
<1>3. \A k \in DOMAIN levels : From(k) \in DOMAIN levels /\ Place(From(k)) = k
  BY <1>1, Places
<1>4. \A i \in DOMAIN levels : \E k \in DOMAIN levels : From(k) = i
  BY <1>1, <1>3, Places
<1> QED
  BY <1>2, <1>3, <1>4 DEF GInv, LevelsHoldPlaced, FlowSteps

\* If the cycle check passes and every dependency is another step run, the
\* flow has every step, however many there are.
THEOREM FlowsAreComplete == Spec => []FlowComplete
<1>1. GInv /\ FlowOfLevels => FlowComplete
  <2> SUFFICES ASSUME GInv, FlowOfLevels, at = "created", SelfDependent(edges) = {},
                      \A n \in Nodes : Dependencies(edges, n) \subseteq Nodes
               PROVE  FlowSteps = Nodes
    BY DEF FlowComplete
  <2>1. edges \in Edges /\ remaining \subseteq Nodes
    BY DEF GInv, LoopTypes
  <2>2. Stuck(edges) = {}
    BY <2>1, AcyclicNoneStuck DEF FlowOfLevels
  <2>3. Waiting(edges, remaining)
    BY RemainingWait DEF GInv, Phases
  <2>4. remaining = {}
    BY <2>1, <2>2, <2>3 DEF Stuck
  <2> QED
    BY <2>4, FlowHoldsPlaced DEF Placed
<1> QED
  BY <1>1, FlowFollowsLevels, PTL
=============================================================================
