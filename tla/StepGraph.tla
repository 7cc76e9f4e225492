------------------------------ MODULE StepGraph ------------------------------
(***************************************************************************)
(* The dependency graph of the step runs of one protocol run.              *)
(*                                                                         *)
(* DAGBuilder.build_from_steps makes a node of every step run and an edge  *)
(* <<d, n>> of every entry d of n.depends_on.  The entries come from the   *)
(* planned specification as they stand: d may be no step run at all, may   *)
(* be n itself, and may occur twice.                                       *)
(***************************************************************************)
EXTENDS Naturals, Sequences, FiniteSets

CONSTANTS
    Nodes,     \* the step runs
    Ids,       \* everything an entry of depends_on may be
    EdgeLists  \* the lists of edges to start from

VARIABLE edges  \* the list of edges; no step of what reads it changes it

Edges == Seq(Ids \X Nodes)

ASSUME NodesAssumption  == Nodes \subseteq Ids /\ IsFiniteSet(Nodes)
ASSUME EdgeListsAssumption == EdgeLists \subseteq Edges

\* DAG.get_dependencies, and the step runs among them.
Dependencies(E, n) == {E[p][1] : p \in {q \in DOMAIN E : E[q][2] = n}}

StepDependencies(E, n) == Dependencies(E, n) \cap Nodes

-----------------------------------------------------------------------------
(* Reference definitions.                                                  *)

\* A set of step runs that no edge between step runs leads out of, and the
\* step runs that the edges lead to from m: every such set with m has them.
Closed(E, S) ==
    \A p \in DOMAIN E : E[p][1] \in S => E[p][2] \in S

Reaches(E, m, n) == \A S \in SUBSET Nodes : m \in S /\ Closed(E, S) => n \in S

\* The cycles of more than one step: the largest sets of step runs each of
\* which depends, directly or not, on every other.
Class(E, n) == {m \in Nodes : Reaches(E, m, n) /\ Reaches(E, n, m)}

CyclesOf(E) == {K \in {Class(E, n) : n \in Nodes} : Cardinality(K) > 1}

SelfDependent(E) == {n \in Nodes : n \in Dependencies(E, n)}

\* A set of step runs that wait for each other or for something that is no
\* step run: none of them can be the first to run.
Waiting(E, S) == \A n \in S : \E d \in Dependencies(E, n) : d \in S \/ d \notin Nodes

\* The step runs that can never run.
Stuck(E) == UNION {S \in SUBSET Nodes : Waiting(E, S)}
=============================================================================
