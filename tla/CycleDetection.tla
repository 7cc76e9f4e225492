--------------------------- MODULE CycleDetection ---------------------------
(***************************************************************************)
(* DAG.detect_cycles with its default method: Tarjan's strongly connected  *)
(* components, one step per edge looked at.  The Python call stack of      *)
(* strongconnect is "calls", a frame being the node and the place in the   *)
(* list of edges.                                                          *)
(***************************************************************************)
EXTENDS StepGraph, SequencesExt

CONSTANT Order    \* the nodes in the order of the dictionary

VARIABLES index, lowlinks, stack, calls, sccs

searching == <<index, lowlinks, stack, calls, sccs>>

Visited == DOMAIN index

\* The next edge from node n at or after place p.
NextEdge(n, p) ==
    LET later == {q \in p..Len(edges) : edges[q][1] = n} IN
    IF later = {} THEN Len(edges) + 1 ELSE CHOOSE q \in later : \A r \in later : q <= r

\* A minimum the wrong way round.
Greater(a, b) == IF a <= b THEN b ELSE a

Less(a, b) == IF a <= b THEN a ELSE b

\* The caller's frame, which has dealt with its edge.
Return(frames) ==
    IF frames = <<>> THEN <<>>
    ELSE LET f == Last(frames)
         IN Append(Front(frames), [f EXCEPT !.edge = NextEdge(f.node, @ + 1)])

\* A dictionary with one more entry.
Put(f, n, x) == [m \in DOMAIN f \cup {n} |-> IF m = n THEN x ELSE f[m]]

\* strongconnect(n) is called: n gets the next index.
Call(n) ==
    /\ index' = Put(index, n, Cardinality(Visited))
    /\ lowlinks' = Put(lowlinks, n, Cardinality(Visited))
    /\ stack' = Append(stack, n)
    /\ calls' = Append(calls, [node |-> n, edge |-> NextEdge(n, 1)])
    /\ UNCHANGED <<edges, sccs>>

\* _tarjan_scc calls it for the first node that has no index.
Root ==
    /\ calls = <<>>
    /\ \E k \in DOMAIN Order :
          /\ Order[k] \notin Visited
          /\ \A j \in 1..(k - 1) : Order[j] \in Visited
          /\ Call(Order[k])

AtEdge == calls # <<>> /\ Last(calls).edge <= Len(edges)

Descend ==
    /\ AtEdge
    /\ edges[Last(calls).edge][2] \notin Visited
    /\ Call(edges[Last(calls).edge][2])

\* A search that does not ask whether the successor is still on the stack.
ExamineAny ==
    /\ AtEdge
    /\ LET n == Last(calls).node
           successor == edges[Last(calls).edge][2]
       IN /\ successor \in Visited
          /\ lowlinks' = [lowlinks EXCEPT ![n] = Less(@, index[successor])]
    /\ calls' = Return(calls)
    /\ UNCHANGED <<edges, index, stack, sccs>>

\* The successor has an index: it counts if it is still on the stack.
Examine ==
    /\ AtEdge
    /\ LET n == Last(calls).node
           successor == edges[Last(calls).edge][2]
       IN /\ successor \in Visited
          /\ lowlinks' = IF successor \in ToSet(stack)
                         THEN [lowlinks EXCEPT ![n] = Less(@, index[successor])]
                         ELSE lowlinks
    /\ calls' = Return(calls)
    /\ UNCHANGED <<edges, index, stack, sccs>>

\* All edges are dealt with: the root of a component pops it, and the caller
\* takes over the lowlink.
Close ==
    /\ calls # <<>>
    /\ Last(calls).edge > Len(edges)
    /\ LET n == Last(calls).node
           place == CHOOSE k \in DOMAIN stack : stack[k] = n
           isRoot == lowlinks[n] = index[n]
           callers == Front(calls)
       IN /\ sccs' = IF isRoot THEN Append(sccs, Reverse(SubSeq(stack, place, Len(stack)))) ELSE sccs
          /\ stack' = IF isRoot THEN SubSeq(stack, 1, place - 1) ELSE stack
          /\ lowlinks' = IF callers = <<>> THEN lowlinks
                         ELSE [lowlinks EXCEPT ![Last(callers).node] = Less(@, lowlinks[n])]
          /\ calls' = Return(callers)
    /\ UNCHANGED <<edges, index>>

Finished == calls = <<>> /\ Visited = Nodes

\* A result that is not filtered.
AllComponents == sccs

\* detect_cycles_tarjan: the components of more than one node, at the places
\* they have among all components.
Cycles == [k \in {j \in DOMAIN sccs : Len(sccs[j]) > 1} |-> sccs[k]]

\* Nothing has been visited.
Fresh ==
    /\ index = <<>>
    /\ lowlinks = <<>>
    /\ stack = <<>>
    /\ calls = <<>>
    /\ sccs = <<>>

SearchStep == Root \/ Descend \/ Examine \/ Close

-----------------------------------------------------------------------------
\* Type invariant: the functions grow together and the frames are on the
\* stack.
SearchTypeOK ==
    /\ edges \in Edges
    /\ Visited \subseteq Nodes /\ DOMAIN lowlinks = Visited
    /\ \A n \in Visited : lowlinks[n] \in 0..index[n]
    /\ stack \in Seq(Visited)
    /\ \A k \in DOMAIN calls : calls[k].node \in ToSet(stack)
    /\ sccs \in Seq(Seq(Visited))
=============================================================================
