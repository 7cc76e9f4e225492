--------------------------- MODULE CreateFlowProofs ---------------------------
(***************************************************************************)
(* Theorems about CycleDetection and CreateFlow, for every finite set of   *)
(* steps, every list of edges and every order of the nodes.                *)
(*                                                                         *)
(* The search is correct because of what holds between two of its steps    *)
(* (SInv): the nodes on the stack lead up to the node of the running call  *)
(* and the frames' nodes lead to what is above them; no edge leads out of  *)
(* the nodes that were popped; and a low link is the index of a node that  *)
(* is reached, as low as any that an edge dealt with leads to.  So what is *)
(* above a root on the stack is one class of nodes that reach each other.  *)
(***************************************************************************)
EXTENDS CreateFlow, FlowGeneratorProofs

OnStack == ToSet(stack)

\* The nodes of the components found so far.
Popped == Visited \ OnStack

\* The edges that node u has dealt with: all of them, unless u has a frame.
Dealt(u) == {p \in DOMAIN edges : /\ edges[p][1] = u
                                  /\ \A k \in DOMAIN calls : calls[k].node = u => p < calls[k].edge}

\* The nodes that were on the stack before frame k called the next one.
Before(k) == {u \in OnStack : k < Len(calls) => index[u] < index[calls[k + 1].node]}

Frame == [node : Visited, edge : Nat]

\* Types, and the order of the stack and the frames.
Shape ==
    /\ edges \in Edges
    /\ Visited \subseteq Nodes
    /\ index \in [Visited -> Nat]
    /\ lowlinks \in [Visited -> Nat]
    /\ \A n \in Visited : index[n] < Cardinality(Visited)
    /\ stack \in Seq(Visited)
    /\ \A i, j \in DOMAIN stack : i < j => index[stack[i]] < index[stack[j]]
    /\ calls \in Seq(Frame)
    /\ \A k \in DOMAIN calls : calls[k].node \in OnStack
    /\ \A i, j \in DOMAIN calls : i < j => index[calls[i].node] < index[calls[j].node]
    /\ calls = <<>> => stack = <<>>
    /\ calls # <<>> => stack # <<>> /\ calls[1].node = stack[1]

\* A frame is at an edge of its node or past them, and at the edge to the node
\* of the next frame.
Frames ==
    \A k \in DOMAIN calls :
        /\ calls[k].edge \in 1..(Len(edges) + 1)
        /\ calls[k].edge <= Len(edges) => edges[calls[k].edge][1] = calls[k].node
        /\ k < Len(calls) => /\ calls[k].edge <= Len(edges)
                             /\ edges[calls[k].edge][2] = calls[k + 1].node

\* What was on the stack before a frame's call leads to the frame's node, and
\* this node leads to everything above it.
Upward == \A k \in DOMAIN calls : \A u \in Before(k) : Reaches(edges, u, calls[k].node)

Downward ==
    \A k \in DOMAIN calls : \A u \in OnStack :
        index[calls[k].node] <= index[u] => Reaches(edges, calls[k].node, u)

\* An edge dealt with leads to a visited node, from a popped one to a popped one.
EdgesFollowed ==
    \A u \in Visited : \A p \in Dealt(u) :
        edges[p][2] \in Visited /\ (u \in Popped => edges[p][2] \in Popped)

\* A low link is the index of a node on the stack that the node leads to.
LowSound ==
    /\ \A u \in Visited : lowlinks[u] <= index[u]
    /\ \A u \in OnStack : \E x \in OnStack : index[x] = lowlinks[u] /\ Reaches(edges, u, x)

\* A frame's low link is as low as every node on the stack that is reached by
\* an edge from the frame's node or the finished nodes above it.
LowComplete ==
    \A k \in DOMAIN calls : \A u \in Before(k) :
        index[calls[k].node] <= index[u] =>
            \A p \in Dealt(u) :
                edges[p][2] \in OnStack => lowlinks[calls[k].node] <= index[edges[p][2]]

\* The components found are classes of nodes that reach each other, each once.
Components ==
    /\ sccs \in Seq(Seq(Visited))
    /\ Popped = UNION {ToSet(sccs[j]) : j \in DOMAIN sccs}
    /\ \A j \in DOMAIN sccs :
           /\ \A m \in ToSet(sccs[j]) : ToSet(sccs[j]) = Class(edges, m)
           /\ \A a, b \in DOMAIN sccs[j] : sccs[j][a] = sccs[j][b] => a = b
    /\ \A i, j \in DOMAIN sccs : ToSet(sccs[i]) \cap ToSet(sccs[j]) # {} => i = j

SInv == Shape /\ Frames /\ Upward /\ Downward /\ EdgesFollowed /\ LowSound /\ LowComplete /\ Components

-----------------------------------------------------------------------------
(* What leads where.                                                       *)

LEMMA ReachesSelf == \A E, m : Reaches(E, m, m)
BY DEF Reaches

LEMMA ReachesOn ==
  ASSUME NEW E, NEW m, NEW n, NEW o, Reaches(E, m, n), Reaches(E, n, o)
  PROVE  Reaches(E, m, o)
BY DEF Reaches

LEMMA EdgeReaches ==
  ASSUME NEW E, NEW p \in DOMAIN E
  PROVE  Reaches(E, E[p][1], E[p][2])
BY DEF Reaches, Closed

LEMMA ReachesInside ==
  ASSUME NEW E, NEW m, NEW n, Reaches(E, m, n),
         NEW S \in SUBSET Nodes, m \in S, Closed(E, S)
  PROVE  n \in S
BY DEF Reaches

-----------------------------------------------------------------------------
(* The next edge of a node.                                                *)

LEMMA NatMinimum ==
  ASSUME NEW S \in SUBSET Nat, S # {}
  PROVE  \E m \in S : \A k \in S : m <= k
<1>1. PICK m \in S : \A k \in S : ~(<<k, m>> \in OpToRel(<, Nat))
  BY WFMin, NatLessThanWellFounded
<1>2. \A k \in S : ~(k < m)
  BY <1>1, Zenon DEF OpToRel
<1> QED
  BY <1>2

LEMMA NextEdgeFound ==
  ASSUME edges \in Edges, NEW n, NEW p \in 1..(Len(edges) + 1)
  PROVE  /\ NextEdge(n, p) \in p..(Len(edges) + 1)
         /\ NextEdge(n, p) <= Len(edges) => edges[NextEdge(n, p)][1] = n
         /\ \A q \in DOMAIN edges : edges[q][1] = n /\ p <= q => NextEdge(n, p) <= q
<1> DEFINE later == {q \in p..Len(edges) : edges[q][1] = n}
<1>1. Len(edges) \in Nat /\ DOMAIN edges = 1..Len(edges)
  BY LenProperties
<1>2. CASE later = {}
  <2>1. NextEdge(n, p) = Len(edges) + 1
    BY <1>2 DEF NextEdge
  <2>2. \A q \in DOMAIN edges : edges[q][1] = n /\ p <= q => q \in later
    BY <1>1
  <2> QED
    BY <1>1, <1>2, <2>1, <2>2
<1>3. CASE later # {}
  <2>1. \E q \in later : \A r \in later : q <= r
    <3>1. later \in SUBSET Nat
      BY <1>1
    <3> HIDE DEF later
    <3> QED
      BY <1>3, <3>1, NatMinimum
  <2>2. NextEdge(n, p) = CHOOSE q \in later : \A r \in later : q <= r
    BY <1>3 DEF NextEdge
  <2>3. NextEdge(n, p) \in later /\ \A r \in later : NextEdge(n, p) <= r
    BY <2>1, <2>2
  <2>4. \A q \in DOMAIN edges : edges[q][1] = n /\ p <= q => q \in later
    BY <1>1
  <2> QED
    BY <1>1, <2>3, <2>4
<1> QED
  BY <1>2, <1>3

\* What a call that returns does to the frame of its caller.
LEMMA ReturnFacts ==
  ASSUME edges \in Edges, NEW F \in Seq(Frame), F # <<>>, F[Len(F)].edge \in 1..Len(edges)
  PROVE  LET R == Return(F)
             n == F[Len(F)].node
         IN  /\ R \in Seq(Frame) /\ R # <<>> /\ Len(R) = Len(F)
             /\ \A k \in 1..(Len(F) - 1) : R[k] = F[k]
             /\ R[Len(F)] = [node |-> n, edge |-> NextEdge(n, F[Len(F)].edge + 1)]
<1> DEFINE L == Len(F)
           n == F[L].node
           f == [node |-> n, edge |-> NextEdge(n, F[L].edge + 1)]
<1>1. L \in Nat \ {0} /\ F[L] \in Frame /\ F \in [1..L -> Frame]
  BY EmptySeq, LenProperties, ElementOfSeq
<1>2. f \in Frame
  <2>1. Len(edges) \in Nat
    BY LenProperties
  <2>2. NextEdge(n, F[L].edge + 1) \in Nat
    BY <2>1, NextEdgeFound
  <2> QED
    BY <1>1, <2>2 DEF Frame
<1>3. [Last(F) EXCEPT !.edge = NextEdge(Last(F).node, @ + 1)] = f
  BY <1>1 DEF Last, Frame
<1>4. Return(F) = Append(Front(F), f)
  BY <1>3 DEF Return
<1>5. /\ Front(F) \in Seq(Frame) /\ Len(Front(F)) = L - 1
      /\ \A k \in 1..(L - 1) : Front(F)[k] = F[k]
  BY <1>1, SubSeqProperties DEF Front
<1> HIDE DEF f, L
<1>6. /\ Append(Front(F), f) \in Seq(Frame) /\ Append(Front(F), f) # <<>>
      /\ Len(Append(Front(F), f)) = L
      /\ \A k \in 1..(L - 1) : Append(Front(F), f)[k] = Front(F)[k]
      /\ Append(Front(F), f)[L] = f
  BY <1>1, <1>2, <1>5, AppendProperties
<1> QED
  BY <1>1, <1>4, <1>5, <1>6 DEF f, L

-----------------------------------------------------------------------------
(* Facts about a state of the search.                                      *)

LEMMA Sizes ==
  ASSUME Shape
  PROVE  /\ Len(stack) \in Nat /\ DOMAIN stack = 1..Len(stack)
         /\ \A i \in DOMAIN stack : stack[i] \in Visited
         /\ Len(calls) \in Nat /\ DOMAIN calls = 1..Len(calls)
         /\ \A k \in DOMAIN calls : calls[k] \in Frame /\ calls[k].node \in OnStack
                                     /\ calls[k].node \in Visited
         /\ OnStack \subseteq Visited
         /\ calls # <<>> => Len(calls) \in DOMAIN calls
         /\ calls = <<>> => Len(calls) = 0 /\ OnStack = {}
         /\ Len(edges) \in Nat /\ DOMAIN edges = 1..Len(edges)
         /\ \A p \in DOMAIN edges : edges[p][2] \in Nodes
<1>1. /\ stack \in Seq(Visited) /\ calls \in Seq(Frame) /\ edges \in Seq(Ids \X Nodes)
      /\ calls = <<>> => stack = <<>>
      /\ \A k \in DOMAIN calls : calls[k].node \in OnStack
  BY DEF Shape, Edges
<1>2. Len(stack) \in Nat /\ DOMAIN stack = 1..Len(stack) /\ \A i \in DOMAIN stack : stack[i] \in Visited
  BY <1>1, LenProperties, ElementOfSeq
<1>3. Len(calls) \in Nat /\ DOMAIN calls = 1..Len(calls) /\ \A k \in DOMAIN calls : calls[k] \in Frame
  BY <1>1, LenProperties, ElementOfSeq
<1>4. Len(edges) \in Nat /\ DOMAIN edges = 1..Len(edges) /\ \A p \in DOMAIN edges : edges[p] \in Ids \X Nodes
  BY <1>1, LenProperties, ElementOfSeq
<1>5. OnStack \subseteq Visited
  BY <1>2 DEF OnStack, ToSet
<1>6. calls # <<>> => Len(calls) \in DOMAIN calls
  BY <1>1, <1>3, EmptySeq
<1>7. calls = <<>> => Len(calls) = 0 /\ OnStack = {}
  BY <1>1 DEF OnStack, ToSet
<1> QED
  BY <1>1, <1>2, <1>3, <1>4, <1>5, <1>6, <1>7

\* A node has one frame at most, and its index says where.
LEMMA FrameNodes ==
  ASSUME Shape, NEW j \in DOMAIN calls, NEW k \in DOMAIN calls
  PROVE  /\ calls[j].node = calls[k].node => j = k
         /\ j <= k => index[calls[j].node] <= index[calls[k].node]
<1>1. /\ \A x, y \in DOMAIN calls : x < y => index[calls[x].node] < index[calls[y].node]
      /\ index \in [Visited -> Nat]
  BY DEF Shape
<1>2. calls[j].node \in Visited /\ calls[k].node \in Visited /\ j \in Nat /\ k \in Nat
  BY Sizes
<1>3. index[calls[j].node] \in Nat /\ index[calls[k].node] \in Nat
  BY <1>1, <1>2
<1> QED
  BY <1>1, <1>2, <1>3

-----------------------------------------------------------------------------
(* strongconnect is called.                                                *)

CallOf(w) ==
    /\ w \in Nodes \ Visited
    /\ calls # <<>> => LET f == calls[Len(calls)]
                       IN f.edge <= Len(edges) /\ edges[f.edge][2] = w
    /\ Call(w)

LEMMA CallVisits ==
  ASSUME Shape, NEW w, CallOf(w)
  PROVE  /\ edges' = edges /\ sccs' = sccs
         /\ Visited' = Visited \cup {w} /\ Visited' \subseteq Nodes
         /\ index' \in [Visited' -> Nat] /\ lowlinks' \in [Visited' -> Nat]
         /\ \A u \in Visited : index'[u] = index[u] /\ lowlinks'[u] = lowlinks[u] /\ u # w
                                /\ index'[u] < index'[w]
         /\ lowlinks'[w] = index'[w]
         /\ \A u \in Visited' : index'[u] < Cardinality(Visited')
<1>1. w \in Nodes /\ w \notin Visited /\ edges' = edges /\ sccs' = sccs
      /\ index' = Put(index, w, Cardinality(Visited))
      /\ lowlinks' = Put(lowlinks, w, Cardinality(Visited))
  BY DEF CallOf, Call
<1>2. /\ Visited \subseteq Nodes /\ index \in [Visited -> Nat] /\ lowlinks \in [Visited -> Nat]
      /\ \A n \in Visited : index[n] < Cardinality(Visited)
  BY DEF Shape
<1>3. IsFiniteSet(Visited) /\ Cardinality(Visited) \in Nat
  BY <1>2, NodesAssumption, FS_Subset, FS_CardinalityType
<1>4. Cardinality(Visited \cup {w}) = Cardinality(Visited) + 1
  BY <1>1, <1>3, FS_AddElement
<1>5. index' = [m \in Visited \cup {w} |-> IF m = w THEN Cardinality(Visited) ELSE index[m]]
  BY <1>1 DEF Put, Visited
<1>6. lowlinks' = [m \in Visited \cup {w} |-> IF m = w THEN Cardinality(Visited) ELSE lowlinks[m]]
  BY <1>1, <1>2 DEF Put
<1>7. Visited' = Visited \cup {w}
  BY <1>5 DEF Visited
<1> QED
  BY <1>1, <1>2, <1>3, <1>4, <1>5, <1>6, <1>7

LEMMA CallStacks ==
  ASSUME Shape, NEW w, CallOf(w)
  PROVE  /\ stack' \in Seq(Visited') /\ Len(stack') = Len(stack) + 1 /\ stack' # <<>>
         /\ DOMAIN stack' = 1..(Len(stack) + 1)
         /\ \A i \in DOMAIN stack : stack'[i] = stack[i]
         /\ stack'[Len(stack) + 1] = w
         /\ OnStack' = OnStack \cup {w} /\ Popped' = Popped
<1>1. stack \in Seq(Visited') /\ w \in Visited' /\ w \notin Visited /\ stack' = Append(stack, w)
  BY CallVisits, SeqMonotonic DEF Shape, CallOf, Call
<1>2. /\ stack' \in Seq(Visited') /\ Len(stack') = Len(stack) + 1 /\ stack' # <<>>
      /\ \A i \in 1..Len(stack) : stack'[i] = stack[i]
      /\ stack'[Len(stack) + 1] = w
  BY <1>1, AppendProperties
<1>3. DOMAIN stack' = 1..(Len(stack) + 1)
  BY <1>2, LenProperties
<1>4. DOMAIN stack = 1..Len(stack) /\ Len(stack) \in Nat
  BY Sizes
<1>5. OnStack' = OnStack \cup {w}
  BY <1>2, <1>3, <1>4 DEF OnStack, ToSet
<1>6. Popped' = Popped
  BY <1>1, <1>5, CallVisits DEF Popped
<1> QED
  BY <1>2, <1>3, <1>4, <1>5, <1>6

LEMMA CallFrames ==
  ASSUME Shape, NEW w, CallOf(w)
  PROVE  /\ calls' \in Seq(Frame)' /\ Len(calls') = Len(calls) + 1 /\ calls' # <<>>
         /\ DOMAIN calls' = 1..(Len(calls) + 1)
         /\ \A k \in DOMAIN calls : calls'[k] = calls[k]
         /\ calls'[Len(calls) + 1] = [node |-> w, edge |-> NextEdge(w, 1)]
         /\ \A u \in Visited : Dealt(u)' \subseteq Dealt(u)
         /\ Dealt(w)' = {}
<1> DEFINE f == [node |-> w, edge |-> NextEdge(w, 1)]
           L == Len(calls)
<1>1. edges' = edges /\ Visited \subseteq Visited' /\ w \in Visited' /\ w \notin Visited
  BY CallVisits
<1>2. edges \in Edges /\ L \in Nat /\ DOMAIN calls = 1..L /\ Len(edges) \in Nat
      /\ DOMAIN edges = 1..Len(edges)
  BY Sizes DEF Shape
<1>3. /\ NextEdge(w, 1) \in Nat
      /\ \A q \in DOMAIN edges : edges[q][1] = w => NextEdge(w, 1) <= q
  BY <1>2, NextEdgeFound
<1>4. f \in Frame' /\ calls' = Append(calls, f)
  BY <1>1, <1>3 DEF Frame, CallOf, Call
<1>5. calls \in Seq(Frame')
  <2>1. Frame \subseteq Frame'
    BY <1>1 DEF Frame
  <2> QED
    BY <2>1, SeqMonotonic DEF Shape
<1> HIDE DEF f
<1>6. /\ calls' \in Seq(Frame') /\ Len(calls') = L + 1 /\ calls' # <<>>
      /\ \A k \in 1..L : calls'[k] = calls[k]
      /\ calls'[L + 1] = f
  BY <1>4, <1>5, AppendProperties
<1>7. DOMAIN calls' = 1..(L + 1)
  BY <1>6, LenProperties
<1>8. \A u \in Visited : Dealt(u)' \subseteq Dealt(u)
  BY <1>1, <1>2, <1>6, <1>7 DEF Dealt
<1>9. Dealt(w)' = {}
  <2> SUFFICES ASSUME NEW p \in Dealt(w)' PROVE FALSE
    OBVIOUS
  <2>1. p \in DOMAIN edges /\ edges[p][1] = w
    BY <1>1 DEF Dealt
  <2>2. L + 1 \in DOMAIN calls' /\ calls'[L + 1].node = w /\ calls'[L + 1].edge = NextEdge(w, 1)
    BY <1>2, <1>6, <1>7 DEF f
  <2>3. p < NextEdge(w, 1)
    BY <2>2 DEF Dealt
  <2> QED
    BY <1>2, <1>3, <2>1, <2>3
<1> QED
  BY <1>2, <1>6, <1>7, <1>8, <1>9 DEF f

LEMMA CallShape ==
  ASSUME Shape, NEW w, CallOf(w)
  PROVE  Shape'
<1>a. /\ Len(stack) \in Nat /\ DOMAIN stack = 1..Len(stack)
      /\ \A i \in DOMAIN stack : stack[i] \in Visited
      /\ OnStack \subseteq Visited
  BY Sizes
<1>b. /\ Len(calls) \in Nat /\ DOMAIN calls = 1..Len(calls)
      /\ \A k \in DOMAIN calls : calls[k].node \in OnStack /\ calls[k].node \in Visited
      /\ calls # <<>> => Len(calls) \in DOMAIN calls
      /\ calls = <<>> => Len(calls) = 0 /\ OnStack = {}
  BY Sizes
<1>c. /\ edges' = edges /\ sccs' = sccs
      /\ Visited' = Visited \cup {w} /\ Visited' \subseteq Nodes
      /\ index' \in [Visited' -> Nat] /\ lowlinks' \in [Visited' -> Nat]
      /\ \A u \in Visited : index'[u] = index[u] /\ lowlinks'[u] = lowlinks[u] /\ u # w
                             /\ index'[u] < index'[w]
      /\ lowlinks'[w] = index'[w]
      /\ \A u \in Visited' : index'[u] < Cardinality(Visited')
  BY CallVisits
<1>d. /\ stack' \in Seq(Visited') /\ Len(stack') = Len(stack) + 1 /\ stack' # <<>>
      /\ DOMAIN stack' = 1..(Len(stack) + 1)
      /\ \A i \in DOMAIN stack : stack'[i] = stack[i]
      /\ stack'[Len(stack) + 1] = w
      /\ OnStack' = OnStack \cup {w} /\ Popped' = Popped
  BY CallStacks
<1>e. /\ calls' \in Seq(Frame)' /\ Len(calls') = Len(calls) + 1 /\ calls' # <<>>
      /\ DOMAIN calls' = 1..(Len(calls) + 1)
      /\ \A k \in DOMAIN calls : calls'[k] = calls[k]
      /\ calls'[Len(calls) + 1] = [node |-> w, edge |-> NextEdge(w, 1)]
      /\ \A u \in Visited : Dealt(u)' \subseteq Dealt(u)
      /\ Dealt(w)' = {}
  BY CallFrames
<1> USE <1>a, <1>b, <1>c, <1>d, <1>e
<1>1. \A i, j \in DOMAIN stack' : i < j => index'[stack'[i]] < index'[stack'[j]]
  <2> SUFFICES ASSUME NEW i \in DOMAIN stack', NEW j \in DOMAIN stack', i < j
               PROVE  index'[stack'[i]] < index'[stack'[j]]
    OBVIOUS
  <2>1. i \in DOMAIN stack /\ (j \in DOMAIN stack \/ j = Len(stack) + 1)
    OBVIOUS
  <2>2. stack'[i] = stack[i] /\ stack[i] \in Visited
    BY <2>1
  <2>3. CASE j \in DOMAIN stack
    <3>1. stack'[j] = stack[j] /\ stack[j] \in Visited /\ index[stack[i]] < index[stack[j]]
      BY <2>1, <2>3 DEF Shape
    <3> QED
      BY <2>2, <3>1
  <2>4. CASE j = Len(stack) + 1
    BY <2>2, <2>4
  <2> QED
    BY <2>1, <2>3, <2>4
<1>2. \A k \in DOMAIN calls' : calls'[k].node \in OnStack'
  OBVIOUS
<1>3. \A i, j \in DOMAIN calls' : i < j => index'[calls'[i].node] < index'[calls'[j].node]
  <2> SUFFICES ASSUME NEW i \in DOMAIN calls', NEW j \in DOMAIN calls', i < j
               PROVE  index'[calls'[i].node] < index'[calls'[j].node]
    OBVIOUS
  <2>1. i \in DOMAIN calls /\ (j \in DOMAIN calls \/ j = Len(calls) + 1)
    OBVIOUS
  <2>2. calls'[i] = calls[i] /\ calls[i].node \in Visited
    BY <2>1
  <2>3. CASE j \in DOMAIN calls
    <3>1. calls'[j] = calls[j] /\ calls[j].node \in Visited
      BY <2>3
    <3>2. index[calls[i].node] < index[calls[j].node]
      BY <2>1, <2>3 DEF Shape
    <3> QED
      BY <2>2, <3>1, <3>2
  <2>4. CASE j = Len(calls) + 1
    <3>1. calls'[j].node = w
      BY <2>4
    <3> QED
      BY <2>2, <3>1
  <2> QED
    BY <2>1, <2>3, <2>4
<1>4. stack' # <<>> /\ calls'[1].node = stack'[1]
  <2>1. stack' # <<>>
    BY EmptySeq
  <2>2. CASE calls = <<>>
    <3>1. Len(stack) = 0 /\ Len(calls) = 0
      BY <2>2, EmptySeq DEF Shape
    <3> QED
      BY <2>1, <3>1
  <2>3. CASE calls # <<>>
    <3>1. calls[1].node = stack[1] /\ stack # <<>>
      BY <2>3 DEF Shape
    <3>2. 1 \in DOMAIN calls /\ 1 \in DOMAIN stack
      BY <2>3, <3>1, EmptySeq DEF Shape
    <3> QED
      BY <2>1, <3>1, <3>2
  <2> QED
    BY <2>2, <2>3
<1> QED
  BY <1>1, <1>2, <1>3, <1>4 DEF Shape

LEMMA CallBefore ==
  ASSUME Shape, NEW w, CallOf(w)
  PROVE  /\ \A k \in DOMAIN calls : Before(k)' = Before(k)
         /\ calls # <<>> => Before(Len(calls)) = OnStack
<1>a. /\ Len(stack) \in Nat /\ DOMAIN stack = 1..Len(stack)
      /\ \A i \in DOMAIN stack : stack[i] \in Visited
      /\ OnStack \subseteq Visited
  BY Sizes
<1>b. /\ Len(calls) \in Nat /\ DOMAIN calls = 1..Len(calls)
      /\ \A k \in DOMAIN calls : calls[k].node \in OnStack /\ calls[k].node \in Visited
      /\ calls # <<>> => Len(calls) \in DOMAIN calls
      /\ calls = <<>> => Len(calls) = 0 /\ OnStack = {}
  BY Sizes
<1>c. /\ edges' = edges /\ sccs' = sccs
      /\ Visited' = Visited \cup {w} /\ Visited' \subseteq Nodes
      /\ index' \in [Visited' -> Nat] /\ lowlinks' \in [Visited' -> Nat]
      /\ \A u \in Visited : index'[u] = index[u] /\ lowlinks'[u] = lowlinks[u] /\ u # w
                             /\ index'[u] < index'[w]
      /\ lowlinks'[w] = index'[w]
      /\ \A u \in Visited' : index'[u] < Cardinality(Visited')
  BY CallVisits
<1>d. /\ stack' \in Seq(Visited') /\ Len(stack') = Len(stack) + 1 /\ stack' # <<>>
      /\ DOMAIN stack' = 1..(Len(stack) + 1)
      /\ \A i \in DOMAIN stack : stack'[i] = stack[i]
      /\ stack'[Len(stack) + 1] = w
      /\ OnStack' = OnStack \cup {w} /\ Popped' = Popped
  BY CallStacks
<1>e. /\ calls' \in Seq(Frame)' /\ Len(calls') = Len(calls) + 1 /\ calls' # <<>>
      /\ DOMAIN calls' = 1..(Len(calls) + 1)
      /\ \A k \in DOMAIN calls : calls'[k] = calls[k]
      /\ calls'[Len(calls) + 1] = [node |-> w, edge |-> NextEdge(w, 1)]
      /\ \A u \in Visited : Dealt(u)' \subseteq Dealt(u)
      /\ Dealt(w)' = {}
  BY CallFrames
<1> USE <1>a, <1>b, <1>c, <1>d, <1>e
<1>1. calls # <<>> => Before(Len(calls)) = OnStack
  BY DEF Before
<1>2. ASSUME NEW k \in DOMAIN calls, k < Len(calls) PROVE Before(k)' = Before(k)
  <2>1. k + 1 \in DOMAIN calls
    BY <1>2
  <2>2. calls'[k + 1] = calls[k + 1] /\ calls[k + 1].node \in Visited
    BY <2>1
  <2>3. k < Len(calls')
    BY <1>2
  <2>4. \A u \in Visited : index'[u] < index'[calls'[k + 1].node] <=> index[u] < index[calls[k + 1].node]
    BY <2>2
  <2>5. ~(index'[w] < index'[calls'[k + 1].node])
    BY <2>2
  <2> QED
    BY <1>2, <2>3, <2>4, <2>5 DEF Before
<1>3. ASSUME NEW k \in DOMAIN calls, k = Len(calls) PROVE Before(k)' = Before(k)
  <2>1. k < Len(calls') /\ calls'[k + 1].node = w
    BY <1>3
  <2>2. \A u \in OnStack : index'[u] < index'[w]
    OBVIOUS
  <2>3. ~(index'[w] < index'[w])
    OBVIOUS
  <2>4. Before(k)' = OnStack
    BY <2>1, <2>2, <2>3 DEF Before
  <2> QED
    BY <1>1, <1>3, <2>4
<1>4. \A k \in DOMAIN calls : k < Len(calls) \/ k = Len(calls)
  OBVIOUS
<1> QED
  BY <1>1, <1>2, <1>3, <1>4

LEMMA CallSInv ==
  ASSUME SInv, NEW w, CallOf(w)
  PROVE  SInv'
<1>1. Shape /\ Frames /\ Upward /\ Downward /\ EdgesFollowed /\ LowSound /\ LowComplete /\ Components
  BY DEF SInv
<1>a. /\ Len(stack) \in Nat /\ DOMAIN stack = 1..Len(stack)
      /\ \A i \in DOMAIN stack : stack[i] \in Visited
      /\ OnStack \subseteq Visited
  BY <1>1, Sizes
<1>b. /\ Len(calls) \in Nat /\ DOMAIN calls = 1..Len(calls)
      /\ \A k \in DOMAIN calls : calls[k].node \in OnStack /\ calls[k].node \in Visited
      /\ calls # <<>> => Len(calls) \in DOMAIN calls
      /\ calls = <<>> => Len(calls) = 0 /\ OnStack = {}
  BY <1>1, Sizes
<1>c. /\ edges' = edges /\ sccs' = sccs
      /\ Visited' = Visited \cup {w} /\ Visited' \subseteq Nodes
      /\ index' \in [Visited' -> Nat] /\ lowlinks' \in [Visited' -> Nat]
      /\ \A u \in Visited : index'[u] = index[u] /\ lowlinks'[u] = lowlinks[u] /\ u # w
                             /\ index'[u] < index'[w]
      /\ lowlinks'[w] = index'[w]
      /\ \A u \in Visited' : index'[u] < Cardinality(Visited')
  BY <1>1, CallVisits
<1>d. /\ stack' \in Seq(Visited') /\ Len(stack') = Len(stack) + 1 /\ stack' # <<>>
      /\ DOMAIN stack' = 1..(Len(stack) + 1)
      /\ \A i \in DOMAIN stack : stack'[i] = stack[i]
      /\ stack'[Len(stack) + 1] = w
      /\ OnStack' = OnStack \cup {w} /\ Popped' = Popped
  BY <1>1, CallStacks
<1>e. /\ calls' \in Seq(Frame)' /\ Len(calls') = Len(calls) + 1 /\ calls' # <<>>
      /\ DOMAIN calls' = 1..(Len(calls) + 1)
      /\ \A k \in DOMAIN calls : calls'[k] = calls[k]
      /\ calls'[Len(calls) + 1] = [node |-> w, edge |-> NextEdge(w, 1)]
      /\ \A u \in Visited : Dealt(u)' \subseteq Dealt(u)
      /\ Dealt(w)' = {}
  BY <1>1, CallFrames
<1>f. /\ \A k \in DOMAIN calls : Before(k)' = Before(k)
      /\ calls # <<>> => Before(Len(calls)) = OnStack
  BY <1>1, CallBefore
<1> USE <1>1, <1>a, <1>b, <1>c, <1>d, <1>e, <1>f
<1> DEFINE L == Len(calls)
<1>2. Shape'
  BY CallShape
<1>3. ASSUME NEW k \in DOMAIN calls', k \notin DOMAIN calls
      PROVE  k = L + 1 /\ calls'[k].node = w /\ L = Len(calls') - 1
  BY <1>3
<1>4. Frames'
  <2> SUFFICES ASSUME NEW k \in DOMAIN calls'
               PROVE  /\ calls'[k].edge \in 1..(Len(edges) + 1)
                      /\ calls'[k].edge <= Len(edges) => edges[calls'[k].edge][1] = calls'[k].node
                      /\ k < Len(calls') => /\ calls'[k].edge <= Len(edges)
                                            /\ edges[calls'[k].edge][2] = calls'[k + 1].node
    BY DEF Frames
  <2>1. CASE k \in DOMAIN calls
    <3>1. calls'[k] = calls[k]
      BY <2>1
    <3>2. CASE k < L
      <4>1. calls'[k + 1] = calls[k + 1]
        BY <2>1, <3>2
      <4> QED
        BY <2>1, <3>1, <3>2, <4>1 DEF Frames
    <3>3. CASE k = L
      <4>1. calls'[k + 1].node = w /\ calls # <<>>
        BY <2>1, <3>3
      <4> QED
        BY <2>1, <3>1, <3>3, <4>1 DEF Frames, CallOf
    <3> QED
      BY <2>1, <3>2, <3>3
  <2>2. CASE k \notin DOMAIN calls
    <3>1. calls'[k] = [node |-> w, edge |-> NextEdge(w, 1)] /\ ~(k < Len(calls'))
      BY <1>3, <2>2
    <3> QED
      BY <3>1, NextEdgeFound DEF Shape
  <2> QED
    BY <2>1, <2>2
<1>5. calls # <<>> => Reaches(edges, calls[L].node, w)
  <2> SUFFICES ASSUME calls # <<>> PROVE Reaches(edges, calls[L].node, w)
    OBVIOUS
  <2>1. L \in DOMAIN calls /\ calls[L].edge \in DOMAIN edges
    <3>1. Len(edges) \in Nat /\ DOMAIN edges = 1..Len(edges)
      BY Sizes
    <3>2. L \in DOMAIN calls
      OBVIOUS
    <3>3. calls[L].edge <= Len(edges)
      BY DEF CallOf
    <3>4. calls[L].edge \in 1..(Len(edges) + 1)
      BY <3>2 DEF Frames
    <3> QED
      BY <3>1, <3>2, <3>3, <3>4
  <2>2. edges[calls[L].edge][1] = calls[L].node /\ edges[calls[L].edge][2] = w
    BY <2>1 DEF Frames, CallOf
  <2> QED
    BY <2>1, <2>2, EdgeReaches
<1>6. Upward'
  <2> SUFFICES ASSUME NEW k \in DOMAIN calls', NEW u \in Before(k)'
               PROVE  Reaches(edges, u, calls'[k].node)
    BY DEF Upward
  <2>1. CASE k \in DOMAIN calls
    BY <2>1 DEF Upward
  <2>2. CASE k \notin DOMAIN calls
    <3>1. calls'[k].node = w /\ u \in OnStack \cup {w}
      BY <1>3, <2>2 DEF Before
    <3>2. CASE u = w
      BY <3>1, <3>2, ReachesSelf
    <3>3. CASE u \in OnStack
      <4>1. calls # <<>> /\ L \in DOMAIN calls /\ u \in Before(L)
        BY <3>3
      <4>2. Reaches(edges, u, calls[L].node)
        BY <4>1 DEF Upward
      <4> QED
        BY <1>5, <3>1, <4>1, <4>2, ReachesOn
    <3> QED
      BY <3>1, <3>2, <3>3
  <2> QED
    BY <2>1, <2>2
<1>7. Downward'
  <2> SUFFICES ASSUME NEW k \in DOMAIN calls', NEW u \in OnStack',
                      index'[calls'[k].node] <= index'[u]
               PROVE  Reaches(edges, calls'[k].node, u)
    BY DEF Downward
  <2>1. CASE k \in DOMAIN calls /\ u \in OnStack
    <3>1. calls'[k] = calls[k] /\ calls[k].node \in Visited /\ u \in Visited
      BY <2>1
    <3>2. index[calls[k].node] <= index[u]
      BY <3>1
    <3> QED
      BY <2>1, <3>1, <3>2 DEF Downward
  <2>2. CASE k \in DOMAIN calls /\ u = w
    <3>1. calls # <<>> /\ L \in DOMAIN calls /\ k <= L
      BY <2>2
    <3>2. index[calls[k].node] <= index[calls[L].node]
      BY <2>2, <3>1, FrameNodes
    <3>3. Reaches(edges, calls[k].node, calls[L].node)
      BY <2>2, <3>1, <3>2 DEF Downward
    <3> QED
      BY <1>5, <2>2, <3>1, <3>3, ReachesOn
  <2>3. CASE k \notin DOMAIN calls
    <3>1. calls'[k].node = w
      BY <1>3, <2>3
    <3>2. u = w
      BY <3>1
    <3> QED
      BY <3>1, <3>2, ReachesSelf
  <2> QED
    BY <2>1, <2>2, <2>3
<1>8. EdgesFollowed'
  BY DEF EdgesFollowed
<1>9. LowSound'
  <2>1. ASSUME NEW u \in Visited' PROVE lowlinks'[u] <= index'[u]
    <3>1. CASE u = w
      BY <3>1
    <3>2. CASE u \in Visited
      BY <3>2 DEF LowSound
    <3> QED
      BY <3>1, <3>2
  <2>2. ASSUME NEW u \in OnStack'
        PROVE  \E x \in OnStack' : index'[x] = lowlinks'[u] /\ Reaches(edges, u, x)
    <3>1. CASE u = w
      BY <3>1, ReachesSelf
    <3>2. CASE u \in OnStack
      <4>1. PICK x \in OnStack : index[x] = lowlinks[u] /\ Reaches(edges, u, x)
        BY <3>2 DEF LowSound
      <4>2. x \in OnStack' /\ x \in Visited /\ u \in Visited
        BY <3>2
      <4> QED
        BY <4>1, <4>2
    <3> QED
      BY <3>1, <3>2
  <2> QED
    BY <2>1, <2>2 DEF LowSound
<1>10. LowComplete'
  <2> SUFFICES ASSUME NEW k \in DOMAIN calls', NEW u \in Before(k)',
                      index'[calls'[k].node] <= index'[u],
                      NEW p \in Dealt(u)', edges[p][2] \in OnStack'
               PROVE  lowlinks'[calls'[k].node] <= index'[edges[p][2]]
    BY DEF LowComplete
  <2>1. u \in OnStack'
    BY DEF Before
  <2>2. u # w
    OBVIOUS
  <2>3. u \in OnStack /\ u \in Visited /\ p \in Dealt(u)
    BY <2>1, <2>2
  <2>4. k \in DOMAIN calls
    BY <1>3, <2>3
  <2>5. edges[p][2] \in Visited
    BY <2>3 DEF EdgesFollowed
  <2>6. edges[p][2] \in OnStack
    BY <2>5
  <2>7. calls'[k] = calls[k] /\ calls[k].node \in Visited
    BY <2>4
  <2>8. index[calls[k].node] <= index[u] /\ u \in Before(k)
    BY <2>3, <2>4, <2>7
  <2>9. lowlinks[calls[k].node] <= index[edges[p][2]]
    BY <2>3, <2>4, <2>6, <2>8 DEF LowComplete
  <2> QED
    BY <2>5, <2>7, <2>9
<1>11. Components'
  <2>1. sccs \in Seq(Seq(Visited'))
    <3>1. Seq(Visited) \subseteq Seq(Visited')
      BY SeqMonotonic
    <3> QED
      BY <3>1, SeqMonotonic DEF Components
  <2> QED
    BY <2>1 DEF Components, Class
<1> QED
  BY <1>2, <1>4, <1>6, <1>7, <1>8, <1>9, <1>10, <1>11 DEF SInv

-----------------------------------------------------------------------------
(* strongconnect looks at a successor that has an index.                   *)

\* The frame at the top is done with its edge, whatever it meant: every frame
\* keeps its node, and only the edge is dealt with in addition.  "top" is the
\* number of frames that are left.
Advanced(top) ==
    /\ top \in DOMAIN calls
    /\ calls' \in Seq(Frame) /\ Len(calls') = top /\ DOMAIN calls' = 1..top
    /\ \A k \in 1..(top - 1) : calls'[k] = calls[k]
    /\ calls'[top] = [node |-> calls[top].node, edge |-> NextEdge(calls[top].node, calls[top].edge + 1)]

LEMMA AdvancedDealt ==
  ASSUME Shape, Frames, UNCHANGED edges, NEW top, Advanced(top), calls[top].edge <= Len(edges)
  PROVE  \A u : \A p \in Dealt(u)' :
             /\ p \in DOMAIN edges /\ edges[p][1] = u
             /\ \/ p \in Dealt(u)
                \/ \E k \in DOMAIN calls : k > top /\ calls[k].node = u
                \/ u = calls[top].node /\ p = calls[top].edge
<1> DEFINE p0 == calls[top].edge
<1> SUFFICES ASSUME NEW u, NEW p \in Dealt(u)',
                    ~\E k \in DOMAIN calls : k > top /\ calls[k].node = u
             PROVE  /\ p \in DOMAIN edges /\ edges[p][1] = u
                    /\ p \in Dealt(u) \/ (u = calls[top].node /\ p = p0)
  BY DEF Dealt
<1>1. /\ Len(calls) \in Nat /\ DOMAIN calls = 1..Len(calls) /\ top \in 1..Len(calls)
      /\ edges \in Edges /\ Len(edges) \in Nat /\ DOMAIN edges = 1..Len(edges)
      /\ p0 \in 1..Len(edges)
  BY Sizes DEF Shape, Frames, Advanced
<1>2. p \in DOMAIN edges /\ edges[p][1] = u
  BY DEF Dealt
<1>3. \A k \in DOMAIN calls' : calls'[k].node = u => p < calls'[k].edge
  BY DEF Dealt
<1>4. CASE u # calls[top].node
  <2>1. ASSUME NEW k \in DOMAIN calls, calls[k].node = u PROVE p < calls[k].edge
    <3>1. k \in 1..(top - 1)
      BY <1>1, <1>4, <2>1
    <3>2. k \in DOMAIN calls' /\ calls'[k] = calls[k]
      BY <3>1, <1>1 DEF Advanced
    <3> QED
      BY <1>3, <2>1, <3>2
  <2> QED
    BY <1>2, <2>1 DEF Dealt
<1>5. CASE u = calls[top].node
  <2>1. top \in DOMAIN calls' /\ calls'[top].node = u /\ calls'[top].edge = NextEdge(u, p0 + 1)
    BY <1>1, <1>5 DEF Advanced
  <2>2. p < NextEdge(u, p0 + 1)
    BY <1>3, <2>1
  <2>3. /\ NextEdge(u, p0 + 1) \in Nat
        /\ p0 + 1 <= p => NextEdge(u, p0 + 1) <= p
    BY <1>1, <1>2, NextEdgeFound
  <2>4. p <= p0
    BY <1>1, <1>2, <2>2, <2>3
  <2>5. CASE p < p0
    <3>1. \A k \in DOMAIN calls : calls[k].node = u => k = top
      BY <1>1, <1>5, FrameNodes
    <3> QED
      BY <1>2, <2>5, <3>1 DEF Dealt
  <2> QED
    BY <1>1, <1>2, <1>5, <2>4, <2>5
<1> QED
  BY <1>2, <1>4, <1>5

LEMMA AdvancedFrames ==
  ASSUME Shape, Frames, UNCHANGED <<edges, index>>, NEW top, Advanced(top),
         calls[top].edge <= Len(edges)
  PROVE  /\ top \in Nat \ {0} /\ top <= Len(calls) /\ calls' # <<>>
         /\ DOMAIN calls = 1..Len(calls) /\ DOMAIN calls' = 1..top /\ Len(calls') = top
         /\ \A k \in 1..top : calls'[k].node = calls[k].node
         /\ \A i, j \in DOMAIN calls' : i < j => index'[calls'[i].node] < index'[calls'[j].node]
         /\ calls' \in Seq(Frame)'
         /\ Frames'
<1>1. /\ Len(calls) \in Nat /\ DOMAIN calls = 1..Len(calls) /\ top \in 1..Len(calls)
      /\ edges \in Edges /\ Len(edges) \in Nat
  BY Sizes DEF Shape, Advanced
<1>2. /\ DOMAIN calls' = 1..top /\ Len(calls') = top
      /\ \A k \in 1..(top - 1) : calls'[k] = calls[k]
      /\ calls'[top] = [node |-> calls[top].node,
                        edge |-> NextEdge(calls[top].node, calls[top].edge + 1)]
  BY DEF Advanced
<1>3. \A k \in 1..top : calls'[k].node = calls[k].node
  BY <1>1, <1>2
<1>4. calls' # <<>>
  BY <1>1, <1>2, EmptySeq
<1>5. \A i, j \in DOMAIN calls' : i < j => index'[calls'[i].node] < index'[calls'[j].node]
  <2>1. \A i, j \in DOMAIN calls : i < j => index[calls[i].node] < index[calls[j].node]
    BY DEF Shape
  <2>2. \A i \in DOMAIN calls' : i \in DOMAIN calls /\ calls'[i].node = calls[i].node
    BY <1>1, <1>2, <1>3
  <2> QED
    BY <2>1, <2>2
<1>6. calls' \in Seq(Frame)'
  BY DEF Advanced, Frame, Visited
<1>7. Frames'
  <2> SUFFICES ASSUME NEW k \in 1..top
               PROVE  /\ calls'[k].edge \in 1..(Len(edges) + 1)
                      /\ calls'[k].edge <= Len(edges) => edges[calls'[k].edge][1] = calls'[k].node
                      /\ k < top => /\ calls'[k].edge <= Len(edges)
                                    /\ edges[calls'[k].edge][2] = calls'[k + 1].node
    BY <1>2 DEF Frames
  <2>1. CASE k < top
    <3>1. k \in 1..(top - 1) /\ k \in DOMAIN calls /\ k < Len(calls) /\ k + 1 \in 1..top
      BY <1>1, <2>1
    <3>2. calls'[k] = calls[k] /\ calls'[k + 1].node = calls[k + 1].node
      BY <1>2, <1>3, <3>1
    <3> QED
      BY <3>1, <3>2 DEF Frames
  <2>2. CASE k = top
    <3>1. calls[top].edge \in 1..(Len(edges) + 1)
      BY <1>1 DEF Frames
    <3>2. calls[top].edge + 1 \in 1..(Len(edges) + 1)
      BY <1>1, <3>1
    <3>3. calls'[k].node = calls[top].node
          /\ calls'[k].edge = NextEdge(calls[top].node, calls[top].edge + 1)
      BY <1>2, <2>2
    <3>4. ~(k < top)
      BY <1>1, <2>2
    <3>5. NextEdge(calls[top].node, calls[top].edge + 1) \in 1..(Len(edges) + 1)
      BY <1>1, <3>1, <3>2, NextEdgeFound
    <3>6. NextEdge(calls[top].node, calls[top].edge + 1) <= Len(edges) =>
             edges[NextEdge(calls[top].node, calls[top].edge + 1)][1] = calls[top].node
      BY <1>1, <3>2, NextEdgeFound
    <3> QED
      BY <3>3, <3>4, <3>5, <3>6
  <2> QED
    BY <1>1, <2>1, <2>2
<1> QED
  BY <1>1, <1>2, <1>3, <1>4, <1>5, <1>6, <1>7

LEMMA ExamineFacts ==
  ASSUME Shape, Frames, Examine
  PROVE  LET L == Len(calls)
             n == calls[L].node
             t == edges[calls[L].edge][2]
         IN  /\ calls # <<>> /\ L \in DOMAIN calls
             /\ calls[L].edge \in DOMAIN edges /\ calls[L].edge <= Len(edges)
             /\ edges[calls[L].edge][1] = n
             /\ n \in OnStack /\ n \in Visited /\ t \in Visited
             /\ UNCHANGED <<edges, index, stack, sccs>>
             /\ lowlinks' = IF t \in OnStack THEN [lowlinks EXCEPT ![n] = Less(@, index[t])]
                                            ELSE lowlinks
             /\ Advanced(L)
<1> DEFINE L == Len(calls)
<1>1. calls # <<>> /\ Last(calls) = calls[L] /\ calls[L].edge <= Len(edges)
  BY DEF Examine, AtEdge, Last
<1>2. /\ L \in DOMAIN calls /\ L \in Nat /\ Len(edges) \in Nat /\ DOMAIN edges = 1..Len(edges)
      /\ calls[L].node \in OnStack /\ calls[L].node \in Visited
  BY <1>1, Sizes
<1>3. calls[L].edge \in 1..Len(edges) /\ edges[calls[L].edge][1] = calls[L].node
  BY <1>1, <1>2 DEF Frames
<1>4. Advanced(L)
  <2>1. calls \in Seq(Frame) /\ edges \in Edges
    BY DEF Shape
  <2>2. calls' = Return(calls)
    BY DEF Examine
  <2>3. DOMAIN calls' = 1..L
    BY <1>1, <1>3, <2>1, <2>2, ReturnFacts, LenProperties
  <2> QED
    BY <1>1, <1>2, <1>3, <2>1, <2>2, <2>3, ReturnFacts DEF Advanced
<1> QED
  BY <1>1, <1>2, <1>3, <1>4 DEF Examine, OnStack

LEMMA ExamineSInv == ASSUME SInv, Examine PROVE SInv'
<1>1. Shape /\ Frames /\ Upward /\ Downward /\ EdgesFollowed /\ LowSound /\ LowComplete /\ Components
  BY DEF SInv
<1>2. PICK L, n, p0, t : /\ L = Len(calls) /\ n = calls[L].node /\ p0 = calls[L].edge
                         /\ t = edges[p0][2]
  OBVIOUS
<1>3. /\ calls # <<>> /\ L \in DOMAIN calls
      /\ p0 \in DOMAIN edges /\ p0 <= Len(edges) /\ edges[p0][1] = n
      /\ n \in OnStack /\ n \in Visited /\ t \in Visited
      /\ edges' = edges /\ index' = index /\ stack' = stack /\ sccs' = sccs
      /\ lowlinks' = IF t \in OnStack THEN [lowlinks EXCEPT ![n] = Less(@, index[t])] ELSE lowlinks
      /\ Advanced(L)
  BY <1>1, <1>2, ExamineFacts
<1>4. /\ L \in Nat \ {0} /\ calls' # <<>>
      /\ DOMAIN calls = 1..L /\ DOMAIN calls' = 1..L /\ Len(calls') = L
      /\ \A k \in 1..L : calls'[k].node = calls[k].node
      /\ \A i, j \in DOMAIN calls' : i < j => index'[calls'[i].node] < index'[calls'[j].node]
      /\ calls' \in Seq(Frame)'
      /\ Frames'
  BY <1>1, <1>2, <1>3, AdvancedFrames
<1>5. \A u : \A p \in Dealt(u)' : p \in Dealt(u) \/ (u = n /\ p = p0)
  BY <1>1, <1>2, <1>3, <1>4, AdvancedDealt
<1>6. Visited' = Visited /\ OnStack' = OnStack /\ Popped' = Popped
  BY <1>3 DEF Visited, OnStack, Popped
<1>7. \A k \in 1..L : Before(k)' = Before(k)
  BY <1>2, <1>3, <1>4, <1>6 DEF Before
<1>8. /\ index \in [Visited -> Nat] /\ lowlinks \in [Visited -> Nat]
      /\ OnStack \subseteq Visited
  BY <1>1, Sizes DEF Shape
<1>9. /\ lowlinks' \in [Visited -> Nat]
      /\ \A u \in Visited : u # n => lowlinks'[u] = lowlinks[u]
      /\ \A u \in Visited : lowlinks'[u] <= lowlinks[u]
      /\ t \in OnStack => lowlinks'[n] <= index[t]
      /\ lowlinks'[n] = lowlinks[n] \/ (t \in OnStack /\ lowlinks'[n] = index[t])
  BY <1>3, <1>8 DEF Less
<1>10. Shape'
  <2>1. calls'[1].node = stack'[1] /\ stack' # <<>>
    BY <1>1, <1>3, <1>4 DEF Shape
  <2>2. \A k \in DOMAIN calls' : calls'[k].node \in OnStack'
    BY <1>1, <1>4, <1>6 DEF Shape
  <2> QED
    BY <1>1, <1>3, <1>4, <1>6, <1>9, <2>1, <2>2 DEF Shape
<1>11. Upward' /\ Downward'
  BY <1>1, <1>3, <1>4, <1>6, <1>7 DEF Upward, Downward
<1>12. EdgesFollowed'
  <2> SUFFICES ASSUME NEW u \in Visited, NEW p \in Dealt(u)'
               PROVE  edges[p][2] \in Visited /\ (u \in Popped => edges[p][2] \in Popped)
    BY <1>3, <1>6 DEF EdgesFollowed
  <2>1. CASE p \in Dealt(u)
    BY <1>1, <2>1 DEF EdgesFollowed
  <2>2. CASE u = n /\ p = p0
    BY <1>2, <1>3, <2>2 DEF Popped
  <2> QED
    BY <1>5, <2>1, <2>2
<1>13. LowSound'
  <2>1. \A u \in Visited : lowlinks'[u] <= index[u]
    <3>1. \A u \in Visited : lowlinks[u] <= index[u]
      BY <1>1 DEF LowSound
    <3> QED
      BY <1>8, <1>9, <3>1
  <2>2. ASSUME NEW u \in OnStack
        PROVE  \E x \in OnStack : index[x] = lowlinks'[u] /\ Reaches(edges, u, x)
    <3>1. CASE lowlinks'[u] = lowlinks[u]
      BY <1>1, <3>1 DEF LowSound
    <3>2. CASE u = n /\ t \in OnStack /\ lowlinks'[n] = index[t]
      BY <1>2, <1>3, <3>2, EdgeReaches
    <3> QED
      BY <1>8, <1>9, <3>1, <3>2
  <2> QED
    BY <1>3, <1>6, <2>1, <2>2 DEF LowSound
<1>14. LowComplete'
  <2> SUFFICES ASSUME NEW k \in 1..L, NEW u \in Before(k), index[calls[k].node] <= index[u],
                      NEW p \in Dealt(u)', edges[p][2] \in OnStack
               PROVE  lowlinks'[calls[k].node] <= index[edges[p][2]]
    BY <1>3, <1>4, <1>6, <1>7 DEF LowComplete
  <2>1. calls[k].node \in Visited
    BY <1>1, <1>4, Sizes
  <2>2. CASE p \in Dealt(u)
    <3>1. lowlinks[calls[k].node] <= index[edges[p][2]]
      BY <1>1, <1>4, <2>2 DEF LowComplete
    <3>2. edges[p][2] \in Visited
      BY <1>8
    <3> QED
      BY <1>8, <1>9, <2>1, <3>1, <3>2
  <2>3. CASE u = n /\ p = p0
    <3>1. CASE k = L
      BY <1>2, <1>9, <2>3, <3>1
    <3>2. CASE k < L
      <4>1. index[n] < index[calls[k + 1].node]
        BY <1>2, <2>3, <3>2 DEF Before
      <4>2. k + 1 \in DOMAIN calls /\ k + 1 <= L
        BY <1>4, <3>2
      <4>3. index[calls[k + 1].node] <= index[n] /\ calls[k + 1].node \in Visited
        BY <1>1, <1>2, <1>3, <4>2, FrameNodes, Sizes
      <4> QED
        BY <1>3, <1>8, <4>1, <4>3
    <3> QED
      BY <1>4, <3>1, <3>2
  <2> QED
    BY <1>5, <2>2, <2>3
<1>15. Components'
  BY <1>1, <1>3, <1>6 DEF Components, Class
<1> QED
  BY <1>4, <1>10, <1>11, <1>12, <1>13, <1>14, <1>15 DEF SInv

-----------------------------------------------------------------------------
(* strongconnect returns.                                                  *)

\* The caller's frame goes on.
LEMMA CloseFrames ==
  ASSUME Shape, Frames, Close
  PROVE  LET L == Len(calls)
         IN  /\ calls # <<>> /\ L \in DOMAIN calls /\ L \in Nat \ {0} /\ calls[L].edge > Len(edges)
             /\ L = 1 => calls' = <<>>
             /\ L > 1 => /\ Advanced(L - 1)
                         /\ calls[L - 1].edge \in DOMAIN edges /\ calls[L - 1].edge <= Len(edges)
                         /\ edges[calls[L - 1].edge][1] = calls[L - 1].node
                         /\ edges[calls[L - 1].edge][2] = calls[L].node
<1> DEFINE L == Len(calls)
<1>1. calls # <<>> /\ calls[L].edge > Len(edges) /\ calls' = Return(Front(calls))
  BY DEF Close, Last
<1>2. /\ L \in DOMAIN calls /\ L \in Nat \ {0} /\ DOMAIN calls = 1..L
      /\ Len(edges) \in Nat /\ DOMAIN edges = 1..Len(edges) /\ edges \in Edges
      /\ \A k \in 1..L : calls[k] \in Frame
  BY <1>1, Sizes DEF Shape
<1>3. /\ Front(calls) \in Seq(Frame) /\ Len(Front(calls)) = L - 1
      /\ \A k \in 1..(L - 1) : Front(calls)[k] = calls[k]
  BY <1>2, SubSeqProperties DEF Front
<1>4. CASE L = 1
  <2>1. Front(calls) = <<>>
    BY <1>3, <1>4, EmptySeq
  <2> QED
    BY <1>1, <1>2, <1>4, <2>1 DEF Return
<1>5. CASE L > 1
  <2>1. L - 1 \in DOMAIN calls /\ L - 1 \in 1..(L - 1) /\ L - 1 < L
    BY <1>2, <1>5
  <2>2. Front(calls) # <<>> /\ Front(calls)[L - 1] = calls[L - 1]
    BY <1>3, <1>5, <2>1, EmptySeq
  <2>3. /\ calls[L - 1].edge \in 1..Len(edges)
        /\ edges[calls[L - 1].edge][1] = calls[L - 1].node
        /\ edges[calls[L - 1].edge][2] = calls[L].node
    BY <1>2, <2>1 DEF Frames
  <2>4. PICK F : F = Front(calls)
    OBVIOUS
  <2>5. /\ Return(F) \in Seq(Frame) /\ Len(Return(F)) = L - 1
        /\ \A k \in 1..(L - 1 - 1) : Return(F)[k] = F[k]
        /\ Return(F)[L - 1] = [node |-> calls[L - 1].node,
                              edge |-> NextEdge(calls[L - 1].node, calls[L - 1].edge + 1)]
    <3>1. F \in Seq(Frame) /\ F # <<>> /\ Len(F) = L - 1 /\ F[Len(F)] = calls[L - 1] /\ edges \in Edges
      BY <1>2, <1>3, <2>2, <2>4
    <3>2. F[Len(F)].edge \in 1..Len(edges)
      BY <2>3, <3>1
    <3> HIDE DEF L
    <3>3. /\ Return(F) \in Seq(Frame) /\ Len(Return(F)) = Len(F)
          /\ \A k \in 1..(Len(F) - 1) : Return(F)[k] = F[k]
          /\ Return(F)[Len(F)] = [node |-> F[Len(F)].node,
                                  edge |-> NextEdge(F[Len(F)].node, F[Len(F)].edge + 1)]
      BY <3>1, <3>2, ReturnFacts
    <3> QED
      BY <3>1, <3>3
  <2>6. DOMAIN calls' = 1..(L - 1)
    BY <1>1, <2>4, <2>5, LenProperties
  <2>7. \A k \in 1..(L - 1 - 1) : F[k] = calls[k]
    BY <1>2, <1>3, <2>4
  <2>8. Advanced(L - 1)
    BY <1>1, <2>1, <2>4, <2>5, <2>6, <2>7 DEF Advanced
  <2> QED
    BY <1>1, <1>2, <1>5, <2>3, <2>8
<1> QED
  BY <1>1, <1>2, <1>4, <1>5

\* Node n and what is above it on the stack.
Above(n) == {u \in OnStack : index[n] <= index[u]}

\* A root pops these as a component.
Pops(n) ==
    /\ \E scc \in Seq(Visited) :
          /\ sccs' = Append(sccs, scc) /\ ToSet(scc) = Above(n)
          /\ \A a, b \in DOMAIN scc : scc[a] = scc[b] => a = b
    /\ stack' \in Seq(OnStack \ Above(n))
    /\ \A i, j \in DOMAIN stack' : i < j => index[stack'[i]] < index[stack'[j]]
    /\ OnStack' = OnStack \ Above(n)
    /\ stack[1] = n => stack' = <<>>
    /\ stack[1] # n => stack' # <<>> /\ stack'[1] = stack[1]

LEMMA CloseStack ==
  ASSUME Shape, Close
  PROVE  LET n == calls[Len(calls)].node
         IN  /\ n \in OnStack /\ n \in Visited
             /\ edges' = edges /\ index' = index
             /\ lowlinks[n] # index[n] => stack' = stack /\ sccs' = sccs
             /\ lowlinks[n] = index[n] => Pops(n)
<1>1. PICK n : n = calls[Len(calls)].node
  OBVIOUS
<1>2. PICK c : c = (CHOOSE k \in DOMAIN stack : stack[k] = n)
  OBVIOUS
<1>3. PICK top : top = SubSeq(stack, c, Len(stack))
  OBVIOUS
<1>4. PICK T : T = Above(n)
  OBVIOUS
<1>5. /\ edges' = edges /\ index' = index
      /\ lowlinks[n] # index[n] => stack' = stack /\ sccs' = sccs
      /\ lowlinks[n] = index[n] => sccs' = Append(sccs, Reverse(top)) /\ stack' = SubSeq(stack, 1, c - 1)
  BY <1>1, <1>2, <1>3 DEF Close, Last
<1>6. n \in OnStack /\ n \in Visited
  BY <1>1, Sizes DEF Close
<1>7. /\ Len(stack) \in Nat /\ DOMAIN stack = 1..Len(stack)
      /\ \A i \in DOMAIN stack : stack[i] \in Visited /\ index[stack[i]] \in Nat
      /\ \A i, j \in DOMAIN stack : i < j => index[stack[i]] < index[stack[j]]
  BY Sizes DEF Shape
<1>8. c \in 1..Len(stack) /\ stack[c] = n
  BY <1>2, <1>6, <1>7 DEF OnStack, ToSet
<1>9. \A i \in 1..Len(stack) : (index[n] <= index[stack[i]]) <=> c <= i
  BY <1>7, <1>8
<1>10. \A i, j \in 1..Len(stack) : stack[i] = stack[j] => i = j
  BY <1>7
<1>11. /\ top \in Seq(Visited) /\ Len(top) = Len(stack) - c + 1
       /\ \A i \in 1..(Len(stack) - c + 1) : top[i] = stack[c + i - 1]
  <2>1. \A i \in c..Len(stack) : stack[i] \in Visited
    BY <1>7, <1>8
  <2>2. c \in Int /\ Len(stack) \in Int /\ c <= Len(stack)
    BY <1>7, <1>8
  <2> QED
    BY <1>3, <2>1, <2>2, SubSeqProperties
<1>12. PICK m : m = Len(top)
  OBVIOUS
<1>13. m \in Nat \ {0} /\ m = Len(stack) - c + 1
  BY <1>7, <1>8, <1>11, <1>12
<1>14. Reverse(top) = [i \in 1..m |-> top[(m - i) + 1]]
  BY <1>12 DEF Reverse
<1>15. \A i \in 1..m : Reverse(top)[i] = stack[Len(stack) - i + 1] /\ Len(stack) - i + 1 \in c..Len(stack)
  <2> SUFFICES ASSUME NEW i \in 1..m
               PROVE  Reverse(top)[i] = stack[Len(stack) - i + 1] /\ Len(stack) - i + 1 \in c..Len(stack)
    OBVIOUS
  <2>1. (m - i) + 1 \in 1..(Len(stack) - c + 1) /\ c + ((m - i) + 1) - 1 = Len(stack) - i + 1
        /\ Len(stack) - i + 1 \in c..Len(stack)
    BY <1>7, <1>8, <1>13
  <2>2. Reverse(top)[i] = top[(m - i) + 1]
    BY <1>14
  <2> QED
    BY <1>11, <2>1, <2>2
<1>16. Reverse(top) \in Seq(Visited) /\ DOMAIN Reverse(top) = 1..m
  <2>1. \A i \in 1..m : top[(m - i) + 1] \in Visited
    BY <1>11, <1>12, <1>13, ElementOfSeq
  <2> QED
    BY <1>13, <1>14, <2>1, IsASeq
<1>17. ToSet(Reverse(top)) = T
  <2>1. ASSUME NEW i \in 1..m PROVE Reverse(top)[i] \in T
    <3>1. PICK j \in 1..Len(stack) : Reverse(top)[i] = stack[j] /\ c <= j
      BY <1>7, <1>8, <1>13, <1>15
    <3> QED
      BY <1>4, <1>7, <1>9, <3>1 DEF Above, OnStack, ToSet
  <2>2. ASSUME NEW u \in T PROVE \E i \in 1..m : Reverse(top)[i] = u
    <3>1. PICK j \in 1..Len(stack) : stack[j] = u
      BY <1>4, <1>7 DEF Above, OnStack, ToSet
    <3>2. c <= j
      BY <1>4, <1>9, <3>1 DEF Above
    <3>3. Len(stack) - j + 1 \in 1..m /\ Len(stack) - (Len(stack) - j + 1) + 1 = j
      BY <1>7, <1>8, <1>13, <3>1, <3>2
    <3> QED
      BY <1>15, <3>1, <3>3
  <2> QED
    BY <1>16, <2>1, <2>2 DEF ToSet
<1>18. \A a, b \in 1..m : Reverse(top)[a] = Reverse(top)[b] => a = b
  BY <1>7, <1>8, <1>10, <1>13, <1>15
<1>19. PICK low : low = SubSeq(stack, 1, c - 1)
  OBVIOUS
<1>20. /\ low \in Seq(OnStack \ T) /\ Len(low) = c - 1
       /\ \A i \in 1..(c - 1) : low[i] = stack[i]
  <2>1. \A i \in 1..(c - 1) : stack[i] \in OnStack \ T
    BY <1>4, <1>7, <1>8, <1>9 DEF Above, OnStack, ToSet
  <2> QED
    BY <1>8, <1>19, <2>1, SubSeqProperties
<1>21. DOMAIN low = 1..(c - 1)
  BY <1>20, LenProperties
<1>22. \A i, j \in DOMAIN low : i < j => index[low[i]] < index[low[j]]
  BY <1>7, <1>8, <1>20, <1>21
<1>23. ToSet(low) = OnStack \ T
  <2>1. ASSUME NEW u \in OnStack \ T PROVE \E i \in 1..(c - 1) : low[i] = u
    <3>1. PICK j \in 1..Len(stack) : stack[j] = u
      BY <1>7 DEF OnStack, ToSet
    <3>2. j < c
      BY <1>4, <1>7, <1>8, <1>9, <3>1 DEF Above, OnStack, ToSet
    <3> QED
      BY <1>8, <1>20, <3>1, <3>2
  <2>2. \A i \in 1..(c - 1) : low[i] \in OnStack \ T
    BY <1>20, ElementOfSeq
  <2> QED
    BY <1>21, <2>1, <2>2 DEF ToSet
<1>24. stack[1] = n => low = <<>>
  BY <1>7, <1>8, <1>10, <1>20, EmptySeq
<1>25. stack[1] # n => low # <<>> /\ low[1] = stack[1]
  <2> SUFFICES ASSUME stack[1] # n PROVE low # <<>> /\ low[1] = stack[1]
    OBVIOUS
  <2>1. 1 \in 1..(c - 1)
    BY <1>7, <1>8
  <2> QED
    BY <1>8, <1>20, <2>1, EmptySeq
<1>26. lowlinks[n] = index[n] => stack' = low /\ OnStack' = ToSet(low)
  BY <1>5, <1>19 DEF OnStack
<1>27. ASSUME lowlinks[n] = index[n] PROVE Pops(n)
  <2>1. sccs' = Append(sccs, Reverse(top)) /\ stack' = low /\ OnStack' = OnStack \ T
    BY <1>5, <1>23, <1>26, <1>27
  <2>2. PICK scc : scc = Reverse(top)
    OBVIOUS
  <2>3. /\ scc \in Seq(Visited) /\ ToSet(scc) = T
        /\ \A a, b \in DOMAIN scc : scc[a] = scc[b] => a = b
    BY <1>16, <1>17, <1>18, <2>2
  <2> QED
    BY <1>4, <1>20, <1>22, <1>24, <1>25, <2>1, <2>2, <2>3 DEF Pops
<1> QED
  BY <1>1, <1>5, <1>6, <1>27

\* The node that returns has dealt with all its edges, and so have the nodes
\* above it on the stack, which have no frame any more.
LEMMA AboveDealt ==
  ASSUME Shape, Close, NEW u \in Visited,
         u \in Popped \/ u \in Above(calls[Len(calls)].node)
  PROVE  \A p \in DOMAIN edges : edges[p][1] = u => p \in Dealt(u)
<1> DEFINE L == Len(calls)
<1>1. /\ L \in DOMAIN calls /\ L \in Nat /\ DOMAIN calls = 1..L /\ calls[L].edge > Len(edges)
      /\ calls[L].edge \in Nat /\ Len(edges) \in Nat /\ DOMAIN edges = 1..Len(edges)
  BY Sizes DEF Close, Last, Frame
<1>2. ASSUME NEW k \in DOMAIN calls, calls[k].node = u PROVE k = L
  <2>1. u \in OnStack /\ u \in Visited /\ calls[L].node \in Visited
    BY <1>1, <1>2, Sizes
  <2>2. index[calls[L].node] <= index[u]
    BY <2>1 DEF Popped, Above
  <2>3. ~(k < L)
    BY <1>1, <1>2, <2>1, <2>2 DEF Shape
  <2> QED
    BY <1>1, <2>3
<1> QED
  BY <1>1, <1>2 DEF Dealt

\* No edge leads out of the popped nodes, and none out of them and what is
\* above a root: what is popped is closed.
LEMMA PoppedClosed ==
  ASSUME Shape, EdgesFollowed, LowComplete, Close
  PROVE  LET n == calls[Len(calls)].node
         IN  /\ Closed(edges, Popped)
             /\ lowlinks[n] = index[n] => Closed(edges, Popped \cup Above(n))
<1>1. PICK L, n : L = Len(calls) /\ n = calls[L].node
  OBVIOUS
<1>2. L \in DOMAIN calls /\ Before(L) = OnStack /\ OnStack \subseteq Visited /\ n \in Visited
  BY <1>1, Sizes DEF Close, Before
<1>3. ASSUME NEW p \in DOMAIN edges, edges[p][1] \in Popped PROVE edges[p][2] \in Popped
  <2>1. edges[p][1] \in Visited
    BY <1>3 DEF Popped
  <2>2. p \in Dealt(edges[p][1])
    BY <1>3, <2>1, AboveDealt
  <2> QED
    BY <1>3, <2>1, <2>2 DEF EdgesFollowed
<1>4. ASSUME lowlinks[n] = index[n], NEW p \in DOMAIN edges, edges[p][1] \in Above(n)
      PROVE  edges[p][2] \in Popped \cup Above(n)
  <2>1. edges[p][1] \in OnStack /\ edges[p][1] \in Visited /\ index[n] <= index[edges[p][1]]
    BY <1>2, <1>4 DEF Above
  <2>2. p \in Dealt(edges[p][1])
    BY <1>1, <1>4, <2>1, AboveDealt
  <2>3. edges[p][2] \in Visited
    BY <2>1, <2>2 DEF EdgesFollowed
  <2>4. edges[p][2] \in OnStack => lowlinks[n] <= index[edges[p][2]]
    BY <1>1, <1>2, <2>1, <2>2 DEF LowComplete
  <2> QED
    BY <1>4, <2>3, <2>4 DEF Popped, Above
<1> QED
  BY <1>1, <1>3, <1>4 DEF Closed

\* What a root pops is its class.
LEMMA AboveIsClass ==
  ASSUME SInv, Close, lowlinks[calls[Len(calls)].node] = index[calls[Len(calls)].node]
  PROVE  \A m \in Above(calls[Len(calls)].node) : Above(calls[Len(calls)].node) = Class(edges, m)
<1>1. PICK L, n : L = Len(calls) /\ n = calls[L].node
  OBVIOUS
<1>2. Shape /\ Upward /\ Downward /\ EdgesFollowed /\ LowComplete
  BY DEF SInv
<1>3. /\ L \in DOMAIN calls /\ Before(L) = OnStack /\ OnStack \subseteq Visited
      /\ Visited \subseteq Nodes /\ n \in OnStack /\ index[n] \in Nat
  BY <1>1, <1>2, Sizes DEF Close, Before, Shape
<1>4. \A u \in Above(n) : Reaches(edges, u, n) /\ Reaches(edges, n, u) /\ u \in Nodes
  BY <1>1, <1>2, <1>3 DEF Upward, Downward, Above
<1>5. n \in Above(n)
  BY <1>3 DEF Above
<1>6. ASSUME NEW m \in Nodes, Reaches(edges, n, m), Reaches(edges, m, n) PROVE m \in Above(n)
  <2>1. Popped \cup Above(n) \in SUBSET Nodes /\ Popped \in SUBSET Nodes
    BY <1>3, <1>4 DEF Popped
  <2>2. Closed(edges, Popped) /\ Closed(edges, Popped \cup Above(n))
    BY <1>1, <1>2, PoppedClosed
  <2>3. m \in Popped \cup Above(n)
    BY <1>5, <1>6, <2>1, <2>2, ReachesInside
  <2>4. m \notin Popped
    <3>1. n \notin Popped
      BY <1>3 DEF Popped
    <3> QED
      BY <1>6, <2>1, <2>2, <3>1, ReachesInside
  <2> QED
    BY <2>3, <2>4
<1>7. \A m \in Above(n) : Above(n) = Class(edges, m)
  <2> SUFFICES ASSUME NEW m \in Above(n) PROVE Above(n) = Class(edges, m)
    OBVIOUS
  <2>1. ASSUME NEW u \in Above(n) PROVE u \in Class(edges, m)
    BY <1>4, <2>1, ReachesOn DEF Class
  <2>2. ASSUME NEW u \in Class(edges, m) PROVE u \in Above(n)
    <3>1. u \in Nodes /\ Reaches(edges, u, m) /\ Reaches(edges, m, u)
      BY <2>2 DEF Class
    <3>2. Reaches(edges, n, u) /\ Reaches(edges, u, n)
      BY <1>4, <3>1, ReachesOn
    <3> QED
      BY <1>6, <3>1, <3>2
  <2> QED
    BY <2>1, <2>2
<1> QED
  BY <1>1, <1>7

\* The caller has dealt with the edge to the node that returns, and takes over
\* its low link.
LEMMA CloseDealt ==
  ASSUME Shape, Frames, Close
  PROVE  LET L == Len(calls)
         IN  \A u \in Visited : \A p \in Dealt(u)' :
                p \in Dealt(u) \/ (L > 1 /\ u = calls[L - 1].node /\ p = calls[L - 1].edge)
<1>1. PICK L : L = Len(calls)
  OBVIOUS
<1>2. /\ edges' = edges /\ L \in DOMAIN calls /\ L \in Nat \ {0} /\ DOMAIN calls = 1..L
      /\ calls[L].node \in OnStack /\ calls[L].node \in Visited
  BY <1>1, CloseFrames, CloseStack, Sizes
<1>3. index[calls[L].node] \in Nat
  BY <1>2 DEF Shape
<1>4. \A p \in DOMAIN edges : edges[p][1] = calls[L].node => p \in Dealt(calls[L].node)
  BY <1>1, <1>2, <1>3, AboveDealt DEF Above
<1>5. CASE L = 1
  <2> SUFFICES ASSUME NEW u \in Visited, NEW p \in Dealt(u)' PROVE p \in Dealt(u)
    BY <1>1
  <2>1. p \in DOMAIN edges /\ edges[p][1] = u
    BY <1>2 DEF Dealt
  <2>2. CASE u = calls[L].node
    BY <1>4, <2>1, <2>2
  <2>3. CASE u # calls[L].node
    BY <1>2, <1>5, <2>1, <2>3 DEF Dealt
  <2> QED
    BY <2>2, <2>3
<1>6. CASE L > 1
  <2>1. Advanced(L - 1) /\ calls[L - 1].edge <= Len(edges)
    BY <1>1, <1>6, CloseFrames
  <2> SUFFICES ASSUME NEW u \in Visited, NEW p \in Dealt(u)'
               PROVE  p \in Dealt(u) \/ (u = calls[L - 1].node /\ p = calls[L - 1].edge)
    BY <1>1, <1>6
  <2>2. /\ p \in DOMAIN edges /\ edges[p][1] = u
        /\ \/ p \in Dealt(u)
           \/ \E k \in DOMAIN calls : k > L - 1 /\ calls[k].node = u
           \/ u = calls[L - 1].node /\ p = calls[L - 1].edge
    BY <1>2, <2>1, AdvancedDealt
  <2>3. ASSUME NEW k \in DOMAIN calls, k > L - 1, calls[k].node = u PROVE p \in Dealt(u)
    <3>1. k = L
      BY <1>2, <2>3
    <3> QED
      BY <1>4, <2>2, <2>3, <3>1
  <2> QED
    BY <2>2, <2>3
<1> QED
  BY <1>2, <1>5, <1>6

LEMMA CloseLow ==
  ASSUME Shape, Frames, Close
  PROVE  LET L == Len(calls)
             n == calls[L].node
             q == calls[L - 1].node
         IN  /\ lowlinks' \in [Visited -> Nat]
             /\ \A u \in Visited : lowlinks'[u] <= lowlinks[u]
             /\ \A u \in Visited : \/ lowlinks'[u] = lowlinks[u]
                                 \/ /\ L > 1 /\ u = q
                                    /\ lowlinks'[u] = lowlinks[n] /\ lowlinks[n] < lowlinks[u]
             /\ L > 1 => q \in Visited /\ lowlinks'[q] <= lowlinks[n]
<1>1. PICK L, n, q : L = Len(calls) /\ n = calls[L].node /\ q = calls[L - 1].node
  OBVIOUS
<1>2. /\ L \in DOMAIN calls /\ L \in Nat \ {0} /\ DOMAIN calls = 1..L
      /\ \A k \in 1..L : calls[k].node \in Visited
      /\ lowlinks \in [Visited -> Nat]
  BY <1>1, CloseFrames, Sizes DEF Shape
<1>3. /\ Front(calls) \in Seq(Frame) /\ Len(Front(calls)) = L - 1
      /\ \A k \in 1..(L - 1) : Front(calls)[k] = calls[k]
  BY <1>1, <1>2, Sizes, SubSeqProperties DEF Front
<1>4. CASE L = 1
  <2>1. Front(calls) = <<>>
    BY <1>3, <1>4, EmptySeq
  <2>2. lowlinks' = lowlinks
    BY <2>1 DEF Close
  <2> QED
    BY <1>1, <1>2, <1>4, <2>2
<1>5. CASE L > 1
  <2>1. L - 1 \in 1..(L - 1) /\ L - 1 \in 1..L
    BY <1>2, <1>5
  <2>2. Front(calls) # <<>> /\ Last(Front(calls)) = calls[L - 1]
    BY <1>3, <1>5, <2>1, EmptySeq DEF Last
  <2>3. q \in Visited /\ n \in Visited
    BY <1>1, <1>2, <2>1
  <2>4. lowlinks' = [lowlinks EXCEPT ![q] = Less(lowlinks[q], lowlinks[n])]
    BY <1>1, <2>2 DEF Close, Last
  <2>5. /\ lowlinks' \in [Visited -> Nat]
        /\ \A u \in Visited : u # q => lowlinks'[u] = lowlinks[u]
        /\ lowlinks'[q] <= lowlinks[n] /\ lowlinks'[q] <= lowlinks[q]
        /\ lowlinks'[q] = lowlinks[q] \/ (lowlinks'[q] = lowlinks[n] /\ lowlinks[n] < lowlinks[q])
    BY <1>2, <2>3, <2>4 DEF Less
  <2>6. \A u \in Visited : lowlinks'[u] <= lowlinks[u]
    <3> SUFFICES ASSUME NEW u \in Visited PROVE lowlinks'[u] <= lowlinks[u]
      OBVIOUS
    <3>1. lowlinks[u] \in Nat
      BY <1>2
    <3> QED
      BY <2>5, <3>1
  <2>7. \A u \in Visited : \/ lowlinks'[u] = lowlinks[u]
                          \/ (u = q /\ lowlinks'[u] = lowlinks[n] /\ lowlinks[n] < lowlinks[u])
    <3> SUFFICES ASSUME NEW u \in Visited
                 PROVE  \/ lowlinks'[u] = lowlinks[u]
                        \/ (u = q /\ lowlinks'[u] = lowlinks[n] /\ lowlinks[n] < lowlinks[u])
      OBVIOUS
    <3> QED
      BY <2>5
  <2> QED
    BY <1>1, <1>5, <2>3, <2>5, <2>6, <2>7
<1> QED
  BY <1>2, <1>4, <1>5

\* What a return leaves of the frames, and which edges count as followed.
LEMMA CloseBasics ==
  ASSUME Shape, Frames, EdgesFollowed, Close
  PROVE  LET L == Len(calls)
             n == calls[L].node
         IN  /\ edges' = edges /\ index' = index /\ Visited' = Visited
             /\ L \in Nat \ {0} /\ DOMAIN calls = 1..L
             /\ n \in OnStack /\ n \in Visited
             /\ calls' = <<>> <=> L = 1
             /\ DOMAIN calls' = 1..(L - 1) /\ Len(calls') = L - 1
             /\ \A k \in 1..(L - 1) : calls'[k].node = calls[k].node
             /\ \A i, j \in DOMAIN calls' : i < j => index'[calls'[i].node] < index'[calls'[j].node]
             /\ calls' \in Seq(Frame)' /\ Frames'
             /\ \A u \in Visited : \A p \in Dealt(u)' :
                   /\ p \in DOMAIN edges /\ edges[p][1] = u
                   /\ edges[p][2] \in Visited /\ (u \in Popped => edges[p][2] \in Popped)
<1>1. PICK L, n : L = Len(calls) /\ n = calls[L].node
  OBVIOUS
<1>2. /\ L \in DOMAIN calls /\ L \in Nat \ {0} /\ DOMAIN calls = 1..L
      /\ L = 1 => calls' = <<>>
      /\ L > 1 => /\ Advanced(L - 1) /\ calls[L - 1].edge <= Len(edges)
                  /\ edges[calls[L - 1].edge][2] = n
  BY <1>1, CloseFrames, Sizes
<1>3. /\ n \in OnStack /\ n \in Visited /\ edges' = edges /\ index' = index
  BY <1>1, CloseStack
<1>4. Visited' = Visited
  BY <1>3 DEF Visited
<1>5. /\ calls' = <<>> <=> L = 1
      /\ DOMAIN calls' = 1..(L - 1) /\ Len(calls') = L - 1
      /\ \A k \in 1..(L - 1) : calls'[k].node = calls[k].node
      /\ \A i, j \in DOMAIN calls' : i < j => index'[calls'[i].node] < index'[calls'[j].node]
      /\ calls' \in Seq(Frame)' /\ Frames'
  <2>1. CASE L = 1
    <3>1. calls' = <<>> /\ DOMAIN calls' = {} /\ Len(calls') = 0 /\ 1..(L - 1) = {} /\ L - 1 = 0
      BY <1>2, <2>1
    <3>2. calls' \in Seq(Frame)' /\ Frames'
      BY <3>1, EmptySeq DEF Frames
    <3> QED
      BY <2>1, <3>1, <3>2
  <2>2. CASE L > 1
    <3>1. PICK top : top = L - 1
      OBVIOUS
    <3>2. /\ Advanced(top) /\ calls[top].edge <= Len(edges) /\ UNCHANGED <<edges, index>>
          /\ L # 1
      BY <1>2, <1>3, <2>2, <3>1
    <3>3. /\ calls' # <<>> /\ DOMAIN calls' = 1..top /\ Len(calls') = top
          /\ \A k \in 1..top : calls'[k].node = calls[k].node
          /\ \A i, j \in DOMAIN calls' : i < j => index'[calls'[i].node] < index'[calls'[j].node]
          /\ calls' \in Seq(Frame)' /\ Frames'
      BY <3>2, AdvancedFrames
    <3> QED
      BY <3>1, <3>2, <3>3
  <2> QED
    BY <1>2, <2>1, <2>2
<1>7. ASSUME NEW u \in Visited, NEW p \in Dealt(u)'
      PROVE  /\ p \in DOMAIN edges /\ edges[p][1] = u
             /\ edges[p][2] \in Visited /\ (u \in Popped => edges[p][2] \in Popped)
  <2>1. p \in DOMAIN edges /\ edges[p][1] = u
    BY <1>3, <1>7 DEF Dealt
  <2>2. CASE p \in Dealt(u)
    BY <2>1, <2>2 DEF EdgesFollowed
  <2>3. CASE L > 1 /\ u = calls[L - 1].node /\ p = calls[L - 1].edge
    <3>1. L - 1 \in DOMAIN calls
      BY <1>2, <2>3
    <3>2. u \notin Popped
      BY <2>3, <3>1, Sizes DEF Popped
    <3> QED
      BY <1>2, <1>3, <2>1, <2>3, <3>2
  <2> QED
    BY <1>1, <1>7, <2>2, <2>3, CloseDealt
<1> QED
  BY <1>1, <1>2, <1>3, <1>4, <1>5, <1>7

\* strongconnect returns from the root of a component.
LEMMA CloseRootSInv ==
  ASSUME SInv, Close, lowlinks[calls[Len(calls)].node] = index[calls[Len(calls)].node]
  PROVE  SInv'
<1>1. Shape /\ Frames /\ Upward /\ Downward /\ EdgesFollowed /\ LowSound /\ LowComplete /\ Components
  BY DEF SInv
<1>2. PICK L, n, T : L = Len(calls) /\ n = calls[L].node /\ T = Above(n)
  OBVIOUS
<1>3. /\ edges' = edges /\ index' = index /\ Visited' = Visited
      /\ L \in Nat \ {0} /\ DOMAIN calls = 1..L
      /\ n \in OnStack /\ n \in Visited
      /\ calls' = <<>> <=> L = 1
      /\ DOMAIN calls' = 1..(L - 1) /\ Len(calls') = L - 1
      /\ \A k \in 1..(L - 1) : calls'[k].node = calls[k].node
      /\ \A i, j \in DOMAIN calls' : i < j => index'[calls'[i].node] < index'[calls'[j].node]
      /\ calls' \in Seq(Frame)' /\ Frames'
      /\ \A u \in Visited : \A p \in Dealt(u)' :
            /\ p \in DOMAIN edges /\ edges[p][1] = u
            /\ edges[p][2] \in Visited /\ (u \in Popped => edges[p][2] \in Popped)
  BY <1>1, <1>2, CloseBasics
<1>4. lowlinks[n] = index[n] /\ Pops(n)
  BY <1>1, <1>2, CloseStack
<1>5. /\ index \in [Visited -> Nat] /\ lowlinks \in [Visited -> Nat] /\ OnStack \subseteq Visited
      /\ \A k \in 1..L : calls[k].node \in OnStack /\ calls[k].node \in Visited
  BY <1>1, <1>3, Sizes DEF Shape
<1>6. /\ OnStack' = OnStack \ T /\ T \subseteq OnStack
      /\ \A u \in OnStack : u \notin T <=> index[u] < index[n]
  BY <1>2, <1>3, <1>4, <1>5 DEF Pops, Above
<1>7. Popped' = Popped \cup T
  BY <1>3, <1>5, <1>6 DEF Popped
<1>8. \A k \in 1..(L - 1) : k \in 1..L /\ index[calls[k].node] < index[n] /\ calls[k].node \in OnStack'
  <2> SUFFICES ASSUME NEW k \in 1..(L - 1)
               PROVE  k \in 1..L /\ index[calls[k].node] < index[n] /\ calls[k].node \in OnStack'
    OBVIOUS
  <2>1. k \in 1..L /\ L \in 1..L /\ k < L
    BY <1>3
  <2>2. index[calls[k].node] < index[n]
    BY <1>1, <1>2, <1>3, <2>1 DEF Shape
  <2> QED
    BY <1>5, <1>6, <2>1, <2>2
<1>9. lowlinks' \in [Visited -> Nat] /\ \A u \in Visited : lowlinks'[u] = lowlinks[u]
  <2>1. lowlinks' \in [Visited -> Nat]
    BY <1>1, CloseLow
  <2>2. \A u \in Visited : \/ lowlinks'[u] = lowlinks[u]
                           \/ (L > 1 /\ u = calls[L - 1].node /\ lowlinks[n] < lowlinks[u])
    BY <1>1, <1>2, CloseLow
  <2>3. ASSUME L > 1 PROVE ~(lowlinks[n] < lowlinks[calls[L - 1].node])
    <3>1. PICK q : q = calls[L - 1].node
      OBVIOUS
    <3>2. L - 1 \in 1..(L - 1)
      BY <1>3, <2>3
    <3>3. index[q] < index[n] /\ q \in Visited
      BY <1>5, <1>8, <3>1, <3>2
    <3>4. lowlinks[q] <= index[q]
      BY <1>1, <3>3 DEF LowSound
    <3> QED
      BY <1>3, <1>4, <1>5, <3>1, <3>3, <3>4
  <2> QED
    BY <2>1, <2>2, <2>3
<1>10. \A k \in 1..(L - 1) : \A u \in Before(k)' : u \in Before(k) /\ u \in OnStack' /\ u \in OnStack
  <2> SUFFICES ASSUME NEW k \in 1..(L - 1), NEW u \in Before(k)'
               PROVE  u \in Before(k) /\ u \in OnStack' /\ u \in OnStack
    OBVIOUS
  <2>1. u \in OnStack' /\ u \in OnStack /\ index[u] < index[n]
    BY <1>6 DEF Before
  <2>2. CASE k = L - 1
    <3>1. k + 1 = L
      BY <1>3, <2>2
    <3> QED
      BY <1>2, <2>1, <3>1 DEF Before
  <2>3. CASE k < L - 1
    <3>1. k + 1 \in 1..(L - 1)
      BY <1>3, <2>3
    <3>2. index'[u] < index'[calls'[k + 1].node]
      BY <1>3, <2>3 DEF Before
    <3> QED
      BY <1>3, <2>1, <3>1, <3>2 DEF Before
  <2> QED
    BY <1>3, <2>2, <2>3
<1>11. Shape'
  <2>1. stack' \in Seq(Visited)
    <3>1. OnStack \ T \subseteq Visited
      BY <1>5
    <3> QED
      BY <1>2, <1>4, <3>1, SeqMonotonic DEF Pops
  <2>2. \A i, j \in DOMAIN stack' : i < j => index[stack'[i]] < index[stack'[j]]
    BY <1>4 DEF Pops
  <2>3. \A k \in DOMAIN calls' : calls'[k].node \in OnStack'
    BY <1>3, <1>8
  <2>4. (stack[1] = n => stack' = <<>>) /\ (stack[1] # n => stack' # <<>> /\ stack'[1] = stack[1])
    BY <1>4 DEF Pops
  <2>5. calls[1].node = stack[1]
    <3>1. calls # <<>>
      BY DEF Close
    <3> QED
      BY <1>1, <3>1 DEF Shape
  <2>6. CASE L = 1
    <3>1. calls' = <<>> /\ stack' = <<>>
      BY <1>2, <1>3, <2>4, <2>5, <2>6
    <3> QED
      BY <1>1, <1>3, <1>9, <2>1, <2>2, <2>3, <3>1 DEF Shape
  <2>7. CASE L # 1
    <3>1. 1 \in 1..(L - 1)
      BY <1>3, <2>7
    <3>2. index[calls[1].node] < index[n]
      BY <1>8, <3>1
    <3>3. stack[1] # n
      BY <1>3, <1>5, <2>5, <3>2
    <3>4. calls' # <<>> /\ stack' # <<>> /\ calls'[1].node = stack'[1]
      BY <1>3, <2>4, <2>5, <2>7, <3>1, <3>3
    <3> QED
      BY <1>1, <1>3, <1>9, <2>1, <2>2, <2>3, <3>4 DEF Shape
  <2> QED
    BY <2>6, <2>7
<1>12. Upward'
  <2> SUFFICES ASSUME NEW k \in 1..(L - 1), NEW u \in Before(k)'
               PROVE  Reaches(edges, u, calls[k].node)
    BY <1>3 DEF Upward
  <2> QED
    BY <1>1, <1>3, <1>8, <1>10 DEF Upward
<1>13. Downward'
  BY <1>1, <1>3, <1>6, <1>8 DEF Downward
<1>14. EdgesFollowed'
  <2> SUFFICES ASSUME NEW u \in Visited, NEW p \in Dealt(u)', u \in T PROVE edges[p][2] \in Popped \cup T
    BY <1>3, <1>7 DEF EdgesFollowed
  <2>1. Closed(edges, Popped \cup T)
    BY <1>1, <1>2, <1>4, PoppedClosed
  <2> QED
    BY <1>3, <2>1 DEF Closed
<1>15. LowSound'
  <2>1. \A u \in Visited : lowlinks'[u] <= index[u]
    BY <1>1, <1>9 DEF LowSound
  <2>2. ASSUME NEW u \in OnStack'
        PROVE  \E x \in OnStack' : index[x] = lowlinks'[u] /\ Reaches(edges, u, x)
    <3>1. u \in OnStack /\ u \in Visited /\ index[u] < index[n]
      BY <1>5, <1>6
    <3>2. PICK x \in OnStack : index[x] = lowlinks[u] /\ Reaches(edges, u, x)
      BY <1>1, <3>1 DEF LowSound
    <3>3. lowlinks[u] <= index[u] /\ x \in Visited
      BY <1>1, <1>5, <3>1 DEF LowSound
    <3>4. index[x] < index[n]
      BY <1>3, <1>5, <3>1, <3>2, <3>3
    <3> QED
      BY <1>6, <1>9, <3>1, <3>2, <3>4
  <2> QED
    BY <1>3, <2>1, <2>2 DEF LowSound
<1>16. LowComplete'
  <2> SUFFICES ASSUME NEW k \in 1..(L - 1), NEW u \in Before(k)', index[calls[k].node] <= index[u],
                      NEW p \in Dealt(u)', edges[p][2] \in OnStack'
               PROVE  lowlinks'[calls[k].node] <= index[edges[p][2]]
    BY <1>3 DEF LowComplete
  <2>1. u \in Before(k) /\ u \in Visited /\ k \in 1..L /\ edges[p][2] \in OnStack
    BY <1>5, <1>6, <1>8, <1>10
  <2>2. CASE p \in Dealt(u)
    BY <1>1, <1>3, <1>5, <1>9, <2>1, <2>2 DEF LowComplete
  <2>3. CASE L > 1 /\ u = calls[L - 1].node /\ p = calls[L - 1].edge
    <3>1. edges[p][2] = n
      BY <1>1, <1>2, <2>3, CloseFrames
    <3>2. ~(index[n] < index[n])
      BY <1>3, <1>5
    <3> QED
      BY <1>3, <1>6, <3>1, <3>2
  <2> QED
    BY <1>1, <1>2, <2>1, <2>2, <2>3, CloseDealt
<1>17. Components'
  <2>1. PICK scc \in Seq(Visited) :
           /\ sccs' = Append(sccs, scc) /\ ToSet(scc) = T
           /\ \A a, b \in DOMAIN scc : scc[a] = scc[b] => a = b
    BY <1>2, <1>4 DEF Pops
  <2>2. PICK m : m = Len(sccs)
    OBVIOUS
  <2>3. sccs \in Seq(Seq(Visited)) /\ m \in Nat /\ DOMAIN sccs = 1..m
    BY <1>1, <2>2, LenProperties DEF Components
  <2>4. /\ sccs' \in Seq(Seq(Visited)) /\ DOMAIN sccs' = 1..(m + 1)
        /\ \A j \in 1..m : sccs'[j] = sccs[j]
        /\ sccs'[m + 1] = scc
    BY <2>1, <2>2, <2>3, AppendProperties, LenProperties
  <2>5. \A j \in 1..(m + 1) : j \in 1..m \/ j = m + 1
    BY <2>3
  <2>6. \A j \in 1..m : ToSet(sccs[j]) \subseteq Popped
    BY <1>1, <2>3 DEF Components
  <2>7. Popped' = UNION {ToSet(sccs'[j]) : j \in DOMAIN sccs'}
    <3>1. Popped = UNION {ToSet(sccs[j]) : j \in 1..m}
      BY <1>1, <2>3 DEF Components
    <3>2. m + 1 \in 1..(m + 1) /\ \A j \in 1..m : j \in 1..(m + 1)
      BY <2>3
    <3>3. ASSUME NEW u \in Popped \cup T PROVE \E j \in 1..(m + 1) : u \in ToSet(sccs'[j])
      BY <2>1, <2>4, <3>1, <3>2
    <3>4. ASSUME NEW j \in 1..(m + 1), NEW u \in ToSet(sccs'[j]) PROVE u \in Popped \cup T
      <4>1. CASE j \in 1..m
        BY <2>4, <2>6, <4>1
      <4>2. CASE j = m + 1
        BY <2>1, <2>4, <4>2
      <4> QED
        BY <2>5, <4>1, <4>2
    <3> QED
      BY <1>7, <2>4, <3>3, <3>4
  <2>8. ASSUME NEW j \in 1..(m + 1)
        PROVE  /\ \A x \in ToSet(sccs'[j]) : ToSet(sccs'[j]) = Class(edges, x)
               /\ \A a, b \in DOMAIN sccs'[j] : sccs'[j][a] = sccs'[j][b] => a = b
    <3>1. CASE j \in 1..m
      BY <1>1, <2>3, <2>4, <3>1 DEF Components
    <3>2. CASE j = m + 1
      <4>1. \A x \in T : T = Class(edges, x)
        BY <1>2, <1>4, AboveIsClass
      <4> QED
        BY <2>1, <2>4, <3>2, <4>1
    <3> QED
      BY <2>5, <3>1, <3>2
  <2>9. ASSUME NEW i \in 1..(m + 1), NEW j \in 1..(m + 1), ToSet(sccs'[i]) \cap ToSet(sccs'[j]) # {}
        PROVE  i = j
    <3>1. T \cap Popped = {}
      BY <1>6 DEF Popped
    <3>2. CASE i \in 1..m /\ j \in 1..m
      BY <1>1, <2>3, <2>4, <2>9, <3>2 DEF Components
    <3>3. CASE i \in 1..m /\ j = m + 1
      BY <2>1, <2>4, <2>6, <2>9, <3>1, <3>3
    <3>4. CASE i = m + 1 /\ j \in 1..m
      BY <2>1, <2>4, <2>6, <2>9, <3>1, <3>4
    <3> QED
      BY <2>5, <3>2, <3>3, <3>4
  <2> QED
    BY <1>3, <2>4, <2>7, <2>8, <2>9 DEF Components, Class
<1> QED
  BY <1>3, <1>11, <1>12, <1>13, <1>14, <1>15, <1>16, <1>17 DEF SInv

\* strongconnect returns from a node that is no root, and the caller takes over
\* its low link.
LEMMA CloseInnerSInv ==
  ASSUME SInv, Close, lowlinks[calls[Len(calls)].node] # index[calls[Len(calls)].node]
  PROVE  SInv'
<1>1. Shape /\ Frames /\ Upward /\ Downward /\ EdgesFollowed /\ LowSound /\ LowComplete /\ Components
  BY DEF SInv
<1>2. PICK L, n, q, p0 : /\ L = Len(calls) /\ n = calls[L].node
                         /\ q = calls[L - 1].node /\ p0 = calls[L - 1].edge
  OBVIOUS
<1>3. /\ edges' = edges /\ index' = index /\ Visited' = Visited
      /\ L \in Nat \ {0} /\ DOMAIN calls = 1..L
      /\ n \in OnStack /\ n \in Visited
      /\ calls' = <<>> <=> L = 1
      /\ DOMAIN calls' = 1..(L - 1) /\ Len(calls') = L - 1
      /\ \A k \in 1..(L - 1) : calls'[k].node = calls[k].node
      /\ \A i, j \in DOMAIN calls' : i < j => index'[calls'[i].node] < index'[calls'[j].node]
      /\ calls' \in Seq(Frame)' /\ Frames'
      /\ \A u \in Visited : \A p \in Dealt(u)' :
            /\ p \in DOMAIN edges /\ edges[p][1] = u
            /\ edges[p][2] \in Visited /\ (u \in Popped => edges[p][2] \in Popped)
  BY <1>1, <1>2, CloseBasics
<1>4. stack' = stack /\ sccs' = sccs
  BY <1>1, <1>2, CloseStack
<1>5. /\ index \in [Visited -> Nat] /\ lowlinks \in [Visited -> Nat] /\ OnStack \subseteq Visited
      /\ \A k \in 1..L : calls[k].node \in OnStack /\ calls[k].node \in Visited
  BY <1>1, <1>3, Sizes DEF Shape
<1>6. OnStack' = OnStack /\ Popped' = Popped
  BY <1>3, <1>4 DEF OnStack, Popped
<1>7. PICK x \in OnStack : index[x] = lowlinks[n] /\ Reaches(edges, n, x) /\ index[x] < index[n]
  <2>1. PICK x \in OnStack : index[x] = lowlinks[n] /\ Reaches(edges, n, x)
    BY <1>1, <1>3 DEF LowSound
  <2>2. lowlinks[n] <= index[n] /\ x \in Visited
    BY <1>1, <1>3, <1>5, <2>1 DEF LowSound
  <2>3. lowlinks[n] # index[n]
    BY <1>2
  <2>4. index[x] < index[n]
    BY <1>3, <1>5, <2>1, <2>2, <2>3
  <2> QED
    BY <2>1, <2>4
<1>8. L > 1
  <2> SUFFICES ASSUME L = 1 PROVE FALSE
    BY <1>3
  <2>1. calls # <<>>
    BY DEF Close
  <2>2. stack[1] = n
    BY <1>1, <1>2, <2>1 DEF Shape
  <2>3. Len(stack) \in Nat /\ DOMAIN stack = 1..Len(stack)
    BY <1>1, Sizes
  <2>4. PICK i \in DOMAIN stack : stack[i] = x
    BY <1>7 DEF OnStack, ToSet
  <2>5. 1 \in DOMAIN stack /\ (i = 1 \/ 1 < i)
    BY <2>3, <2>4
  <2>6. index[n] <= index[x]
    BY <1>1, <1>3, <1>5, <1>7, <2>2, <2>4, <2>5 DEF Shape
  <2> QED
    BY <1>3, <1>5, <1>7, <2>6
<1>9. /\ L - 1 \in 1..(L - 1) /\ L - 1 \in 1..L /\ L \in 1..L /\ L - 1 < L
      /\ q \in OnStack /\ q \in Visited
      /\ p0 \in DOMAIN edges /\ edges[p0][1] = q /\ edges[p0][2] = n
      /\ Reaches(edges, q, n)
  <2>1. L - 1 \in 1..(L - 1) /\ L - 1 \in 1..L /\ L \in 1..L /\ L - 1 < L
    BY <1>3, <1>8
  <2>2. p0 \in DOMAIN edges /\ edges[p0][1] = q /\ edges[p0][2] = n
    BY <1>1, <1>2, <1>8, CloseFrames
  <2> QED
    BY <1>2, <1>5, <2>1, <2>2, EdgeReaches
<1>10. /\ \A k \in 1..(L - 1) : k < L - 1 => Before(k)' = Before(k)
       /\ Before(L - 1)' = OnStack
       /\ Before(L) = OnStack
       /\ \A u \in OnStack : index[u] < index[n] => u \in Before(L - 1)
  <2>1. ASSUME NEW k \in 1..(L - 1), k < L - 1 PROVE Before(k)' = Before(k)
    <3>1. k + 1 \in 1..(L - 1) /\ k < L
      BY <1>3, <2>1
    <3>2. calls'[k + 1].node = calls[k + 1].node
      BY <1>3, <3>1
    <3> QED
      BY <1>2, <1>3, <1>6, <2>1, <3>1, <3>2 DEF Before
  <2>2. Before(L - 1)' = OnStack
    <3>1. ~(L - 1 < Len(calls'))
      BY <1>3
    <3> QED
      BY <1>3, <1>6, <3>1 DEF Before
  <2>3. Before(L) = OnStack
    BY <1>2, <1>3 DEF Before
  <2>4. \A u \in OnStack : index[u] < index[n] => u \in Before(L - 1)
    <3>1. (L - 1) + 1 = L
      BY <1>3
    <3> QED
      BY <1>2, <3>1 DEF Before
  <2> QED
    BY <2>1, <2>2, <2>3, <2>4
<1>11. /\ lowlinks' \in [Visited -> Nat]
       /\ \A u \in Visited : lowlinks'[u] <= lowlinks[u]
       /\ \A u \in Visited : \/ lowlinks'[u] = lowlinks[u]
                             \/ (u = q /\ lowlinks'[u] = lowlinks[n])
       /\ lowlinks'[q] <= lowlinks[n]
  BY <1>1, <1>2, <1>8, CloseLow
<1>12. Shape'
  <2>1. \A k \in DOMAIN calls' : calls'[k].node \in OnStack'
    BY <1>3, <1>5, <1>6
  <2>2. calls' # <<>> /\ stack # <<>> /\ calls'[1].node = stack[1]
    <3>1. calls # <<>> /\ 1 \in 1..(L - 1)
      BY <1>3, <1>8 DEF Close
    <3> QED
      BY <1>1, <1>3, <1>8, <3>1 DEF Shape
  <2> QED
    BY <1>1, <1>3, <1>4, <1>11, <2>1, <2>2 DEF Shape
<1>13. Upward'
  <2> SUFFICES ASSUME NEW k \in 1..(L - 1), NEW u \in Before(k)'
               PROVE  Reaches(edges, u, calls[k].node)
    BY <1>3 DEF Upward
  <2>1. CASE k < L - 1
    <3>1. u \in Before(k) /\ k \in DOMAIN calls
      BY <1>3, <1>10, <2>1
    <3> QED
      BY <1>1, <3>1 DEF Upward
  <2>2. CASE k = L - 1
    <3>1. u \in OnStack /\ u \in Visited /\ calls[k].node = q
      BY <1>2, <1>5, <1>10, <2>2
    <3>2. \A v \in OnStack : index[v] < index[n] => Reaches(edges, v, q)
      BY <1>1, <1>2, <1>3, <1>9, <1>10 DEF Upward
    <3>3. CASE index[u] < index[n]
      BY <3>1, <3>2, <3>3
    <3>4. Reaches(edges, u, n)
      BY <1>1, <1>2, <1>3, <1>9, <1>10, <3>1 DEF Upward
    <3> QED
      BY <1>7, <3>1, <3>2, <3>4, ReachesOn
  <2> QED
    BY <1>3, <2>1, <2>2
<1>14. Downward'
  <2>1. \A k \in 1..(L - 1) : k \in DOMAIN calls
    BY <1>3
  <2> QED
    BY <1>1, <1>3, <1>6, <2>1 DEF Downward
<1>15. EdgesFollowed'
  BY <1>3, <1>6 DEF EdgesFollowed
<1>16. LowSound'
  <2>1. ASSUME NEW u \in Visited PROVE lowlinks'[u] <= index[u]
    BY <1>1, <1>5, <1>11 DEF LowSound
  <2>2. ASSUME NEW u \in OnStack
        PROVE  \E y \in OnStack : index[y] = lowlinks'[u] /\ Reaches(edges, u, y)
    <3>1. CASE lowlinks'[u] = lowlinks[u]
      BY <1>1, <3>1 DEF LowSound
    <3>2. CASE u = q /\ lowlinks'[u] = lowlinks[n]
      BY <1>7, <1>9, <3>2, ReachesOn
    <3> QED
      BY <1>5, <1>11, <3>1, <3>2
  <2> QED
    BY <1>3, <1>6, <2>1, <2>2 DEF LowSound
<1>17. LowComplete'
  <2> SUFFICES ASSUME NEW k \in 1..(L - 1), NEW u \in Before(k)', index[calls[k].node] <= index[u],
                      NEW p \in Dealt(u)', edges[p][2] \in OnStack
               PROVE  lowlinks'[calls[k].node] <= index[edges[p][2]]
    BY <1>3, <1>6 DEF LowComplete
  <2>1. k \in DOMAIN calls /\ calls[k].node \in Visited
    BY <1>3, <1>5
  <2>2. u \in OnStack /\ u \in Visited /\ edges[p][2] \in Visited /\ index[edges[p][2]] \in Nat
    BY <1>5, <1>6 DEF Before
  <2>3. p \in Dealt(u) \/ (u = q /\ p = p0)
    BY <1>1, <1>2, <2>2, CloseDealt
  <2>4. lowlinks'[calls[k].node] <= lowlinks[calls[k].node]
        /\ lowlinks'[calls[k].node] \in Nat /\ lowlinks[calls[k].node] \in Nat
    BY <1>5, <1>11, <2>1
  <2>5. CASE k < L - 1
    <3>1. u \in Before(k)
      BY <1>10, <2>5
    <3>2. CASE p \in Dealt(u)
      <4>1. lowlinks[calls[k].node] <= index[edges[p][2]]
        BY <1>1, <2>1, <3>1, <3>2 DEF LowComplete
      <4> QED
        BY <2>2, <2>4, <4>1
    <3>3. CASE u = q /\ p = p0
      <4>1. k + 1 \in DOMAIN calls /\ L - 1 \in DOMAIN calls /\ k + 1 <= L - 1 /\ k < L
        BY <1>3, <2>5
      <4>2. index[q] < index[calls[k + 1].node]
        BY <1>2, <3>1, <3>3, <4>1 DEF Before
      <4>3. index[calls[k + 1].node] <= index[q] /\ calls[k + 1].node \in Visited
        BY <1>1, <1>2, <4>1, FrameNodes, Sizes
      <4> QED
        BY <1>5, <1>9, <4>2, <4>3
    <3> QED
      BY <2>3, <3>2, <3>3
  <2>6. CASE k = L - 1
    <3>1. calls[k].node = q /\ lowlinks[n] \in Nat /\ index[n] \in Nat /\ index[u] \in Nat
      BY <1>2, <1>3, <1>5, <2>2, <2>6
    <3>2. CASE u = q /\ p = p0
      <4>1. lowlinks[n] <= index[n]
        BY <1>1, <1>3 DEF LowSound
      <4> QED
        BY <1>9, <1>11, <2>4, <3>1, <3>2, <4>1
    <3>3. CASE p \in Dealt(u) /\ index[u] < index[n]
      <4>1. u \in Before(k)
        BY <1>10, <2>2, <2>6, <3>3
      <4>2. lowlinks[calls[k].node] <= index[edges[p][2]]
        BY <1>1, <2>1, <3>3, <4>1 DEF LowComplete
      <4> QED
        BY <2>2, <2>4, <4>2
    <3>4. CASE p \in Dealt(u) /\ index[n] <= index[u]
      <4>1. lowlinks[n] <= index[edges[p][2]]
        BY <1>1, <1>2, <1>3, <1>9, <1>10, <2>2, <3>4 DEF LowComplete
      <4> QED
        BY <1>11, <2>2, <2>4, <3>1, <4>1
    <3> QED
      BY <2>3, <3>1, <3>2, <3>3, <3>4
  <2> QED
    BY <1>3, <2>5, <2>6
<1>18. Components'
  BY <1>1, <1>3, <1>4, <1>6 DEF Components, Class
<1> QED
  BY <1>3, <1>12, <1>13, <1>14, <1>15, <1>16, <1>17, <1>18 DEF SInv

-----------------------------------------------------------------------------
(* The whole search, and what it returns.                                  *)

LEMMA SearchStepSInv == ASSUME SInv, SearchStep PROVE SInv'
<1>1. Shape /\ Frames
  BY DEF SInv
<1>2. CASE Root
  <2>1. PICK k \in DOMAIN Order : Order[k] \notin Visited /\ Call(Order[k]) /\ calls = <<>>
    BY <1>2 DEF Root
  <2>2. Order[k] \in Nodes
    BY OrderAssumption, ElementOfSeq
  <2>3. CallOf(Order[k])
    BY <2>1, <2>2 DEF CallOf
  <2> QED
    BY <2>3, CallSInv
<1>3. CASE Descend
  <2>1. PICK w : /\ calls # <<>> /\ calls[Len(calls)].edge <= Len(edges)
                 /\ w = edges[calls[Len(calls)].edge][2] /\ w \notin Visited /\ Call(w)
    BY <1>3 DEF Descend, AtEdge, Last
  <2>2. calls[Len(calls)].edge \in DOMAIN edges
    <3>1. Len(calls) \in DOMAIN calls /\ Len(edges) \in Nat /\ DOMAIN edges = 1..Len(edges)
      BY <1>1, <2>1, Sizes
    <3>2. calls[Len(calls)].edge \in 1..(Len(edges) + 1)
      BY <1>1, <3>1 DEF Frames
    <3> QED
      BY <2>1, <3>1, <3>2
  <2>3. w \in Nodes
    BY <1>1, <2>1, <2>2, Sizes
  <2>4. CallOf(w)
    BY <2>1, <2>3 DEF CallOf
  <2> QED
    BY <2>4, CallSInv
<1>4. CASE Examine
  BY <1>4, ExamineSInv
<1>5. CASE Close
  BY <1>5, CloseRootSInv, CloseInnerSInv
<1> QED
  BY <1>2, <1>3, <1>4, <1>5 DEF SearchStep

LEMMA CreateInitSInv == CreateInit => SInv
<1> SUFFICES ASSUME CreateInit PROVE SInv
  OBVIOUS
<1>1. edges \in Edges /\ index = <<>> /\ lowlinks = <<>> /\ stack = <<>> /\ calls = <<>> /\ sccs = <<>>
  BY EdgeListsAssumption DEF CreateInit, Init, Fresh
<1>2. /\ DOMAIN index = {} /\ DOMAIN lowlinks = {} /\ DOMAIN stack = {}
      /\ DOMAIN calls = {} /\ DOMAIN sccs = {}
  BY <1>1
<1>3. Visited = {} /\ OnStack = {} /\ Popped = {}
  BY <1>2 DEF Visited, OnStack, Popped, ToSet
<1>4. index \in [Visited -> Nat] /\ lowlinks \in [Visited -> Nat]
  BY <1>1, <1>2, <1>3
<1>5. stack \in Seq(Visited) /\ calls \in Seq(Frame) /\ sccs \in Seq(Seq(Visited))
  BY <1>1, EmptySeq
<1>6. Shape
  BY <1>1, <1>2, <1>3, <1>4, <1>5 DEF Shape
<1>7. Frames /\ Upward /\ Downward /\ EdgesFollowed /\ LowSound /\ LowComplete
  BY <1>2, <1>3 DEF Frames, Upward, Downward, EdgesFollowed, LowSound, LowComplete
<1>8. Components
  BY <1>2, <1>3, <1>5 DEF Components
<1> QED
  BY <1>6, <1>7, <1>8 DEF SInv

LEMMA UnchangedSInv == ASSUME SInv, UNCHANGED <<edges, searching>> PROVE SInv'
<1>1. UNCHANGED <<edges, index, lowlinks, stack, calls, sccs>>
  BY DEF searching
<1>2. Visited' = Visited /\ OnStack' = OnStack /\ Popped' = Popped /\ Frame' = Frame
  BY <1>1 DEF Visited, OnStack, Popped, Frame
<1>3. \A u : Dealt(u)' = Dealt(u)
  BY <1>1 DEF Dealt
<1>4. \A k : Before(k)' = Before(k)
  BY <1>1, <1>2 DEF Before
<1>5. Shape' /\ Frames'
  BY <1>1, <1>2 DEF SInv, Shape, Frames
<1>6. Upward' /\ Downward' /\ LowSound' /\ EdgesFollowed' /\ LowComplete'
  BY <1>1, <1>2, <1>3, <1>4 DEF SInv, Upward, Downward, LowSound, EdgesFollowed, LowComplete
<1>7. Components'
  BY <1>1, <1>2 DEF SInv, Components
<1> QED
  BY <1>5, <1>6, <1>7 DEF SInv

\* The invariant of Tarjan's search, for every graph and every order of its
\* nodes: what a low link says, and that the components found are classes.
THEOREM SearchInvariant == CreateSpec => []SInv
<1>1. SInv /\ [CreateNext]_<<vars, searching>> => SInv'
  <2> SUFFICES ASSUME SInv, [CreateNext]_<<vars, searching>> PROVE SInv'
    OBVIOUS
  <2>1. CASE DetectCycles
    BY <2>1, SearchStepSInv DEF DetectCycles
  <2>2. CASE CheckFound
    BY <2>2, UnchangedSInv DEF CheckFound, Check
  <2>3. CASE MakeFlow
    BY <2>3, UnchangedSInv DEF MakeFlow, TakeLevel, Generate
  <2>4. CASE UNCHANGED <<vars, searching>>
    BY <2>4, UnchangedSInv DEF vars
  <2> QED
    BY <2>1, <2>2, <2>3, <2>4 DEF CreateNext
<1> QED
  BY CreateInitSInv, <1>1, PTL DEF CreateSpec

\* The elements of a list without repetitions are as many as it is long.
LEMMA ListCardinality ==
  ASSUME NEW S, NEW s \in Seq(S), \A a, b \in DOMAIN s : s[a] = s[b] => a = b
  PROVE  Cardinality(ToSet(s)) = Len(s)
<1>1. Len(s) \in Nat /\ DOMAIN s = 1..Len(s) /\ s \in [1..Len(s) -> S]
  BY LenProperties
<1>2. s \in [1..Len(s) -> ToSet(s)]
  BY <1>1 DEF ToSet
<1>3. s \in Bijection(1..Len(s), ToSet(s))
  BY <1>1, <1>2 DEF Bijection, Injection, Surjection, IsInjective, ToSet
<1> QED
  BY <1>1, <1>3, FS_CountingElements DEF ExistsBijection

LEMMA FoundExactly == ASSUME SInv, Finished
  PROVE  /\ {ToSet(Cycles[k]) : k \in DOMAIN Cycles} = CyclesOf(edges)
         /\ \A j, k \in DOMAIN Cycles : ToSet(Cycles[j]) = ToSet(Cycles[k]) => j = k
<1>1. Shape /\ Components
  BY DEF SInv
<1>2. Visited = Nodes /\ OnStack = {}
  BY <1>1, Sizes DEF Finished
<1>3. /\ sccs \in Seq(Seq(Nodes))
      /\ Nodes = UNION {ToSet(sccs[j]) : j \in DOMAIN sccs}
  BY <1>1, <1>2 DEF Components, Popped
<1>4. ASSUME NEW j \in DOMAIN sccs
      PROVE  /\ Len(sccs[j]) \in Nat /\ DOMAIN sccs[j] = 1..Len(sccs[j])
             /\ Cardinality(ToSet(sccs[j])) = Len(sccs[j])
             /\ \A m \in ToSet(sccs[j]) : m \in Nodes /\ ToSet(sccs[j]) = Class(edges, m)
  <2>1. sccs[j] \in Seq(Nodes)
    BY <1>3, ElementOfSeq
  <2>2. Cardinality(ToSet(sccs[j])) = Len(sccs[j])
    BY <1>1, <2>1, ListCardinality DEF Components
  <2> QED
    BY <1>1, <1>3, <2>1, <2>2, LenProperties DEF Components
<1>5. /\ DOMAIN Cycles = {j \in DOMAIN sccs : Len(sccs[j]) > 1}
      /\ \A k \in DOMAIN Cycles : Cycles[k] = sccs[k]
  BY DEF Cycles
<1>6. ASSUME NEW k \in DOMAIN Cycles PROVE \E m \in Nodes : m \in ToSet(Cycles[k])
  <2>1. 1 \in DOMAIN sccs[k] /\ k \in DOMAIN sccs /\ Cycles[k] = sccs[k]
    BY <1>4, <1>5
  <2>2. sccs[k][1] \in ToSet(sccs[k])
    BY <2>1 DEF ToSet
  <2> QED
    BY <1>4, <2>1, <2>2
<1>7. ASSUME NEW k \in DOMAIN Cycles PROVE ToSet(Cycles[k]) \in CyclesOf(edges)
  <2>1. PICK m \in Nodes : m \in ToSet(Cycles[k])
    BY <1>6
  <2>2. ToSet(Cycles[k]) = Class(edges, m) /\ Cardinality(ToSet(Cycles[k])) > 1
    BY <1>4, <1>5, <2>1
  <2> QED
    BY <2>2 DEF CyclesOf
<1>8. ASSUME NEW K \in CyclesOf(edges) PROVE \E k \in DOMAIN Cycles : ToSet(Cycles[k]) = K
  <2>1. PICK m \in Nodes : K = Class(edges, m) /\ Cardinality(K) > 1
    BY DEF CyclesOf
  <2>2. PICK j \in DOMAIN sccs : m \in ToSet(sccs[j])
    BY <1>3
  <2>3. ToSet(sccs[j]) = K /\ Len(sccs[j]) > 1
    BY <1>4, <2>1, <2>2
  <2> QED
    BY <1>5, <2>3
<1>9. ASSUME NEW j \in DOMAIN Cycles, NEW k \in DOMAIN Cycles, ToSet(Cycles[j]) = ToSet(Cycles[k])
      PROVE  j = k
  BY <1>1, <1>5, <1>6, <1>9 DEF Components
<1> QED
  BY <1>7, <1>8, <1>9

\* detect_cycles returns the cycles of more than one step, each once, whatever
\* the graph and the order in which the search meets its nodes and edges.
THEOREM CyclesAreExact == CreateSpec => []CyclesExact
<1>1. SInv => CyclesExact
  BY FoundExactly DEF CyclesExact
<1> QED
  BY <1>1, SearchInvariant, PTL

\* create_flow_from_steps, with the search it calls, is FlowGenerator: every
\* step is one of FlowGenerator's or leaves what it sees alone.
THEOREM CreateRefines == CreateSpec => ImplementsGenerator
<1>1. SInv /\ [CreateNext]_<<vars, searching>> => [Next]_vars
  <2> SUFFICES ASSUME SInv, [CreateNext]_<<vars, searching>> PROVE [Next]_vars
    OBVIOUS
  <2>1. CASE DetectCycles
    <3>1. UNCHANGED edges
      BY <2>1 DEF DetectCycles, SearchStep, Root, Descend, Examine, Close, Call
    <3> QED
      BY <2>1, <3>1 DEF DetectCycles, generating, vars
  <2>2. CASE CheckFound
    <3>1. {ToSet(Cycles[k]) : k \in DOMAIN Cycles} = CyclesOf(edges)
      BY <2>2, FoundExactly DEF CheckFound
    <3> QED
      BY <2>2, <3>1 DEF CheckFound, CheckCycles, Next
  <2>3. CASE MakeFlow
    BY <2>3 DEF MakeFlow, Next
  <2>4. CASE UNCHANGED <<vars, searching>>
    BY <2>4
  <2> QED
    BY <2>1, <2>2, <2>3, <2>4 DEF CreateNext
<1> QED
  BY <1>1, SearchInvariant, PTL DEF CreateSpec, ImplementsGenerator

\* What is proved of FlowGenerator holds of the implementation.
LEMMA CreateIsGenerator == CreateSpec => Spec
<1>1. CreateInit => Init
  BY DEF CreateInit
<1> QED
  BY <1>1, CreateRefines, PTL DEF CreateSpec, Spec, ImplementsGenerator

\* Types of the flow and of the search: a low link is never above the index.
THEOREM CreateTypes == CreateSpec => []TypesOK
<1>1. SInv => SearchTypeOK
  <2> SUFFICES ASSUME SInv PROVE SearchTypeOK
    OBVIOUS
  <2>1. Shape /\ Components /\ LowSound
    BY DEF SInv
  <2>2. \A n \in Visited : lowlinks[n] \in 0..index[n]
    BY <2>1 DEF Shape, LowSound
  <2> QED
    BY <2>1, <2>2 DEF Shape, Components, SearchTypeOK, OnStack
<1>2. SInv /\ TypeOK => TypesOK
  BY <1>1 DEF TypesOK
<1> QED
  BY <1>2, SearchInvariant, CreateIsGenerator, FlowTypes, PTL
==============================================================================
