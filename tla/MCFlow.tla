------------------------------- MODULE MCFlow -------------------------------
(***************************************************************************)
(* The graphs of the runs of FlowGenerator and CreateFlow.                 *)
(***************************************************************************)
EXTENDS CreateFlow

MCNodes == 1..4
MCIds == 0..4
MCOrder == <<1, 2, 3, 4>>

\* All pairs of an entry and a step, step by step, as build_from_steps lists
\* them; 0 is no step run.
AllPairs == [k \in 1..20 |-> <<(k - 1) % 5, 1 + ((k - 1) \div 5)>>]

ListOf(E) == SelectSeq(AllPairs, LAMBDA e : e \in E)
Repeated(l) == l \o SelectSeq(l, LAMBDA e : e[2] = 3)

\* Every graph on four steps without self-dependencies; every graph on the
\* first three of them with self-dependencies and an entry that is no step run,
\* and the same with the entries of step 3 repeated.
MCEdgeLists ==
    LET lists == {ListOf(E) : E \in SUBSET ((1..3) \X (1..3) \cup {<<0, 1>>})}
    IN  {ListOf(E) : E \in SUBSET {e \in (1..4) \X (1..4) : e[1] # e[2]}}
            \cup lists \cup {Repeated(l) : l \in lists}

\* A single chain of twelve steps.
MCLongNodes == 1..12
MCLongIds == 1..12
MCLongOrder == [k \in 1..12 |-> k]
MCChain == {[k \in 1..11 |-> <<k, k + 1>>]}
=============================================================================
