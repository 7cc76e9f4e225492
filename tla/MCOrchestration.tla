--------------------------- MODULE MCOrchestration ---------------------------
(***************************************************************************)
(* Small instances of Orchestration for TLC.                               *)
(***************************************************************************)
EXTENDS Orchestration, TLC

CONSTANTS c1, w1, w2

MCSteps == {1, 2}
MCThreeSteps == {1, 2, 3}
MCOne == {1}
MCOneDep == 1 :> {}

\* Step 2 depends on step 1.
MCChain == (1 :> {}) @@ (2 :> {1})
\* Two independent steps that both lead to the third.
MCJoin == (1 :> {}) @@ (2 :> {}) @@ (3 :> {1, 2})
=============================================================================
