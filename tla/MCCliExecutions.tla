--------------------------- MODULE MCCliExecutions ---------------------------
(* Instances of CliExecutions for TLC.                                     *)
EXTENDS CliExecutions, TLC

CONSTANTS e1, e2, c1, s1

OneExecution  == {e1}
TwoExecutions == {e1, e2}
OneCanceller  == {c1}
OneStream     == {s1}
OneSource     == {"stdout"}
BothSources   == {"stdout", "stderr"}
Nobody        == {}

Symmetry == Permutations({e1, e2})
=============================================================================
