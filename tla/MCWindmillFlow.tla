---------------------------- MODULE MCWindmillFlow ----------------------------
(***************************************************************************)
(* A flow for WindmillFlow's runs: two steps side by side, then a third.   *)
(***************************************************************************)
EXTENDS WindmillFlow, TLC

CONSTANTS flow, branch1, branch2, step1, step2, step3

MCJobs == {flow, branch1, branch2, step1, step2, step3}
MCPlan == flow    :> << {branch1, branch2}, {step3} >>
       @@ branch1 :> << {step1} >>
       @@ branch2 :> << {step2} >>
===============================================================================
