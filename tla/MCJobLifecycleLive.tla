------------------------- MODULE MCJobLifecycleLive -------------------------
(***************************************************************************)
(* Two scenarios in one run: one job that two nodes may answer, and two    *)
(* jobs on one node.  The scenario limits what the environment does, never *)
(* a step the fairness is about: a request may always end without a node.  *)
(***************************************************************************)
EXTENDS JobLifecycle

CONSTANTS j1, j2, n1, n2

VARIABLE scenario

OneJobTwoNodes ==
    /\ thread[Request(j2)] = Idle
    /\ deletions = 0 /\ restarts = 0

TwoJobsOneNode ==
    /\ \A j \in Jobs : thread[Request(j)].node # n2
    /\ answers = 0 /\ sessions[n1] = 0 /\ sessions[n2] = 0

ScenarioNext ==
    /\ Next
    /\ (scenario = "one job" => OneJobTwoNodes')
    /\ (scenario = "one node" => TwoJobsOneNode')
    /\ UNCHANGED scenario

ScenarioInit == Init /\ scenario \in {"one job", "one node"}

ScenarioSpec ==
    /\ ScenarioInit
    /\ [][ScenarioNext]_<<vars, scenario>>
    /\ Fairness
=============================================================================
