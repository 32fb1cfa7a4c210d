--------------------------- MODULE MCJobLifecycle ---------------------------
(***************************************************************************)
(* Small instances of JobLifecycle for TLC.                                *)
(*                                                                         *)
(* ScenarioSpec has three kinds of initial states.  They differ in what    *)
(* the environment may still do: a bound that is used up, a job whose      *)
(* request is over, a node that has registered again or was paid before.   *)
(*   "one job"   everything, for one job                                   *)
(*   "answers"   two jobs and two answers, of an older session too         *)
(*   "crash"     two jobs that nobody answers, a deletion and a crash      *)
(***************************************************************************)
EXTENDS JobLifecycle, TLC

Symmetry == Permutations(Jobs) \cup Permutations(Nodes)

Used(bound, here) == IF here THEN bound ELSE 0

ScenarioInit ==
    \E s \in {"one job", "answers", "crash"} :
        /\ job = [j \in Jobs |-> NoJob]
        /\ activeJobs = [n \in Nodes |-> {}]
        /\ clientId = [n \in Nodes |-> Used(MaxReconnects, s # "one job")]
        /\ sessions = clientId
        /\ \E k \in Jobs : thread = [t \in Threads |->
              IF s = "one job" /\ t = Request(k) THEN [Idle EXCEPT !.pc = "done"] ELSE Idle]
        /\ monitor = [m \in Monitors |-> NoRound]
        /\ queued = {}
        /\ balance = [n \in Nodes |-> Used(MaxAnswers, s = "crash")]
        /\ answers = Used(MaxAnswers, s = "crash")
        /\ deletions = Used(MaxDeletions, s = "answers")
        /\ pings = Used(MaxPings, s # "one job")
        /\ restarts = Used(MaxRestarts, s = "answers")

ScenarioSpec == ScenarioInit /\ [][Next]_vars
=============================================================================
