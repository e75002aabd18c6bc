---------------------------- MODULE JobLifecycle ----------------------------
(***************************************************************************)
(* What the job API promises of a job's status (internal/core, record.go): *)
(* accepted once, started at most once, finished once, and final.  A job   *)
(* cut short right at its start may finish without having been seen running.*)
(***************************************************************************)
CONSTANT Job
VARIABLE status

Final == {"succeeded", "failed", "canceled"}

LifeInit == status = [j \in Job |-> "none"]

(* The moves of one job; several jobs may move in one database statement.  *)
Moves == [none    |-> {"queued"},
          queued  |-> {"running"} \cup Final,
          running |-> Final]

MayBecome(s, t) == s = t \/ (s \notin Final /\ t \in Moves[s])

LifeNext ==
    /\ status' \in [Job -> {"none", "queued", "running"} \cup Final]
    /\ \A j \in Job : MayBecome(status[j], status'[j])

LifeSpec == LifeInit /\ [][LifeNext]_status
=============================================================================
