----------------------------- MODULE MCJobQueue ----------------------------
(* Small instances of JobQueue: up to three jobs.  The first is interactive *)
(* and takes two units of disk, the others are batch work of one unit.      *)
EXTENDS JobQueue, TLC

CONSTANTS j1, j2, j3

MCSize == [j \in Job |-> IF j = j1 THEN 2 ELSE 1]
MCPrio == [j \in Job |-> IF j = j1 THEN 10 ELSE 0]

(* Workers are interchangeable; used only where no liveness is checked.    *)
Symmetric == Permutations(Worker)

(* So are the two batch jobs.                                              *)
SymmetricBatch == Permutations({j2, j3})
=============================================================================
