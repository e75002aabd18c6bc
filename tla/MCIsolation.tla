----------------------------- MODULE MCIsolation -----------------------------
(* Instances of Isolation.                                                   *)
EXTENDS Isolation

Symmetric == Permutations(Session) \cup Permutations(Worker) \cup Permutations(Voice)
                \cup Permutations(Job)
=============================================================================
