----------------------------- MODULE MCModelPool -----------------------------
(* Instances of ModelPool: a model and its variant.                          *)
EXTENDS ModelPool, TLC

CONSTANTS a, a1

MCBase == [k \in Key |-> a]
MCRss  == [k \in Key |-> 1]

Symmetric == Permutations(Client) \cup Permutations(Entry)
=============================================================================
