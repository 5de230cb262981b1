---------------------------- MODULE MCLockTable -----------------------------
(* Values of LockTable's hash function for model checking.                 *)
EXTENDS LockTable

CONSTANTS p1, p2, s1

\* Both paths hash to one shard: its mutex is contended across paths.
OneShard == [p \in {p1, p2} |-> s1]

\* A single path.
OnePath == [p \in {p1} |-> s1]
=============================================================================
