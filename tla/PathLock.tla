------------------------------ MODULE PathLock ------------------------------
(***************************************************************************)
(* What the rest of myfs relies on when it says "the caller holds the path *)
(* lock": at any time a logical path has at most one owner, and a thread   *)
(* that asks for a path gets it only while nobody else has it.  LockTable  *)
(* implements this with reference-counted mutexes allocated on demand.     *)
(***************************************************************************)

CONSTANTS Threads, Paths, NoThread

VARIABLE owner   \* owner[p]: the thread inside the critical section of p

Init == owner = [p \in Paths |-> NoThread]

Acquire(t, p) ==
    /\ owner[p] = NoThread
    /\ owner' = [owner EXCEPT ![p] = t]

Release(t, p) ==
    /\ owner[p] = t
    /\ owner' = [owner EXCEPT ![p] = NoThread]

Next == \E t \in Threads, p \in Paths : Acquire(t, p) \/ Release(t, p)

Spec == Init /\ [][Next]_owner
=============================================================================
