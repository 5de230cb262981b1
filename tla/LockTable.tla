----------------------------- MODULE LockTable ------------------------------
(***************************************************************************)
(* The per-path lock table of src/core/lock.c.                             *)
(*                                                                         *)
(* One mutex per logical path, allocated on demand and freed when its last *)
(* owner, waiter or unlocker drops its reference.  An entry is a heap cell *)
(* of Entries: it can be freed and handed out again for another path, so a *)
(* thread that keeps a pointer too long is visible in the model.  A bucket *)
(* list is the set of linked entries of its shard; list order plays no     *)
(* role because a path has at most one entry (OneEntryPerPath).            *)
(*                                                                         *)
(* A thread runs myfs_lock_file, its critical section and myfs_unlock_file *)
(* step by step:                                                           *)
(*                                                                         *)
(*   idle -> enter -> lookup -> found -> wait -> held                      *)
(*                                    -> drop -> unref -> reclaim -> idle  *)
(*                                                                         *)
(* At lookup, found and unref the thread is inside a shard mutex.          *)
(***************************************************************************)
EXTENDS Naturals, FiniteSets

CONSTANTS Threads,    \* FUSE callback threads and the compaction worker
          Paths,      \* logical paths
          Shards,     \* the shards of the table
          Entries,    \* heap cells for struct myfs_file_lock
          ShardOf,    \* the shard index a path hashes to
          MaxRefs,    \* UINT_MAX, the largest reference count
          MaxLeaks,   \* bound: references lost to a failing shard mutex
          NoThread, NoEntry

ASSUME ConstantsAssumption ==
    /\ IsFiniteSet(Threads)
    /\ ShardOf \in [Paths -> Shards]
    /\ MaxRefs \in Nat \ {0}
    /\ MaxLeaks \in Nat
    /\ NoThread \notin Threads
    /\ NoEntry \notin Entries

VARIABLES shardMu,    \* owner of each shard mutex
          allocated,  \* entries obtained from calloc and not yet freed
          linked,     \* entries reachable from a bucket
          epath,      \* entry->path
          refs,       \* entry->refs
          mu,         \* owner of entry->mu
          pc, want, ent,  \* per thread: control point, path argument, entry pointer
          leaked      \* references nobody will drop any more

vars == <<shardMu, allocated, linked, epath, refs, mu, pc, want, ent, leaked>>

PCs == {"idle", "enter", "lookup", "found", "wait", "held", "drop", "unref", "reclaim"}

\* The control points at which a thread's reference is counted in refs.
Referencing == {"wait", "held", "drop", "unref"}

Users(e) == {t \in Threads : pc[t] \in Referencing /\ ent[t] = e}

(***************************************************************************)
(* The only typing statement of this module.                               *)
(***************************************************************************)
TypeOK ==
    /\ shardMu \in [Shards -> Threads \cup {NoThread}]
    /\ allocated \subseteq Entries
    /\ linked \subseteq Entries
    /\ epath \in [Entries -> Paths]
    /\ refs \in [Entries -> Nat]
    /\ mu \in [Entries -> Threads \cup {NoThread}]
    /\ pc \in [Threads -> PCs]
    /\ want \in [Threads -> Paths]
    /\ ent \in [Threads -> Entries \cup {NoEntry}]
    /\ leaked \in [Entries -> Nat]

Init ==
    /\ shardMu = [s \in Shards |-> NoThread]
    /\ allocated = {}
    /\ linked = {}
    /\ epath \in [Entries -> Paths]
    /\ refs = [e \in Entries |-> 0]
    /\ mu = [e \in Entries |-> NoThread]
    /\ pc = [t \in Threads |-> "idle"]
    /\ want \in [Threads -> Paths]
    /\ ent = [t \in Threads |-> NoEntry]
    /\ leaked = [e \in Entries |-> 0]

(***************************************************************************)
(* myfs_lock_file                                                          *)
(***************************************************************************)
Call(t, p) ==
    /\ pc[t] = "idle"
    /\ pc' = [pc EXCEPT ![t] = "enter"]
    /\ want' = [want EXCEPT ![t] = p]
    /\ UNCHANGED <<shardMu, allocated, linked, epath, refs, mu, ent, leaked>>

\* pthread_mutex_lock(&shard->mu), on entry and again in
\* release_entry_reference.
LockShard(t, from, to) ==
    LET s == ShardOf[want[t]] IN
    /\ pc[t] = from
    /\ shardMu[s] = NoThread
    /\ shardMu' = [shardMu EXCEPT ![s] = t]
    /\ pc' = [pc EXCEPT ![t] = to]
    /\ UNCHANGED <<allocated, linked, epath, refs, mu, want, ent, leaked>>

UnlockShard(t) == shardMu' = [shardMu EXCEPT ![ShardOf[want[t]]] = NoThread]

EnterShard(t) == LockShard(t, "enter", "lookup")

\* The shard mutex cannot be taken: myfs_lock_file returns NULL.
EnterFails(t) ==
    /\ pc[t] = "enter"
    /\ pc' = [pc EXCEPT ![t] = "idle"]
    /\ UNCHANGED <<shardMu, allocated, linked, epath, refs, mu, want, ent, leaked>>

\* Entries of a path, as find_entry meets them in the bucket.
Matching(p) == {e \in linked : epath[e] = p}

\* Defect: find_entry overlooks the entries that somebody owns.
FindUnowned(t) ==
    LET free == {e \in Matching(want[t]) : mu[e] = NoThread} IN
    /\ pc[t] = "lookup"
    /\ \/ free = {} /\ UNCHANGED ent
       \/ \E e \in free : ent' = [ent EXCEPT ![t] = e]
    /\ pc' = [pc EXCEPT ![t] = "found"]
    /\ UNCHANGED <<shardMu, allocated, linked, epath, refs, mu, want, leaked>>

\* find_entry, under the shard mutex.
Find(t) ==
    /\ pc[t] = "lookup"
    /\ \/ Matching(want[t]) = {} /\ UNCHANGED ent
       \/ \E e \in Matching(want[t]) : ent' = [ent EXCEPT ![t] = e]
    /\ pc' = [pc EXCEPT ![t] = "found"]
    /\ UNCHANGED <<shardMu, allocated, linked, epath, refs, mu, want, leaked>>

\* Defect: a second thread uses the entry without counting itself.
RefFoundUncounted(t) ==
    /\ pc[t] = "found"
    /\ ent[t] # NoEntry
    /\ pc' = [pc EXCEPT ![t] = "wait"]
    /\ UnlockShard(t)
    /\ UNCHANGED <<allocated, linked, epath, refs, mu, want, ent, leaked>>

\* Defect: the shard mutex is still held while waiting for the path mutex.
RefFoundHoldingShard(t) ==
    /\ pc[t] = "found"
    /\ ent[t] # NoEntry
    /\ refs[ent[t]] # MaxRefs
    /\ refs' = [refs EXCEPT ![ent[t]] = @ + 1]
    /\ pc' = [pc EXCEPT ![t] = "wait"]
    /\ UNCHANGED <<shardMu, allocated, linked, epath, mu, want, ent, leaked>>

\* The entry exists and its count is below UINT_MAX: take a reference.
RefFound(t) ==
    /\ pc[t] = "found"
    /\ ent[t] # NoEntry
    /\ refs[ent[t]] # MaxRefs
    /\ refs' = [refs EXCEPT ![ent[t]] = @ + 1]
    /\ pc' = [pc EXCEPT ![t] = "wait"]
    /\ UnlockShard(t)
    /\ UNCHANGED <<allocated, linked, epath, mu, want, ent, leaked>>

\* The count is at UINT_MAX: unlock the shard and return NULL.
RefsFull(t) ==
    /\ pc[t] = "found"
    /\ ent[t] # NoEntry
    /\ refs[ent[t]] = MaxRefs
    /\ ent' = [ent EXCEPT ![t] = NoEntry]
    /\ pc' = [pc EXCEPT ![t] = "idle"]
    /\ UnlockShard(t)
    /\ UNCHANGED <<allocated, linked, epath, refs, mu, want, leaked>>

\* No entry: calloc one, initialise it and link it at the bucket head.
InsertNew(t) ==
    /\ pc[t] = "found"
    /\ ent[t] = NoEntry
    /\ \E e \in Entries \ allocated :
        /\ allocated' = allocated \cup {e}
        /\ linked' = linked \cup {e}
        /\ epath' = [epath EXCEPT ![e] = want[t]]
        /\ refs' = [refs EXCEPT ![e] = 1]
        /\ mu' = [mu EXCEPT ![e] = NoThread]
        /\ ent' = [ent EXCEPT ![t] = e]
        /\ leaked' = [leaked EXCEPT ![e] = 0]
    /\ pc' = [pc EXCEPT ![t] = "wait"]
    /\ UnlockShard(t)
    /\ UNCHANGED want

\* calloc or pthread_mutex_init failed: unlock the shard and return NULL.
AllocFails(t) ==
    /\ pc[t] = "found"
    /\ ent[t] = NoEntry
    /\ pc' = [pc EXCEPT ![t] = "idle"]
    /\ UnlockShard(t)
    /\ UNCHANGED <<allocated, linked, epath, refs, mu, want, ent, leaked>>

\* Defect: the path mutex is not waited for.
AcquireBarging(t) ==
    /\ pc[t] = "wait"
    /\ mu' = [mu EXCEPT ![ent[t]] = t]
    /\ pc' = [pc EXCEPT ![t] = "held"]
    /\ UNCHANGED <<shardMu, allocated, linked, epath, refs, want, ent, leaked>>

\* pthread_mutex_lock(&entry->mu) returns: the caller owns the path.
Acquire(t) ==
    /\ pc[t] = "wait"
    /\ mu[ent[t]] = NoThread
    /\ mu' = [mu EXCEPT ![ent[t]] = t]
    /\ pc' = [pc EXCEPT ![t] = "held"]
    /\ UNCHANGED <<shardMu, allocated, linked, epath, refs, want, ent, leaked>>

\* It fails instead: the reference is dropped and the caller gets NULL.
AcquireFails(t) ==
    /\ pc[t] = "wait"
    /\ pc' = [pc EXCEPT ![t] = "drop"]
    /\ UNCHANGED <<shardMu, allocated, linked, epath, refs, mu, want, ent, leaked>>

(***************************************************************************)
(* myfs_unlock_file and release_entry_reference                            *)
(***************************************************************************)
Unlock(t) ==
    /\ pc[t] = "held"
    /\ mu' = [mu EXCEPT ![ent[t]] = NoThread]
    /\ pc' = [pc EXCEPT ![t] = "drop"]
    /\ UNCHANGED <<shardMu, allocated, linked, epath, refs, want, ent, leaked>>

DropShard(t) == LockShard(t, "drop", "unref")

\* The shard mutex cannot be taken: the function returns and the reference
\* stays counted for ever.
DropFails(t) ==
    /\ pc[t] = "drop"
    /\ leaked[ent[t]] < MaxLeaks
    /\ leaked' = [leaked EXCEPT ![ent[t]] = @ + 1]
    /\ pc' = [pc EXCEPT ![t] = "idle"]
    /\ ent' = [ent EXCEPT ![t] = NoEntry]
    /\ UNCHANGED <<shardMu, allocated, linked, epath, refs, mu, want>>

\* Defect: the entry is unlinked when one reference remains.
UnrefEarly(t) ==
    LET e == ent[t] IN
    /\ pc[t] = "unref"
    /\ refs' = [refs EXCEPT ![e] = @ - 1]
    /\ IF refs[e] <= 2
       THEN /\ linked' = linked \ {e}
            /\ pc' = [pc EXCEPT ![t] = "reclaim"]
            /\ UNCHANGED ent
       ELSE /\ pc' = [pc EXCEPT ![t] = "idle"]
            /\ ent' = [ent EXCEPT ![t] = NoEntry]
            /\ UNCHANGED linked
    /\ UnlockShard(t)
    /\ UNCHANGED <<allocated, epath, mu, want, leaked>>

\* Defect: the count is dropped twice, by the unlocker and again when the
\* last reference goes.
UnrefTwice(t) ==
    LET e == ent[t] IN
    /\ pc[t] = "unref"
    /\ refs' = [refs EXCEPT ![e] = @ - 2]
    /\ pc' = [pc EXCEPT ![t] = "idle"]
    /\ ent' = [ent EXCEPT ![t] = NoEntry]
    /\ UnlockShard(t)
    /\ UNCHANGED <<allocated, linked, epath, mu, want, leaked>>

\* Defect: the last reference does not reclaim the entry.
UnrefKeep(t) ==
    LET e == ent[t] IN
    /\ pc[t] = "unref"
    /\ refs' = [refs EXCEPT ![e] = @ - 1]
    /\ pc' = [pc EXCEPT ![t] = "idle"]
    /\ ent' = [ent EXCEPT ![t] = NoEntry]
    /\ UnlockShard(t)
    /\ UNCHANGED <<allocated, linked, epath, mu, want, leaked>>

\* refs-- under the shard mutex (the code's test refs > 0 always holds, see
\* RefsCountUsers); the last reference unlinks the entry.
Unref(t) ==
    LET e == ent[t] IN
    /\ pc[t] = "unref"
    /\ refs[e] > 0
    /\ refs' = [refs EXCEPT ![e] = @ - 1]
    /\ IF refs[e] = 1
       THEN /\ linked' = linked \ {e}
            /\ pc' = [pc EXCEPT ![t] = "reclaim"]
            /\ UNCHANGED ent
       ELSE /\ pc' = [pc EXCEPT ![t] = "idle"]
            /\ ent' = [ent EXCEPT ![t] = NoEntry]
            /\ UNCHANGED linked
    /\ UnlockShard(t)
    /\ UNCHANGED <<allocated, epath, mu, want, leaked>>

\* pthread_mutex_destroy and free, outside the shard mutex.
Reclaim(t) ==
    /\ pc[t] = "reclaim"
    /\ allocated' = allocated \ {ent[t]}
    /\ pc' = [pc EXCEPT ![t] = "idle"]
    /\ ent' = [ent EXCEPT ![t] = NoEntry]
    /\ UNCHANGED <<shardMu, linked, epath, refs, mu, want, leaked>>

(***************************************************************************)
(* destroy_lock_table: only valid after all users have quiesced, which     *)
(* myfs_destroy guarantees (FUSE loop over, worker joined).  It detaches   *)
(* and frees whatever is still linked; the table can be used again.        *)
(***************************************************************************)
Quiesced == \A t \in Threads : pc[t] = "idle"

DestroyTable ==
    /\ Quiesced
    /\ linked # {}
    /\ linked' = {}
    /\ allocated' = allocated \ linked
    /\ UNCHANGED <<shardMu, epath, refs, mu, pc, want, ent, leaked>>

ThreadStep(t) ==
    \/ EnterShard(t) \/ Find(t) \/ RefFound(t) \/ RefsFull(t) \/ InsertNew(t)
    \/ Acquire(t) \/ Unlock(t) \/ DropShard(t) \/ Unref(t) \/ Reclaim(t)

FaultStep(t) == EnterFails(t) \/ AllocFails(t) \/ AcquireFails(t) \/ DropFails(t)

Next ==
    \/ \E t \in Threads :
          ThreadStep(t) \/ FaultStep(t) \/ \E p \in Paths : Call(t, p)
    \/ DestroyTable

Spec == Init /\ [][Next]_vars

(***************************************************************************)
(* A thread that is inside the lock code or holds a path keeps running:    *)
(* every callback of myfs releases its path lock, and a free mutex is      *)
(* granted to one of the threads that wait for it (no stronger fairness is *)
(* assumed of pthread mutexes).  Failures are never forced.                *)
(***************************************************************************)
FairSpec == Spec /\ \A t \in Threads : WF_vars(ThreadStep(t))

-----------------------------------------------------------------------------
(***************************************************************************)
(* Two threads never hold the same path: myfs_lock_file returned an entry  *)
(* to both only if one of them has unlocked it since (lock.c:203-270).     *)
(***************************************************************************)
MutualExclusion ==
    \A t, u \in Threads :
        pc[t] = "held" /\ pc[u] = "held" /\ want[t] = want[u] => t = u

(***************************************************************************)
(* A thread that has an entry pointer and still counts as a reference sees *)
(* a live, linked entry of its own path; the entry a thread is about to    *)
(* free is unlinked and nobody else points to it.  This is what the        *)
(* reference count is for (lock.c:178-201): no unlocker or waiter touches  *)
(* freed or recycled memory.                                               *)
(***************************************************************************)
NoUseAfterFree ==
    /\ \A t \in Threads : pc[t] \in Referencing =>
          /\ ent[t] \in allocated \cap linked
          /\ epath[ent[t]] = want[t]
    /\ \A t \in Threads : pc[t] = "reclaim" =>
          /\ ent[t] \in allocated \ linked
          /\ Users(ent[t]) = {}
          /\ \A u \in Threads : pc[u] = "reclaim" /\ ent[u] = ent[t] => u = t

(***************************************************************************)
(* A path has at most one entry in the table, so all its threads meet at   *)
(* the same mutex, also while an old entry is being freed.                 *)
(***************************************************************************)
OneEntryPerPath ==
    /\ linked \subseteq allocated
    /\ \A d, e \in linked : epath[d] = epath[e] => d = e

(***************************************************************************)
(* refs counts exactly the owners, waiters and unlockers of the entry, and *)
(* the references lost to a shard mutex that could not be taken; it never  *)
(* passes UINT_MAX.                                                        *)
(***************************************************************************)
RefsCountUsers ==
    \A e \in linked :
        /\ refs[e] = Cardinality(Users(e)) + leaked[e]
        /\ refs[e] \in 1 .. MaxRefs

(***************************************************************************)
(* Once every thread has left the lock code the table is empty again,      *)
(* apart from entries with a lost reference: entries do not outlive their  *)
(* last user (the promise of lock.c:10-11).                                *)
(***************************************************************************)
ReclaimedWhenUnused ==
    Quiesced => \A e \in Entries :
        /\ e \in linked => leaked[e] > 0
        /\ e \in allocated => e \in linked

(***************************************************************************)
(* The rest of the inductive argument.  A thread inside a shard section    *)
(* owns that shard's mutex; what find_entry returned stays true until the  *)
(* shard is unlocked; a path mutex is owned exactly by the thread that is  *)
(* in the critical section of its entry.                                   *)
(***************************************************************************)
InShard == {"lookup", "found", "unref"}

ShardOwned == \A t \in Threads : pc[t] \in InShard => shardMu[ShardOf[want[t]]] = t

LookupStable ==
    \A t \in Threads : pc[t] = "found" =>
        /\ ent[t] = NoEntry => Matching(want[t]) = {}
        /\ ent[t] # NoEntry => ent[t] \in Matching(want[t])

NoPointer ==
    \A t \in Threads : pc[t] \in {"idle", "enter", "lookup"} => ent[t] = NoEntry

MutexOwner ==
    \A e \in Entries, t \in Threads :
        mu[e] = t <=> pc[t] = "held" /\ ent[t] = e

AllocatedUsed ==
    \A e \in allocated \ linked : \E t \in Threads : pc[t] = "reclaim" /\ ent[t] = e

(***************************************************************************)
(* The inductive invariant of the lock table: every safety property above  *)
(* together with the facts they need to be preserved by each step of       *)
(* myfs_lock_file and myfs_unlock_file.                                    *)
(***************************************************************************)
IndInv ==
    /\ TypeOK
    /\ NoUseAfterFree /\ OneEntryPerPath /\ RefsCountUsers
    /\ ShardOwned /\ LookupStable /\ NoPointer /\ MutexOwner /\ AllocatedUsed

Waiting(p) == \E t \in Threads : pc[t] \in {"enter", "lookup", "found", "wait"} /\ want[t] = p

Granted(p) == \E t \in Threads : pc[t] = "held" /\ want[t] = p

FaultsStop == <>[][\A t \in Threads : ~FaultStep(t)]_vars

(***************************************************************************)
(* Nobody waits on everybody: once calloc and the mutex calls stop         *)
(* failing, a path that threads wait for is granted to one of them or they *)
(* have all left.  Violated if a shard mutex were held while waiting for a *)
(* path mutex (lock.c:13-14).                                              *)
(***************************************************************************)
WaitersProgress ==
    FaultsStop => \A p \in Paths : Waiting(p) ~> (Granted(p) \/ ~Waiting(p))

Holder(p) == {t \in Threads : pc[t] = "held" /\ want[t] = p}

OwnerOf(p) == IF Holder(p) = {} THEN NoThread ELSE CHOOSE t \in Holder(p) : TRUE

Abstract == INSTANCE PathLock WITH owner <- [p \in Paths |-> OwnerOf(p)]

(***************************************************************************)
(* LockTable implements PathLock: the owner of a path is the thread whose  *)
(* myfs_lock_file has returned and whose myfs_unlock_file has not yet      *)
(* unlocked the mutex.                                                     *)
(***************************************************************************)
ImplementsPathLock == Abstract!Spec
=============================================================================
