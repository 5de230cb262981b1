-------------------------- MODULE LockTableProofs ---------------------------
(***************************************************************************)
(* Proofs about the lock table for any number of threads, paths, shards    *)
(* and heap cells, any hash function and any UINT_MAX.                     *)
(***************************************************************************)
EXTENDS LockTable, FiniteSetTheorems, TLAPS

-----------------------------------------------------------------------------
(* Counting the users of an entry.                                         *)

\* The users of an entry are finitely many threads.
LEMMA UsersFinite ==
    ASSUME NEW e
    PROVE  IsFiniteSet(Users(e)) /\ Cardinality(Users(e)) \in Nat
<1>1. Users(e) \subseteq Threads
  BY DEF Users
<1>2. IsFiniteSet(Users(e))
  BY <1>1, FS_Subset, ConstantsAssumption
<1>3. QED
  BY <1>2, FS_CardinalityType

\* The same for the state after a step.
LEMMA UsersFinitePrime ==
    ASSUME NEW e
    PROVE  IsFiniteSet(Users(e)') /\ Cardinality(Users(e)') \in Nat
<1>1. Users(e)' \subseteq Threads
  BY DEF Users
<1>2. IsFiniteSet(Users(e)')
  BY <1>1, FS_Subset, ConstantsAssumption
<1>3. QED
  BY <1>2, FS_CardinalityType

\* A thread that joins the users of an entry makes them one more.
LEMMA UsersJoin ==
    ASSUME NEW e, NEW t, t \notin Users(e), Users(e)' = Users(e) \cup {t}
    PROVE  Cardinality(Users(e)') = Cardinality(Users(e)) + 1
  BY UsersFinite, FS_AddElement

\* A thread that leaves the users of an entry makes them one fewer.
LEMMA UsersLeave ==
    ASSUME NEW e, NEW t, t \in Users(e), Users(e)' = Users(e) \ {t}
    PROVE  Cardinality(Users(e)') = Cardinality(Users(e)) - 1
  BY UsersFinite, FS_RemoveElement

\* No users left: the number is zero only for the empty set.
LEMMA UsersNone ==
    ASSUME NEW e
    PROVE  Cardinality(Users(e)') = 0 => Users(e)' = {}
  BY UsersFinitePrime, FS_EmptySet

-----------------------------------------------------------------------------
(* The initial states satisfy the inductive invariant.                     *)
LEMMA InitIndInv == Init => IndInv
<1> SUFFICES ASSUME Init PROVE IndInv
  OBVIOUS
<1>1. TypeOK
  BY ConstantsAssumption DEF Init, TypeOK, PCs
<1>2. NoUseAfterFree /\ OneEntryPerPath /\ RefsCountUsers
  BY DEF Init, NoUseAfterFree, OneEntryPerPath, RefsCountUsers, Referencing
<1>3. ShardOwned /\ LookupStable /\ NoPointer /\ AllocatedUsed
  BY DEF Init, ShardOwned, LookupStable, NoPointer, AllocatedUsed, InShard
<1>4. MutexOwner
  BY ConstantsAssumption DEF Init, MutexOwner
<1>5. QED
  BY <1>1, <1>2, <1>3, <1>4 DEF IndInv

-----------------------------------------------------------------------------
(* Every step preserves the typing.                                        *)
LEMMA TypeStep == TypeOK /\ NoUseAfterFree /\ [Next]_vars => TypeOK'
<1> SUFFICES ASSUME TypeOK, NoUseAfterFree, [Next]_vars PROVE TypeOK'
  OBVIOUS
<1> USE ConstantsAssumption DEF TypeOK, PCs
<1>1. ASSUME NEW t \in Threads, NEW p \in Paths, Call(t, p) PROVE TypeOK'
  BY <1>1 DEF Call
<1>2. ASSUME NEW t \in Threads, EnterShard(t) \/ DropShard(t) PROVE TypeOK'
  BY <1>2 DEF EnterShard, DropShard, LockShard
<1>3. ASSUME NEW t \in Threads, Find(t) PROVE TypeOK'
  BY <1>3 DEF Find, Matching
<1>4. ASSUME NEW t \in Threads, RefFound(t) PROVE TypeOK'
  BY <1>4 DEF RefFound, UnlockShard
<1>5. ASSUME NEW t \in Threads, RefsFull(t) \/ AllocFails(t) PROVE TypeOK'
  BY <1>5 DEF RefsFull, AllocFails, UnlockShard
<1>6. ASSUME NEW t \in Threads, InsertNew(t) PROVE TypeOK'
  BY <1>6 DEF InsertNew, UnlockShard
<1>7. ASSUME NEW t \in Threads, Acquire(t) \/ AcquireFails(t) \/ EnterFails(t) PROVE TypeOK'
  BY <1>7 DEF Acquire, AcquireFails, EnterFails
<1>8. ASSUME NEW t \in Threads, Unlock(t) PROVE TypeOK'
  BY <1>8 DEF Unlock
<1>9. ASSUME NEW t \in Threads, DropFails(t) PROVE TypeOK'
  BY <1>9 DEF DropFails, NoUseAfterFree, Referencing
<1>10. ASSUME NEW t \in Threads, Unref(t) PROVE TypeOK'
  BY <1>10 DEF Unref, UnlockShard, NoUseAfterFree, Referencing
<1>11. ASSUME NEW t \in Threads, Reclaim(t) PROVE TypeOK'
  BY <1>11 DEF Reclaim
<1>12. CASE DestroyTable
  BY <1>12 DEF DestroyTable
<1>13. CASE UNCHANGED vars
  BY <1>13 DEF vars
<1>14. QED
  BY <1>1, <1>2, <1>3, <1>4, <1>5, <1>6, <1>7, <1>8, <1>9, <1>10, <1>11, <1>12, <1>13
  DEF Next, ThreadStep, FaultStep

-----------------------------------------------------------------------------
(* The other parts of the inductive invariant, one lemma per part and one  *)
(* step per action.                                                        *)

\* A shard section is entered only with the shard's mutex and left by giving
\* it up.
LEMMA ShardOwnedStep ==
    ASSUME IndInv, [Next]_vars PROVE ShardOwned'
<1> USE ConstantsAssumption DEF IndInv, TypeOK, PCs, ShardOwned, InShard
<1>1. ASSUME NEW t \in Threads, \E p \in Paths : Call(t, p) PROVE ShardOwned'
  BY <1>1 DEF Call
<1>2. ASSUME NEW t \in Threads, EnterShard(t) PROVE ShardOwned'
  BY <1>2 DEF EnterShard, LockShard
<1>3. ASSUME NEW t \in Threads, EnterFails(t) PROVE ShardOwned'
  BY <1>3 DEF EnterFails
<1>4. ASSUME NEW t \in Threads, Find(t) PROVE ShardOwned'
  BY <1>4 DEF Find, Matching
<1>5. ASSUME NEW t \in Threads, RefFound(t) PROVE ShardOwned'
  BY <1>5 DEF RefFound, UnlockShard
<1>6. ASSUME NEW t \in Threads, RefsFull(t) PROVE ShardOwned'
  BY <1>6 DEF RefsFull, UnlockShard
<1>7. ASSUME NEW t \in Threads, InsertNew(t) PROVE ShardOwned'
  BY <1>7 DEF InsertNew, UnlockShard
<1>8. ASSUME NEW t \in Threads, AllocFails(t) PROVE ShardOwned'
  BY <1>8 DEF AllocFails, UnlockShard
<1>9. ASSUME NEW t \in Threads, Acquire(t) PROVE ShardOwned'
  BY <1>9 DEF Acquire
<1>10. ASSUME NEW t \in Threads, AcquireFails(t) PROVE ShardOwned'
  BY <1>10 DEF AcquireFails
<1>11. ASSUME NEW t \in Threads, Unlock(t) PROVE ShardOwned'
  BY <1>11 DEF Unlock
<1>12. ASSUME NEW t \in Threads, DropShard(t) PROVE ShardOwned'
  BY <1>12 DEF DropShard, LockShard
<1>13. ASSUME NEW t \in Threads, DropFails(t) PROVE ShardOwned'
  BY <1>13 DEF DropFails
<1>14. ASSUME NEW t \in Threads, Unref(t) PROVE ShardOwned'
  BY <1>14 DEF Unref, UnlockShard
<1>15. ASSUME NEW t \in Threads, Reclaim(t) PROVE ShardOwned'
  BY <1>15 DEF Reclaim
<1>16. CASE DestroyTable
  BY <1>16 DEF DestroyTable, Quiesced
<1>17. CASE UNCHANGED vars
  BY <1>17 DEF vars
<1>18. QED
  BY <1>1, <1>2, <1>3, <1>4, <1>5, <1>6, <1>7, <1>8, <1>9, <1>10, <1>11, <1>12, <1>13, <1>14, <1>15, <1>16, <1>17 DEF Next, ThreadStep, FaultStep

\* A thread outside the lock code has no entry pointer.
LEMMA NoPointerStep ==
    ASSUME IndInv, [Next]_vars PROVE NoPointer'
<1> USE ConstantsAssumption DEF IndInv, TypeOK, PCs, NoPointer
<1>1. ASSUME NEW t \in Threads, \E p \in Paths : Call(t, p) PROVE NoPointer'
  BY <1>1 DEF Call
<1>2. ASSUME NEW t \in Threads, EnterShard(t) PROVE NoPointer'
  BY <1>2 DEF EnterShard, LockShard
<1>3. ASSUME NEW t \in Threads, EnterFails(t) PROVE NoPointer'
  BY <1>3 DEF EnterFails
<1>4. ASSUME NEW t \in Threads, Find(t) PROVE NoPointer'
  BY <1>4 DEF Find, Matching
<1>5. ASSUME NEW t \in Threads, RefFound(t) PROVE NoPointer'
  BY <1>5 DEF RefFound, UnlockShard
<1>6. ASSUME NEW t \in Threads, RefsFull(t) PROVE NoPointer'
  BY <1>6 DEF RefsFull, UnlockShard
<1>7. ASSUME NEW t \in Threads, InsertNew(t) PROVE NoPointer'
  BY <1>7 DEF InsertNew, UnlockShard
<1>8. ASSUME NEW t \in Threads, AllocFails(t) PROVE NoPointer'
  BY <1>8 DEF AllocFails, UnlockShard
<1>9. ASSUME NEW t \in Threads, Acquire(t) PROVE NoPointer'
  BY <1>9 DEF Acquire
<1>10. ASSUME NEW t \in Threads, AcquireFails(t) PROVE NoPointer'
  BY <1>10 DEF AcquireFails
<1>11. ASSUME NEW t \in Threads, Unlock(t) PROVE NoPointer'
  BY <1>11 DEF Unlock
<1>12. ASSUME NEW t \in Threads, DropShard(t) PROVE NoPointer'
  BY <1>12 DEF DropShard, LockShard
<1>13. ASSUME NEW t \in Threads, DropFails(t) PROVE NoPointer'
  BY <1>13 DEF DropFails
<1>14. ASSUME NEW t \in Threads, Unref(t) PROVE NoPointer'
  BY <1>14 DEF Unref, UnlockShard
<1>15. ASSUME NEW t \in Threads, Reclaim(t) PROVE NoPointer'
  BY <1>15 DEF Reclaim
<1>16. CASE DestroyTable
  BY <1>16 DEF DestroyTable, Quiesced
<1>17. CASE UNCHANGED vars
  BY <1>17 DEF vars
<1>18. QED
  BY <1>1, <1>2, <1>3, <1>4, <1>5, <1>6, <1>7, <1>8, <1>9, <1>10, <1>11, <1>12, <1>13, <1>14, <1>15, <1>16, <1>17 DEF Next, ThreadStep, FaultStep

\* Owning a path mutex and being in the critical section stay the same thing.
LEMMA MutexOwnerStep ==
    ASSUME IndInv, [Next]_vars PROVE MutexOwner'
<1> USE ConstantsAssumption DEF IndInv, TypeOK, PCs, MutexOwner, NoUseAfterFree, Users, Referencing
<1>1. ASSUME NEW t \in Threads, \E p \in Paths : Call(t, p) PROVE MutexOwner'
  BY <1>1 DEF Call
<1>2. ASSUME NEW t \in Threads, EnterShard(t) PROVE MutexOwner'
  BY <1>2 DEF EnterShard, LockShard
<1>3. ASSUME NEW t \in Threads, EnterFails(t) PROVE MutexOwner'
  BY <1>3 DEF EnterFails
<1>4. ASSUME NEW t \in Threads, Find(t) PROVE MutexOwner'
  BY <1>4 DEF Find, Matching
<1>5. ASSUME NEW t \in Threads, RefFound(t) PROVE MutexOwner'
  BY <1>5 DEF RefFound, UnlockShard
<1>6. ASSUME NEW t \in Threads, RefsFull(t) PROVE MutexOwner'
  BY <1>6 DEF RefsFull, UnlockShard
<1>7. ASSUME NEW t \in Threads, InsertNew(t) PROVE MutexOwner'
  BY <1>7 DEF InsertNew, UnlockShard
<1>8. ASSUME NEW t \in Threads, AllocFails(t) PROVE MutexOwner'
  BY <1>8 DEF AllocFails, UnlockShard
<1>9. ASSUME NEW t \in Threads, Acquire(t) PROVE MutexOwner'
  BY <1>9 DEF Acquire
<1>10. ASSUME NEW t \in Threads, AcquireFails(t) PROVE MutexOwner'
  BY <1>10 DEF AcquireFails
<1>11. ASSUME NEW t \in Threads, Unlock(t) PROVE MutexOwner'
  BY <1>11 DEF Unlock
<1>12. ASSUME NEW t \in Threads, DropShard(t) PROVE MutexOwner'
  BY <1>12 DEF DropShard, LockShard
<1>13. ASSUME NEW t \in Threads, DropFails(t) PROVE MutexOwner'
  BY <1>13 DEF DropFails
<1>14. ASSUME NEW t \in Threads, Unref(t) PROVE MutexOwner'
  BY <1>14 DEF Unref, UnlockShard
<1>15. ASSUME NEW t \in Threads, Reclaim(t) PROVE MutexOwner'
  BY <1>15 DEF Reclaim
<1>16. CASE DestroyTable
  BY <1>16 DEF DestroyTable, Quiesced
<1>17. CASE UNCHANGED vars
  BY <1>17 DEF vars
<1>18. QED
  BY <1>1, <1>2, <1>3, <1>4, <1>5, <1>6, <1>7, <1>8, <1>9, <1>10, <1>11, <1>12, <1>13, <1>14, <1>15, <1>16, <1>17 DEF Next, ThreadStep, FaultStep

\* An entry that has been unlinked is freed by the thread that unlinked it.
LEMMA AllocatedUsedStep ==
    ASSUME IndInv, [Next]_vars PROVE AllocatedUsed'
<1> USE ConstantsAssumption DEF IndInv, TypeOK, PCs, AllocatedUsed, OneEntryPerPath, NoUseAfterFree, Users, Referencing
<1>1. ASSUME NEW t \in Threads, \E p \in Paths : Call(t, p) PROVE AllocatedUsed'
  BY <1>1 DEF Call
<1>2. ASSUME NEW t \in Threads, EnterShard(t) PROVE AllocatedUsed'
  BY <1>2 DEF EnterShard, LockShard
<1>3. ASSUME NEW t \in Threads, EnterFails(t) PROVE AllocatedUsed'
  BY <1>3 DEF EnterFails
<1>4. ASSUME NEW t \in Threads, Find(t) PROVE AllocatedUsed'
  BY <1>4 DEF Find, Matching
<1>5. ASSUME NEW t \in Threads, RefFound(t) PROVE AllocatedUsed'
  BY <1>5 DEF RefFound, UnlockShard
<1>6. ASSUME NEW t \in Threads, RefsFull(t) PROVE AllocatedUsed'
  BY <1>6 DEF RefsFull, UnlockShard
<1>7. ASSUME NEW t \in Threads, InsertNew(t) PROVE AllocatedUsed'
  BY <1>7 DEF InsertNew, UnlockShard
<1>8. ASSUME NEW t \in Threads, AllocFails(t) PROVE AllocatedUsed'
  BY <1>8 DEF AllocFails, UnlockShard
<1>9. ASSUME NEW t \in Threads, Acquire(t) PROVE AllocatedUsed'
  BY <1>9 DEF Acquire
<1>10. ASSUME NEW t \in Threads, AcquireFails(t) PROVE AllocatedUsed'
  BY <1>10 DEF AcquireFails
<1>11. ASSUME NEW t \in Threads, Unlock(t) PROVE AllocatedUsed'
  BY <1>11 DEF Unlock
<1>12. ASSUME NEW t \in Threads, DropShard(t) PROVE AllocatedUsed'
  BY <1>12 DEF DropShard, LockShard
<1>13. ASSUME NEW t \in Threads, DropFails(t) PROVE AllocatedUsed'
  BY <1>13 DEF DropFails
<1>14. ASSUME NEW t \in Threads, Unref(t) PROVE AllocatedUsed'
  BY <1>14 DEF Unref, UnlockShard
<1>15. ASSUME NEW t \in Threads, Reclaim(t) PROVE AllocatedUsed'
  BY <1>15 DEF Reclaim
<1>16. CASE DestroyTable
  BY <1>16 DEF DestroyTable, Quiesced
<1>17. CASE UNCHANGED vars
  BY <1>17 DEF vars
<1>18. QED
  BY <1>1, <1>2, <1>3, <1>4, <1>5, <1>6, <1>7, <1>8, <1>9, <1>10, <1>11, <1>12, <1>13, <1>14, <1>15, <1>16, <1>17 DEF Next, ThreadStep, FaultStep

\* No second entry is linked for a path.
LEMMA OneEntryStep ==
    ASSUME IndInv, [Next]_vars PROVE OneEntryPerPath'
<1> USE ConstantsAssumption DEF IndInv, TypeOK, PCs, OneEntryPerPath, LookupStable, Matching, NoUseAfterFree, Users, Referencing
<1>1. ASSUME NEW t \in Threads, \E p \in Paths : Call(t, p) PROVE OneEntryPerPath'
  BY <1>1 DEF Call
<1>2. ASSUME NEW t \in Threads, EnterShard(t) PROVE OneEntryPerPath'
  BY <1>2 DEF EnterShard, LockShard
<1>3. ASSUME NEW t \in Threads, EnterFails(t) PROVE OneEntryPerPath'
  BY <1>3 DEF EnterFails
<1>4. ASSUME NEW t \in Threads, Find(t) PROVE OneEntryPerPath'
  BY <1>4 DEF Find, Matching
<1>5. ASSUME NEW t \in Threads, RefFound(t) PROVE OneEntryPerPath'
  BY <1>5 DEF RefFound, UnlockShard
<1>6. ASSUME NEW t \in Threads, RefsFull(t) PROVE OneEntryPerPath'
  BY <1>6 DEF RefsFull, UnlockShard
<1>7. ASSUME NEW t \in Threads, InsertNew(t) PROVE OneEntryPerPath'
  BY <1>7 DEF InsertNew, UnlockShard
<1>8. ASSUME NEW t \in Threads, AllocFails(t) PROVE OneEntryPerPath'
  BY <1>8 DEF AllocFails, UnlockShard
<1>9. ASSUME NEW t \in Threads, Acquire(t) PROVE OneEntryPerPath'
  BY <1>9 DEF Acquire
<1>10. ASSUME NEW t \in Threads, AcquireFails(t) PROVE OneEntryPerPath'
  BY <1>10 DEF AcquireFails
<1>11. ASSUME NEW t \in Threads, Unlock(t) PROVE OneEntryPerPath'
  BY <1>11 DEF Unlock
<1>12. ASSUME NEW t \in Threads, DropShard(t) PROVE OneEntryPerPath'
  BY <1>12 DEF DropShard, LockShard
<1>13. ASSUME NEW t \in Threads, DropFails(t) PROVE OneEntryPerPath'
  BY <1>13 DEF DropFails
<1>14. ASSUME NEW t \in Threads, Unref(t) PROVE OneEntryPerPath'
  BY <1>14 DEF Unref, UnlockShard
<1>15. ASSUME NEW t \in Threads, Reclaim(t) PROVE OneEntryPerPath'
  BY <1>15 DEF Reclaim
<1>16. CASE DestroyTable
  BY <1>16 DEF DestroyTable, Quiesced
<1>17. CASE UNCHANGED vars
  BY <1>17 DEF vars
<1>18. QED
  BY <1>1, <1>2, <1>3, <1>4, <1>5, <1>6, <1>7, <1>8, <1>9, <1>10, <1>11, <1>12, <1>13, <1>14, <1>15, <1>16, <1>17 DEF Next, ThreadStep, FaultStep

\* The result of find_entry stays valid: only the owner of the shard mutex
\* links or unlinks entries of the paths of that shard.
LEMMA LookupStableStep ==
    ASSUME IndInv, [Next]_vars PROVE LookupStable'
<1> USE ConstantsAssumption DEF IndInv, TypeOK, PCs, LookupStable, Matching, ShardOwned, InShard, NoUseAfterFree, Referencing
<1>1. ASSUME NEW t \in Threads, \E p \in Paths : Call(t, p) PROVE LookupStable'
  BY <1>1 DEF Call
<1>2. ASSUME NEW t \in Threads, EnterShard(t) PROVE LookupStable'
  BY <1>2 DEF EnterShard, LockShard
<1>3. ASSUME NEW t \in Threads, EnterFails(t) PROVE LookupStable'
  BY <1>3 DEF EnterFails
<1>4. ASSUME NEW t \in Threads, Find(t) PROVE LookupStable'
  BY <1>4 DEF Find, Matching, NoPointer
<1>5. ASSUME NEW t \in Threads, RefFound(t) PROVE LookupStable'
  BY <1>5 DEF RefFound, UnlockShard
<1>6. ASSUME NEW t \in Threads, RefsFull(t) PROVE LookupStable'
  BY <1>6 DEF RefsFull, UnlockShard
<1>7. ASSUME NEW t \in Threads, InsertNew(t) PROVE LookupStable'
  <2>1. PICK e \in Entries \ allocated :
            linked' = linked \cup {e} /\ epath' = [epath EXCEPT ![e] = want[t]]
    BY <1>7 DEF InsertNew
  <2>2. ASSUME NEW u \in Threads, pc'[u] = "found"
        PROVE  /\ pc[u] = "found" /\ u # t
               /\ ent'[u] = ent[u] /\ want'[u] = want[u]
               /\ want[u] # want[t]
    BY <1>7, <2>2 DEF InsertNew
  <2>3. e \notin linked
    BY DEF OneEntryPerPath
  <2>4. QED
    BY <2>1, <2>2, <2>3
<1>8. ASSUME NEW t \in Threads, AllocFails(t) PROVE LookupStable'
  BY <1>8 DEF AllocFails, UnlockShard
<1>9. ASSUME NEW t \in Threads, Acquire(t) PROVE LookupStable'
  BY <1>9 DEF Acquire
<1>10. ASSUME NEW t \in Threads, AcquireFails(t) PROVE LookupStable'
  BY <1>10 DEF AcquireFails
<1>11. ASSUME NEW t \in Threads, Unlock(t) PROVE LookupStable'
  BY <1>11 DEF Unlock
<1>12. ASSUME NEW t \in Threads, DropShard(t) PROVE LookupStable'
  BY <1>12 DEF DropShard, LockShard
<1>13. ASSUME NEW t \in Threads, DropFails(t) PROVE LookupStable'
  BY <1>13 DEF DropFails
<1>14. ASSUME NEW t \in Threads, Unref(t) PROVE LookupStable'
  BY <1>14 DEF Unref, UnlockShard
<1>15. ASSUME NEW t \in Threads, Reclaim(t) PROVE LookupStable'
  BY <1>15 DEF Reclaim
<1>16. CASE DestroyTable
  BY <1>16 DEF DestroyTable, Quiesced
<1>17. CASE UNCHANGED vars
  BY <1>17 DEF vars
<1>18. QED
  BY <1>1, <1>2, <1>3, <1>4, <1>5, <1>6, <1>7, <1>8, <1>9, <1>10, <1>11, <1>12, <1>13, <1>14, <1>15, <1>16, <1>17 DEF Next, ThreadStep, FaultStep

\* The reference count follows the users: a thread is counted in the shard
\* section in which it becomes a user and uncounted in the one in which it
\* stops being one.
LEMMA RefsCountStep ==
    ASSUME IndInv, [Next]_vars PROVE RefsCountUsers'
<1> USE ConstantsAssumption DEF IndInv, TypeOK, PCs, RefsCountUsers, Referencing
<1>a. ASSUME \A e \in Entries : Users(e)' = Users(e),
             UNCHANGED <<refs, leaked>>, linked' \subseteq linked
      PROVE  RefsCountUsers'
  BY <1>a
<1>1. ASSUME NEW t \in Threads, \E p \in Paths : Call(t, p) PROVE RefsCountUsers'
  BY <1>1, <1>a DEF Call, Users
<1>2. ASSUME NEW t \in Threads, EnterShard(t) \/ DropShard(t) PROVE RefsCountUsers'
  BY <1>2, <1>a DEF EnterShard, DropShard, LockShard, Users
<1>3. ASSUME NEW t \in Threads, EnterFails(t) \/ Find(t) PROVE RefsCountUsers'
  BY <1>3, <1>a DEF EnterFails, Find, Users
<1>4. ASSUME NEW t \in Threads, RefsFull(t) \/ AllocFails(t) PROVE RefsCountUsers'
  BY <1>4, <1>a DEF RefsFull, AllocFails, Users
<1>5. ASSUME NEW t \in Threads, Acquire(t) \/ AcquireFails(t) \/ Unlock(t)
      PROVE  RefsCountUsers'
  BY <1>5, <1>a, ZenonT(30) DEF Acquire, AcquireFails, Unlock, Users
<1>6. ASSUME NEW t \in Threads, Reclaim(t) PROVE RefsCountUsers'
  BY <1>6, <1>a DEF Reclaim, Users
<1>7. ASSUME NEW t \in Threads, RefFound(t) PROVE RefsCountUsers'
  <2>0. PICK e \in Entries : e = ent[t]
    BY <1>7 DEF RefFound, LookupStable, Matching
  <2>1. e \in linked /\ t \notin Users(e)
    BY <1>7, <2>0 DEF RefFound, LookupStable, Matching, Users
  <2>2. Users(e)' = Users(e) \cup {t}
    BY <1>7, <2>0 DEF RefFound, Users
  <2>3. \A d \in Entries \ {e} : Users(d)' = Users(d)
    BY <1>7, <2>0 DEF RefFound, Users
  <2>4. Cardinality(Users(e)') = Cardinality(Users(e)) + 1
    BY <2>1, <2>2, UsersJoin
  <2>5. Cardinality(Users(e)) \in Nat
    BY UsersFinite
  <2>6. refs[e] # MaxRefs /\ linked' = linked /\ leaked' = leaked
        /\ refs' = [refs EXCEPT ![e] = @ + 1]
    BY <1>7, <2>0 DEF RefFound
  <2>7. ASSUME NEW d \in linked'
        PROVE  refs'[d] = Cardinality(Users(d)') + leaked'[d] /\ refs'[d] \in 1 .. MaxRefs
    BY <2>1, <2>3, <2>4, <2>5, <2>6, SMTT(30)
  <2>8. QED
    BY <2>7
<1>8. ASSUME NEW t \in Threads, InsertNew(t) PROVE RefsCountUsers'
  <2>1. PICK n \in Entries \ allocated :
            /\ linked' = linked \cup {n} /\ refs' = [refs EXCEPT ![n] = 1]
            /\ ent' = [ent EXCEPT ![t] = n] /\ leaked' = [leaked EXCEPT ![n] = 0]
    BY <1>8 DEF InsertNew
  <2>2. Users(n) = {} /\ n \notin linked
    BY DEF NoUseAfterFree, OneEntryPerPath, Users
  <2>3. Users(n)' = Users(n) \cup {t}
    BY <1>8, <2>1, <2>2 DEF InsertNew, Users
  <2>4. \A e \in Entries \ {n} : Users(e)' = Users(e)
    BY <1>8, <2>1 DEF InsertNew, Users
  <2>5. Cardinality(Users(n)') = 1
    <3>1. Cardinality(Users(n)) = 0
      BY <2>2, FS_EmptySet
    <3>2. t \notin Users(n)
      BY <2>2
    <3>3. Cardinality(Users(n)') = Cardinality(Users(n)) + 1
      BY <3>2, <2>3, UsersJoin
    <3>4. QED
      BY <3>1, <3>3
  <2>6. ASSUME NEW e \in linked'
        PROVE  refs'[e] = Cardinality(Users(e)') + leaked'[e] /\ refs'[e] \in 1 .. MaxRefs
    BY <2>1, <2>2, <2>4, <2>5
  <2>7. QED
    BY <2>6
<1>9. ASSUME NEW t \in Threads, DropFails(t) PROVE RefsCountUsers'
  <2>0. PICK e \in Entries : e = ent[t]
    BY <1>9 DEF DropFails, NoUseAfterFree
  <2>1. e \in linked /\ t \in Users(e)
    BY <1>9, <2>0 DEF DropFails, NoUseAfterFree, Users
  <2>2. Users(e)' = Users(e) \ {t}
    BY <1>9, <2>0, <2>1 DEF DropFails, Users
  <2>3. \A d \in Entries \ {e} : Users(d)' = Users(d)
    BY <1>9, <2>0 DEF DropFails, Users
  <2>4. Cardinality(Users(e)') = Cardinality(Users(e)) - 1
    BY <2>1, <2>2, UsersLeave
  <2>5. Cardinality(Users(e)) \in Nat
    BY UsersFinite
  <2>6. linked' = linked /\ refs' = refs /\ leaked' = [leaked EXCEPT ![e] = @ + 1]
    BY <1>9, <2>0 DEF DropFails
  <2>7. ASSUME NEW d \in linked'
        PROVE  refs'[d] = Cardinality(Users(d)') + leaked'[d] /\ refs'[d] \in 1 .. MaxRefs
    BY <2>1, <2>3, <2>4, <2>5, <2>6
  <2>8. QED
    BY <2>7
<1>10. ASSUME NEW t \in Threads, Unref(t) PROVE RefsCountUsers'
  <2>0. PICK e \in Entries : e = ent[t]
    BY <1>10 DEF Unref, NoUseAfterFree
  <2>1. e \in linked /\ t \in Users(e)
    BY <1>10, <2>0 DEF Unref, NoUseAfterFree, Users
  <2>2. Users(e)' = Users(e) \ {t}
    BY <1>10, <2>0, <2>1 DEF Unref, Users
  <2>3. \A d \in Entries \ {e} : Users(d)' = Users(d)
    BY <1>10, <2>0 DEF Unref, Users
  <2>4. Cardinality(Users(e)') = Cardinality(Users(e)) - 1
    BY <2>1, <2>2, UsersLeave
  <2>5. Cardinality(Users(e)) \in Nat
    BY UsersFinite
  <2>6. /\ leaked' = leaked /\ refs' = [refs EXCEPT ![e] = @ - 1]
        /\ linked' = IF refs[e] = 1 THEN linked \ {e} ELSE linked
    BY <1>10, <2>0 DEF Unref
  <2>7. ASSUME NEW d \in linked'
        PROVE  refs'[d] = Cardinality(Users(d)') + leaked'[d] /\ refs'[d] \in 1 .. MaxRefs
    BY <2>1, <2>3, <2>4, <2>5, <2>6, <2>7
  <2>8. QED
    BY <2>7
<1>11. CASE DestroyTable
  BY <1>11 DEF DestroyTable
<1>12. CASE UNCHANGED vars
  BY <1>12, <1>a DEF vars, Users
<1>13. QED
  BY <1>1, <1>2, <1>3, <1>4, <1>5, <1>6, <1>7, <1>8, <1>9, <1>10, <1>11, <1>12
  DEF Next, ThreadStep, FaultStep

\* Nobody is left with a pointer to an entry that is freed: the count can
\* only reach zero when the set of users becomes empty.
LEMMA NoUseAfterFreeStep ==
    ASSUME IndInv, [Next]_vars PROVE NoUseAfterFree'
<1> USE ConstantsAssumption DEF IndInv, TypeOK, PCs, Referencing, NoUseAfterFree, Users
<1>1. ASSUME NEW t \in Threads, \E p \in Paths : Call(t, p) PROVE NoUseAfterFree'
  BY <1>1 DEF Call
<1>2. ASSUME NEW t \in Threads, EnterShard(t) \/ DropShard(t) PROVE NoUseAfterFree'
  BY <1>2 DEF EnterShard, DropShard, LockShard
<1>3. ASSUME NEW t \in Threads, EnterFails(t) \/ Find(t) PROVE NoUseAfterFree'
  BY <1>3 DEF EnterFails, Find
<1>4. ASSUME NEW t \in Threads, RefsFull(t) \/ AllocFails(t) PROVE NoUseAfterFree'
  BY <1>4 DEF RefsFull, AllocFails
<1>5. ASSUME NEW t \in Threads, Acquire(t) \/ AcquireFails(t) \/ Unlock(t)
      PROVE  NoUseAfterFree'
  BY <1>5 DEF Acquire, AcquireFails, Unlock
<1>6. ASSUME NEW t \in Threads, Reclaim(t) PROVE NoUseAfterFree'
  BY <1>6 DEF Reclaim
<1>7. ASSUME NEW t \in Threads, RefFound(t) PROVE NoUseAfterFree'
  BY <1>7 DEF RefFound, LookupStable, Matching, OneEntryPerPath
<1>8. ASSUME NEW t \in Threads, InsertNew(t) PROVE NoUseAfterFree'
  <2>1. PICK n \in Entries \ allocated :
            /\ allocated' = allocated \cup {n} /\ linked' = linked \cup {n}
            /\ ent' = [ent EXCEPT ![t] = n] /\ epath' = [epath EXCEPT ![n] = want[t]]
    BY <1>8 DEF InsertNew
  <2>2. pc[t] = "found" /\ pc' = [pc EXCEPT ![t] = "wait"] /\ want' = want
    BY <1>8 DEF InsertNew
  <2>3. QED
    BY <2>1, <2>2
<1>9. ASSUME NEW t \in Threads, DropFails(t) PROVE NoUseAfterFree'
  BY <1>9 DEF DropFails
<1>10. ASSUME NEW t \in Threads, Unref(t) PROVE NoUseAfterFree'
  <2>0. PICK e \in Entries : e = ent[t] /\ e \in linked /\ e \in allocated
    BY <1>10 DEF Unref
  <2>1. pc[t] = "unref" /\ UNCHANGED <<allocated, epath, want>>
    BY <1>10 DEF Unref
  <2>2. CASE refs[e] # 1
    BY <1>10, <2>0, <2>2 DEF Unref
  <2>3. CASE refs[e] = 1
    <3>1. /\ linked' = linked \ {e} /\ ent' = ent
          /\ pc' = [pc EXCEPT ![t] = "reclaim"]
      BY <1>10, <2>0, <2>3 DEF Unref
    <3>2. Users(e) = {t}
      <4>1. Cardinality(Users(e)) = 1 \/ Cardinality(Users(e)) = 0
        <5> HIDE DEF Users
        <5>1. Cardinality(Users(e)) \in Nat
          BY UsersFinite
        <5>2. 1 = Cardinality(Users(e)) + leaked[e] /\ leaked[e] \in Nat
          BY <2>0, <2>3 DEF RefsCountUsers
        <5>3. QED
          BY <5>1, <5>2
      <4>2. t \in Users(e)
        BY <2>0, <2>1
      <4>3. IsFiniteSet(Users(e) \ {t})
            /\ Cardinality(Users(e) \ {t}) = Cardinality(Users(e)) - 1
            /\ Cardinality(Users(e) \ {t}) \in Nat
        <5> HIDE DEF Users
        <5>1. IsFiniteSet(Users(e))
          BY UsersFinite
        <5>2. IsFiniteSet(Users(e) \ {t})
              /\ Cardinality(Users(e) \ {t}) = Cardinality(Users(e)) - 1
          BY <5>1, <4>2, FS_RemoveElement
        <5>3. QED
          BY <5>2, FS_CardinalityType
      <4>4. Cardinality(Users(e) \ {t}) = 0
        BY <4>1, <4>3
      <4>5. Users(e) \ {t} = {}
        <5> HIDE DEF Users
        <5>1. QED
          BY <4>3, <4>4, FS_EmptySet
      <4>6. QED
        BY <4>2, <4>5
    <3>3. \A u \in Threads : pc'[u] \in Referencing => u # t /\ pc[u] \in Referencing /\ ent[u] # e
      BY <3>1, <3>2, <2>1
    <3>4. Users(e)' = {}
      BY <3>1, <3>3
    <3>5. \A u \in Threads : pc[u] = "reclaim" => ent[u] # e
      BY <2>0
    <3>6. \A u \in Threads \ {t} : pc'[u] = "reclaim" =>
              pc[u] = "reclaim" /\ ent'[u] = ent[u] /\ Users(ent[u])' = {}
      BY <3>1, <2>1
    <3>7. QED
      BY <3>1, <3>3, <3>4, <3>5, <3>6, <2>0, <2>1
  <2>4. QED
    BY <2>2, <2>3
<1>11. CASE DestroyTable
  BY <1>11 DEF DestroyTable, Quiesced
<1>12. CASE UNCHANGED vars
  BY <1>12 DEF vars
<1>13. QED
  BY <1>1, <1>2, <1>3, <1>4, <1>5, <1>6, <1>7, <1>8, <1>9, <1>10, <1>11, <1>12
  DEF Next, ThreadStep, FaultStep

-----------------------------------------------------------------------------
(* The theorems.                                                           *)

\* IndInv holds in every reachable state.
THEOREM IndInvHolds == Spec => []IndInv
<1>1. IndInv /\ [Next]_vars => IndInv'
  <2> SUFFICES ASSUME IndInv, [Next]_vars PROVE IndInv'
    OBVIOUS
  <2>1. TypeOK'
    BY TypeStep DEF IndInv
  <2>2. NoUseAfterFree' /\ OneEntryPerPath' /\ RefsCountUsers'
    BY NoUseAfterFreeStep, OneEntryStep, RefsCountStep
  <2>3. ShardOwned' /\ LookupStable' /\ NoPointer' /\ MutexOwner' /\ AllocatedUsed'
    BY ShardOwnedStep, LookupStableStep, NoPointerStep, MutexOwnerStep, AllocatedUsedStep
  <2>4. QED
    BY <2>1, <2>2, <2>3 DEF IndInv
<1>2. QED
  BY InitIndInv, <1>1, PTL DEF Spec

\* The state of the table is always well typed: in particular a reference
\* count never drops below zero and no thread dereferences a stray pointer.
THEOREM TypeCorrect == Spec => []TypeOK
  BY IndInvHolds, PTL DEF IndInv

\* Threads that hold the same path are one thread, because both entries are
\* linked entries of that path and such an entry is unique.
LEMMA IndInvMutex == IndInv => MutualExclusion
<1> SUFFICES ASSUME IndInv,
                    NEW t \in Threads, NEW u \in Threads,
                    pc[t] = "held", pc[u] = "held", want[t] = want[u]
             PROVE  t = u
  BY DEF MutualExclusion
<1>1. ent[t] \in linked /\ ent[u] \in linked /\ epath[ent[t]] = epath[ent[u]]
  BY DEF IndInv, NoUseAfterFree, Referencing
<1>2. ent[t] = ent[u] /\ ent[t] \in Entries
  BY <1>1 DEF IndInv, OneEntryPerPath, TypeOK
<1>3. QED
  BY <1>2 DEF IndInv, MutexOwner

\* The path lock excludes: two callbacks are never inside the critical
\* section of one path (lock.c:203-279).
THEOREM Mutex == Spec => []MutualExclusion
  BY IndInvHolds, IndInvMutex, PTL

\* An entry is freed only when no owner, waiter or unlocker points to it.
THEOREM MemorySafe == Spec => []NoUseAfterFree
  BY IndInvHolds, PTL DEF IndInv

\* A path never has two entries, so its threads meet at one mutex.
THEOREM UniqueEntry == Spec => []OneEntryPerPath
  BY IndInvHolds, PTL DEF IndInv

\* The reference count is exact and never passes UINT_MAX.
THEOREM CountExact == Spec => []RefsCountUsers
  BY IndInvHolds, PTL DEF IndInv

\* Entries do not outlive their last user unless a reference was lost.
LEMMA IndInvReclaimed == IndInv => ReclaimedWhenUnused
<1> SUFFICES ASSUME IndInv, Quiesced, NEW e \in Entries
             PROVE  (e \in linked => leaked[e] > 0) /\ (e \in allocated => e \in linked)
  BY DEF ReclaimedWhenUnused
<1>1. Users(e) = {}
  BY DEF Quiesced, Users, Referencing
<1>2. Cardinality(Users(e)) = 0
  BY <1>1, FS_EmptySet
<1>3. e \in linked => leaked[e] > 0
  BY <1>2 DEF IndInv, TypeOK, RefsCountUsers
<1>4. e \in allocated => e \in linked
  BY DEF IndInv, AllocatedUsed, Quiesced
<1>5. QED
  BY <1>3, <1>4

\* The table is empty again, but for lost references, whenever no thread is
\* in the lock code.
THEOREM Reclaimed == Spec => []ReclaimedWhenUnused
  BY IndInvHolds, IndInvReclaimed, PTL

-----------------------------------------------------------------------------
(* LockTable implements PathLock.                                          *)

\* The owner of a path in terms of the threads' control points.
LEMMA OwnerIs ==
    ASSUME IndInv, NEW p \in Paths
    PROVE  /\ \A t \in Holder(p) : OwnerOf(p) = t
           /\ Holder(p) = {} => OwnerOf(p) = NoThread
<1>1. MutualExclusion
  BY IndInvMutex
<1>2. QED
  BY <1>1 DEF MutualExclusion, Holder, OwnerOf

\* The same in the state after a step.
LEMMA OwnerIsPrime ==
    ASSUME IndInv', NEW p \in Paths
    PROVE  /\ \A t \in Holder(p)' : OwnerOf(p)' = t
           /\ Holder(p)' = {} => OwnerOf(p)' = NoThread
<1>1. MutualExclusion'
  BY IndInvMutex, PTL
<1>2. QED
  BY <1>1 DEF MutualExclusion, Holder, OwnerOf

\* A step that does not change the holder of a path does not change its
\* owner.
LEMMA SameHolder ==
    ASSUME IndInv, IndInv', NEW p \in Paths, Holder(p)' = Holder(p)
    PROVE  OwnerOf(p)' = OwnerOf(p)
<1>1. CASE Holder(p) = {}
  BY <1>1, OwnerIs, OwnerIsPrime
<1>2. CASE Holder(p) # {}
  <2>1. PICK t : t \in Holder(p)
    BY <1>2
  <2>2. QED
    BY <2>1, OwnerIs, OwnerIsPrime
<1>3. QED
  BY <1>1, <1>2

\* A step of the lock table is an acquisition, a release or no step at all
\* of PathLock.
LEMMA StepRefines ==
    ASSUME IndInv, IndInv', [Next]_vars
    PROVE  [Abstract!Next]_[p \in Paths |-> OwnerOf(p)]
<1> DEFINE owners == [p \in Paths |-> OwnerOf(p)]
<1> USE DEF IndInv, TypeOK, PCs
<1>0. ASSUME \A p \in Paths : Holder(p)' = Holder(p)
      PROVE  [Abstract!Next]_owners
  BY <1>0, SameHolder
<1>1. ASSUME NEW t \in Threads, \E p \in Paths : Call(t, p)
      PROVE  [Abstract!Next]_owners
  BY <1>1, <1>0 DEF Call, Holder
<1>2. ASSUME NEW t \in Threads, EnterShard(t) \/ DropShard(t)
      PROVE  [Abstract!Next]_owners
  BY <1>2, <1>0 DEF EnterShard, DropShard, LockShard, Holder
<1>3. ASSUME NEW t \in Threads, EnterFails(t) \/ Find(t)
      PROVE  [Abstract!Next]_owners
  BY <1>3, <1>0 DEF EnterFails, Find, Holder
<1>4. ASSUME NEW t \in Threads, RefFound(t) \/ RefsFull(t) \/ AllocFails(t)
      PROVE  [Abstract!Next]_owners
  BY <1>4, <1>0 DEF RefFound, RefsFull, AllocFails, Holder
<1>5. ASSUME NEW t \in Threads, InsertNew(t) PROVE [Abstract!Next]_owners
  BY <1>5, <1>0 DEF InsertNew, Holder
<1>6. ASSUME NEW t \in Threads, AcquireFails(t) \/ DropFails(t)
      PROVE  [Abstract!Next]_owners
  BY <1>6, <1>0 DEF AcquireFails, DropFails, Holder
<1>7. ASSUME NEW t \in Threads, Unref(t) \/ Reclaim(t) PROVE [Abstract!Next]_owners
  BY <1>7, <1>0 DEF Unref, Reclaim, Holder
<1>8. ASSUME NEW t \in Threads, Acquire(t) PROVE [Abstract!Next]_owners
  <2>1. PICK p \in Paths : p = want[t]
    OBVIOUS
  <2>2. Holder(p) = {}
    <3>1. ASSUME NEW u \in Threads, pc[u] = "held", want[u] = p PROVE FALSE
      <4>1. ent[u] = ent[t] /\ ent[u] \in Entries
        BY <1>8, <2>1, <3>1 DEF Acquire, NoUseAfterFree, Referencing, OneEntryPerPath
      <4>2. mu[ent[t]] = u
        BY <3>1, <4>1 DEF MutexOwner
      <4>3. QED
        BY <1>8, <4>2, ConstantsAssumption DEF Acquire
    <3>2. QED
      BY <3>1 DEF Holder
  <2>3. t \in Holder(p)'
    BY <1>8, <2>1 DEF Acquire, Holder
  <2>4. \A q \in Paths \ {p} : Holder(q)' = Holder(q)
    BY <1>8, <2>1 DEF Acquire, Holder
  <2>5. OwnerOf(p) = NoThread /\ OwnerOf(p)' = t
    BY <2>2, <2>3, OwnerIs, OwnerIsPrime
  <2>6. \A q \in Paths \ {p} : OwnerOf(q)' = OwnerOf(q)
    BY <2>4, SameHolder
  <2>7. Abstract!Acquire(t, p)
    BY <2>5, <2>6 DEF Abstract!Acquire
  <2>8. QED
    BY <2>7 DEF Abstract!Next
<1>9. ASSUME NEW t \in Threads, Unlock(t) PROVE [Abstract!Next]_owners
  <2>1. PICK p \in Paths : p = want[t]
    OBVIOUS
  <2>2. t \in Holder(p)
    BY <1>9, <2>1 DEF Unlock, Holder
  <2>3. Holder(p)' = {}
    <3>1. MutualExclusion
      BY IndInvMutex
    <3>2. QED
      BY <1>9, <2>1, <3>1 DEF Unlock, Holder, MutualExclusion
  <2>4. \A q \in Paths \ {p} : Holder(q)' = Holder(q)
    BY <1>9, <2>1 DEF Unlock, Holder
  <2>5. OwnerOf(p) = t /\ OwnerOf(p)' = NoThread
    BY <2>2, <2>3, OwnerIs, OwnerIsPrime
  <2>6. \A q \in Paths \ {p} : OwnerOf(q)' = OwnerOf(q)
    BY <2>4, SameHolder
  <2>7. Abstract!Release(t, p)
    BY <2>5, <2>6 DEF Abstract!Release
  <2>8. QED
    BY <2>7 DEF Abstract!Next
<1>10. CASE DestroyTable
  BY <1>10, <1>0 DEF DestroyTable, Holder
<1>11. CASE UNCHANGED vars
  BY <1>11, <1>0 DEF vars, Holder
<1>12. QED
  BY <1>1, <1>2, <1>3, <1>4, <1>5, <1>6, <1>7, <1>8, <1>9, <1>10, <1>11
  DEF Next, ThreadStep, FaultStep

\* The lock table implements the abstract path lock: what the callers of
\* myfs_lock_file rely on is what the reference-counted entries provide.
THEOREM Refinement == Spec => ImplementsPathLock
<1>1. Init => Abstract!Init
  BY DEF Init, Abstract!Init, OwnerOf, Holder
<1>2. IndInv /\ IndInv' /\ [Next]_vars => [Abstract!Next]_[p \in Paths |-> OwnerOf(p)]
  BY StepRefines
<1>3. QED
  BY <1>1, <1>2, IndInvHolds, PTL DEF Spec, ImplementsPathLock, Abstract!Spec

=============================================================================
