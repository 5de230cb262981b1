---------------------- MODULE GenerationsContentProofs ---------------------
(***************************************************************************)
(* What a logical file holds: the pointer names a complete generation, the *)
(* path leads to everything that was acknowledged, and what is superseded  *)
(* is collected.                                                           *)
(***************************************************************************)
EXTENDS GenerationsProofs

\* No unlink stopped half way, or none of those that leave the removal of the
\* pointer unsynced.
Calm == ~limbo \/ ~TornUnlink

\* A generation that a pointer names, now or after a power loss, is complete,
\* and the collector may not take it before it has synced another pointer.
Kept1(c) ==
    /\ dir.gen[c] = "ready" /\ disk.gen[c] = "ready"
    /\ ~reg.gen[c].unlinked
    /\ reg.gen[c].gc # "none" => reg.gen[c].alias

PointersKept == Calm =>
    /\ dir.cur = None => disk.cur = None
    /\ \A c \in {dir.cur, disk.cur} \ {None} : Kept1(c)

\* The names lead to what was acknowledged.
NameFresh ==
    /\ dir.cur = None /\ dir.data # None => dir.data \in fresh
    /\ dir.cur # None /\ dir.gen[dir.cur] = "ready" => dir.cur \in fresh

\* A handle is on the storage that the path leads to.
Active(h) == IF hs[h].legacy THEN dir.cur = None /\ dir.data = hs[h].data
             ELSE dir.cur = hs[h].data

\* Its writes reach the path, or are refused.
Heir(h) == Active(h) \/ Refused(reg, h)

Latest == ~limbo =>
    /\ NameFresh
    /\ pc = "publish" => job.new \in fresh
    /\ \A h \in Handles : hs[h].open /\ ~hs[h].orphan => Heir(h)

\* A legacy file without a pointer owes no generation its aliases.
NoObligation == ~limbo /\ dir.cur = None => \A g \in Gens : ~reg.gen[g].alias

\* The generation waits for the collection in progress, for a handle of its
\* own, or for one on the legacy pair.
Deferred(g) ==
    /\ reg.gen[g].gc # "none"
    /\ \/ pc = "gc" /\ reg.gen[g].gc = "claimed"
       \/ reg.gen[g].handles # {}
       \/ reg.gen[g].alias /\ (LegacyRefs \/ dir.cur = None)

Accounted ==
    ~fault.since => \A g \in Inactive : \/ pc = "recover" \/ (pc = "publish" /\ g = job.new)
                                        \/ Deferred(g)

NoneClaimed == pc # "gc" => \A g \in Gens : reg.gen[g].gc # "claimed"

ReclaimInv == NoObligation /\ Accounted /\ NoneClaimed

\* What an unlink that stopped half way has left.
Closed == job.op = "unlink" => \A h \in Handles : ~hs[h].open

Protected(i) ==
    /\ i \in Gens /\ dir.gen[i] = "ready"
    /\ reg.gen[i].alias /\ reg.gen[i].gc # "none" /\ ~reg.gen[i].unlinked

HalfUnlinked == limbo /\ ~fault.cut =>
    /\ dir.cur # None => dir.cur \in fresh
    /\ dir.cur = None /\ fresh # {} => \E i \in fresh : dir.data = i \/ Protected(i)

ContentInv == ~UnlinkWhileOpen /\ ~TornUnlink =>
    /\ Closed
    /\ \A h \in Handles : hs[h].open => Heir(h)
    /\ HalfUnlinked

FileInv == StorageInv /\ PointersKept /\ Latest /\ ReclaimInv /\ ContentInv

-----------------------------------------------------------------------------
(* What the steps do, as far as the content of the file is concerned.      *)

\* History: a step that is not the end of the daemon cuts off no unlink.
CutStays == limbo /\ ~fault'.cut => ~fault.cut

\* What a failing call counts.
LEMMA FaultCount ==
    ASSUME StorageInv, fault' = fault \/ Fault
    PROVE  /\ CutStays
           /\ ~fault'.since => fault' = fault /\ ~fault.since
           /\ Fault => fault'.since /\ fault' # fault
<1>1. fault \in Faults
  BY TypedParts DEF StorageInv
<1>2. Fault => fault'.since /\ fault' # fault /\ fault'.cut = (limbo /\ fault.cut)
  BY <1>1, FaultType
<1>3. QED
  BY <1>2 DEF CutStays

\* The legacy records have handles if and only if handles S are open on them.
LEMMA LegacyHandles ==
    ASSUME NEW r \in Registries, NEW S, NEW N, \A h \in Handles : Attached(r, S[h], h, N)
    PROVE  (\E n \in DOMAIN r.leg : r.leg[n].rec.handles # {})
           <=> (\E h \in Handles : S[h].open /\ S[h].legacy)
<1>1. ASSUME NEW n \in DOMAIN r.leg, r.leg[n].rec.handles # {}
      PROVE  \E h \in Handles : S[h].open /\ S[h].legacy
  <2>1. r.leg[n].rec.handles \subseteq Handles
    BY RegistryType DEF Records
  <2>2. PICK h \in Handles : h \in r.leg[n].rec.handles
    BY <1>1, <2>1
  <2>3. QED
    BY <2>2 DEF Attached
<1>2. ASSUME NEW h \in Handles, S[h].open, S[h].legacy
      PROVE  \E n \in DOMAIN r.leg : r.leg[n].rec.handles # {}
  <2>1. PICK n \in DOMAIN r.leg : h \in r.leg[n].rec.handles
    BY <1>2 DEF Attached
  <2>2. QED
    BY <2>1
<1>3. QED
  BY <1>1, <1>2

\* Control goes on without recovery, collection or publication.
Onward ==
    \/ UNCHANGED <<pc, job>>
    \/ /\ pc = "idle" /\ pc' \in {"recover", "body"}
       /\ ~UnlinkWhileOpen /\ job'.op = "unlink" => \A h \in Handles : ~hs[h].open
    \/ /\ pc = "gc" /\ pc' = "idle" /\ job' = NoJob /\ \A g \in Gens : reg.gen[g].gc # "claimed"
    \/ /\ pc = "gc" /\ pc' = "body" /\ job' = job /\ \A g \in Gens : reg.gen[g].gc # "claimed"
    \/ /\ pc = "body" /\ pc' = "idle" /\ job' = NoJob

\* The storage that the path leads to is that of inode i.
Named(i) == IF dir.cur = None THEN i = dir.data ELSE i = dir.cur

\* The newest acknowledged change is on the storage of inode i.
Acknowledges(i) ==
    /\ fresh' = {i} /\ pc' # "publish"
    /\ \/ Named(i)
       \/ \E h \in Handles : /\ hs[h].open /\ ~hs[h].orphan /\ ~Refused(reg, h)
                             /\ i = hs[h].data

\* A step that saves maps and reads them again at most: no name moves.
Steady ==
    /\ dir'.cur = dir.cur /\ dir'.data = dir.data /\ dir'.gen = dir.gen
    /\ \/ disk'.cur = disk.cur /\ disk'.gen = disk.gen
       \/ disk'.cur = dir.cur /\ disk'.gen = dir.gen
    /\ reg' = reg /\ limbo' = limbo
    /\ \A h \in Handles : SameStorage(hs[h], hs'[h]) /\ hs'[h].orphan = hs[h].orphan
    /\ fresh' = fresh \/ \E i : Acknowledges(i)
    /\ fault' = fault \/ Fault
    /\ Onward

\* Nothing but control changes.
LEMMA SteadyControl ==
    ASSUME StorageInv, UNCHANGED <<dir, disk, reg, limbo, fresh, fault>>,
           \A h \in Handles : SameStorage(hs[h], hs'[h]) /\ hs'[h].orphan = hs[h].orphan, Onward
    PROVE  Steady
  BY DEF Steady

\* A map is saved or not, and the operation returns or was none.
LEMMA SteadySave ==
    ASSUME StorageInv, NEW st \in Storages, NEW o, SetIO(o),
           o \in SaveMap(dir, disk, st) \/ o = [dir |-> dir, disk |-> disk, ok |-> TRUE],
           UNCHANGED <<reg, limbo>>, FaultIf(~o.ok) \/ fault' = fault \/ Fault,
           \A h \in Handles : SameStorage(hs[h], hs'[h]) /\ hs'[h].orphan = hs[h].orphan,
           fresh' = fresh \/ \E i : Acknowledges(i),
           Onward
    PROVE  Steady
<1>1. /\ dir'.cur = dir.cur /\ dir'.data = dir.data /\ dir'.gen = dir.gen
      /\ \/ disk'.cur = disk.cur /\ disk'.gen = disk.gen
         \/ disk'.cur = dir.cur /\ disk'.gen = dir.gen
  BY SavedNames
<1>2. fault' = fault \/ Fault
  BY DEF FaultIf
<1>3. QED
  BY <1>1, <1>2 DEF Steady

\* The steps that change control, maps and handles but no name and no record.
LEMMA SteadySteps ==
    ASSUME StorageInv,
           \/ \E op \in {"lookup", "open", "unlink", "compact"} : Begin(op)
           \/ GCDone \/ CompactSkips \/ TruncatePath \/ UNCHANGED vars
           \/ \E trunc \in BOOLEAN : OpenFails(trunc)
           \/ \E h \in Handles : Write(h) \/ WriteFails(h) \/ Refresh(h)
    PROVE  Steady
<1>0. hs \in [Handles -> HandleStates] /\ \A h \in Handles : SameStorage(hs[h], hs[h])
  BY TypedParts DEF StorageInv, SameStorage
<1>1. ASSUME NEW op \in {"lookup", "open", "unlink", "compact"}, Begin(op) PROVE Steady
  <2>1. UNCHANGED <<dir, disk, reg, hs, fresh, limbo, fault>> /\ pc = "idle"
    BY <1>1 DEF Begin
  <2>2. PICK st \in Resolve(dir) :
          /\ op = "unlink" => UnlinkWhileOpen \/ \A h \in Handles : ~hs[h].open
          /\ job' = [NoJob EXCEPT !.op = op, !.st = st]
          /\ pc' \in {"recover", "body"}
    BY <1>1 DEF Begin
  <2>3. job'.op = op
    BY <2>2 DEF NoJob
  <2>4. Onward
    BY <2>1, <2>2, <2>3 DEF Onward
  <2>5. QED
    BY <1>0, <2>1, <2>4, SteadyControl
<1>2. CASE GCDone
  <2>1. UNCHANGED <<dir, disk, reg, hs, fresh, limbo, fault>>
    BY <1>2 DEF GCDone
  <2>2. Onward
    BY <1>2 DEF GCDone, Return, Onward
  <2>3. QED
    BY <1>0, <2>1, <2>2, SteadyControl
<1>3. CASE CompactSkips
  <2>1. UNCHANGED <<dir, disk, reg, hs, fresh, limbo, fault>>
    BY <1>3 DEF CompactSkips
  <2>2. Onward
    BY <1>3 DEF CompactSkips, Return, Onward
  <2>3. QED
    BY <1>0, <2>1, <2>2, SteadyControl
<1>4. CASE TruncatePath
  <2>1. PICK st \in Resolve(dir) : \E o \in SaveMap(dir, disk, st) :
          /\ SetIO(o) /\ hs' = MarkStale(HandlesOf(st))
          /\ fresh' = (IF o.ok THEN {st.ino} ELSE fresh) /\ FaultIf(~o.ok)
    BY <1>4 DEF TruncatePath
  <2>2. PICK o \in SaveMap(dir, disk, st) :
          /\ SetIO(o) /\ hs' = MarkStale(HandlesOf(st))
          /\ fresh' = (IF o.ok THEN {st.ino} ELSE fresh) /\ FaultIf(~o.ok)
    BY <2>1
  <2>3. st \in Storages /\ Named(st.ino)
    <3>1. dir \in Dirs
      BY TypedParts DEF StorageInv
    <3>2. QED
      BY <2>1, <3>1, ResolveType DEF Named
  <2>4. \A h \in Handles : SameStorage(hs[h], hs'[h]) /\ hs'[h].orphan = hs[h].orphan
    BY <1>0, <2>2, StaleType
  <2>5. UNCHANGED <<reg, pc, job, limbo>>
    BY <1>4 DEF TruncatePath
  <2>6. Onward
    BY <2>5 DEF Onward
  <2>7. fresh' = fresh \/ \E i : Acknowledges(i)
    BY <1>4, <2>2, <2>3 DEF Acknowledges, TruncatePath
  <2>8. QED
    BY <2>2, <2>3, <2>4, <2>5, <2>6, <2>7, SteadySave
<1>5. CASE UNCHANGED vars
  <2>1. UNCHANGED <<dir, disk, reg, hs, fresh, limbo, fault>> /\ UNCHANGED <<pc, job>>
    BY <1>5 DEF vars
  <2>2. QED
    BY <1>0, <2>1, SteadyControl DEF Onward
<1>6. ASSUME NEW trunc \in BOOLEAN, OpenFails(trunc) PROVE Steady
  <2>1. PICK o \in Truncated(job.st, trunc) :
          SetIO(o) /\ FaultIf(MetaOf(job.st, o.dir) # None)
    BY <1>6 DEF OpenFails
  <2>2. job.st \in Storages
    BY <1>6, JobStorage DEF StorageInv, Working, OpenFails
  <2>3. o \in SaveMap(dir, disk, job.st) \/ o = [dir |-> dir, disk |-> disk, ok |-> TRUE]
    BY <2>2, TruncatedNames
  <2>4. \A h \in Handles : SameStorage(hs[h], hs'[h]) /\ hs'[h].orphan = hs[h].orphan
    <3>1. PICK H : hs' = MarkStale(H)
      BY <1>6 DEF OpenFails
    <3>2. QED
      BY <1>0, <3>1, StaleType
  <2>5. UNCHANGED <<reg, fresh, limbo>> /\ Onward
    BY <1>6 DEF OpenFails, Return, Onward
  <2>6. fault' = fault \/ Fault
    BY <2>1 DEF FaultIf
  <2>7. QED
    BY <2>1, <2>2, <2>3, <2>4, <2>5, <2>6, SteadySave
<1>7. ASSUME NEW h \in Handles, Write(h) \/ WriteFails(h) PROVE Steady
  <2>1. /\ Rereads(h, hs')
        /\ \E st \in Storages : \E o \in SaveMap(dir, disk, st)
                                         \cup {[dir |-> dir, disk |-> disk, ok |-> TRUE]} :
              SetIO(o)
    BY <1>7, WriteKeeps
  <2>2. PICK st \in Storages : \E o \in SaveMap(dir, disk, st)
                                         \cup {[dir |-> dir, disk |-> disk, ok |-> TRUE]} :
              SetIO(o)
    BY <2>1
  <2>3. PICK o : /\ SetIO(o)
                 /\ o \in SaveMap(dir, disk, st) \/ o = [dir |-> dir, disk |-> disk, ok |-> TRUE]
    BY <2>2
  <2>4. UNCHANGED <<reg, pc, job, limbo>>
    BY <1>7 DEF Write, WriteFails
  <2>5. fault' = fault \/ Fault
    BY <1>7 DEF Write, WriteFails, FaultIf
  <2>6. hs[h].open /\ ~Refused(reg, h)
    BY <1>7 DEF Write, WriteFails, Superseded, Refused
  <2>7. fresh' = fresh \/ (fresh' = {hs[h].data} /\ ~hs[h].orphan)
    BY <1>7 DEF Write, WriteFails
  <2>8. fresh' = fresh \/ \E i : Acknowledges(i)
    BY <1>7, <2>6, <2>7 DEF Acknowledges, Write, WriteFails
  <2>9. \A x \in Handles : SameStorage(hs[x], hs'[x]) /\ hs'[x].orphan = hs[x].orphan
    BY <2>1 DEF Rereads
  <2>10. QED
    BY <2>3, <2>4, <2>5, <2>8, <2>9, SteadySave DEF Onward
<1>8. ASSUME NEW h \in Handles, Refresh(h) PROVE Steady
  <2>1. Rereads(h, hs')
    BY <1>8, RefreshKeeps
  <2>2. UNCHANGED <<dir, disk, reg, limbo, fresh, fault>> /\ UNCHANGED <<pc, job>>
    BY <1>8 DEF Refresh
  <2>3. QED
    BY <2>1, <2>2, SteadyControl DEF Rereads, Onward
<1>9. QED
  BY <1>1, <1>2, <1>3, <1>4, <1>5, <1>6, <1>7, <1>8

\* Heirs stay when the names and the records of the handles stay.
LEMMA HeirsStay ==
    ASSUME dir'.cur = dir.cur, dir.cur = None => dir'.data = dir.data,
           NEW h \in Handles, SameStorage(hs[h], hs'[h]), Refused(reg, h) => Refused(reg', h), Heir(h)
    PROVE  Heir(h)'
  BY DEF Heir, Active, SameStorage

\* The inode under the names is fresh as long as nothing is unlinked.
LEMMA SteadyKeeps ==
    ASSUME FileInv, StorageInv', Steady
    PROVE  FileInv'
<1>0. \A h \in Handles : hs[h].open /\ Active(h) => Named(hs[h].data)
  BY ConstantsAssumption DEF FileInv, StorageInv, NamesKnown, Active, Named, Inodes
<1>1. /\ dir'.cur = dir.cur /\ dir'.data = dir.data /\ dir'.gen = dir.gen
      /\ \/ disk'.cur = disk.cur /\ disk'.gen = disk.gen
         \/ disk'.cur = dir.cur /\ disk'.gen = dir.gen
      /\ reg' = reg /\ limbo' = limbo
      /\ \A h \in Handles : SameStorage(hs[h], hs'[h]) /\ hs'[h].orphan = hs[h].orphan
      /\ fault' = fault \/ Fault
      /\ Onward
  BY DEF Steady
<1>f. CutStays /\ (~fault'.since => ~fault.since)
  BY <1>1, FaultCount DEF FileInv
<1>2. fresh' = fresh \/ \E i : Acknowledges(i)
  BY DEF Steady
<1>3. PointersKept'
  BY <1>1 DEF FileInv, PointersKept, Kept1, Calm
<1>4. \A h \in Handles : Heir(h) => Heir(h)'
  BY <1>1, HeirsStay
<1>5. \A h \in Handles : hs'[h].open = hs[h].open /\ hs'[h].orphan = hs[h].orphan
  BY <1>1 DEF SameStorage
<1>6. Latest'
  <2>1. SUFFICES ASSUME ~limbo'
                 PROVE  NameFresh' /\ (pc' = "publish" => job'.new \in fresh')
                        /\ \A h \in Handles : hs'[h].open /\ ~hs'[h].orphan => Heir(h)'
    BY DEF Latest
  <2>2. /\ NameFresh /\ (pc = "publish" => job.new \in fresh)
        /\ \A h \in Handles : hs[h].open /\ ~hs[h].orphan => Heir(h)
    BY <1>1, <2>1 DEF FileInv, Latest
  <2>3. \A h \in Handles : hs'[h].open /\ ~hs'[h].orphan => Heir(h)'
    BY <1>4, <1>5, <2>2
  <2>4. CASE fresh' = fresh
    <3>1. pc' = "publish" => pc = "publish" /\ job' = job
      BY <1>1 DEF Onward
    <3>2. QED
      BY <1>1, <2>2, <2>3, <2>4, <3>1 DEF NameFresh
  <2>5. CASE fresh' # fresh
    <3>1. PICK i : Acknowledges(i)
      BY <1>2, <2>5
    <3>2. Named(i) /\ fresh' = {i}
      BY <1>0, <2>2, <3>1 DEF Acknowledges, Heir
    <3>3. NameFresh'
      BY <1>1, <3>2 DEF NameFresh, Named
    <3>4. pc' # "publish"
      BY <3>1 DEF Acknowledges
    <3>5. QED
      BY <2>3, <3>3, <3>4
  <2>6. QED
    BY <2>4, <2>5
<1>7. ReclaimInv'
  <2>1. LegacyRefs' = LegacyRefs /\ Inactive' = Inactive
    BY <1>1 DEF LegacyRefs, Inactive
  <2>2. NoObligation' /\ NoneClaimed'
    BY <1>1 DEF FileInv, ReclaimInv, NoObligation, NoneClaimed, Onward
  <2>3. Accounted'
    <3>1. SUFFICES ASSUME ~fault'.since, NEW g \in Inactive,
                          ~(pc' = "recover"), ~(pc' = "publish" /\ g = job'.new)
                   PROVE  Deferred(g)'
      BY <2>1 DEF Accounted
    <3>2. ~fault.since
      BY <1>f, <3>1
    <3>3. pc = "recover" \/ (pc = "publish" /\ g = job.new) \/ Deferred(g)
      BY <3>1, <3>2 DEF FileInv, ReclaimInv, Accounted
    <3>4. Deferred(g)
      BY <1>1, <3>1, <3>3 DEF Onward
    <3>5. g \in Gens
      BY <3>1 DEF Inactive
    <3>6. QED
      BY <1>1, <2>1, <3>4, <3>5 DEF Deferred, Onward
  <2>4. QED
    BY <2>2, <2>3 DEF ReclaimInv
<1>8. ContentInv'
  <2>1. SUFFICES ASSUME ~UnlinkWhileOpen, ~TornUnlink
                 PROVE  Closed' /\ (\A h \in Handles : hs'[h].open => Heir(h)') /\ HalfUnlinked'
    BY DEF ContentInv
  <2>2. Closed /\ (\A h \in Handles : hs[h].open => Heir(h)) /\ HalfUnlinked
    BY <2>1 DEF FileInv, ContentInv
  <2>3. Closed'
    BY <1>1, <1>5, <2>1, <2>2, NoJobType DEF Closed, Onward
  <2>4. \A h \in Handles : hs'[h].open => Heir(h)'
    BY <1>4, <1>5, <2>2
  <2>5. \A i : Protected(i) => Protected(i)'
    BY <1>1 DEF Protected
  <2>6. HalfUnlinked'
    <3>1. CASE fresh' = fresh
      BY <1>1, <1>f, <2>2, <2>5, <3>1 DEF HalfUnlinked, CutStays
    <3>2. CASE fresh' # fresh
      <4>1. PICK i : Acknowledges(i)
        BY <1>2, <3>2
      <4>2. Named(i) /\ fresh' = {i}
        BY <1>0, <2>2, <4>1 DEF Acknowledges, Heir
      <4>3. QED
        BY <1>1, <4>2 DEF HalfUnlinked, Named
    <3>3. QED
      BY <3>1, <3>2
  <2>7. QED
    BY <2>3, <2>4, <2>6
<1>9. QED
  BY <1>3, <1>6, <1>7, <1>8 DEF FileInv

-----------------------------------------------------------------------------
(* Recovery and collection.                                                *)

\* Recovery marks inactive generations, with the alias obligation if there is
\* a pointer, and syncs the pointer first.
RecoveryMarked ==
    \A g \in Gens :
        /\ reg'.gen[g].unlinked = reg.gen[g].unlinked /\ reg'.gen[g].handles = reg.gen[g].handles
        /\ reg.gen[g].alias => reg'.gen[g].alias
        /\ reg'.gen[g].alias => reg.gen[g].alias \/ dir.cur # None
        /\ reg.gen[g].gc # "none" => reg'.gen[g].gc # "none"
        /\ reg'.gen[g].gc # "none" =>
             \/ reg.gen[g].gc # "none"
             \/ g # dir.cur /\ (dir.cur = None \/ reg'.gen[g].alias \/ reg'.gen[g].unlinked)

Recovered ==
    /\ UNCHANGED <<dir, hs, job, fresh, limbo>> /\ Follows(reg, reg')
    /\ disk' = disk \/ (dir.cur # None /\ disk' = dir)
    /\ RecoveryMarked
    /\ CutStays
    /\ \/ /\ pc' = "gc" /\ \A g \in Gens : reg'.gen[g].gc # "none" => reg'.gen[g].gc = "claimed"
          /\ fault'.since \/ (\A g \in Inactive : reg'.gen[g].gc = "claimed")
       \/ /\ pc' = "body" /\ fault'.since
          /\ \A g \in Gens : reg'.gen[g].gc = "claimed" => reg.gen[g].gc = "claimed"

\* Recovery, complete or not, marks as RecoveryMarked says.
LEMMA RecoveryShape ==
    ASSUME StorageInv, Recover \/ RecoverFails
    PROVE  Recovered
<1>1. job.op # "none"
  BY DEF StorageInv, Working, Recover, RecoverFails
<1>2. /\ job.st.legacy <=> dir.cur = None
      /\ dir \in Dirs
      /\ ~job.st.legacy => dir.cur \in Gens
  BY <1>1, JobStorage, TypedParts DEF StorageInv
<1>3. UNCHANGED <<dir, hs, job, fresh, limbo>>
      /\ (disk' = disk \/ (dir.cur # None /\ disk' = dir))
  BY <1>2 DEF Recover, RecoverFails
<1>4. ASSUME NEW X \in SUBSET Inactive, NEW q,
             ~AliasesCurrent(job.st) => CanGet(reg, Legacy(dir.data), TRUE),
             q = MarkedGens(MarkedPair(reg, job.st), X, ~job.st.legacy)
      PROVE  RecoveryMarking(X, q)
  <2>1. X \in SUBSET Gens
    BY DEF Inactive
  <2>2. QED
    BY <1>1, <1>4, <2>1, RecoveryMarks
<1>f. /\ Fault => CutStays /\ fault'.since
      /\ fault' = [fault EXCEPT !.since = FALSE] => CutStays
  <2>1. Fault => CutStays /\ fault'.since
    BY FaultCount
  <2>2. fault' = [fault EXCEPT !.since = FALSE] => fault'.cut = fault.cut
    BY TypedParts DEF StorageInv, Faults
  <2>3. QED
    BY <2>1, <2>2 DEF CutStays
<1>5. CASE Recover
  <2>1. PICK X \in SUBSET Inactive :
          /\ StartGC(MarkedGens(MarkedPair(reg, job.st), X, ~job.st.legacy))
          /\ IF X # Inactive THEN Fault ELSE fault' = [fault EXCEPT !.since = FALSE]
    BY <1>5 DEF Recover
  <2>2. PICK q : q = MarkedGens(MarkedPair(reg, job.st), X, ~job.st.legacy)
    OBVIOUS
  <2>3. pc' = "gc" /\ reg' = Claimed(q)
    BY <2>1, <2>2 DEF StartGC
  <2>4. RecoveryMarking(X, q) /\ Follows(reg, q)
    <3>1. ~AliasesCurrent(job.st) => CanGet(reg, Legacy(dir.data), TRUE)
      BY <1>5 DEF Recover
    <3>2. RecoveryMarking(X, q)
      BY <1>4, <2>2, <3>1
    <3>3. QED
      BY <3>2 DEF RecoveryMarking
  <2>5. Follows(q, reg') /\ \A g \in Gens : Claims(q.gen[g], reg'.gen[g])
    BY <2>3, <2>4, ClaimedSound DEF Follows
  <2>6. Follows(reg, reg')
    BY <2>4, <2>5, FollowsTwice
  <2>7. \A g \in Gens : q.gen[g].gc \in {"none", "pending", "claimed"}
    BY <2>4, RegistryType DEF Follows, Sound, Records
  <2>8. ASSUME NEW g \in Gens
        PROVE  /\ reg'.gen[g].unlinked = reg.gen[g].unlinked
               /\ reg'.gen[g].handles = reg.gen[g].handles
               /\ reg.gen[g].alias => reg'.gen[g].alias
               /\ reg'.gen[g].alias => reg.gen[g].alias \/ dir.cur # None
               /\ reg.gen[g].gc # "none" => reg'.gen[g].gc # "none"
               /\ reg'.gen[g].gc # "none" => reg'.gen[g].gc = "claimed"
               /\ g \in X => reg'.gen[g].gc # "none"
                             /\ (dir.cur = None \/ reg'.gen[g].alias \/ reg'.gen[g].unlinked)
               /\ g \notin X /\ reg'.gen[g].gc # "none" => reg.gen[g].gc # "none"
    <3>1. Claims(q.gen[g], reg'.gen[g]) /\ q.gen[g].gc \in {"none", "pending", "claimed"}
      BY <2>5, <2>7
    <3>2. CASE g \in X
      <4>1. /\ q.gen[g].unlinked = reg.gen[g].unlinked /\ q.gen[g].handles = reg.gen[g].handles
            /\ q.gen[g].gc = IF reg.gen[g].gc = "none" THEN "pending" ELSE reg.gen[g].gc
            /\ reg.gen[g].alias => q.gen[g].alias
            /\ q.gen[g].alias => reg.gen[g].alias \/ ~job.st.legacy
            /\ job.st.legacy \/ q.gen[g].alias \/ q.gen[g].unlinked
        BY <2>4, <3>2 DEF RecoveryMarking
      <4>2. QED
        BY <1>2, <3>1, <3>2, <4>1 DEF Claims
    <3>3. CASE g \notin X
      <4>1. q.gen[g] = reg.gen[g]
        BY <2>4, <3>3 DEF RecoveryMarking
      <4>2. QED
        BY <3>1, <3>3, <4>1 DEF Claims
    <3>4. QED
      BY <3>2, <3>3
  <2>9. X \subseteq Inactive /\ \A g \in Inactive : g # dir.cur /\ g \in Gens
    BY DEF Inactive
  <2>10. RecoveryMarked
    BY <2>8, <2>9 DEF RecoveryMarked
  <2>11. CutStays /\ (fault'.since \/ \A g \in Inactive : reg'.gen[g].gc = "claimed")
    BY <1>f, <2>1, <2>8, <2>9
  <2>12. QED
    BY <1>3, <2>3, <2>6, <2>8, <2>10, <2>11 DEF Recovered
<1>6. CASE RecoverFails /\ reg' = reg
  <2>1. Follows(reg, reg')
    BY <1>6, FollowsItself DEF StorageInv
  <2>2. RecoveryMarked
    BY <1>6 DEF RecoveryMarked
  <2>3. pc' = "body" /\ CutStays /\ fault'.since
    BY <1>f, <1>6 DEF RecoverFails
  <2>4. QED
    BY <1>3, <1>6, <2>1, <2>2, <2>3 DEF Recovered
<1>7. CASE RecoverFails /\ reg' # reg
  <2>1. PICK X \in SUBSET Inactive :
          reg' = MarkedGens(MarkedPair(reg, job.st), X, ~job.st.legacy)
    BY <1>7 DEF RecoverFails
  <2>2. ~AliasesCurrent(job.st) => CanGet(reg, Legacy(dir.data), TRUE)
    BY <1>7 DEF RecoverFails
  <2>3. PICK q : q = reg'
    OBVIOUS
  <2>4. RecoveryMarking(X, q) /\ Follows(reg, q)
    <3>1. q = MarkedGens(MarkedPair(reg, job.st), X, ~job.st.legacy)
      BY <2>1, <2>3
    <3>2. RecoveryMarking(X, q)
      BY <1>4, <2>2, <3>1
    <3>3. QED
      BY <3>2 DEF RecoveryMarking
  <2>5. ASSUME NEW g \in Gens
        PROVE  /\ q.gen[g].unlinked = reg.gen[g].unlinked
               /\ q.gen[g].handles = reg.gen[g].handles
               /\ reg.gen[g].alias => q.gen[g].alias
               /\ q.gen[g].alias => reg.gen[g].alias \/ dir.cur # None
               /\ reg.gen[g].gc # "none" => q.gen[g].gc # "none"
               /\ q.gen[g].gc = "claimed" => reg.gen[g].gc = "claimed"
               /\ g \in X => dir.cur = None \/ q.gen[g].alias \/ q.gen[g].unlinked
               /\ g \notin X /\ q.gen[g].gc # "none" => reg.gen[g].gc # "none"
    <3>1. CASE g \in X
      <4>1. /\ q.gen[g].unlinked = reg.gen[g].unlinked /\ q.gen[g].handles = reg.gen[g].handles
            /\ q.gen[g].gc = IF reg.gen[g].gc = "none" THEN "pending" ELSE reg.gen[g].gc
            /\ reg.gen[g].alias => q.gen[g].alias
            /\ q.gen[g].alias => reg.gen[g].alias \/ ~job.st.legacy
            /\ job.st.legacy \/ q.gen[g].alias \/ q.gen[g].unlinked
        BY <2>4, <3>1 DEF RecoveryMarking
      <4>2. QED
        BY <1>2, <3>1, <4>1
    <3>2. CASE g \notin X
      <4>1. q.gen[g] = reg.gen[g]
        BY <2>4, <3>2 DEF RecoveryMarking
      <4>2. QED
        BY <3>2, <4>1
    <3>3. QED
      BY <3>1, <3>2
  <2>6. X \subseteq Inactive /\ \A g \in Inactive : g # dir.cur
    BY DEF Inactive
  <2>7. RecoveryMarked
    BY <2>3, <2>5, <2>6 DEF RecoveryMarked
  <2>8. pc' = "body" /\ CutStays /\ fault'.since
    BY <1>f, <1>7 DEF RecoverFails
  <2>9. QED
    BY <1>3, <2>3, <2>4, <2>5, <2>7, <2>8 DEF Recovered
<1>8. QED
  BY <1>5, <1>6, <1>7

\* Handles that keep storage and record stay heirs.
LEMMA HeirsFollow ==
    ASSUME dir'.cur = dir.cur, dir.cur = None => dir'.data = dir.data,
           Follows(reg, reg'), UNCHANGED hs
    PROVE  \A h \in Handles : Heir(h) => Heir(h)'
<1>1. \A h \in Handles : SameStorage(hs[h], hs'[h])
  BY DEF SameStorage
<1>2. \A h \in Handles : Refused(reg, h) => Refused(reg', h)
  BY AttachedStays DEF Follows
<1>3. QED
  BY <1>1, <1>2, HeirsStay

\* Recovery never marks the active generation without its aliases.
LEMMA RecoveryContent ==
    ASSUME FileInv, StorageInv', Recover \/ RecoverFails
    PROVE  FileInv'
<1>1. /\ UNCHANGED <<dir, hs, job, fresh, limbo>> /\ Follows(reg, reg')
      /\ disk' = disk \/ (dir.cur # None /\ disk' = dir)
      /\ RecoveryMarked /\ CutStays
  BY RecoveryShape DEF FileInv, Recovered
<1>2. \/ /\ pc' = "gc" /\ \A g \in Gens : reg'.gen[g].gc # "none" => reg'.gen[g].gc = "claimed"
         /\ fault'.since \/ (\A g \in Inactive : reg'.gen[g].gc = "claimed")
      \/ /\ pc' = "body" /\ fault'.since
         /\ \A g \in Gens : reg'.gen[g].gc = "claimed" => reg.gen[g].gc = "claimed"
  BY RecoveryShape DEF FileInv, Recovered
<1>3. dir.cur \in Gens \cup {None} /\ disk.cur \in Gens \cup {None}
  BY TypedParts, DirType DEF FileInv, StorageInv
<1>4. \A h \in Handles : Heir(h) => Heir(h)'
  BY <1>1, HeirsFollow
<1>5. PointersKept'
  <2>1. SUFFICES ASSUME Calm'
                 PROVE  /\ dir'.cur = None => disk'.cur = None
                        /\ \A c \in {dir'.cur, disk'.cur} \ {None} : Kept1(c)'
    BY DEF PointersKept
  <2>2. /\ dir.cur = None => disk.cur = None
        /\ \A c \in {dir.cur, disk.cur} \ {None} : Kept1(c)
    BY <1>1, <2>1 DEF FileInv, PointersKept, Calm
  <2>3. ASSUME NEW c \in {dir.cur, disk.cur} \ {None} PROVE Kept1(c)'
    <3>1. Kept1(c) /\ c \in Gens /\ dir.cur # None
      BY <1>3, <2>2
    <3>2. dir'.gen[c] = "ready" /\ disk'.gen[c] = "ready"
      BY <1>1, <3>1 DEF Kept1
    <3>3. ~reg'.gen[c].unlinked /\ (reg'.gen[c].gc # "none" => reg'.gen[c].alias)
      BY <1>1, <3>1 DEF Kept1, RecoveryMarked
    <3>4. QED
      BY <3>2, <3>3 DEF Kept1
  <2>4. QED
    BY <1>1, <2>2, <2>3
<1>6. Latest'
  BY <1>1, <1>2, <1>4 DEF FileInv, Latest, NameFresh
<1>7. ReclaimInv'
  <2>1. NoObligation'
    BY <1>1 DEF FileInv, ReclaimInv, NoObligation, RecoveryMarked
  <2>2. NoneClaimed'
    BY <1>2 DEF FileInv, ReclaimInv, NoneClaimed, Recover, RecoverFails
  <2>3. Accounted'
    BY <1>1, <1>2 DEF Accounted, Inactive, Deferred
  <2>4. QED
    BY <2>1, <2>2, <2>3 DEF ReclaimInv
<1>8. ContentInv'
  <2>1. \A i : Protected(i) => Protected(i)'
    BY <1>1 DEF Protected, RecoveryMarked
  <2>2. QED
    BY <1>1, <1>4, <2>1 DEF FileInv, ContentInv, Closed, HalfUnlinked, CutStays
<1>9. QED
  BY <1>5, <1>6, <1>7, <1>8 DEF FileInv

\* The legacy pair is referred to as long as a handle on it is open.
LEMMA LegacyRefsMeans ==
    ASSUME StorageInv, StorageInv'
    PROVE  /\ LegacyRefs <=> \E h \in Handles : hs[h].open /\ hs[h].legacy
           /\ LegacyRefs' <=> \E h \in Handles : hs'[h].open /\ hs'[h].legacy
<1>1. LegacyRefs <=> \E h \in Handles : hs[h].open /\ hs[h].legacy
  <2>1. PICK r, S, N : r = reg /\ S = hs /\ N = {dir.data, dir.cur}
    OBVIOUS
  <2>2. r \in Registries /\ \A h \in Handles : Attached(r, S[h], h, N)
    BY <2>1 DEF StorageInv, OnRecords, Sound
  <2>3. QED
    BY <2>1, <2>2, LegacyHandles DEF LegacyRefs
<1>2. LegacyRefs' <=> \E h \in Handles : hs'[h].open /\ hs'[h].legacy
  <2>1. PICK r, S, N : r = reg' /\ S = hs' /\ N = {dir'.data, dir'.cur}
    OBVIOUS
  <2>2. r \in Registries /\ \A h \in Handles : Attached(r, S[h], h, N)
    BY <2>1 DEF StorageInv, OnRecords, Sound
  <2>3. QED
    BY <2>1, <2>2, LegacyHandles DEF LegacyRefs
<1>3. QED
  BY <1>1, <1>2

\* A step that moves no handle.
LEMMA SameLegacyRefs ==
    ASSUME StorageInv, StorageInv',
           \A h \in Handles : hs[h].open /\ hs[h].legacy <=> hs'[h].open /\ hs'[h].legacy
    PROVE  LegacyRefs' = LegacyRefs
<1>1. LegacyRefs \in BOOLEAN /\ LegacyRefs' \in BOOLEAN
  BY DEF LegacyRefs
<1>2. QED
  BY <1>1, LegacyRefsMeans

\* A claimed generation has been collected, or waits: what is active stays, and
\* so does what only the disk still points to, until the pointer is synced.
CollectedOrWaits(g) ==
    /\ dir'.cur = dir.cur /\ disk'.cur \in {disk.cur, dir.cur}
    /\ dir.cur = None => dir'.data = dir.data
    /\ \A x \in Gens \ {g} :
         /\ reg'.gen[x] = reg.gen[x]
         /\ dir'.gen[x] = dir.gen[x] /\ disk'.gen[x] \in {disk.gen[x], dir.gen[x]}
    /\ \/ /\ reg'.gen[g] = NoRecord /\ dir'.gen[g] = "absent" /\ reg.gen[g].handles = {}
       \/ /\ reg'.gen[g].unlinked = reg.gen[g].unlinked
          /\ reg'.gen[g].alias = reg.gen[g].alias /\ reg'.gen[g].gc = "pending"
          /\ reg'.gen[g].handles = reg.gen[g].handles
          /\ \/ fault' # fault \/ g = dir.cur \/ reg.gen[g].handles # {}
             \/ reg.gen[g].alias /\ (LegacyRefs \/ dir.cur = None)
    /\ g = dir.cur => dir' = dir /\ disk' = disk /\ reg'.gen[g] # NoRecord
    /\ reg.gen[g].alias =>
         \/ /\ dir'.gen = dir.gen /\ disk'.gen = disk.gen /\ disk'.cur = disk.cur
            /\ reg'.gen[g] # NoRecord
         \/ dir.cur # None /\ disk'.cur = dir.cur
    /\ CutStays /\ (~fault'.since => fault' = fault)
    /\ Follows(reg, reg')

\* The outcome of a collection, in terms of names and records.
LEMMA CollectedParts ==
    ASSUME StorageInv, NEW g \in Gens, NEW o, Collected(g, o)
    PROVE  CollectedOrWaits(g)
<1>1. PICK v : v = Generation(g)
  OBVIOUS
<1>2. v.legacy = FALSE /\ v.ino = g
  BY <1>1 DEF Generation
<1>3. Collects(v, reg.gen[g], o) /\ dir' = o.dir /\ disk' = o.disk /\ FaultIf(o.failed)
      /\ Follows(reg, reg')
  BY <1>1 DEF Collected
<1>4. reg.gen[g] \in Records
  BY RegistryType, TypedParts DEF StorageInv
<1>5. /\ dir'.cur = dir.cur /\ disk'.cur \in {disk.cur, dir.cur}
      /\ dir.cur = None => dir'.data = dir.data
  BY <1>3 DEF Collects
<1>6. \A x \in Gens \ {g} :
        /\ reg'.gen[x] = reg.gen[x]
        /\ dir'.gen[x] = dir.gen[x] /\ disk'.gen[x] \in {disk.gen[x], dir.gen[x]}
  <2>1. \A x \in Gens \ {g} : reg'.gen[x] = reg.gen[x]
    BY DEF Collected
  <2>2. QED
    BY <1>2, <1>3, <2>1 DEF Collects
<1>7. CutStays /\ (~fault'.since => fault' = fault)
  BY <1>3, FaultCount DEF FaultIf
<1>8. o.failed => fault' # fault
  BY <1>3, FaultCount DEF FaultIf
<1>9. CASE o.retire
  <2>1. reg'.gen[g] = NoRecord /\ reg.gen[g].handles = {}
    BY <1>9 DEF Collected
  <2>2. dir'.gen[g] = "absent" /\ g # dir.cur
    BY <1>2, <1>3, <1>9 DEF Collects
  <2>3. reg.gen[g].alias => dir.cur # None /\ disk'.cur = dir.cur
    BY <1>2, <1>3, <1>9 DEF Collects
  <2>4. QED
    BY <1>3, <1>5, <1>6, <1>7, <2>1, <2>2, <2>3 DEF CollectedOrWaits
<1>10. CASE ~o.retire
  <2>1. reg'.gen[g] = [reg.gen[g] EXCEPT !.gc = "pending"]
    BY <1>10 DEF Collected
  <2>2. /\ reg'.gen[g].unlinked = reg.gen[g].unlinked
        /\ reg'.gen[g].alias = reg.gen[g].alias /\ reg'.gen[g].gc = "pending"
        /\ reg'.gen[g].handles = reg.gen[g].handles
    BY <1>4, <2>1 DEF Records
  <2>3. reg'.gen[g] # NoRecord
    BY <2>2, NoRecordType
  <2>4. \/ fault' # fault \/ g = dir.cur \/ reg.gen[g].handles # {}
        \/ reg.gen[g].alias /\ (LegacyRefs \/ dir.cur = None)
    BY <1>2, <1>3, <1>8, <1>10 DEF Collects
  <2>5. g = dir.cur => dir' = dir /\ disk' = disk
    BY <1>2, <1>3 DEF Collects
  <2>6. reg.gen[g].alias =>
                \/ /\ dir'.gen = dir.gen /\ disk'.gen = disk.gen /\ disk'.cur = disk.cur
                \/ dir.cur # None /\ disk'.cur = dir.cur
    BY <1>2, <1>3 DEF Collects
  <2>7. QED
    BY <1>3, <1>5, <1>6, <1>7, <2>2, <2>3, <2>4, <2>5, <2>6 DEF CollectedOrWaits
<1>11. QED
  BY <1>9, <1>10

\* The collector takes a generation that no pointer names, or whose successor is synced.
LEMMA GCGenerationContent ==
    ASSUME FileInv, StorageInv', NEW g \in Gens, GCGeneration(g)
    PROVE  FileInv'
<1>0. PICK o : Collected(g, o)
  BY GenerationCollected DEF FileInv
<1>1. CollectedOrWaits(g)
  BY <1>0, CollectedParts DEF FileInv
<1>2. /\ UNCHANGED <<hs, pc, job, fresh, limbo>> /\ pc = "gc"
      /\ reg.gen[g].gc = "claimed"
  BY DEF GCGeneration
<1>3. dir.cur \in Gens \cup {None} /\ disk.cur \in Gens \cup {None}
  BY TypedParts, DirType DEF FileInv, StorageInv
<1>4. \A h \in Handles : Heir(h) => Heir(h)'
  BY <1>1, <1>2, HeirsFollow DEF CollectedOrWaits
<1>5. PointersKept'
  <2>1. SUFFICES ASSUME Calm'
                 PROVE  /\ dir'.cur = None => disk'.cur = None
                        /\ \A c \in {dir'.cur, disk'.cur} \ {None} : Kept1(c)'
    BY DEF PointersKept
  <2>2. /\ dir.cur = None => disk.cur = None
        /\ \A c \in {dir.cur, disk.cur} \ {None} : Kept1(c)
    BY <1>2, <2>1 DEF FileInv, PointersKept, Calm
  <2>3. ASSUME NEW c \in {dir'.cur, disk'.cur} \ {None} PROVE Kept1(c)'
    <3>1. Kept1(c) /\ c \in Gens
      BY <1>1, <1>3, <2>2 DEF CollectedOrWaits
    <3>2. CASE c # g
      BY <1>1, <3>1, <3>2 DEF Kept1, CollectedOrWaits
    <3>3. CASE c = g
      <4>1. reg.gen[g].alias /\ ~reg.gen[g].unlinked
            /\ dir.gen[g] = "ready" /\ disk.gen[g] = "ready"
        BY <1>2, <3>1, <3>3 DEF Kept1
      <4>2. dir'.gen[g] = "ready" /\ disk'.gen[g] = "ready" /\ reg'.gen[g] # NoRecord
        BY <1>1, <3>3, <4>1 DEF CollectedOrWaits
      <4>3. QED
        BY <1>1, <3>3, <4>1, <4>2 DEF Kept1, CollectedOrWaits
    <3>4. QED
      BY <3>2, <3>3
  <2>4. QED
    BY <1>1, <2>2, <2>3 DEF CollectedOrWaits
<1>6. Latest'
  <2>1. NameFresh => NameFresh'
    BY <1>1, <1>2, <1>3 DEF NameFresh, CollectedOrWaits
  <2>2. QED
    BY <1>2, <1>4, <2>1 DEF FileInv, Latest
<1>7. ReclaimInv'
  <2>1. NoObligation'
    <3>1. \A x \in Gens : reg'.gen[x].alias => reg.gen[x].alias
      BY <1>1, NoRecordType DEF CollectedOrWaits
    <3>2. QED
      BY <1>1, <1>2, <3>1 DEF FileInv, ReclaimInv, NoObligation, CollectedOrWaits
  <2>2. NoneClaimed'
    BY <1>2 DEF NoneClaimed
  <2>3. Accounted'
    <3>1. SUFFICES ASSUME ~fault'.since, NEW x \in Inactive'
                   PROVE  Deferred(x)'
      BY DEF Accounted
    <3>2. fault' = fault /\ ~fault.since
      BY <1>1, <3>1 DEF CollectedOrWaits
    <3>3. x \in Gens /\ x # dir.cur /\ dir'.gen[x] \in {"partial", "ready"}
      BY <1>1, <3>1 DEF Inactive, CollectedOrWaits
    <3>4. LegacyRefs' = LegacyRefs
      BY <1>2, SameLegacyRefs DEF FileInv
    <3>5. CASE x = g
      BY <1>1, <3>2, <3>3, <3>4, <3>5 DEF Deferred, CollectedOrWaits
    <3>6. CASE x # g
      <4>1. x \in Inactive
        BY <1>1, <3>3, <3>6 DEF Inactive, CollectedOrWaits
      <4>2. Deferred(x)
        BY <1>2, <3>2, <4>1 DEF FileInv, ReclaimInv, Accounted
      <4>3. QED
        BY <1>1, <1>2, <3>3, <3>4, <3>6, <4>2 DEF Deferred, CollectedOrWaits
    <3>7. QED
      BY <3>5, <3>6
  <2>4. QED
    BY <2>1, <2>2, <2>3 DEF ReclaimInv
<1>8. ContentInv'
  <2>1. ASSUME NEW i, Protected(i), dir.cur = None PROVE Protected(i)'
    <3>1. CASE i = g
      BY <1>1, <2>1, <3>1 DEF Protected, CollectedOrWaits
    <3>2. CASE i # g
      BY <1>1, <2>1, <3>2 DEF Protected, CollectedOrWaits
    <3>3. QED
      BY <3>1, <3>2
  <2>2. QED
    BY <1>1, <1>2, <1>4, <2>1 DEF FileInv, ContentInv, Closed, HalfUnlinked, CutStays,
                                         CollectedOrWaits
<1>9. QED
  BY <1>5, <1>6, <1>7, <1>8 DEF FileInv

\* The collector takes a legacy record, and moves only the aliases.
LEMMA GCLegacyContent ==
    ASSUME FileInv, StorageInv', NEW n, GCLegacy(n)
    PROVE  FileInv'
<1>1. PICK o : PairCollected(n, o)
  BY LegacyCollected DEF FileInv
<1>2. PICK v : v = Legacy(reg.leg[n].ino)
  OBVIOUS
<1>3. v.legacy = TRUE
  BY <1>2 DEF Legacy
<1>4. /\ Collects(v, reg.leg[n].rec, o)
      /\ dir' = o.dir /\ disk' = o.disk /\ FaultIf(o.failed)
      /\ Follows(reg, reg') /\ reg'.gen = reg.gen
  BY <1>1, <1>2 DEF PairCollected
<1>5. /\ dir'.cur = dir.cur /\ disk'.cur \in {disk.cur, dir.cur}
      /\ dir.cur = None => dir'.data = dir.data
      /\ \A x \in Gens :
           dir'.gen[x] = dir.gen[x] /\ disk'.gen[x] \in {disk.gen[x], dir.gen[x]}
  BY <1>3, <1>4 DEF Collects
<1>6. CutStays /\ (~fault'.since => ~fault.since)
  BY <1>4, FaultCount DEF FileInv, FaultIf
<1>7. UNCHANGED <<hs, pc, job, fresh, limbo>> /\ pc = "gc"
  BY DEF GCLegacy
<1>8. dir.cur \in Gens \cup {None} /\ disk.cur \in Gens \cup {None}
  BY TypedParts, DirType DEF FileInv, StorageInv
<1>9. \A h \in Handles : Heir(h) => Heir(h)'
  BY <1>4, <1>5, <1>7, HeirsFollow
<1>10. PointersKept'
  BY <1>4, <1>5, <1>7, <1>8 DEF FileInv, PointersKept, Calm, Kept1
<1>11. Latest'
  <2>1. NameFresh => NameFresh'
    BY <1>5, <1>7, <1>8 DEF NameFresh
  <2>2. QED
    BY <1>7, <1>9, <2>1 DEF FileInv, Latest
<1>12. ReclaimInv'
  <2>1. NoObligation' /\ NoneClaimed'
    BY <1>4, <1>5, <1>7 DEF FileInv, ReclaimInv, NoObligation, NoneClaimed
  <2>2. LegacyRefs' = LegacyRefs
    BY <1>7, SameLegacyRefs DEF FileInv
  <2>3. Inactive' = Inactive
    BY <1>5 DEF Inactive
  <2>4. Accounted'
    BY <1>4, <1>5, <1>6, <1>7, <2>2, <2>3 DEF FileInv, ReclaimInv, Accounted, Deferred
  <2>5. QED
    BY <2>1, <2>4 DEF ReclaimInv
<1>13. ContentInv'
  <2>1. \A i : Protected(i) => Protected(i)'
    BY <1>4, <1>5 DEF Protected
  <2>2. QED
    BY <1>5, <1>6, <1>7, <1>9, <2>1 DEF FileInv, ContentInv, Closed, HalfUnlinked, CutStays
<1>14. QED
  BY <1>10, <1>11, <1>12, <1>13 DEF FileInv

-----------------------------------------------------------------------------
(* Handles come and go.                                                    *)

\* A handle is opened on the storage that the path leads to.
LEMMA OpenContent ==
    ASSUME FileInv, StorageInv', NEW h \in Handles, NEW w \in BOOLEAN, NEW trunc \in BOOLEAN,
           Open(h, w, trunc)
    PROVE  FileInv'
<1>1. /\ \A x \in Handles \ {h} : Refused(reg, x) => Refused(reg', x)
      /\ \A g \in Gens : /\ reg'.gen[g].gc = reg.gen[g].gc
                         /\ reg'.gen[g].alias = reg.gen[g].alias
                         /\ reg'.gen[g].unlinked = reg.gen[g].unlinked
                         /\ reg'.gen[g] = reg.gen[g] \/ g = dir.cur
      /\ hs'[h].open /\ hs'[h].legacy = job.st.legacy /\ hs'[h].data = job.st.ino
      /\ \A x \in Handles \ {h} : SameStorage(hs[x], hs'[x]) /\ hs'[x].orphan = hs[x].orphan
  BY OpenKeeps DEF FileInv
<1>2. pc = "body" /\ job.op = "open" /\ ~hs[h].open /\ pc' = "idle" /\ job' = NoJob
      /\ UNCHANGED <<limbo, fault>> /\ fresh' = (IF trunc THEN {job.st.ino} ELSE fresh)
  BY DEF Open, Return
<1>3. PICK o \in Truncated(job.st, trunc) : SetIO(o)
  BY DEF Open
<1>4. /\ job.st \in Storages
      /\ job.st.legacy <=> dir.cur = None
      /\ job.st.legacy => job.st.ino = dir.data
      /\ ~job.st.legacy => job.st.ino = dir.cur
  BY <1>2, JobStorage DEF FileInv, StorageInv
<1>5. /\ dir'.cur = dir.cur /\ dir'.data = dir.data /\ dir'.gen = dir.gen
      /\ \/ disk'.cur = disk.cur /\ disk'.gen = disk.gen
         \/ disk'.cur = dir.cur /\ disk'.gen = dir.gen
  BY <1>3, <1>4, TruncatedNames, SavedNames DEF FileInv
<1>6. dir.cur \in Gens \cup {None} /\ disk.cur \in Gens \cup {None}
  BY TypedParts, DirType DEF FileInv, StorageInv
<1>7. \A x \in Handles \ {h} : Heir(x) => Heir(x)'
  BY <1>1, <1>5, HeirsStay
<1>8. Heir(h)'
  BY <1>1, <1>4, <1>5 DEF Heir, Active
<1>9. \A x \in Handles \ {h} : hs'[x].open = hs[x].open /\ hs'[x].orphan = hs[x].orphan
                               /\ hs'[x].legacy = hs[x].legacy
  BY <1>1 DEF SameStorage
<1>10. PointersKept'
  BY <1>1, <1>2, <1>5, <1>6 DEF FileInv, PointersKept, Calm, Kept1
<1>11. Latest'
  <2>1. NameFresh => NameFresh'
    BY <1>2, <1>4, <1>5 DEF NameFresh
  <2>2. QED
    BY <1>2, <1>7, <1>8, <1>9, <2>1 DEF FileInv, Latest
<1>12. ReclaimInv'
  <2>1. NoObligation' /\ NoneClaimed'
    BY <1>1, <1>2, <1>5 DEF FileInv, ReclaimInv, NoObligation, NoneClaimed
  <2>2. LegacyRefs => LegacyRefs'
    BY <1>2, <1>9, LegacyRefsMeans DEF FileInv
  <2>3. Inactive' = Inactive /\ \A g \in Inactive : g \in Gens /\ g # dir.cur
    BY <1>5 DEF Inactive
  <2>4. \A g \in Inactive : Deferred(g) => Deferred(g)'
    <3>1. \A g \in Inactive : reg'.gen[g] = reg.gen[g]
      BY <1>1, <2>3
    <3>2. QED
      BY <1>2, <1>5, <2>2, <3>1 DEF Deferred
  <2>5. Accounted'
    BY <1>2, <2>3, <2>4 DEF FileInv, ReclaimInv, Accounted
  <2>6. QED
    BY <2>1, <2>5 DEF ReclaimInv
<1>13. ContentInv'
  <2>1. \A i : Protected(i) => Protected(i)'
    BY <1>1, <1>5 DEF Protected
  <2>2. Closed'
    BY <1>2, NoJobType DEF Closed
  <2>3. HalfUnlinked => HalfUnlinked'
    BY <1>2, <1>4, <1>5, <2>1 DEF HalfUnlinked
  <2>4. QED
    BY <1>7, <1>8, <1>9, <2>2, <2>3 DEF FileInv, ContentInv
<1>14. QED
  BY <1>10, <1>11, <1>12, <1>13 DEF FileInv

\* A new file has one name and one handle; a handle of a file without a map
\* stays where it is.
LEMMA CreateContent ==
    ASSUME FileInv, StorageInv', NEW h \in Handles, NEW i \in Inodes, NEW w \in BOOLEAN,
           Create(h, i, w)
    PROVE  FileInv'
<1>1. /\ dir'.cur = None /\ disk'.cur \in {disk.cur, None} /\ dir'.data = i
      /\ dir'.gen = dir.gen
      /\ dir.cur = None /\ dir.data \in {None, i} /\ ~hs[h].open
      /\ \A x \in Handles \ {h} : hs'[x] = hs[x] /\ (Refused(reg, x) => Refused(reg', x))
      /\ \A g \in Gens : reg'.gen[g] = reg.gen[g]
      /\ \/ hs'[h] = hs[h] /\ Fault
         \/ hs'[h].open /\ hs'[h].legacy /\ hs'[h].data = i /\ fault' = fault
  BY CreateKeeps DEF FileInv
<1>2. fresh' = {i} /\ UNCHANGED <<pc, job, limbo>> /\ pc = "idle"
  BY DEF Create
<1>f. ~fault'.since => ~fault.since
  BY <1>1, FaultCount DEF FileInv
<1>3. ASSUME NEW x \in Handles, hs'[x].open, hs[x].open => Heir(x)
      PROVE  Heir(x)'
  <2>1. CASE x = h
    BY <1>1, <1>3, <2>1 DEF Heir, Active
  <2>2. CASE x # h
    <3>1. hs[x].open /\ hs'[x] = hs[x] /\ hs[x].data # None
      BY <1>1, <1>3, <2>2, ConstantsAssumption DEF FileInv, StorageInv, NamesKnown
    <3>2. Active(x) => Active(x)'
      BY <1>1, <3>1 DEF Active
    <3>3. QED
      BY <1>1, <1>3, <2>2, <3>1, <3>2 DEF Heir
  <2>3. QED
    BY <2>1, <2>2
<1>4. \A x \in Handles : hs[x].open => hs'[x].open = hs[x].open /\ hs'[x].orphan = hs[x].orphan
                                       /\ hs'[x].legacy = hs[x].legacy
  BY <1>1
<1>5. PointersKept'
  BY <1>1, <1>2 DEF FileInv, PointersKept, Calm
<1>6. Latest'
  <2>1. NameFresh'
    BY <1>1, <1>2 DEF NameFresh
  <2>2. QED
    BY <1>2, <1>3, <1>4, <2>1 DEF FileInv, Latest
<1>7. ReclaimInv'
  <2>1. NoObligation' /\ NoneClaimed'
    BY <1>1, <1>2 DEF FileInv, ReclaimInv, NoObligation, NoneClaimed
  <2>2. Inactive' = Inactive /\ \A g \in Inactive : g \in Gens
    BY <1>1 DEF Inactive
  <2>3. \A g \in Inactive : Deferred(g) => Deferred(g)'
    BY <1>1, <1>2, <2>2 DEF Deferred
  <2>4. Accounted'
    BY <1>2, <1>f, <2>2, <2>3 DEF FileInv, ReclaimInv, Accounted
  <2>5. QED
    BY <2>1, <2>4 DEF ReclaimInv
<1>8. ContentInv'
  <2>1. Closed'
    BY <1>2, NoJobType DEF Closed, FileInv, StorageInv, Working
  <2>2. HalfUnlinked'
    BY <1>1, <1>2 DEF HalfUnlinked
  <2>3. QED
    BY <1>3, <2>1, <2>2 DEF FileInv, ContentInv
<1>9. QED
  BY <1>5, <1>6, <1>7, <1>8 DEF FileInv

\* A release drops a reference and leaves the names.
LEMMA ReleaseContent ==
    ASSUME FileInv, StorageInv', NEW h \in Handles, Release(h)
    PROVE  FileInv'
<1>1. /\ ~hs'[h].open /\ \A x \in Handles \ {h} : hs'[x] = hs[x]
      /\ \A x \in Handles \ {h} : Refused(reg, x) => Refused(reg', x)
      /\ \A g \in Gens : Dropped(g, h)
      /\ \/ /\ pc' = "gc" /\ UNCHANGED fault
            /\ \A g \in Gens : reg'.gen[g].gc # "none" => reg'.gen[g].gc = "claimed"
         \/ /\ pc' = "idle" /\ Fault
            /\ \A g \in Gens : reg'.gen[g].gc = reg.gen[g].gc
  BY ReleaseKeeps DEF FileInv
<1>f. CutStays /\ (~fault'.since => ~fault.since /\ fault' = fault) /\ (Fault => fault'.since)
  BY <1>1, FaultCount DEF FileInv
<1>2. UNCHANGED <<dir, disk, fresh, limbo>> /\ pc = "idle" /\ job' = NoJob
  BY DEF Release, CollectAndReturn, Return
<1>3. dir.cur \in Gens \cup {None} /\ disk.cur \in Gens \cup {None}
  BY TypedParts, DirType DEF FileInv, StorageInv
<1>4. \A x \in Handles : hs'[x].open /\ Heir(x) => Heir(x)'
  BY <1>1, <1>2 DEF Heir, Active
<1>5. PointersKept'
  BY <1>1, <1>2, <1>3 DEF FileInv, PointersKept, Calm, Kept1, Dropped
<1>6. Latest'
  BY <1>1, <1>2, <1>4 DEF FileInv, Latest, NameFresh
<1>7. ReclaimInv'
  <2>1. NoObligation' /\ NoneClaimed'
    BY <1>1, <1>2 DEF FileInv, ReclaimInv, NoObligation, NoneClaimed, Dropped
  <2>2. Inactive' = Inactive /\ \A g \in Inactive : g \in Gens
    BY <1>2 DEF Inactive
  <2>3. Accounted'
    BY <1>1, <1>2, <1>f, <2>2 DEF FileInv, ReclaimInv, Accounted, Deferred, Dropped
  <2>4. QED
    BY <2>1, <2>3 DEF ReclaimInv
<1>8. ContentInv'
  <2>1. \A i : Protected(i) => Protected(i)'
    BY <1>1, <1>2 DEF Protected, Dropped
  <2>2. Closed'
    BY <1>2, NoJobType DEF Closed
  <2>3. QED
    BY <1>1, <1>2, <1>4, <1>f, <2>1, <2>2 DEF FileInv, ContentInv, HalfUnlinked, CutStays
<1>9. QED
  BY <1>5, <1>6, <1>7, <1>8 DEF FileInv

-----------------------------------------------------------------------------
(* Unlink.                                                                 *)

\* The storage that an unlink removes, and what it does to the records.
UnlinkMarks(q) ==
    /\ Follows(reg, q)
    /\ \A g \in Gens : q.gen[g] = reg.gen[g]
                       \/ (g = dir.cur /\ Marks(reg.gen[g], q.gen[g], TRUE))

\* An unlink that stops half way leaves a generation that holds the content,
\* marked for collection with the alias obligation.
LEMMA UnlinkStopsContent ==
    ASSUME FileInv, StorageInv', Unlink, NEW q, UnlinkMarks(q), UnlinkStopped(q)
    PROVE  FileInv'
<1>1. /\ reg' = q /\ Fault /\ pc' = "idle" /\ job' = NoJob
      /\ limbo' = (limbo \/ dir' # dir)
      /\ IF job.st.legacy /\ dir' # dir THEN fresh' = {} /\ hs' = Orphaned
         ELSE UNCHANGED <<fresh, hs>>
      /\ dir' # dir => Unnamed(dir')
  BY DEF UnlinkStopped, Return
<1>f. CutStays /\ fault'.since
  BY <1>1, FaultCount DEF FileInv
<1>2. /\ job.op = "unlink" /\ pc = "body"
      /\ job.st.legacy <=> dir.cur = None
      /\ ~job.st.legacy => dir.cur \in Gens /\ dir.gen[dir.cur] = "ready"
  BY JobStorage DEF Unlink, FileInv, StorageInv
<1>3. dir.cur \in Gens \cup {None} /\ disk.cur \in Gens \cup {None} /\ None \notin Gens
  BY TypedParts, DirType, ConstantsAssumption DEF FileInv, StorageInv, Inodes
<1>4. \A g \in Gens : \/ reg'.gen[g] = reg.gen[g]
                      \/ g = dir.cur /\ Marks(reg.gen[g], reg'.gen[g], TRUE)
  BY <1>1 DEF UnlinkMarks
<1>5. \A g \in Gens : /\ reg'.gen[g].unlinked = reg.gen[g].unlinked
                      /\ reg.gen[g].alias => reg'.gen[g].alias
                      /\ reg.gen[g].gc # "none" => reg'.gen[g].gc # "none"
  BY <1>4 DEF Marks
<1>6. hs \in [Handles -> HandleStates]
  BY TypedParts DEF FileInv, StorageInv
<1>7. \A h \in Handles : SameStorage(hs[h], hs'[h])
  <2>1. \A h \in Handles : SameStorage(hs[h], hs[h])
    BY DEF SameStorage
  <2>2. \A h \in Handles : SameStorage(hs[h], Orphaned[h])
    BY <1>6, OrphanedType
  <2>3. hs' = hs \/ hs' = Orphaned
    BY <1>1
  <2>4. QED
    BY <2>1, <2>2, <2>3
<1>8. ReclaimInv'
  <2>1. NoObligation'
    BY <1>1, <1>3, <1>4 DEF FileInv, ReclaimInv, NoObligation
  <2>2. Accounted'
    BY <1>f DEF Accounted
  <2>3. NoneClaimed'
    BY <1>2, <1>4 DEF FileInv, ReclaimInv, NoneClaimed, Marks
  <2>4. QED
    BY <2>1, <2>2, <2>3 DEF ReclaimInv
<1>9. Closed'
  BY <1>1, NoJobType DEF Closed
<1>10. CASE dir' = dir
  <2>1. UNCHANGED <<fresh, hs, limbo>> /\ disk' = disk
    <3>1. UNCHANGED <<fresh, hs>>
      BY <1>1, <1>10
    <3>2. limbo' = limbo
      BY <1>1, <1>10, TypedParts DEF FileInv, StorageInv
    <3>3. disk' = disk
      BY <1>10 DEF UnlinkStopped
    <3>4. QED
      BY <3>1, <3>2, <3>3
  <2>2. \A h \in Handles : Heir(h) => Heir(h)'
    BY <1>1, <1>10, <2>1, HeirsFollow DEF UnlinkMarks
  <2>3. PointersKept'
    <3>1. \A c \in {dir.cur, disk.cur} \ {None} : Kept1(c) => Kept1(c)'
      BY <1>3, <1>4, <1>10, <2>1 DEF Kept1, Marks
    <3>2. QED
      BY <1>10, <2>1, <3>1 DEF FileInv, PointersKept, Calm
  <2>4. Latest'
    BY <1>1, <1>10, <2>1, <2>2 DEF FileInv, Latest, NameFresh
  <2>5. ContentInv'
    <3>1. \A i : Protected(i) => Protected(i)'
      BY <1>4, <1>10 DEF Protected, Marks
    <3>2. QED
      BY <1>9, <1>10, <1>f, <2>1, <2>2, <3>1 DEF FileInv, ContentInv, HalfUnlinked, CutStays
  <2>6. QED
    BY <1>8, <2>3, <2>4, <2>5 DEF FileInv
<1>11. CASE dir' # dir
  <2>1. limbo' = TRUE /\ dir'.cur = None /\ dir'.gen = dir.gen
    BY <1>1, <1>11 DEF Unnamed
  <2>2. PointersKept'
    <3>1. SUFFICES ASSUME ~TornUnlink PROVE disk'.cur = None
      BY <2>1 DEF PointersKept, Calm
    <3>2. dir.cur = None => disk.cur = None
      BY <3>1 DEF FileInv, PointersKept, Calm
    <3>3. (disk' = disk /\ job.st.legacy) \/ Unnamed(disk')
      BY <1>11, <3>1 DEF UnlinkStopped
    <3>4. QED
      BY <1>2, <3>2, <3>3 DEF Unnamed
  <2>3. Latest'
    BY <2>1 DEF Latest
  <2>4. ContentInv'
    <3>1. SUFFICES ASSUME ~UnlinkWhileOpen, ~TornUnlink
                   PROVE  (\A h \in Handles : ~hs'[h].open) /\ HalfUnlinked'
      BY <1>9 DEF ContentInv
    <3>2. \A h \in Handles : ~hs'[h].open
      BY <1>2, <1>7, <3>1 DEF FileInv, ContentInv, Closed, SameStorage
    <3>3. ASSUME fresh' # {}, ~fault'.cut PROVE \E i \in fresh' : Protected(i)'
      <4>1. ~job.st.legacy /\ fresh' = fresh /\ dir.cur \in Gens
        BY <1>1, <1>2, <1>11, <3>3
      <4>2. PICK c \in Gens : c = dir.cur
        BY <4>1
      <4>3. c \in fresh
        BY <1>2, <1>3, <1>f, <3>1, <3>3, <4>1, <4>2
           DEF FileInv, ContentInv, HalfUnlinked, CutStays, Latest, NameFresh
      <4>4. Kept1(c)
        BY <1>3, <3>1, <4>2 DEF FileInv, PointersKept, Calm
      <4>5. Marks(reg.gen[c], reg'.gen[c], TRUE)
        BY <1>1, <1>11, <4>1, <4>2 DEF UnlinkStopped
      <4>6. Protected(c)'
        BY <2>1, <4>2, <4>4, <4>5 DEF Kept1, Protected, Marks
      <4>7. QED
        BY <4>1, <4>3, <4>6
    <3>4. QED
      BY <2>1, <3>2, <3>3 DEF HalfUnlinked
  <2>5. QED
    BY <1>8, <2>2, <2>3, <2>4 DEF FileInv
<1>12. QED
  BY <1>10, <1>11

\* A complete unlink hands every generation to the collector.
LEMMA UnlinkDoneContent ==
    ASSUME FileInv, StorageInv', Unlink, NEW q, UnlinkMarks(q), UnlinkDone(q),
           ~job.st.legacy => Marks(reg.gen[dir.cur], q.gen[dir.cur], TRUE)
    PROVE  FileInv'
<1>1. /\ dir' = disk' /\ dir'.cur = None /\ dir'.data = None /\ dir'.gen = dir.gen
      /\ hs' = Orphaned /\ limbo' = FALSE
  BY DEF UnlinkDone, Unnamed
<1>2. /\ job.op = "unlink" /\ pc = "body"
      /\ job.st.legacy <=> dir.cur = None
  BY JobStorage DEF Unlink, FileInv, StorageInv
<1>3. None \notin Gens /\ Sound(q) /\ hs \in [Handles -> HandleStates]
  BY TypedParts, ConstantsAssumption DEF FileInv, StorageInv, Inodes, UnlinkMarks, Follows
<1>4. PICK r : r = MarkUnlinked(q)
  OBVIOUS
<1>5. /\ Sound(r)
      /\ \A g \in Gens : /\ ~r.gen[g].alias
                         /\ q.gen[g].present => r.gen[g].gc # "none"
                         /\ q.gen[g].gc # "none" => r.gen[g].gc # "none"
                         /\ r.gen[g].gc = "claimed" => q.gen[g].gc = "claimed"
  BY <1>3, <1>4, UnlinkedSound
<1>6. CollectAndReturn(r) /\ job' = NoJob
  BY <1>4 DEF UnlinkDone, CollectAndReturn, Return
<1>7. \/ /\ pc' = "gc" /\ UNCHANGED fault
         /\ \A g \in Gens : Claims(r.gen[g], reg'.gen[g])
      \/ pc' = "idle" /\ reg' = r /\ Fault
  BY <1>5, <1>6, CollectedSound
<1>f. Fault => fault'.since
  BY FaultCount DEF FileInv
<1>8. \A h \in Handles : SameStorage(hs[h], hs'[h]) /\ (hs'[h].open => hs'[h].orphan)
  BY <1>1, <1>3, OrphanedType
<1>9. PointersKept' /\ Latest'
  BY <1>1, <1>7, <1>8 DEF PointersKept, Latest, NameFresh
<1>10. ReclaimInv'
  <2>1. NoObligation'
    BY <1>5, <1>7 DEF NoObligation, Claims
  <2>2. NoneClaimed'
    BY <1>2, <1>5, <1>7 DEF FileInv, ReclaimInv, NoneClaimed, UnlinkMarks, Marks
  <2>3. Accounted'
    <3>1. SUFFICES ASSUME ~fault'.since, NEW g \in Inactive' PROVE Deferred(g)'
      BY DEF Accounted
    <3>2. pc' = "gc" /\ ~fault.since /\ Claims(r.gen[g], reg'.gen[g]) /\ g \in Gens
      BY <1>7, <1>f, <3>1 DEF Inactive
    <3>3. q.gen[g].present \/ q.gen[g].gc # "none"
      <4>1. CASE g = dir.cur
        BY <1>2, <1>3, <3>2, <4>1 DEF Marks
      <4>2. CASE g # dir.cur
        <5>1. g \in Inactive
          BY <1>1, <3>1, <4>2 DEF Inactive
        <5>2. Deferred(g)
          BY <1>2, <3>2, <5>1 DEF FileInv, ReclaimInv, Accounted
        <5>3. QED
          BY <3>2, <4>2, <5>2 DEF Deferred, UnlinkMarks
      <4>3. QED
        BY <4>1, <4>2
    <3>4. r.gen[g].gc \in {"pending", "claimed"}
      <4>1. r.gen[g] \in Records
        BY <1>5, <3>2, RegistryType DEF Sound
      <4>2. QED
        BY <1>5, <3>2, <3>3, <4>1 DEF Records
    <3>5. QED
      BY <3>2, <3>4 DEF Deferred, Claims
  <2>4. QED
    BY <2>1, <2>2, <2>3 DEF ReclaimInv
<1>11. ContentInv'
  <2>1. Closed'
    BY <1>6, NoJobType DEF Closed
  <2>2. ~UnlinkWhileOpen /\ ~TornUnlink => \A h \in Handles : ~hs'[h].open
    BY <1>2, <1>8 DEF FileInv, ContentInv, Closed, SameStorage
  <2>3. QED
    BY <1>1, <2>1, <2>2 DEF ContentInv, HalfUnlinked
<1>12. QED
  BY <1>9, <1>10, <1>11 DEF FileInv

\* Every unlink stops half way or is complete.
LEMMA UnlinkContent ==
    ASSUME FileInv, StorageInv', Unlink
    PROVE  FileInv'
<1>1. PICK q : /\ Follows(reg, q)
               /\ \A g \in Gens : q.gen[g] = reg.gen[g]
                                  \/ (g = dir.cur /\ Marks(reg.gen[g], q.gen[g], TRUE))
               /\ \/ UnlinkStopped(q)
                  \/ /\ UnlinkDone(q)
                     /\ ~job.st.legacy => Marks(reg.gen[dir.cur], q.gen[dir.cur], TRUE)
  BY UnlinkShape DEF FileInv
<1>2. UnlinkMarks(q)
  BY <1>1 DEF UnlinkMarks
<1>3. QED
  BY <1>1, <1>2, UnlinkStopsContent, UnlinkDoneContent

-----------------------------------------------------------------------------
(* Compaction and publication.                                             *)

\* What is built of fresh content is fresh; nobody is on it yet.
LEMMA BuildContent ==
    ASSUME FileInv, StorageInv', NEW g \in Gens, NEW resize \in BOOLEAN, Build(g, resize)
    PROVE  FileInv'
<1>1. /\ dir' = disk' /\ dir'.cur = dir.cur /\ dir'.data = dir.data
      /\ \A x \in Gens : dir'.gen[x] = IF x = g THEN "ready" ELSE dir.gen[x]
      /\ dir.gen[g] = "absent" /\ disk.gen[g] = "absent"
      /\ job'.st = job.st /\ job'.new = g /\ job'.op = "compact"
      /\ UNCHANGED <<reg, hs, limbo, fault>>
  BY BuildKeeps DEF FileInv
<1>2. /\ pc = "body" /\ job.op = "compact" /\ pc' = "publish"
      /\ fresh' = (IF job.st.ino \in fresh THEN fresh \cup {g} ELSE fresh)
  BY DEF Build
<1>4. /\ job.st.legacy <=> dir.cur = None
      /\ job.st.legacy => job.st.ino = dir.data
      /\ ~job.st.legacy => job.st.ino = dir.cur /\ dir.gen[dir.cur] = "ready"
      /\ job.st.ino # None
  BY <1>2, JobStorage DEF FileInv, StorageInv
<1>5. dir.cur \in Gens \cup {None} /\ disk.cur \in Gens \cup {None}
  BY TypedParts, DirType DEF FileInv, StorageInv
<1>6. Follows(reg, reg')
  BY <1>1, FollowsItself DEF FileInv, StorageInv
<1>7. \A h \in Handles : Heir(h) => Heir(h)'
  BY <1>1, <1>6, HeirsFollow
<1>8. PointersKept'
  BY <1>1, <1>5 DEF FileInv, PointersKept, Calm, Kept1
<1>9. Latest'
  <2>1. SUFFICES ASSUME ~limbo'
                 PROVE  NameFresh' /\ job'.new \in fresh'
                        /\ \A h \in Handles : hs'[h].open /\ ~hs'[h].orphan => Heir(h)'
    BY DEF Latest
  <2>2. NameFresh /\ \A h \in Handles : hs[h].open /\ ~hs[h].orphan => Heir(h)
    BY <1>1, <2>1 DEF FileInv, Latest
  <2>3. job.st.ino \in fresh
    BY <1>4, <2>2 DEF NameFresh
  <2>4. fresh' = fresh \cup {g}
    BY <1>2, <2>3
  <2>5. NameFresh'
    BY <1>1, <1>4, <1>5, <2>2, <2>4 DEF NameFresh
  <2>6. QED
    BY <1>1, <1>7, <2>2, <2>4, <2>5
<1>10. ReclaimInv'
  <2>1. NoObligation' /\ NoneClaimed'
    BY <1>1, <1>2 DEF FileInv, ReclaimInv, NoObligation, NoneClaimed
  <2>2. LegacyRefs' = LegacyRefs
    BY <1>1 DEF LegacyRefs
  <2>3. Accounted'
    <3>1. SUFFICES ASSUME ~fault'.since, NEW x \in Inactive', x # g
                   PROVE  Deferred(x)'
      BY <1>1, <1>2 DEF Accounted
    <3>2. x \in Inactive
      BY <1>1, <3>1 DEF Inactive
    <3>3. Deferred(x)
      BY <1>1, <1>2, <3>1, <3>2 DEF FileInv, ReclaimInv, Accounted
    <3>4. QED
      BY <1>1, <1>2, <2>2, <3>3 DEF Deferred
  <2>4. QED
    BY <2>1, <2>3 DEF ReclaimInv
<1>11. ContentInv'
  <2>1. \A i : Protected(i) => Protected(i)'
    BY <1>1 DEF Protected
  <2>2. Closed'
    BY <1>1 DEF Closed
  <2>3. fresh \subseteq fresh' /\ (fresh' # {} => fresh # {})
    BY <1>2
  <2>4. HalfUnlinked => HalfUnlinked'
    <3>1. SUFFICES ASSUME HalfUnlinked, limbo, ~fault.cut
                   PROVE  /\ dir.cur # None => dir.cur \in fresh'
                          /\ dir.cur = None /\ fresh # {} =>
                               \E i \in fresh' : dir.data = i \/ Protected(i)'
      BY <1>1, <2>3 DEF HalfUnlinked
    <3>2. QED
      BY <2>1, <2>3, <3>1 DEF HalfUnlinked
  <2>5. QED
    BY <1>1, <1>7, <2>2, <2>4 DEF FileInv, ContentInv
<1>12. QED
  BY <1>8, <1>9, <1>10, <1>11 DEF FileInv

\* What a failed build leaves is neither active nor anybody's.
LEMMA BuildFailsContent ==
    ASSUME FileInv, StorageInv', NEW g \in Gens, BuildFails(g)
    PROVE  FileInv'
<1>1. /\ dir'.cur = dir.cur /\ dir'.data = dir.data /\ disk'.cur \in {disk.cur, dir.cur}
      /\ \A x \in Gens \ {g} : dir'.gen[x] = dir.gen[x]
                               /\ disk'.gen[x] \in {disk.gen[x], dir.gen[x]}
      /\ dir.gen[g] = "absent" /\ disk.gen[g] = "absent" /\ g # dir.cur
      /\ UNCHANGED <<reg, hs, fresh, limbo>> /\ Fault /\ pc' = "idle" /\ job' = NoJob
  BY BuildFailsKeeps DEF FileInv, Return
<1>f. CutStays /\ fault'.since
  BY <1>1, FaultCount DEF FileInv
<1>2. dir.cur \in Gens \cup {None} /\ disk.cur \in Gens \cup {None}
  BY TypedParts, DirType DEF FileInv, StorageInv
<1>3. Follows(reg, reg')
  BY <1>1, FollowsItself DEF FileInv, StorageInv
<1>4. \A h \in Handles : Heir(h) => Heir(h)'
  BY <1>1, <1>3, HeirsFollow
<1>5. PointersKept'
  BY <1>1, <1>2 DEF FileInv, PointersKept, Calm, Kept1
<1>6. Latest'
  <2>1. NameFresh => NameFresh'
    BY <1>1, <1>2 DEF NameFresh
  <2>2. QED
    BY <1>1, <1>4, <2>1 DEF FileInv, Latest
<1>7. ReclaimInv'
  <2>1. NoObligation' /\ NoneClaimed'
    <3>1. pc = "body"
      BY DEF BuildFails
    <3>2. QED
      BY <1>1, <3>1 DEF FileInv, ReclaimInv, NoObligation, NoneClaimed
  <2>2. Accounted'
    BY <1>f DEF Accounted
  <2>3. QED
    BY <2>1, <2>2 DEF ReclaimInv
<1>8. ContentInv'
  <2>1. \A i : Protected(i) => Protected(i)'
    BY <1>1 DEF Protected
  <2>2. Closed'
    BY <1>1, NoJobType DEF Closed
  <2>3. QED
    BY <1>1, <1>4, <1>f, <2>1, <2>2 DEF FileInv, ContentInv, HalfUnlinked, CutStays
<1>9. QED
  BY <1>5, <1>6, <1>7, <1>8 DEF FileInv

\* A handle that the path leads to is on the record of the operation's storage.
LEMMA ActiveOnRecord ==
    ASSUME StorageInv, job.op # "none", NEW h \in Handles, hs[h].open, Active(h)
    PROVE  h \in HandlesOf(job.st)
<1>1. /\ job.st \in Storages
      /\ job.st.legacy <=> dir.cur = None
      /\ job.st.legacy => job.st.ino = dir.data
      /\ ~job.st.legacy => job.st.ino = dir.cur
  BY JobStorage DEF StorageInv
<1>2. hs[h].legacy \in BOOLEAN /\ hs[h].data # None
  BY TypedParts, ConstantsAssumption DEF StorageInv, HandleStates, NamesKnown
<1>3. hs[h].legacy = job.st.legacy /\ hs[h].data = job.st.ino
  BY <1>1, <1>2 DEF Active, Storages
<1>4. StorageOf(h) = job.st
  BY <1>1, <1>3 DEF StorageOf, Storages
<1>5. QED
  BY <1>4, HandleOnRecord

\* The handles on the old storage refuse to write once the pointer has moved.
LEMMA PublishFailsContent ==
    ASSUME FileInv, StorageInv', PublishFails \/ PublishWithoutRecord
    PROVE  FileInv'
<1>1. NotHandedOver
  BY PublishFailsShape DEF FileInv
<1>2. /\ pc = "publish" /\ job.new \in Gens /\ job.op # "none" /\ job.new # dir.cur
      /\ dir.gen[job.new] = "ready" /\ disk.gen[job.new] = "ready"
      /\ reg.gen[job.new] = NoRecord
  BY DEF FileInv, StorageInv, Working, PublishFails, PublishWithoutRecord
<1>3. /\ dir'.cur \in {dir.cur, job.new} /\ dir'.data = dir.data /\ dir'.gen = dir.gen
      /\ disk' \in {disk, dir, dir'}
      /\ Follows(reg, reg')
      /\ \A g \in Gens : /\ reg'.gen[g].gc = reg.gen[g].gc /\ reg'.gen[g].alias = reg.gen[g].alias
                         /\ reg'.gen[g].unlinked = reg.gen[g].unlinked
      /\ dir'.cur # dir.cur => \A h \in HandlesOf(job.st) : Refused(reg', h)
      /\ Fault /\ pc' = "idle" /\ job' = NoJob /\ UNCHANGED <<hs, limbo>> /\ fresh' = Content(dir')
  BY <1>1 DEF NotHandedOver, Return
<1>f. CutStays /\ fault'.since
  BY <1>3, FaultCount DEF FileInv
<1>4. dir.cur \in Gens \cup {None} /\ disk.cur \in Gens \cup {None} /\ None \notin Gens
  BY TypedParts, DirType, ConstantsAssumption DEF FileInv, StorageInv, Inodes
<1>5. ASSUME NEW h \in Handles, hs[h].open, Heir(h) PROVE Heir(h)'
  <2>1. CASE dir'.cur = dir.cur
    BY <1>3, <1>5, <2>1, HeirsFollow
  <2>2. CASE dir'.cur # dir.cur
    <3>1. Refused(reg, h) => Refused(reg', h)
      BY <1>3, AttachedStays DEF Follows
    <3>2. Active(h) => Refused(reg', h)
      BY <1>2, <1>3, <1>5, <2>2, ActiveOnRecord DEF FileInv
    <3>3. QED
      BY <1>5, <3>1, <3>2 DEF Heir
  <2>3. QED
    BY <2>1, <2>2
<1>6. PointersKept'
  <2>1. SUFFICES ASSUME Calm'
                 PROVE  /\ dir'.cur = None => disk'.cur = None
                        /\ \A c \in {dir'.cur, disk'.cur} \ {None} : Kept1(c)'
    BY DEF PointersKept
  <2>2. /\ dir.cur = None => disk.cur = None
        /\ \A c \in {dir.cur, disk.cur} \ {None} : Kept1(c)
    BY <1>3, <2>1 DEF FileInv, PointersKept, Calm
  <2>3. ASSUME NEW c \in {dir'.cur, disk'.cur} \ {None} PROVE Kept1(c)'
    <3>1. c \in Gens /\ c \in {dir.cur, disk.cur, job.new}
      BY <1>2, <1>3, <1>4
    <3>2. dir.gen[c] = "ready" /\ disk.gen[c] = "ready"
      BY <1>2, <2>2, <3>1 DEF Kept1
    <3>3. ~reg.gen[c].unlinked /\ (reg.gen[c].gc # "none" => reg.gen[c].alias)
      BY <1>2, <1>4, <2>2, <3>1 DEF Kept1, NoRecord
    <3>4. QED
      BY <1>3, <3>1, <3>2, <3>3 DEF Kept1
  <2>4. QED
    BY <1>2, <1>3, <1>4, <2>2, <2>3
<1>7. Latest'
  <2>1. ~limbo => fresh' = fresh
    BY <1>3 DEF Content
  <2>2. ~limbo => NameFresh'
    BY <1>2, <1>3, <1>4, <2>1 DEF FileInv, Latest, NameFresh
  <2>3. QED
    BY <1>3, <1>5, <2>2 DEF FileInv, Latest
<1>8. ReclaimInv'
  <2>1. NoObligation' /\ NoneClaimed'
    BY <1>2, <1>3, <1>4 DEF FileInv, ReclaimInv, NoObligation, NoneClaimed
  <2>2. Accounted'
    BY <1>f DEF Accounted
  <2>3. QED
    BY <2>1, <2>2 DEF ReclaimInv
<1>9. ContentInv'
  <2>1. \A i : Protected(i) => Protected(i)'
    BY <1>3 DEF Protected
  <2>2. Closed'
    BY <1>3, NoJobType DEF Closed
  <2>3. HalfUnlinked => HalfUnlinked'
    BY <1>2, <1>3, <1>4, <1>f, <2>1 DEF HalfUnlinked, CutStays, Content
  <2>4. QED
    BY <1>3, <1>5, <2>2, <2>3 DEF FileInv, ContentInv
<1>10. QED
  BY <1>6, <1>7, <1>8, <1>9 DEF FileInv

\* The writers follow the pointer; the others may write no more.
LEMMA HandoffContent ==
    ASSUME FileInv, StorageInv', PublishAndHandoff
    PROVE  FileInv'
<1>1. PICK W : W = Writers(job.st)
  OBVIOUS
<1>2. HandsOff(W)
  BY <1>1, HandoffShape DEF FileInv
<1>3. /\ pc = "publish" /\ job.new \in Gens /\ job.op # "none" /\ job.new # dir.cur
      /\ dir.gen[job.new] = "ready" /\ disk.gen[job.new] = "ready"
  BY DEF FileInv, StorageInv, Working, PublishAndHandoff
<1>4. /\ dir'.cur = job.new /\ dir'.data = dir.data /\ dir'.gen = dir.gen
      /\ disk' \in {disk, dir, dir'} /\ UNCHANGED limbo /\ fresh' = Content(dir')
      /\ reg'.gen[job.new].gc = "none" /\ ~reg'.gen[job.new].unlinked
      /\ \A x \in Gens \ {job.new} :
           /\ reg'.gen[x].unlinked = reg.gen[x].unlinked
           /\ reg.gen[x].alias => reg'.gen[x].alias
           /\ reg.gen[x].gc # "none" => reg'.gen[x].gc # "none"
           /\ reg'.gen[x].gc # "none" =>
                reg.gen[x].gc # "none"
                \/ (x = dir.cur /\ (reg'.gen[x].alias \/ reg'.gen[x].unlinked))
  BY <1>2 DEF HandsOff
<1>5. \/ /\ pc' = "gc" /\ job' = NoJob /\ UNCHANGED fault
         /\ \A x \in Gens : reg'.gen[x].gc # "none" => reg'.gen[x].gc = "claimed"
         /\ dir.cur \in Gens => reg'.gen[dir.cur].gc = "claimed"
      \/ /\ pc' = "idle" /\ job' = NoJob /\ Fault
         /\ \A x \in Gens : reg'.gen[x].gc = "claimed" => reg.gen[x].gc = "claimed"
  BY <1>2 DEF HandsOff, Return
<1>f. Fault => fault'.since
  BY FaultCount DEF FileInv
<1>6. /\ \A h \in W : hs[h].open /\ ~hs'[h].legacy /\ hs'[h].data = job.new
                      /\ hs'[h].orphan = hs[h].orphan
      /\ \A h \in Handles \ W : /\ hs'[h] = hs[h]
                                /\ Refused(reg, h) \/ h \in HandlesOf(job.st) => Refused(reg', h)
  BY <1>2 DEF HandsOff
<1>7. dir.cur \in Gens \cup {None} /\ disk.cur \in Gens \cup {None} /\ None \notin Gens
  BY TypedParts, DirType, ConstantsAssumption DEF FileInv, StorageInv, Inodes
<1>8. ASSUME NEW h \in Handles, hs'[h].open, hs[h].open => Heir(h) PROVE Heir(h)'
  <2>1. CASE h \in W
    BY <1>4, <1>6, <2>1 DEF Heir, Active
  <2>2. CASE h \notin W
    <3>1. hs[h].open /\ Heir(h)
      BY <1>6, <1>8, <2>2
    <3>2. Refused(reg, h) \/ h \in HandlesOf(job.st)
      BY <1>3, <3>1, ActiveOnRecord DEF FileInv, Heir
    <3>3. QED
      BY <1>6, <2>2, <3>2 DEF Heir
  <2>3. QED
    BY <2>1, <2>2
<1>9. \A h \in Handles : hs'[h].orphan = hs[h].orphan
  BY <1>6
<1>10. PointersKept'
  <2>1. SUFFICES ASSUME Calm' PROVE \A c \in {dir'.cur, disk'.cur} \ {None} : Kept1(c)'
    BY <1>3, <1>4, <1>7 DEF PointersKept
  <2>2. \A c \in {dir.cur, disk.cur} \ {None} : Kept1(c)
    BY <1>4, <2>1 DEF FileInv, PointersKept, Calm
  <2>3. ASSUME NEW c \in {dir'.cur, disk'.cur} \ {None} PROVE Kept1(c)'
    <3>1. c \in Gens /\ c \in {dir.cur, disk.cur, job.new}
      BY <1>3, <1>4, <1>7
    <3>2. dir.gen[c] = "ready" /\ disk.gen[c] = "ready"
      BY <1>3, <2>2, <3>1 DEF Kept1
    <3>3. dir'.gen[c] = "ready" /\ disk'.gen[c] = "ready"
      BY <1>4, <3>2
    <3>4. CASE c = job.new
      BY <1>4, <3>3, <3>4 DEF Kept1
    <3>5. CASE c # job.new
      <4>1. Kept1(c)
        BY <2>2, <3>1, <3>5
      <4>2. QED
        BY <1>4, <3>1, <3>3, <3>5, <4>1 DEF Kept1
    <3>6. QED
      BY <3>4, <3>5
  <2>4. QED
    BY <2>3
<1>11. Latest'
  <2>1. ~limbo => fresh' = fresh /\ job.new \in fresh
    BY <1>3, <1>4 DEF FileInv, Latest, Content
  <2>2. ~limbo => NameFresh'
    BY <1>3, <1>4, <1>7, <2>1 DEF NameFresh
  <2>3. QED
    BY <1>4, <1>5, <1>8, <1>9, <2>2 DEF FileInv, Latest
<1>12. ReclaimInv'
  <2>1. NoObligation'
    BY <1>3, <1>4, <1>7 DEF NoObligation
  <2>2. NoneClaimed'
    BY <1>3, <1>5 DEF FileInv, ReclaimInv, NoneClaimed
  <2>3. Accounted'
    <3>1. SUFFICES ASSUME ~fault'.since, NEW x \in Inactive' PROVE Deferred(x)'
      BY DEF Accounted
    <3>2. pc' = "gc" /\ fault' = fault /\ x \in Gens \ {job.new}
      BY <1>4, <1>5, <1>f, <3>1 DEF Inactive
    <3>3. reg'.gen[x].gc = "claimed"
      <4>1. CASE x = dir.cur
        BY <1>5, <3>2, <4>1
      <4>2. CASE x # dir.cur
        <5>1. x \in Inactive
          BY <1>4, <3>1, <4>2 DEF Inactive
        <5>2. Deferred(x)
          BY <1>3, <3>1, <3>2, <5>1 DEF FileInv, ReclaimInv, Accounted
        <5>3. QED
          BY <1>4, <1>5, <3>2, <5>2 DEF Deferred
      <4>3. QED
        BY <4>1, <4>2
    <3>4. QED
      BY <3>2, <3>3 DEF Deferred
  <2>4. QED
    BY <2>1, <2>2, <2>3 DEF ReclaimInv
<1>13. ContentInv'
  <2>1. Closed'
    BY <1>5, NoJobType DEF Closed
  <2>2. HalfUnlinked'
    BY <1>3, <1>4, <1>7 DEF HalfUnlinked, Content
  <2>3. QED
    BY <1>8, <2>1, <2>2 DEF FileInv, ContentInv
<1>14. QED
  BY <1>10, <1>11, <1>12, <1>13 DEF FileInv

-----------------------------------------------------------------------------
(* The beginning, and the end of the daemon.                               *)

\* With no handle and no record, only the names count.
LEMMA RestartContent ==
    ASSUME FileInv, StorageInv', Restarted,
           Calm' => /\ dir'.cur = None => disk'.cur = None
                    /\ \A c \in {dir'.cur, disk'.cur} \ {None} :
                         dir'.gen[c] = "ready" /\ disk'.gen[c] = "ready",
           ~limbo' => NameFresh',
           ~UnlinkWhileOpen /\ ~TornUnlink => HalfUnlinked'
    PROVE  FileInv'
<1>1. reg' = EmptyRegistry /\ hs' = [h \in Handles |-> NoHandle]
      /\ pc' = "idle" /\ job' = NoJob
  BY DEF Restarted, Return
<1>f. fault'.since
  <2>1. PICK c : c = (fault.cut \/ Nameless(dir', fresh'))
    OBVIOUS
  <2>2. FaultWith(c) /\ fault \in Faults
    BY <2>1, TypedParts DEF Restarted, FileInv, StorageInv
  <2>3. QED
    BY <2>2, FaultWithType
<1>2. \A h \in Handles : ~hs'[h].open
  BY <1>1, EmptySound
<1>3. \A g \in Gens : /\ ~reg'.gen[g].unlinked /\ ~reg'.gen[g].alias
                      /\ reg'.gen[g].gc = "none"
  BY <1>1 DEF EmptyRegistry, NoRecord
<1>4. dir'.cur \in Gens \cup {None} /\ disk'.cur \in Gens \cup {None}
  <2>1. dir' \in Dirs /\ disk' \in Dirs
    BY DEF StorageInv, Typed, TypeOK
  <2>2. QED
    BY <2>1, DirType
<1>5. PointersKept'
  BY <1>3, <1>4 DEF PointersKept, Kept1
<1>6. Latest'
  BY <1>1, <1>2 DEF Latest
<1>7. ReclaimInv'
  BY <1>1, <1>3, <1>f DEF ReclaimInv, NoObligation, NoneClaimed, Accounted
<1>8. ContentInv'
  BY <1>2 DEF ContentInv, Closed
<1>9. QED
  BY <1>5, <1>6, <1>7, <1>8 DEF FileInv

\* Whether the end of the daemon cuts off an unlink.
LEMMA RestartCuts ==
    ASSUME StorageInv, Restarted, limbo, ~fault'.cut
    PROVE  ~fault.cut /\ ~Nameless(dir', fresh')
<1>1. PICK c : c = (fault.cut \/ Nameless(dir', fresh'))
  OBVIOUS
<1>2. FaultWith(c) /\ fault \in Faults
  BY <1>1, TypedParts DEF Restarted, StorageInv
<1>3. fault'.cut = (limbo /\ c)
  BY <1>2, FaultWithType
<1>4. QED
  BY <1>1, <1>3

\* The death of the daemon changes no name.
LEMMA ExitContent ==
    ASSUME FileInv, StorageInv', Exit
    PROVE  FileInv'
<1>1. Restarted /\ UNCHANGED <<dir, disk, fresh, limbo>>
  BY DEF Exit
<1>2. Calm' => /\ dir'.cur = None => disk'.cur = None
               /\ \A c \in {dir'.cur, disk'.cur} \ {None} :
                    dir'.gen[c] = "ready" /\ disk'.gen[c] = "ready"
  BY <1>1 DEF FileInv, PointersKept, Calm, Kept1
<1>3. ~limbo' => NameFresh'
  BY <1>1 DEF FileInv, Latest, NameFresh
<1>4. ASSUME ~UnlinkWhileOpen, ~TornUnlink PROVE HalfUnlinked'
  <2>1. SUFFICES ASSUME limbo, ~fault'.cut
                 PROVE  /\ dir.cur # None => dir.cur \in fresh
                        /\ dir.cur = None /\ fresh # {} => dir.data \in fresh
    BY <1>1 DEF HalfUnlinked
  <2>2. ~fault.cut /\ ~Nameless(dir, fresh)
    BY <1>1, <2>1, RestartCuts DEF FileInv
  <2>3. QED
    BY <1>4, <2>1, <2>2 DEF FileInv, ContentInv, HalfUnlinked, Nameless
<1>5. QED
  BY <1>1, <1>2, <1>3, <1>4, RestartContent

\* A generation that is complete before and after is complete in between.
LEMMA BetweenReady ==
    ASSUME NEW x, x \in Between("ready", "ready")
    PROVE  x = "ready"
<1>1. x \in {"absent", "marker", "partial", "ready"}
  BY DEF Between, GenStates, Rank
<1>2. Rank[x] = 3
  <2>1. Rank["ready"] = 3 /\ Rank[x] \in Nat
    BY <1>1 DEF Rank
  <2>2. QED
    BY <2>1 DEF Between
<1>3. QED
  BY <1>1, <1>2 DEF Rank

\* After a power loss the pointer is one of two, and both were complete.
LEMMA PowerLossContent ==
    ASSUME FileInv, StorageInv', PowerLoss
    PROVE  FileInv'
<1>1. PICK c \in {dir.cur, disk.cur}, a \in {dir.data, disk.data}, m \in {dir.meta, disk.meta} :
      \E f \in [Gens -> GenStates] :
        /\ \A g \in Gens : f[g] \in Between(dir.gen[g], disk.gen[g])
        /\ dir' = [cur |-> c, data |-> a, meta |-> m, gen |-> f]
  BY DEF PowerLoss
<1>2. PICK f \in [Gens -> GenStates] :
        /\ \A g \in Gens : f[g] \in Between(dir.gen[g], disk.gen[g])
        /\ dir' = [cur |-> c, data |-> a, meta |-> m, gen |-> f]
  BY <1>1
<1>3. dir'.cur = c /\ dir'.data = a /\ dir'.gen = f
  BY <1>2
<1>4. /\ disk' = dir' /\ Restarted /\ UNCHANGED limbo
      /\ fresh' = IF \/ dir.cur = disk.cur /\ (dir.cur # None \/ dir.data = disk.data)
                     \/ Nameless(dir, fresh)
                  THEN fresh
                  ELSE {IF dir'.cur = None THEN dir'.data ELSE dir'.cur} \cap Inodes
  BY DEF PowerLoss
<1>5. /\ dir.cur \in Gens \cup {None} /\ disk.cur \in Gens \cup {None} /\ None \notin Gens
      /\ dir.data \in Names /\ disk.data \in Names
  BY TypedParts, DirType, ConstantsAssumption DEF FileInv, StorageInv, Inodes
<1>6. Stray \notin {dir.data, disk.data}
  BY DEF FileInv, StorageInv, NamesKnown
<1>7. Calm => /\ dir.cur = None => disk.cur = None
              /\ \A x \in {dir.cur, disk.cur} \ {None} :
                   dir.gen[x] = "ready" /\ disk.gen[x] = "ready"
  BY DEF FileInv, PointersKept, Kept1
<1>8. ASSUME Calm, c # None PROVE f[c] = "ready"
  <2>1. c \in Gens /\ dir.gen[c] = "ready" /\ disk.gen[c] = "ready"
    BY <1>5, <1>7, <1>8
  <2>2. PICK x : x = f[c]
    OBVIOUS
  <2>3. x \in Between("ready", "ready")
    BY <1>2, <2>1, <2>2
  <2>4. QED
    BY <2>2, <2>3, BetweenReady
<1>9. Calm' => /\ dir'.cur = None => disk'.cur = None
               /\ \A x \in {dir'.cur, disk'.cur} \ {None} :
                    dir'.gen[x] = "ready" /\ disk'.gen[x] = "ready"
  BY <1>3, <1>4, <1>8 DEF Calm
<1>n. ASSUME fresh' = {IF dir'.cur = None THEN dir'.data ELSE dir'.cur} \cap Inodes
      PROVE  /\ dir'.cur # None => dir'.cur \in fresh'
             /\ dir'.cur = None /\ dir'.data # None => dir'.data \in fresh'
  <2>1. dir'.data # None => dir'.data \in Inodes
    BY <1>3, <1>5, <1>6 DEF Names
  <2>2. dir'.cur # None => dir'.cur \in Inodes
    BY <1>3, <1>5 DEF Inodes
  <2>3. QED
    BY <1>n, <2>1, <2>2
<1>10. ASSUME ~limbo' PROVE NameFresh'
  <2>1. NameFresh /\ Calm /\ ~Nameless(dir, fresh)
    BY <1>4, <1>10 DEF FileInv, Latest, Calm, Nameless
  <2>2. CASE dir.cur = disk.cur /\ (dir.cur # None \/ dir.data = disk.data)
    BY <1>3, <1>4, <1>5, <1>7, <2>1, <2>2 DEF NameFresh
  <2>3. CASE ~(dir.cur = disk.cur /\ (dir.cur # None \/ dir.data = disk.data))
    BY <1>4, <1>n, <2>1, <2>3 DEF NameFresh
  <2>4. QED
    BY <2>2, <2>3
<1>11. ASSUME ~UnlinkWhileOpen, ~TornUnlink PROVE HalfUnlinked'
  <2>1. SUFFICES ASSUME limbo, ~fault'.cut
                 PROVE  /\ dir'.cur # None => dir'.cur \in fresh'
                        /\ dir'.cur = None /\ fresh' # {} => dir'.data \in fresh'
    BY <1>4 DEF HalfUnlinked
  <2>2. ~fault.cut /\ ~Nameless(dir', fresh')
    BY <1>4, <2>1, RestartCuts DEF FileInv
  <2>3. dir'.cur = None /\ fresh' # {} => dir'.data \in fresh'
    BY <2>1, <2>2 DEF Nameless
  <2>4. ASSUME dir'.cur # None PROVE dir'.cur \in fresh'
    <3>1. CASE fresh' = fresh /\ dir.cur = disk.cur
      BY <1>3, <1>11, <2>1, <2>2, <2>4, <3>1 DEF FileInv, ContentInv, HalfUnlinked
    <3>2. CASE Nameless(dir, fresh)
      BY <1>3, <1>7, <1>11, <2>4, <3>2 DEF Nameless, Calm
    <3>3. CASE ~(fresh' = fresh /\ dir.cur = disk.cur) /\ ~Nameless(dir, fresh)
      BY <1>4, <1>n, <2>4, <3>3
    <3>4. QED
      BY <3>1, <3>2, <3>3
  <2>5. QED
    BY <2>3, <2>4
<1>12. QED
  BY <1>4, <1>9, <1>10, <1>11, RestartContent

\* Nothing exists in the beginning.
LEMMA InitContent ==
    ASSUME Init
    PROVE  FileInv
<1>1. StorageInv
  BY InitStorage
<1>2. /\ dir.cur = None /\ disk.cur = None /\ dir.data = None
      /\ \A g \in Gens : dir.gen[g] = "absent"
  BY DEF Init, EmptyDir
<1>3. reg = EmptyRegistry /\ hs = [h \in Handles |-> NoHandle] /\ pc = "idle" /\ limbo = FALSE
  BY DEF Init
<1>4. \A h \in Handles : ~hs[h].open
  BY <1>3, EmptySound
<1>5. \A g \in Gens : ~reg.gen[g].alias /\ reg.gen[g].gc = "none"
  BY <1>3 DEF EmptyRegistry, NoRecord
<1>6. PointersKept /\ Latest
  BY <1>2, <1>3, <1>4 DEF PointersKept, Latest, NameFresh
<1>7. ReclaimInv
  BY <1>2, <1>5 DEF ReclaimInv, NoObligation, Accounted, NoneClaimed, Inactive
<1>8. ContentInv
  BY <1>3, <1>4 DEF ContentInv, Closed, HalfUnlinked
<1>9. QED
  BY <1>1, <1>6, <1>7, <1>8 DEF FileInv

\* Every step of the program keeps the invariant.
LEMMA FileStepKeeps ==
    ASSUME FileInv, [Next]_vars
    PROVE  FileInv'
<1>0. StorageInv'
  BY StepKeeps DEF FileInv
<1>1. CASE \/ \E op \in {"lookup", "open", "unlink", "compact"} : Begin(op)
           \/ GCDone \/ CompactSkips \/ TruncatePath \/ UNCHANGED vars
           \/ \E trunc \in BOOLEAN : OpenFails(trunc)
           \/ \E h \in Handles : Write(h) \/ WriteFails(h) \/ Refresh(h)
  <2>1. Steady
    BY <1>1, SteadySteps DEF FileInv
  <2>2. QED
    BY <1>0, <2>1, SteadyKeeps
<1>2. CASE Recover \/ RecoverFails
  BY <1>0, <1>2, RecoveryContent
<1>3. CASE \E g \in Gens : GCGeneration(g)
  BY <1>0, <1>3, GCGenerationContent
<1>4. CASE \E n \in 1 .. MaxLegacy : GCLegacy(n)
  BY <1>0, <1>4, GCLegacyContent
<1>5. CASE \E h \in Handles, w, trunc \in BOOLEAN : Open(h, w, trunc)
  BY <1>0, <1>5, OpenContent
<1>6. CASE \E h \in Handles, i \in Inodes, w \in BOOLEAN : Create(h, i, w)
  BY <1>0, <1>6, CreateContent
<1>7. CASE \E h \in Handles : Release(h)
  BY <1>0, <1>7, ReleaseContent
<1>8. CASE Unlink
  BY <1>0, <1>8, UnlinkContent
<1>9. CASE \E g \in Gens : BuildFails(g)
  BY <1>0, <1>9, BuildFailsContent
<1>10. CASE \E g \in Gens : \E resize \in BOOLEAN : Build(g, resize)
  BY <1>0, <1>10, BuildContent
<1>11. CASE PublishFails \/ PublishWithoutRecord
  BY <1>0, <1>11, PublishFailsContent
<1>12. CASE PublishAndHandoff
  BY <1>0, <1>12, HandoffContent
<1>13. CASE Exit
  BY <1>0, <1>13, ExitContent
<1>14. CASE PowerLoss
  BY <1>0, <1>14, PowerLossContent
<1>15. QED
  BY <1>1, <1>2, <1>3, <1>4, <1>5, <1>6, <1>7, <1>8, <1>9, <1>10, <1>11, <1>12, <1>13, <1>14
     DEF Next, OperationStep

-----------------------------------------------------------------------------
(***************************************************************************)
(* Whatever system call fails and whenever the daemon dies or the power    *)
(* is lost: the pointers name complete generations that no collection may  *)
(* take, the names and the handles lead to what was acknowledged or refuse *)
(* to write, and every superseded generation is accounted for.             *)
(***************************************************************************)
THEOREM FileInvariant == Spec => []FileInv
<1>1. Init => FileInv
  BY InitContent
<1>2. FileInv /\ [Next]_vars => FileInv'
  BY FileStepKeeps
<1>3. QED
  BY <1>1, <1>2, PTL DEF Spec

(***************************************************************************)
(* The pointer names a complete generation, now and after a power loss,    *)
(* unless an unlink stopped half way and could leave the removal of the    *)
(* pointer unsynced: a superseded generation has an alias obligation, for  *)
(* which the collector syncs the directory first (compact.c:1189-1198,     *)
(* 2207-2212).                                                             *)
(***************************************************************************)
THEOREM PointerCalm == Spec => [](Calm => PointerIntact)
<1>1. FileInv => (Calm => PointerIntact)
  BY DEF FileInv, PointersKept, Kept1, PointerIntact
<1>2. QED
  BY <1>1, FileInvariant, PTL

(***************************************************************************)
(* When the fsync of a pointer's removal does not fail and the daemon does *)
(* not end between the removal and that fsync (dir.c:286-287), the pointer *)
(* never dangles, whatever else fails and wherever else the daemon ends.   *)
(***************************************************************************)
THEOREM PointerNeverDangles ==
    ASSUME ~TornUnlink
    PROVE  Spec => []PointerIntact
<1>1. FileInv => PointerIntact
  BY DEF FileInv, PointersKept, Kept1, PointerIntact, Calm
<1>2. QED
  BY <1>1, FileInvariant, PTL

(***************************************************************************)
(* The storage that the path resolves to holds everything acknowledged: a  *)
(* handle whose storage has been replaced was moved to the new one, or its *)
(* record refuses writes (myfs_write, compact.c:2143-2212).                *)
(***************************************************************************)
THEOREM LatestUnderPath == Spec => []LatestIsActive
<1>1. ASSUME FileInv PROVE LatestIsActive
  <2>1. SUFFICES ASSUME ~limbo, Exists(dir), NEW st \in Resolve(dir) PROVE st.ino \in fresh
    BY DEF LatestIsActive
  <2>2. NameFresh /\ dir \in Dirs
    BY <1>1, <2>1, TypedParts DEF FileInv, Latest, StorageInv
  <2>3. /\ st.legacy <=> dir.cur = None
        /\ st.legacy => st.ino = dir.data
        /\ ~st.legacy => st.ino = dir.cur /\ dir.gen[dir.cur] = "ready"
    BY <2>2, ResolveType
  <2>4. QED
    BY <2>1, <2>2, <2>3 DEF NameFresh, Exists
<1>2. QED
  BY <1>1, FileInvariant, PTL

(***************************************************************************)
(* Nothing leaks: between operations, when no call has failed since the    *)
(* last full recovery, a generation besides the active one has an open     *)
(* handle, or waits with its aliases for one on the legacy pair            *)
(* (recover_generations_for_path_locked, compact.c:1183-1279).             *)
(***************************************************************************)
THEOREM NothingLeaks == Spec => []ReclaimComplete
<1>1. ASSUME FileInv PROVE ReclaimComplete
  <2>1. SUFFICES ASSUME pc = "idle", ~fault.since, ~limbo, ~LegacyRefs,
                        NEW g \in Gens \ {dir.cur}, dir.gen[g] \in {"partial", "ready"}
                 PROVE  \E h \in Handles : hs[h].open /\ ~hs[h].legacy /\ hs[h].data = g
    BY DEF ReclaimComplete
  <2>2. g \in Inactive
    BY <2>1 DEF Inactive
  <2>3. Deferred(g)
    BY <1>1, <2>1, <2>2 DEF FileInv, ReclaimInv, Accounted
  <2>4. reg.gen[g].handles # {}
    BY <1>1, <2>1, <2>3 DEF FileInv, ReclaimInv, NoObligation, Deferred
  <2>5. reg.gen[g] \in Records
    BY <1>1, <2>1, TypedParts, RegistryType DEF FileInv, StorageInv
  <2>6. PICK h \in Handles : h \in reg.gen[g].handles
    BY <2>4, <2>5 DEF Records
  <2>7. Attached(reg, hs[h], h, {dir.data, dir.cur})
    BY <1>1 DEF FileInv, StorageInv, OnRecords
  <2>8. QED
    BY <2>1, <2>6, <2>7 DEF Attached
<1>2. QED
  BY <1>1, FileInvariant, PTL

(***************************************************************************)
(* An unlink that stopped half way has not destroyed the content: the data *)
(* name holds it, or a complete generation that is marked with an alias    *)
(* obligation, which no collection can meet without a pointer (dir.c:276,  *)
(* compact.c:684-708).  Assumed: no handle is open at an unlink, and the   *)
(* removal of the pointer is confirmed.  The daemon may end anywhere, but  *)
(* the statement stops there (fault.cut) if no name leads to the content:  *)
(* the obligation is in memory only, and the next recovery collects the    *)
(* content (the run generations_half_unlinked shows it).                   *)
(***************************************************************************)
THEOREM HalfUnlinkedContentKept ==
    ASSUME ~UnlinkWhileOpen, ~TornUnlink
    PROVE  Spec => []ContentKept
<1>1. FileInv => ContentKept
  BY DEF FileInv, ContentInv, HalfUnlinked, Protected, ContentKept, ContentSafe
<1>2. QED
  BY <1>1, FileInvariant, PTL

-----------------------------------------------------------------------------
(* The names of the pair, and the files the handles are on.                *)

\* A legacy record waits for the active generation to get its aliases.
PairOwed(r) == \E n \in DOMAIN r.leg : r.leg[n].rec.alias

\* Nothing but the active generation has an alias obligation.
NoneOwed == ~PairOwed(reg) /\ \A g \in Gens \ {dir.cur} : ~reg.gen[g].alias

\* No pointer is durable: the map is the data file's own, or missing, whatever a
\* power loss keeps; a left-over map has no data file.
Pairing(d, s) ==
    /\ d.data \in Incs \cup {None} /\ s.data \in {None, d.data}
    /\ d.meta \in Incs \cup {None} /\ s.meta \in Incs \cup {None}
    /\ d.data # None => d.meta \in {None, d.data} /\ s.meta \in {None, d.data}
    /\ d.data = None => s.meta \in {None, d.meta}

\* A handle has the map of its data, and one on the pair has the pair's names.
OwnMap(h) ==
    /\ hs[h].meta = hs[h].data
    /\ hs[h].legacy => hs[h].data \in Incs /\ dir.data = hs[h].data /\ dir.meta = hs[h].data

OwnMaps == \A h \in Handles : hs[h].open => OwnMap(h)

NamesInv ==
    /\ Closed
    /\ ~limbo => /\ disk.cur = None => Pairing(dir, disk) /\ NoneOwed
                 /\ OwnMaps

BundleInv == ~UnlinkWhileOpen /\ ~TornCreate => NamesInv

\* Replacing a record owes nothing the record did not owe.
LEMMA ReplacedOwes ==
    ASSUME NEW r \in Registries, NEW st, Proper(st), NEW skip \in BOOLEAN, NEW rec \in Records,
           CanGet(r, st, skip), rec.alias => RecordOf(r, st, skip).alias,
           PairOwed(WithRecord(r, st, skip, rec))
    PROVE  PairOwed(r)
<1>1. CASE ~st.legacy
  <2>1. st.ino \in Gens
    BY <1>1 DEF Proper
  <2>2. WithRecord(r, st, skip, rec) = [r EXCEPT !.gen[st.ino] = rec]
    BY <1>1 DEF WithRecord
  <2>3. WithRecord(r, st, skip, rec).leg = r.leg
    BY <2>1, <2>2, GenReplaced
  <2>4. QED
    BY <2>3 DEF PairOwed
<1>2. CASE st.legacy /\ Found(r, st, skip)
  <2> DEFINE p == First(LegacyAt(r, st.ino, skip))
  <2>1. LegacyAt(r, st.ino, skip) # {}
    BY <1>2 DEF Found
  <2>2. p \in DOMAIN r.leg
    BY <2>1, FirstFound
  <2>3. RecordOf(r, st, skip) = r.leg[p].rec
    BY <1>2 DEF RecordOf
  <2>4. WithRecord(r, st, skip, rec) = [r EXCEPT !.leg[p].rec = rec]
    BY <1>2 DEF WithRecord
  <2> HIDE DEF p
  <2>5. PICK q : q = [r EXCEPT !.leg[p].rec = rec]
    OBVIOUS
  <2>6. /\ DOMAIN q.leg = DOMAIN r.leg
        /\ \A n \in DOMAIN r.leg : q.leg[n].rec = IF n = p THEN rec ELSE r.leg[n].rec
    BY <2>2, <2>5, LegReplaced
  <2>7. PICK n \in DOMAIN q.leg : q.leg[n].rec.alias
    BY <2>4, <2>5 DEF PairOwed
  <2>8. r.leg[n].rec.alias
    BY <2>2, <2>3, <2>6, <2>7
  <2>9. QED
    BY <2>6, <2>7, <2>8 DEF PairOwed
<1>3. CASE st.legacy /\ ~Found(r, st, skip)
  <2>1. ~rec.alias
    BY <1>3, NoRecordType DEF RecordOf
  <2>2. WithRecord(r, st, skip, rec) = Inserted(r, st.ino, rec)
    BY <1>3 DEF WithRecord, Inserted
  <2>3. Len(r.leg) < MaxLegacy /\ st.ino \in Names
    BY <1>3 DEF CanGet, Proper, Storages
  <2>4. PICK q : q = Inserted(r, st.ino, rec)
    OBVIOUS
  <2>5. /\ DOMAIN q.leg = 1 .. (Len(r.leg) + 1) /\ q.leg[1].rec = rec
        /\ \A n \in DOMAIN r.leg : n + 1 \in DOMAIN q.leg /\ q.leg[n + 1] = r.leg[n]
    BY <2>3, <2>4, LegInserted
  <2>6. PICK n \in DOMAIN q.leg : q.leg[n].rec.alias
    BY <2>2, <2>4 DEF PairOwed
  <2>7. DOMAIN r.leg = 1 .. Len(r.leg) /\ Len(r.leg) \in Nat
    BY RegistryType
  <2>8. n - 1 \in DOMAIN r.leg /\ q.leg[n] = r.leg[n - 1]
    <3>1. n # 1
      BY <2>1, <2>5, <2>6
    <3>2. n - 1 \in DOMAIN r.leg /\ (n - 1) + 1 = n
      BY <2>5, <2>6, <2>7, <3>1
    <3>3. QED
      BY <2>5, <3>2
  <2>9. QED
    BY <2>6, <2>8 DEF PairOwed
<1>4. QED
  BY <1>1, <1>2, <1>3

\* Nor does a new handle on a record.
LEMMA RegisterOwes ==
    ASSUME NEW r, Sound(r), NEW st, Proper(st), NEW h \in Handles, CanGet(r, st, TRUE),
           PairOwed(Register(r, st, h))
    PROVE  PairOwed(r)
<1>1. PICK skip \in BOOLEAN : skip = TRUE
  OBVIOUS
<1>2. PICK a : a = Get(r, st, skip)
  OBVIOUS
<1>3. PICK b : b = [a EXCEPT !.handles = @ \cup {h}]
  OBVIOUS
<1>4. a \in Records /\ a.alias = RecordOf(r, st, skip).alias
  BY <1>2, GetType
<1>5. b \in Records /\ b.alias = a.alias
  BY <1>3, <1>4 DEF Records
<1>6. Register(r, st, h) = WithRecord(r, st, skip, b)
  BY <1>1, <1>2, <1>3 DEF Register
<1>7. QED
  BY <1>1, <1>4, <1>5, <1>6, ReplacedOwes DEF Sound

\* Nor does a record that refuses writes.
LEMMA SupersedeOwes ==
    ASSUME NEW r, Sound(r), NEW st, Proper(st), NEW H \in SUBSET Handles,
           PairOwed(Supersede(r, st, H))
    PROVE  PairOwed(r)
<1>1. CASE ~Found(r, st, FALSE)
  BY <1>1 DEF Supersede
<1>2. CASE Found(r, st, FALSE)
  <2>1. PICK q, old, new, p : /\ Superseding(r, q, st, H, old, new, p)
                              /\ q = Supersede(r, st, H)
    BY <1>2, SupersedeShape
  <2>2. PICK n \in DOMAIN q.leg : q.leg[n].rec.alias
    BY <2>1 DEF PairOwed
  <2>3. CASE st.legacy
    BY <2>1, <2>2, <2>3 DEF Superseding, PairOwed
  <2>4. CASE ~st.legacy
    BY <2>1, <2>2, <2>4 DEF Superseding, PairOwed
  <2>5. QED
    BY <2>3, <2>4
<1>3. QED
  BY <1>1, <1>2

\* Nor does the handoff to a generation.
LEMMA HandoffOwes ==
    ASSUME NEW r, Sound(r), NEW st, Proper(st), NEW g \in Gens, NEW H \in SUBSET Handles,
           PairOwed(HandedOver(r, st, g, H))
    PROVE  PairOwed(r)
<1>1. PICK m : m = Supersede(r, st, H)
  OBVIOUS
<1>2. HandedOver(r, st, g, H).leg = m.leg
  BY <1>1 DEF HandedOver
<1>3. PairOwed(m)
  BY <1>2 DEF PairOwed
<1>4. QED
  BY <1>1, <1>3, SupersedeOwes

\* Nor does the claim of the pending records.
LEMMA ClaimedOwes ==
    ASSUME NEW r, Sound(r), PairOwed(Claimed(r))
    PROVE  PairOwed(r)
<1> DEFINE claim(rec) == [rec EXCEPT !.gc = IF @ = "pending" THEN "claimed" ELSE @]
           L == [n \in DOMAIN r.leg |-> [r.leg[n] EXCEPT !.rec = claim(@)]]
<1>1. Claimed(r).leg = L
  BY DEF Claimed
<1>2. \A n \in DOMAIN r.leg : r.leg[n] \in LegacyRecords
  BY RegistryType DEF Sound
<1>3. ASSUME NEW n \in DOMAIN r.leg PROVE L[n].rec.alias = r.leg[n].rec.alias
  BY <1>2 DEF LegacyRecords, Records
<1> HIDE DEF L
<1>4. PICK n \in DOMAIN L : L[n].rec.alias
  BY <1>1 DEF PairOwed
<1>5. DOMAIN L = DOMAIN r.leg
  BY DEF L
<1>6. QED
  BY <1>3, <1>4, <1>5 DEF PairOwed

\* Nor does a release.
LEMMA UnregisterOwes ==
    ASSUME NEW r, Sound(r), NEW h, PairOwed(Unregister(r, h))
    PROVE  PairOwed(r)
<1> DEFINE drop(rec) == [rec EXCEPT !.handles = @ \ {h}]
           L == [n \in DOMAIN r.leg |-> [r.leg[n] EXCEPT !.rec = drop(@)]]
<1>1. Unregister(r, h).leg = L
  BY DEF Unregister
<1>2. \A n \in DOMAIN r.leg : r.leg[n] \in LegacyRecords
  BY RegistryType DEF Sound
<1>3. ASSUME NEW n \in DOMAIN r.leg PROVE L[n].rec.alias = r.leg[n].rec.alias
  BY <1>2 DEF LegacyRecords, Records
<1> HIDE DEF L
<1>4. PICK n \in DOMAIN L : L[n].rec.alias
  BY <1>1 DEF PairOwed
<1>5. DOMAIN L = DOMAIN r.leg
  BY DEF L
<1>6. QED
  BY <1>3, <1>4, <1>5 DEF PairOwed

\* Nor does the removal of a record.
LEMMA RemovedOwes ==
    ASSUME NEW r \in Registries, NEW p \in DOMAIN r.leg, NEW q, q.leg = RemoveAt(r.leg, p),
           PairOwed(q)
    PROVE  PairOwed(r)
<1>1. PICK L : L = RemoveAt(r.leg, p)
  OBVIOUS
<1>2. /\ DOMAIN L = 1 .. (Len(r.leg) - 1)
      /\ \A n \in DOMAIN L : L[n] = IF n < p THEN r.leg[n] ELSE r.leg[n + 1]
  BY <1>1, LegRemoved
<1>3. PICK n \in DOMAIN L : L[n].rec.alias
  BY <1>1 DEF PairOwed
<1>4. DOMAIN r.leg = 1 .. Len(r.leg) /\ Len(r.leg) \in Nat
  BY RegistryType
<1>5. n \in DOMAIN r.leg /\ n + 1 \in DOMAIN r.leg
  BY <1>2, <1>4
<1>6. QED
  BY <1>2, <1>3, <1>5 DEF PairOwed

\* Nor does the registry that a release leaves.
LEMMA FreedOwes ==
    ASSUME NEW r, Sound(r), NEW h, PairOwed(Freed(r, h))
    PROVE  PairOwed(r)
<1> DEFINE gone == {n \in DOMAIN r.leg : Holds(reg.leg[n].rec, h) /\ Freeable(r.leg[n].rec)}
<1>1. r \in Registries /\ DOMAIN r.leg = 1 .. Len(r.leg) /\ Len(r.leg) \in Nat
  BY RegistryType DEF Sound
<1>2. gone \in SUBSET Nat /\ gone \subseteq DOMAIN r.leg
  BY <1>1
<1>3. Freed(r, h).leg = IF gone = {} THEN r.leg ELSE RemoveAt(r.leg, First(gone))
  BY DEF Freed
<1> HIDE DEF gone
<1>4. CASE gone = {}
  BY <1>3, <1>4 DEF PairOwed
<1>5. CASE gone # {}
  <2>1. First(gone) \in DOMAIN r.leg
    BY <1>2, <1>5, LeastOf
  <2>2. QED
    BY <1>1, <1>3, <1>5, <2>1, RemovedOwes
<1>6. QED
  BY <1>4, <1>5

\* An unlink clears every obligation.
LEMMA UnlinkedOwes ==
    ASSUME NEW r, Sound(r)
    PROVE  /\ ~PairOwed(MarkUnlinked(r))
           /\ \A g \in Gens : ~MarkUnlinked(r).gen[g].alias
<1> DEFINE gone(rec) == [rec EXCEPT !.unlinked = TRUE, !.alias = FALSE,
                                    !.gc = IF @ = "none" THEN "pending" ELSE @]
           L == [n \in DOMAIN r.leg |-> [r.leg[n] EXCEPT !.rec = gone(@)]]
<1>1. MarkUnlinked(r).leg = L
  BY DEF MarkUnlinked
<1>2. \A n \in DOMAIN r.leg : r.leg[n] \in LegacyRecords
  BY RegistryType DEF Sound
<1>3. ASSUME NEW n \in DOMAIN r.leg PROVE ~L[n].rec.alias
  <2>1. ASSUME NEW a \in Records PROVE ~gone(a).alias
    BY DEF Records
  <2>2. r.leg[n].rec \in Records
    BY <1>2 DEF LegacyRecords
  <2> HIDE DEF gone
  <2>3. L[n].rec = gone(r.leg[n].rec)
    BY <1>2 DEF LegacyRecords
  <2>4. QED
    BY <2>1, <2>2, <2>3
<1>4. DOMAIN L = DOMAIN r.leg
  OBVIOUS
<1> HIDE DEF L
<1>5. ~PairOwed(MarkUnlinked(r))
  BY <1>1, <1>3, <1>4 DEF PairOwed
<1>6. \A g \in Gens : ~MarkUnlinked(r).gen[g].alias
  BY UnlinkedSound
<1>7. QED
  BY <1>5, <1>6

\* Marking a generation leaves the legacy records alone.
LEMMA MarkLeavesPair ==
    ASSUME NEW r \in Registries, NEW st, Proper(st), ~st.legacy, NEW alias
    PROVE  MarkForGC(r, st, alias).leg = r.leg
  BY DEF MarkForGC, WithRecord

\* The last registry of a step owes no more than the one that is collected.
LEMMA CollectedOwes ==
    ASSUME NEW r, Sound(r), CollectAndReturn(r)
    PROVE  /\ PairOwed(reg') => PairOwed(r)
           /\ \A g \in Gens : reg'.gen[g].alias => r.gen[g].alias
<1>1. CASE reg' = r
  BY <1>1
<1>2. CASE reg' = Claimed(r)
  BY <1>2, ClaimedOwes, ClaimedSound DEF Claims
<1>3. QED
  BY <1>1, <1>2 DEF CollectAndReturn, StartGC

-----------------------------------------------------------------------------
(* What keeps the names.                                                   *)

\* What is durable instead of what is not, of a pairing, is one.
LEMMA PairingDurable ==
    ASSUME NEW d, NEW s, Pairing(d, s), NEW e, NEW x,
           e.data \in {d.data, s.data}, e.meta \in {d.meta, s.meta},
           x.data = e.data, x.meta = e.meta
    PROVE  Pairing(e, x)
  BY DEF Pairing

\* A step that moves no name of the pair, if it syncs the directory as it is.
Held ==
    /\ dir'.data = dir.data /\ dir'.meta = dir.meta
    /\ \/ disk'.data = disk.data /\ disk'.meta = disk.meta
       \/ disk'.data = dir.data /\ disk'.meta = dir.meta
    /\ disk'.cur = None => disk.cur = None /\ (NoneOwed => NoneOwed')

\* The handles that stay open keep storage and map.
KeepMaps ==
    \A h \in Handles : hs'[h].open =>
        hs[h].open /\ SameStorage(hs[h], hs'[h]) /\ hs'[h].meta = hs[h].meta

\* Names that are held and maps that are kept.
LEMMA HeldKeeps ==
    ASSUME NamesInv, Closed', limbo' = limbo, ~limbo => Held /\ KeepMaps
    PROVE  NamesInv'
<1>1. SUFFICES ASSUME ~limbo
               PROVE  /\ disk'.cur = None => Pairing(dir', disk') /\ NoneOwed'
                      /\ OwnMaps'
  BY DEF NamesInv
<1>2. disk'.cur = None => Pairing(dir', disk') /\ NoneOwed'
  BY <1>1 DEF NamesInv, Held, Pairing
<1>3. OwnMaps'
  BY <1>1 DEF NamesInv, Held, KeepMaps, OwnMaps, OwnMap, SameStorage
<1>4. QED
  BY <1>2, <1>3

\* No unlink is in progress, or no handle is opened under it.
LEMMA ClosedStays ==
    ASSUME Closed, \/ job' = NoJob
                   \/ job'.op = job.op /\ \A h \in Handles : hs'[h].open => hs[h].open
    PROVE  Closed'
  BY NoJobType DEF Closed

LEMMA QuietNames ==
    ASSUME StorageInv, NamesInv, ~UnlinkWhileOpen,
           \/ \E op \in {"lookup", "open", "unlink", "compact"} : Begin(op)
           \/ GCDone \/ CompactSkips \/ UNCHANGED vars
    PROVE  NamesInv'
<1>1. UNCHANGED <<dir, disk, reg, hs, limbo>>
  BY DEF Begin, GCDone, CompactSkips, vars
<1>2. Held /\ KeepMaps
  BY <1>1 DEF Held, KeepMaps, SameStorage, NoneOwed
<1>3. Closed'
  <2>1. ASSUME NEW op \in {"lookup", "open", "unlink", "compact"}, Begin(op) PROVE Closed'
    BY <2>1 DEF Begin, Closed, NoJob
  <2>2. CASE GCDone \/ CompactSkips \/ UNCHANGED vars
    BY <1>1, <2>2, ClosedStays DEF GCDone, CompactSkips, Return, vars, NamesInv
  <2>3. QED
    BY <2>1, <2>2
<1>4. QED
  BY <1>1, <1>2, <1>3, HeldKeeps

\* The map of an open handle's storage is its own.
LEMMA OwnMeta ==
    ASSUME StorageInv, ~limbo, OwnMaps, NEW h \in Handles, hs[h].open,
           MetaOf(StorageOf(h), dir) # None
    PROVE  MetaOf(StorageOf(h), dir) = hs[h].data
  BY DEF MetaOf, StorageOf, OwnMaps, OwnMap, StorageInv, OpenGenerationsKept

LEMMA RefreshNames ==
    ASSUME StorageInv, NamesInv, NEW h \in Handles, Refresh(h)
    PROVE  NamesInv'
<1>1. UNCHANGED <<dir, disk, reg, job, limbo>> /\ hs[h].open
      /\ hs' = [hs EXCEPT ![h].meta = MetaOf(StorageOf(h), dir), ![h].stale = FALSE]
      /\ MetaOf(StorageOf(h), dir) # None
  BY DEF Refresh
<1>2. \A x \in Handles : SameStorage(hs[x], hs'[x])
  BY RefreshKeeps DEF Rereads
<1>3. Held
  BY <1>1 DEF Held, NoneOwed
<1>4. Closed'
  BY <1>1, <1>2, ClosedStays DEF NamesInv, SameStorage
<1>5. ASSUME ~limbo PROVE KeepMaps
  <2>1. hs[h].meta = hs[h].data /\ MetaOf(StorageOf(h), dir) = hs[h].data
    BY <1>1, <1>5, OwnMeta DEF NamesInv, OwnMaps, OwnMap
  <2>2. hs \in [Handles -> HandleStates]
    BY TypedParts DEF StorageInv
  <2>3. hs'[h].meta = MetaOf(StorageOf(h), dir) /\ \A x \in Handles \ {h} : hs'[x] = hs[x]
    BY <1>1, <2>2 DEF HandleStates
  <2>4. QED
    BY <1>2, <2>1, <2>3 DEF KeepMaps, SameStorage
<1>6. QED
  BY <1>1, <1>3, <1>4, <1>5, HeldKeeps

LEMMA RecoveryNames ==
    ASSUME StorageInv, NamesInv, Recover \/ RecoverFails
    PROVE  NamesInv'
<1>1. Recovered
  BY RecoveryShape
<1>2. pc = "recover"
  BY DEF Recover, RecoverFails
<1>3. Typed /\ Working /\ Sound(reg)
  BY DEF StorageInv, OnRecords
<1>4. job.op # "none"
  BY <1>2, <1>3 DEF Working
<1>5. job.st.legacy <=> dir.cur = None
  BY <1>3, <1>4, JobStorage
<1>6. disk' = disk \/ (dir.cur # None /\ disk' = dir)
  BY <1>1 DEF Recovered
<1>7. UNCHANGED <<dir, hs, job, limbo>>
  BY <1>1 DEF Recovered
<1>8. CASE dir.cur = None
  <2>1. \A g \in Gens : reg'.gen[g].alias => reg.gen[g].alias
    BY <1>1, <1>8 DEF Recovered, RecoveryMarked
  <2>2. PairOwed(reg') => PairOwed(reg)
    <3>1. CASE reg' = reg
      BY <3>1
    <3>2. ASSUME NEW G \in SUBSET Gens, NEW q, q = MarkedGens(MarkedPair(reg, job.st), G, ~job.st.legacy),
                 reg' \in {q, Claimed(q)}
          PROVE  PairOwed(reg') => PairOwed(reg)
      <4>1. PICK alias \in BOOLEAN : alias = ~job.st.legacy
        BY <1>5
      <4>2. MarkedPair(reg, job.st) = reg
        BY <1>5, <1>8 DEF MarkedPair, AliasesCurrent
      <4>3. Sound(q) /\ q.leg = reg.leg
        <5>1. q = MarkedGens(reg, G, alias)
          BY <3>2, <4>1, <4>2
        <5>2. QED
          BY <1>3, <5>1, MarkedGensSound
      <4>4. PairOwed(q) => PairOwed(reg)
        BY <4>3 DEF PairOwed
      <4>5. QED
        BY <3>2, <4>3, <4>4, ClaimedOwes
    <3>3. Inactive \subseteq Gens
      BY DEF Inactive
    <3>4. QED
      BY <3>1, <3>2, <3>3 DEF Recover, RecoverFails, StartGC
  <2>3. disk' = disk
    BY <1>6, <1>8
  <2>4. NoneOwed => NoneOwed'
    BY <1>7, <2>1, <2>2 DEF NoneOwed
  <2>5. Held
    BY <1>7, <2>3, <2>4 DEF Held
  <2>6. QED
    BY <1>7, <2>5, HeldKeeps, ClosedStays DEF KeepMaps, SameStorage, NamesInv
<1>9. CASE dir.cur # None
  <2>1. disk'.cur = None => disk' = disk
    BY <1>6, <1>9
  <2>2. disk'.cur = None => reg' = reg
    <3>1. ~job.st.legacy
      BY <1>5, <1>9
    <3>2. QED
      BY <1>9, <3>1 DEF Recover, RecoverFails
  <2>3. Held
    BY <1>6, <1>7, <2>1, <2>2 DEF Held, NoneOwed
  <2>4. QED
    BY <1>7, <2>3, HeldKeeps, ClosedStays DEF KeepMaps, SameStorage, NamesInv
<1>10. QED
  BY <1>8, <1>9

\* What the collection of storage v may do to the names.
NamesTidied(v, rec, o) ==
    /\ o.dir.cur = dir.cur /\ o.disk.cur \in {disk.cur, dir.cur}
    /\ \/ /\ o.dir.data = dir.data /\ o.dir.meta = dir.meta
          /\ \/ o.disk.data = disk.data /\ o.disk.meta = disk.meta
             \/ o.disk.data = dir.data /\ o.disk.meta = dir.meta
       \/ rec.alias /\ ~LegacyRefs /\ dir.cur # None /\ (v.legacy \/ v.ino # dir.cur)

LEMMA DisposeNames ==
    ASSUME NEW d \in Dirs, NEW s \in Dirs, NEW v, ~v.legacy => v.ino \in Gens,
           NEW rec, NEW o \in AfterAliases(v, rec, d, s)
    PROVE  /\ o.dir.data = d.data /\ o.dir.meta = d.meta
           /\ \/ o.disk.data = s.data /\ o.disk.meta = s.meta
              \/ o.disk.data = d.data /\ o.disk.meta = d.meta
<1>1. CASE \E r \in BOOLEAN : o = [dir |-> d, disk |-> s, retire |-> r, failed |-> FALSE]
  BY <1>1
<1>2. ASSUME ~v.legacy, NEW e \in RemoveGeneration(d, s, v.ino),
             o = [dir |-> e.dir, disk |-> e.disk, retire |-> e.ok, failed |-> ~e.ok]
      PROVE  /\ o.dir.data = d.data /\ o.dir.meta = d.meta
             /\ \/ o.disk.data = s.data /\ o.disk.meta = s.meta
                \/ o.disk.data = d.data /\ o.disk.meta = d.meta
  <2>1. Removes(d, s, v.ino, e)
    BY <1>2, RemoveType
  <2>2. QED
    BY <1>2, <2>1 DEF Removes
<1>3. QED
  BY <1>1, <1>2 DEF AfterAliases

LEMMA CollectNames ==
    ASSUME dir \in Dirs, disk \in Dirs, NEW v \in Storages, ~v.legacy => v.ino \in Gens,
           NEW rec \in Records, NEW o \in GCOutcomes(v, rec)
    PROVE  NamesTidied(v, rec, o)
<1>1. o.dir.cur = dir.cur /\ o.disk.cur \in {disk.cur, dir.cur}
  BY CollectType DEF Collects
<1>2. CASE \E f \in BOOLEAN : o \in Kept(f)
  BY <1>1, <1>2 DEF Kept, NamesTidied
<1>3. ASSUME NEW active \in Resolve(dir),
             o \in IF ~(rec.unlinked /\ v.legacy) /\ SameGeneration(v, active) THEN Kept(FALSE)
                   ELSE IF ~rec.alias THEN AfterAliases(v, rec, dir, disk)
                   ELSE IF LegacyRefs \/ active.legacy THEN Kept(FALSE)
                   ELSE UNION {IF e.ok THEN AfterAliases(v, rec, e.dir, e.disk)
                               ELSE {[dir |-> e.dir, disk |-> e.disk, retire |-> FALSE,
                                      failed |-> TRUE]} :
                                  e \in InstallAliases(dir, disk, active.ino)}
      PROVE  NamesTidied(v, rec, o)
  <2>1. CASE o \in Kept(FALSE)
    BY <1>2, <2>1
  <2>2. CASE ~rec.alias /\ o \in AfterAliases(v, rec, dir, disk)
    BY <1>1, <2>2, DisposeNames DEF NamesTidied
  <2>3. CASE /\ rec.alias /\ ~LegacyRefs /\ ~active.legacy
             /\ ~(~(rec.unlinked /\ v.legacy) /\ SameGeneration(v, active))
    <3>1. dir.cur # None /\ active.ino = dir.cur
      BY <1>3, <2>3, ResolveType
    <3>2. v.legacy \/ v.ino # dir.cur
      BY <2>3, <3>1, ResolveType DEF SameGeneration, Storages
    <3>3. QED
      BY <1>1, <2>3, <3>1, <3>2 DEF NamesTidied
  <2>4. QED
    BY <1>3, <2>1, <2>2, <2>3
<1>4. QED
  BY <1>2, <1>3 DEF GCOutcomes

\* A collection keeps the names, or installs the aliases it owed.
LEMMA TidiedKeeps ==
    ASSUME FileInv, StorageInv', NamesInv, NEW v, NEW rec, NEW o, NamesTidied(v, rec, o),
           dir' = o.dir, disk' = o.disk, UNCHANGED <<hs, job, limbo>>,
           rec.alias /\ (v.legacy \/ v.ino # dir.cur) => ~NoneOwed,
           NoneOwed => NoneOwed'
    PROVE  NamesInv'
<1>1. Closed'
  BY ClosedStays DEF NamesInv
<1>2. CASE limbo
  BY <1>1, <1>2 DEF NamesInv
<1>3. CASE ~limbo
  <2>1. dir.cur = None => disk.cur = None
    BY <1>3 DEF FileInv, PointersKept, Calm
  <2>2. disk'.cur = None => disk.cur = None
    BY <2>1 DEF NamesTidied
  <2>3. CASE dir'.data = dir.data /\ dir'.meta = dir.meta
             /\ \/ disk'.data = disk.data /\ disk'.meta = disk.meta
                \/ disk'.data = dir.data /\ disk'.meta = dir.meta
    <3>1. Held
      BY <2>2, <2>3 DEF Held
    <3>2. KeepMaps
      BY DEF KeepMaps, SameStorage
    <3>3. QED
      BY <1>1, <3>1, <3>2, HeldKeeps
  <2>4. CASE rec.alias /\ ~LegacyRefs /\ dir.cur # None /\ (v.legacy \/ v.ino # dir.cur)
    <3>1. disk'.cur # None
      BY <1>3, <2>4 DEF NamesInv, NamesTidied
    <3>2. \A h \in Handles : hs[h].open => ~hs[h].legacy
      BY <2>4, LegacyRefsMeans DEF FileInv
    <3>3. OwnMaps'
      BY <1>3, <3>2 DEF NamesInv, OwnMaps, OwnMap
    <3>4. QED
      BY <1>1, <1>3, <3>1, <3>3 DEF NamesInv
  <2>5. QED
    BY <2>3, <2>4 DEF NamesTidied
<1>4. QED
  BY <1>2, <1>3, TypedParts DEF FileInv, StorageInv

LEMMA GCGenerationNames ==
    ASSUME FileInv, StorageInv', NamesInv, NEW g \in Gens, GCGeneration(g)
    PROVE  NamesInv'
<1>1. dir \in Dirs /\ disk \in Dirs /\ reg \in Registries /\ reg.gen[g] \in Records
  BY TypedParts, RegistryType DEF FileInv, StorageInv
<1>2. PICK v : v = Generation(g)
  OBVIOUS
<1>3. v.legacy = FALSE /\ v.ino = g /\ v \in Storages
  BY <1>2 DEF Generation, Storages, Names, Inodes
<1>4. PICK o \in GCOutcomes(v, reg.gen[g]) :
        /\ SetIO(o)
        /\ reg' = [reg EXCEPT !.gen[g] =
                      IF o.retire THEN NoRecord ELSE [@ EXCEPT !.gc = "pending"]]
  BY <1>2 DEF GCGeneration
<1>5. NamesTidied(v, reg.gen[g], o)
  BY <1>1, <1>3, CollectNames
<1>6. dir' = o.dir /\ disk' = o.disk /\ UNCHANGED <<hs, job, limbo>>
  BY <1>4 DEF SetIO, GCGeneration
<1>7. reg'.leg = reg.leg
  BY <1>4
<1>8. \A x \in Gens : reg'.gen[x].alias => reg.gen[x].alias
  <2>1. CollectedOrWaits(g)
    BY GenerationCollected, CollectedParts DEF FileInv
  <2>2. QED
    BY <2>1, NoRecordType DEF CollectedOrWaits
<1>9. NoneOwed => NoneOwed'
  BY <1>5, <1>6, <1>7, <1>8 DEF NoneOwed, PairOwed, NamesTidied
<1>10. reg.gen[g].alias /\ v.ino # dir.cur => ~NoneOwed
  BY <1>3 DEF NoneOwed
<1>11. QED
  BY <1>3, <1>5, <1>6, <1>9, <1>10, TidiedKeeps

LEMMA GCLegacyNames ==
    ASSUME FileInv, StorageInv', NamesInv, NEW n, GCLegacy(n)
    PROVE  NamesInv'
<1>1. /\ dir \in Dirs /\ disk \in Dirs /\ reg \in Registries /\ n \in DOMAIN reg.leg
      /\ reg.leg[n].rec \in Records /\ reg.leg[n].ino \in Names
  BY TypedParts, RegistryType DEF FileInv, StorageInv, GCLegacy
<1>2. PICK v : v = Legacy(reg.leg[n].ino)
  OBVIOUS
<1>3. v.legacy = TRUE /\ v \in Storages
  BY <1>1, <1>2 DEF Legacy, Storages
<1>4. PICK o \in GCOutcomes(v, reg.leg[n].rec) :
        /\ SetIO(o)
        /\ reg' = [reg EXCEPT !.leg =
                      IF o.retire THEN RemoveAt(@, n) ELSE [@ EXCEPT ![n].rec.gc = "pending"]]
  BY <1>2 DEF GCLegacy
<1>5. NamesTidied(v, reg.leg[n].rec, o)
  BY <1>1, <1>3, CollectNames
<1>6. dir' = o.dir /\ disk' = o.disk /\ UNCHANGED <<hs, job, limbo>>
  BY <1>4 DEF SetIO, GCLegacy
<1>7. reg'.gen = reg.gen
  BY LegacyCollected DEF PairCollected, FileInv
<1>8. PairOwed(reg') => PairOwed(reg)
  <2>1. CASE o.retire
    <3>1. reg'.leg = RemoveAt(reg.leg, n)
      BY <1>1, <1>4, <2>1
    <3>2. QED
      BY <1>1, <3>1, RemovedOwes
  <2>2. CASE ~o.retire
    <3>1. reg' = [reg EXCEPT !.leg = [@ EXCEPT ![n].rec.gc = "pending"]]
      BY <1>4, <2>2
    <3>2. PICK rec : rec = [reg.leg[n].rec EXCEPT !.gc = "pending"]
      OBVIOUS
    <3>3. rec \in Records /\ rec.alias = reg.leg[n].rec.alias
      BY <1>1, <3>2 DEF Records
    <3>4. reg' = [reg EXCEPT !.leg[n].rec = rec]
      BY <1>1, <3>1, <3>2
    <3>5. DOMAIN reg'.leg = DOMAIN reg.leg
          /\ \A m \in DOMAIN reg.leg : reg'.leg[m].rec = IF m = n THEN rec ELSE reg.leg[m].rec
      BY <1>1, <3>3, <3>4, LegReplaced
    <3>6. QED
      BY <3>3, <3>5 DEF PairOwed
  <2>3. QED
    BY <2>1, <2>2
<1>9. NoneOwed => NoneOwed'
  BY <1>5, <1>6, <1>7, <1>8 DEF NoneOwed, NamesTidied
<1>10. reg.leg[n].rec.alias => ~NoneOwed
  BY <1>1 DEF NoneOwed, PairOwed
<1>11. QED
  BY <1>3, <1>5, <1>6, <1>9, <1>10, TidiedKeeps

\* What saving the map of st does to the names.
NamesOfSave(d, s, st, o) ==
    /\ o.dir.cur = d.cur /\ o.disk.cur \in {s.cur, d.cur} /\ o.dir.data = d.data
    /\ st.legacy =>
         /\ o.dir.meta \in {d.meta, st.ino}
         /\ o.disk = s \/ (o.disk = o.dir /\ o.dir.meta = st.ino)
         /\ o.ok => o.dir.meta = st.ino /\ o.disk = o.dir
    /\ ~st.legacy /\ d.data # st.ino =>
         /\ o.disk.cur = s.cur /\ o.disk.data = s.data
         /\ d.meta # st.ino => o.dir.meta = d.meta
         /\ s.meta # st.ino => o.disk.meta = s.meta

LEMMA SaveNames ==
    ASSUME NEW d \in Dirs, NEW s \in Dirs, NEW st \in Storages, NEW o \in SaveMap(d, s, st)
    PROVE  NamesOfSave(d, s, st, o)
<1>1. o.dir.cur = d.cur /\ o.dir.data = d.data /\ o.disk.cur \in {s.cur, d.cur}
  BY SaveType DEF Saves
<1>2. CASE st.legacy
  <2>1. PICK d1 : d1 = [d EXCEPT !.meta = st.ino]
    OBVIOUS
  <2>2. d1.meta = st.ino
    BY <2>1, DirType DEF Storages
  <2>3. o \in {Synced(d1), Failed(d, s), Failed(d1, s)}
    BY <1>2, <2>1 DEF SaveMap
  <2>4. QED
    BY <1>1, <1>2, <2>2, <2>3 DEF NamesOfSave, Synced, Failed
<1>3. CASE ~st.legacy /\ d.data # st.ino
  <2> DEFINE unlinked(x) == [x EXCEPT !.meta = IF @ = st.ino THEN Stray ELSE @]
  <2>1. PICK d1 : d1 = unlinked(d)
    OBVIOUS
  <2>2. PICK s1 : s1 = unlinked(s)
    OBVIOUS
  <2>3. o \in {Failed(d, s), Failed(d1, s1), [dir |-> d1, disk |-> s1, ok |-> TRUE]}
    BY <1>3, <2>1, <2>2 DEF SaveMap
  <2>4. d1.meta = IF d.meta = st.ino THEN Stray ELSE d.meta
    BY <2>1 DEF Dirs
  <2>5. /\ s1.meta = IF s.meta = st.ino THEN Stray ELSE s.meta
        /\ s1.cur = s.cur /\ s1.data = s.data
    BY <2>2 DEF Dirs
  <2> HIDE DEF unlinked
  <2>6. QED
    BY <1>1, <1>3, <2>3, <2>4, <2>5 DEF NamesOfSave, Failed
<1>4. CASE ~st.legacy /\ d.data = st.ino
  BY <1>1, <1>4 DEF NamesOfSave
<1>5. QED
  BY <1>2, <1>3, <1>4

\* The map saved, if any, is that of a generation or of the pair.
Owned(st) ==
    /\ Proper(st)
    /\ st.legacy => st.ino = dir.data /\ st.ino # None

Saved(st) ==
    \E o \in SaveMap(dir, disk, st) \cup {[dir |-> dir, disk |-> disk, ok |-> TRUE]} : SetIO(o)

LEMMA SavedOwn ==
    ASSUME FileInv, NamesInv, ~limbo, NEW st, Owned(st), Saved(st)
    PROVE  /\ dir'.cur = dir.cur /\ dir'.data = dir.data
           /\ disk'.cur = None => disk.cur = None /\ Pairing(dir', disk')
           /\ \A h \in Handles : hs[h].open /\ hs[h].legacy => dir'.meta = dir.meta
<1>1. dir \in Dirs /\ disk \in Dirs /\ st \in Storages /\ Gens \cap Incs = {} /\ None \notin Gens
  BY TypedParts, ConstantsAssumption DEF FileInv, StorageInv, Owned, Proper, Inodes
<1>2. dir.cur = None => disk.cur = None
  BY DEF FileInv, PointersKept, Calm
<1>3. CASE UNCHANGED <<dir, disk>>
  BY <1>3 DEF NamesInv
<1>4. ASSUME NEW o \in SaveMap(dir, disk, st), SetIO(o)
      PROVE  /\ dir'.cur = dir.cur /\ dir'.data = dir.data
             /\ disk'.cur = None => disk.cur = None /\ Pairing(dir', disk')
             /\ \A h \in Handles : hs[h].open /\ hs[h].legacy => dir'.meta = dir.meta
  <2>1. NamesOfSave(dir, disk, st, o) /\ dir' = o.dir /\ disk' = o.disk
    BY <1>1, <1>4, SaveNames DEF SetIO
  <2>2. dir'.cur = dir.cur /\ dir'.data = dir.data /\ (disk'.cur = None => disk.cur = None)
    BY <1>2, <2>1 DEF NamesOfSave
  <2>3. ASSUME disk'.cur = None PROVE Pairing(dir', disk')
    <3>1. Pairing(dir, disk)
      BY <2>2, <2>3 DEF NamesInv
    <3>2. CASE st.legacy
      BY <2>1, <2>2, <3>1, <3>2 DEF Pairing, NamesOfSave, Owned
    <3>3. CASE ~st.legacy
      BY <1>1, <2>1, <2>2, <3>1, <3>3 DEF Pairing, NamesOfSave, Owned, Proper
    <3>4. QED
      BY <3>2, <3>3
  <2>4. ASSUME NEW h \in Handles, hs[h].open, hs[h].legacy PROVE dir'.meta = dir.meta
    <3>1. dir.data \in Incs /\ dir.meta = dir.data
      BY <2>4 DEF NamesInv, OwnMaps, OwnMap
    <3>2. QED
      BY <1>1, <2>1, <3>1 DEF NamesOfSave, Owned, Proper
  <2>5. QED
    BY <2>2, <2>3, <2>4
<1>5. QED
  BY <1>3, <1>4 DEF Saved, SetIO

\* Saving one's own map keeps the names of the others.
LEMMA SavedKeeps ==
    ASSUME FileInv, NamesInv, Closed', UNCHANGED <<reg, limbo>>,
           ~limbo => KeepMaps /\ \E st : Owned(st) /\ Saved(st)
    PROVE  NamesInv'
<1>1. SUFFICES ASSUME ~limbo
               PROVE  /\ disk'.cur = None => Pairing(dir', disk') /\ NoneOwed'
                      /\ OwnMaps'
  BY DEF NamesInv
<1>2. PICK st : Owned(st) /\ Saved(st)
  BY <1>1
<1>3. /\ dir'.cur = dir.cur /\ dir'.data = dir.data
      /\ disk'.cur = None => disk.cur = None /\ Pairing(dir', disk')
      /\ \A h \in Handles : hs[h].open /\ hs[h].legacy => dir'.meta = dir.meta
  BY <1>1, <1>2, SavedOwn
<1>4. disk'.cur = None => NoneOwed'
  BY <1>1, <1>3 DEF NamesInv, NoneOwed
<1>5. OwnMaps'
  BY <1>1, <1>3 DEF NamesInv, KeepMaps, OwnMaps, OwnMap, SameStorage
<1>6. QED
  BY <1>3, <1>4, <1>5

LEMMA WriteNames ==
    ASSUME FileInv, NamesInv, NEW h \in Handles, Write(h) \/ WriteFails(h)
    PROVE  NamesInv'
<1>1. PICK m : m = IF hs[h].stale THEN MetaOf(StorageOf(h), dir) ELSE hs[h].meta
  OBVIOUS
<1>2. PICK st : st = [StorageOf(h) EXCEPT !.ino = m]
  OBVIOUS
<1>3. /\ hs[h].open /\ m # None /\ UNCHANGED <<reg, job, limbo>>
      /\ Saved(st)
      /\ \/ \E b : hs' = [MarkStale(Siblings(h)) EXCEPT ![h].meta = m, ![h].stale = b]
         \/ hs' = [MarkStale(Siblings(h)) EXCEPT ![h].meta = m]
  BY <1>1, <1>2 DEF Write, WriteFails, Saved
<1>4. \A x \in Handles : SameStorage(hs[x], hs'[x])
  BY WriteKeeps DEF Rereads, FileInv
<1>5. Closed'
  BY <1>3, <1>4, ClosedStays DEF NamesInv, SameStorage
<1>6. ASSUME ~limbo PROVE KeepMaps /\ Owned(st)
  <2>1. m = hs[h].data
    BY <1>1, <1>3, <1>6, OwnMeta DEF NamesInv, OwnMaps, OwnMap, FileInv
  <2>2. hs \in [Handles -> HandleStates] /\ MarkStale(Siblings(h)) \in [Handles -> HandleStates]
        /\ \A x \in Handles : MarkStale(Siblings(h))[x].meta = hs[x].meta
    BY TypedParts, StaleType DEF FileInv, StorageInv
  <2>3. PICK S : S = MarkStale(Siblings(h))
    OBVIOUS
  <2>4. \A x \in Handles : hs'[x].meta = IF x = h THEN m ELSE hs[x].meta
    <3>1. \/ \E b : hs' = [S EXCEPT ![h].meta = m, ![h].stale = b]
          \/ hs' = [S EXCEPT ![h].meta = m]
      BY <1>3, <2>3
    <3>2. \A x \in Handles : S[x].meta = hs[x].meta
      BY <2>2, <2>3
    <3>3. S \in [Handles -> HandleStates]
      BY <2>2, <2>3
    <3>4. QED
      BY <3>1, <3>2, <3>3 DEF HandleStates
  <2>5. KeepMaps
    BY <1>3, <1>4, <1>6, <2>1, <2>4 DEF KeepMaps, NamesInv, OwnMaps, OwnMap, SameStorage
  <2>6. st.legacy = hs[h].legacy /\ st.ino = hs[h].data /\ st \in Storages
    BY <1>2, <2>1, HandleMeta, TypedParts DEF StorageOf, FileInv, StorageInv
  <2>7. hs[h].legacy => hs[h].data \in Incs /\ dir.data = hs[h].data
    BY <1>3, <1>6 DEF NamesInv, OwnMaps, OwnMap
  <2>8. Owned(st)
    BY <1>3, <2>6, <2>7, ConstantsAssumption
    DEF Owned, Proper, FileInv, StorageInv, NamesKnown, Inodes
  <2>9. QED
    BY <2>5, <2>8
<1>7. QED
  BY <1>3, <1>5, <1>6, SavedKeeps

LEMMA StaleMaps ==
    ASSUME hs \in [Handles -> HandleStates], NEW H, hs' = MarkStale(H)
    PROVE  KeepMaps /\ \A h \in Handles : SameStorage(hs[h], hs'[h])
  BY StaleType DEF KeepMaps, SameStorage

LEMMA TruncatePathNames ==
    ASSUME FileInv, NamesInv, TruncatePath
    PROVE  NamesInv'
<1>1. PICK st \in Resolve(dir) : Saved(st) /\ hs' = MarkStale(HandlesOf(st))
  BY DEF TruncatePath, Saved
<1>2. Exists(dir) /\ UNCHANGED <<reg, job, limbo>>
  BY DEF TruncatePath
<1>3. dir \in Dirs /\ hs \in [Handles -> HandleStates]
  BY TypedParts DEF FileInv, StorageInv
<1>4. Owned(st)
  BY <1>1, <1>2, <1>3, ResolveType DEF Owned, Proper, Exists
<1>5. KeepMaps /\ \A h \in Handles : SameStorage(hs[h], hs'[h])
  BY <1>1, <1>3, StaleMaps
<1>6. Closed'
  BY <1>2, <1>5, ClosedStays DEF NamesInv, SameStorage
<1>7. QED
  BY <1>1, <1>2, <1>4, <1>5, <1>6, SavedKeeps

LEMMA OpenFailsNames ==
    ASSUME FileInv, NamesInv, NEW trunc \in BOOLEAN, OpenFails(trunc)
    PROVE  NamesInv'
<1>1. job.op = "open" /\ job' = NoJob /\ UNCHANGED <<reg, limbo>>
  BY DEF OpenFails, Return
<1>2. PICK o \in Truncated(job.st, trunc) : SetIO(o)
  BY DEF OpenFails
<1>3. Owned(job.st)
  BY <1>1, JobStorage DEF FileInv, StorageInv, Owned
<1>4. Saved(job.st)
  BY <1>2, <1>3, TruncatedNames DEF Saved, Owned, Proper, FileInv
<1>5. PICK H : hs' = MarkStale(H)
  BY DEF OpenFails
<1>6. KeepMaps
  BY <1>5, StaleMaps, TypedParts DEF FileInv, StorageInv
<1>7. Closed'
  BY <1>1, ClosedStays DEF NamesInv
<1>8. QED
  BY <1>1, <1>3, <1>4, <1>6, <1>7, SavedKeeps

LEMMA OpenNames ==
    ASSUME FileInv, FileInv', NamesInv, NEW h \in Handles, NEW w \in BOOLEAN, NEW trunc \in BOOLEAN,
           Open(h, w, trunc)
    PROVE  NamesInv'
<1>1. job.op = "open" /\ job' = NoJob /\ limbo' = limbo /\ CanGet(reg, job.st, TRUE)
      /\ reg' = Register(reg, job.st, h)
  BY DEF Open, Return
<1>0. PICK S : (\E H : S = MarkStale(H)) /\ \E o \in Truncated(job.st, trunc) :
        /\ SetIO(o) /\ MetaOf(job.st, o.dir) # None
        /\ hs' = [S EXCEPT ![h] = NewHandle(job.st, o.dir, w)]
  BY DEF Open
<1>2. PICK o \in Truncated(job.st, trunc) :
        /\ SetIO(o) /\ MetaOf(job.st, o.dir) # None
        /\ \E H : S = MarkStale(H)
        /\ hs' = [S EXCEPT ![h] = NewHandle(job.st, o.dir, w)]
  BY <1>0
<1>3. /\ Proper(job.st) /\ Owned(job.st)
      /\ job.st.legacy => job.st.ino = dir.data /\ dir.cur = None
  BY <1>1, JobStorage DEF FileInv, StorageInv, Owned
<1>4. /\ hs'[h].open /\ hs'[h].legacy = job.st.legacy /\ hs'[h].data = job.st.ino
      /\ \A x \in Handles \ {h} : SameStorage(hs[x], hs'[x])
      /\ \A g \in Gens : reg'.gen[g].alias = reg.gen[g].alias
  BY OpenKeeps DEF FileInv
<1>5. hs \in [Handles -> HandleStates] /\ dir' = o.dir /\ dir' \in Dirs
  <2>1. hs \in [Handles -> HandleStates]
    BY TypedParts DEF FileInv, StorageInv
  <2>2. dir' \in Dirs
    BY DEF FileInv, StorageInv, Typed, TypeOK
  <2>3. QED
    BY <1>2, <2>1, <2>2 DEF SetIO
<1>6. S \in [Handles -> HandleStates] /\ \A x \in Handles : S[x].meta = hs[x].meta
  BY <1>2, <1>5, StaleType
<1>7. hs'[h].meta = MetaOf(job.st, dir')
  BY <1>2, <1>5, <1>6 DEF NewHandle
<1>8. \A x \in Handles \ {h} : hs'[x].meta = hs[x].meta
  BY <1>2, <1>6
<1>9. Closed'
  BY <1>1, ClosedStays DEF NamesInv
<1>10. SUFFICES ASSUME ~limbo
                PROVE  /\ disk'.cur = None => Pairing(dir', disk') /\ NoneOwed'
                       /\ OwnMaps'
  BY <1>1, <1>9 DEF NamesInv
<1>11. Saved(job.st)
  BY <1>2, <1>3, TruncatedNames DEF Saved, Owned, Proper, FileInv
<1>12. /\ dir'.cur = dir.cur /\ dir'.data = dir.data
       /\ disk'.cur = None => disk.cur = None /\ Pairing(dir', disk')
       /\ \A x \in Handles : hs[x].open /\ hs[x].legacy => dir'.meta = dir.meta
  BY <1>3, <1>10, <1>11, SavedOwn
<1>13. PairOwed(reg') => PairOwed(reg)
  BY <1>1, <1>3, RegisterOwes DEF FileInv, StorageInv, OnRecords
<1>14. disk'.cur = None => NoneOwed'
  BY <1>4, <1>10, <1>12, <1>13 DEF NamesInv, NoneOwed
<1>15. OwnMap(h)'
  <2>1. CASE job.st.legacy
    <3>1. dir'.cur = None
      BY <1>3, <1>12, <2>1
    <3>2. disk'.cur = None
      BY <1>1, <1>10, <3>1 DEF FileInv, PointersKept, Calm
    <3>3. Pairing(dir', disk')
      BY <1>12, <3>2
    <3>4. hs'[h].meta = dir'.meta /\ dir'.meta # None
      BY <1>2, <1>5, <1>7, <2>1 DEF MetaOf
    <3>5. QED
      BY <1>3, <1>4, <1>12, <2>1, <3>3, <3>4 DEF Pairing, OwnMap, Owned
  <2>2. CASE ~job.st.legacy
    BY <1>2, <1>4, <1>5, <1>7, <2>2 DEF MetaOf, OwnMap
  <2>3. QED
    BY <2>1, <2>2
<1>16. ASSUME NEW x \in Handles \ {h}, hs'[x].open PROVE OwnMap(x)'
  BY <1>4, <1>8, <1>10, <1>12, <1>16 DEF NamesInv, OwnMaps, OwnMap, SameStorage
<1>17. QED
  BY <1>12, <1>14, <1>15, <1>16 DEF OwnMaps

LEMMA CreateNames ==
    ASSUME FileInv, NamesInv, ~TornCreate, NEW h \in Handles, NEW i \in Inodes, NEW w \in BOOLEAN,
           Create(h, i, w)
    PROVE  NamesInv'
<1>1. PICK st : st = Legacy(i)
  OBVIOUS
<1>2. PICK d1 : d1 = [dir EXCEPT !.data = i]
  OBVIOUS
<1>3. /\ dir \in Dirs /\ disk \in Dirs /\ i \in Names
      /\ hs \in [Handles -> HandleStates] /\ st \in Storages /\ st.legacy = TRUE /\ st.ino = i
      /\ None \notin Inodes /\ Sound(reg)
  BY <1>1, TypedParts, ConstantsAssumption
  DEF FileInv, StorageInv, Names, Inodes, Legacy, Storages, OnRecords
<1>4. PICK o \in SaveMap(d1, disk, st) :
        /\ SetIO(o)
        /\ \/ /\ o.ok /\ CanGet(reg, st, TRUE) /\ reg' = Register(reg, st, h)
              /\ hs' = [hs EXCEPT ![h] = NewHandle(st, o.dir, w)]
           \/ (o.ok \/ dir.meta = None) /\ UNCHANGED <<reg, hs>>
  BY <1>1, <1>2 DEF Create
<1>5. /\ pc = "idle" /\ UNCHANGED <<job, limbo>> /\ dir.cur = None /\ ~hs[h].open
      /\ None \in {dir.data, dir.meta} /\ IF dir.data = None THEN i \in Incs ELSE i = dir.data
  BY DEF Create, NoEntry
<1>6. job = NoJob
  BY <1>5 DEF FileInv, StorageInv, Working
<1>7. Closed'
  BY <1>5, <1>6, NoJobType DEF Closed
<1>8. SUFFICES ASSUME ~limbo
               PROVE  /\ disk'.cur = None => Pairing(dir', disk') /\ NoneOwed'
                      /\ OwnMaps'
  BY <1>5, <1>7 DEF NamesInv
<1>9. d1 \in Dirs /\ d1.cur = None /\ d1.data = i /\ d1.meta = dir.meta
  BY <1>2, <1>3, <1>5, DirType
<1>10. NamesOfSave(d1, disk, st, o) /\ dir' = o.dir /\ disk' = o.disk
  BY <1>3, <1>4, <1>9, SaveNames DEF SetIO
<1>11. disk.cur = None /\ Pairing(dir, disk) /\ NoneOwed
  BY <1>5, <1>8 DEF FileInv, PointersKept, Calm, NamesInv
<1>p. i \in Incs /\ dir.data \in {None, i} /\ (dir.data = i => dir.meta = None)
  BY <1>3, <1>5, <1>11 DEF Pairing, Inodes
<1>12. dir'.cur = None /\ dir'.data = i
  BY <1>9, <1>10 DEF NamesOfSave
<1>13. Pairing(dir', disk')
  <2>1. disk.data \in {None, i} /\ disk.meta \in {None, dir.meta, i}
    BY <1>11, <1>p DEF Pairing
  <2>2. CASE o.ok
    BY <1>3, <1>10, <1>12, <1>p, <2>2 DEF NamesOfSave, Pairing
  <2>3. CASE dir.meta = None
    <3>1. dir'.meta \in {None, i}
      BY <1>3, <1>9, <1>10, <2>3 DEF NamesOfSave
    <3>2. disk' = disk \/ (disk' = dir' /\ dir'.meta = i)
      BY <1>3, <1>10 DEF NamesOfSave
    <3>3. QED
      BY <1>3, <1>12, <1>p, <2>1, <2>3, <3>1, <3>2 DEF Pairing
  <2>4. QED
    BY <1>4, <2>2, <2>3
<1>14. NoneOwed'
  <2>1. PairOwed(reg') => PairOwed(reg)
    BY <1>3, <1>4, RegisterOwes DEF Proper
  <2>2. \A g \in Gens : reg'.gen[g] = reg.gen[g]
    BY CreateKeeps DEF FileInv
  <2>3. QED
    BY <1>5, <1>11, <1>12, <2>1, <2>2 DEF NoneOwed
<1>15. \A x \in Handles : hs[x].open => ~hs[x].legacy /\ hs[x].meta = hs[x].data
  BY <1>3, <1>5, <1>8, <1>p DEF NamesInv, OwnMaps, OwnMap, Inodes
<1>16. OwnMaps'
  <2>1. CASE UNCHANGED hs
    BY <1>15, <2>1 DEF OwnMaps, OwnMap
  <2>2. CASE o.ok /\ hs' = [hs EXCEPT ![h] = NewHandle(st, o.dir, w)]
    <3>1. hs'[h].legacy = TRUE /\ hs'[h].data = i /\ hs'[h].meta = dir'.meta
      BY <1>3, <1>10, <2>2 DEF NewHandle, MetaOf
    <3>2. dir'.meta = i
      BY <1>3, <1>10, <2>2 DEF NamesOfSave
    <3>3. OwnMap(h)'
      BY <1>12, <1>p, <3>1, <3>2 DEF OwnMap
    <3>4. \A x \in Handles \ {h} : hs'[x] = hs[x]
      BY <1>3, <2>2
    <3>5. QED
      BY <1>15, <3>3, <3>4 DEF OwnMaps, OwnMap
  <2>3. QED
    BY <1>4, <2>1, <2>2
<1>17. QED
  BY <1>13, <1>14, <1>16

LEMMA ReleaseNames ==
    ASSUME FileInv, NamesInv, NEW h \in Handles, Release(h)
    PROVE  NamesInv'
<1>1. PICK r : r = Unregister(reg, h)
  OBVIOUS
<1>2. PICK q \in {r, Freed(r, h)} : CollectAndReturn(q)
  BY <1>1 DEF Release
<1>3. UNCHANGED <<dir, disk, limbo>> /\ job' = NoJob
  BY DEF Release, CollectAndReturn, Return
<1>4. /\ ~hs'[h].open /\ \A x \in Handles \ {h} : hs'[x] = hs[x]
      /\ \A g \in Gens : reg'.gen[g].alias => reg.gen[g].alias
  BY ReleaseKeeps DEF FileInv, Dropped
<1>5. Sound(reg)
  BY DEF FileInv, StorageInv, OnRecords
<1>6. Sound(r)
  BY <1>1, <1>5, UnregisterSound DEF Unregisters
<1>7. Sound(q)
  BY <1>2, <1>6, FreedSound
<1>8. PairOwed(reg') => PairOwed(reg)
  BY <1>1, <1>2, <1>5, <1>6, <1>7, CollectedOwes, FreedOwes, UnregisterOwes
<1>9. Held
  BY <1>3, <1>4, <1>8 DEF Held, NoneOwed
<1>10. KeepMaps
  BY <1>4 DEF KeepMaps, SameStorage
<1>11. Closed'
  BY <1>3, ClosedStays DEF NamesInv
<1>12. QED
  BY <1>3, <1>9, <1>10, <1>11, HeldKeeps

LEMMA BuildNames ==
    ASSUME FileInv, NamesInv, NEW g \in Gens, BuildFails(g) \/ \E resize \in BOOLEAN : Build(g, resize)
    PROVE  NamesInv'
<1>1. UNCHANGED <<reg, hs, limbo>> /\ dir \in Dirs
  BY TypedParts DEF FileInv, StorageInv, Build, BuildFails
<1>2. PICK x \in GenStates, y \in GenStates :
        /\ dir' = [dir EXCEPT !.gen[g] = x]
        /\ disk' = disk \/ disk' = [dir EXCEPT !.gen[g] = y]
  BY DEF Build, BuildFails, SetIO, Synced, Failed, GenStates, Rank
<1>3. /\ dir'.cur = dir.cur /\ dir'.data = dir.data /\ dir'.meta = dir.meta
      /\ \/ disk' = disk
         \/ disk'.cur = dir.cur /\ disk'.data = dir.data /\ disk'.meta = dir.meta
  <2>1. ASSUME NEW z \in GenStates, NEW e, e = [dir EXCEPT !.gen[g] = z]
        PROVE  e.cur = dir.cur /\ e.data = dir.data /\ e.meta = dir.meta
    BY <1>1, <2>1, DirGenType
  <2>2. QED
    BY <1>2, <2>1
<1>4. ~limbo /\ dir.cur = None => disk.cur = None
  BY DEF FileInv, PointersKept, Calm
<1>5. ~limbo => Held
  BY <1>1, <1>3, <1>4 DEF Held, NoneOwed
<1>6. KeepMaps
  BY <1>1 DEF KeepMaps, SameStorage
<1>7. Closed'
  <2>1. job' = NoJob \/ \E resize \in BOOLEAN : job' = [job EXCEPT !.new = g, !.resize = resize]
    BY DEF Build, BuildFails, Return
  <2>2. job' = NoJob \/ job'.op = job.op
    BY <2>1, TypedParts DEF FileInv, StorageInv, Jobs
  <2>3. QED
    BY <1>1, <2>2, ClosedStays DEF NamesInv
<1>8. QED
  BY <1>1, <1>5, <1>6, <1>7, HeldKeeps

LEMMA UnlinkNames ==
    ASSUME FileInv, NamesInv, Unlink
    PROVE  NamesInv'
<1>1. job.op = "unlink" /\ pc = "body"
  BY DEF Unlink
<1>2. \A h \in Handles : ~hs[h].open
  BY <1>1 DEF NamesInv, Closed
<1>3. Proper(job.st) /\ (job.st.legacy <=> dir.cur = None) /\ dir \in Dirs /\ Sound(reg)
      /\ (~job.st.legacy => job.st.ino = dir.cur)
  BY <1>1, JobStorage, TypedParts DEF FileInv, StorageInv, OnRecords
<1>4. \A h \in Handles : ~hs'[h].open
  <2>1. hs' = hs \/ hs' = Orphaned
    BY DEF Unlink, Unlinked, UnlinkStops
  <2>2. \A h \in Handles : SameStorage(hs[h], Orphaned[h])
    BY TypedParts, OrphanedType DEF FileInv, StorageInv
  <2>3. QED
    BY <1>2, <2>1, <2>2 DEF SameStorage
<1>5. job' = NoJob
  BY DEF Unlink, Unlinked, UnlinkStops, CollectAndReturn, Return
<1>6. Closed' /\ OwnMaps'
  BY <1>4 DEF Closed, OwnMaps
<1>7. ASSUME NEW r, r = reg \/ (~job.st.legacy /\ r = MarkForGC(reg, job.st, TRUE))
      PROVE  /\ Sound(r) /\ r.leg = reg.leg
             /\ \A g \in Gens \ {dir.cur} : r.gen[g] = reg.gen[g]
  <2>1. CASE r = reg
    BY <1>3, <2>1
  <2>2. CASE ~job.st.legacy /\ r = MarkForGC(reg, job.st, TRUE)
    <3>1. PICK yes \in BOOLEAN : yes = TRUE
      OBVIOUS
    <3>2. r = MarkForGC(reg, job.st, yes)
      BY <2>2, <3>1
    <3>3. GenMarked(reg, r, job.st.ino, yes)
      BY <1>3, <2>2, <3>2, GenMarkSound
    <3>4. r.leg = reg.leg
      <4>1. reg \in Registries
        BY <1>3 DEF Sound
      <4>2. MarkForGC(reg, job.st, yes).leg = reg.leg
        BY <1>3, <2>2, <4>1, MarkLeavesPair
      <4>3. QED
        BY <3>2, <4>2
    <3>5. QED
      BY <1>3, <2>2, <3>3, <3>4 DEF GenMarked
  <2>3. QED
    BY <1>7, <2>1, <2>2
<1>8. ASSUME NEW r, r = reg \/ (~job.st.legacy /\ r = MarkForGC(reg, job.st, TRUE)),
             NEW d, d = [[[dir EXCEPT !.cur = None] EXCEPT !.data = None] EXCEPT !.meta = None],
             Unlinked(d, r)
      PROVE  NamesInv'
  <2>1. dir' = d /\ disk' = d /\ CollectAndReturn(MarkUnlinked(r))
    BY <1>8 DEF Unlinked, SetIO, Synced
  <2>2. dir'.data = None /\ dir'.meta = None /\ disk'.data = None /\ disk'.meta = None
    BY <1>3, <1>8, <2>1 DEF Dirs
  <2>3. Pairing(dir', disk')
    BY <2>2 DEF Pairing
  <2>4. Sound(r) /\ Sound(MarkUnlinked(r))
    BY <1>7, <1>8, UnlinkedSound
  <2>5. NoneOwed'
    BY <2>1, <2>4, CollectedOwes, UnlinkedOwes DEF NoneOwed
  <2>6. QED
    BY <1>6, <2>3, <2>5 DEF NamesInv
<1>9. ASSUME NEW r, r = reg \/ (~job.st.legacy /\ r = MarkForGC(reg, job.st, TRUE)),
             reg' = r, ~limbo', ~limbo, dir' = dir, disk' = disk
      PROVE  NamesInv'
  <2>1. disk'.cur = None => Pairing(dir', disk')
    BY <1>9 DEF NamesInv
  <2>2. NoneOwed => NoneOwed'
    BY <1>7, <1>9 DEF NoneOwed, PairOwed
  <2>3. QED
    BY <1>6, <1>9, <2>1, <2>2 DEF NamesInv
<1>10. \/ \E r : /\ r = reg \/ (~job.st.legacy /\ r = MarkForGC(reg, job.st, TRUE))
                 /\ Unlinked([[[dir EXCEPT !.cur = None] EXCEPT !.data = None] EXCEPT !.meta = None], r)
       \/ \E r, O : /\ r = reg \/ (~job.st.legacy /\ r = MarkForGC(reg, job.st, TRUE))
                    /\ UnlinkStops(O, r)
  BY DEF Unlink
<1>11. ASSUME NEW r, r = reg \/ (~job.st.legacy /\ r = MarkForGC(reg, job.st, TRUE)),
              NEW O, UnlinkStops(O, r)
       PROVE  NamesInv'
  <2>1. reg' = r /\ limbo' = (limbo \/ dir' # dir)
    BY <1>11 DEF UnlinkStops, SetIO
  <2>2. PICK q : UnlinkStopped(q) \/ UnlinkDone(q)
    BY UnlinkShape DEF FileInv
  <2>3. dir' = dir => disk' = disk
    <3>1. job.st.ino # None /\ (job.st.legacy => job.st.ino = dir.data)
      BY <1>1, JobStorage DEF FileInv, StorageInv
    <3>2. UnlinkDone(q) => dir'.cur = None /\ dir'.data = None
      BY DEF UnlinkDone, Unnamed
    <3>3. QED
      BY <1>3, <2>2, <3>1, <3>2 DEF UnlinkStopped
  <2>4. CASE limbo'
    BY <1>6, <2>4 DEF NamesInv
  <2>5. CASE ~limbo'
    <3>1. ~limbo /\ dir' = dir
      BY <2>1, <2>5, TypedParts DEF FileInv, StorageInv
    <3>2. disk' = disk
      BY <2>3, <3>1
    <3>3. QED
      BY <1>9, <1>11, <2>1, <2>5, <3>1, <3>2
  <2>6. QED
    BY <2>4, <2>5
<1>12. QED
  BY <1>8, <1>10, <1>11

\* A publication moves no name of the pair; what it makes durable has a pointer,
\* unless there was none.
PublishedAs(g) ==
    /\ dir'.cur \in {dir.cur, g} /\ dir'.data = dir.data /\ dir'.meta = dir.meta
    /\ disk' \in {disk, dir, dir'}
    /\ dir'.cur # dir.cur => disk' \in {dir, dir'}

LEMMA PublishNames ==
    ASSUME dir \in Dirs, disk \in Dirs, NEW g \in Gens, NEW o \in Publish(dir, disk, g), SetIO(o)
    PROVE  PublishedAs(g)
<1>1. PICK d1 : d1 = [dir EXCEPT !.cur = g]
  OBVIOUS
<1>2. d1.cur = g /\ d1.data = dir.data /\ d1.meta = dir.meta
  BY <1>1, DirType
<1>3. o \in {Synced(d1), Failed(dir, disk), Failed(dir, dir), Failed(d1, dir)}
  BY <1>1 DEF Publish
<1>4. QED
  BY <1>2, <1>3 DEF SetIO, Synced, Failed, PublishedAs

\* What is left of the names when the writers are told nothing, or follow.
LEMMA PublishedPairs ==
    ASSUME FileInv, NamesInv, ~limbo, NEW g \in Gens, PublishedAs(g), disk'.cur = None
    PROVE  /\ disk.cur = None /\ Pairing(dir', disk')
           /\ dir'.cur = dir.cur \/ dir.cur = None
<1>1. dir.cur = None => disk.cur = None
  BY DEF FileInv, PointersKept, Calm
<1>2. g # None
  BY ConstantsAssumption DEF Inodes
<1>3. disk.cur = None /\ (dir'.cur = dir.cur \/ dir.cur = None)
  BY <1>1, <1>2 DEF PublishedAs
<1>4. Pairing(dir, disk)
  BY <1>3 DEF NamesInv
<1>5. disk'.data \in {dir.data, disk.data} /\ disk'.meta \in {dir.meta, disk.meta}
      /\ \/ disk'.data = disk.data /\ disk'.meta = disk.meta
         \/ disk'.data = dir.data /\ disk'.meta = dir.meta
  BY DEF PublishedAs
<1>6. QED
  BY <1>3, <1>4, <1>5 DEF PublishedAs, Pairing

LEMMA PublishFailsNames ==
    ASSUME FileInv, NamesInv, PublishFails \/ PublishWithoutRecord
    PROVE  NamesInv'
<1>1. pc = "publish" /\ job' = NoJob /\ UNCHANGED <<hs, limbo>>
  BY DEF PublishFails, PublishWithoutRecord, Return
<1>2. dir \in Dirs /\ disk \in Dirs /\ job.new \in Gens /\ Sound(reg) /\ Proper(job.st)
  BY <1>1, TypedParts, JobStorage DEF FileInv, StorageInv, Working, OnRecords
<1>3. PublishedAs(job.new)
  <2>1. CASE UNCHANGED <<dir, disk>>
    BY <2>1 DEF PublishedAs
  <2>2. ASSUME NEW o \in Publish(dir, disk, job.new), SetIO(o) PROVE PublishedAs(job.new)
    BY <1>2, <2>2, PublishNames
  <2>3. QED
    BY <2>1, <2>2 DEF PublishFails, PublishWithoutRecord
<1>4. PairOwed(reg') => PairOwed(reg)
  <2>1. reg' = reg \/ reg' = Supersede(reg, job.st, {})
    BY DEF PublishFails, PublishWithoutRecord
  <2>2. QED
    BY <1>2, <2>1, SupersedeOwes
<1>5. \A g \in Gens : reg'.gen[g].alias = reg.gen[g].alias
  BY PublishFailsShape DEF NotHandedOver, FileInv
<1>6. Closed'
  BY <1>1, ClosedStays DEF NamesInv
<1>7. SUFFICES ASSUME ~limbo
               PROVE  /\ disk'.cur = None => Pairing(dir', disk') /\ NoneOwed'
                      /\ OwnMaps'
  BY <1>1, <1>6 DEF NamesInv
<1>8. ASSUME disk'.cur = None PROVE Pairing(dir', disk') /\ NoneOwed'
  <2>1. /\ disk.cur = None /\ Pairing(dir', disk')
        /\ dir'.cur = dir.cur \/ dir.cur = None
    BY <1>2, <1>3, <1>7, <1>8, PublishedPairs
  <2>2. NoneOwed /\ None \notin Gens
    BY <1>7, <2>1, ConstantsAssumption DEF NamesInv, Inodes
  <2>3. QED
    BY <1>4, <1>5, <2>1, <2>2 DEF NoneOwed
<1>9. OwnMaps'
  BY <1>1, <1>3, <1>7 DEF NamesInv, OwnMaps, OwnMap, PublishedAs
<1>10. QED
  BY <1>8, <1>9

LEMMA HandoffNames ==
    ASSUME FileInv, NamesInv, PublishAndHandoff
    PROVE  NamesInv'
<1>1. pc = "publish" /\ job' = NoJob /\ limbo' = limbo /\ hs' = Rebound(job.st, job.new)
  BY DEF PublishAndHandoff, CollectAndReturn, Return
<1>2. dir \in Dirs /\ disk \in Dirs /\ job.new \in Gens /\ Sound(reg) /\ Proper(job.st)
      /\ hs \in [Handles -> HandleStates] /\ None \notin Gens
  BY <1>1, TypedParts, JobStorage, ConstantsAssumption
  DEF FileInv, StorageInv, Working, OnRecords, Inodes
<1>3. PICK o \in Publish(dir, disk, job.new) :
        /\ o.dir.cur = job.new /\ SetIO(o)
        /\ o.ok \/ reg' = Handoff(reg, job.st, job.new)
  BY DEF PublishAndHandoff
<1>4. PublishedAs(job.new)
  BY <1>2, <1>3, PublishNames
<1>5. HandsOff(Writers(job.st))
  BY HandoffShape DEF FileInv
<1>6. Closed'
  BY <1>1, ClosedStays DEF NamesInv
<1>7. SUFFICES ASSUME ~limbo
               PROVE  /\ disk'.cur = None => Pairing(dir', disk') /\ NoneOwed'
                      /\ OwnMaps'
  BY <1>1, <1>6 DEF NamesInv
<1>8. ASSUME disk'.cur = None PROVE Pairing(dir', disk') /\ NoneOwed'
  <2>1. disk.cur = None /\ Pairing(dir', disk') /\ (dir'.cur = dir.cur \/ dir.cur = None)
    BY <1>2, <1>4, <1>7, <1>8, PublishedPairs
  <2>2. NoneOwed
    BY <1>7, <2>1 DEF NamesInv
  <2>3. dir'.cur = job.new
    BY <1>5 DEF HandsOff
  <2>4. ~o.ok
    BY <1>2, <1>3, <1>8, PublishType DEF Publishes, SetIO
  <2>5. PairOwed(reg') => PairOwed(reg)
    <3>1. PICK W : W = Writers(job.st)
      OBVIOUS
    <3>2. W \in SUBSET Handles
      <4>1. HandlesOf(job.st) \in SUBSET Handles
        <5>1. PICK skip \in BOOLEAN : skip = FALSE
          OBVIOUS
        <5>2. RecordOf(reg, job.st, skip) \in Records
          BY <1>2, GetType
        <5>3. QED
          BY <5>1, <5>2 DEF HandlesOf, Find, Records
      <4>2. QED
        BY <3>1, <4>1 DEF Writers
    <3>3. reg' = HandedOver(reg, job.st, job.new, W)
      BY <1>3, <2>4, <3>1 DEF Handoff, HandedOver
    <3>4. QED
      BY <1>2, <3>2, <3>3, HandoffOwes
  <2>6. \A x \in Gens \ {job.new} : reg'.gen[x].alias => reg.gen[x].alias \/ x = dir.cur
    BY <1>5 DEF HandsOff
  <2>7. dir.cur = job.new \/ dir.cur = None
    BY <2>1, <2>3
  <2>8. dir.cur = None
    BY <1>1, <2>7 DEF FileInv, StorageInv, Working
  <2>9. QED
    BY <1>2, <2>1, <2>2, <2>3, <2>5, <2>6, <2>8 DEF NoneOwed
<1>9. OwnMaps'
  <2>1. ASSUME NEW h \in Handles, hs'[h].open PROVE OwnMap(h)'
    <3>1. CASE h \in Writers(job.st)
      <4>1. hs'[h].meta = job.new /\ hs'[h].data = job.new /\ hs'[h].legacy = FALSE
        BY <1>1, <1>2, <3>1 DEF Rebound, HandleStates
      <4>2. QED
        BY <4>1 DEF OwnMap
    <3>2. CASE h \notin Writers(job.st)
      <4>1. hs'[h] = hs[h]
        BY <1>1, <3>2 DEF Rebound
      <4>2. QED
        BY <1>4, <1>7, <2>1, <4>1 DEF NamesInv, OwnMaps, OwnMap, PublishedAs
    <3>3. QED
      BY <3>1, <3>2
  <2>2. QED
    BY <2>1 DEF OwnMaps
<1>10. QED
  BY <1>8, <1>9

LEMMA EndNames ==
    ASSUME FileInv, NamesInv, Exit \/ PowerLoss
    PROVE  NamesInv'
<1>1. /\ reg' = EmptyRegistry /\ hs' = [h \in Handles |-> NoHandle] /\ limbo' = limbo
      /\ job' = NoJob
  BY DEF Exit, PowerLoss, Restarted, Return
<1>2. \A h \in Handles : ~hs'[h].open
  BY <1>1, EmptySound
<1>3. Closed' /\ OwnMaps'
  BY <1>2 DEF Closed, OwnMaps
<1>4. NoneOwed'
  BY <1>1 DEF NoneOwed, PairOwed, EmptyRegistry, NoRecord
<1>5. ASSUME ~limbo, disk'.cur = None PROVE Pairing(dir', disk')
  <2>1. CASE Exit
    BY <1>5, <2>1 DEF Exit, NamesInv
  <2>2. CASE PowerLoss
    <3>1. /\ dir'.cur \in {dir.cur, disk.cur} /\ dir'.data \in {dir.data, disk.data}
          /\ dir'.meta \in {dir.meta, disk.meta} /\ disk' = dir'
      BY <2>2 DEF PowerLoss
    <3>2. disk.cur = None
      BY <1>5, <3>1 DEF FileInv, PointersKept, Calm
    <3>3. Pairing(dir, disk)
      BY <1>5, <3>2 DEF NamesInv
    <3>4. QED
      BY <3>1, <3>3, PairingDurable
  <2>3. QED
    BY <2>1, <2>2
<1>6. QED
  BY <1>1, <1>3, <1>4, <1>5 DEF NamesInv

LEMMA InitNames ==
    ASSUME Init
    PROVE  NamesInv
<1>1. dir = EmptyDir /\ disk = EmptyDir /\ reg = EmptyRegistry /\ job = NoJob
      /\ hs = [h \in Handles |-> NoHandle]
  BY DEF Init
<1>2. \A h \in Handles : ~hs[h].open
  BY <1>1, EmptySound
<1>3. Pairing(dir, disk)
  BY <1>1 DEF EmptyDir, Pairing
<1>4. NoneOwed
  BY <1>1 DEF NoneOwed, PairOwed, EmptyRegistry, NoRecord
<1>5. QED
  BY <1>2, <1>3, <1>4 DEF NamesInv, Closed, OwnMaps

LEMMA NamesStepKeeps ==
    ASSUME FileInv, [Next]_vars, BundleInv
    PROVE  BundleInv'
<1>1. SUFFICES ASSUME ~UnlinkWhileOpen, ~TornCreate PROVE NamesInv'
  BY DEF BundleInv
<1>2. FileInv' /\ StorageInv' /\ StorageInv /\ NamesInv
  BY <1>1, FileStepKeeps DEF FileInv, BundleInv
<1>3. CASE \/ \E op \in {"lookup", "open", "unlink", "compact"} : Begin(op)
           \/ GCDone \/ CompactSkips \/ UNCHANGED vars
  BY <1>1, <1>2, <1>3, QuietNames
<1>4. CASE Recover \/ RecoverFails
  BY <1>2, <1>4, RecoveryNames
<1>5. CASE \E g \in Gens : GCGeneration(g)
  BY <1>2, <1>5, GCGenerationNames
<1>6. CASE \E n \in 1 .. MaxLegacy : GCLegacy(n)
  BY <1>2, <1>6, GCLegacyNames
<1>7. CASE \E h \in Handles, w, trunc \in BOOLEAN : Open(h, w, trunc)
  BY <1>2, <1>7, OpenNames
<1>8. CASE \E trunc \in BOOLEAN : OpenFails(trunc)
  BY <1>2, <1>8, OpenFailsNames
<1>9. CASE \E h \in Handles, i \in Inodes, w \in BOOLEAN : Create(h, i, w)
  BY <1>1, <1>2, <1>9, CreateNames
<1>10. CASE \E h \in Handles : Write(h) \/ WriteFails(h)
  BY <1>2, <1>10, WriteNames
<1>11. CASE \E h \in Handles : Refresh(h)
  BY <1>2, <1>11, RefreshNames
<1>12. CASE \E h \in Handles : Release(h)
  BY <1>2, <1>12, ReleaseNames
<1>13. CASE TruncatePath
  BY <1>2, <1>13, TruncatePathNames
<1>14. CASE Unlink
  BY <1>2, <1>14, UnlinkNames
<1>15. CASE \E g \in Gens : BuildFails(g) \/ \E resize \in BOOLEAN : Build(g, resize)
  BY <1>2, <1>15, BuildNames
<1>16. CASE PublishFails \/ PublishWithoutRecord
  BY <1>2, <1>16, PublishFailsNames
<1>17. CASE PublishAndHandoff
  BY <1>2, <1>17, HandoffNames
<1>18. CASE Exit \/ PowerLoss
  BY <1>2, <1>18, EndNames
<1>19. QED
  BY <1>3, <1>4, <1>5, <1>6, <1>7, <1>8, <1>9, <1>10, <1>11, <1>12, <1>13, <1>14, <1>15, <1>16,
     <1>17, <1>18
     DEF Next, OperationStep

-----------------------------------------------------------------------------
(***************************************************************************)
(* While no pointer is durable the pair is one storage, now and after a    *)
(* power loss, and nothing owes its aliases to the active generation; a    *)
(* handle keeps the map of its data, and the names of the pair as long as  *)
(* it is on it.  It takes an unlink that the kernel defers until the       *)
(* handles are released, and creates that do not fail between the data     *)
(* file and its map where the map of an earlier file was left behind.      *)
(***************************************************************************)
THEOREM BundleInvariant == Spec => [](FileInv /\ BundleInv)
<1>1. Init => FileInv /\ BundleInv
  BY InitContent, InitNames DEF BundleInv
<1>2. FileInv /\ BundleInv /\ [Next]_vars => (FileInv /\ BundleInv)'
  BY FileStepKeeps, NamesStepKeeps
<1>3. QED
  BY <1>1, <1>2, PTL DEF Spec

(***************************************************************************)
(* The names a handle on the legacy pair would reopen stay its own: the    *)
(* collector installs the aliases of a generation only when no such handle *)
(* is open, also for a record it found by an inode number used before      *)
(* (compact.c:871-883, 991-996).                                           *)
(***************************************************************************)
THEOREM NamesStay ==
    ASSUME ~UnlinkWhileOpen, ~TornCreate
    PROVE  Spec => []NamesStable
<1>1. FileInv /\ BundleInv => NamesStable
  BY DEF BundleInv, NamesInv, OwnMaps, OwnMap, NamesStable
<1>2. QED
  BY <1>1, BundleInvariant, PTL

(***************************************************************************)
(* A handle's data and map, and the data and map under the path, are of    *)
(* one storage, through every handoff, reload of a stale map, failed call, *)
(* collection and power loss (myfs.h:135-136).                             *)
(***************************************************************************)
THEOREM BundlesStay ==
    ASSUME ~UnlinkWhileOpen, ~TornCreate
    PROVE  Spec => []BundleConsistent
<1>1. FileInv /\ BundleInv => BundleConsistent
  <2>1. SUFFICES ASSUME FileInv, BundleInv, ~limbo
                 PROVE  /\ \A h \in Handles : hs[h].open => hs[h].meta = hs[h].data
                        /\ dir.cur = None /\ None \notin {dir.data, dir.meta} =>
                             dir.meta = dir.data
    BY DEF BundleConsistent
  <2>2. \A h \in Handles : hs[h].open => hs[h].meta = hs[h].data
    BY <2>1 DEF BundleInv, NamesInv, OwnMaps, OwnMap
  <2>3. dir.cur = None => Pairing(dir, disk)
    BY <2>1 DEF BundleInv, NamesInv, FileInv, PointersKept, Calm
  <2>4. QED
    BY <2>2, <2>3 DEF Pairing
<1>2. QED
  BY <1>1, BundleInvariant, PTL
=============================================================================
