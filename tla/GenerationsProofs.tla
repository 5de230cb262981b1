-------------------------- MODULE GenerationsProofs -------------------------
(***************************************************************************)
(* What holds of the storage of a logical file at every step: the registry *)
(* knows the record of every open handle, the generation of an open handle *)
(* is complete, and the operation in progress works on the storage the     *)
(* directory resolves to.                                                  *)
(***************************************************************************)
EXTENDS GenerationsLemmas

Faults == [n : 0 .. MaxFaults, since : BOOLEAN, cut : BOOLEAN]

Typed == TypeOK /\ reg \in Registries

\* An operation in progress holds the storage the directory resolves to; the
\* generation it is about to publish is complete and nobody knows it yet.
Working ==
    /\ pc \in {"recover", "body", "publish"} => job.op # "none"
    /\ pc = "idle" => job = NoJob
    /\ job.op # "none" => job.st \in Resolve(dir)
    /\ job.op \in {"open", "unlink", "compact"} => job.st.ino # None
    /\ pc = "publish" =>
        /\ job.op = "compact"
        /\ job.new \in Gens /\ dir.gen[job.new] = "ready" /\ disk.gen[job.new] = "ready"
        /\ job.new # dir.cur
        /\ reg.gen[job.new] = NoRecord
        /\ \A n \in DOMAIN reg.leg : reg.leg[n].ino # job.new
        /\ \A h \in Handles : hs[h].open => hs[h].data # job.new

\* The data name and the handles are those of storages of the path.
NamesKnown ==
    /\ Stray \notin {dir.data, disk.data}
    /\ \A h \in Handles : hs[h].open =>
           hs[h].data \in Inodes /\ (~hs[h].legacy => hs[h].data \in Gens)

\* Every open handle is on the record of its storage and on no other.
OnRecords ==
    /\ Sound(reg)
    /\ \A h \in Handles : Attached(reg, hs[h], h, {dir.data, dir.cur})

StorageInv == Typed /\ Working /\ NamesKnown /\ OnRecords /\ OpenGenerationsKept

-----------------------------------------------------------------------------
(* Parts of steps.                                                         *)

\* The sets of the variables, one by one.
LEMMA TypedParts ==
    ASSUME Typed
    PROVE  /\ dir \in Dirs /\ disk \in Dirs /\ reg \in Registries
           /\ hs \in [Handles -> HandleStates]
           /\ pc \in {"idle", "recover", "gc", "body", "publish"} /\ job \in Jobs
           /\ fresh \subseteq Inodes /\ limbo \in BOOLEAN /\ fault \in Faults
  BY DEF Typed, TypeOK, Faults

\* A state is typed if its variables are.
LEMMA TypedNext ==
    ASSUME dir' \in Dirs, disk' \in Dirs, reg' \in Registries, hs' \in [Handles -> HandleStates],
           pc' \in {"idle", "recover", "gc", "body", "publish"}, job' \in Jobs,
           fresh' \subseteq Inodes, limbo' \in BOOLEAN, fault' \in Faults
    PROVE  Typed'
<1>1. reg'.gen \in [Gens -> Records] /\ reg'.leg \in Seq(LegacyRecords) /\ Len(reg'.leg) <= MaxLegacy
  BY RegistryType
<1>2. QED
  BY <1>1 DEF Typed, TypeOK, Faults

\* What a failed call does to the count of failures.
LEMMA FaultWithType ==
    ASSUME fault \in Faults, NEW c, FaultWith(c)
    PROVE  fault' \in Faults /\ fault'.since /\ fault'.n = fault.n + 1
           /\ fault'.cut = (limbo /\ c)
<1>1. fault.n \in Nat /\ fault.n < MaxFaults /\ MaxFaults \in Nat
  BY ConstantsAssumption DEF FaultWith, Faults
<1>2. fault.n + 1 \in 0 .. MaxFaults
  BY <1>1
<1>3. fault' = [n |-> fault.n + 1, since |-> TRUE, cut |-> limbo /\ c]
  BY DEF FaultWith
<1>4. PICK b \in BOOLEAN : b = (limbo /\ c)
  OBVIOUS
<1>5. fault' = [n |-> fault.n + 1, since |-> TRUE, cut |-> b]
  BY <1>3, <1>4
<1>6. QED
  BY <1>2, <1>4, <1>5 DEF Faults

LEMMA FaultType ==
    ASSUME fault \in Faults, Fault \/ UNCHANGED fault
    PROVE  /\ fault' \in Faults
           /\ Fault => /\ fault'.since /\ fault' # fault
                       /\ fault'.cut = (limbo /\ fault.cut)
<1>1. ASSUME Fault PROVE fault' \in Faults /\ fault'.since /\ fault'.n = fault.n + 1
                        /\ fault'.cut = (limbo /\ fault.cut)
  BY <1>1, FaultWithType DEF Fault
<1>2. fault.n \in Nat
  BY ConstantsAssumption DEF Faults
<1>3. QED
  BY <1>1, <1>2

\* The job of no operation.
LEMMA NoJobType == NoJob \in Jobs /\ NoJob.op = "none"
<1>1. Legacy(None) \in Storages
  BY DEF Legacy, Storages, Names
<1>2. QED
  BY <1>1 DEF NoJob, Jobs

\* An operation that has returned works on nothing.
LEMMA ReturnedWorking ==
    ASSUME job' = NoJob, pc' \in {"idle", "gc"}
    PROVE  Working' /\ job' \in Jobs /\ pc' \in {"idle", "recover", "gc", "body", "publish"}
  BY NoJobType DEF Working

\* An operation that returns leaves no work behind.
LEMMA ReturnWorking ==
    ASSUME Return
    PROVE  Working' /\ job' \in Jobs /\ pc' \in {"idle", "recover", "gc", "body", "publish"}
  BY ReturnedWorking DEF Return

\* No work begins in a step that leaves control alone.
LEMMA IdleWorking ==
    ASSUME Working, pc = "idle", UNCHANGED <<pc, job>>
    PROVE  Working' /\ job' \in Jobs /\ pc' \in {"idle", "recover", "gc", "body", "publish"}
<1>1. job' = NoJob /\ pc' = "idle"
  BY DEF Working
<1>2. QED
  BY <1>1, ReturnedWorking

\* The storage of the operation in progress.
LEMMA JobStorage ==
    ASSUME Typed, Working, job.op # "none"
    PROVE  /\ Proper(job.st) /\ job.st \in Resolve(dir) /\ job.st \in Storages
           /\ job.st.legacy \in BOOLEAN /\ job.st.ino \in Names
           /\ job.op # "lookup" => job.st.ino # None
           /\ job.st.legacy <=> dir.cur = None
           /\ job.st.legacy => job.st.ino = dir.data
           /\ ~job.st.legacy => job.st.ino = dir.cur /\ dir.cur \in Gens /\ dir.gen[dir.cur] = "ready"
<1>1. dir \in Dirs /\ job.st \in Resolve(dir) /\ job \in Jobs
  BY TypedParts DEF Working
<1>2. job.op # "lookup" => job.st.ino # None
  BY <1>1 DEF Working, Jobs
<1>3. QED
  BY <1>1, <1>2, ResolveType DEF Proper

\* Handles of a superset of names are attached for the names themselves.
LEMMA AttachedWithin ==
    ASSUME NEW r, NEW s, NEW h, NEW N, NEW M, Attached(r, s, h, N),
           s.open /\ s.data \in M => s.data \in N
    PROVE  Attached(r, s, h, M)
  BY DEF Attached

\* A step that leaves the handles on their storages.
LEMMA HandlesStay ==
    ASSUME NamesKnown, OnRecords, OpenGenerationsKept,
           Sound(reg'), Retains(reg, reg'), KeepsLinks(reg, reg'),
           \A h \in Handles : SameStorage(hs[h], hs'[h]),
           \A h \in Handles : hs[h].open /\ hs[h].data \in {dir'.data, dir'.cur} =>
               hs[h].data \in {dir.data, dir.cur},
           Stray \notin {dir'.data, disk'.data},
           \A h \in Handles : hs[h].open /\ ~hs[h].legacy => dir'.gen[hs[h].data] = "ready"
    PROVE  /\ NamesKnown' /\ OnRecords' /\ OpenGenerationsKept'
           /\ \A h \in Handles : Refused(reg, h) => Refused(reg', h)
<1>1. ASSUME NEW h \in Handles PROVE Attached(reg', hs'[h], h, {dir'.data, dir'.cur})
  <2>1. Attached(reg, hs[h], h, {dir.data, dir.cur}) /\ SameStorage(hs[h], hs'[h])
    BY DEF OnRecords
  <2>2. Attached(reg, hs[h], h, {dir'.data, dir'.cur})
    BY <2>1, AttachedWithin
  <2>3. QED
    BY <2>1, <2>2, AttachedStays
<1>2. NamesKnown' /\ OpenGenerationsKept'
  BY DEF NamesKnown, OpenGenerationsKept, SameStorage
<1>3. \A h \in Handles : Refused(reg, h) => Refused(reg', h)
  BY AttachedStays
<1>4. QED
  BY <1>1, <1>2, <1>3 DEF OnRecords

\* Bumping an epoch leaves the storages of handles alone.
LEMMA StaleType ==
    ASSUME hs \in [Handles -> HandleStates], NEW H
    PROVE  /\ MarkStale(H) \in [Handles -> HandleStates]
           /\ \A h \in Handles : /\ SameStorage(hs[h], MarkStale(H)[h])
                                 /\ MarkStale(H)[h].meta = hs[h].meta
                                 /\ MarkStale(H)[h].orphan = hs[h].orphan
                                 /\ MarkStale(H)[h].writer = hs[h].writer
<1>1. ASSUME NEW h \in Handles, NEW b \in BOOLEAN
      PROVE  LET e == [hs[h] EXCEPT !.stale = b]
             IN  /\ e \in HandleStates /\ SameStorage(hs[h], e) /\ e.meta = hs[h].meta
                 /\ e.orphan = hs[h].orphan /\ e.writer = hs[h].writer
  BY DEF HandleStates, SameStorage
<1>2. \A h \in Handles : (hs[h].stale \/ h \in H) \in BOOLEAN
  OBVIOUS
<1>3. \A h \in Handles : MarkStale(H)[h] = [hs[h] EXCEPT !.stale = hs[h].stale \/ h \in H]
  BY DEF MarkStale
<1>4. MarkStale(H) = [h \in Handles |-> MarkStale(H)[h]]
  BY DEF MarkStale
<1>5. QED
  BY <1>1, <1>2, <1>3, <1>4, Zenon

\* What the meta name of a storage gives.
LEMMA MetaType ==
    ASSUME NEW d \in Dirs, NEW st, st.ino \in Names
    PROVE  MetaOf(st, d) \in Names
  BY DirType DEF MetaOf, Names

-----------------------------------------------------------------------------
(* What the steps of recovery, collection and publication do.              *)

\* Registry q is r after steps that move no handle and add no unlink.
Follows(r, q) == Sound(q) /\ Retains(r, q) /\ KeepsLinks(r, q)

\* Two changes of the registry in a row.
LEMMA FollowsTwice ==
    ASSUME NEW r, NEW q, NEW z, Follows(r, q), Follows(q, z)
    PROVE  Follows(r, z)
  BY RetainsTwice DEF Follows

\* The registry follows itself.
LEMMA FollowsItself ==
    ASSUME Typed, OnRecords
    PROVE  Follows(reg, reg)
  BY RetainsItself DEF Follows, OnRecords

\* A legacy record for the data name can be added: no handle needs an older one.
LEMMA PairUnheld ==
    ASSUME OnRecords, NEW i \in {dir.data, dir.cur}
    PROVE  Linked(reg, i) \/ Unheld(reg, i)
<1>1. \A h \in Handles : Attached(reg, hs[h], h, {dir.data, dir.cur})
  BY DEF OnRecords
<1>2. reg \in Registries
  BY DEF OnRecords, Sound
<1>3. QED
  BY <1>1, <1>2, LinkedOrUnheld

\* Recovery makes registry q by marking the pair and the generations X, those
\* with the alias obligation if there is a pointer.
RecoveryMarking(X, q) ==
    /\ Follows(reg, q)
    /\ \A g \in Gens :
        /\ g \notin X => q.gen[g] = reg.gen[g]
        /\ g \in X =>
             /\ q.gen[g].unlinked = reg.gen[g].unlinked /\ q.gen[g].handles = reg.gen[g].handles
             /\ q.gen[g].gc = IF reg.gen[g].gc = "none" THEN "pending" ELSE reg.gen[g].gc
             /\ reg.gen[g].alias => q.gen[g].alias
             /\ q.gen[g].alias => reg.gen[g].alias \/ ~job.st.legacy
             /\ job.st.legacy \/ q.gen[g].alias \/ q.gen[g].unlinked

\* Recovery marks the legacy pair and a set X of generations.
LEMMA RecoveryMarks ==
    ASSUME StorageInv, job.op # "none", NEW X \in SUBSET Gens,
           ~AliasesCurrent(job.st) => CanGet(reg, Legacy(dir.data), TRUE),
           NEW q, q = MarkedGens(MarkedPair(reg, job.st), X, ~job.st.legacy)
    PROVE  RecoveryMarking(X, q)
<1> DEFINE m == MarkedPair(reg, job.st)
<1>1. Follows(reg, m) /\ m.gen = reg.gen
  <2>1. CASE AliasesCurrent(job.st)
    BY <2>1, FollowsItself DEF StorageInv, MarkedPair
  <2>2. CASE ~AliasesCurrent(job.st)
    <3>1. PICK st : st = Legacy(dir.data)
      OBVIOUS
    <3>2. dir.data \in Names
      BY TypedParts, DirType DEF StorageInv
    <3>3. st.legacy = TRUE /\ st.ino = dir.data /\ st \in Storages
      BY <3>1, <3>2 DEF Legacy, Storages
    <3>4. Proper(st) /\ st.legacy
      BY <3>3 DEF Proper
    <3>5. ~Found(reg, st, TRUE) => Unheld(reg, st.ino)
      BY <3>3, <3>4, PairUnheld, LinkedFound DEF StorageInv
    <3>6. PICK yes \in BOOLEAN : yes = TRUE
      OBVIOUS
    <3>7. CanGet(reg, st, yes) /\ m = MarkForGC(reg, st, yes)
      BY <2>2, <3>1, <3>6 DEF MarkedPair
    <3>8. st.legacy /\ ~Found(reg, st, yes) => yes /\ Unheld(reg, st.ino)
      BY <3>5, <3>6
    <3>9. Sound(reg)
      BY DEF StorageInv, OnRecords
    <3>10. QED
      BY <3>4, <3>7, <3>8, <3>9, MarkSound DEF Follows
  <2>3. QED
    BY <2>1, <2>2
<1> HIDE DEF m
<1>2. (~job.st.legacy) \in BOOLEAN
  OBVIOUS
<1>3. PICK alias \in BOOLEAN : alias = ~job.st.legacy
  BY <1>2
<1>4. q = MarkedGens(m, X, alias)
  BY <1>3 DEF m
<1>5. /\ Sound(q) /\ Retains(m, q) /\ KeepsLinks(m, q)
      /\ \A g \in Gens : IF g \in X THEN Marks(m.gen[g], q.gen[g], alias)
                         ELSE q.gen[g] = m.gen[g]
  BY <1>1, <1>4, MarkedGensSound DEF Follows
<1>6. Follows(reg, q)
  BY <1>1, <1>5, FollowsTwice DEF Follows
<1>7. ASSUME NEW g \in X
      PROVE  /\ q.gen[g].unlinked = reg.gen[g].unlinked /\ q.gen[g].handles = reg.gen[g].handles
             /\ q.gen[g].gc = IF reg.gen[g].gc = "none" THEN "pending" ELSE reg.gen[g].gc
             /\ reg.gen[g].alias => q.gen[g].alias
             /\ q.gen[g].alias => reg.gen[g].alias \/ ~job.st.legacy
             /\ job.st.legacy \/ q.gen[g].alias \/ q.gen[g].unlinked
  <2>1. Marks(reg.gen[g], q.gen[g], alias)
    BY <1>1, <1>5, <1>7
  <2>2. /\ q.gen[g].unlinked = reg.gen[g].unlinked /\ q.gen[g].handles = reg.gen[g].handles
        /\ q.gen[g].gc = IF reg.gen[g].gc = "none" THEN "pending" ELSE reg.gen[g].gc
        /\ q.gen[g].alias = IF reg.gen[g].unlinked THEN reg.gen[g].alias
                            ELSE reg.gen[g].alias \/ alias
    BY <2>1 DEF Marks
  <2>3. CASE alias = TRUE
    BY <1>3, <2>2, <2>3
  <2>4. CASE alias = FALSE
    BY <1>3, <2>2, <2>4
  <2>5. QED
    BY <2>3, <2>4
<1>8. \A g \in Gens : g \notin X => q.gen[g] = reg.gen[g]
  BY <1>1, <1>5
<1>9. QED
  BY <1>6, <1>7, <1>8 DEF RecoveryMarking

\* A collection, or a return because its list cannot be allocated.
LEMMA CollectedSound ==
    ASSUME NEW r, Sound(r), CollectAndReturn(r)
    PROVE  /\ Follows(r, reg') /\ Working' /\ job' \in Jobs
           /\ pc' \in {"idle", "recover", "gc", "body", "publish"}
           /\ (fault \in Faults => fault' \in Faults)
           /\ \/ /\ pc' = "gc" /\ UNCHANGED fault
                 /\ \A g \in Gens : Claims(r.gen[g], reg'.gen[g])
              \/ pc' = "idle" /\ reg' = r /\ Fault
<1>1. CASE StartGC(r) /\ job' = NoJob /\ UNCHANGED fault
  <2>1. pc' = "gc" /\ reg' = Claimed(r)
    BY <1>1 DEF StartGC
  <2>2. Follows(r, reg') /\ \A g \in Gens : Claims(r.gen[g], reg'.gen[g])
    BY <2>1, ClaimedSound DEF Follows
  <2>3. QED
    BY <1>1, <2>1, <2>2, ReturnedWorking
<1>2. CASE Return /\ reg' = r /\ Fault
  BY <1>2, ReturnWorking, RetainsItself, FaultType DEF Return, Follows
<1>3. QED
  BY <1>1, <1>2 DEF CollectAndReturn

\* The collection of a generation has outcome o.
Collected(g, o) ==
    /\ Collects(Generation(g), reg.gen[g], o)
    /\ dir' = o.dir /\ disk' = o.disk /\ FaultIf(o.failed)
    /\ Follows(reg, reg')
    /\ \A x \in Gens \ {g} : reg'.gen[x] = reg.gen[x]
    /\ IF o.retire THEN reg.gen[g].handles = {} /\ reg'.gen[g] = NoRecord
       ELSE reg'.gen[g] = [reg.gen[g] EXCEPT !.gc = "pending"]

\* A collection step of a generation has an outcome of perform_generation_gc_io.
LEMMA GenerationCollected ==
    ASSUME StorageInv, NEW g \in Gens, GCGeneration(g)
    PROVE  \E o : Collected(g, o)
<1>1. PICK st : st = Generation(g)
  OBVIOUS
<1>2. st.legacy = FALSE /\ st.ino = g
  BY <1>1 DEF Generation
<1>3. st \in Storages
  BY <1>1 DEF Generation, Storages, Names, Inodes
<1>4. Sound(reg) /\ reg \in Registries /\ dir \in Dirs /\ disk \in Dirs
  BY TypedParts DEF StorageInv, OnRecords
<1>5. reg.gen[g] \in Records
  BY <1>4, RegistryType
<1>6. PICK o \in GCOutcomes(st, reg.gen[g]) :
        /\ SetIO(o) /\ FaultIf(o.failed)
        /\ reg' = [reg EXCEPT !.gen[g] = IF o.retire THEN NoRecord ELSE [@ EXCEPT !.gc = "pending"]]
  BY <1>1 DEF GCGeneration
<1>7. Collects(st, reg.gen[g], o)
  BY <1>2, <1>3, <1>4, <1>5, <1>6, CollectType
<1>8. dir' = o.dir /\ disk' = o.disk
  BY <1>6 DEF SetIO
<1>9. CASE o.retire
  <2>1. reg.gen[g].handles = {}
    BY <1>7, <1>9 DEF Collects
  <2>2. reg' = [reg EXCEPT !.gen[g] = NoRecord]
    BY <1>6, <1>9
  <2>3. QED
    BY <1>1, <1>4, <1>6, <1>7, <1>8, <1>9, <2>1, <2>2, GenRetired DEF Collected, Follows
<1>10. CASE ~o.retire
  <2>1. reg' = [reg EXCEPT !.gen[g] = [@ EXCEPT !.gc = "pending"]]
    BY <1>6, <1>10
  <2>2. reg.gen[g].gc = "claimed"
    BY DEF GCGeneration
  <2>3. QED
    BY <1>1, <1>4, <1>6, <1>7, <1>8, <1>10, <2>1, <2>2, GenPending DEF Collected, Follows
<1>11. QED
  BY <1>9, <1>10

\* The collection of a legacy record has outcome o.
PairCollected(n, o) ==
    /\ Collects(Legacy(reg.leg[n].ino), reg.leg[n].rec, o)
    /\ dir' = o.dir /\ disk' = o.disk /\ FaultIf(o.failed)
    /\ Follows(reg, reg') /\ reg'.gen = reg.gen

\* A collection step of a legacy record has an outcome of perform_generation_gc_io.
LEMMA LegacyCollected ==
    ASSUME StorageInv, NEW n, GCLegacy(n)
    PROVE  \E o : PairCollected(n, o)
<1>1. PICK st : st = Legacy(reg.leg[n].ino)
  OBVIOUS
<1>2. Sound(reg) /\ reg \in Registries /\ dir \in Dirs /\ disk \in Dirs
  BY TypedParts DEF StorageInv, OnRecords
<1>3. n \in DOMAIN reg.leg
  BY DEF GCLegacy
<1>4. reg.leg[n].ino \in Names /\ reg.leg[n].rec \in Records
  BY <1>2, <1>3, RegistryType
<1>5. st.legacy = TRUE /\ st \in Storages
  BY <1>1, <1>4 DEF Legacy, Storages
<1>6. PICK o \in GCOutcomes(st, reg.leg[n].rec) :
        /\ SetIO(o) /\ FaultIf(o.failed)
        /\ reg' = [reg EXCEPT !.leg = IF o.retire THEN RemoveAt(@, n)
                                      ELSE [@ EXCEPT ![n].rec.gc = "pending"]]
  BY <1>1 DEF GCLegacy
<1>7. Collects(st, reg.leg[n].rec, o)
  BY <1>2, <1>4, <1>5, <1>6, CollectType
<1>8. dir' = o.dir /\ disk' = o.disk
  BY <1>6 DEF SetIO
<1>9. CASE o.retire
  <2>1. reg.leg[n].rec.handles = {}
    BY <1>7, <1>9 DEF Collects
  <2>2. reg' = [reg EXCEPT !.leg = RemoveAt(reg.leg, n)]
    BY <1>6, <1>9
  <2>3. reg' = [gen |-> reg.gen, leg |-> RemoveAt(reg.leg, n)]
    BY <1>2, <2>2, LegChanged
  <2>4. Follows(reg, reg') /\ reg'.gen = reg.gen
    BY <1>2, <1>3, <2>1, <2>3, LegRetired DEF Follows
  <2>5. QED
    BY <1>1, <1>6, <1>7, <1>8, <2>4 DEF PairCollected
<1>10. CASE ~o.retire
  <2>1. reg' = [reg EXCEPT !.leg = [@ EXCEPT ![n].rec.gc = "pending"]]
    BY <1>6, <1>10
  <2>2. Follows(reg, reg') /\ reg'.gen = reg.gen
    BY <1>2, <1>3, <2>1, LegPending DEF Follows
  <2>3. QED
    BY <1>1, <1>6, <1>7, <1>8, <2>2 DEF PairCollected
<1>11. QED
  BY <1>9, <1>10

-----------------------------------------------------------------------------
(* Every step keeps StorageInv.                                            *)

\* A step that leaves directory, registry and handles alone.
LEMMA SameStorageInv ==
    ASSUME StorageInv, UNCHANGED <<dir, disk, reg, hs>>
    PROVE  /\ dir' \in Dirs /\ disk' \in Dirs /\ reg' \in Registries
           /\ hs' \in [Handles -> HandleStates]
           /\ NamesKnown' /\ OnRecords' /\ OpenGenerationsKept'
<1>1. NamesKnown' /\ OnRecords' /\ OpenGenerationsKept'
  BY DEF StorageInv, NamesKnown, OnRecords, OpenGenerationsKept
<1>2. QED
  BY <1>1, TypedParts DEF StorageInv

\* resolve_storage at the start of getattr, open, unlink and compaction.
LEMMA BeginKeeps ==
    ASSUME StorageInv, NEW op \in {"lookup", "open", "unlink", "compact"}, Begin(op)
    PROVE  StorageInv'
<1>1. PICK st \in Resolve(dir) :
        /\ job' = [NoJob EXCEPT !.op = op, !.st = st]
        /\ pc' = IF op = "unlink" /\ st.legacy THEN "body" ELSE "recover"
  BY DEF Begin
<1>2. dir \in Dirs /\ st \in Storages
  BY TypedParts, ResolveType DEF StorageInv
<1>3. job'.op = op /\ job'.st = st /\ job' \in Jobs
  BY <1>1, <1>2, NoJobType DEF NoJob, Jobs
<1>4. ASSUME op # "lookup" PROVE st.ino # None
  <2>1. dir.cur # None \/ dir.data # None
    BY <1>4 DEF Begin, Exists
  <2>2. None \notin Gens
    BY ConstantsAssumption DEF Inodes
  <2>3. QED
    BY <1>2, <2>1, <2>2, ResolveType
<1>5. Working'
  BY <1>1, <1>3, <1>4 DEF Working, Begin
<1>6. Typed'
  BY <1>1, <1>3, SameStorageInv, TypedParts, TypedNext DEF StorageInv, Begin
<1>7. QED
  BY <1>5, <1>6, SameStorageInv DEF StorageInv, Begin

\* A recovery, whether or not it starts a collection.
LEMMA RecoverKeeps ==
    ASSUME StorageInv, Recover \/ RecoverFails
    PROVE  StorageInv'
<1>1. job.op # "none"
  BY DEF StorageInv, Working, Recover, RecoverFails
<1>2. Follows(reg, reg')
  <2>1. CASE Recover
    <3>1. PICK X \in SUBSET Inactive :
            StartGC(MarkedGens(MarkedPair(reg, job.st), X, ~job.st.legacy))
      BY <2>1 DEF Recover
    <3>2. PICK q : q = MarkedGens(MarkedPair(reg, job.st), X, ~job.st.legacy)
      OBVIOUS
    <3>3. X \in SUBSET Gens
      BY DEF Inactive
    <3>4. Follows(reg, q)
      BY <1>1, <2>1, <3>2, <3>3, RecoveryMarks DEF Recover, RecoveryMarking
    <3>5. reg' = Claimed(q)
      BY <3>1, <3>2 DEF StartGC
    <3>6. Follows(q, reg')
      BY <3>4, <3>5, ClaimedSound DEF Follows
    <3>7. QED
      BY <3>4, <3>6, FollowsTwice
  <2>2. CASE RecoverFails /\ reg' = reg
    BY <2>2, FollowsItself DEF StorageInv
  <2>3. CASE RecoverFails /\ reg' # reg
    <3>1. PICK X \in SUBSET Inactive :
            reg' = MarkedGens(MarkedPair(reg, job.st), X, ~job.st.legacy)
      BY <2>3 DEF RecoverFails
    <3>2. ~AliasesCurrent(job.st) => CanGet(reg, Legacy(dir.data), TRUE)
      BY <2>3 DEF RecoverFails
    <3>3. X \in SUBSET Gens
      BY DEF Inactive
    <3>4. PICK q : q = reg'
      OBVIOUS
    <3>5. Follows(reg, q)
      BY <1>1, <3>1, <3>2, <3>3, <3>4, RecoveryMarks DEF RecoveryMarking
    <3>6. QED
      BY <3>4, <3>5
  <2>4. QED
    BY <2>1, <2>2, <2>3
<1>3. dir' = dir /\ hs' = hs /\ job' = job /\ fresh' = fresh /\ limbo' = limbo
  BY DEF Recover, RecoverFails
<1>4. disk' \in {disk, dir}
  BY DEF Recover, RecoverFails
<1>5. pc' \in {"gc", "body"}
  BY DEF Recover, RecoverFails, StartGC
<1>6. fault' \in Faults
  <2>1. fault \in Faults
    BY TypedParts DEF StorageInv
  <2>2. [fault EXCEPT !.since = FALSE] \in Faults
    BY <2>1 DEF Faults
  <2>3. QED
    BY <2>1, <2>2, FaultType DEF Recover, RecoverFails
<1>7. Typed'
  BY <1>2, <1>3, <1>4, <1>5, <1>6, TypedParts, TypedNext DEF StorageInv, Follows, Sound
<1>8. Working'
  BY <1>1, <1>3, <1>5 DEF StorageInv, Working
<1>9. NamesKnown' /\ OnRecords' /\ OpenGenerationsKept'
  <2>1. Stray \notin {dir'.data, disk'.data}
    BY <1>3, <1>4 DEF StorageInv, NamesKnown
  <2>2. \A h \in Handles : SameStorage(hs[h], hs'[h])
    BY <1>3 DEF SameStorage
  <2>3. \A h \in Handles : hs[h].open /\ ~hs[h].legacy => dir'.gen[hs[h].data] = "ready"
    BY <1>3 DEF StorageInv, OpenGenerationsKept
  <2>4. QED
    BY <1>2, <1>3, <2>1, <2>2, <2>3, HandlesStay DEF StorageInv, Follows
<1>10. QED
  BY <1>7, <1>8, <1>9 DEF StorageInv

\* A collection takes neither the active generation nor that of an open handle.
LEMMA CollectKeeps ==
    ASSUME StorageInv, NEW v, NEW rec, NEW o, Collects(v, rec, o),
           dir' = o.dir, disk' = o.disk, FaultIf(o.failed), Follows(reg, reg'),
           UNCHANGED <<hs, pc, job, fresh, limbo>>, pc = "gc",
           v.legacy \/ (v.ino \in Gens /\ rec = reg.gen[v.ino])
    PROVE  StorageInv'
<1>1. /\ dir' \in Dirs /\ disk' \in Dirs /\ dir'.cur = dir.cur
      /\ dir'.data \in {dir.data, dir.cur} /\ disk'.data \in {disk.data, dir.data, dir'.data}
      /\ dir.cur = None => dir'.data = dir.data
  BY DEF Collects
<1>2. \A x \in Gens : (v.legacy \/ x # v.ino) => dir'.gen[x] = dir.gen[x]
  BY DEF Collects
<1>3. \A x \in Gens : x = dir.cur \/ reg.gen[x].handles # {} => dir'.gen[x] = dir.gen[x]
  <2>1. ~v.legacy /\ v.ino = dir.cur => dir' = dir
    BY DEF Collects
  <2>2. rec.handles # {} => dir'.gen = dir.gen
    BY DEF Collects
  <2>3. QED
    BY <1>2, <2>1, <2>2
<1>4. fault' \in Faults
  BY TypedParts, FaultType DEF StorageInv, FaultIf
<1>5. Typed'
  BY <1>1, <1>4, TypedParts, TypedNext DEF StorageInv, Follows, Sound
<1>6. Working'
  <2>1. ASSUME job.op # "none" PROVE job.st \in Resolve(dir')
    <3>1. job.st \in Resolve(dir)
      BY <2>1 DEF StorageInv, Working
    <3>2. CASE dir.cur = None
      BY <1>1, <3>1, <3>2 DEF Resolve
    <3>3. CASE dir.cur # None
      <4>1. dir.cur \in Gens
        BY <3>3, TypedParts, DirType DEF StorageInv
      <4>2. dir'.gen[dir'.cur] = dir.gen[dir.cur] /\ dir'.cur = dir.cur
        BY <1>1, <1>3, <4>1
      <4>3. QED
        BY <3>1, <3>3, <4>2 DEF Resolve
    <3>4. QED
      BY <3>2, <3>3
  <2>2. QED
    BY <2>1 DEF StorageInv, Working
<1>7. NamesKnown' /\ OnRecords' /\ OpenGenerationsKept'
  <2>1. Stray \notin {dir'.data, disk'.data}
    <3>1. Stray \notin Gens
      BY ConstantsAssumption DEF Inodes
    <3>2. Stray # dir.cur
      BY <3>1, TypedParts, DirType, ConstantsAssumption DEF StorageInv
    <3>3. QED
      BY <1>1, <3>2 DEF StorageInv, NamesKnown
  <2>2. \A h \in Handles : SameStorage(hs[h], hs'[h])
    BY DEF SameStorage
  <2>3. ASSUME NEW h \in Handles, hs[h].open, ~hs[h].legacy
        PROVE  dir'.gen[hs[h].data] = "ready"
    <3>1. hs[h].data \in Gens /\ dir.gen[hs[h].data] = "ready"
      BY <2>3 DEF StorageInv, NamesKnown, OpenGenerationsKept
    <3>2. h \in reg.gen[hs[h].data].handles
      BY <2>3, <3>1 DEF StorageInv, OnRecords, Attached
    <3>3. QED
      BY <1>3, <3>1, <3>2
  <2>4. QED
    BY <1>1, <2>1, <2>2, <2>3, HandlesStay DEF StorageInv, Follows
<1>8. QED
  BY <1>5, <1>6, <1>7 DEF StorageInv

\* Collection of a generation.
LEMMA GCGenerationKeeps ==
    ASSUME StorageInv, NEW g \in Gens, GCGeneration(g)
    PROVE  StorageInv'
<1>1. PICK o : Collected(g, o)
  BY GenerationCollected
<1>2. PICK v : v = Generation(g)
  OBVIOUS
<1>3. ~v.legacy /\ v.ino = g
  BY <1>2 DEF Generation
<1>4. /\ Collects(v, reg.gen[g], o) /\ dir' = o.dir /\ disk' = o.disk /\ FaultIf(o.failed)
      /\ Follows(reg, reg')
  BY <1>1, <1>2 DEF Collected
<1>5. QED
  BY <1>3, <1>4, CollectKeeps DEF GCGeneration

\* Collection of a legacy record.
LEMMA GCLegacyKeeps ==
    ASSUME StorageInv, NEW n, GCLegacy(n)
    PROVE  StorageInv'
<1>1. PICK o : PairCollected(n, o)
  BY LegacyCollected
<1>2. PICK v : v = Legacy(reg.leg[n].ino)
  OBVIOUS
<1>3. v.legacy
  BY <1>2 DEF Legacy
<1>4. /\ Collects(v, reg.leg[n].rec, o) /\ dir' = o.dir /\ disk' = o.disk /\ FaultIf(o.failed)
      /\ Follows(reg, reg')
  BY <1>1, <1>2 DEF PairCollected
<1>5. QED
  BY <1>3, <1>4, CollectKeeps DEF GCLegacy

\* The operation that called the collection goes on, or returns.
LEMMA GCDoneKeeps ==
    ASSUME StorageInv, GCDone
    PROVE  StorageInv'
<1>1. UNCHANGED <<dir, disk, reg, hs, fresh, limbo, fault>>
  BY DEF GCDone
<1>2. Working' /\ job' \in Jobs /\ pc' \in {"idle", "recover", "gc", "body", "publish"}
  <2>1. CASE job.op = "none"
    BY <2>1, ReturnWorking DEF GCDone
  <2>2. CASE job.op # "none"
    <3>1. pc' = "body" /\ job' = job
      BY <2>2 DEF GCDone
    <3>2. Working'
      BY <1>1, <2>2, <3>1 DEF StorageInv, Working
    <3>3. QED
      BY <3>1, <3>2, TypedParts DEF StorageInv
  <2>3. QED
    BY <2>1, <2>2
<1>3. Typed'
  BY <1>1, <1>2, SameStorageInv, TypedParts, TypedNext DEF StorageInv
<1>4. QED
  BY <1>1, <1>2, <1>3, SameStorageInv DEF StorageInv

\* Saving a chunk map leaves pointer, data name and generations alone.
LEMMA SavedNames ==
    ASSUME StorageInv, NEW st \in Storages, NEW o, SetIO(o),
           o \in SaveMap(dir, disk, st) \/ o = [dir |-> dir, disk |-> disk, ok |-> TRUE]
    PROVE  /\ dir' \in Dirs /\ disk' \in Dirs
           /\ dir'.cur = dir.cur /\ dir'.data = dir.data /\ dir'.gen = dir.gen
           /\ \/ disk'.cur = disk.cur /\ disk'.gen = disk.gen
              \/ disk'.cur = dir.cur /\ disk'.gen = dir.gen
           /\ disk'.data \in {disk.data, dir.data}
           /\ Stray \notin {dir'.data, disk'.data}
<1>1. dir \in Dirs /\ disk \in Dirs /\ Stray \notin {dir.data, disk.data}
  BY TypedParts DEF StorageInv, NamesKnown
<1>2. dir' = o.dir /\ disk' = o.disk
  BY DEF SetIO
<1>3. CASE o \in SaveMap(dir, disk, st)
  <2>1. Saves(dir, disk, o)
    BY <1>1, <1>3, SaveType
  <2>2. QED
    BY <1>1, <1>2, <2>1 DEF Saves
<1>4. CASE o = [dir |-> dir, disk |-> disk, ok |-> TRUE]
  BY <1>1, <1>2, <1>4
<1>5. QED
  BY <1>3, <1>4

\* What Open and OpenFails do to the directory.
LEMMA TruncatedNames ==
    ASSUME StorageInv, NEW st \in Storages, NEW trunc \in BOOLEAN, NEW o \in Truncated(st, trunc)
    PROVE  o \in SaveMap(dir, disk, st) \/ o = [dir |-> dir, disk |-> disk, ok |-> TRUE]
  BY DEF Truncated

\* A step of an idle or returning operation that leaves registry, pointer, data
\* name and generations alone, and handles on their storages.
LEMMA NamesSaved ==
    ASSUME StorageInv, NEW st \in Storages, NEW o, SetIO(o),
           o \in SaveMap(dir, disk, st) \/ o = [dir |-> dir, disk |-> disk, ok |-> TRUE],
           hs' \in [Handles -> HandleStates], \A h \in Handles : SameStorage(hs[h], hs'[h]),
           reg' = reg
    PROVE  NamesKnown' /\ OnRecords' /\ OpenGenerationsKept'
<1>1. /\ dir'.cur = dir.cur /\ dir'.data = dir.data /\ dir'.gen = dir.gen
      /\ Stray \notin {dir'.data, disk'.data}
  BY SavedNames
<1>2. Follows(reg, reg')
  BY FollowsItself DEF StorageInv
<1>3. \A h \in Handles : hs[h].open /\ ~hs[h].legacy => dir'.gen[hs[h].data] = "ready"
  BY <1>1 DEF StorageInv, OpenGenerationsKept
<1>4. QED
  BY <1>1, <1>2, <1>3, HandlesStay DEF StorageInv, Follows

\* The state of a handle that open or create returns.
LEMMA NewHandleType ==
    ASSUME NEW st \in Storages, NEW d \in Dirs, NEW w \in BOOLEAN
    PROVE  LET s == NewHandle(st, d, w)
           IN  /\ s \in HandleStates /\ s.open /\ s.legacy = st.legacy /\ s.data = st.ino
               /\ ~s.orphan
<1>1. st.legacy \in BOOLEAN /\ st.ino \in Names
  BY DEF Storages
<1>2. MetaOf(st, d) \in Names
  BY <1>1, MetaType
<1>3. None \in Names
  BY DEF Names
<1>4. QED
  BY <1>1, <1>2, <1>3 DEF NewHandle, NoHandle, HandleStates

\* A handle is attached to the storage of the operation.
LEMMA HandleAdded ==
    ASSUME StorageInv, NEW st, Proper(st), NEW h \in Handles, ~hs[h].open, CanGet(reg, st, TRUE),
           reg' = Register(reg, st, h),
           hs'[h].open, hs'[h].legacy = st.legacy, hs'[h].data = st.ino,
           \A x \in Handles \ {h} : SameStorage(hs[x], hs'[x]),
           st.legacy => Linked(reg, st.ino) \/ Unheld(reg, st.ino),
           Stray \notin {dir'.data, disk'.data},
           \A x \in Handles \ {h} : hs[x].open /\ hs[x].data \in {dir'.data, dir'.cur} =>
               hs[x].data \in {dir.data, dir.cur},
           dir'.gen = dir.gen, st.ino \in Inodes, ~st.legacy => dir.gen[st.ino] = "ready"
    PROVE  /\ NamesKnown' /\ OnRecords' /\ OpenGenerationsKept'
           /\ \A x \in Handles \ {h} : Refused(reg, x) => Refused(reg', x)
           /\ \A g \in Gens : /\ reg'.gen[g].gc = reg.gen[g].gc
                              /\ reg'.gen[g].alias = reg.gen[g].alias
                              /\ reg'.gen[g].unlinked = reg.gen[g].unlinked
                              /\ reg'.gen[g] = reg.gen[g] \/ (~st.legacy /\ g = st.ino)
<1>1. Sound(reg) /\ \A x \in Handles : Attached(reg, hs[x], x, {dir.data, dir.cur})
  BY DEF StorageInv, OnRecords
<1>2. PICK s, N : s = hs[h] /\ N = {dir.data, dir.cur}
  OBVIOUS
<1>3. Attached(reg, s, h, N) /\ ~s.open
  BY <1>1, <1>2
<1>4. PICK q : q = Register(reg, st, h)
  OBVIOUS
<1>5. Registers(reg, q, st, h)
  BY <1>1, <1>3, <1>4, RegisterSound
<1>6. reg' = q
  BY <1>4
<1>7. ASSUME NEW x \in Handles PROVE Attached(reg', hs'[x], x, {dir'.data, dir'.cur})
  <2>1. CASE x = h
    BY <1>5, <1>6, <2>1 DEF Registers
  <2>2. CASE x # h
    <3>1. Attached(reg, hs[x], x, {dir.data, dir.cur}) /\ SameStorage(hs[x], hs'[x])
      BY <1>1, <2>2
    <3>2. Attached(reg, hs[x], x, {dir'.data, dir'.cur})
      BY <2>2, <3>1, AttachedWithin
    <3>3. \A L : Attached(reg, hs[x], x, L) => Attached(q, hs'[x], x, L)
      BY <1>5, <2>2, <3>1 DEF Registers
    <3>4. QED
      BY <1>6, <3>2, <3>3
  <2>3. QED
    BY <2>1, <2>2
<1>8. NamesKnown'
  <2>1. ASSUME NEW x \in Handles, hs'[x].open
        PROVE  hs'[x].data \in Inodes /\ (~hs'[x].legacy => hs'[x].data \in Gens)
    <3>1. CASE x = h
      BY <3>1 DEF Proper
    <3>2. CASE x # h
      BY <2>1, <3>2 DEF StorageInv, NamesKnown, SameStorage
    <3>3. QED
      BY <3>1, <3>2
  <2>2. QED
    BY <2>1 DEF NamesKnown
<1>9. OpenGenerationsKept'
  <2>1. ASSUME NEW x \in Handles, hs'[x].open, ~hs'[x].legacy
        PROVE  dir'.gen[hs'[x].data] = "ready"
    <3>1. CASE x = h
      BY <2>1, <3>1
    <3>2. CASE x # h
      BY <2>1, <3>2 DEF StorageInv, OpenGenerationsKept, SameStorage
    <3>3. QED
      BY <3>1, <3>2
  <2>2. QED
    BY <2>1 DEF OpenGenerationsKept
<1>10. QED
  BY <1>5, <1>6, <1>7, <1>8, <1>9 DEF OnRecords, Registers

\* An open attaches its handle to the storage it resolved.
LEMMA OpenKeeps ==
    ASSUME StorageInv, NEW h \in Handles, NEW w \in BOOLEAN, NEW trunc \in BOOLEAN, Open(h, w, trunc)
    PROVE  /\ StorageInv'
           /\ \A x \in Handles \ {h} : Refused(reg, x) => Refused(reg', x)
           /\ \A g \in Gens : /\ reg'.gen[g].gc = reg.gen[g].gc
                              /\ reg'.gen[g].alias = reg.gen[g].alias
                              /\ reg'.gen[g].unlinked = reg.gen[g].unlinked
                              /\ reg'.gen[g] = reg.gen[g] \/ g = dir.cur
           /\ hs'[h].open /\ hs'[h].legacy = job.st.legacy /\ hs'[h].data = job.st.ino
           /\ \A x \in Handles \ {h} : SameStorage(hs[x], hs'[x]) /\ hs'[x].orphan = hs[x].orphan
<1>1. PICK st : st = job.st
  OBVIOUS
<1>2. /\ Proper(st) /\ st \in Resolve(dir) /\ st \in Storages
      /\ st.legacy \in BOOLEAN /\ st.ino \in Names /\ st.ino # None
      /\ st.legacy <=> dir.cur = None
      /\ st.legacy => st.ino = dir.data
      /\ ~st.legacy => st.ino = dir.cur /\ dir.cur \in Gens /\ dir.gen[dir.cur] = "ready"
  <2>1. job.op = "open"
    BY DEF Open
  <2>2. QED
    BY <1>1, <2>1, JobStorage DEF StorageInv
<1>3. PICK o \in Truncated(st, trunc) :
        /\ SetIO(o)
        /\ hs' = [MarkStale(IF trunc THEN HandlesOf(st) ELSE {})
                    EXCEPT ![h] = NewHandle(st, o.dir, w)]
  BY <1>1 DEF Open
<1>4. /\ dir' \in Dirs /\ disk' \in Dirs /\ Stray \notin {dir'.data, disk'.data}
      /\ dir'.cur = dir.cur /\ dir'.data = dir.data /\ dir'.gen = dir.gen /\ dir' = o.dir
  BY <1>2, <1>3, TruncatedNames, SavedNames DEF SetIO
<1>5. PICK H : H = IF trunc THEN HandlesOf(st) ELSE {}
  OBVIOUS
<1>6. PICK s : s = NewHandle(st, o.dir, w)
  OBVIOUS
<1>7. s \in HandleStates /\ s.open /\ s.legacy = st.legacy /\ s.data = st.ino
  BY <1>2, <1>4, <1>6, NewHandleType
<1>8. hs' = [MarkStale(H) EXCEPT ![h] = s]
  BY <1>3, <1>5, <1>6
<1>9. hs \in [Handles -> HandleStates]
  BY TypedParts DEF StorageInv
<1>10. /\ MarkStale(H) \in [Handles -> HandleStates]
       /\ \A x \in Handles : SameStorage(hs[x], MarkStale(H)[x])
                             /\ MarkStale(H)[x].orphan = hs[x].orphan
  BY <1>9, StaleType
<1>11. /\ hs' \in [Handles -> HandleStates] /\ hs'[h] = s
       /\ \A x \in Handles \ {h} : SameStorage(hs[x], hs'[x]) /\ hs'[x].orphan = hs[x].orphan
  BY <1>7, <1>8, <1>10
<1>12. st.ino \in Inodes
  <2>1. st.ino # Stray
    BY <1>2, ConstantsAssumption DEF StorageInv, NamesKnown, Inodes
  <2>2. QED
    BY <1>2, <2>1 DEF Names
<1>13. st.legacy => Linked(reg, st.ino) \/ Unheld(reg, st.ino)
  BY <1>2, PairUnheld DEF StorageInv
<1>14. ~hs[h].open /\ CanGet(reg, st, TRUE) /\ reg' = Register(reg, st, h)
  BY <1>1 DEF Open
<1>15. hs'[h].open /\ hs'[h].legacy = st.legacy /\ hs'[h].data = st.ino
  BY <1>7, <1>11
<1>16. ~st.legacy => dir.gen[st.ino] = "ready"
  BY <1>2
<1>17. /\ NamesKnown' /\ OnRecords' /\ OpenGenerationsKept'
       /\ \A x \in Handles \ {h} : Refused(reg, x) => Refused(reg', x)
       /\ \A g \in Gens : /\ reg'.gen[g].gc = reg.gen[g].gc
                          /\ reg'.gen[g].alias = reg.gen[g].alias
                          /\ reg'.gen[g].unlinked = reg.gen[g].unlinked
                          /\ reg'.gen[g] = reg.gen[g] \/ (~st.legacy /\ g = st.ino)
  BY <1>2, <1>4, <1>11, <1>12, <1>13, <1>14, <1>15, <1>16, HandleAdded
<1>18. Working' /\ job' \in Jobs /\ pc' \in {"idle", "recover", "gc", "body", "publish"}
  BY ReturnWorking DEF Open
<1>19. fresh' \subseteq Inodes /\ limbo' \in BOOLEAN /\ fault' \in Faults
  BY <1>1, <1>12, TypedParts DEF StorageInv, Open
<1>20. Typed'
  BY <1>4, <1>11, <1>17, <1>18, <1>19, TypedNext DEF OnRecords, Sound
<1>21. QED
  BY <1>1, <1>2, <1>11, <1>15, <1>17, <1>18, <1>20 DEF StorageInv

\* A failed open, which may have emptied the map.
LEMMA OpenFailsKeeps ==
    ASSUME StorageInv, NEW trunc \in BOOLEAN, OpenFails(trunc)
    PROVE  StorageInv'
<1>1. PICK st : st = job.st
  OBVIOUS
<1>2. st \in Storages
  <2>1. job.op # "none"
    BY DEF OpenFails
  <2>2. QED
    BY <1>1, <2>1, JobStorage DEF StorageInv
<1>3. PICK o \in Truncated(st, trunc) : SetIO(o) /\ FaultIf(MetaOf(st, o.dir) # None)
  BY <1>1 DEF OpenFails
<1>4. o \in SaveMap(dir, disk, st) \/ o = [dir |-> dir, disk |-> disk, ok |-> TRUE]
  BY <1>2, <1>3, TruncatedNames
<1>5. /\ hs' \in [Handles -> HandleStates]
      /\ \A x \in Handles : SameStorage(hs[x], hs'[x])
  <2>1. PICK H : hs' = MarkStale(H)
    BY DEF OpenFails
  <2>2. QED
    BY <2>1, TypedParts, StaleType DEF StorageInv
<1>6. reg' = reg
  BY DEF OpenFails
<1>7. NamesKnown' /\ OnRecords' /\ OpenGenerationsKept'
  BY <1>2, <1>3, <1>4, <1>5, <1>6, NamesSaved
<1>8. dir' \in Dirs /\ disk' \in Dirs
  BY <1>2, <1>3, <1>4, SavedNames
<1>9. Working' /\ job' \in Jobs /\ pc' \in {"idle", "recover", "gc", "body", "publish"}
  BY ReturnWorking DEF OpenFails
<1>10. fresh' \subseteq Inodes /\ limbo' \in BOOLEAN /\ fault' \in Faults
  BY <1>3, TypedParts, FaultType DEF StorageInv, OpenFails, FaultIf
<1>11. Typed'
  BY <1>5, <1>6, <1>7, <1>8, <1>9, <1>10, TypedNext, TypedParts DEF StorageInv
<1>12. QED
  BY <1>7, <1>9, <1>11 DEF StorageInv

\* A create attaches its handle to a new legacy pair, or to the data file that
\* has no map, or leaves none.
LEMMA CreateKeeps ==
    ASSUME StorageInv, NEW h \in Handles, NEW i \in Inodes, NEW w \in BOOLEAN, Create(h, i, w)
    PROVE  /\ StorageInv'
           /\ dir'.cur = None /\ disk'.cur \in {disk.cur, None} /\ dir'.data = i
           /\ dir'.gen = dir.gen /\ disk'.gen \in {disk.gen, dir.gen}
           /\ dir.cur = None /\ ~hs[h].open /\ dir.data \in {None, i}
           /\ \A x \in Handles : hs[x].open /\ hs[x].data = i => dir.data = i
           /\ \A x \in Handles \ {h} : hs'[x] = hs[x] /\ (Refused(reg, x) => Refused(reg', x))
           /\ \A g \in Gens : /\ reg'.gen[g] = reg.gen[g]
           /\ \/ hs'[h] = hs[h] /\ Fault
              \/ hs'[h].open /\ hs'[h].legacy /\ hs'[h].data = i /\ fault' = fault
<1>1. PICK st, d1 : st = Legacy(i) /\ d1 = [dir EXCEPT !.data = i]
  OBVIOUS
<1>2. i \in Names /\ i \in Inodes
  BY DEF Names
<1>3. st \in Storages /\ st.legacy = TRUE /\ st.ino = i
  BY <1>1, <1>2 DEF Legacy, Storages
<1>4. Proper(st) /\ st.legacy
  BY <1>3 DEF Proper
<1>5. dir \in Dirs /\ disk \in Dirs
  BY TypedParts DEF StorageInv
<1>6. dir.cur = None /\ dir.data \in {None, i} /\ ~hs[h].open /\ pc = "idle"
      /\ (dir.data = None => ~InUse(i))
  BY DEF Create, NoEntry
<1>7. d1 \in Dirs /\ d1.cur = dir.cur /\ d1.data = i /\ d1.gen = dir.gen
  BY <1>1, <1>2, <1>5, DirType
<1>8. PICK o \in SaveMap(d1, disk, st) :
        /\ SetIO(o)
        /\ \/ /\ o.ok /\ CanGet(reg, st, TRUE)
              /\ reg' = Register(reg, st, h)
              /\ hs' = [hs EXCEPT ![h] = NewHandle(st, o.dir, w)]
              /\ UNCHANGED fault
           \/ Fault /\ UNCHANGED <<reg, hs>>
  BY <1>1 DEF Create
<1>9. Saves(d1, disk, o)
  BY <1>3, <1>5, <1>7, <1>8, SaveType
<1>10. /\ dir' \in Dirs /\ disk' \in Dirs
       /\ dir'.cur = None /\ dir'.data = i /\ dir'.gen = dir.gen
       /\ disk'.cur \in {disk.cur, None} /\ disk'.data \in {disk.data, i}
       /\ disk'.gen \in {disk.gen, dir.gen} /\ dir' = o.dir
  BY <1>6, <1>7, <1>8, <1>9 DEF Saves, SetIO
<1>11. \A x \in Handles : hs[x].open /\ hs[x].data = i => dir.data = i
  BY <1>6 DEF InUse
<1>12. i # None /\ i # Stray
  BY <1>2, ConstantsAssumption
<1>13. Stray \notin {dir'.data, disk'.data}
  BY <1>10, <1>12 DEF StorageInv, NamesKnown
<1>14. hs \in [Handles -> HandleStates] /\ reg \in Registries /\ fault \in Faults
  BY TypedParts DEF StorageInv
<1>15. Linked(reg, i) \/ Unheld(reg, i)
  <2>0. CASE dir.data = i
    BY <1>6, <1>12, <2>0, PairUnheld DEF StorageInv
  <2>1. SUFFICES ASSUME dir.data = None,
                        NEW n \in DOMAIN reg.leg, reg.leg[n].ino = i, reg.leg[n].rec.handles # {}
                 PROVE  FALSE
    BY <1>6, <2>0 DEF Unheld
  <2>2. reg.leg[n].rec \in Records
    BY <1>14, <2>1, RegistryType
  <2>3. PICK x \in Handles : x \in reg.leg[n].rec.handles
    BY <2>1, <2>2 DEF Records
  <2>4. hs[x].open /\ hs[x].data = i
    BY <2>1, <2>3 DEF StorageInv, OnRecords, Attached
  <2>5. QED
    BY <1>11, <1>12, <2>1, <2>4
<1>16. Working' /\ job' \in Jobs /\ pc' \in {"idle", "recover", "gc", "body", "publish"}
  BY IdleWorking DEF StorageInv, Create
<1>17. fresh' \subseteq Inodes /\ limbo' \in BOOLEAN
  BY <1>2, TypedParts DEF StorageInv, Create
<1>18. CASE Fault /\ UNCHANGED <<reg, hs>>
  <2>1. Follows(reg, reg')
    BY <1>18, FollowsItself DEF StorageInv
  <2>2. \A x \in Handles : SameStorage(hs[x], hs'[x])
    BY <1>18 DEF SameStorage
  <2>3. \A x \in Handles : hs[x].open /\ hs[x].data \in {dir'.data, dir'.cur} =>
            hs[x].data \in {dir.data, dir.cur}
    BY <1>6, <1>10, <1>11
  <2>4. \A x \in Handles : hs[x].open /\ ~hs[x].legacy => dir'.gen[hs[x].data] = "ready"
    BY <1>10 DEF StorageInv, OpenGenerationsKept
  <2>5. NamesKnown' /\ OnRecords' /\ OpenGenerationsKept'
    BY <1>13, <2>1, <2>2, <2>3, <2>4, HandlesStay DEF StorageInv, Follows
  <2>6. fault' \in Faults
    BY <1>14, <1>18, FaultType
  <2>7. Typed'
    BY <1>10, <1>14, <1>16, <1>17, <1>18, <2>6, TypedNext
  <2>8. QED
    BY <1>6, <1>10, <1>11, <1>16, <1>18, <2>5, <2>7 DEF StorageInv
<1>19. CASE /\ o.ok /\ CanGet(reg, st, TRUE)
            /\ reg' = Register(reg, st, h)
            /\ hs' = [hs EXCEPT ![h] = NewHandle(st, o.dir, w)]
            /\ UNCHANGED fault
  <2>1. PICK s : s = NewHandle(st, o.dir, w)
    OBVIOUS
  <2>2. s \in HandleStates /\ s.open /\ s.legacy = st.legacy /\ s.data = st.ino
    BY <1>3, <1>10, <2>1, NewHandleType
  <2>3. hs' \in [Handles -> HandleStates] /\ hs'[h] = s /\ \A x \in Handles \ {h} : hs'[x] = hs[x]
    BY <1>14, <1>19, <2>1, <2>2
  <2>4. hs'[h].open /\ hs'[h].legacy = st.legacy /\ hs'[h].data = st.ino
    BY <2>2, <2>3
  <2>5. \A x \in Handles \ {h} : SameStorage(hs[x], hs'[x])
    BY <2>3 DEF SameStorage
  <2>6. \A x \in Handles \ {h} : hs[x].open /\ hs[x].data \in {dir'.data, dir'.cur} =>
            hs[x].data \in {dir.data, dir.cur}
    BY <1>6, <1>10, <1>11
  <2>7. st.legacy => Linked(reg, st.ino) \/ Unheld(reg, st.ino)
    BY <1>3, <1>15
  <2>8. dir'.gen = dir.gen /\ st.ino \in Inodes /\ (~st.legacy => dir.gen[st.ino] = "ready")
    BY <1>2, <1>3, <1>4, <1>10
  <2>9. ~hs[h].open /\ CanGet(reg, st, TRUE) /\ reg' = Register(reg, st, h)
    BY <1>6, <1>19
  <2>10. /\ NamesKnown' /\ OnRecords' /\ OpenGenerationsKept'
         /\ \A x \in Handles \ {h} : Refused(reg, x) => Refused(reg', x)
         /\ \A g \in Gens : reg'.gen[g] = reg.gen[g]
    BY <1>4, <1>13, <2>4, <2>5, <2>6, <2>7, <2>8, <2>9, HandleAdded
  <2>11. Typed'
    BY <1>10, <1>14, <1>16, <1>17, <1>19, <2>3, <2>10, TypedNext DEF OnRecords, Sound
  <2>12. hs'[h].open /\ hs'[h].legacy /\ hs'[h].data = i
    BY <1>3, <1>4, <2>4
  <2>13. QED
    BY <1>6, <1>10, <1>11, <1>16, <1>19, <2>3, <2>10, <2>11, <2>12 DEF StorageInv
<1>20. QED
  BY <1>8, <1>18, <1>19

\* A handle's state after a write or a reload of its map.
LEMMA RereadType ==
    ASSUME NEW s \in HandleStates, NEW m \in Names, NEW b \in BOOLEAN, NEW t,
           t = [[s EXCEPT !.meta = m] EXCEPT !.stale = b]
    PROVE  t \in HandleStates /\ SameStorage(s, t) /\ t.orphan = s.orphan
<1>1. PICK e : e = [s EXCEPT !.meta = m]
  OBVIOUS
<1>2. e \in HandleStates /\ e.open = s.open /\ e.legacy = s.legacy /\ e.data = s.data
      /\ e.orphan = s.orphan
  BY <1>1 DEF HandleStates
<1>3. /\ t \in HandleStates /\ t.open = e.open /\ t.legacy = e.legacy /\ t.data = e.data
      /\ t.orphan = e.orphan
  BY <1>1, <1>2 DEF HandleStates
<1>4. QED
  BY <1>2, <1>3 DEF SameStorage

\* What a write, a failed write and a reload do to the handles.
Rereads(h, S) ==
    /\ S \in [Handles -> HandleStates]
    /\ \A x \in Handles : SameStorage(hs[x], S[x]) /\ S[x].orphan = hs[x].orphan

\* A handle reads its map again; others find theirs stale.
LEMMA RereadHandles ==
    ASSUME hs \in [Handles -> HandleStates], NEW h \in Handles, NEW H, NEW m \in Names,
           NEW b \in BOOLEAN
    PROVE  /\ Rereads(h, [MarkStale(H) EXCEPT ![h].meta = m, ![h].stale = b])
           /\ Rereads(h, [hs EXCEPT ![h].meta = m, ![h].stale = b])
           /\ Rereads(h, [MarkStale(H) EXCEPT ![h].meta = m])
<1>1. ASSUME NEW S, Rereads(h, S)
      PROVE  /\ Rereads(h, [S EXCEPT ![h].meta = m, ![h].stale = b])
             /\ Rereads(h, [S EXCEPT ![h].meta = m])
  <2>1. PICK t : t = [[S[h] EXCEPT !.meta = m] EXCEPT !.stale = b]
    OBVIOUS
  <2>2. PICK u : u = [S[h] EXCEPT !.meta = m]
    OBVIOUS
  <2>3. S \in [Handles -> HandleStates] /\ S[h] \in HandleStates
    BY <1>1 DEF Rereads
  <2>4. t \in HandleStates /\ SameStorage(S[h], t) /\ t.orphan = S[h].orphan
    <3>1. PICK s \in HandleStates : s = S[h]
      BY <2>3
    <3>2. t = [[s EXCEPT !.meta = m] EXCEPT !.stale = b]
      BY <2>1, <3>1
    <3>3. t \in HandleStates /\ SameStorage(s, t) /\ t.orphan = s.orphan
      BY <3>2, RereadType
    <3>4. QED
      BY <3>1, <3>3
  <2>5. u \in HandleStates /\ SameStorage(S[h], u) /\ u.orphan = S[h].orphan
    BY <2>2, <2>3 DEF HandleStates, SameStorage
  <2>6. [S EXCEPT ![h].meta = m, ![h].stale = b] = [S EXCEPT ![h] = t]
    BY <2>1, <2>3
  <2>7. [S EXCEPT ![h].meta = m] = [S EXCEPT ![h] = u]
    BY <2>2, <2>3
  <2>8. ASSUME NEW v \in HandleStates, SameStorage(S[h], v), v.orphan = S[h].orphan
        PROVE  Rereads(h, [S EXCEPT ![h] = v])
    BY <1>1, <2>8 DEF Rereads, SameStorage
  <2>9. QED
    BY <2>4, <2>5, <2>6, <2>7, <2>8
<1>2. Rereads(h, hs)
  BY DEF Rereads, SameStorage
<1>3. Rereads(h, MarkStale(H))
  BY StaleType DEF Rereads
<1>4. QED
  BY <1>1, <1>2, <1>3

\* The meta file a handle reads its map from.
LEMMA HandleMeta ==
    ASSUME Typed, NEW h \in Handles
    PROVE  /\ MetaOf(StorageOf(h), dir) \in Names /\ hs[h].meta \in Names
           /\ StorageOf(h) \in Storages
           /\ \A m \in Names : [StorageOf(h) EXCEPT !.ino = m] \in Storages
<1>1. dir \in Dirs /\ hs[h] \in HandleStates
  BY TypedParts
<1>2. hs[h].data \in Names /\ hs[h].meta \in Names /\ hs[h].legacy \in BOOLEAN
  BY <1>1 DEF HandleStates
<1>3. StorageOf(h) \in Storages
  BY <1>2 DEF StorageOf, Storages
<1>4. MetaOf(StorageOf(h), dir) \in Names
  BY <1>1, <1>3, MetaType DEF Storages
<1>5. \A m \in Names : [StorageOf(h) EXCEPT !.ino = m] \in Storages
  BY <1>3 DEF Storages
<1>6. QED
  BY <1>2, <1>3, <1>4, <1>5

\* A write, complete or not, stays on the storage of its handle.
LEMMA WriteKeeps ==
    ASSUME StorageInv, NEW h \in Handles, Write(h) \/ WriteFails(h)
    PROVE  /\ StorageInv' /\ Rereads(h, hs')
           /\ \E st \in Storages : \E o \in SaveMap(dir, disk, st)
                                           \cup {[dir |-> dir, disk |-> disk, ok |-> TRUE]} :
                SetIO(o)
<1>1. PICK m : m = IF hs[h].stale THEN MetaOf(StorageOf(h), dir) ELSE hs[h].meta
  OBVIOUS
<1>2. PICK st : st = [StorageOf(h) EXCEPT !.ino = m]
  OBVIOUS
<1>3. m \in Names /\ st \in Storages
  BY <1>1, <1>2, HandleMeta DEF StorageInv
<1>4. dir \in Dirs /\ disk \in Dirs /\ hs \in [Handles -> HandleStates] /\ fault \in Faults
  BY TypedParts DEF StorageInv
<1>5. PICK o \in SaveMap(dir, disk, st) \cup {[dir |-> dir, disk |-> disk, ok |-> TRUE]} :
        /\ SetIO(o) /\ Rereads(h, hs') /\ fault' \in Faults
  <2>1. CASE Write(h)
    <3>1. PICK o \in SaveMap(dir, disk, st) \cup {[dir |-> dir, disk |-> disk, ok |-> TRUE]} :
            /\ SetIO(o) /\ FaultIf(~o.ok)
            /\ hs' = [MarkStale(Siblings(h)) EXCEPT ![h].meta = m, ![h].stale = ~o.ok]
      BY <1>1, <1>2, <2>1 DEF Write
    <3>2. PICK b \in BOOLEAN : b = ~o.ok
      OBVIOUS
    <3>3. PICK H : H = Siblings(h)
      OBVIOUS
    <3>4. hs' = [MarkStale(H) EXCEPT ![h].meta = m, ![h].stale = b]
      BY <3>1, <3>2, <3>3
    <3>5. Rereads(h, hs')
      BY <1>3, <1>4, <3>4, RereadHandles
    <3>6. QED
      BY <1>4, <3>1, <3>5, FaultType DEF FaultIf
  <2>2. CASE WriteFails(h)
    <3>1. PICK o \in SaveMap(dir, disk, st) : SetIO(o)
      BY <1>1, <1>2, <2>2 DEF WriteFails
    <3>2. hs' = [MarkStale(Siblings(h)) EXCEPT ![h].meta = m]
      BY <1>1, <2>2 DEF WriteFails
    <3>3. PICK H : H = Siblings(h)
      OBVIOUS
    <3>4. hs' = [MarkStale(H) EXCEPT ![h].meta = m]
      BY <3>2, <3>3
    <3>5. PICK b \in BOOLEAN : TRUE
      OBVIOUS
    <3>6. Rereads(h, hs')
      BY <1>3, <1>4, <3>4, <3>5, RereadHandles
    <3>7. QED
      BY <1>4, <2>2, <3>1, <3>6, FaultType DEF WriteFails
  <2>3. QED
    BY <2>1, <2>2
<1>6. reg' = reg /\ UNCHANGED <<pc, job, limbo>> /\ pc = "idle" /\ hs[h].open
  BY DEF Write, WriteFails
<1>7. o \in SaveMap(dir, disk, st) \/ o = [dir |-> dir, disk |-> disk, ok |-> TRUE]
  BY <1>5
<1>8. hs' \in [Handles -> HandleStates] /\ \A x \in Handles : SameStorage(hs[x], hs'[x])
  BY <1>5 DEF Rereads
<1>9. NamesKnown' /\ OnRecords' /\ OpenGenerationsKept'
  BY <1>3, <1>5, <1>6, <1>7, <1>8, NamesSaved
<1>10. dir' \in Dirs /\ disk' \in Dirs
  BY <1>3, <1>5, <1>7, SavedNames
<1>11. Working' /\ job' \in Jobs /\ pc' \in {"idle", "recover", "gc", "body", "publish"}
  BY <1>6, IdleWorking DEF StorageInv
<1>12. hs[h].data \in Inodes
  BY <1>6 DEF StorageInv, NamesKnown
<1>13. fresh' \subseteq Inodes /\ limbo' \in BOOLEAN
  BY <1>6, <1>12, TypedParts DEF StorageInv, Write, WriteFails
<1>14. reg' \in Registries
  BY <1>6, TypedParts DEF StorageInv
<1>15. Typed'
  BY <1>5, <1>8, <1>10, <1>11, <1>13, <1>14, TypedNext
<1>16. QED
  BY <1>3, <1>5, <1>9, <1>11, <1>15 DEF StorageInv

\* A read that reloads the map.
LEMMA RefreshKeeps ==
    ASSUME StorageInv, NEW h \in Handles, Refresh(h)
    PROVE  StorageInv' /\ Rereads(h, hs')
<1>1. PICK m : m = MetaOf(StorageOf(h), dir)
  OBVIOUS
<1>2. PICK b \in BOOLEAN : b = FALSE
  OBVIOUS
<1>3. m \in Names
  BY <1>1, HandleMeta DEF StorageInv
<1>4. hs' = [hs EXCEPT ![h].meta = m, ![h].stale = b]
  BY <1>1, <1>2 DEF Refresh
<1>5. Rereads(h, hs')
  BY <1>3, <1>4, TypedParts, RereadHandles DEF StorageInv
<1>6. hs' \in [Handles -> HandleStates] /\ \A x \in Handles : SameStorage(hs[x], hs'[x])
  BY <1>5 DEF Rereads
<1>7. UNCHANGED <<dir, disk, reg, pc, job, fresh, limbo, fault>> /\ pc = "idle"
  BY DEF Refresh
<1>8. NamesKnown' /\ OnRecords' /\ OpenGenerationsKept'
  <2>1. Follows(reg, reg')
    BY <1>7, FollowsItself DEF StorageInv
  <2>2. \A x \in Handles : hs[x].open /\ ~hs[x].legacy => dir'.gen[hs[x].data] = "ready"
    BY <1>7 DEF StorageInv, OpenGenerationsKept
  <2>3. Stray \notin {dir'.data, disk'.data}
    BY <1>7 DEF StorageInv, NamesKnown
  <2>4. QED
    BY <1>6, <1>7, <2>1, <2>2, <2>3, HandlesStay DEF StorageInv, Follows
<1>9. Working' /\ job' \in Jobs /\ pc' \in {"idle", "recover", "gc", "body", "publish"}
  BY <1>7, IdleWorking DEF StorageInv
<1>10. Typed'
  BY <1>6, <1>7, <1>9, TypedParts, TypedNext DEF StorageInv
<1>11. QED
  BY <1>5, <1>8, <1>9, <1>10 DEF StorageInv

\* A truncation by name saves an empty map.
LEMMA TruncatePathKeeps ==
    ASSUME StorageInv, TruncatePath
    PROVE  StorageInv'
<1>1. PICK st \in Resolve(dir) : \E o \in SaveMap(dir, disk, st) :
        /\ SetIO(o)
        /\ hs' = MarkStale(HandlesOf(st))
        /\ fresh' = IF o.ok THEN {st.ino} ELSE fresh
        /\ FaultIf(~o.ok)
  BY DEF TruncatePath
<1>2. PICK o \in SaveMap(dir, disk, st) :
        /\ SetIO(o)
        /\ hs' = MarkStale(HandlesOf(st))
        /\ fresh' = IF o.ok THEN {st.ino} ELSE fresh
        /\ FaultIf(~o.ok)
  BY <1>1
<1>3. dir \in Dirs /\ hs \in [Handles -> HandleStates] /\ fresh \subseteq Inodes /\ fault \in Faults
  BY TypedParts DEF StorageInv
<1>4. st \in Storages /\ st.ino \in Inodes
  <2>1. dir.cur # None \/ dir.data # None
    BY DEF TruncatePath, Exists
  <2>2. /\ st \in Storages /\ st.ino \in Names /\ st.ino \in {dir.data, dir.cur}
        /\ st.ino = dir.cur => dir.cur \in Gens \/ dir.data = dir.cur
        /\ st.ino = dir.data \/ dir.cur \in Gens
        /\ dir.cur = None => st.ino = dir.data
    BY <1>3, ResolveType
  <2>3. st.ino # None /\ st.ino # Stray
    BY <1>3, <2>1, <2>2, ResolveType, ConstantsAssumption DEF StorageInv, NamesKnown, Inodes
  <2>4. QED
    BY <2>2, <2>3 DEF Names
<1>5. hs' \in [Handles -> HandleStates] /\ \A x \in Handles : SameStorage(hs[x], hs'[x])
  <2>1. PICK H : H = HandlesOf(st)
    OBVIOUS
  <2>2. QED
    BY <1>2, <1>3, <2>1, StaleType
<1>6. reg' = reg /\ UNCHANGED <<pc, job, limbo>> /\ pc = "idle"
  BY DEF TruncatePath
<1>7. NamesKnown' /\ OnRecords' /\ OpenGenerationsKept'
  BY <1>2, <1>4, <1>5, <1>6, NamesSaved
<1>8. dir' \in Dirs /\ disk' \in Dirs
  BY <1>2, <1>4, SavedNames
<1>9. Working' /\ job' \in Jobs /\ pc' \in {"idle", "recover", "gc", "body", "publish"}
  BY <1>6, IdleWorking DEF StorageInv
<1>10. fresh' \subseteq Inodes /\ limbo' \in BOOLEAN /\ fault' \in Faults /\ reg' \in Registries
  BY <1>2, <1>3, <1>4, <1>6, TypedParts, FaultType DEF StorageInv, FaultIf
<1>11. Typed'
  BY <1>5, <1>8, <1>9, <1>10, TypedNext
<1>12. QED
  BY <1>7, <1>9, <1>11 DEF StorageInv

\* What a release does to the record of generation g.
Dropped(g, h) ==
    /\ reg'.gen[g].handles = reg.gen[g].handles \ {h}
    /\ reg'.gen[g].unlinked => reg.gen[g].unlinked
    /\ reg'.gen[g].alias => reg.gen[g].alias
    /\ reg'.gen[g].gc = "none" <=> reg.gen[g].gc = "none"
    /\ reg.gen[g].gc # "none" => /\ reg'.gen[g].alias = reg.gen[g].alias
                                 /\ reg'.gen[g].unlinked = reg.gen[g].unlinked

\* A release takes its handle from the record and changes nothing else.
LEMMA ReleaseKeeps ==
    ASSUME StorageInv, NEW h \in Handles, Release(h)
    PROVE  /\ StorageInv'
           /\ ~hs'[h].open /\ \A x \in Handles \ {h} : hs'[x] = hs[x]
           /\ \A x \in Handles \ {h} : Refused(reg, x) => Refused(reg', x)
           /\ \A g \in Gens : Dropped(g, h)
           /\ \/ /\ pc' = "gc" /\ UNCHANGED fault
                 /\ \A g \in Gens : reg'.gen[g].gc # "none" => reg'.gen[g].gc = "claimed"
              \/ /\ pc' = "idle" /\ Fault
                 /\ \A g \in Gens : reg'.gen[g].gc = reg.gen[g].gc
<1>1. PICK r : r = Unregister(reg, h)
  OBVIOUS
<1>2. PICK q : q \in {r, Freed(r, h)} /\ CollectAndReturn(q)
  BY <1>1 DEF Release
<1>3. Sound(reg) /\ reg \in Registries /\ hs \in [Handles -> HandleStates] /\ fault \in Faults
  BY TypedParts DEF StorageInv, OnRecords
<1>4. Unregisters(reg, r, h)
  BY <1>1, <1>3, UnregisterSound
<1>5. Sound(r)
  BY <1>4 DEF Unregisters
<1>6. /\ Follows(r, q)
      /\ \A g \in Gens : q.gen[g] = r.gen[g]
                         \/ (q.gen[g] = NoRecord /\ r.gen[g].gc = "none" /\ r.gen[g].handles = {})
  <2>1. CASE q = r
    BY <1>5, <2>1, RetainsItself DEF Follows
  <2>2. CASE q = Freed(r, h)
    BY <1>5, <2>2, FreedSound DEF Follows
  <2>3. QED
    BY <1>2, <2>1, <2>2
<1>7. /\ Follows(q, reg') /\ Working' /\ job' \in Jobs
      /\ pc' \in {"idle", "recover", "gc", "body", "publish"}
      /\ (fault \in Faults => fault' \in Faults)
      /\ \/ /\ pc' = "gc" /\ UNCHANGED fault
            /\ \A g \in Gens : Claims(q.gen[g], reg'.gen[g])
         \/ pc' = "idle" /\ reg' = q /\ Fault
  BY <1>2, <1>6, CollectedSound DEF Follows
<1>8. Follows(r, reg')
  BY <1>6, <1>7, FollowsTwice
<1>9. hs' = [hs EXCEPT ![h] = NoHandle] /\ UNCHANGED <<dir, disk, fresh, limbo>>
  BY DEF Release
<1>10. NoHandle \in HandleStates /\ ~NoHandle.open
  BY DEF NoHandle, HandleStates, Names
<1>11. /\ hs' \in [Handles -> HandleStates] /\ ~hs'[h].open
       /\ \A x \in Handles \ {h} : hs'[x] = hs[x]
  BY <1>3, <1>9, <1>10
<1>12. ASSUME NEW x \in Handles PROVE Attached(reg', hs'[x], x, {dir'.data, dir'.cur})
  <2>1. CASE x = h
    <3>1. PICK s, N : s = hs'[h] /\ N = {dir'.data, dir'.cur}
      OBVIOUS
    <3>2. Attached(r, s, h, N)
      BY <1>4, <1>11, <3>1 DEF Unregisters
    <3>3. SameStorage(s, s)
      BY DEF SameStorage
    <3>4. Attached(reg', s, h, N)
      BY <1>8, <3>2, <3>3, AttachedStays DEF Follows
    <3>5. QED
      BY <2>1, <3>1, <3>4
  <2>2. CASE x # h
    <3>1. PICK s, N : s = hs[x] /\ N = {dir.data, dir.cur}
      OBVIOUS
    <3>2. Attached(reg, s, x, N)
      BY <3>1 DEF StorageInv, OnRecords
    <3>3. SameStorage(s, s)
      BY DEF SameStorage
    <3>4. Attached(r, s, x, N)
      BY <1>4, <2>2, <3>2, <3>3 DEF Unregisters
    <3>5. Attached(reg', s, x, N)
      BY <1>8, <3>3, <3>4, AttachedStays DEF Follows
    <3>6. QED
      BY <1>9, <1>11, <2>2, <3>1, <3>5
  <2>3. QED
    BY <2>1, <2>2
<1>13. \A x \in Handles \ {h} : Refused(reg, x) => Refused(reg', x)
  <2> SUFFICES ASSUME NEW x \in Handles \ {h}, Refused(reg, x)
               PROVE  Refused(reg', x)
    OBVIOUS
  <2>1. Refused(r, x)
    BY <1>4 DEF Unregisters
  <2>2. QED
    BY <1>8, <2>1, AttachedStays DEF Follows
<1>14. NamesKnown' /\ OpenGenerationsKept'
  BY <1>9, <1>11 DEF StorageInv, NamesKnown, OpenGenerationsKept
<1>15. OnRecords'
  BY <1>8, <1>12 DEF OnRecords, Follows
<1>16. Typed'
  BY <1>3, <1>7, <1>8, <1>9, <1>11, TypedParts, TypedNext DEF StorageInv, Follows, Sound
<1>17. ASSUME NEW g \in Gens
       PROVE  /\ Dropped(g, h)
              /\ pc' = "idle" /\ reg' = q => reg'.gen[g].gc = reg.gen[g].gc
              /\ Claims(q.gen[g], reg'.gen[g]) /\ reg'.gen[g].gc # "none"
                 => reg'.gen[g].gc = "claimed"
  <2>1. /\ r.gen[g].handles = reg.gen[g].handles \ {h} /\ r.gen[g].gc = reg.gen[g].gc
        /\ r.gen[g].alias = reg.gen[g].alias /\ r.gen[g].unlinked = reg.gen[g].unlinked
    BY <1>4 DEF Unregisters
  <2>2. /\ q.gen[g].handles = r.gen[g].handles /\ q.gen[g].gc = r.gen[g].gc
        /\ q.gen[g].alias => r.gen[g].alias
        /\ q.gen[g].unlinked => r.gen[g].unlinked
        /\ q.gen[g].gc # "none" => q.gen[g].alias = r.gen[g].alias
                                   /\ q.gen[g].unlinked = r.gen[g].unlinked
    BY <1>6, NoRecordType
  <2>3. Claims(q.gen[g], reg'.gen[g]) \/ reg'.gen[g] = q.gen[g]
    BY <1>7
  <2>4. /\ reg'.gen[g].handles = q.gen[g].handles
        /\ reg'.gen[g].alias = q.gen[g].alias /\ reg'.gen[g].unlinked = q.gen[g].unlinked
        /\ reg'.gen[g].gc = "none" <=> q.gen[g].gc = "none"
    BY <2>3 DEF Claims
  <2>5. q.gen[g].gc \in {"none", "pending", "claimed"}
    <3>1. q.gen[g] \in Records
      BY <1>6, RegistryType DEF Follows, Sound
    <3>2. QED
      BY <3>1 DEF Records
  <2>6. Dropped(g, h)
    BY <2>1, <2>2, <2>4 DEF Dropped
  <2>7. Claims(q.gen[g], reg'.gen[g]) /\ reg'.gen[g].gc # "none" => reg'.gen[g].gc = "claimed"
    BY <2>5 DEF Claims
  <2>8. QED
    BY <2>1, <2>2, <2>6, <2>7
<1>18. StorageInv'
  BY <1>7, <1>14, <1>15, <1>16 DEF StorageInv
<1>19. QED
  BY <1>7, <1>11, <1>13, <1>17, <1>18

\* Handles stay attached when no name of theirs is left, whatever was unlinked.
LEMMA AttachedUnnamed ==
    ASSUME NEW r, NEW q, Retains(r, q), NEW h \in Handles, NEW s, NEW t, NEW N, NEW M,
           Attached(r, s, h, N), SameStorage(s, t), t.open => t.data \notin M
    PROVE  Attached(q, t, h, M)
<1>1. \A g \in Gens : h \in q.gen[g].handles <=> t.open /\ ~t.legacy /\ t.data = g
  BY DEF Attached, SameStorage, Retains
<1>2. ASSUME NEW m \in DOMAIN q.leg, h \in q.leg[m].rec.handles
      PROVE  t.open /\ t.legacy /\ t.data = q.leg[m].ino
  <2>1. PICK n \in DOMAIN r.leg :
             q.leg[m].ino = r.leg[n].ino /\ q.leg[m].rec.handles = r.leg[n].rec.handles
    BY <1>2 DEF Retains
  <2>2. QED
    BY <1>2, <2>1 DEF Attached, SameStorage
<1>3. ASSUME t.open, t.legacy
      PROVE  \E m \in DOMAIN q.leg : h \in q.leg[m].rec.handles
  <2>1. PICK n \in DOMAIN r.leg : h \in r.leg[n].rec.handles
    BY <1>3 DEF Attached, SameStorage
  <2>2. QED
    BY <2>1 DEF Retains
<1>4. QED
  BY <1>1, <1>2, <1>3 DEF Attached

\* A directory whose pointer, and perhaps more, has been removed.
Unnamed(d) ==
    /\ d \in Dirs /\ d.cur = None /\ d.gen = dir.gen
    /\ d.data \in {dir.data, None}

\* An unlink stops half way, its registry being q.
UnlinkStopped(q) ==
    /\ reg' = q /\ Fault /\ Return
    /\ limbo' = (limbo \/ dir' # dir)
    /\ IF job.st.legacy /\ dir' # dir THEN fresh' = {} /\ hs' = Orphaned ELSE UNCHANGED <<fresh, hs>>
    /\ \/ dir' = dir /\ disk' = disk
       \/ /\ Unnamed(dir') /\ dir' # dir
          /\ \/ job.st.legacy /\ disk' = disk /\ dir'.data = None
             \/ ~job.st.legacy /\ TornUnlink /\ disk' = disk /\ dir'.data = dir.data
             \/ ~job.st.legacy /\ Unnamed(disk') /\ disk'.data = dir.data
          /\ ~job.st.legacy => Marks(reg.gen[dir.cur], q.gen[dir.cur], TRUE)

\* An unlink is complete, its registry having been q.
UnlinkDone(q) ==
    /\ dir' = disk' /\ Unnamed(dir') /\ dir'.data = None
    /\ hs' = Orphaned /\ fresh' = {} /\ limbo' = FALSE
    /\ CollectAndReturn(MarkUnlinked(q))

\* An unlink that stops has one of three outcomes.
LEMMA StopsShape ==
    ASSUME dir \in Dirs, NEW q, NEW O, UnlinkStops(O, q),
           \A o \in O : \/ o.dir = dir /\ o.disk = disk
                        \/ /\ Unnamed(o.dir) /\ o.dir # dir
                           /\ \/ job.st.legacy /\ o.disk = disk /\ o.dir.data = None
                              \/ ~job.st.legacy /\ TornUnlink /\ o.disk = disk
                                 /\ o.dir.data = dir.data
                              \/ ~job.st.legacy /\ Unnamed(o.disk) /\ o.disk.data = dir.data
                           /\ ~job.st.legacy => Marks(reg.gen[dir.cur], q.gen[dir.cur], TRUE)
    PROVE  UnlinkStopped(q)
<1>1. PICK o \in O :
        /\ SetIO(o)
        /\ limbo' = (limbo \/ o.dir # dir)
        /\ IF job.st.legacy /\ o.dir # dir
           THEN fresh' = {} /\ hs' = Orphaned ELSE UNCHANGED <<fresh, hs>>
  BY DEF UnlinkStops
<1>2. dir' = o.dir /\ disk' = o.disk
  BY <1>1 DEF SetIO
<1>3. reg' = q /\ Fault /\ Return
  BY DEF UnlinkStops
<1>4. QED
  BY <1>1, <1>2, <1>3 DEF UnlinkStopped

\* Every unlink stops or is complete; the active generation is marked first.
LEMMA UnlinkShape ==
    ASSUME StorageInv, Unlink
    PROVE  \E q : /\ Follows(reg, q)
                  /\ \A g \in Gens : q.gen[g] = reg.gen[g]
                                     \/ (g = dir.cur /\ Marks(reg.gen[g], q.gen[g], TRUE))
                  /\ \/ UnlinkStopped(q)
                     \/ /\ UnlinkDone(q)
                        /\ ~job.st.legacy => Marks(reg.gen[dir.cur], q.gen[dir.cur], TRUE)
<1>1. PICK d1, d2, d3 : /\ d1 = [dir EXCEPT !.cur = None]
                        /\ d2 = [d1 EXCEPT !.data = None]
                        /\ d3 = [d2 EXCEPT !.meta = None]
  OBVIOUS
<1>2. dir \in Dirs /\ None \in Names /\ job.op = "unlink"
  BY TypedParts DEF StorageInv, Unlink, Names
<1>3. d1 \in Dirs /\ d1.cur = None /\ d1.data = dir.data /\ d1.gen = dir.gen
  BY <1>1, <1>2, DirType
<1>4. d2 \in Dirs /\ d2.cur = None /\ d2.data = None /\ d2.gen = dir.gen
  BY <1>1, <1>2, <1>3, DirType
<1>5. d3 \in Dirs /\ d3.cur = None /\ d3.data = None /\ d3.gen = dir.gen
  BY <1>1, <1>2, <1>4, DirType
<1>6. Unnamed(d1) /\ Unnamed(d2) /\ Unnamed(d3)
  BY <1>3, <1>4, <1>5 DEF Unnamed
<1>7. /\ job.st.legacy <=> dir.cur = None
      /\ job.st.legacy => job.st.ino = dir.data
      /\ ~job.st.legacy => job.st.ino = dir.cur /\ dir.cur \in Gens
      /\ job.st.ino # None /\ Proper(job.st)
  BY <1>2, JobStorage DEF StorageInv
<1>8. ASSUME NEW r, Unlinked(d3, r) PROVE UnlinkDone(r)
  <2>1. dir' = d3 /\ disk' = d3
    BY <1>8, OutcomeParts DEF Unlinked, SetIO
  <2>2. QED
    BY <1>5, <1>6, <1>8, <2>1 DEF Unlinked, UnlinkDone
<1>9. CASE job.st.legacy
  <2>1. d2 # dir /\ d3 # dir
    BY <1>4, <1>5, <1>7, <1>9
  <2>2. PICK O : O = {Failed(x, disk) : x \in {dir, d2, d3}}
    OBVIOUS
  <2>3. UnlinkStops(O, reg) \/ Unlinked(d3, reg)
    BY <1>1, <1>9, <2>2 DEF Unlink
  <2>4. ASSUME NEW o \in O
        PROVE  \/ o.dir = dir /\ o.disk = disk
               \/ Unnamed(o.dir) /\ o.dir # dir /\ o.disk = disk /\ o.dir.data = None
    <3>1. PICK x \in {dir, d2, d3} : o = Failed(x, disk)
      BY <2>2
    <3>2. o.dir = x /\ o.disk = disk
      BY <3>1, OutcomeParts
    <3>3. QED
      BY <1>4, <1>5, <1>6, <2>1, <3>2
  <2>5. UnlinkStops(O, reg) => UnlinkStopped(reg)
    BY <1>2, <1>9, <2>4, StopsShape
  <2>6. Follows(reg, reg)
    BY FollowsItself DEF StorageInv
  <2>7. QED
    BY <1>8, <1>9, <2>3, <2>5, <2>6
<1>10. CASE ~job.st.legacy
  <2>0. PICK yes \in BOOLEAN : yes = TRUE
    OBVIOUS
  <2>1. PICK q, st : yes = TRUE /\ st = job.st /\ q = MarkForGC(reg, st, yes)
    BY <2>0
  <2>2. /\ Follows(reg, q) /\ st.ino = dir.cur
        /\ \A x \in Gens : IF x = st.ino THEN Marks(reg.gen[x], q.gen[x], yes)
                           ELSE q.gen[x] = reg.gen[x]
    <3>1. Proper(st) /\ ~st.legacy /\ CanGet(reg, st, yes) /\ st.ino = dir.cur
      BY <1>7, <1>10, <2>1 DEF CanGet
    <3>2. Sound(reg)
      BY DEF StorageInv, OnRecords
    <3>3. GenMarked(reg, q, st.ino, yes)
      BY <2>1, <3>1, <3>2, GenMarkSound
    <3>4. QED
      BY <3>1, <3>3 DEF Follows, GenMarked
  <2>3. /\ Marks(reg.gen[dir.cur], q.gen[dir.cur], TRUE)
        /\ \A x \in Gens : q.gen[x] = reg.gen[x]
                           \/ (x = dir.cur /\ Marks(reg.gen[x], q.gen[x], TRUE))
    BY <1>7, <1>10, <2>1, <2>2
  <2>4. dir.cur # None /\ d1 # dir /\ d2 # dir /\ d3 # dir
    BY <1>3, <1>4, <1>5, <1>7, <1>10
  <2>5. PICK A, B, C : /\ A = {Failed(dir, disk)} /\ B = {Failed(d1, disk)}
                       /\ C = {Failed(x, d1) : x \in {d1, d2, d3}}
    OBVIOUS
  <2>6. \/ UnlinkStops(A, reg) \/ UnlinkStops(A, q)
        \/ (TornUnlink /\ UnlinkStops(B, q)) \/ UnlinkStops(C, q) \/ Unlinked(d3, q)
    BY <1>1, <1>10, <2>1, <2>5 DEF Unlink
  <2>7. \A o \in A : o.dir = dir /\ o.disk = disk
    BY <2>5, OutcomeParts
  <2>8. \A o \in B : Unnamed(o.dir) /\ o.dir # dir /\ o.disk = disk /\ o.dir.data = dir.data
    BY <1>3, <1>6, <2>4, <2>5, OutcomeParts
  <2>9. ASSUME NEW o \in C
        PROVE  Unnamed(o.dir) /\ o.dir # dir /\ Unnamed(o.disk) /\ o.disk.data = dir.data
    <3>1. PICK x \in {d1, d2, d3} : o = Failed(x, d1)
      BY <2>5
    <3>2. o.dir = x /\ o.disk = d1
      BY <3>1, OutcomeParts
    <3>3. QED
      BY <1>3, <1>6, <2>4, <3>2
  <2>10. UnlinkStops(A, reg) => UnlinkStopped(reg)
    BY <1>2, <2>7, StopsShape
  <2>11. UnlinkStops(A, q) => UnlinkStopped(q)
    BY <1>2, <2>7, StopsShape
  <2>12. TornUnlink /\ UnlinkStops(B, q) => UnlinkStopped(q)
    BY <1>2, <1>10, <2>3, <2>8, StopsShape
  <2>13. UnlinkStops(C, q) => UnlinkStopped(q)
    BY <1>2, <1>10, <2>3, <2>9, StopsShape
  <2>14. Unlinked(d3, q) => UnlinkDone(q)
    BY <1>8
  <2>15. Follows(reg, reg)
    BY FollowsItself DEF StorageInv
  <2>16. CASE UnlinkStopped(reg)
    BY <2>15, <2>16
  <2>17. CASE UnlinkStopped(q) \/ UnlinkDone(q)
    BY <2>2, <2>3, <2>17
  <2>18. QED
    BY <2>6, <2>10, <2>11, <2>12, <2>13, <2>14, <2>16, <2>17
<1>11. QED
  BY <1>9, <1>10

\* No name leads to the open handles any more.
LEMMA OrphanedType ==
    ASSUME hs \in [Handles -> HandleStates]
    PROVE  /\ Orphaned \in [Handles -> HandleStates]
           /\ \A h \in Handles : /\ SameStorage(hs[h], Orphaned[h])
                                 /\ Orphaned[h].open => Orphaned[h].orphan
<1>1. ASSUME NEW h \in Handles, NEW b \in BOOLEAN
      PROVE  LET e == [hs[h] EXCEPT !.orphan = b]
             IN  e \in HandleStates /\ SameStorage(hs[h], e) /\ e.orphan = b
  BY DEF HandleStates, SameStorage
<1>2. ASSUME NEW h \in Handles
      PROVE  /\ Orphaned[h] \in HandleStates /\ SameStorage(hs[h], Orphaned[h])
             /\ Orphaned[h].orphan = hs[h].open
  <2>1. PICK b \in BOOLEAN : b = hs[h].open
    BY DEF HandleStates
  <2>2. Orphaned[h] = [hs[h] EXCEPT !.orphan = b]
    BY <2>1 DEF Orphaned
  <2>3. QED
    BY <1>1, <2>1, <2>2
<1>3. Orphaned = [h \in Handles |-> Orphaned[h]]
  BY DEF Orphaned
<1>4. QED
  BY <1>2, <1>3 DEF SameStorage

\* An unlink, complete or not, leaves open handles on their records.
LEMMA UnlinkKeeps ==
    ASSUME StorageInv, Unlink
    PROVE  StorageInv'
<1>1. PICK q : /\ Follows(reg, q)
               /\ UnlinkStopped(q) \/ UnlinkDone(q)
  BY UnlinkShape
<1>2. /\ dir \in Dirs /\ disk \in Dirs /\ reg \in Registries /\ hs \in [Handles -> HandleStates]
      /\ fresh \subseteq Inodes /\ limbo \in BOOLEAN /\ fault \in Faults
  BY TypedParts DEF StorageInv
<1>3. /\ Orphaned \in [Handles -> HandleStates]
      /\ \A h \in Handles : SameStorage(hs[h], Orphaned[h])
  BY <1>2, OrphanedType
<1>4. /\ hs' \in [Handles -> HandleStates] /\ \A h \in Handles : SameStorage(hs[h], hs'[h])
      /\ fresh' \subseteq Inodes
  <2>1. hs' \in {hs, Orphaned} /\ fresh' \in {fresh, {}}
    BY <1>1 DEF UnlinkStopped, UnlinkDone
  <2>2. \A h \in Handles : SameStorage(hs[h], hs[h])
    BY DEF SameStorage
  <2>3. QED
    BY <1>2, <1>3, <2>1, <2>2
<1>5. /\ dir' \in Dirs /\ disk' \in Dirs /\ dir'.gen = dir.gen
      /\ dir'.cur \in {dir.cur, None} /\ dir'.data \in {dir.data, None}
      /\ disk'.data \in {disk.data, dir.data, None}
  BY <1>1, <1>2 DEF UnlinkStopped, UnlinkDone, Unnamed
<1>6. None \notin Inodes /\ Stray # None
  BY ConstantsAssumption
<1>7. Stray \notin {dir'.data, disk'.data}
  BY <1>5, <1>6 DEF StorageInv, NamesKnown
<1>8. \A h \in Handles : hs[h].open => hs[h].data # None
  BY <1>6 DEF StorageInv, NamesKnown
<1>9. \A h \in Handles : hs[h].open /\ ~hs[h].legacy => dir'.gen[hs[h].data] = "ready"
  BY <1>5 DEF StorageInv, OpenGenerationsKept
<1>10. CASE UnlinkStopped(q)
  <2>1. Follows(reg, reg')
    BY <1>1, <1>10 DEF UnlinkStopped
  <2>2. \A h \in Handles : hs[h].open /\ hs[h].data \in {dir'.data, dir'.cur} =>
            hs[h].data \in {dir.data, dir.cur}
    BY <1>5, <1>8
  <2>3. NamesKnown' /\ OnRecords' /\ OpenGenerationsKept'
    BY <1>4, <1>7, <1>9, <2>1, <2>2, HandlesStay DEF StorageInv, Follows
  <2>4. Working' /\ job' \in Jobs /\ pc' \in {"idle", "recover", "gc", "body", "publish"}
    BY <1>10, ReturnWorking DEF UnlinkStopped
  <2>5. limbo' \in BOOLEAN /\ fault' \in Faults
    BY <1>2, <1>10, FaultType DEF UnlinkStopped
  <2>6. Typed'
    BY <1>4, <1>5, <2>1, <2>4, <2>5, TypedNext DEF Follows, Sound
  <2>7. QED
    BY <2>3, <2>4, <2>6 DEF StorageInv
<1>11. CASE UnlinkDone(q)
  <2>1. PICK r : r = MarkUnlinked(q)
    OBVIOUS
  <2>2. Sound(r) /\ Retains(q, r)
    BY <1>1, <2>1, UnlinkedSound DEF Follows
  <2>3. CollectAndReturn(r)
    BY <1>11, <2>1 DEF UnlinkDone
  <2>4. /\ Follows(r, reg') /\ Working' /\ job' \in Jobs
        /\ pc' \in {"idle", "recover", "gc", "body", "publish"} /\ fault' \in Faults
    BY <1>2, <2>2, <2>3, CollectedSound
  <2>5. Retains(reg, r)
    BY <1>1, <2>2, RetainsTwice DEF Follows
  <2>6. Retains(reg, reg')
    BY <2>4, <2>5, RetainsTwice DEF Follows
  <2>7. dir'.cur = None /\ dir'.data = None /\ limbo' \in BOOLEAN
    BY <1>11 DEF UnlinkDone, Unnamed
  <2>8. ASSUME NEW h \in Handles PROVE Attached(reg', hs'[h], h, {dir'.data, dir'.cur})
    <3>1. Attached(reg, hs[h], h, {dir.data, dir.cur}) /\ SameStorage(hs[h], hs'[h])
      BY <1>4 DEF StorageInv, OnRecords
    <3>2. hs'[h].open => hs'[h].data \notin {dir'.data, dir'.cur}
      BY <1>8, <2>7, <3>1 DEF SameStorage
    <3>3. QED
      BY <2>6, <3>1, <3>2, AttachedUnnamed
  <2>9. OnRecords'
    BY <2>4, <2>8 DEF OnRecords, Follows
  <2>10. NamesKnown' /\ OpenGenerationsKept'
    BY <1>4, <1>5, <1>7 DEF StorageInv, NamesKnown, OpenGenerationsKept, SameStorage
  <2>11. Typed'
    BY <1>4, <1>5, <2>4, <2>7, TypedNext DEF Follows, Sound
  <2>12. QED
    BY <2>4, <2>9, <2>10, <2>11 DEF StorageInv
<1>12. QED
  BY <1>1, <1>10, <1>11

\* A compaction that has nothing to do.
LEMMA CompactSkipsKeeps ==
    ASSUME StorageInv, CompactSkips
    PROVE  StorageInv'
<1>1. UNCHANGED <<dir, disk, reg, hs, fresh, limbo, fault>> /\ Return
  BY DEF CompactSkips
<1>2. Working' /\ job' \in Jobs /\ pc' \in {"idle", "recover", "gc", "body", "publish"}
  BY <1>1, ReturnWorking
<1>3. Typed'
  BY <1>1, <1>2, SameStorageInv, TypedParts, TypedNext DEF StorageInv
<1>4. QED
  BY <1>1, <1>2, <1>3, SameStorageInv DEF StorageInv

\* A generation is built where there was nothing, and nobody knows it.
LEMMA BuildKeeps ==
    ASSUME StorageInv, NEW g \in Gens, NEW resize \in BOOLEAN, Build(g, resize)
    PROVE  /\ StorageInv' /\ dir' = disk' /\ dir'.cur = dir.cur /\ dir'.data = dir.data
           /\ \A x \in Gens : dir'.gen[x] = IF x = g THEN "ready" ELSE dir.gen[x]
           /\ dir.gen[g] = "absent" /\ disk.gen[g] = "absent" /\ job'.op = "compact"
           /\ job'.st = job.st /\ job'.new = g /\ UNCHANGED <<reg, hs, limbo, fault>>
           /\ reg.gen[g] = NoRecord
<1>1. /\ dir \in Dirs /\ disk \in Dirs /\ fresh \subseteq Inodes /\ job \in Jobs /\ job.op = "compact"
      /\ "ready" \in GenStates /\ reg \in Registries
  BY TypedParts DEF StorageInv, Build, GenStates, Rank
<1>2. PICK d1 : d1 = [dir EXCEPT !.gen[g] = "ready"]
  OBVIOUS
<1>3. PICK x \in GenStates : x = "ready"
  BY <1>1
<1>4. /\ d1 \in Dirs /\ d1.cur = dir.cur /\ d1.data = dir.data
      /\ \A y \in Gens : d1.gen[y] = IF y = g THEN "ready" ELSE dir.gen[y]
  BY <1>1, <1>2, <1>3, DirGenType
<1>5. dir' = d1 /\ disk' = d1
  BY <1>2, OutcomeParts DEF Build, SetIO
<1>6. UnusedGen(g) /\ UNCHANGED <<reg, hs, limbo, fault>>
  BY DEF Build
<1>7. /\ dir.gen[g] = "absent" /\ disk.gen[g] = "absent"
      /\ \A n \in DOMAIN reg.leg : reg.leg[n].ino # g
      /\ \A h \in Handles : hs[h].open => hs[h].data # g
  BY <1>6 DEF UnusedGen, InUse
<1>8. reg.gen[g] = NoRecord
  BY <1>6 DEF UnusedGen, StorageInv, OnRecords, Sound, Bucket
<1>9. job' = [job EXCEPT !.new = g, !.resize = resize] /\ pc' = "publish"
  BY DEF Build
<1>10. job'.op = job.op /\ job'.st = job.st /\ job'.new = g /\ job' \in Jobs
  BY <1>1, <1>9 DEF Jobs
<1>11. dir'.cur = dir.cur /\ dir'.data = dir.data
  BY <1>4, <1>5
<1>12. job.st \in Resolve(dir) /\ job.st.ino # None
       /\ (dir.cur # None => dir.cur \in Gens /\ dir.gen[dir.cur] = "ready")
  <2>1. job.st \in Resolve(dir) /\ job.st.ino # None
    BY <1>1 DEF StorageInv, Working
  <2>2. QED
    BY <1>1, <2>1, ResolveType
<1>13. g # dir.cur
  BY <1>7, <1>12, ConstantsAssumption DEF Inodes
<1>14. job.st \in Resolve(dir')
  BY <1>4, <1>5, <1>12, <1>13 DEF Resolve
<1>15. Working'
  BY <1>1, <1>4, <1>5, <1>6, <1>7, <1>8, <1>9, <1>10, <1>12, <1>13, <1>14 DEF Working
<1>16. fresh' \subseteq Inodes
  BY <1>1 DEF Build, Inodes
<1>17. Typed'
  BY <1>4, <1>5, <1>6, <1>9, <1>10, <1>16, TypedParts, TypedNext DEF StorageInv
<1>18. NamesKnown' /\ OnRecords' /\ OpenGenerationsKept'
  <2>1. Follows(reg, reg')
    BY <1>6, FollowsItself DEF StorageInv
  <2>2. \A h \in Handles : SameStorage(hs[h], hs'[h])
    BY <1>6 DEF SameStorage
  <2>3. Stray \notin {dir'.data, disk'.data}
    BY <1>4, <1>5 DEF StorageInv, NamesKnown
  <2>4. ASSUME NEW h \in Handles, hs[h].open, ~hs[h].legacy
        PROVE  dir'.gen[hs[h].data] = "ready"
    BY <1>4, <1>5, <1>7, <2>4 DEF StorageInv, NamesKnown, OpenGenerationsKept
  <2>5. QED
    BY <1>11, <2>1, <2>2, <2>3, <2>4, HandlesStay DEF StorageInv, Follows
<1>19. QED
  BY <1>1, <1>4, <1>5, <1>6, <1>7, <1>8, <1>10, <1>15, <1>17, <1>18 DEF StorageInv

\* A failed build leaves some of a directory that nobody knows.
LEMMA BuildFailsKeeps ==
    ASSUME StorageInv, NEW g \in Gens, BuildFails(g)
    PROVE  /\ StorageInv' /\ dir'.cur = dir.cur /\ dir'.data = dir.data
           /\ disk'.cur \in {disk.cur, dir.cur}
           /\ \A x \in Gens \ {g} : dir'.gen[x] = dir.gen[x]
                                    /\ disk'.gen[x] \in {disk.gen[x], dir.gen[x]}
           /\ dir.gen[g] = "absent" /\ disk.gen[g] = "absent" /\ g # dir.cur
           /\ UNCHANGED <<reg, hs, fresh, limbo>> /\ Fault /\ Return
<1>1. dir \in Dirs /\ disk \in Dirs /\ job.op # "none" /\ fault \in Faults
  BY TypedParts DEF StorageInv, BuildFails
<1>2. /\ UnusedGen(g) /\ UNCHANGED <<reg, hs, fresh, limbo>> /\ Fault /\ Return
  BY DEF BuildFails
<1>3. /\ dir.gen[g] = "absent" /\ disk.gen[g] = "absent"
      /\ \A h \in Handles : hs[h].open => hs[h].data # g
  BY <1>2 DEF UnusedGen, InUse
<1>4. g # dir.cur
  <2>1. dir.cur # None => dir.gen[dir.cur] = "ready"
    BY <1>1, JobStorage DEF StorageInv
  <2>2. QED
    BY <1>3, <2>1, ConstantsAssumption DEF Inodes
<1>5. "absent" \in GenStates /\ "marker" \in GenStates
  BY DEF GenStates, Rank
<1>6. PICK x \in GenStates, y \in GenStates :
        /\ dir' = [dir EXCEPT !.gen[g] = x]
        /\ disk' = disk \/ disk' = [dir EXCEPT !.gen[g] = y]
  <2>1. CASE \E x \in {"absent", "marker"} : SetIO(Failed([dir EXCEPT !.gen[g] = x], disk))
    BY <1>5, <2>1, OutcomeParts DEF SetIO
  <2>2. CASE \E x \in GenStates :
               \E s \in {[dir EXCEPT !.gen[g] = "marker"], [dir EXCEPT !.gen[g] = x]} :
                 SetIO(Failed([dir EXCEPT !.gen[g] = x], s))
    <3>0. PICK x \in GenStates :
               \E s \in {[dir EXCEPT !.gen[g] = "marker"], [dir EXCEPT !.gen[g] = x]} :
                 SetIO(Failed([dir EXCEPT !.gen[g] = x], s))
      BY <2>2
    <3>1. PICK s \in {[dir EXCEPT !.gen[g] = "marker"], [dir EXCEPT !.gen[g] = x]} :
                 SetIO(Failed([dir EXCEPT !.gen[g] = x], s))
      BY <3>0
    <3>2. dir' = [dir EXCEPT !.gen[g] = x] /\ disk' = s
      BY <3>1, OutcomeParts DEF SetIO
    <3>3. QED
      BY <1>5, <3>1, <3>2
  <2>3. QED
    BY <2>1, <2>2 DEF BuildFails
<1>7. PICK d1, s1 : d1 = [dir EXCEPT !.gen[g] = x] /\ s1 = [dir EXCEPT !.gen[g] = y]
  OBVIOUS
<1>8. /\ d1 \in Dirs /\ d1.cur = dir.cur /\ d1.data = dir.data
      /\ \A z \in Gens : d1.gen[z] = IF z = g THEN x ELSE dir.gen[z]
  BY <1>1, <1>7, DirGenType
<1>9. /\ s1 \in Dirs /\ s1.cur = dir.cur /\ s1.data = dir.data
      /\ \A z \in Gens : s1.gen[z] = IF z = g THEN y ELSE dir.gen[z]
  BY <1>1, <1>7, DirGenType
<1>10. /\ dir' \in Dirs /\ disk' \in Dirs /\ dir'.cur = dir.cur /\ dir'.data = dir.data
       /\ disk'.cur \in {disk.cur, dir.cur} /\ disk'.data \in {disk.data, dir.data}
       /\ \A z \in Gens \ {g} : dir'.gen[z] = dir.gen[z]
                                /\ disk'.gen[z] \in {disk.gen[z], dir.gen[z]}
  BY <1>1, <1>6, <1>7, <1>8, <1>9
<1>11. Working' /\ job' \in Jobs /\ pc' \in {"idle", "recover", "gc", "body", "publish"}
  BY <1>2, ReturnWorking
<1>12. Typed'
  BY <1>2, <1>10, <1>11, TypedParts, FaultType, TypedNext DEF StorageInv
<1>13. NamesKnown' /\ OnRecords' /\ OpenGenerationsKept'
  <2>1. Follows(reg, reg')
    BY <1>2, FollowsItself DEF StorageInv
  <2>2. \A h \in Handles : SameStorage(hs[h], hs'[h])
    BY <1>2 DEF SameStorage
  <2>3. Stray \notin {dir'.data, disk'.data}
    BY <1>10 DEF StorageInv, NamesKnown
  <2>4. ASSUME NEW h \in Handles, hs[h].open, ~hs[h].legacy
        PROVE  dir'.gen[hs[h].data] = "ready"
    BY <1>3, <1>10, <2>4 DEF StorageInv, NamesKnown, OpenGenerationsKept
  <2>5. QED
    BY <1>10, <2>1, <2>2, <2>3, <2>4, HandlesStay DEF StorageInv, Follows
<1>14. QED
  BY <1>2, <1>3, <1>4, <1>10, <1>11, <1>12, <1>13 DEF StorageInv

\* A publication without handoff: the handles stay, and those on the old storage
\* may write no more once the pointer has moved.
NotHandedOver ==
    /\ dir' \in Dirs /\ disk' \in Dirs
    /\ dir'.cur \in {dir.cur, job.new} /\ dir'.data = dir.data /\ dir'.gen = dir.gen
    /\ disk' \in {disk, dir, dir'}
    /\ Follows(reg, reg')
    /\ \A g \in Gens : /\ reg'.gen[g].present = reg.gen[g].present /\ reg'.gen[g].gc = reg.gen[g].gc
                       /\ reg'.gen[g].alias = reg.gen[g].alias
                       /\ reg'.gen[g].unlinked = reg.gen[g].unlinked
    /\ dir'.cur # dir.cur => \A h \in HandlesOf(job.st) : Refused(reg', h)
    /\ Fault /\ Return /\ UNCHANGED <<hs, limbo>> /\ fresh' = Content(dir')

\* What publish_generation does to the directory.
LEMMA PublishedNames ==
    ASSUME dir \in Dirs, disk \in Dirs, NEW g \in Gens, NEW o \in Publish(dir, disk, g), SetIO(o)
    PROVE  /\ dir' \in Dirs /\ disk' \in Dirs /\ dir' = o.dir
           /\ dir'.cur \in {dir.cur, g} /\ dir'.data = dir.data /\ dir'.gen = dir.gen
           /\ disk' \in {disk, dir, dir'}
           /\ o.ok => disk' = dir'
<1>1. Publishes(dir, disk, g, o)
  BY PublishType
<1>2. dir' = o.dir /\ disk' = o.disk
  BY DEF SetIO
<1>3. QED
  BY <1>1, <1>2 DEF Publishes

\* A publication that hands nothing over supersedes the old storage or moves no name.
LEMMA PublishFailsShape ==
    ASSUME StorageInv, PublishFails \/ PublishWithoutRecord
    PROVE  NotHandedOver
<1>1. dir \in Dirs /\ disk \in Dirs /\ job.new \in Gens /\ job.op # "none" /\ job.new # dir.cur
  BY TypedParts DEF StorageInv, Working, PublishFails, PublishWithoutRecord
<1>2. PICK st : st = job.st
  OBVIOUS
<1>3. Proper(st) /\ Sound(reg)
  BY <1>1, <1>2, JobStorage DEF StorageInv, OnRecords
<1>4. PICK q : q = Supersede(reg, st, {})
  OBVIOUS
<1>5. /\ Sound(q) /\ Retains(reg, q) /\ KeepsLinks(reg, q)
      /\ \A h \in Find(reg, st).handles : Refused(q, h)
      /\ \A g \in Gens :
           /\ q.gen[g].present = reg.gen[g].present /\ q.gen[g].gc = reg.gen[g].gc
           /\ q.gen[g].alias = reg.gen[g].alias /\ q.gen[g].unlinked = reg.gen[g].unlinked
  BY <1>3, <1>4, SupersedeSound
<1>6. Follows(reg, q) /\ Follows(reg, reg)
  BY <1>5, FollowsItself DEF Follows, StorageInv
<1>7. \A h \in HandlesOf(job.st) : Refused(q, h)
  BY <1>2, <1>5 DEF HandlesOf
<1>8. /\ dir' \in Dirs /\ disk' \in Dirs
      /\ dir'.cur \in {dir.cur, job.new} /\ dir'.data = dir.data /\ dir'.gen = dir.gen
      /\ disk' \in {disk, dir, dir'}
      /\ reg' = q \/ (reg' = reg /\ dir'.cur = dir.cur)
  <2>1. CASE PublishFails
    <3>1. CASE UNCHANGED <<dir, disk, reg>>
      BY <1>1, <3>1
    <3>2. CASE \E o \in Publish(dir, disk, job.new) :
                 /\ ~o.ok /\ o.dir.cur = dir.cur
                 /\ SetIO(o) /\ UNCHANGED reg
      <4>1. PICK o \in Publish(dir, disk, job.new) :
                 o.dir.cur = dir.cur /\ SetIO(o) /\ reg' = reg
        BY <3>2
      <4>2. QED
        BY <1>1, <4>1, PublishedNames
    <3>3. CASE \E o \in Publish(dir, disk, job.new) :
                 /\ ~o.ok
                 /\ SetIO(o) /\ reg' = Supersede(reg, job.st, {})
      <4>1. PICK o \in Publish(dir, disk, job.new) : SetIO(o) /\ reg' = q
        BY <1>2, <1>4, <3>3
      <4>2. QED
        BY <1>1, <4>1, PublishedNames
    <3>4. QED
      BY <2>1, <3>1, <3>2, <3>3 DEF PublishFails
  <2>2. CASE PublishWithoutRecord
    <3>1. PICK o \in Publish(dir, disk, job.new) : SetIO(o)
      BY <2>2 DEF PublishWithoutRecord
    <3>2. reg' = q
      BY <1>2, <1>4, <2>2 DEF PublishWithoutRecord
    <3>3. QED
      BY <1>1, <3>1, <3>2, PublishedNames
  <2>3. QED
    BY <2>1, <2>2
<1>9. Fault /\ Return /\ UNCHANGED <<hs, limbo>> /\ fresh' = Content(dir')
  BY DEF PublishFails, PublishWithoutRecord
<1>10. QED
  BY <1>5, <1>6, <1>7, <1>8, <1>9 DEF NotHandedOver

\* A publication that hands nothing over.
LEMMA PublishFailsKeeps ==
    ASSUME StorageInv, PublishFails \/ PublishWithoutRecord
    PROVE  StorageInv'
<1>1. NotHandedOver
  BY PublishFailsShape
<1>2. /\ job.new \in Gens
      /\ \A h \in Handles : hs[h].open => hs[h].data # job.new
  BY DEF StorageInv, Working, PublishFails, PublishWithoutRecord
<1>3. /\ dir' \in Dirs /\ disk' \in Dirs
      /\ dir'.cur \in {dir.cur, job.new} /\ dir'.data = dir.data /\ dir'.gen = dir.gen
      /\ disk'.data \in {disk.data, dir.data} /\ Follows(reg, reg')
  BY <1>1 DEF NotHandedOver
<1>4. Fault /\ Return /\ UNCHANGED <<hs, limbo>> /\ fresh' = Content(dir')
  BY <1>1 DEF NotHandedOver
<1>5. NamesKnown' /\ OnRecords' /\ OpenGenerationsKept'
  <2>1. \A h \in Handles : SameStorage(hs[h], hs'[h])
    BY <1>4 DEF SameStorage
  <2>2. \A h \in Handles : hs[h].open /\ hs[h].data \in {dir'.data, dir'.cur} =>
            hs[h].data \in {dir.data, dir.cur}
    BY <1>2, <1>3
  <2>3. Stray \notin {dir'.data, disk'.data}
    BY <1>3 DEF StorageInv, NamesKnown
  <2>4. \A h \in Handles : hs[h].open /\ ~hs[h].legacy => dir'.gen[hs[h].data] = "ready"
    BY <1>3 DEF StorageInv, OpenGenerationsKept
  <2>5. QED
    BY <1>3, <2>1, <2>2, <2>3, <2>4, HandlesStay DEF StorageInv, Follows
<1>6. Working' /\ job' \in Jobs /\ pc' \in {"idle", "recover", "gc", "body", "publish"}
  BY <1>4, ReturnWorking
<1>7. fresh' \subseteq Inodes
  BY <1>2, <1>4, TypedParts DEF StorageInv, Content, Inodes
<1>8. Typed'
  BY <1>3, <1>4, <1>6, <1>7, TypedParts, FaultType, TypedNext DEF StorageInv, Follows, Sound
<1>9. QED
  BY <1>5, <1>6, <1>8 DEF StorageInv

\* A publication with handoff: the writers W move to the new generation, the
\* handles that stay on the old storage may write no more.
HandsOff(W) ==
    /\ dir' \in Dirs /\ disk' \in Dirs
    /\ dir'.cur = job.new /\ dir'.data = dir.data /\ dir'.gen = dir.gen
    /\ disk' \in {disk, dir, dir'}
    /\ Sound(reg')
    /\ hs' \in [Handles -> HandleStates]
    /\ \A h \in W : hs[h].open /\ hs'[h].open /\ ~hs'[h].legacy /\ hs'[h].data = job.new
                    /\ hs'[h].orphan = hs[h].orphan
    /\ \A h \in Handles \ W :
         /\ hs'[h] = hs[h]
         /\ Refused(reg, h) \/ h \in HandlesOf(job.st) => Refused(reg', h)
    /\ \A h \in Handles : Attached(reg', hs'[h], h, {dir'.data, dir'.cur})
    /\ reg'.gen[job.new].gc = "none" /\ ~reg'.gen[job.new].alias /\ ~reg'.gen[job.new].unlinked
    /\ \A x \in Gens \ {job.new} :
         /\ reg'.gen[x].unlinked = reg.gen[x].unlinked
         /\ reg.gen[x].alias => reg'.gen[x].alias
         /\ reg'.gen[x].alias => reg.gen[x].alias \/ x = dir.cur
         /\ reg.gen[x].gc # "none" => reg'.gen[x].gc # "none"
         /\ reg'.gen[x].gc # "none" =>
              reg.gen[x].gc # "none" \/ (x = dir.cur /\ (reg'.gen[x].alias \/ reg'.gen[x].unlinked))
    /\ \/ /\ pc' = "gc" /\ job' = NoJob /\ UNCHANGED fault /\ disk' = dir'
          /\ \A x \in Gens : reg'.gen[x].gc # "none" => reg'.gen[x].gc = "claimed"
          /\ dir.cur \in Gens => reg'.gen[dir.cur].gc = "claimed"
       \/ /\ Return /\ Fault
          /\ \A x \in Gens : reg'.gen[x].gc = "claimed" => reg.gen[x].gc = "claimed"
    /\ UNCHANGED limbo /\ fresh' = Content(dir')

\* The registry and the handles of a handoff, before the old storage is marked.
HandedOff(q, st, W, S) ==
    /\ HandsOver(reg, q, st, job.new, W)
    /\ W \in SUBSET Handles /\ W \subseteq HandlesOf(st)
    /\ S \in [Handles -> HandleStates]
    /\ \A h \in W : /\ hs[h].open /\ S[h].open /\ ~S[h].legacy /\ S[h].data = job.new
                    /\ S[h].orphan = hs[h].orphan
    /\ \A h \in Handles \ W :
         /\ S[h] = hs[h]
         /\ Refused(reg, h) \/ h \in HandlesOf(st) => Refused(q, h)
    /\ \A h \in Handles : Attached(q, S[h], h, {dir.data, job.new})
    /\ st.legacy => Linked(q, st.ino) \/ Unheld(q, st.ino)

\* A handle on the record of a storage is open.
LEMMA RecordedOpen ==
    ASSUME StorageInv, NEW st, Proper(st), NEW h \in Handles, h \in HandlesOf(st)
    PROVE  hs[h].open
<1>1. Sound(reg) /\ Attached(reg, hs[h], h, {dir.data, dir.cur})
  BY DEF StorageInv, OnRecords
<1>2. reg \in Registries
  BY <1>1 DEF Sound
<1>3. PICK no \in BOOLEAN : no = FALSE
  OBVIOUS
<1>4. h \in RecordOf(reg, st, no).handles
  BY <1>3 DEF HandlesOf, Find
<1>5. Found(reg, st, no)
  BY <1>4, NoRecordType DEF RecordOf
<1>6. CASE st.legacy
  <2>1. LegacyAt(reg, st.ino, no) # {}
    BY <1>5, <1>6 DEF Found
  <2>2. First(LegacyAt(reg, st.ino, no)) \in DOMAIN reg.leg
    BY <1>2, <2>1, FirstFound
  <2>3. RecordOf(reg, st, no) = reg.leg[First(LegacyAt(reg, st.ino, no))].rec
    BY <1>5, <1>6 DEF RecordOf
  <2>4. QED
    BY <1>1, <1>4, <2>2, <2>3 DEF Attached
<1>7. CASE ~st.legacy
  BY <1>1, <1>4, <1>5, <1>7 DEF RecordOf, Attached, Proper
<1>8. QED
  BY <1>6, <1>7

\* Writers and registry move together.
LEMMA HandoffMoves ==
    ASSUME StorageInv, pc = "publish", NEW st, NEW W, NEW q, NEW S,
           st = job.st, W = Writers(job.st), q = Handoff(reg, job.st, job.new),
           S = Rebound(job.st, job.new)
    PROVE  HandedOff(q, st, W, S)
<1>1. /\ job.op # "none" /\ job.new \in Gens /\ job.new # dir.cur /\ reg.gen[job.new] = NoRecord
      /\ \A h \in Handles : hs[h].open => hs[h].data # job.new
  BY DEF StorageInv, Working
<1>2. Sound(reg) /\ \A h \in Handles : Attached(reg, hs[h], h, {dir.data, dir.cur})
  BY DEF StorageInv, OnRecords
<1>3. /\ Proper(st) /\ (st.legacy => st.ino = dir.data) /\ (~st.legacy => st.ino = dir.cur)
      /\ st.legacy \in BOOLEAN
  BY <1>1, JobStorage DEF StorageInv
<1>4. hs \in [Handles -> HandleStates]
  BY TypedParts DEF StorageInv
<1>5. W \subseteq HandlesOf(st) /\ \A h \in W : h \in Find(reg, st).handles
  BY DEF Writers, HandlesOf
<1>6. Find(reg, st).handles \in SUBSET Handles
  <2>1. PICK no \in BOOLEAN : no = FALSE
    OBVIOUS
  <2>2. RecordOf(reg, st, no) \in Records
    BY <1>2, <1>3, GetType
  <2>3. QED
    BY <2>1, <2>2 DEF Find, Records
<1>7. W \in SUBSET Handles /\ W \subseteq Find(reg, st).handles
  BY <1>5, <1>6
<1>8. q = HandedOver(reg, st, job.new, W)
  BY DEF Handoff, HandedOver
<1>9. HandsOver(reg, q, st, job.new, W)
  BY <1>1, <1>2, <1>3, <1>7, <1>8, HandedOverShape
<1>10. \A h \in Handles : S[h] = IF h \in W
          THEN [hs[h] EXCEPT !.legacy = FALSE, !.data = job.new, !.meta = job.new, !.stale = FALSE]
          ELSE hs[h]
  BY DEF Rebound
<1>11. \A h \in W : /\ hs[h].open /\ S[h] \in HandleStates /\ S[h].open /\ ~S[h].legacy
                    /\ S[h].data = job.new /\ S[h].orphan = hs[h].orphan
  <2>1. TAKE h \in W
  <2>2. hs[h].open /\ hs[h] \in HandleStates
    BY <1>3, <1>4, <1>5, <1>7, RecordedOpen
  <2>3. S[h] = [hs[h] EXCEPT !.legacy = FALSE, !.data = job.new, !.meta = job.new, !.stale = FALSE]
    BY <1>7, <1>10
  <2>4. PICK s \in HandleStates : s = hs[h]
    BY <2>2
  <2>5. PICK g \in Gens : g = job.new
    BY <1>1
  <2>6. PICK t : t = S[h]
    OBVIOUS
  <2>7. t = [s EXCEPT !.legacy = FALSE, !.data = g, !.meta = g, !.stale = FALSE]
    BY <2>3, <2>4, <2>5, <2>6
  <2>8. t \in HandleStates /\ t.open = s.open /\ t.legacy = FALSE /\ t.data = g
        /\ t.orphan = s.orphan
    BY <2>7 DEF HandleStates, Names, Inodes
  <2>9. QED
    BY <2>2, <2>4, <2>5, <2>6, <2>8
<1>12. \A h \in Handles \ W : S[h] = hs[h]
  BY <1>10
<1>13. S \in [Handles -> HandleStates]
  <2>1. S = [h \in Handles |-> S[h]]
    BY DEF Rebound
  <2>2. \A h \in Handles : S[h] \in HandleStates
    BY <1>4, <1>11, <1>12
  <2>3. QED
    BY <2>1, <2>2
<1>14. ASSUME NEW h \in Handles
       PROVE  /\ h \notin W => /\ Attached(q, hs[h], h, {dir.data, job.new})
                               /\ Refused(reg, h) \/ h \in HandlesOf(st) => Refused(q, h)
              /\ h \in W => \A t, M : t.open /\ ~t.legacy /\ t.data = job.new => Attached(q, t, h, M)
  <2>1. Attached(reg, hs[h], h, {dir.data, dir.cur})
        /\ (hs[h].open /\ hs[h].data \in {dir.data, job.new} => hs[h].data \in {dir.data, dir.cur})
    BY <1>1, <1>2
  <2>2. Attached(reg, hs[h], h, {dir.data, job.new})
    BY <2>1, AttachedWithin
  <2>3. /\ ~st.legacy => st.ino # job.new
        /\ h \in W => h \in Find(reg, st).handles
    BY <1>1, <1>3, <1>5
  <2>4. /\ h \notin W => \A t, M : SameStorage(hs[h], t)
                                    /\ (t.data \in M => t.data \in {dir.data, job.new})
                                    => Attached(q, t, h, M)
        /\ h \notin W /\ (Refused(reg, h) \/ h \in Find(reg, st).handles) => Refused(q, h)
        /\ h \in W => \A t, M : t.open /\ ~t.legacy /\ t.data = job.new => Attached(q, t, h, M)
    <3>1. PICK g \in Gens : g = job.new
      BY <1>1
    <3>2. PICK s : s = hs[h]
      OBVIOUS
    <3>3. PICK r : r = reg
      OBVIOUS
    <3>4. PICK N : N = {dir.data, job.new}
      OBVIOUS
    <3>5. Sound(r) /\ r.gen[g] = NoRecord /\ (~st.legacy => st.ino # g) /\ Proper(st)
      BY <1>1, <1>2, <1>3, <2>3, <3>1, <3>3
    <3>6. HandsOver(r, q, st, g, W)
      BY <1>9, <3>1, <3>3
    <3>7. Attached(r, s, h, N) /\ (h \in W => h \in Find(r, st).handles)
      BY <2>2, <2>3, <3>2, <3>3, <3>4
    <3>8. W \in SUBSET Handles
      BY <1>7
    <3>9. Moves(r, q, st, g, W, h, s, N)
      BY <3>5, <3>6, <3>7, <3>8, HandedOverSound
    <3>10. QED
      BY <3>1, <3>2, <3>3, <3>4, <3>9 DEF Moves
  <2>5. h \notin W => Attached(q, hs[h], h, {dir.data, job.new})
    BY <2>4 DEF SameStorage
  <2>6. QED
    BY <2>4, <2>5 DEF HandlesOf
<1>15. \A h \in Handles : Attached(q, S[h], h, {dir.data, job.new})
  BY <1>11, <1>12, <1>14
<1>16. st.legacy => Linked(q, st.ino) \/ Unheld(q, st.ino)
  <2>1. SUFFICES ASSUME st.legacy
                 PROVE  Linked(q, st.ino) \/ Unheld(q, st.ino)
    OBVIOUS
  <2>2. Linked(reg, st.ino) \/ Unheld(reg, st.ino)
    BY <1>3, <2>1, PairUnheld DEF StorageInv
  <2>3. /\ DOMAIN q.leg = DOMAIN reg.leg
        /\ \A n \in DOMAIN reg.leg :
              /\ q.leg[n].ino = reg.leg[n].ino /\ q.leg[n].rec.unlinked = reg.leg[n].rec.unlinked
              /\ q.leg[n].rec.handles \subseteq reg.leg[n].rec.handles
    BY <1>9 DEF HandsOver
  <2>4. QED
    BY <2>2, <2>3 DEF Linked, Unheld
<1>17. QED
  BY <1>5, <1>7, <1>9, <1>11, <1>12, <1>13, <1>14, <1>15, <1>16 DEF HandedOff

\* The old storage handed to the collector: registry q becomes m.
HandoffMarked(q, st, m) ==
    /\ Follows(q, m)
    /\ \A x \in Gens : IF ~st.legacy /\ x = st.ino THEN Marks(q.gen[x], m.gen[x], TRUE)
                       ELSE m.gen[x] = q.gen[x]

\* The old storage is handed to the collector with the alias obligation.
LEMMA HandoffMarks ==
    ASSUME NEW q, Sound(q), NEW st, Proper(st), NEW yes \in BOOLEAN, yes = TRUE,
           CanGet(q, st, yes), st.legacy => Linked(q, st.ino) \/ Unheld(q, st.ino),
           NEW m, m = MarkForGC(q, st, yes)
    PROVE  HandoffMarked(q, st, m)
<1>3. CASE st.legacy
  <2>1. st.legacy /\ ~Found(q, st, yes) => yes /\ Unheld(q, st.ino)
    BY <1>3, LinkedFound
  <2>2. Sound(m) /\ Retains(q, m) /\ KeepsLinks(q, m) /\ m.gen = q.gen
    BY <1>3, <2>1, MarkSound
  <2>3. QED
    BY <1>3, <2>2 DEF HandoffMarked, Follows
<1>4. CASE ~st.legacy
  <2>1. GenMarked(q, m, st.ino, yes)
    BY <1>4, GenMarkSound
  <2>2. QED
    BY <1>4, <2>1 DEF GenMarked, HandoffMarked, Follows
<1>5. QED
  BY <1>3, <1>4

\* Handles that moved stay where they are in a registry that follows.
LEMMA MovedFollows ==
    ASSUME NEW q, NEW st, NEW W, NEW S, HandedOff(q, st, W, S), NEW z, Follows(q, z)
    PROVE  /\ Sound(z)
           /\ \A h \in Handles \ W : Refused(reg, h) \/ h \in HandlesOf(st) => Refused(z, h)
           /\ \A h \in Handles : Attached(z, S[h], h, {dir.data, job.new})
<1>1. Sound(z) /\ Retains(q, z) /\ KeepsLinks(q, z)
  BY DEF Follows
<1>2. ASSUME NEW h \in Handles
      PROVE  /\ Attached(z, S[h], h, {dir.data, job.new})
             /\ Refused(q, h) => Refused(z, h)
  <2>1. PICK s : s = S[h]
    OBVIOUS
  <2>2. PICK N : N = {dir.data, job.new}
    OBVIOUS
  <2>3. Attached(q, s, h, N) /\ SameStorage(s, s)
    BY <2>1, <2>2 DEF HandedOff, SameStorage
  <2>4. Attached(z, s, h, N) /\ (Refused(q, h) => Refused(z, h))
    BY <1>1, <2>3, AttachedStays
  <2>5. QED
    BY <2>1, <2>2, <2>4
<1>3. \A h \in Handles \ W : Refused(reg, h) \/ h \in HandlesOf(st) => Refused(q, h)
  BY DEF HandedOff
<1>4. QED
  BY <1>1, <1>2, <1>3

\* A publication with handoff moves exactly the writers of the old storage.
LEMMA HandoffShape ==
    ASSUME StorageInv, PublishAndHandoff
    PROVE  HandsOff(Writers(job.st))
<1>1. PICK st : st = job.st
  OBVIOUS
<1>2. PICK W : W = Writers(job.st)
  OBVIOUS
<1>3. PICK q : q = Handoff(reg, job.st, job.new)
  OBVIOUS
<1>4. PICK S : S = Rebound(job.st, job.new)
  OBVIOUS
<1>5. pc = "publish" /\ hs' = S /\ fresh' = Content(dir') /\ limbo' = limbo
  BY <1>4 DEF PublishAndHandoff
<1>6. HandedOff(q, st, W, S)
  BY <1>1, <1>2, <1>3, <1>4, <1>5, HandoffMoves
<1>7. /\ dir \in Dirs /\ disk \in Dirs /\ job.new \in Gens /\ job.op # "none" /\ job.new # dir.cur
      /\ reg.gen[job.new] = NoRecord
  BY <1>5, TypedParts DEF StorageInv, Working
<1>8. /\ Proper(st) /\ (~st.legacy => st.ino = dir.cur) /\ st.legacy \in BOOLEAN
      /\ st.legacy <=> dir.cur = None
  BY <1>1, <1>7, JobStorage DEF StorageInv
<1>9. PICK o \in Publish(dir, disk, job.new) :
        /\ o.dir.cur = job.new /\ SetIO(o)
        /\ \/ /\ o.ok /\ CanGet(q, st, TRUE)
              /\ CollectAndReturn(MarkForGC(q, st, TRUE))
           \/ Return /\ reg' = q /\ Fault
  BY <1>1, <1>3 DEF PublishAndHandoff
<1>10. /\ dir' \in Dirs /\ disk' \in Dirs /\ dir'.cur = job.new
       /\ dir'.data = dir.data /\ dir'.gen = dir.gen
       /\ disk' \in {disk, dir, dir'}
       /\ o.ok => disk' = dir'
  BY <1>7, <1>9, PublishedNames
<1>11. HandsOver(reg, q, st, job.new, W) /\ Sound(q)
  BY <1>6 DEF HandedOff, HandsOver
<1>12. /\ q.gen[job.new].gc = "none" /\ ~q.gen[job.new].alias /\ ~q.gen[job.new].unlinked
       /\ \A x \in Gens \ {job.new} :
            /\ q.gen[x].gc = reg.gen[x].gc /\ q.gen[x].alias = reg.gen[x].alias
            /\ q.gen[x].unlinked = reg.gen[x].unlinked
  BY <1>11 DEF HandsOver
<1> DEFINE MarksKept(z) ==
       /\ z.gen[job.new].gc = "none" /\ ~z.gen[job.new].alias /\ ~z.gen[job.new].unlinked
       /\ \A x \in Gens \ {job.new} :
         /\ z.gen[x].unlinked = reg.gen[x].unlinked
         /\ reg.gen[x].alias => z.gen[x].alias
         /\ z.gen[x].alias => reg.gen[x].alias \/ x = dir.cur
         /\ reg.gen[x].gc # "none" => z.gen[x].gc # "none"
         /\ z.gen[x].gc # "none" =>
              reg.gen[x].gc # "none" \/ (x = dir.cur /\ (z.gen[x].alias \/ z.gen[x].unlinked))
<1>13. Follows(q, reg') /\ MarksKept(reg')
       /\ \/ /\ pc' = "gc" /\ job' = NoJob /\ UNCHANGED fault /\ disk' = dir'
             /\ \A x \in Gens : reg'.gen[x].gc # "none" => reg'.gen[x].gc = "claimed"
             /\ dir.cur \in Gens => reg'.gen[dir.cur].gc = "claimed"
          \/ /\ Return /\ Fault
             /\ \A x \in Gens : reg'.gen[x].gc = "claimed" => reg.gen[x].gc = "claimed"
  <2>1. CASE Return /\ reg' = q /\ Fault
    <3>1. Follows(q, q)
      BY <1>11, RetainsItself DEF Follows
    <3>2. MarksKept(q)
      BY <1>12
    <3>3. \A x \in Gens : q.gen[x].gc = "claimed" => reg.gen[x].gc = "claimed"
      BY <1>12
    <3>4. QED
      BY <2>1, <3>1, <3>2, <3>3
  <2>2. CASE o.ok /\ CanGet(q, st, TRUE) /\ CollectAndReturn(MarkForGC(q, st, TRUE))
    <3>1. PICK m : m = MarkForGC(q, st, TRUE)
      OBVIOUS
    <3>2. st.legacy => Linked(q, st.ino) \/ Unheld(q, st.ino)
      BY <1>6 DEF HandedOff
    <3>3. HandoffMarked(q, st, m)
      <4>1. PICK yes \in BOOLEAN : yes = TRUE
        OBVIOUS
      <4>2. CanGet(q, st, yes) /\ m = MarkForGC(q, st, yes)
        BY <2>2, <3>1, <4>1
      <4>3. QED
        BY <1>8, <1>11, <3>2, <4>1, <4>2, HandoffMarks
    <3>4. Follows(q, m) /\ Sound(m) /\ CollectAndReturn(m)
      BY <2>2, <3>1, <3>3 DEF HandoffMarked, Follows
    <3>5. /\ Follows(m, reg')
          /\ \/ /\ pc' = "gc" /\ UNCHANGED fault
                /\ \A g \in Gens : Claims(m.gen[g], reg'.gen[g])
             \/ pc' = "idle" /\ reg' = m /\ Fault
      BY <3>4, CollectedSound
    <3>6. Follows(q, reg')
      BY <3>4, <3>5, FollowsTwice
    <3>7. \A x \in Gens :
            /\ m.gen[x].unlinked = q.gen[x].unlinked
            /\ q.gen[x].alias => m.gen[x].alias
            /\ m.gen[x].alias => q.gen[x].alias \/ (x = dir.cur /\ ~st.legacy)
            /\ m.gen[x].gc = IF x = dir.cur /\ ~st.legacy /\ q.gen[x].gc = "none" THEN "pending"
                             ELSE q.gen[x].gc
            /\ x = dir.cur /\ ~st.legacy => m.gen[x].alias \/ m.gen[x].unlinked
      <4>1. TAKE x \in Gens
      <4>2. CASE ~st.legacy /\ x = st.ino
        <5>1. Marks(q.gen[x], m.gen[x], TRUE)
          BY <3>3, <4>2 DEF HandoffMarked
        <5>2. QED
          BY <1>8, <4>2, <5>1 DEF Marks
      <4>3. CASE ~(~st.legacy /\ x = st.ino)
        <5>1. m.gen[x] = q.gen[x]
          BY <3>3, <4>3 DEF HandoffMarked
        <5>2. ~(x = dir.cur /\ ~st.legacy)
          BY <1>8, <4>3
        <5>3. QED
          BY <5>1, <5>2
      <4>4. QED
        BY <4>2, <4>3
    <3>8. MarksKept(m)
      BY <1>7, <1>12, <3>7
    <3>9. CASE pc' = "idle" /\ reg' = m /\ Fault
      <4>1. Return
        BY <3>4, <3>9 DEF CollectAndReturn, StartGC
      <4>2. \A x \in Gens : m.gen[x].gc = "claimed" => reg.gen[x].gc = "claimed"
        BY <1>12, <3>7
      <4>3. QED
        BY <3>6, <3>8, <3>9, <4>1, <4>2
    <3>10. CASE pc' = "gc" /\ UNCHANGED fault
                /\ \A g \in Gens : Claims(m.gen[g], reg'.gen[g])
      <4>1. job' = NoJob
        BY <3>4, <3>10 DEF CollectAndReturn, Return
      <4>2. \A x \in Gens :
              /\ reg'.gen[x].unlinked = m.gen[x].unlinked /\ reg'.gen[x].alias = m.gen[x].alias
              /\ reg'.gen[x].gc = IF m.gen[x].gc = "pending" THEN "claimed" ELSE m.gen[x].gc
              /\ m.gen[x].gc \in {"none", "pending", "claimed"}
        <5>1. \A x \in Gens : m.gen[x] \in Records
          BY <3>4, RegistryType DEF Sound
        <5>2. QED
          BY <3>10, <5>1 DEF Claims, Records
      <4>3. MarksKept(reg')
        BY <1>7, <3>8, <4>2
      <4>4. \A x \in Gens : reg'.gen[x].gc # "none" => reg'.gen[x].gc = "claimed"
        BY <4>2
      <4>5. dir.cur \in Gens => reg'.gen[dir.cur].gc = "claimed"
        <5>1. ASSUME dir.cur \in Gens PROVE m.gen[dir.cur].gc # "none"
          <6>1. ~st.legacy
            BY <1>8, <5>1, ConstantsAssumption DEF Inodes
          <6>2. QED
            BY <3>7, <5>1, <6>1
        <5>2. QED
          BY <4>2, <5>1
      <4>6. disk' = dir'
        BY <1>10, <2>2
      <4>7. QED
        BY <3>6, <3>10, <4>1, <4>3, <4>4, <4>5, <4>6
    <3>11. QED
      BY <3>5, <3>9, <3>10
  <2>3. QED
    BY <1>9, <2>1, <2>2
<1> HIDE DEF MarksKept
<1>14. /\ Sound(reg')
       /\ \A h \in Handles \ W : Refused(reg, h) \/ h \in HandlesOf(st) => Refused(reg', h)
       /\ \A h \in Handles : Attached(reg', S[h], h, {dir.data, job.new})
  <2>1. PICK z : z = reg'
    OBVIOUS
  <2>2. Follows(q, z)
    BY <1>13, <2>1
  <2>3. /\ Sound(z)
        /\ \A h \in Handles \ W : Refused(reg, h) \/ h \in HandlesOf(st) => Refused(z, h)
        /\ \A h \in Handles : Attached(z, S[h], h, {dir.data, job.new})
    BY <1>6, <2>2, MovedFollows
  <2>4. QED
    BY <2>1, <2>3
<1>15. /\ hs' \in [Handles -> HandleStates]
       /\ \A h \in W : hs[h].open /\ hs'[h].open /\ ~hs'[h].legacy /\ hs'[h].data = job.new
                       /\ hs'[h].orphan = hs[h].orphan
       /\ \A h \in Handles \ W :
            /\ hs'[h] = hs[h]
            /\ Refused(reg, h) \/ h \in HandlesOf(job.st) => Refused(reg', h)
       /\ \A h \in Handles : Attached(reg', hs'[h], h, {dir'.data, dir'.cur})
  BY <1>1, <1>5, <1>6, <1>10, <1>14 DEF HandedOff
<1>16. HandsOff(W)
  BY <1>5, <1>10, <1>13, <1>14, <1>15 DEF HandsOff, MarksKept
<1>17. QED
  BY <1>2, <1>16

\* A publication with handoff.
LEMMA PublishAndHandoffKeeps ==
    ASSUME StorageInv, PublishAndHandoff
    PROVE  StorageInv'
<1>1. PICK W : W = Writers(job.st)
  OBVIOUS
<1>2. HandsOff(W)
  BY <1>1, HandoffShape
<1>3. /\ dir' \in Dirs /\ disk' \in Dirs
      /\ dir'.cur = job.new /\ dir'.data = dir.data /\ dir'.gen = dir.gen
      /\ disk'.data \in {disk.data, dir.data}
      /\ Sound(reg') /\ hs' \in [Handles -> HandleStates]
      /\ UNCHANGED limbo /\ fresh' = Content(dir')
  BY <1>2 DEF HandsOff
<1>4. /\ \A h \in W : hs'[h].open /\ ~hs'[h].legacy /\ hs'[h].data = job.new
      /\ \A h \in Handles \ W : hs'[h] = hs[h]
      /\ \A h \in Handles : Attached(reg', hs'[h], h, {dir'.data, dir'.cur})
  BY <1>2 DEF HandsOff
<1>5. job.new \in Gens /\ dir.gen[job.new] = "ready"
  BY DEF StorageInv, Working, PublishAndHandoff
<1>6. Working' /\ job' \in Jobs /\ pc' \in {"idle", "recover", "gc", "body", "publish"}
      /\ fault' \in Faults
  <2>1. fault \in Faults
    BY TypedParts DEF StorageInv
  <2>2. CASE pc' = "gc" /\ job' = NoJob /\ UNCHANGED fault
    BY <2>1, <2>2, ReturnedWorking
  <2>3. CASE Return /\ Fault
    BY <2>1, <2>3, ReturnWorking, FaultType
  <2>4. QED
    BY <1>2, <2>2, <2>3 DEF HandsOff
<1>7. fresh' \subseteq Inodes /\ limbo' \in BOOLEAN
  BY <1>3, <1>5, TypedParts DEF StorageInv, Content, Inodes
<1>8. Typed'
  BY <1>3, <1>6, <1>7, TypedNext DEF Sound
<1>9. NamesKnown'
  <2>1. Stray \notin {dir'.data, disk'.data}
    BY <1>3 DEF StorageInv, NamesKnown
  <2>2. ASSUME NEW h \in Handles, hs'[h].open
        PROVE  hs'[h].data \in Inodes /\ (~hs'[h].legacy => hs'[h].data \in Gens)
    <3>1. CASE h \in W
      BY <1>4, <1>5, <3>1 DEF Inodes
    <3>2. CASE h \notin W
      BY <1>4, <2>2, <3>2 DEF StorageInv, NamesKnown
    <3>3. QED
      BY <3>1, <3>2
  <2>3. QED
    BY <2>1, <2>2 DEF NamesKnown
<1>10. OnRecords'
  BY <1>3, <1>4 DEF OnRecords
<1>11. OpenGenerationsKept'
  <2>1. SUFFICES ASSUME NEW h \in Handles, hs'[h].open, ~hs'[h].legacy
                 PROVE  dir'.gen[hs'[h].data] = "ready"
    BY DEF OpenGenerationsKept
  <2>2. CASE h \in W
    BY <1>3, <1>4, <1>5, <2>2
  <2>3. CASE h \notin W
    BY <1>3, <1>4, <2>1, <2>3 DEF StorageInv, OpenGenerationsKept
  <2>4. QED
    BY <2>2, <2>3
<1>12. QED
  BY <1>6, <1>8, <1>9, <1>10, <1>11 DEF StorageInv

-----------------------------------------------------------------------------
(* The beginning, and the end of the daemon.                               *)

\* An empty registry is sound and nobody is attached to it.
LEMMA EmptySound ==
    /\ Sound(EmptyRegistry)
    /\ \A h, s, N : ~s.open => Attached(EmptyRegistry, s, h, N)
    /\ [h \in Handles |-> NoHandle] \in [Handles -> HandleStates]
    /\ ~NoHandle.open
<1>1. NoHandle \in HandleStates /\ ~NoHandle.open
  BY DEF NoHandle, HandleStates, Names
<1>2. NoRecord \in Records /\ NoRecord.handles = {}
  BY NoRecordType
<1>3. PICK G : G = [g \in Gens |-> NoRecord]
  OBVIOUS
<1>4. PICK L : L = <<>>
  OBVIOUS
<1>5. /\ L \in Seq(LegacyRecords) /\ Len(L) = 0 /\ DOMAIN L = {}
      /\ G \in [Gens -> Records] /\ \A g \in Gens : G[g] = NoRecord
  BY <1>2, <1>3, <1>4
<1>6. Len(L) <= MaxLegacy
  BY <1>5, ConstantsAssumption
<1>7. PICK r : r = [gen |-> G, leg |-> L]
  OBVIOUS
<1>8. r \in Registries
  BY <1>5, <1>6, <1>7, RegistryOf
<1>9. r.gen = G /\ r.leg = L
  BY <1>7
<1>10. Sound(r)
  BY <1>5, <1>8, <1>9 DEF Sound, Bucket
<1>11. \A h, s, N : ~s.open => Attached(r, s, h, N)
  BY <1>2, <1>5, <1>9 DEF Attached
<1>12. EmptyRegistry = r
  BY <1>3, <1>4, <1>7 DEF EmptyRegistry
<1>13. QED
  BY <1>1, <1>10, <1>11, <1>12

\* What a restart keeps depends on the directory alone.
LEMMA RestartKeeps ==
    ASSUME StorageInv, Restarted, dir' \in Dirs, disk' \in Dirs, fresh' \subseteq Inodes,
           Stray \notin {dir'.data, disk'.data}, UNCHANGED limbo
    PROVE  StorageInv'
<1>1. /\ reg' = EmptyRegistry /\ hs' = [h \in Handles |-> NoHandle] /\ Return
      /\ FaultWith(fault.cut \/ Nameless(dir', fresh'))
  BY DEF Restarted
<1>2. /\ Sound(reg') /\ hs' \in [Handles -> HandleStates]
      /\ \A h \in Handles : ~hs'[h].open
  BY <1>1, EmptySound
<1>3. \A h \in Handles : Attached(reg', hs'[h], h, {dir'.data, dir'.cur})
  BY <1>1, <1>2, EmptySound
<1>4. Working' /\ job' \in Jobs /\ pc' \in {"idle", "recover", "gc", "body", "publish"}
      /\ fault' \in Faults /\ limbo' \in BOOLEAN
  BY <1>1, ReturnWorking, FaultWithType, TypedParts DEF StorageInv
<1>5. Typed'
  BY <1>2, <1>4, TypedNext DEF Sound
<1>6. NamesKnown' /\ OnRecords' /\ OpenGenerationsKept'
  BY <1>2, <1>3 DEF NamesKnown, OnRecords, OpenGenerationsKept
<1>7. QED
  BY <1>4, <1>5, <1>6 DEF StorageInv

\* The end of the daemon.
LEMMA EndKeeps ==
    ASSUME StorageInv, Exit \/ PowerLoss
    PROVE  StorageInv'
<1>1. dir \in Dirs /\ disk \in Dirs /\ fresh \subseteq Inodes
      /\ Stray \notin {dir.data, disk.data}
  BY TypedParts DEF StorageInv, NamesKnown
<1>2. CASE Exit
  BY <1>1, <1>2, RestartKeeps DEF Exit
<1>3. CASE PowerLoss
  <2>1. PICK c \in {dir.cur, disk.cur}, a \in {dir.data, disk.data}, m \in {dir.meta, disk.meta} :
        \E f \in [Gens -> GenStates] :
          dir' = [cur |-> c, data |-> a, meta |-> m, gen |-> f]
    BY <1>3 DEF PowerLoss
  <2>2. PICK f \in [Gens -> GenStates] : dir' = [cur |-> c, data |-> a, meta |-> m, gen |-> f]
    BY <2>1
  <2>3. c \in Gens \cup {None} /\ a \in Names /\ m \in Names
    BY <1>1, DirType
  <2>4. dir' \in Dirs /\ dir'.data = a
    BY <2>2, <2>3 DEF Dirs
  <2>5. disk' = dir' /\ Restarted /\ UNCHANGED limbo /\ fresh' \subseteq Inodes
    BY <1>1, <1>3 DEF PowerLoss
  <2>6. QED
    BY <1>1, <2>1, <2>4, <2>5, RestartKeeps
<1>4. QED
  BY <1>2, <1>3

\* Nothing exists in the beginning.
LEMMA InitStorage ==
    ASSUME Init
    PROVE  StorageInv
<1>1. EmptyDir \in Dirs /\ EmptyDir.data = None
  BY DEF EmptyDir, Dirs, Names, GenStates, Rank
<1>2. dir \in Dirs /\ disk \in Dirs /\ dir.data = None /\ disk.data = None
  BY <1>1 DEF Init
<1>3. reg = EmptyRegistry /\ hs = [h \in Handles |-> NoHandle]
  BY DEF Init
<1>4. /\ Sound(reg) /\ hs \in [Handles -> HandleStates]
      /\ \A h \in Handles : ~hs[h].open
      /\ \A h \in Handles : Attached(reg, hs[h], h, {dir.data, dir.cur})
  BY <1>3, EmptySound
<1>5. fault \in Faults
  BY ConstantsAssumption DEF Init, Faults
<1>6. pc = "idle" /\ job = NoJob /\ job \in Jobs /\ job.op = "none" /\ fresh = {} /\ limbo = FALSE
  BY NoJobType DEF Init
<1>7. Typed
  <2>1. reg \in Registries
    BY <1>4 DEF Sound
  <2>2. reg.gen \in [Gens -> Records] /\ reg.leg \in Seq(LegacyRecords) /\ Len(reg.leg) <= MaxLegacy
    BY <2>1, RegistryType
  <2>3. QED
    BY <1>2, <1>4, <1>5, <1>6, <2>1, <2>2 DEF Typed, TypeOK, Faults
<1>8. Working
  BY <1>6 DEF Working
<1>9. NamesKnown /\ OnRecords /\ OpenGenerationsKept
  BY <1>2, <1>4, ConstantsAssumption DEF NamesKnown, OnRecords, OpenGenerationsKept
<1>10. QED
  BY <1>7, <1>8, <1>9 DEF StorageInv

\* A step that changes nothing.
LEMMA StutterKeeps ==
    ASSUME StorageInv, UNCHANGED vars
    PROVE  StorageInv'
<1>1. UNCHANGED <<dir, disk, reg, hs>> /\ UNCHANGED <<pc, job, fresh, limbo, fault>>
  BY DEF vars
<1>2. NamesKnown' /\ OnRecords' /\ OpenGenerationsKept'
  BY <1>1, SameStorageInv
<1>3. Typed' /\ Working'
  BY <1>1 DEF StorageInv, Typed, TypeOK, Working
<1>4. QED
  BY <1>2, <1>3 DEF StorageInv

\* Every step of the program keeps the invariant.
LEMMA StepKeeps ==
    ASSUME StorageInv, [Next]_vars
    PROVE  StorageInv'
<1>1. CASE \E op \in {"lookup", "open", "unlink", "compact"} : Begin(op)
  BY <1>1, BeginKeeps
<1>2. CASE Recover \/ RecoverFails
  BY <1>2, RecoverKeeps
<1>3. CASE \E g \in Gens : GCGeneration(g)
  BY <1>3, GCGenerationKeeps
<1>4. CASE \E n \in 1 .. MaxLegacy : GCLegacy(n)
  BY <1>4, GCLegacyKeeps
<1>5. CASE GCDone
  BY <1>5, GCDoneKeeps
<1>6. CASE \E h \in Handles, w, trunc \in BOOLEAN : Open(h, w, trunc)
  BY <1>6, OpenKeeps
<1>7. CASE \E trunc \in BOOLEAN : OpenFails(trunc)
  BY <1>7, OpenFailsKeeps
<1>8. CASE \E h \in Handles, i \in Inodes, w \in BOOLEAN : Create(h, i, w)
  BY <1>8, CreateKeeps
<1>9. CASE \E h \in Handles : Write(h) \/ WriteFails(h)
  BY <1>9, WriteKeeps
<1>10. CASE \E h \in Handles : Refresh(h)
  BY <1>10, RefreshKeeps
<1>11. CASE \E h \in Handles : Release(h)
  BY <1>11, ReleaseKeeps
<1>12. CASE TruncatePath
  BY <1>12, TruncatePathKeeps
<1>13. CASE Unlink
  BY <1>13, UnlinkKeeps
<1>14. CASE CompactSkips
  BY <1>14, CompactSkipsKeeps
<1>15. CASE \E g \in Gens : BuildFails(g)
  BY <1>15, BuildFailsKeeps
<1>16. CASE \E g \in Gens : \E resize \in BOOLEAN : Build(g, resize)
  BY <1>16, BuildKeeps
<1>17. CASE PublishFails \/ PublishWithoutRecord
  BY <1>17, PublishFailsKeeps
<1>18. CASE PublishAndHandoff
  BY <1>18, PublishAndHandoffKeeps
<1>19. CASE Exit \/ PowerLoss
  BY <1>19, EndKeeps
<1>20. CASE UNCHANGED vars
  BY <1>20, StutterKeeps
<1>21. QED
  BY <1>1, <1>2, <1>3, <1>4, <1>5, <1>6, <1>7, <1>8, <1>9, <1>10, <1>11, <1>12, <1>13,
     <1>14, <1>15, <1>16, <1>17, <1>18, <1>19, <1>20 DEF Next, OperationStep

-----------------------------------------------------------------------------
(***************************************************************************)
(* The storage of a file stays consistent with the registry and with the   *)
(* operation in progress at every step, whatever system call fails and     *)
(* whenever the daemon dies.                                               *)
(***************************************************************************)
THEOREM StorageInvariant == Spec => []StorageInv
<1>1. Init => StorageInv
  BY InitStorage
<1>2. StorageInv /\ [Next]_vars => StorageInv'
  BY StepKeeps
<1>3. QED
  BY <1>1, <1>2, PTL DEF Spec

(***************************************************************************)
(* The variables of the model stay in their sets.                          *)
(***************************************************************************)
THEOREM StorageTyped == Spec => []TypeOK
<1>1. StorageInv => TypeOK
  BY DEF StorageInv, Typed
<1>2. QED
  BY <1>1, StorageInvariant, PTL

(***************************************************************************)
(* The generation of an open handle stays complete until its release, also *)
(* when it has been superseded or its file unlinked: a collection defers   *)
(* the removal of a generation whose record has handles, and every open    *)
(* handle is on its record (compact.c:366-404, perform_generation_gc_io).  *)
(***************************************************************************)
THEOREM OpenGenerationsSafe == Spec => []OpenGenerationsKept
<1>1. StorageInv => OpenGenerationsKept
  BY DEF StorageInv
<1>2. QED
  BY <1>1, StorageInvariant, PTL

\* An open handle is on the record that a search for its storage finds.
LEMMA HandleOnRecord ==
    ASSUME StorageInv, NEW h \in Handles, hs[h].open
    PROVE  h \in HandlesOf(StorageOf(h))
<1>1. PICK st : st = StorageOf(h)
  OBVIOUS
<1>2. hs[h].data \in Inodes /\ (~hs[h].legacy => hs[h].data \in Gens) /\ hs[h].legacy \in BOOLEAN
  BY TypedParts DEF StorageInv, NamesKnown, HandleStates
<1>3. st.legacy = hs[h].legacy /\ st.ino = hs[h].data /\ Proper(st)
  BY <1>1, <1>2 DEF StorageOf, Proper, Storages, Names
<1>4. PICK r, s, N : r = reg /\ s = hs[h] /\ N = {dir.data, dir.cur}
  OBVIOUS
<1>5. Sound(r) /\ Attached(r, s, h, N)
  BY <1>4 DEF StorageInv, OnRecords
<1>6. s.open /\ s.legacy = st.legacy /\ s.data = st.ino
  BY <1>3, <1>4
<1>7. h \in Find(r, st).handles
  BY <1>3, <1>5, <1>6, AttachedFound
<1>8. QED
  BY <1>1, <1>4, <1>7 DEF HandlesOf

(***************************************************************************)
(* The registry finds the record of every open handle by the identity of   *)
(* its storage: of two records of one inode number the first of the bucket *)
(* is the one with the handles (find_generation_record_locked,             *)
(* compact.c:241-311).                                                     *)
(***************************************************************************)
THEOREM HandlesFound == Spec => []RegistryFindsHandle
<1>1. StorageInv => RegistryFindsHandle
  BY HandleOnRecord DEF RegistryFindsHandle
<1>2. QED
  BY <1>1, StorageInvariant, PTL

=============================================================================
