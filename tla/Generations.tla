----------------------------- MODULE Generations ----------------------------
(***************************************************************************)
(* The storage of one logical file: its names in the backing directory,    *)
(* the generation registry of src/core/compact.c and the operations of     *)
(* path.c, file.c and dir.c that move the file from one storage to the     *)
(* next: open, create, write, truncate, release, unlink, compaction with   *)
(* live-writer handoff, recovery and garbage collection.                   *)
(*                                                                         *)
(* Every operation holds the path lock (module PathLock), so at most one   *)
(* is in progress: pc is its control point and job what it remembers.      *)
(* What remains hard is the order of operations, the failure of any one    *)
(* system call in the middle of an operation, the death of the daemon and  *)
(* power loss.  A group of system calls is one step with an outcome for    *)
(* every call that can fail; the daemon can die between any two steps, so  *)
(* the outcome "the calls up to here were made" followed by its death is a *)
(* crash in the middle of the group.                                       *)
(*                                                                         *)
(* Directory: the pointer <path>.current, the pair <path>.data, <path>.meta*)
(* and one directory per generation.  The pair is the file itself before   *)
(* the first compaction (storage "legacy"); afterwards the names are hard  *)
(* links ("aliases") of a generation's files.  Inodes are identified by    *)
(* the storage that created them: a generation of Gens or an incarnation   *)
(* of Incs of the legacy pair.  Inode numbers of Incs are reused.          *)
(***************************************************************************)
EXTENDS Naturals, Sequences, FiniteSets

CONSTANTS Gens,             \* generation ids (random, never reused)
          Incs,             \* inode numbers for the legacy pair
          Handles,          \* open file handles
          MaxLegacy,        \* bound: records of the legacy pair in the registry
          MaxFaults,        \* bound: failed calls, exits and power losses
          UnlinkWhileOpen,  \* may unlink run while a handle is open?
          TornUnlink,       \* may an unlink stop with its removal of the pointer
                            \* not confirmed by fsync?
          TornCreate,       \* may a create that finds the map of an earlier file
                            \* fail before its own map is durable?
          None, Stray       \* no name; an inode that belongs to no storage

Inodes == Gens \cup Incs

ASSUME ConstantsAssumption ==
    /\ Gens \cap Incs = {}
    /\ None \notin Inodes /\ Stray \notin Inodes /\ None # Stray
    /\ MaxLegacy \in Nat /\ MaxFaults \in Nat
    /\ UnlinkWhileOpen \in BOOLEAN /\ TornUnlink \in BOOLEAN /\ TornCreate \in BOOLEAN

VARIABLES dir,    \* the directory as the daemon sees it
          disk,   \* the directory as the last successful fsync left it
          reg,    \* generation records: gen, by id, and leg, the legacy
                  \* records of the path in bucket order
          hs,     \* the open handles
          pc, job,
          fresh,  \* history: the inodes that hold everything acknowledged
          limbo,  \* history: an unlink stopped half way
          fault   \* failed calls, exits and power losses: n, how many there
                  \* were; since, any since the last full recovery; cut, did
                  \* the daemon end with the newest content nameless

vars == <<dir, disk, reg, hs, pc, job, fresh, limbo, fault>>

(***************************************************************************)
(* How much of a generation directory exists: only the owner record, the   *)
(* directory too, or all of owner record, data and meta.                   *)
(***************************************************************************)
Rank == [absent |-> 0, marker |-> 1, partial |-> 2, ready |-> 3]
GenStates == DOMAIN Rank

Names == Inodes \cup {None, Stray}

Dirs == [cur : Gens \cup {None}, data : Names, meta : Names, gen : [Gens -> GenStates]]

Records == [present : BOOLEAN, handles : SUBSET Handles, superseded : BOOLEAN,
            gc : {"none", "pending", "claimed"}, alias : BOOLEAN, unlinked : BOOLEAN]

NoRecord == [present |-> FALSE, handles |-> {}, superseded |-> FALSE,
             gc |-> "none", alias |-> FALSE, unlinked |-> FALSE]

NewRecord == [NoRecord EXCEPT !.present = TRUE]

LegacyRecords == [ino : Names, rec : Records]

HandleStates == [open : BOOLEAN, legacy : BOOLEAN, data : Names, meta : Names,
                 writer : BOOLEAN, stale : BOOLEAN, orphan : BOOLEAN]

NoHandle == [open |-> FALSE, legacy |-> FALSE, data |-> None, meta |-> None,
             writer |-> FALSE, stale |-> FALSE, orphan |-> FALSE]

\* struct myfs_storage: the legacy pair by inode, a generation by id.
Legacy(i) == [legacy |-> TRUE, ino |-> i]
Generation(g) == [legacy |-> FALSE, ino |-> g]
Storages == [legacy : BOOLEAN, ino : Names]

Jobs == [op : {"none", "lookup", "open", "unlink", "compact"}, st : Storages,
         new : Gens \cup {None}, resize : BOOLEAN]

NoJob == [op |-> "none", st |-> Legacy(None), new |-> None, resize |-> FALSE]

(***************************************************************************)
(* The only typing statement of this module.                               *)
(***************************************************************************)
TypeOK ==
    /\ dir \in Dirs /\ disk \in Dirs
    /\ reg.gen \in [Gens -> Records]
    /\ reg.leg \in Seq(LegacyRecords) /\ Len(reg.leg) <= MaxLegacy
    /\ hs \in [Handles -> HandleStates]
    /\ pc \in {"idle", "recover", "gc", "body", "publish"}
    /\ job \in Jobs
    /\ fresh \subseteq Inodes
    /\ limbo \in BOOLEAN
    /\ fault \in [n : 0 .. MaxFaults, since : BOOLEAN, cut : BOOLEAN]

EmptyDir == [cur |-> None, data |-> None, meta |-> None, gen |-> [g \in Gens |-> "absent"]]

EmptyRegistry == [gen |-> [g \in Gens |-> NoRecord], leg |-> <<>>]

Init ==
    /\ dir = EmptyDir /\ disk = EmptyDir
    /\ reg = EmptyRegistry
    /\ hs = [h \in Handles |-> NoHandle]
    /\ pc = "idle" /\ job = NoJob
    /\ fresh = {} /\ limbo = FALSE /\ fault = [n |-> 0, since |-> FALSE, cut |-> FALSE]

-----------------------------------------------------------------------------
(***************************************************************************)
(* path.c: names.                                                          *)
(***************************************************************************)

\* resolve_storage, as the set of its possible results: the legacy pair if
\* there is no pointer, the generation it names if that is complete, and
\* otherwise an error (never a fallback to the legacy pair).
Resolve(d) ==
    IF d.cur = None THEN {Legacy(d.data)}
    ELSE IF d.gen[d.cur] = "ready" THEN {Generation(d.cur)} ELSE {}

\* storage_generation_equal: a legacy storage without an inode equals every
\* legacy storage of the path.
SameGeneration(a, b) ==
    /\ a.legacy = b.legacy
    /\ a.ino = b.ino \/ (a.legacy /\ None \in {a.ino, b.ino})

Exists(d) == d.cur # None \/ d.data # None

\* Outcomes of a group of system calls on the directory.  fsync_parent_path
\* makes everything in the directory durable.
Synced(d) == [dir |-> d, disk |-> d, ok |-> TRUE]
Failed(d, s) == [dir |-> d, disk |-> s, ok |-> FALSE]

SetIO(o) == dir' = o.dir /\ disk' = o.disk

\* History: an unlink is half done and no name leads to what was acknowledged
\* last; only the record of the generation still protects it.
Nameless(d, content) == limbo /\ d.cur = None /\ content # {} /\ d.data \notin content

FaultWith(cut) ==
    /\ fault.n < MaxFaults
    /\ fault' = [n |-> fault.n + 1, since |-> TRUE, cut |-> limbo /\ cut]

\* The step has a failing call in it, as long as the bound allows one.
Fault == FaultWith(fault.cut)

FaultIf(failed) == IF failed THEN Fault ELSE UNCHANGED fault

\* install_generation_aliases: the data name, the meta name, fsync.
InstallAliases(d, s, g) ==
    LET d1 == [d EXCEPT !.data = g]
        d2 == [d1 EXCEPT !.meta = g]
    IN  {Synced(d2)} \cup {Failed(x, s) : x \in {d, d1, d2}}

\* remove_generation_storage: data, meta, directory, owner record, fsync.
\* The fsync is tried whatever failed before it.
RemoveGeneration(d, s, g) ==
    LET left == {x \in GenStates : Rank[x] <= Rank[d.gen[g]]}
        with(x) == [d EXCEPT !.gen[g] = x]
    IN  {Synced(with("absent"))}
        \cup {Failed(with(x), s) : x \in left}
        \cup {Failed(with(x), with(x)) : x \in left}

\* save_chunk_map_for_storage: write <meta>.tmp, rename it to the storage's
\* meta name, fsync.  A generation whose data alias is current gets its
\* aliases again; until then the old meta alias is nobody's inode.
SaveMap(d, s, st) ==
    IF st.legacy
    THEN LET d1 == [d EXCEPT !.meta = st.ino]
         IN  {Synced(d1), Failed(d, s), Failed(d1, s)}
    ELSE LET unlinked(x) == [x EXCEPT !.meta = IF @ = st.ino THEN Stray ELSE @]
             d1 == unlinked(d)
             s1 == unlinked(s)
         IN  {Failed(d, s), Failed(d1, s1)}
             \cup IF d.data = st.ino THEN InstallAliases(d1, s1, st.ino)
                  ELSE {[dir |-> d1, disk |-> s1, ok |-> TRUE]}

\* publish_generation: symlink to a temporary name, fsync, rename it over the
\* pointer, fsync.
Publish(d, s, g) ==
    LET d1 == [d EXCEPT !.cur = g]
    IN  {Synced(d1), Failed(d, s), Failed(d, d), Failed(d1, d)}

-----------------------------------------------------------------------------
(***************************************************************************)
(* compact.c: the registry.                                                *)
(***************************************************************************)

\* Bucket positions of the legacy records that match an inode.
LegacyAt(r, i, skipUnlinked) ==
    {n \in DOMAIN r.leg : r.leg[n].ino = i /\ ~(skipUnlinked /\ r.leg[n].rec.unlinked)}

First(S) == CHOOSE n \in S : \A m \in S : n <= m

Found(r, st, skipUnlinked) ==
    IF st.legacy THEN LegacyAt(r, st.ino, skipUnlinked) # {} ELSE r.gen[st.ino].present

\* The record of a storage; NoRecord if it has none.
RecordOf(r, st, skipUnlinked) ==
    IF ~Found(r, st, skipUnlinked) THEN NoRecord
    ELSE IF st.legacy THEN r.leg[First(LegacyAt(r, st.ino, skipUnlinked))].rec
         ELSE r.gen[st.ino]

\* Defect: a record is added without looking for the one that exists.
WithRecordAdded(r, st, skipUnlinked, rec) ==
    IF ~st.legacy THEN [r EXCEPT !.gen[st.ino] = rec]
    ELSE [r EXCEPT !.leg = <<[ino |-> st.ino, rec |-> rec]>> \o @]

\* Defect: a new record goes to the tail of the bucket.
WithRecordLast(r, st, skipUnlinked, rec) ==
    IF ~st.legacy THEN [r EXCEPT !.gen[st.ino] = rec]
    ELSE IF Found(r, st, skipUnlinked)
         THEN [r EXCEPT !.leg[First(LegacyAt(r, st.ino, skipUnlinked))].rec = rec]
         ELSE [r EXCEPT !.leg = Append(@, [ino |-> st.ino, rec |-> rec])]

\* The registry with the record of st replaced; a new record goes to the
\* head of the bucket.
WithRecord(r, st, skipUnlinked, rec) ==
    IF ~st.legacy THEN [r EXCEPT !.gen[st.ino] = rec]
    ELSE IF Found(r, st, skipUnlinked)
         THEN [r EXCEPT !.leg[First(LegacyAt(r, st.ino, skipUnlinked))].rec = rec]
         ELSE [r EXCEPT !.leg = <<[ino |-> st.ino, rec |-> rec]>> \o @]

\* get_generation_record_locked finds or allocates; calloc can fail.
CanGet(r, st, skipUnlinked) ==
    Found(r, st, skipUnlinked) \/ ~st.legacy \/ Len(r.leg) < MaxLegacy

Get(r, st, skipUnlinked) == [RecordOf(r, st, skipUnlinked) EXCEPT !.present = TRUE]

\* find_generation_record_locked
Find(r, st) == RecordOf(r, st, FALSE)

HandlesOf(st) == Find(reg, st).handles
Writers(st) == {h \in HandlesOf(st) : hs[h].writer}

\* register_generation_handle_locked
Register(r, st, h) ==
    WithRecord(r, st, TRUE, [Get(r, st, TRUE) EXCEPT !.handles = @ \cup {h}])

\* mark_generation_for_gc_locked
MarkForGC(r, st, installAliases) ==
    LET rec == Get(r, st, installAliases) IN
    WithRecord(r, st, installAliases,
        [rec EXCEPT !.gc = IF @ = "none" THEN "pending" ELSE @,
                    !.alias = IF rec.unlinked THEN @ ELSE @ \/ installAliases])

\* Defect: the alias obligations survive the unlink.
MarkUnlinkedWithAlias(r) ==
    LET gone(rec) == [rec EXCEPT !.unlinked = TRUE,
                                 !.gc = IF @ = "none" THEN "pending" ELSE @]
    IN  [gen |-> [g \in Gens |-> IF r.gen[g].present THEN gone(r.gen[g]) ELSE r.gen[g]],
         leg |-> [n \in DOMAIN r.leg |-> [r.leg[n] EXCEPT !.rec = gone(@)]]]

\* mark_generations_unlinked_locked
MarkUnlinked(r) ==
    LET gone(rec) == [rec EXCEPT !.unlinked = TRUE, !.alias = FALSE,
                                 !.gc = IF @ = "none" THEN "pending" ELSE @]
    IN  [gen |-> [g \in Gens |-> IF r.gen[g].present THEN gone(r.gen[g]) ELSE r.gen[g]],
         leg |-> [n \in DOMAIN r.leg |-> [r.leg[n] EXCEPT !.rec = gone(@)]]]

\* unregister_generation_handle_locked drops the reference.  An unused record
\* without pending collection is freed, unless adaptive statistics or a
\* recent resize keep it.
Unregister(r, h) ==
    LET drop(rec) == [rec EXCEPT !.handles = @ \ {h}]
    IN  [gen |-> [g \in Gens |-> drop(r.gen[g])],
         leg |-> [n \in DOMAIN r.leg |-> [r.leg[n] EXCEPT !.rec = drop(@)]]]

Holds(rec, h) == h \in rec.handles

Freeable(rec) == rec.present /\ rec.handles = {} /\ rec.gc = "none"

RemoveAt(q, n) == SubSeq(q, 1, n - 1) \o SubSeq(q, n + 1, Len(q))

\* The registry after the last unregister of the record h was on.
Freed(r, h) ==
    [gen |-> [g \in Gens |->
                IF Holds(reg.gen[g], h) /\ Freeable(r.gen[g]) THEN NoRecord ELSE r.gen[g]],
     leg |-> LET gone == {n \in DOMAIN r.leg :
                            Holds(reg.leg[n].rec, h) /\ Freeable(r.leg[n].rec)}
             IN  IF gone = {} THEN r.leg ELSE RemoveAt(r.leg, First(gone))]

\* claim_generation_gc_batch
Claimed(r) ==
    LET claim(rec) == [rec EXCEPT !.gc = IF @ = "pending" THEN "claimed" ELSE @]
    IN  [gen |-> [g \in Gens |-> claim(r.gen[g])],
         leg |-> [n \in DOMAIN r.leg |-> [r.leg[n] EXCEPT !.rec = claim(@)]]]

\* Defect: handles on the legacy pair are not looked for.
LegacyRefsIgnored == FALSE

\* generation_has_legacy_refs_for_path_locked
LegacyRefs == \E n \in DOMAIN reg.leg : reg.leg[n].rec.handles # {}

(***************************************************************************)
(* perform_generation_gc_io for a claimed record: what it may do to the    *)
(* directory, whether the record is retired, and whether a call failed.    *)
(***************************************************************************)
Kept(failed) == {[dir |-> dir, disk |-> disk, retire |-> FALSE, failed |-> failed]}

\* Defect: open handles do not defer the removal.
AfterAliasesUnguarded(v, rec, d, s) ==
    IF v.legacy
    THEN {[dir |-> d, disk |-> s, retire |-> TRUE, failed |-> FALSE]}
    ELSE {[dir |-> o.dir, disk |-> o.disk, retire |-> o.ok, failed |-> ~o.ok] :
              o \in RemoveGeneration(d, s, v.ino)}

AfterAliases(v, rec, d, s) ==
    IF (v.legacy /\ ~rec.alias /\ ~rec.unlinked) \/ rec.handles # {}
    THEN {[dir |-> d, disk |-> s, retire |-> FALSE, failed |-> FALSE]}
    ELSE IF v.legacy
    THEN {[dir |-> d, disk |-> s, retire |-> TRUE, failed |-> FALSE]}
    ELSE {[dir |-> o.dir, disk |-> o.disk, retire |-> o.ok, failed |-> ~o.ok] :
              o \in RemoveGeneration(d, s, v.ino)}

\* Defect: the active generation is not protected.
GCOutcomesUnprotected(v, rec) ==
    Kept(TRUE) \cup
    UNION {IF ~rec.alias THEN AfterAliases(v, rec, dir, disk)
           ELSE IF LegacyRefs \/ active.legacy THEN Kept(FALSE)
           ELSE UNION {IF o.ok THEN AfterAliases(v, rec, o.dir, o.disk)
                       ELSE {[dir |-> o.dir, disk |-> o.disk, retire |-> FALSE, failed |-> TRUE]} :
                          o \in InstallAliases(dir, disk, active.ino)} :
             active \in Resolve(dir)}

GCOutcomes(v, rec) ==
    Kept(TRUE) \cup
    UNION {IF ~(rec.unlinked /\ v.legacy) /\ SameGeneration(v, active) THEN Kept(FALSE)
           ELSE IF ~rec.alias THEN AfterAliases(v, rec, dir, disk)
           ELSE IF LegacyRefs \/ active.legacy THEN Kept(FALSE)
           ELSE UNION {IF o.ok THEN AfterAliases(v, rec, o.dir, o.disk)
                       ELSE {[dir |-> o.dir, disk |-> o.disk, retire |-> FALSE, failed |-> TRUE]} :
                          o \in InstallAliases(dir, disk, active.ino)} :
             active \in Resolve(dir)}

(***************************************************************************)
(* run_generation_gc_locked: claim every pending record, then one step per *)
(* claimed record (I/O and finalize_generation_gc_work), then continue     *)
(* with the operation that called it.                                      *)
(***************************************************************************)
StartGC(r) == pc' = "gc" /\ reg' = Claimed(r)

GCGeneration(g) ==
    /\ pc = "gc"
    /\ reg.gen[g].gc = "claimed"
    /\ \E o \in GCOutcomes(Generation(g), reg.gen[g]) :
        /\ SetIO(o)
        /\ FaultIf(o.failed)
        /\ reg' = [reg EXCEPT !.gen[g] =
                      IF o.retire THEN NoRecord ELSE [@ EXCEPT !.gc = "pending"]]
    /\ UNCHANGED <<hs, pc, job, fresh, limbo>>

GCLegacy(n) ==
    /\ pc = "gc"
    /\ n \in DOMAIN reg.leg
    /\ reg.leg[n].rec.gc = "claimed"
    /\ \E o \in GCOutcomes(Legacy(reg.leg[n].ino), reg.leg[n].rec) :
        /\ SetIO(o)
        /\ FaultIf(o.failed)
        /\ reg' = [reg EXCEPT !.leg =
                      IF o.retire THEN RemoveAt(@, n) ELSE [@ EXCEPT ![n].rec.gc = "pending"]]
    /\ UNCHANGED <<hs, pc, job, fresh, limbo>>

Return == pc' = "idle" /\ job' = NoJob

GCDone ==
    /\ pc = "gc"
    /\ \A g \in Gens : reg.gen[g].gc # "claimed"
    /\ \A n \in DOMAIN reg.leg : reg.leg[n].rec.gc # "claimed"
    /\ IF job.op = "none" THEN Return ELSE pc' = "body" /\ UNCHANGED job
    /\ UNCHANGED <<dir, disk, reg, hs, fresh, limbo, fault>>

(***************************************************************************)
(* recover_generations_for_path_locked, which getattr, open, unlink and    *)
(* compaction call with the storage they resolved.  Its failure is logged  *)
(* and the operation goes on.  A lookup stands for every call that then    *)
(* changes nothing: a getattr, also of a name that does not exist, and a   *)
(* compaction that finds no file.                                          *)
(***************************************************************************)
Begin(op) ==
    /\ pc = "idle"
    /\ op # "lookup" => Exists(dir)
    /\ \E st \in Resolve(dir) :
        /\ op = "unlink" => UnlinkWhileOpen \/ \A h \in Handles : ~hs[h].open
        /\ job' = [NoJob EXCEPT !.op = op, !.st = st]
        /\ pc' = IF op = "unlink" /\ st.legacy THEN "body" ELSE "recover"
    /\ UNCHANGED <<dir, disk, reg, hs, fresh, limbo, fault>>

\* Defect: generations whose build or removal was interrupted are skipped.
InactiveComplete == {g \in Gens : dir.gen[g] = "ready" /\ g # dir.cur}

\* The inactive generations whose directory and owner record exist.
Inactive == {g \in Gens : dir.gen[g] \in {"partial", "ready"} /\ g # dir.cur}

AliasesCurrent(st) == st.legacy \/ (dir.data = st.ino /\ dir.meta = st.ino)

\* Mark the legacy pair if its names are not the active generation's.
MarkedPair(r, st) == IF AliasesCurrent(st) THEN r ELSE MarkForGC(r, Legacy(dir.data), TRUE)

MarkedGens(r, G, alias) ==
    [r EXCEPT !.gen = [g \in Gens |-> IF g \in G THEN MarkForGC(r, Generation(g), alias).gen[g]
                                      ELSE r.gen[g]]]

Recover ==
    /\ pc = "recover"
    /\ ~AliasesCurrent(job.st) => CanGet(reg, Legacy(dir.data), TRUE)
    /\ disk' = IF job.st.legacy THEN disk ELSE dir
    /\ \E G \in SUBSET Inactive :
        /\ StartGC(MarkedGens(MarkedPair(reg, job.st), G, ~job.st.legacy))
        /\ IF G # Inactive THEN Fault ELSE fault' = [fault EXCEPT !.since = FALSE]
    /\ UNCHANGED <<dir, hs, job, fresh, limbo>>

\* The fsync of the pointer fails; or memory runs out, or the directory
\* cannot be read, before the collection starts.
RecoverFails ==
    /\ pc = "recover"
    /\ pc' = "body"
    /\ \/ UNCHANGED <<disk, reg>>
       \/ /\ disk' = IF job.st.legacy THEN disk ELSE dir
          /\ ~AliasesCurrent(job.st) => CanGet(reg, Legacy(dir.data), TRUE)
          /\ \E G \in SUBSET Inactive :
                reg' = MarkedGens(MarkedPair(reg, job.st), G, ~job.st.legacy)
    /\ Fault
    /\ UNCHANGED <<dir, hs, job, fresh, limbo>>

\* The last thing an operation does: collect and return, or return at once if
\* the claim list cannot be allocated.
CollectAndReturn(r) ==
    \/ StartGC(r) /\ job' = NoJob /\ UNCHANGED fault
    \/ Return /\ reg' = r /\ Fault

-----------------------------------------------------------------------------
(***************************************************************************)
(* file.c: open, create, write, truncate, release.                         *)
(***************************************************************************)

StorageOf(h) == [legacy |-> hs[h].legacy, ino |-> hs[h].data]

\* The meta file that opening the storage's meta name gives.
MetaOf(st, d) ==
    IF st.legacy THEN d.meta ELSE IF d.gen[st.ino] = "ready" THEN st.ino ELSE None

NewHandle(st, d, w) ==
    [NoHandle EXCEPT !.open = TRUE, !.legacy = st.legacy, !.data = st.ino,
                     !.meta = MetaOf(st, d), !.writer = w]

\* A metadata epoch has been bumped: these handles no longer match it.
MarkStale(H) == [h \in Handles |-> [hs[h] EXCEPT !.stale = @ \/ h \in H]]

\* The handles on the same record as h.
Siblings(h) ==
    UNION {reg.gen[g].handles : g \in {g \in Gens : Holds(reg.gen[g], h)}}
    \cup UNION {reg.leg[n].rec.handles : n \in {n \in DOMAIN reg.leg : Holds(reg.leg[n].rec, h)}}

Superseded(h) ==
    \/ \E g \in Gens : Holds(reg.gen[g], h) /\ reg.gen[g].superseded
    \/ \E n \in DOMAIN reg.leg : Holds(reg.leg[n].rec, h) /\ reg.leg[n].rec.superseded

\* What O_TRUNC does before the handle is attached: an empty map replaces the
\* one that was loaded.
Truncated(st, trunc) ==
    IF trunc /\ MetaOf(st, dir) # None THEN SaveMap(dir, disk, st)
    ELSE {[dir |-> dir, disk |-> disk, ok |-> TRUE]}

Open(h, w, trunc) ==
    /\ pc = "body" /\ job.op = "open"
    /\ ~hs[h].open
    /\ CanGet(reg, job.st, TRUE)
    /\ \E o \in Truncated(job.st, trunc) :
        /\ o.ok /\ MetaOf(job.st, o.dir) # None
        /\ SetIO(o)
        /\ hs' = [MarkStale(IF trunc THEN HandlesOf(job.st) ELSE {})
                    EXCEPT ![h] = NewHandle(job.st, o.dir, w)]
    /\ reg' = Register(reg, job.st, h)
    /\ fresh' = IF trunc THEN {job.st.ino} ELSE fresh
    /\ Return
    /\ UNCHANGED <<limbo, fault>>

OpenFails(trunc) ==
    /\ pc = "body" /\ job.op = "open"
    /\ \E o \in Truncated(job.st, trunc) : SetIO(o) /\ FaultIf(MetaOf(job.st, o.dir) # None)
    /\ hs' = MarkStale(IF trunc THEN HandlesOf(job.st) ELSE {})
    /\ Return
    /\ UNCHANGED <<reg, fresh, limbo>>

InUse(i) ==
    \/ i \in {dir.data, dir.meta, disk.data, disk.meta}
    \/ \E h \in Handles : hs[h].open /\ i \in {hs[h].data, hs[h].meta}

\* getattr answers ENOENT: data or map of the legacy pair is missing.
NoEntry == dir.cur = None /\ None \in {dir.data, dir.meta}

\* myfs_create: the kernel calls it when a lookup found nothing.  It makes the
\* data file, or empties the one that has no map, saves an empty map and
\* attaches a handle.
Create(h, i, w) ==
    LET st == Legacy(i)
        d1 == [dir EXCEPT !.data = i]
    IN
    /\ pc = "idle"
    /\ NoEntry /\ ~hs[h].open
    /\ IF dir.data = None THEN i \in Incs /\ ~InUse(i) ELSE i = dir.data
    /\ \E o \in SaveMap(d1, disk, st) :
        /\ SetIO(o)
        /\ \/ /\ o.ok /\ CanGet(reg, st, TRUE)
              /\ reg' = Register(reg, st, h)
              /\ hs' = [hs EXCEPT ![h] = NewHandle(st, o.dir, w)]
              /\ UNCHANGED fault
           \/ /\ TornCreate \/ o.ok \/ dir.meta = None
              /\ Fault /\ UNCHANGED <<reg, hs>>
    /\ fresh' = {i}
    /\ UNCHANGED <<pc, job, limbo>>

\* myfs_write, and myfs_truncate on an open handle: refuse a superseded
\* generation, reload a stale map through the storage's meta name, append to
\* the descriptors and bump the epoch; now and then a checkpoint replaces the
\* file under the meta name and reopens it.
Write(h) ==
    LET m  == IF hs[h].stale THEN MetaOf(StorageOf(h), dir) ELSE hs[h].meta
        st == [StorageOf(h) EXCEPT !.ino = m]
    IN
    /\ pc = "idle"
    /\ hs[h].open /\ hs[h].writer /\ ~Superseded(h)
    /\ m # None
    /\ \E o \in SaveMap(dir, disk, st) \cup {[dir |-> dir, disk |-> disk, ok |-> TRUE]} :
        /\ SetIO(o)
        /\ FaultIf(~o.ok)
        /\ hs' = [MarkStale(Siblings(h)) EXCEPT ![h].meta = m, ![h].stale = ~o.ok]
    /\ fresh' = IF hs[h].orphan THEN fresh ELSE {hs[h].data}
    /\ UNCHANGED <<reg, pc, job, limbo>>

\* The conversion of old metadata at the start of a write fails.
WriteFails(h) ==
    LET m  == IF hs[h].stale THEN MetaOf(StorageOf(h), dir) ELSE hs[h].meta
        st == [StorageOf(h) EXCEPT !.ino = m]
    IN
    /\ pc = "idle"
    /\ hs[h].open /\ hs[h].writer /\ ~Superseded(h)
    /\ m # None
    /\ \E o \in SaveMap(dir, disk, st) : ~o.ok /\ SetIO(o)
    /\ hs' = [MarkStale(Siblings(h)) EXCEPT ![h].meta = m]
    /\ Fault
    /\ UNCHANGED <<reg, pc, job, fresh, limbo>>

\* myfs_truncate without a handle works on the resolved storage by name.
TruncatePath ==
    /\ pc = "idle"
    /\ Exists(dir)
    /\ \E st \in Resolve(dir) : \E o \in SaveMap(dir, disk, st) :
        /\ MetaOf(st, dir) # None
        /\ SetIO(o)
        /\ hs' = MarkStale(HandlesOf(st))
        /\ fresh' = IF o.ok THEN {st.ino} ELSE fresh
        /\ FaultIf(~o.ok)
    /\ UNCHANGED <<reg, pc, job, limbo>>

\* A read finds its map stale and reloads it through the storage's meta name.
Refresh(h) ==
    LET m == MetaOf(StorageOf(h), dir) IN
    /\ pc = "idle"
    /\ hs[h].open /\ hs[h].stale /\ m # None
    /\ hs' = [hs EXCEPT ![h].meta = m, ![h].stale = FALSE]
    /\ UNCHANGED <<dir, disk, reg, pc, job, fresh, limbo, fault>>

Release(h) ==
    LET r == Unregister(reg, h) IN
    /\ pc = "idle"
    /\ hs[h].open
    /\ hs' = [hs EXCEPT ![h] = NoHandle]
    /\ \E q \in {r, Freed(r, h)} : CollectAndReturn(q)
    /\ UNCHANGED <<dir, disk, fresh, limbo>>

-----------------------------------------------------------------------------
(***************************************************************************)
(* dir.c: unlink.                                                          *)
(***************************************************************************)

\* History: no name leads to the open handles any more.
Orphaned == [h \in Handles |-> [hs[h] EXCEPT !.orphan = hs[h].open]]

\* Everything removed and durable: the generations lose their last claim on
\* the namespace and are collected; open handles keep their storage.
Unlinked(d, r) ==
    /\ SetIO(Synced(d))
    /\ hs' = Orphaned
    /\ fresh' = {} /\ limbo' = FALSE
    /\ CollectAndReturn(MarkUnlinked(r))

\* A call fails: the names removed so far stay removed.
UnlinkStops(outcomes, r) ==
    /\ \E o \in outcomes :
        /\ SetIO(o)
        /\ limbo' = (limbo \/ o.dir # dir)
        /\ IF job.st.legacy /\ o.dir # dir
           THEN fresh' = {} /\ hs' = Orphaned ELSE UNCHANGED <<fresh, hs>>
    /\ reg' = r /\ Fault
    /\ Return

\* Defect: the generation is marked without the alias obligation.
UnlinkWithoutObligation ==
    LET d1 == [dir EXCEPT !.cur = None]
        d2 == [d1 EXCEPT !.data = None]
        d3 == [d2 EXCEPT !.meta = None]
    IN
    /\ pc = "body" /\ job.op = "unlink"
    /\ IF job.st.legacy
       THEN Unlinked(d3, reg)
       ELSE LET r == MarkForGC(reg, job.st, FALSE) IN
            \/ UnlinkStops({Failed(x, d1) : x \in {d1, d2, d3}}, r)
            \/ Unlinked(d3, r)

Unlink ==
    LET d1 == [dir EXCEPT !.cur = None]
        d2 == [d1 EXCEPT !.data = None]
        d3 == [d2 EXCEPT !.meta = None]
    IN
    /\ pc = "body" /\ job.op = "unlink"
    /\ IF job.st.legacy
       THEN \/ UnlinkStops({Failed(x, disk) : x \in {dir, d2, d3}}, reg)
            \/ Unlinked(d3, reg)
       ELSE LET r == MarkForGC(reg, job.st, TRUE) IN
            \/ UnlinkStops({Failed(dir, disk)}, reg)
            \/ UnlinkStops({Failed(dir, disk)}, r)
            \/ TornUnlink /\ UnlinkStops({Failed(d1, disk)}, r)
            \/ UnlinkStops({Failed(x, d1) : x \in {d1, d2, d3}}, r)
            \/ Unlinked(d3, r)

-----------------------------------------------------------------------------
(***************************************************************************)
(* compact.c: compaction and publication.                                  *)
(***************************************************************************)

\* Which requests go on after recovery.  adaptive: adaptive_begin accepted
\* the ticket; resize: the policy chose another window size.
Proceeds(ordinary, adaptive, resize) ==
    /\ ordinary \/ adaptive
    /\ ~adaptive => Writers(job.st) = {}
    /\ resize => adaptive
    /\ ~resize => ordinary

\* Writers are open, nothing to gain, or the storage cannot be read; a lookup
\* has nothing left to do.
CompactSkips ==
    /\ pc = "body" /\ job.op \in {"lookup", "compact"}
    /\ Return
    /\ UNCHANGED <<dir, disk, reg, hs, fresh, limbo, fault>>

\* The map of the storage can be loaded.
Loadable(st) == MetaOf(st, dir) # None

UnusedGen(g) ==
    /\ dir.gen[g] = "absent" /\ disk.gen[g] = "absent"
    /\ ~reg.gen[g].present /\ ~InUse(g)
    /\ \A n \in DOMAIN reg.leg : reg.leg[n].ino # g

\* create_generation_storage, the copy, its fsyncs and the saved map.
Build(g, resize) ==
    LET d1 == [dir EXCEPT !.gen[g] = "ready"] IN
    /\ pc = "body" /\ job.op = "compact"
    /\ UnusedGen(g) /\ Loadable(job.st)
    /\ \E ordinary, adaptive \in BOOLEAN : Proceeds(ordinary, adaptive, resize)
    /\ SetIO(Synced(d1))
    /\ fresh' = IF job.st.ino \in fresh THEN fresh \cup {g} ELSE fresh
    /\ pc' = "publish"
    /\ job' = [job EXCEPT !.new = g, !.resize = resize]
    /\ UNCHANGED <<reg, hs, limbo, fault>>

\* It fails at any point, and cleaning up may fail as well.  The directory is
\* synced first with only the owner record in it.
BuildFails(g) ==
    LET with(x) == [dir EXCEPT !.gen[g] = x] IN
    /\ pc = "body" /\ job.op = "compact"
    /\ UnusedGen(g) /\ Loadable(job.st)
    /\ \E ordinary, adaptive, resize \in BOOLEAN : Proceeds(ordinary, adaptive, resize)
    /\ \/ \E x \in {"absent", "marker"} : SetIO(Failed(with(x), disk))
       \/ \E x \in GenStates : \E s \in {with("marker"), with(x)} : SetIO(Failed(with(x), s))
    /\ Fault
    /\ Return
    /\ UNCHANGED <<reg, hs, fresh, limbo>>

\* Defect: the old storage goes on accepting writes.
SupersedeNot(r, st, H) ==
    IF ~Found(r, st, FALSE) THEN r
    ELSE WithRecord(r, st, FALSE, [Find(r, st) EXCEPT !.handles = @ \ H])

\* The record of the old storage refuses further writes.
Supersede(r, st, H) ==
    IF ~Found(r, st, FALSE) THEN r
    ELSE WithRecord(r, st, FALSE,
            [Find(r, st) EXCEPT !.superseded = TRUE, !.handles = @ \ H])

\* Defect: the writers stay on the record of the old generation.
HandoffForgotten(r, st, g) ==
    LET moved == Supersede(r, st, {}) IN
    [moved EXCEPT !.gen[g].present = TRUE]

\* Writers move to the record and the files of the new generation.
Handoff(r, st, g) ==
    LET moved == Supersede(r, st, Writers(st)) IN
    [moved EXCEPT !.gen[g].present = TRUE, !.gen[g].handles = @ \cup Writers(st)]

\* Defect: the writers change records but keep their descriptors.
ReboundNobody(st, g) == hs

\* Defect: only the data descriptor is replaced.
ReboundDataOnly(st, g) ==
    [h \in Handles |->
        IF h \in Writers(st)
        THEN [hs[h] EXCEPT !.legacy = FALSE, !.data = g]
        ELSE hs[h]]

Rebound(st, g) ==
    [h \in Handles |->
        IF h \in Writers(st)
        THEN [hs[h] EXCEPT !.legacy = FALSE, !.data = g, !.meta = g, !.stale = FALSE]
        ELSE hs[h]]

\* History: what is published while an unlink is half done becomes the
\* content of the path, whatever the aliases it was copied from held.
Content(d) == IF limbo /\ d.cur = job.new THEN {job.new} ELSE fresh

\* The handoff cannot be prepared, the rename was not made, or its outcome is
\* unknown: the old generation stays, or refuses writes.
PublishFails ==
    /\ pc = "publish"
    /\ \/ UNCHANGED <<dir, disk, reg>>
       \/ \E o \in Publish(dir, disk, job.new) :
            /\ ~o.ok /\ o.dir.cur = dir.cur
            /\ SetIO(o) /\ UNCHANGED reg
       \/ \E o \in Publish(dir, disk, job.new) :
            /\ ~o.ok
            /\ SetIO(o) /\ reg' = Supersede(reg, job.st, {})
    /\ fresh' = Content(dir')
    /\ Fault
    /\ Return
    /\ UNCHANGED <<hs, limbo>>

\* The pointer names the new generation but its record cannot be allocated.
PublishWithoutRecord ==
    /\ pc = "publish"
    /\ \E o \in Publish(dir, disk, job.new) : o.dir.cur = job.new /\ SetIO(o)
    /\ reg' = Supersede(reg, job.st, {})
    /\ fresh' = Content(dir')
    /\ Fault
    /\ Return
    /\ UNCHANGED <<hs, limbo>>

\* The pointer names the new generation and the writers follow.  The old one
\* is handed to the collector only if the pointer is known to be durable.
PublishAndHandoff ==
    LET r == Handoff(reg, job.st, job.new) IN
    /\ pc = "publish"
    /\ \E o \in Publish(dir, disk, job.new) :
        /\ o.dir.cur = job.new
        /\ SetIO(o)
        /\ \/ /\ o.ok /\ CanGet(r, job.st, TRUE)
              /\ CollectAndReturn(MarkForGC(r, job.st, TRUE))
           \/ Return /\ reg' = r /\ Fault
    /\ hs' = Rebound(job.st, job.new)
    /\ fresh' = Content(dir')
    /\ UNCHANGED limbo

-----------------------------------------------------------------------------
(***************************************************************************)
(* The end of the daemon: myfs_destroy, a kill, or a power loss.  Handles  *)
(* and registry are gone.  A power loss keeps of every unsynced change     *)
(* either the old or the new state, or for a generation directory anything *)
(* in between.                                                             *)
(***************************************************************************)
Restarted ==
    /\ reg' = EmptyRegistry
    /\ hs' = [h \in Handles |-> NoHandle]
    /\ FaultWith(fault.cut \/ Nameless(dir', fresh'))
    /\ Return

Exit ==
    /\ UNCHANGED <<dir, disk, fresh, limbo>>
    /\ Restarted

Between(x, y) ==
    {z \in GenStates : \/ Rank[x] <= Rank[z] /\ Rank[z] <= Rank[y]
                       \/ Rank[y] <= Rank[z] /\ Rank[z] <= Rank[x]}

PowerLoss ==
    /\ \E c \in {dir.cur, disk.cur}, a \in {dir.data, disk.data}, m \in {dir.meta, disk.meta} :
       \E f \in [Gens -> GenStates] :
        /\ \A g \in Gens : f[g] \in Between(dir.gen[g], disk.gen[g])
        /\ dir' = [cur |-> c, data |-> a, meta |-> m, gen |-> f]
    /\ disk' = dir'
    /\ fresh' = IF \/ dir.cur = disk.cur /\ (dir.cur # None \/ dir.data = disk.data)
                   \/ Nameless(dir, fresh)
                THEN fresh
                ELSE {IF dir'.cur = None THEN dir'.data ELSE dir'.cur} \cap Inodes
    /\ Restarted
    /\ UNCHANGED limbo

-----------------------------------------------------------------------------
OperationStep ==
    \/ \E op \in {"lookup", "open", "unlink", "compact"} : Begin(op)
    \/ Recover \/ RecoverFails
    \/ \E g \in Gens : GCGeneration(g)
    \/ \E n \in 1 .. MaxLegacy : GCLegacy(n)
    \/ GCDone
    \/ \E h \in Handles, w, trunc \in BOOLEAN : Open(h, w, trunc)
    \/ \E trunc \in BOOLEAN : OpenFails(trunc)
    \/ \E h \in Handles, i \in Inodes, w \in BOOLEAN : Create(h, i, w)
    \/ \E h \in Handles : Write(h) \/ WriteFails(h) \/ Refresh(h) \/ Release(h)
    \/ TruncatePath
    \/ Unlink
    \/ CompactSkips
    \/ \E g \in Gens : BuildFails(g) \/ \E resize \in BOOLEAN : Build(g, resize)
    \/ PublishFails \/ PublishWithoutRecord \/ PublishAndHandoff

Next == OperationStep \/ Exit \/ PowerLoss

Spec == Init /\ [][Next]_vars

-----------------------------------------------------------------------------
(***************************************************************************)
(* The pointer never dangles: whatever <path>.current names, now or after  *)
(* a power loss, is a complete generation.  This is why a superseded       *)
(* generation is collected only once the pointer that replaced it has been *)
(* synced (compact.c:1189-1198, 2207-2212) and why an unlink that failed   *)
(* half way gives no authority to collect (dir.c:273-275).                 *)
(***************************************************************************)
PointerIntact ==
    \A c \in {dir.cur, disk.cur} \ {None} : dir.gen[c] = "ready" /\ disk.gen[c] = "ready"

(***************************************************************************)
(* What a reader or writer sees under the path is everything that was      *)
(* acknowledged: through compaction, handoff to a new generation, failed   *)
(* publications, restarts and power losses (apart from a power loss while  *)
(* the newest pointer was never confirmed by fsync).                       *)
(***************************************************************************)
LatestIsActive ==
    ~limbo /\ Exists(dir) => \A st \in Resolve(dir) : st.ino \in fresh

\* The data name or a complete generation holds what was acknowledged last.
ContentSafe == \E i \in fresh : dir.data = i \/ (i \in Gens /\ dir.gen[i] = "ready")

(***************************************************************************)
(* An unlink that stopped half way, its pointer gone and the file still    *)
(* under its path, has not destroyed what was acknowledged: "a failure     *)
(* half way gives no authority to collect on the ground that .current is   *)
(* missing" (dir.c:273-275).  The end of the daemon breaks it: the alias   *)
(* obligation that keeps the collector away is in the registry only.       *)
(***************************************************************************)
ContentSurvives ==
    limbo /\ dir.cur = None /\ dir.data # None /\ fresh # {} => ContentSafe

(***************************************************************************)
(* It holds for as long as that record lives (dir.c:276,                   *)
(* compact.c:684-708), whatever is left of the names: through failed       *)
(* calls, lookups, recoveries, collections, compactions and a repeated     *)
(* unlink, and through the end of the daemon too if a name still leads to  *)
(* the content then.                                                       *)
(***************************************************************************)
ContentKept ==
    limbo /\ ~fault.cut /\ dir.cur = None /\ fresh # {} => ContentSafe

(***************************************************************************)
(* The generation of an open handle stays complete until its release, also *)
(* when it has been superseded or its file unlinked (compact.c:366-404).   *)
(***************************************************************************)
OpenGenerationsKept ==
    \A h \in Handles : hs[h].open /\ ~hs[h].legacy => dir.gen[hs[h].data] = "ready"

(***************************************************************************)
(* The names a handle would reopen still belong to its own storage: in     *)
(* particular the aliases are not replaced while a handle on the legacy    *)
(* pair is open (compact.c:871-883, 991-996).                              *)
(***************************************************************************)
NamesStable ==
    ~limbo => \A h \in Handles :
        hs[h].open /\ hs[h].legacy /\ ~hs[h].orphan =>
            dir.data = hs[h].data /\ dir.meta = hs[h].data

(***************************************************************************)
(* A handle's data and map, and the data and map found under the path, are *)
(* of the same storage: "Its descriptors and registry reference pin one    *)
(* internally consistent generation bundle" (myfs.h:135-136).              *)
(***************************************************************************)
BundleConsistent ==
    ~limbo => /\ \A h \in Handles : hs[h].open => hs[h].meta = hs[h].data
              /\ dir.cur = None /\ None \notin {dir.data, dir.meta} => dir.meta = dir.data

(***************************************************************************)
(* The registry finds the record an open handle is on by the identity of   *)
(* its storage, although inode numbers are recycled and a record outlives  *)
(* its file: otherwise a handoff would leave writers behind and an unlink  *)
(* or a collection would not see the handle (compact.c:241-311).           *)
(***************************************************************************)
RegistryFindsHandle ==
    \A h \in Handles : hs[h].open => h \in HandlesOf(StorageOf(h))

(***************************************************************************)
(* Nothing leaks: once a recovery has run without a failed call, the only  *)
(* generations besides the active one are those of open handles, or those  *)
(* that wait for a handle on the legacy pair (compact.c:1183-1279).        *)
(***************************************************************************)
ReclaimComplete ==
    pc = "idle" /\ ~fault.since /\ ~limbo /\ ~LegacyRefs =>
        \A g \in Gens \ {dir.cur} :
            dir.gen[g] \in {"partial", "ready"} =>
                \E h \in Handles : hs[h].open /\ ~hs[h].legacy /\ hs[h].data = g

(***************************************************************************)
(* "Ordinary compaction waits until the active generation has no writers"  *)
(* (compact.c:1971): only an adaptive resize is published under writers.   *)
(***************************************************************************)
OrdinaryWaits == pc = "publish" /\ ~job.resize => Writers(job.st) = {}
=============================================================================
