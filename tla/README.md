# myfs: a verification development

myfs is a FUSE file system that compresses files chunk by chunk. A file is
first a *legacy pair* `<path>.data` (compressed blobs, append only) and
`<path>.meta` (the chunk map). Compaction rewrites the live blobs into a new
*generation* directory and swings the pointer `<path>.current` to it while
handles stay open. This directory holds TLA+ modules that model that program,
TLC configurations that check them, and TLAPS proofs. Line references are to
the repository's files (`compact.c` is `src/core/compact.c` and so on).

## 1. Inventory

| part | state | operations | interacts through |
|---|---|---|---|
| path lock table (`lock.c`) | shards, buckets, reference-counted entries | `myfs_lock_file`, `myfs_unlock_file`, `destroy_lock_table` | every callback and the worker take it first |
| storage resolution (`path.c`) | names in the backing directory | resolve, create, publish, aliases, remove | shared directory, `fsync` of the parent |
| generation registry and collection (`compact.c`) | one record per storage in use: references, supersede and unlink marks, claim state | register, mark, claim batch, collect, recover | handles, worker, recovery at open |
| compaction and handoff (`compact.c`) | a generation under construction, prepared writer bundles | build, publish, hand writers over, collect the old generation | path lock, every writer's cache lock |
| adaptive policy (`compact.c`) | evidence counters, ticket state, cooldown in the record | observe, claim, begin, reject, restore | tickets travel through the queue |
| queue and worker (`compact.c`) | request list, running and stop flags | schedule, dequeue, start, stop | condition variable, synchronous fallback |
| file operations (`file.c`) | handle: descriptors, cached map, epoch | create, open, read, write, truncate, release | registry, path lock, cache lock |
| directory operations (`dir.c`) | none of its own | getattr, unlink, mkdir, rmdir, readdir | registry marks, recovery |
| metadata journal (`metadata.c`) | map, sequence, valid end of the journal | load, append, save, checkpoint | handle descriptors and path names |
| chunk I/O (`chunkio.c`) | none (blobs in the data file) | window arithmetic, load, append, repack | read, write, truncate, compaction |
| scratch leases (`chunkio_scratch.c`) | thread-local slots | acquire, release | repack |
| codec (`compress.c`), guards | thread-local contexts; none | compress, decompress; argument checks | chunk I/O |
| lifecycle (`main.c`) | none | init, destroy | starts and stops the worker, drops the tables |

What is hard, and which property answers it, is listed line by line under
`hazards` in `PROJECT.json`. In short:

* an entry of the lock table is freed by its last user while others look it up;
* any system call of a publication, an unlink or a collection can fail, the
  daemon can die between any two, and power loss takes back every directory
  change since the last `fsync`;
* a compaction moves open writers to a new generation while readers keep the
  old one, which must be collected later, but not sooner than allowed;
* registry records are found by inode number and inode numbers are recycled;
* a ticket passes through three owners without a lock, can be refused, merged
  or overtaken, and blocks its file until it is used or given back;
* the worker is stopped while requests may still arrive;
* several handles append to one journal, each with a cached map and its own idea
  of where the journal ends; an append can fail, its rollback can fail, and a
  power loss tears the last record;
* a read uses a map it took before the writes, truncates and compactions that go
  on beside it;
* old files have chunks that cross windows, and the size of a window changes.

## 2. Modules

```
 PathLock  <--implements--  LockTable  <--  LockTableProofs (TLAPS)
    |                          ^-- MCLockTable: LockTable.cfg, LockTableLive.cfg
    |  its mutual exclusion is assumed by
    +--> Generations   <-- MCGenerations:  Generations*.cfg
    |         ^-- GenerationsLemmas <-- GenerationsProofs
    |                 <-- GenerationsContentProofs (TLAPS)
    +--> CompactQueue  <-- MCCompactQueue: CompactQueue*.cfg
    |         ^-- CompactQueueProofs (TLAPS)
    +--> MetaJournal   <-- MCMetaJournal:  MetaJournal.cfg
    |         ^-- MetaJournalProofs <-- MetaJournalMapProofs (TLAPS)
    +--> ChunkIO       <-- MCChunkIO:      ChunkIO.cfg
              ^-- ChunkIOProofs (TLAPS)
```

**PathLock** is the promise of the lock module: a path has at most one owner.

**LockTable** is `lock.c` step by step. A thread's control point `pc` is one of
the places between two synchronisation calls: `enter` (before the shard mutex),
`lookup`, `found`, `wait` (before the path mutex), `held`, `drop`, `unref`,
`reclaim`. Entries are heap cells that are allocated, linked, unlinked, freed
and recycled. `calloc`, `pthread_mutex_init` and each mutex call may fail, with
what the code does then, including the reference that is lost when the shard
mutex cannot be taken on the way out.

**Generations** is the storage of one file. Since every operation holds the
path lock, one operation is in progress at a time (`pc`, `job`); the state is
the directory as the daemon sees it (`dir`) and as the last successful `fsync`
left it (`disk`), the registry (`reg`) and the open handles (`hs`). One action
per callback: `Open`, `Create`, `Write`, `TruncatePath`, `Refresh`, `Release`,
`Unlink`, and a compaction in three (`CompactSkips`, `Build`,
`PublishAndHandoff` with its failing forms), recovery (`Recover`) and
collection (`GCGeneration`, `GCLegacy`, one step per claimed record). The
operation `lookup` is the recovery that a getattr runs, also for a name that does
not exist. `Create` is possible whenever getattr answers `ENOENT`: that includes a
data file without a map, which it empties. A group of system calls is one step
with an outcome for every call that can fail. The daemon can die between steps
(`Exit` is an orderly exit or a kill) and the machine can lose power
(`PowerLoss`: each name is what `dir` or what `disk` says); both are possible in
every state, also while an unlink is half done. File content is abstracted to
*whether an inode holds everything acknowledged* (`fresh`). Two histories belong
to unlinks: `limbo`, an unlink stopped half way and none was completed since; and `fault.cut`, the daemon ended in such a state while no name
led to the content, only the record in its registry.

**CompactQueue** is *when* a file is compacted: the adaptive part of the record
(`rec`), `schedule_request`, the worker, the release and write callbacks that
feed the queue, and the synchronous fallback. A client is one open file with
the thread that serves it. Critical sections of the path are single steps,
except compaction, which holds the path in `lock` from `adaptive_begin` to its
publication, because the giving back of tickets runs without the path lock.
What compaction does to the storage is left to Generations: here it succeeds,
finds nothing to do, or fails.

**MetaJournal** is the map of one storage and its journal: the file as the page
cache has it (`meta`) and as the last sync left it (`disk`), with a complete map
followed by records, each whole or torn; the name of the map and older files
that are still open; and the handles, each with a descriptor, a cached map, the
end of the journal it knows and the epoch it saw. A map is the set of writes it
holds. A write is several steps, with the failures of each: `Start` (refresh of a
stale cache), `Convert` (an old map), `WriteData` (blobs and `fdatasync`),
`AppendRecord`, `SyncRecord` (with the rollback), `Checkpoint` (with a failed
save, a failed directory `fsync` and a failed reopen). `TruncatePath`, `Open`,
`Release` and the read's `Refresh` come between operations. `Kill` loses the
process, also in the middle of an append, when the file is cut or ends in a part
of the record (a kill between the rename of a save and what follows it is the
save that reports its renaming, then `Kill`); `PowerLoss` loses what was not
synced. `acked` is what was acknowledged,
`firm` the part that was acknowledged while no directory `fsync` was in doubt.

**ChunkIO** is the bytes of one file. `Region`, `Repack`, `ReadAll`,
`ResizeTarget` and the operators they are made of translate the algorithms;
`Write`, `Truncate`, `CompactVerbatim` and `CompactRepack` apply them under the
path lock; `content` is the reference: the array of bytes a file without
compression would have. `ReadBegins` keeps a map while the others go on. The
data file is a sequence of blobs, since no decision depends on where a blob
lies, only on its place among those that are appended. The loop by which a write
grows its region (`file.c:981-1030`) is stated by its result: the nearest window
borders around the write that no chunk crosses. `LoopGivesRegion` proves that it
is what the loop has reached when a round changes nothing.

The action names follow the functions; `map` in `PROJECT.json` gives the lines
of every definition. Definitions whose comment starts with "Defect" are faulty
variants used to show that each property can fail.

## 3. Runs

| run | instance | what it shows |
|---|---|---|
| `LockTable.cfg` | 3 threads, 2 paths in 1 shard, 2 cells, `UINT_MAX` = 2, 1 lost reference; 45,664 states | no use after free, one entry per path, exact counts, empty table when idle, mutual exclusion as refinement of PathLock; `IndInv` is the invariant that is proved |
| `LockTableLive.cfg` | 3 threads, 1 path; 972 states | a waited-for path is granted |
| `Generations.cfg` | 2 handles, 2 generations, 2 legacy inodes, 3 faults; 755,260 states | pointer never dangles, what was acknowledged is what is found, a half-done unlink keeps the content while its registry record lives, open generations stay, data and map are never of two storages, nothing leaks |
| `GenerationsUnlink.cfg` | the same with 2 legacy records, unlink under open handles, half-done unlinks, 1 fault; 1,009,597 states | records stay found although inode numbers are recycled; collection and supersede marks stay right |
| `CompactQueue.cfg` | 2 paths, 2 open files and the worker, 5 opens, writes and replacements, worker stopped at any time; 683,869 states | tickets are never stuck, evidence is conserved, the queue is drained and has one request per path |
| `CompactQueueLive.cfg` | the same with 4 operations, stop after the last callback; 154,444 states | no last release is forgotten; each is followed by a compaction attempt; the stop returns |
| `MetaJournal.cfg` | 2 handles, 3 operations, checkpoint after 3 records, 2 faults; 104,163 states | acknowledged operations survive kills and, when firm, power losses; caches are coherent and paired with their file; no map refers to a blob that is not on disk; reads return |
| `ChunkIO.cfg` | offsets to 11, windows of 1, 2 and 4, 3 writes or truncates at 4 offsets, a new file and one with old chunks; 254,602 states | every read, also one that began earlier, returns the bytes last written; the map is sorted and disjoint; a packed map stays packed |

Four runs end in a violation, each of a sentence of the repository:

* `GenerationsTornPointer.cfg` (`PointerIntact`): the removal of `.current` by an
  unlink is not confirmed by `fsync`, the daemon restarts, and recovery at the
  next open, seeing no pointer, skips its `fsync` (`compact.c:1193`) and collects
  the generation that the pointer on disk still names. Compare `dir.c:273-275`.
* `GenerationsMixed.cfg` (`BundleConsistent`): a handle on the legacy pair that
  outlives an unlink and a create reaches its map by name and gets the new
  file's. Compare `myfs.h:134-136`. It needs an unlink with open handles, which
  the tests do and libfuse avoids only by a check that can race.
* `GenerationsOrdinary.cfg` (`OrdinaryWaits`): a combined request whose resize is
  rejected compacts under live writers. Compare `compact.c:1971`. The handoff
  covers the writers, so nothing is lost.
* `GenerationsHalfUnlinked.cfg` (`ContentSurvives`): a compaction publishes a
  generation and the daemon ends before the aliases are installed; the file is
  changed, and the next recovery fails, so that the aliases still are the old pair.
  An unlink removes the pointer, confirms it (`dir.c:287-289`) and stops, and the
  daemon ends or the power fails. At the next lookup there is no pointer:
  recovery takes the stale pair for the file and gives the generation with the
  newest content to the collector (`compact.c:1267`). The file is then under its
  path with old content. Compare `dir.c:273-275`: the obligation named there is in
  memory only. The run has 2 generations, 2 handles, 1 legacy inode and 4 faults
  (end, failed recovery, failed unlink, end).

### Bounds

Named constants bound every counter. `MaxRefs` stands for `UINT_MAX` and is
small enough to be reached. `MaxFaults` counts failed calls, exits and power
losses together: three are enough for "publish unconfirmed, restart, power
loss". An unlink that is cut off costs one, and the end of the daemon that cuts it
off another. With one handle, five were checked once with the invariants of the proofs
(2.5 million states). `MaxLegacy` bounds the records of the legacy pair: two let an orphaned
record and that of its successor with the same inode number coexist. Two
generations suffice for source and target; a collected identifier is not used
again. `MinSample` (`ADAPTIVE_MIN_SAMPLE`) is 1, so that one write claims a
ticket; 2 with one path and 9 operations was checked once (1.7 million states).
`MaxOps` bounds opens, writes and replacements of a file; releases, ticks of the
cooldown clock and the worker are not bounded. Deadlock checking is off in the
runs of Generations and CompactQueue, because requests come from outside and a
bounded supply of them runs out; so it is for MetaJournal and ChunkIO. It is on
for LockTable.

`MetaJournal.cfg` allows two faults (failed calls and losses of power or
process), and the bound matters. With three, `CachePaired` fails: an append
fails after its record is whole, the `ftruncate` that should take it back fails
too, a handle opened then loads the record, and the older handle cuts it off
without an epoch of its own for it; the newer one then gets `-EIO` from its
writes. With four, a record that is acknowledged can follow a torn one and is
lost when the map is loaded. Each needs a failing `ftruncate` of a file that was
just written; the code logs a warning and goes on. Three operations with a
checkpoint after three records let an append, a second handle's append and a
checkpoint meet. `firm` leaves out what is acknowledged after a checkpoint whose
directory `fsync` failed: such a checkpoint is visible, is reported only in the
log, and a power loss may bring back the old map.

In `ChunkIO.cfg` the four points lie inside, on the border and in the last of the
windows of every size, and `MaxOffset` stands for `INT64_MAX`: the last window of
size 4 ends above it. The old file has a chunk across two windows whose
neighbour is pulled in by the growing region. Windows grow from 2 to 4 and shrink
from 2 to 1 (`MinSample` stands for `ADAPTIVE_MIN_SAMPLE`). The evidence of a
ticket is any part of what was gathered, which covers every moment of the claim.

Constants that widen the environment are `UnlinkWhileOpen`, `TornUnlink`,
`TornCreate` (Generations), `QuiescentStop` (CompactQueue; TRUE narrows it) and
`RollbackFails` (MetaJournal). The first three are FALSE in `Generations.cfg`
because with them the violations above and below exist; the properties that hold
nevertheless are checked with them TRUE in `GenerationsUnlink.cfg`. `RollbackFails` is TRUE in
`MetaJournal.cfg`; the proofs need it FALSE where section 4 says so.

`TornUnlink` lets an unlink stop between the removal of the pointer and the
`fsync` that confirms it, by a failed `fsync` or the end of the daemon. Nothing
else depends on it: with FALSE an unlink may still stop at any other point, and the
daemon may end anywhere else.

`QuiescentStop` says that the worker is stopped after the last callback. Without it
TLC violates `ReleaseNotForgotten`: a release during a stop falls back to its own
thread, yields to a queued ticket and is dropped. Compare `compact.c:2325-2326`.
`myfs_destroy` stops the worker after the FUSE loop and does not meet this; it was
checked once and has no configuration here.

`TornCreate` lets a create fail that finds the map of an earlier file under its map
name. With it, TLC violates `BundleConsistent` in `Generations.cfg` by three steps
with three faults: a create fails at the directory `fsync` of its map
(`file.c:153-159`), a power loss keeps the name of that map but not that of the
data file, and the next create makes a new data file and fails before it has
replaced the map. The path then resolves to the new data with the old map. Both
creates return an error, data and map are empty, so that the mixed pair reads as
an empty file and no content is at stake; the sentence it contradicts is
`myfs.h:134-136`.

### Fairness

`LockTable!FairSpec`: weak fairness of each thread that is inside lock code or
holds a path, because every callback releases what it took. Nothing more is
assumed of a pthread mutex: a free one is granted to *some* waiter, so the
property is that a waited-for path is granted, not that each thread gets it.
Callers are not forced to call, failures not forced to happen, and the property
assumes that failures stop. With two paths in one shard it fails: an unfair
shard mutex can be taken for the other path for ever. The run uses one path.

`CompactQueue!FairSpec`: the worker, a callback that has started to schedule,
and the thread in `pthread_join` keep running. Callbacks, failures, the clock
and the stop are never forced. A compaction holds a path for finitely many
steps, and `MaxOps` bounds how often others take it, so weak fairness is enough.

`MetaJournal!FairSpec`: an operation that has begun goes on, and a refresh that a
read has to make is made, because the callback's thread keeps running and the
path lock is granted. Writes, opens and faults are never forced. `MaxOps` bounds
the operations, so that `ReadReturns` says what the retry loop of `myfs_read`
needs: a refresh ends with the epoch it loaded, and only a change of the map
makes another one necessary.

## 4. Proofs

`LockTableProofs` proves for all threads, paths, shards, entries and limits,
from `ConstantsAssumption` of LockTable (the threads are finite and the shard
function is total; nothing about the hash):

* `IndInvHolds`: `Spec => []IndInv`. `IndInv` strengthens the safety properties
  by six facts. `ShardOwned`: a thread inside a shard section owns that mutex.
  `LookupStable`: what `find_entry` returned stays true until the shard is
  unlocked; this is where "no second entry" comes from. `NoPointer`: no pointer
  before the lookup. `MutexOwner`: owning a path mutex is the same as being
  in its critical section. `AllocatedUsed`: an unlinked cell is being freed by
  somebody. `RefsCountUsers` is part of it: the count reaches zero only with an
  empty set of users, from which `NoUseAfterFree` follows.
* `TypeCorrect`, `MemorySafe`, `UniqueEntry`, `CountExact` are conjuncts;
  `Mutex` and `Reclaimed` follow from them; `Refinement` shows that each step of
  LockTable is a step of PathLock or none.

The induction is one lemma per conjunct with one step per action; the counting
lemmas about `Cardinality` come first.

`MetaJournalProofs` proves for any handles, files, operations, checkpoint
interval and number of faults, from `ConstantsAssumption` of MetaJournal (inode
0 exists, the bounds are numbers):

* `IndInvHolds`: `Spec => []IndInv`. `FilesWithin` and `HandlesWithin` say that
  every operation mentioned anywhere has durable blobs: in a meta file, in what a
  power loss may leave of one, in a cached map. They speak of records that a load
  does not reach as well, because a cut or a power loss can change which records
  are reached, and of cached maps, because a checkpoint writes one out.
  `DataFirst` carries the order of the calls: from the data `fdatasync` to the end
  of the append, the operation in progress has its blobs on disk.
  `RecordWritten` bounds the valid end of its handle by the file, without which the
  cut after a failed `fdatasync` would have no meaning. `Busy` and `Plain` type
  what is left.
* `TypeCorrect` and `DurableBlobs` follow: a loaded map is a part of what its
  file mentions.

The lemmas come first: what a save, a cut, an append, a load and a rollback do
to what is mentioned; then one lemma for each action. TLC checked `IndInv`
on the instance of `MetaJournal.cfg` before it was proved.

`MetaJournalMapProofs` proves the other safety properties of MetaJournal for every
number of faults, under the hypothesis `~RollbackFails`: of the failures the code
meets, all may happen any number of times except the one it only logs, an
`ftruncate` that fails to take back the record of a failed append
(`metadata.c:534-537`). The hypothesis is needed: with `RollbackFails`, TLC finds
`CachePaired` violated after three faults and the other two after four
(section 3). A kill in the middle of an append, which leaves the same file, is
not excluded.

* `JournalInvHolds`: `Spec => []JournalInv`. `JournalInv` adds five facts to
  `IndInv`. `FilesSound`: in every file that may have the name, and in all that a
  power loss may leave of one, the records are numbered without a gap, only the
  last can be torn, and what is firm is there; in the file that has the name, what
  is acknowledged. `Certain`: only one file may have the name as long as no
  directory `fsync` is in doubt. `Paired` and `CacheCoherent`: a handle whose cache
  is current has the named file open, caches what a load would find there, apart
  from a record that is not synced yet, and misses nothing acknowledged. `Working`:
  the handle of the operation in progress is current, and where its record is.
* `AcknowledgedSurvives`, `CachesCoherent` and `CachesPaired` follow.

TLC checked `JournalInv` with `RollbackFails` FALSE for four faults and a
checkpoint after three records (264,233 states), and for seven faults, nine
files and a checkpoint after two (510,981 states).

`GenerationsLemmas`, `GenerationsProofs` and `GenerationsContentProofs` prove,
for any handles, generations, legacy inodes and records and any number of faults,
from `ConstantsAssumption` of Generations:

* `StorageInvariant`: `Spec => []StorageInv`, without further hypotheses. Beside
  types (`Typed`), `Working` says of the operation in progress that it works on
  the storage the directory resolves to, and that a generation that is about to
  be published is complete and known to nobody; `NamesKnown` says that names lead
  to inodes that exist; `OnRecords`, the core, says that every open handle is on
  the record of its storage and on no other, which inode reuse, orphans and
  superseded records must not disturb. `StorageTyped` (`TypeOK`),
  `OpenGenerationsSafe` (a generation with an open handle is never collected) and
  `HandlesFound` (`RegistryFindsHandle`) follow.
* `FileInvariant`: `Spec => []FileInv`. `PointersKept`: as long as no removal of
  the pointer went unconfirmed (`Calm`), a generation that the pointer names in
  the directory, or may name after a power loss, is complete, and the collector
  cannot take it before it has synced another pointer; it is here that recovery
  and publication have to sync before they collect. `Latest`: the names lead to
  an inode with everything acknowledged, and a handle that was not unlinked is on
  the active storage, or its record refuses writes. `ReclaimInv` accounts for every
  generation beside the active one: a collection in progress, a handle of its own,
  or one on the legacy pair is what it waits for. `ContentInv` says, for an unlink
  that stopped half way, where the content is: under the data name, or in a
  generation whose record carries an alias obligation and keeps the collector away.
* `LatestUnderPath` (`LatestIsActive`) and `NothingLeaks` (`ReclaimComplete`)
  follow without further hypotheses. `PointerNeverDangles` (`PointerIntact`) is
  proved for `~TornUnlink`.
* `HalfUnlinkedContentKept` (`ContentKept`) is proved for `~TornUnlink` and
  `~UnlinkWhileOpen`: failed calls, lookups, recoveries, collections, compactions
  and a repeated unlink never destroy the content of a file whose unlink stopped
  half way, nor does an end of the daemon if a name still leads to the content
  then. It does not cover an end of the daemon while only the record in the registry
  protects the content (`fault.cut`): there it is false, and
  `GenerationsHalfUnlinked.cfg` is the counterexample. Ends of the daemon are
  possible everywhere in the model; the theorem says of each whether it counts.

* `BundleInvariant`: `Spec => [](FileInv /\ BundleInv)`, from which `NamesStay`
  (`NamesStable`) and `BundlesStay` (`BundleConsistent`) follow, for
  `~UnlinkWhileOpen` and `~TornCreate`. That data and map are of one storage is a
  matter of the *legacy* names: a generation directory has both from the start.
  `Pairing` says that while no pointer is durable, the map under the path is the
  data file's own or missing, in the directory and in whatever a power loss leaves of
  it; when the pointer is durable the legacy names may be mixed, because a
  collection installs the aliases one after the other. `NoneOwed` is what keeps
  such a collection away from them: without a durable pointer nothing but the active
  generation owes its aliases. `OwnMaps` says that a handle has the map of its data,
  and that the names of the pair are still its own while it is on the pair;
  `Closed`, that an unlink that is under way has no open handle to disturb.
  A power loss, a failed `fsync` and a handoff are the steps that need all of it.

`~TornUnlink` excludes the violation of `GenerationsTornPointer.cfg`, in which the
pointer does dangle, and no end of the daemon elsewhere; `~TornCreate` excludes the scenario of section 3. `~UnlinkWhileOpen`
is that libfuse renames a file that is open instead of unlinking it, except for a
race. TLC checked `BundleInv` on small instances with any number of faults, and `FileInv` on the instances
of `Generations.cfg` and of `GenerationsUnlink.cfg` before it was proved.

`CompactQueueProofs` proves for any paths, open files and operations, any
`MinSample` above zero and a worker that is stopped at any time, from
`ConstantsAssumption` of CompactQueue (the worker is no client, `None` is neither
a path nor an actor, the bounds are numbers):

* `IndInvHolds`: `Spec => []IndInv`. Its core is `RecordsSound`, one statement
  for each path about its record, the evidence to account for and the tickets
  for that path which threads and queue hold. An old ticket must not match a
  record it was not issued for: tickets are never newer than the record, and the
  evaluation number of a record does not start again, because a record that was
  evaluated once has no cooldown and, when idle, never runs out of evidence,
  so that the last release does not free it (`ForgetSound`). What the ticket that
  is waited for carries is missing in the record. `Control` ties the path lock to
  the evaluation of the record's own ticket, `QueuedTracked` names the carriers
  of a ticket that has not begun, `Drained` says that a worker that ended left
  an empty queue and that nobody can add to it, `Distinct` that a path is
  queued once, `Phases` that an actor has a request exactly when it works on one.
* `TypeCorrect`, `TicketsTracked`, `EvidenceKept`, `QueuedOnce` and
  `QueueDrained` follow; `EvidenceKept` needs `TicketTracked` for the ticket that
  is out.

The lemmas about one record come first, then those about the queue and the
tickets that are out, then the kinds of steps (`GiveUpStep`, `EndStep`,
`MoveStep`, `LockStep`, `EnqueueStep`, `QuietStep`, `RecordStep`, `ClaimStep`),
then one lemma for each action. TLC checked the invariant on the instance of
`CompactQueue.cfg` before it was proved.

* `SpentForGood` and `AnsweredInFull` are action properties. A ticket that was
  answered or left behind is never waited for again (`TicketsStaySpent`), so that
  a thread that fails late gives nothing back a second time; and an evaluation
  that ends without another generation restores the whole evidence
  (`AnswersRestore`). Both come from one lemma for each action about one record
  (`Moves`: generation and evaluation number only grow, a record waits again only
  for a new number, and an answer observes and uses nothing), the second also
  from `EvidenceKept`. TLC checked both with one path, two open files and six
  operations (601,762 states) before they were proved.
* `ReleaseRemembered`: `Spec => []ReleaseNotForgotten` under `QuiescentStop`, a
  worker that is stopped after the last callback, as `myfs_destroy` does
  (`compact.c:2253`; section 3 says what happens otherwise).
  `RelInv` adds to `IndInv` that callback threads compact only when there is no
  worker, and that none runs once it is stopped (`Quiet`), that the request of a
  write is that of a writer still open (`WritesOpen`), and that a path with a due
  release has no writers and a carrier of the release: a request in the queue that
  is ordinary or about to be merged with one, or a thread that has one
  (`DueSound`). TLC checked it on the instance of
  `CompactQueueLive.cfg` (43,824 states without fairness) before it was proved.

`ChunkIOProofs` proves for any window sizes that are powers of two, any largest
offset, points, old layouts and number of operations, from `ConstantsAssumption`
of ChunkIO. Of old files it says that their chunks are in order, which the load
sorts them into (`metadata.c:165`), and do not overlap: the load does not check that,
but the code relies on it (`chunkio.c:263` stops at the first chunk that reaches
beyond a point):

* `ChunkInvariant`: `Spec => []IndInv`. `FileSound`: the map is sound (`SoundMap`:
  in order, disjoint, within the file, each chunk held by its blob), and `Holds`:
  a byte that a chunk covers is the byte the file must have, one in a hole is zero.
  The same holds of the map a read has taken (`ReaderSound`), in the data file as
  long as it is that of its generation, and in the one left behind after a
  compaction: appends keep it true because they change no blob. `BytesNumbered`:
  a byte is the number of a past operation, so that a write changes the content.
* `ChunksTyped` (`TypeOK`), `MapAlwaysSound` (`MapSound`), `ReadsReturnContent`
  (`ContentRead`) and `PackedForGood` (`StaysPacked`, an action property) follow.
* `LoopGivesRegion` is the lemma about the loop named in section 2: each round stays
  inside the region of the model, and a round that changes nothing has borders
  that no chunk crosses. `LoopEnds` says that such a round comes: a changing round
  takes a chunk more than the one before (`RoundTakes`), because a region on
  window borders that takes no further chunk is stable (`AlignedStable`), so that
  at most `Len(map)` rounds change it. The guard of `num_chunks + 2` rounds
  (`file.c:981-990`), which would fail a write with `-EIO`, never fires.

The proof goes from arithmetic to operations: windows (`BaseIs`, `Multiple`, `Apart`),
enumeration of a finite set in order (`AscendingIs`), the chunk a read finds and
the end of a hole (`FindChunkIs`, `HoleEndIs`), the read itself (`ReadAllIs`), what
repacking returns (`RepackIs`, `RepackedSound`), how new chunks replace those of
a region (`SpliceIs`, `SplicedHolds`, `WriteSound`), how truncate cuts
(`KeptIs`, `CutSound`, `KeptBlobIs`), compaction (`VerbatimSound`, `CompactedSound`),
then one lemma for each action. `Half`, `Double` and `PowersApart` are about the
powers of two: a window is halved or doubled only to another valid size. An induction
over data (`ReadAll` is a recursive function, the rounds of the loop a sequence)
is replaced by a least position at which the claim fails (`LeastExists`, from
the well-foundedness of the naturals). TLC checked `IndInv` on the instance of
`ChunkIO.cfg` before it was proved.

Not proved, only model-checked, and why:

* Everything temporal under fairness (`WaitersProgress`, `ReleaseServed`,
  `StopReturns`, `ReadReturns`): liveness and `ENABLED` are beyond the prover.

## 5. What is not modelled, and abstractions to know

* Encodings: CRCs, compressed frames, the layout of the map and its records, the
  names in the backing directory. A read or load that finds a wrong checksum
  ends in `-EIO`. MetaJournal assumes that a power loss leaves a prefix of what
  was appended: a tail of the right length with other bytes in it, which a file
  system that reorders data may leave, is `-EIO` in the code and not modelled.
* Generations takes a write as one step that makes an inode fresh; the steps
  inside are in MetaJournal, the bytes in ChunkIO. MetaJournal has one storage:
  handles move to a new one in Generations.
* Failing registry mutexes in `generation_bump_metadata_epoch_locked` and
  `generation_state_snapshot`: default pthread mutexes do not fail there.
* Saturation of the evidence counters at 2^64 and of the benefit at
  `compact.c:79`: no number of writes reaches it.
* ChunkIO's offsets are unbounded integers: `MaxOffset` stands for `INT64_MAX`, and
  an operation that would go beyond it is refused by a guard, as the code's checks
  do. That the sums in the code do not wrap before they are checked is not shown.
* Scratch leases: buffers of one thread, by role, that the code never nests; that
  the window buffer is cleared before each use is part of ChunkIO. The codec and
  the argument checks of `guards.c` are sequential and keep no shared state.
* The order in which a shard visits its buckets when it collects; the model
  collects the claimed records in any order.
* CompactQueue identifies a generation uniquely; a ticket that outlives its
  record and meets a recycled inode number is listed as a hazard without a
  property. A publication whose record cannot be allocated is left to
  Generations.
* A release whose path lock cannot be allocated returns before it unregisters
  its handle (`file.c:1149`); it is listed as a hazard and not modelled.
* mkdir, rmdir, readdir, getattr's sizes, benchmarks and tests.

An observation from the model: collecting the old generation although the
`fsync` of the publication failed would not make the pointer dangle, because
installing the aliases syncs the same directory first. The code has both.

## 6. Plan

Done, in this order: LockTable with proofs (everything else relies on it),
Generations (the data is lost or kept here), CompactQueue, MetaJournal, ChunkIO,
MetaJournalProofs, CompactQueueProofs, then GenerationsProofs with its lemmas and
GenerationsContentProofs, `ReleaseRemembered` in CompactQueueProofs,
MetaJournalMapProofs, ChunkIOProofs, then the names of the pair in
GenerationsContentProofs, the end of the loop in ChunkIOProofs and the answers to
tickets in CompactQueueProofs.

Every safety invariant and action property that the passing runs check is now a
theorem. What would come next: tickets that outlive a recycled inode number in
CompactQueue (a hazard without a property), a release that cannot lock its path
(`file.c:1149`), and the directory operations left out in section 5.
