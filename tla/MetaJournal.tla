----------------------------- MODULE MetaJournal ----------------------------
(***************************************************************************)
(* The chunk map of one storage: the file <meta> of src/core/metadata.c, a *)
(* base map followed by a journal of delta records, and the open handles   *)
(* of src/fuse_ops/file.c that cache it.  A write or truncate through a    *)
(* handle syncs its blobs, appends one record and syncs it; now and then a *)
(* checkpoint replaces the file by one that holds the whole map.  Truncate *)
(* by path always replaces it.  A handle notices by the metadata epoch     *)
(* that its cached map is old and loads the map again.                     *)
(*                                                                         *)
(* Every operation but a read from a valid cache holds the path lock       *)
(* (module PathLock): pc is the control point of the one in progress and   *)
(* job what it remembers.  Reads run beside it, each under the cache lock  *)
(* of its handle.  Any call can fail, the daemon can be killed and the     *)
(* machine can lose power between any two steps.                           *)
(*                                                                         *)
(* An operation is a number; a map is the set of the operations applied to *)
(* it, in increasing order, because each is given a number of its own when *)
(* it starts.  The metadata epoch is represented by what it is compared    *)
(* for: seen says that a handle has seen the current one.                  *)
(***************************************************************************)
EXTENDS Naturals, Sequences, FiniteSets

CONSTANTS Handles,            \* open file handles
          Files,              \* bound: meta inodes
          CheckpointRecords,  \* MYFS_META_CHECKPOINT_RECORDS
          MaxOps,             \* bound: operations that change the map
          MaxFaults,          \* bound: failed calls and power losses
          RollbackFails       \* may the rollback of a failed append fail as well?

ASSUME ConstantsAssumption ==
    /\ Files \subseteq Nat /\ 0 \in Files
    /\ CheckpointRecords \in Nat \ {0}
    /\ MaxOps \in Nat /\ MaxFaults \in Nat /\ RollbackFails \in BOOLEAN

VARIABLES meta,   \* the content of each meta inode, as the daemon sees it
          disk,   \* the contents that power loss may leave of each
          name,   \* the inode that <meta> names
          names,  \* the inodes it may name after a power loss
          blobs,  \* operations whose data blobs are durable
          hs,     \* the open handles
          pc, job,
          acked,  \* operations that returned success to their caller
          firm,   \* those that did so while the name of the file was certain
          doubt,  \* a directory fsync failed, and none succeeded since
          count   \* ops, faults: how many operations started, calls failed

vars == <<meta, disk, name, names, blobs, hs, pc, job, acked, firm, doubt, count>>

Ops == 1 .. MaxOps

(***************************************************************************)
(* A meta file: its version (legacy is version 0), the base map with the   *)
(* sequence number of its header, and the records.  A torn record is one   *)
(* whose tail or commit marker is missing.  Offsets are counted in records *)
(* after the base.                                                         *)
(***************************************************************************)
Records == [seq : Nat, op : Ops, torn : BOOLEAN]

Contents == [legacy : BOOLEAN, base : SUBSET Ops, seq : Nat, recs : Seq(Records)]

\* A file without records, as a save writes it.
WholeMap(map, seq) == [legacy |-> FALSE, base |-> map, seq |-> seq, recs |-> <<>>]

Blank == WholeMap({}, 0)

\* A handle: the inode of its meta_fd, the cached map, metadata_sequence,
\* metadata_valid_end, cache_valid, and seen_metadata_epoch.  A handle opened
\* for reading is one that starts no operation.
HandleStates == [open : BOOLEAN, file : Files, map : SUBSET Ops,
                 legacy : BOOLEAN, seq : Nat, end : Nat, valid : BOOLEAN, seen : BOOLEAN]

NoHandle == [open |-> FALSE, file |-> 0, map |-> {}, legacy |-> FALSE, seq |-> 0, end |-> 0, valid |-> FALSE, seen |-> FALSE]

NoJob == [op |-> 0]

(***************************************************************************)
(* The only typing statement of this module.                               *)
(***************************************************************************)
TypeOK ==
    /\ meta \in [Files -> Contents]
    /\ disk \in [Files -> SUBSET Contents]
    /\ name \in names /\ names \subseteq Files
    /\ blobs \subseteq Ops /\ acked \subseteq Ops /\ firm \subseteq acked
    /\ doubt \in BOOLEAN
    /\ hs \in [Handles -> HandleStates]
    /\ pc \in {"idle", "convert", "data", "append", "sync", "checkpoint"}
    /\ job \in {NoJob} \cup [h : Handles, op : Ops]
    /\ count \in [ops : 0 .. MaxOps, faults : 0 .. MaxFaults]

\* A file that create or an earlier release of the program left: empty, with
\* a version 0 or a version 2 map.
Init ==
    /\ \E old \in BOOLEAN :
           meta = [f \in Files |-> [Blank EXCEPT !.legacy = (old /\ f = 0)]]
    /\ disk = [f \in Files |-> {meta[f]}]
    /\ name = 0 /\ names = {0}
    /\ blobs = {} /\ acked = {} /\ firm = {} /\ doubt = FALSE
    /\ hs = [h \in Handles |-> NoHandle]
    /\ pc = "idle" /\ job = NoJob
    /\ count = [ops |-> 0, faults |-> 0]

-----------------------------------------------------------------------------
(***************************************************************************)
(* metadata.c: reading a map.                                              *)
(***************************************************************************)

\* The journal ends at the first torn record.
Committed(c) ==
    Cardinality({i \in 1 .. Len(c.recs) : \A j \in 1 .. i : ~c.recs[j].torn})

\* A record before that end with a sequence number out of turn fails the load.
Loads(c) == \A i \in 1 .. Committed(c) : c.recs[i].seq = c.seq + i

MapUpTo(c, n) == c.base \cup {c.recs[i].op : i \in 1 .. n}

MapOf(c) == MapUpTo(c, Committed(c))

\* The cache of a handle may be used without loading the map.
Current(h) == hs[h].valid /\ hs[h].seen

\* A handle after it opened inode f and loaded its map.
Loaded(h, f) ==
    LET c == meta[f]
    IN  [h EXCEPT !.file = f, !.map = MapOf(c), !.legacy = c.legacy,
                  !.seq = c.seq + Committed(c), !.end = Committed(c),
                  !.valid = TRUE, !.seen = TRUE]

-----------------------------------------------------------------------------
(***************************************************************************)
(* Failures and the life of inodes.                                        *)
(***************************************************************************)

\* The step starts o operations, and n of its calls fail.
Charge(o, n) ==
    /\ count.ops + o <= MaxOps /\ count.faults + n <= MaxFaults
    /\ count' = [ops |-> count.ops + o, faults |-> count.faults + n]

\* Inodes without a name and without a descriptor are freed.
InUse(ns, H) == ns \cup {H[h].file : h \in {x \in Handles : H[x].open}}

SetFiles(m, d, ns, H) ==
    /\ meta' = [f \in Files |-> IF f \in InUse(ns, H) THEN m[f] ELSE Blank]
    /\ disk' = [f \in Files |-> IF f \in InUse(ns, H) THEN d[f] ELSE {Blank}]
    /\ names' = ns
    /\ hs' = H

Fresh == CHOOSE f \in Files \ InUse(names, hs) :
             \A g \in Files \ InUse(names, hs) : f <= g

\* Defect: the epoch stays as it is.
DefectBumped(H) == H

\* generation_bump_metadata_epoch_locked: no handle has seen the new epoch.
Bumped(H) == [h \in Handles |-> [H[h] EXCEPT !.seen = FALSE]]

\* save_chunk_map_for_storage: write <meta>.tmp, fsync it, rename it over
\* <meta>, fsync the directory, install the aliases of a generation.  The
\* first, the third or the last of these fails, or none.
SaveResults == {"tmp", "renamed", "aliases", "saved"}

Failing(out) == IF out = "saved" THEN 0 ELSE 1

\* Defect: the directory is synced before the rename.
DefectSave(out, map, seq) ==
    LET f == Fresh
        c == WholeMap(map, seq)
    IN  [meta |-> [meta EXCEPT ![f] = c], disk |-> [disk EXCEPT ![f] = {c}], name |-> f,
         names |-> names, doubt |-> FALSE]

Save(out, map, seq) ==
    LET f == Fresh
        c == WholeMap(map, seq)
    IN  IF out = "tmp"
        THEN [meta |-> meta, disk |-> disk, name |-> name, names |-> names,
              doubt |-> doubt]
        ELSE [meta |-> [meta EXCEPT ![f] = c], disk |-> [disk EXCEPT ![f] = {c}], name |-> f,
              names |-> IF out = "renamed" THEN names \cup {f} ELSE {f},
              doubt |-> out = "renamed"]

\* Files bounds the inodes: a save needs a free one.
SetSaved(s, H) ==
    /\ s.name \in Files
    /\ SetFiles(s.meta, s.disk, s.names, H)
    /\ name' = s.name
    /\ doubt' = s.doubt

\* Defect: the new epoch is noted before the new file is open.
DefectReopened(h, s, ok) ==
    LET H == [Bumped(hs) EXCEPT ![h].seen = TRUE]
    IN  IF ok THEN [H EXCEPT ![h] = [@ EXCEPT !.file = s.name, !.end = 0, !.legacy = FALSE]]
        ELSE [H EXCEPT ![h] = [@ EXCEPT !.valid = FALSE]]

\* Defect: the cache stays valid when the reopen fails.
DefectKeptCache(h, s, ok) ==
    LET H == [Bumped(hs) EXCEPT ![h] = [@ EXCEPT !.legacy = FALSE, !.seen = TRUE]]
    IN  IF ok THEN [H EXCEPT ![h] = [@ EXCEPT !.file = s.name, !.end = 0]] ELSE H

\* The handle's descriptor after the meta file was replaced under it: open the
\* new file, or leave the cache invalid.  The epoch is bumped either way.
Reopened(h, s, ok) ==
    LET H == Bumped(hs)
    IN  IF ok THEN [H EXCEPT ![h] = [@ EXCEPT !.file = s.name, !.end = 0,
                                              !.legacy = FALSE, !.seen = TRUE]]
        ELSE [H EXCEPT ![h] = [@ EXCEPT !.valid = FALSE]]

-----------------------------------------------------------------------------
(***************************************************************************)
(* file.c: a write or a truncate through a handle.                         *)
(***************************************************************************)
Handle == hs[job.h]

Goto(p) == pc' = p /\ UNCHANGED job

\* The operation returns an error.
Fail == pc' = "idle" /\ job' = NoJob /\ UNCHANGED <<acked, firm>>

\* The caller is told that operation op succeeded.
Acknowledge(op) ==
    /\ acked' = acked \cup {op}
    /\ firm' = IF doubt' THEN firm ELSE firm \cup {op}

\* The operation returns success.
Ack == pc' = "idle" /\ job' = NoJob /\ Acknowledge(job.op)

\* Take both locks; load the map again unless the cached one is current.
Start(h) ==
    /\ pc = "idle" /\ hs[h].open
    /\ Current(h) \/ Loads(meta[name])
    /\ LET H == IF Current(h) THEN hs
                ELSE [hs EXCEPT ![h] = Loaded(@, name)]
       IN  /\ SetFiles(meta, disk, names, H)
           /\ pc' = IF H[h].legacy THEN "convert" ELSE "data"
    /\ job' = [h |-> h, op |-> count.ops + 1]
    /\ Charge(1, 0)
    /\ UNCHANGED <<name, blobs, acked, firm, doubt>>

\* A version 0 map is saved in version 2 before the first record.
Convert ==
    /\ pc = "convert"
    /\ \E out \in SaveResults, reopen \in BOOLEAN :
           LET s == Save(out, Handle.map, Handle.seq)
               ok == out = "saved" /\ reopen
           IN  /\ SetSaved(s, Reopened(job.h, s, ok))
               /\ Charge(0, IF ok THEN 0 ELSE 1)
               /\ IF ok THEN Goto("data") /\ UNCHANGED <<acked, firm>> ELSE Fail
    /\ UNCHANGED blobs

\* Defect: the blobs are not synced.
DefectWriteData ==
    /\ pc = "data"
    /\ Goto("append") /\ Charge(0, 0)
    /\ UNCHANGED <<meta, disk, name, names, blobs, hs, acked, firm, doubt>>

\* Repack: append the blobs to the data file, fdatasync it.
WriteData ==
    /\ pc = "data"
    /\ \/ Goto("append") /\ blobs' = blobs \cup {job.op} /\ Charge(0, 0)
          /\ UNCHANGED <<acked, firm>>
       \/ Fail /\ Charge(0, 1) /\ UNCHANGED blobs
    /\ UNCHANGED <<meta, disk, name, names, hs, doubt>>

\* Defect: a record goes after whatever the file holds.
DefectCut(c) == c

\* The file of the handle cut at its metadata_valid_end.
Cut(c) == [c EXCEPT !.recs = SubSeq(@, 1, Handle.end)]

\* What becomes of the file after a failure: cut again, if that works.
SetRollback(c, lost, ok) ==
    LET f == Handle.file
        m == IF ok THEN Cut(c) ELSE c
    IN  /\ meta' = [meta EXCEPT ![f] = m]
        /\ disk' = [disk EXCEPT ![f] = @ \cup lost \cup {m}]

\* The same with the record after that.
Written(torn) == [Cut(meta[Handle.file]) EXCEPT !.recs =
    Append(@, [seq |-> Handle.seq + 1, op |-> job.op, torn |-> torn])]

\* append_chunk_map_delta_to_fd up to the write: cut off what follows the last
\* committed record, seek there, write.  The write may stop short.
AppendRecord ==
    /\ pc = "append"
    /\ LET f == Handle.file
           lost == {Cut(meta[f]), Written(TRUE)}
       IN  \/ /\ Handle.end > Len(meta[f].recs)
              /\ Fail /\ Charge(0, 0) /\ UNCHANGED <<meta, disk>>
           \/ /\ Handle.end < Len(meta[f].recs)
              /\ \E ok \in {TRUE, ~RollbackFails} :
                     SetRollback(meta[f], {}, ok) /\ Charge(0, IF ok THEN 1 ELSE 2)
              /\ Fail
           \/ /\ Handle.end <= Len(meta[f].recs)
              /\ \E ok \in {TRUE, ~RollbackFails} :
                     SetRollback(Written(TRUE), lost, ok) /\ Charge(0, IF ok THEN 1 ELSE 2)
              /\ Fail
           \/ /\ Handle.end <= Len(meta[f].recs)
              /\ SetRollback(Written(FALSE), lost, FALSE)
              /\ Goto("sync") /\ Charge(0, 0) /\ UNCHANGED <<acked, firm>>
    /\ UNCHANGED <<name, names, blobs, hs, doubt>>

\* The cached map and the valid end move on and the epoch is bumped.
Committing == [Bumped(hs) EXCEPT ![job.h] =
    [Handle EXCEPT !.map = Handle.map \cup {job.op}, !.seq = Handle.seq + 1,
                   !.end = Handle.end + 1, !.seen = TRUE]]

\* ... and its fdatasync, with the rollback of a record that was not synced.
SyncRecord ==
    /\ pc = "sync"
    /\ LET f == Handle.file
       IN  \/ /\ disk' = [disk EXCEPT ![f] = {meta[f]}]
              /\ hs' = Committing
              /\ Goto("checkpoint") /\ Charge(0, 0)
              /\ UNCHANGED <<meta, acked, firm>>
           \/ /\ \E ok \in {TRUE, ~RollbackFails} :
                     SetRollback(meta[f], {}, ok) /\ Charge(0, IF ok THEN 1 ELSE 2)
              /\ Fail /\ UNCHANGED hs
    /\ UNCHANGED <<name, names, blobs, doubt>>

\* metadata_checkpoint_needed: so many records, or so many bytes of records,
\* which may happen earlier.  The operation succeeds whatever happens here.
Checkpoint ==
    /\ pc = "checkpoint"
    /\ \/ /\ Handle.end < CheckpointRecords
          /\ UNCHANGED <<meta, disk, name, names, hs, doubt, count>>
       \/ \E out \in SaveResults, reopen \in BOOLEAN :
              LET s == Save(out, Handle.map, Handle.seq)
                  ok == out = "saved" /\ reopen
              IN  SetSaved(s, Reopened(job.h, s, ok)) /\ Charge(0, IF ok THEN 0 ELSE 1)
    /\ Ack
    /\ UNCHANGED blobs

-----------------------------------------------------------------------------
(***************************************************************************)
(* file.c: operations on the path.                                         *)
(***************************************************************************)

\* Truncate by path, and open with O_TRUNC up to the open itself: load, sync
\* a rewritten chunk, save the whole map, bump the epoch of the storage.
TruncatePath ==
    /\ pc = "idle" /\ Loads(meta[name])
    /\ \E out \in SaveResults :
           LET c == meta[name]
               op == count.ops + 1
               s == Save(out, MapOf(c) \cup {op}, c.seq + Committed(c))
           IN  /\ SetSaved(s, Bumped(hs))
               /\ Charge(1, Failing(out))
               /\ blobs' = blobs \cup {op}
               /\ IF out = "saved" THEN Acknowledge(op) ELSE UNCHANGED <<acked, firm>>
    /\ UNCHANGED <<pc, job>>

\* Open: load the map and register the handle at the current epoch.
Open(h) ==
    /\ pc = "idle" /\ ~hs[h].open /\ Loads(meta[name])
    /\ hs' = [hs EXCEPT ![h] = Loaded([NoHandle EXCEPT !.open = TRUE], name)]
    /\ UNCHANGED <<meta, disk, name, names, blobs, pc, job, acked, firm, doubt, count>>

\* The kernel releases a handle when no callback uses it any more.
Release(h) ==
    /\ pc = "idle" /\ hs[h].open
    /\ SetFiles(meta, disk, names, [hs EXCEPT ![h] = NoHandle])
    /\ UNCHANGED <<name, blobs, pc, job, acked, firm, doubt, count>>

-----------------------------------------------------------------------------
(***************************************************************************)
(* file.c: myfs_read.  Under the cache lock of its handle it reads through *)
(* a current cache and returns, which changes nothing; otherwise it lets   *)
(* go of that lock, refreshes the cache and starts again.                  *)
(***************************************************************************)

\* myfs_refresh_handle_cache_locked, under the path lock.  It loads the map
\* again when the epoch has moved, and only then.
Refresh(h) ==
    /\ pc = "idle" /\ hs[h].open /\ ~Current(h)
    /\ ~hs[h].seen /\ Loads(meta[name])
    /\ SetFiles(meta, disk, names, [hs EXCEPT ![h] = Loaded(@, name)])
    /\ UNCHANGED <<name, blobs, pc, job, acked, firm, doubt, count>>

-----------------------------------------------------------------------------
(***************************************************************************)
(* The end of the daemon.                                                  *)
(***************************************************************************)
Vanish(m, d, ns) ==
    /\ SetFiles(m, d, ns, [h \in Handles |-> NoHandle])
    /\ pc' = "idle" /\ job' = NoJob

\* The daemon is killed and started again; the files stay as they are.  In the
\* middle of an append that is the file cut, or with a part of the record.
Kill ==
    /\ \/ Vanish(meta, disk, names)
       \/ /\ pc = "append" /\ Handle.end <= Len(meta[Handle.file].recs)
          /\ \E m \in {Cut(meta[Handle.file]), Written(TRUE)} :
                 Vanish([meta EXCEPT ![Handle.file] = m],
                        [disk EXCEPT ![Handle.file] = @ \cup {Cut(meta[Handle.file]), m}], names)
    /\ UNCHANGED <<name, blobs, acked, firm, doubt, count>>

\* Power loss leaves any of the possible names and contents.  What was
\* acknowledged and is gone is not asked for again.
PowerLoss ==
    /\ Charge(0, 1)
    /\ \E f \in names : \E c \in disk[f] :
           /\ name' = f
           /\ Vanish([meta EXCEPT ![f] = c], [disk EXCEPT ![f] = {c}], {f})
           /\ acked' = acked \cap MapOf(c)
           /\ firm' = firm \cap MapOf(c)
    /\ doubt' = FALSE
    /\ UNCHANGED blobs

Operation == Convert \/ WriteData \/ AppendRecord \/ SyncRecord \/ Checkpoint

Next ==
    \/ \E h \in Handles : Start(h) \/ Open(h) \/ Release(h) \/ Refresh(h)
    \/ Operation
    \/ TruncatePath
    \/ Kill \/ PowerLoss

Spec == Init /\ [][Next]_vars

\* A callback that has started keeps running, and on every handle somebody
\* reads.
FairSpec ==
    /\ Spec
    /\ WF_vars(Operation)
    /\ \A h \in Handles : WF_vars(Refresh(h))

-----------------------------------------------------------------------------
(***************************************************************************)
(* Properties.                                                             *)
(***************************************************************************)

\* Whatever reached the disk, a power loss leaves a map that loads and holds
\* every operation acknowledged while no directory fsync had failed; the file
\* that has the name now holds every acknowledged one (metadata.c:275-343,
\* 478-484, 517-547, file.c:23-49).
AckedSurvives ==
    \A f \in names : \A c \in disk[f] :
        Loads(c) /\ firm \subseteq MapOf(c) /\ (f = name => acked \subseteq MapOf(c))

\* A handle that would read through its cache without a lock on the path has
\* every acknowledged operation in that cache (file.c:766-802).
CacheCoherent ==
    \A h \in Handles : hs[h].open /\ Current(h) => acked \subseteq hs[h].map

\* Between operations, the descriptor of a current handle is the file that has
\* the name, and the file up to the valid end of the handle is its cached map:
\* what it appends there will be replayed on the same map (file.c:21-49,
\* metadata.c:519-530).
CachePaired ==
    pc = "idle" => \A h \in Handles : hs[h].open /\ Current(h) =>
        LET c == meta[name]
        IN  /\ hs[h].file = name
            /\ hs[h].end <= Committed(c)
            /\ hs[h].map = MapUpTo(c, hs[h].end)
            /\ hs[h].seq = c.seq + hs[h].end

\* A map that a power loss may leave refers to durable blobs only
\* (file.c:1033-1053, README.md:285).
BlobsDurable ==
    \A f \in names : \A c \in disk[f] : MapOf(c) \subseteq blobs

\* A read ends: the loop of myfs_read does not spin on a cache that may not be
\* used and is not loaded again (file.c:571-630, 773-807).
ReadReturns ==
    \A h \in Handles : (hs[h].open /\ ~Current(h)) ~> (hs[h].open => Current(h))
=============================================================================
