------------------------- MODULE MetaJournalProofs -------------------------
(***************************************************************************)
(* Proofs about the map and its journal for any number of handles, files,  *)
(* operations and faults, and any checkpoint interval.                     *)
(***************************************************************************)
EXTENDS MetaJournal, FiniteSetTheorems, SequenceTheorems, TLAPS

\* Every operation that a file mentions, in records that a load does not reach
\* as well.
Mentioned(c) == c.base \cup {c.recs[i].op : i \in 1 .. Len(c.recs)}

\* Files m and what power loss may leave of them, d, mention operations of B.
FilesWithin(m, d, B) ==
    /\ m \in [Files -> Contents] /\ d \in [Files -> SUBSET Contents]
    /\ \A f \in Files : Mentioned(m[f]) \subseteq B
    /\ \A f \in Files : \A c \in d[f] : Mentioned(c) \subseteq B

\* So do the cached maps of the handles H.
HandlesWithin(H, B) ==
    /\ H \in [Handles -> HandleStates]
    /\ \A h \in Handles : H[h].map \subseteq B

\* An operation in progress has a handle and a number.
Busy == pc # "idle" => job \in [h : Handles, op : Ops]

\* Its blobs are durable before its record is written.
DataFirst == pc \in {"append", "sync"} => job.op \in blobs

\* Its record is in the file when it is synced.
RecordWritten == pc = "sync" => hs[job.h].end <= Len(meta[hs[job.h].file].recs)

\* The variables that hold no map.
Plain ==
    /\ name \in names /\ names \subseteq Files
    /\ blobs \subseteq Ops /\ acked \subseteq Ops /\ firm \subseteq acked
    /\ doubt \in BOOLEAN
    /\ pc \in {"idle", "convert", "data", "append", "sync", "checkpoint"}
    /\ job \in {NoJob} \cup [h : Handles, op : Ops]
    /\ count \in [ops : 0 .. MaxOps, faults : 0 .. MaxFaults]

\* The inductive invariant.
IndInv ==
    /\ Plain /\ Busy /\ DataFirst /\ RecordWritten
    /\ FilesWithin(meta, disk, blobs) /\ HandlesWithin(hs, blobs)

-----------------------------------------------------------------------------
(* Files and records.                                                      *)

\* The committed records are the first ones of the journal.
LEMMA CommittedType ==
    ASSUME NEW c \in Contents
    PROVE  Len(c.recs) \in Nat /\ Committed(c) \in 0 .. Len(c.recs)
<1> DEFINE I == {i \in 1 .. Len(c.recs) : \A j \in 1 .. i : ~c.recs[j].torn}
<1>1. Len(c.recs) \in Nat
  BY LenProperties DEF Contents
<1>2. IsFiniteSet(1 .. Len(c.recs)) /\ Cardinality(1 .. Len(c.recs)) = Len(c.recs)
  BY <1>1, FS_Interval
<1>3. IsFiniteSet(I) /\ Cardinality(I) <= Len(c.recs)
  BY <1>2, FS_Subset
<1>4. Cardinality(I) \in Nat
  BY <1>3, FS_CardinalityType
<1>5. Committed(c) = Cardinality(I)
  BY DEF Committed
<1>6. QED
  BY <1>1, <1>3, <1>4, <1>5

\* A map that is loaded is a part of what the file mentions.
LEMMA MapMentioned ==
    ASSUME NEW c \in Contents
    PROVE  MapOf(c) \subseteq Mentioned(c)
  BY CommittedType DEF MapOf, MapUpTo, Mentioned

\* What a file mentions are operations.
LEMMA MentionedOps ==
    ASSUME NEW c \in Contents
    PROVE  Mentioned(c) \subseteq Ops
<1>1. c.base \subseteq Ops /\ c.recs \in Seq(Records)
  BY DEF Contents
<1>2. \A i \in 1 .. Len(c.recs) : c.recs[i] \in Records
  BY <1>1, ElementOfSeq
<1>3. QED
  BY <1>1, <1>2 DEF Mentioned, Records

\* The file that a save writes mentions the operations of the map.
LEMMA WholeMapContents ==
    ASSUME NEW map \in SUBSET Ops, NEW n \in Nat
    PROVE  WholeMap(map, n) \in Contents /\ Mentioned(WholeMap(map, n)) = map
<1>1. <<>> \in Seq(Records) /\ Len(<<>>) = 0
  BY EmptySeq
<1>2. QED
  BY <1>1 DEF WholeMap, Contents, Mentioned

\* An empty file mentions nothing.
LEMMA BlankContents == Blank \in Contents /\ Mentioned(Blank) = {}
  BY WholeMapContents DEF Blank

\* A file that is cut mentions nothing new.
LEMMA CutContents ==
    ASSUME NEW c \in Contents, NEW n \in Nat, n <= Len(c.recs)
    PROVE  LET d == [c EXCEPT !.recs = SubSeq(@, 1, n)]
           IN  d \in Contents /\ Len(d.recs) = n /\ Mentioned(d) \subseteq Mentioned(c)
<1> DEFINE d == [c EXCEPT !.recs = SubSeq(@, 1, n)]
           s == SubSeq(c.recs, 1, n)
<1>1. c.recs \in Seq(Records) /\ Len(c.recs) \in Nat
  BY CommittedType DEF Contents
<1>2. \A i \in 1 .. n : c.recs[i] \in Records
  BY <1>1, ElementOfSeq
<1>3. s \in Seq(Records) /\ Len(s) = n /\ \A i \in 1 .. n : s[i] = c.recs[i]
  <2>1. /\ s \in Seq(Records)
        /\ Len(s) = IF 1 <= n THEN n - 1 + 1 ELSE 0
        /\ \A i \in 1 .. n - 1 + 1 : s[i] = c.recs[1 + i - 1]
    BY <1>2, SubSeqProperties
  <2>2. QED
    BY <2>1
<1>4. d.recs = s /\ d.base = c.base /\ d.seq = c.seq /\ d.legacy = c.legacy
  BY DEF Contents
<1>5. d \in Contents
  BY <1>3 DEF Contents
<1>6. Mentioned(d) \subseteq Mentioned(c)
  BY <1>1, <1>3, <1>4 DEF Mentioned
<1>7. QED
  BY <1>3, <1>4, <1>5, <1>6

\* A file with one more record mentions the operation of that record.
LEMMA AppendContents ==
    ASSUME NEW B, NEW c \in Contents, Mentioned(c) \subseteq B, NEW r \in Records, r.op \in B
    PROVE  LET d == [c EXCEPT !.recs = Append(@, r)]
           IN  /\ d \in Contents /\ Mentioned(d) \subseteq B
               /\ Len(d.recs) = Len(c.recs) + 1
<1> DEFINE s == Append(c.recs, r)
           d == [c EXCEPT !.recs = s]
<1>1. c.recs \in Seq(Records) /\ Len(c.recs) \in Nat
  BY CommittedType DEF Contents
<1>2. /\ s \in Seq(Records) /\ Len(s) = Len(c.recs) + 1 /\ s[Len(c.recs) + 1] = r
      /\ \A i \in 1 .. Len(c.recs) : s[i] = c.recs[i]
  BY <1>1, AppendProperties
<1> HIDE DEF s
<1>3. d.recs = s /\ d.base = c.base /\ d \in Contents
  BY <1>2 DEF Contents
<1> HIDE DEF d
<1>4. Mentioned(d) \subseteq B
  <2> SUFFICES ASSUME NEW x \in Mentioned(d) PROVE x \in B
    OBVIOUS
  <2>1. CASE x \in d.base
    BY <2>1, <1>3 DEF Mentioned
  <2>2. ASSUME NEW i \in 1 .. Len(d.recs), x = d.recs[i].op PROVE x \in B
    <3>1. CASE i \in 1 .. Len(c.recs)
      BY <3>1, <2>2, <1>2, <1>3 DEF Mentioned
    <3>2. CASE i = Len(c.recs) + 1
      BY <3>2, <2>2, <1>2, <1>3
    <3>3. QED
      BY <1>1, <1>2, <1>3, <2>2, <3>1, <3>2
  <2>3. QED
    BY <2>1, <2>2 DEF Mentioned
<1>5. QED
  BY <1>2, <1>3, <1>4 DEF d, s

-----------------------------------------------------------------------------
(* Handles.                                                                *)

\* A handle that loads a file of those within B caches a map within B.
LEMMA LoadedHandle ==
    ASSUME NEW B, FilesWithin(meta, disk, B), NEW h \in HandleStates, NEW f \in Files
    PROVE  /\ Loaded(h, f) \in HandleStates
           /\ Loaded(h, f).map \subseteq B
           /\ Loaded(h, f).open = h.open
<1>1. meta[f] \in Contents /\ Mentioned(meta[f]) \subseteq B
  BY DEF FilesWithin
<1>2. MapOf(meta[f]) \subseteq B /\ MapOf(meta[f]) \subseteq Ops
  BY <1>1, MapMentioned, MentionedOps
<1>3. Committed(meta[f]) \in Nat /\ meta[f].seq \in Nat /\ meta[f].legacy \in BOOLEAN
  BY <1>1, CommittedType DEF Contents
<1> DEFINE m == MapOf(meta[f])
           l == meta[f].legacy
           q == meta[f].seq + Committed(meta[f])
           e == Committed(meta[f])
<1>4. Loaded(h, f) = [h EXCEPT !.file = f, !.map = m, !.legacy = l, !.seq = q,
                               !.end = e, !.valid = TRUE, !.seen = TRUE]
  BY DEF Loaded
<1>5. m \in SUBSET Ops /\ m \subseteq B /\ l \in BOOLEAN /\ q \in Nat /\ e \in Nat
  BY <1>2, <1>3
<1> HIDE DEF m, l, q, e
<1>6. Loaded(h, f) \in HandleStates
  BY <1>4, <1>5 DEF HandleStates
<1>7. Loaded(h, f).map = m /\ Loaded(h, f).open = h.open
  BY <1>4 DEF HandleStates
<1>8. QED
  BY <1>5, <1>6, <1>7

\* A bumped epoch leaves the cached maps.
LEMMA BumpedHandles ==
    ASSUME NEW B, NEW H, HandlesWithin(H, B)
    PROVE  HandlesWithin(Bumped(H), B)
  BY DEF HandlesWithin, Bumped, HandleStates

\* So does a reopened file.
LEMMA ReopenedHandles ==
    ASSUME NEW B, HandlesWithin(hs, B), NEW h \in Handles, NEW s, s.name \in Files,
           NEW ok \in BOOLEAN
    PROVE  HandlesWithin(Reopened(h, s, ok), B)
<1> DEFINE H == Bumped(hs)
<1>1. HandlesWithin(H, B)
  BY BumpedHandles
<1>2. H[h] \in HandleStates /\ H[h].map \subseteq B
  BY <1>1 DEF HandlesWithin
<1> DEFINE good == [H[h] EXCEPT !.file = s.name, !.end = 0, !.legacy = FALSE, !.seen = TRUE]
           bad == [H[h] EXCEPT !.valid = FALSE]
<1>3. good \in HandleStates /\ good.map = H[h].map
  BY <1>2 DEF HandleStates
<1>4. bad \in HandleStates /\ bad.map = H[h].map
  BY <1>2 DEF HandleStates
<1>5. Reopened(h, s, ok) = IF ok THEN [H EXCEPT ![h] = good] ELSE [H EXCEPT ![h] = bad]
  BY DEF Reopened
<1> HIDE DEF H, good, bad
<1>6. QED
  BY <1>1, <1>2, <1>3, <1>4, <1>5 DEF HandlesWithin

-----------------------------------------------------------------------------
(* The parts of a step.                                                    *)

\* More durable blobs do no harm.
LEMMA MoreBlobs ==
    ASSUME NEW B, NEW D, B \subseteq D,
           FilesWithin(meta, disk, B), HandlesWithin(hs, B)
    PROVE  FilesWithin(meta, disk, D) /\ HandlesWithin(hs, D)
  BY DEF FilesWithin, HandlesWithin

\* A charge stays within the bounds.
LEMMA ChargeType ==
    ASSUME count \in [ops : 0 .. MaxOps, faults : 0 .. MaxFaults],
           NEW o \in Nat, NEW n \in Nat, Charge(o, n)
    PROVE  count' \in [ops : 0 .. MaxOps, faults : 0 .. MaxFaults]
<1>1. count.ops + o \in 0 .. MaxOps /\ count.faults + n \in 0 .. MaxFaults
  BY ConstantsAssumption DEF Charge
<1>2. QED
  BY <1>1 DEF Charge

\* Inodes that are freed mention nothing.
LEMMA SetFilesWithin ==
    ASSUME NEW B, NEW m, NEW d, FilesWithin(m, d, B), NEW ns, NEW H, SetFiles(m, d, ns, H)
    PROVE  FilesWithin(meta', disk', B) /\ names' = ns /\ hs' = H
<1>1. \A f \in Files : meta'[f] \in {m[f], Blank} /\ disk'[f] \in {d[f], {Blank}}
  BY DEF SetFiles
<1>2. meta' \in [Files -> Contents]
  BY BlankContents DEF SetFiles, FilesWithin
<1>3. disk' \in [Files -> SUBSET Contents]
  BY BlankContents DEF SetFiles, FilesWithin
<1>4. \A f \in Files : Mentioned(meta'[f]) \subseteq B
  BY <1>1, BlankContents DEF FilesWithin
<1>5. \A f \in Files : \A c \in disk'[f] : Mentioned(c) \subseteq B
  BY <1>1, BlankContents DEF FilesWithin
<1>6. QED
  BY <1>2, <1>3, <1>4, <1>5 DEF SetFiles, FilesWithin

\* A save writes a file that mentions the map it saves.
LEMMA SaveWithin ==
    ASSUME NEW B, FilesWithin(meta, disk, B), Plain,
           NEW out, NEW map \in SUBSET Ops, map \subseteq B, NEW n \in Nat,
           Save(out, map, n).name \in Files
    PROVE  LET s == Save(out, map, n)
           IN  /\ FilesWithin(s.meta, s.disk, B)
               /\ s.name \in s.names /\ s.names \subseteq Files /\ s.doubt \in BOOLEAN
<1> DEFINE s == Save(out, map, n)
           c == WholeMap(map, n)
           m == [meta EXCEPT ![Fresh] = c]
           d == [disk EXCEPT ![Fresh] = {c}]
<1>1. CASE out = "tmp"
  BY <1>1 DEF Save, Plain
<1>2. CASE out # "tmp"
  <2>1. /\ s.meta = m /\ s.disk = d /\ s.name = Fresh
        /\ s.names \in {names \cup {Fresh}, {Fresh}} /\ s.doubt \in BOOLEAN
    BY <1>2 DEF Save
  <2>2. Fresh \in Files
    BY <2>1
  <2>3. c \in Contents /\ Mentioned(c) = map
    BY WholeMapContents
  <2> HIDE DEF c
  <2>4. FilesWithin(m, d, B)
    BY <2>2, <2>3 DEF FilesWithin
  <2>5. QED
    BY <2>1, <2>2, <2>4 DEF Plain
<1>3. QED
  BY <1>1, <1>2

\* What a save leaves.
LEMMA SavedWithin ==
    ASSUME NEW B, FilesWithin(meta, disk, B), Plain,
           NEW out, NEW map \in SUBSET Ops, map \subseteq B, NEW n \in Nat,
           NEW H, SetSaved(Save(out, map, n), H)
    PROVE  /\ FilesWithin(meta', disk', B) /\ hs' = H
           /\ name' \in names' /\ names' \subseteq Files /\ doubt' \in BOOLEAN
<1> DEFINE s == Save(out, map, n)
<1>1. /\ s.name \in Files
      /\ SetFiles(s.meta, s.disk, s.names, H) /\ name' = s.name /\ doubt' = s.doubt
  BY DEF SetSaved
<1>2. /\ FilesWithin(s.meta, s.disk, B)
      /\ s.name \in s.names /\ s.names \subseteq Files /\ s.doubt \in BOOLEAN
  BY <1>1, SaveWithin
<1> HIDE DEF s
<1>3. FilesWithin(meta', disk', B) /\ names' = s.names /\ hs' = H
  BY <1>1, <1>2, SetFilesWithin
<1>4. QED
  BY <1>1, <1>2, <1>3

\* A rollback, and a write without one, leave files that mention what was there
\* and what was written.
LEMMA RollbackWithin ==
    ASSUME NEW B, FilesWithin(meta, disk, B), HandlesWithin(hs, B), job.h \in Handles,
           NEW c \in Contents, Mentioned(c) \subseteq B, Handle.end <= Len(c.recs),
           NEW lost \in SUBSET Contents, \A x \in lost : Mentioned(x) \subseteq B,
           NEW ok \in BOOLEAN, SetRollback(c, lost, ok)
    PROVE  FilesWithin(meta', disk', B)
<1> DEFINE f == Handle.file
           m == IF ok THEN Cut(c) ELSE c
<1>1. f \in Files /\ Handle.end \in Nat
  BY DEF HandlesWithin, HandleStates, Handle
<1>2. Cut(c) \in Contents /\ Mentioned(Cut(c)) \subseteq B
  BY <1>1, CutContents DEF Cut
<1>3. m \in Contents /\ Mentioned(m) \subseteq B
  BY <1>2
<1>4. meta' = [meta EXCEPT ![f] = m] /\ disk' = [disk EXCEPT ![f] = @ \cup lost \cup {m}]
  BY DEF SetRollback
<1> HIDE DEF f, m
<1>5. QED
  BY <1>1, <1>3, <1>4 DEF FilesWithin

-----------------------------------------------------------------------------
(* Every step preserves the invariant, one lemma for each action.          *)

\* A file that create left mentions no operation.
LEMMA InitInv == Init => IndInv
<1> SUFFICES ASSUME Init PROVE IndInv
  OBVIOUS
<1>1. PICK old \in BOOLEAN :
          meta = [f \in Files |-> [Blank EXCEPT !.legacy = (old /\ f = 0)]]
  BY DEF Init
<1> DEFINE c(l) == [Blank EXCEPT !.legacy = l]
<1>2. ASSUME NEW l \in BOOLEAN PROVE c(l) \in Contents /\ Mentioned(c(l)) = {}
  <2>1. c(l).base = {} /\ c(l).seq = 0 /\ c(l).recs = <<>> /\ c(l) \in Contents
    BY BlankContents DEF Blank, WholeMap, Contents
  <2>2. Len(<<>>) = 0
    BY EmptySeq
  <2>3. QED
    BY <2>1, <2>2 DEF Mentioned
<1>3. \A f \in Files : meta[f] = c(old /\ f = 0) /\ disk[f] = {meta[f]}
  BY <1>1 DEF Init
<1> HIDE DEF c
<1>4. FilesWithin(meta, disk, blobs)
  <2>1. \A f \in Files : meta[f] \in Contents /\ Mentioned(meta[f]) = {}
    BY <1>2, <1>3
  <2>2. meta \in [Files -> Contents] /\ disk \in [Files -> SUBSET Contents]
    BY <1>1, <1>3, <2>1 DEF Init
  <2>3. QED
    BY <1>3, <2>1, <2>2 DEF FilesWithin
<1>5. HandlesWithin(hs, blobs)
  BY ConstantsAssumption DEF Init, HandlesWithin, HandleStates, NoHandle
<1>6. Plain
  <2>1. count \in [ops : 0 .. MaxOps, faults : 0 .. MaxFaults]
    BY ConstantsAssumption DEF Init
  <2>2. name \in names /\ names \subseteq Files
    BY ConstantsAssumption DEF Init
  <2>3. QED
    BY <2>1, <2>2 DEF Init, Plain
<1>7. QED
  BY <1>4, <1>5, <1>6 DEF Init, IndInv, Busy, DataFirst, RecordWritten

\* A start may load the map; it writes nothing (file.c:571-630, 1091-1112).
LEMMA StartInv == ASSUME IndInv, NEW h \in Handles, Start(h) PROVE IndInv'
<1> DEFINE H == IF Current(h) THEN hs ELSE [hs EXCEPT ![h] = Loaded(hs[h], name)]
<1>1. /\ SetFiles(meta, disk, names, H) /\ pc' \in {"convert", "data"}
      /\ job' = [h |-> h, op |-> count.ops + 1] /\ Charge(1, 0)
      /\ UNCHANGED <<name, blobs, acked, firm, doubt>>
  BY DEF Start
<1>2. HandlesWithin(H, blobs)
  <2>1. name \in Files /\ hs[h] \in HandleStates
    BY DEF IndInv, Plain, HandlesWithin
  <2>2. Loaded(hs[h], name) \in HandleStates /\ Loaded(hs[h], name).map \subseteq blobs
    BY <2>1, LoadedHandle DEF IndInv
  <2>3. QED
    BY <2>2 DEF IndInv, HandlesWithin
<1> HIDE DEF H
<1>3. FilesWithin(meta', disk', blobs) /\ names' = names /\ hs' = H
  BY <1>1, SetFilesWithin DEF IndInv
<1>4. count' \in [ops : 0 .. MaxOps, faults : 0 .. MaxFaults]
  BY <1>1, ChargeType DEF IndInv, Plain
<1>5. job' \in [h : Handles, op : Ops]
  BY <1>1, ConstantsAssumption DEF IndInv, Plain, Charge, Ops
<1>6. Plain'
  BY <1>1, <1>3, <1>4, <1>5 DEF IndInv, Plain
<1>7. QED
  BY <1>1, <1>2, <1>3, <1>5, <1>6 DEF IndInv, Busy, DataFirst, RecordWritten

\* The map of a busy handle can be saved.
LEMMA BusyHandle ==
    ASSUME IndInv, pc # "idle"
    PROVE  /\ job \in [h : Handles, op : Ops] /\ Handle \in HandleStates
           /\ Handle.map \subseteq Ops /\ Handle.map \subseteq blobs
           /\ Handle.seq \in Nat /\ Handle.end \in Nat /\ Handle.file \in Files
  BY DEF IndInv, Busy, HandlesWithin, HandleStates, Handle

\* What an operation leaves that replaces the file under its handle.
LEMMA ReplacedWithin ==
    ASSUME IndInv, pc # "idle", NEW out, NEW s, s = Save(out, Handle.map, Handle.seq),
           NEW ok \in BOOLEAN, SetSaved(s, Reopened(job.h, s, ok)),
           Charge(0, IF ok THEN 0 ELSE 1)
    PROVE  /\ FilesWithin(meta', disk', blobs) /\ HandlesWithin(hs', blobs)
           /\ name' \in names' /\ names' \subseteq Files /\ doubt' \in BOOLEAN
           /\ count' \in [ops : 0 .. MaxOps, faults : 0 .. MaxFaults]
<1>1. /\ FilesWithin(meta', disk', blobs) /\ hs' = Reopened(job.h, s, ok)
      /\ name' \in names' /\ names' \subseteq Files /\ doubt' \in BOOLEAN
  BY BusyHandle, SavedWithin DEF IndInv
<1>2. s.name \in Files
  BY DEF SetSaved
<1>3. HandlesWithin(hs', blobs)
  BY <1>1, <1>2, BusyHandle, ReopenedHandles DEF IndInv
<1>4. count' \in [ops : 0 .. MaxOps, faults : 0 .. MaxFaults]
  BY ChargeType DEF IndInv, Plain
<1>5. QED
  BY <1>1, <1>3, <1>4

\* A conversion writes the cached map.
LEMMA ConvertInv == ASSUME IndInv, Convert PROVE IndInv'
<1>1. PICK out \in SaveResults, reopen \in BOOLEAN :
          LET s == Save(out, Handle.map, Handle.seq)
              ok == out = "saved" /\ reopen
          IN  /\ SetSaved(s, Reopened(job.h, s, ok))
              /\ Charge(0, IF ok THEN 0 ELSE 1)
              /\ IF ok THEN Goto("data") /\ UNCHANGED <<acked, firm>> ELSE Fail
  BY DEF Convert
<1> DEFINE s == Save(out, Handle.map, Handle.seq)
           ok == out = "saved" /\ reopen
<1>2. pc = "convert" /\ UNCHANGED blobs
  BY DEF Convert
<1>3. /\ ok \in BOOLEAN /\ SetSaved(s, Reopened(job.h, s, ok))
      /\ Charge(0, IF ok THEN 0 ELSE 1)
      /\ IF ok THEN Goto("data") /\ UNCHANGED <<acked, firm>> ELSE Fail
  BY <1>1
<1>4. s = Save(out, Handle.map, Handle.seq)
  OBVIOUS
<1> HIDE DEF s, ok
<1>5. /\ FilesWithin(meta', disk', blobs) /\ HandlesWithin(hs', blobs)
      /\ name' \in names' /\ names' \subseteq Files /\ doubt' \in BOOLEAN
      /\ count' \in [ops : 0 .. MaxOps, faults : 0 .. MaxFaults]
  BY <1>2, <1>3, <1>4, ReplacedWithin
<1>6. /\ pc' \in {"idle", "data"} /\ job' \in {job, NoJob}
      /\ pc' = "data" => job' = job
      /\ UNCHANGED <<acked, firm>>
  BY <1>3 DEF Goto, Fail
<1>7. QED
  BY <1>2, <1>5, <1>6, BusyHandle DEF IndInv, Plain, Busy, DataFirst, RecordWritten

\* The blobs are durable when the data phase ends.
LEMMA WriteDataInv == ASSUME IndInv, WriteData PROVE IndInv'
<1>1. /\ pc = "data" /\ UNCHANGED <<meta, disk, name, names, hs, doubt, acked, firm>>
      /\ \/ pc' = "append" /\ UNCHANGED job /\ blobs' = blobs \cup {job.op} /\ Charge(0, 0)
         \/ pc' = "idle" /\ job' = NoJob /\ UNCHANGED blobs /\ Charge(0, 1)
  BY DEF WriteData, Goto, Fail
<1>2. count' \in [ops : 0 .. MaxOps, faults : 0 .. MaxFaults]
  BY <1>1, ChargeType DEF IndInv, Plain
<1>3. job.op \in Ops
  BY <1>1, BusyHandle
<1>4. blobs \subseteq blobs' /\ blobs' \subseteq Ops
  BY <1>1, <1>3 DEF IndInv, Plain
<1>5. FilesWithin(meta', disk', blobs') /\ HandlesWithin(hs', blobs')
  BY <1>1, <1>4, MoreBlobs DEF IndInv
<1>6. Plain'
  BY <1>1, <1>2, <1>4 DEF IndInv, Plain
<1>7. Busy' /\ DataFirst' /\ RecordWritten'
  BY <1>1 DEF IndInv, Busy, DataFirst, RecordWritten
<1>8. QED
  BY <1>5, <1>6, <1>7 DEF IndInv

\* The file cut at the valid end of the handle, with and without the record of
\* the operation.
LEMMA WrittenContents ==
    ASSUME IndInv, pc = "append", Handle.end <= Len(meta[Handle.file].recs), NEW torn \in BOOLEAN
    PROVE  LET c == Cut(meta[Handle.file])
           IN  /\ c \in Contents /\ Mentioned(c) \subseteq blobs /\ Len(c.recs) = Handle.end
               /\ Written(torn) \in Contents /\ Mentioned(Written(torn)) \subseteq blobs
               /\ Len(Written(torn).recs) = Handle.end + 1
<1> DEFINE f == Handle.file
           c == Cut(meta[f])
           r == [seq |-> Handle.seq + 1, op |-> job.op, torn |-> torn]
           d == [c EXCEPT !.recs = Append(@, r)]
<1>1. meta[f] \in Contents /\ Mentioned(meta[f]) \subseteq blobs /\ Handle.end \in Nat
  BY BusyHandle DEF IndInv, FilesWithin
<1>2. job.op \in blobs /\ job.op \in Ops
  BY BusyHandle DEF IndInv, DataFirst
<1>3. c \in Contents /\ Mentioned(c) \subseteq blobs /\ Len(c.recs) = Handle.end
  BY <1>1, CutContents DEF Cut
<1>4. r \in Records /\ r.op \in blobs
  BY <1>2, BusyHandle DEF Records
<1>5. Written(torn) = d
  BY DEF Written
<1> HIDE DEF c, r
<1>6. d \in Contents /\ Mentioned(d) \subseteq blobs /\ Len(d.recs) = Len(c.recs) + 1
  BY <1>3, <1>4, AppendContents
<1> HIDE DEF d
<1>7. QED
  BY <1>3, <1>5, <1>6 DEF c

\* The record that is written refers to the durable blob of the operation.
LEMMA AppendRecordInv == ASSUME IndInv, AppendRecord PROVE IndInv'
<1> DEFINE f == Handle.file
           c == Cut(meta[f])
           lost == {c, Written(TRUE)}
<1>1. pc = "append" /\ UNCHANGED <<name, names, blobs, hs, doubt>>
  BY DEF AppendRecord
<1>2. meta[f] \in Contents /\ Mentioned(meta[f]) \subseteq blobs /\ Handle.end \in Nat
      /\ Len(meta[f].recs) \in Nat
  BY <1>1, BusyHandle, CommittedType DEF IndInv, FilesWithin
<1>3. job.op \in blobs /\ job.op \in Ops
  BY <1>1, BusyHandle DEF IndInv, DataFirst
<1>4. ASSUME Handle.end <= Len(meta[f].recs)
      PROVE  c \in Contents /\ Mentioned(c) \subseteq blobs /\ Len(c.recs) = Handle.end
  BY <1>1, <1>4, WrittenContents
<1>5. ASSUME Handle.end <= Len(meta[f].recs), NEW torn \in BOOLEAN
      PROVE  /\ Written(torn) \in Contents /\ Mentioned(Written(torn)) \subseteq blobs
             /\ Len(Written(torn).recs) = Handle.end + 1
  BY <1>1, <1>5, WrittenContents
<1>0. \A ok \in {TRUE, ~RollbackFails} : ok \in BOOLEAN
  BY ConstantsAssumption
<1>6. \/ /\ Handle.end > Len(meta[f].recs)
         /\ Fail /\ Charge(0, 0) /\ UNCHANGED <<meta, disk>>
      \/ /\ Handle.end < Len(meta[f].recs)
         /\ \E ok \in {TRUE, ~RollbackFails} :
                SetRollback(meta[f], {}, ok) /\ Charge(0, IF ok THEN 1 ELSE 2)
         /\ Fail
      \/ /\ Handle.end <= Len(meta[f].recs)
         /\ \E ok \in {TRUE, ~RollbackFails} :
                SetRollback(Written(TRUE), lost, ok) /\ Charge(0, IF ok THEN 1 ELSE 2)
         /\ Fail
      \/ /\ Handle.end <= Len(meta[f].recs)
         /\ SetRollback(Written(FALSE), lost, FALSE)
         /\ Goto("sync") /\ Charge(0, 0) /\ UNCHANGED <<acked, firm>>
  BY DEF AppendRecord
<1> HIDE DEF f, c
<1>7. job.h \in Handles /\ HandlesWithin(hs, blobs) /\ FilesWithin(meta, disk, blobs)
  BY <1>1, BusyHandle DEF IndInv
<1>8. FilesWithin(meta', disk', blobs)
  <2>1. CASE UNCHANGED <<meta, disk>>
    BY <2>1, <1>7
  <2>2. ASSUME NEW ok \in BOOLEAN, SetRollback(meta[f], {}, ok),
               Handle.end < Len(meta[f].recs)
        PROVE  FilesWithin(meta', disk', blobs)
    BY <1>2, <1>7, <2>2, RollbackWithin
  <2>3. ASSUME NEW ok \in BOOLEAN, NEW torn \in BOOLEAN, SetRollback(Written(torn), lost, ok),
               Handle.end <= Len(meta[f].recs)
        PROVE  FilesWithin(meta', disk', blobs)
    <3>1. /\ lost \in SUBSET Contents /\ \A x \in lost : Mentioned(x) \subseteq blobs
      BY <1>4, <1>5, <2>3
    <3>2. /\ Written(torn) \in Contents /\ Mentioned(Written(torn)) \subseteq blobs
          /\ Handle.end <= Len(Written(torn).recs)
      BY <1>2, <1>5, <2>3
    <3>3. QED
      BY <1>7, <2>3, <3>1, <3>2, RollbackWithin
  <2>4. QED
    BY <1>6, <1>0, <2>1, <2>2, <2>3
<1>9. count' \in [ops : 0 .. MaxOps, faults : 0 .. MaxFaults]
  <2>1. \E n \in Nat : Charge(0, n)
    BY <1>6
  <2>2. QED
    BY <2>1, ChargeType DEF IndInv, Plain
<1>10. /\ UNCHANGED <<acked, firm>>
       /\ \/ pc' = "idle" /\ job' = NoJob
          \/ pc' = "sync" /\ job' = job
  BY <1>6 DEF Fail, Goto
<1>11. RecordWritten'
  <2> SUFFICES ASSUME pc' = "sync" PROVE hs'[job'.h].end <= Len(meta'[hs'[job'.h].file].recs)
    BY DEF RecordWritten
  <2>1. SetRollback(Written(FALSE), lost, FALSE) /\ job' = job
        /\ Handle.end <= Len(meta[f].recs)
    BY <1>6 DEF Fail, Goto
  <2>2. meta'[f] = Written(FALSE)
    BY <1>7, <2>1, <1>1, BusyHandle DEF SetRollback, FilesWithin, f
  <2>3. Len(Written(FALSE).recs) = Handle.end + 1
    BY <1>5, <2>1
  <2>4. hs'[job'.h] = Handle /\ hs'[job'.h].file = f
    BY <1>1, <2>1 DEF Handle, f
  <2>5. Len(meta'[f].recs) = Handle.end + 1
    BY <2>2, <2>3
  <2>6. hs'[job'.h].end = Handle.end
    BY <2>4
  <2>7. hs'[job'.h].end <= Len(meta'[f].recs)
    BY <1>2, <2>5, <2>6
  <2>8. QED
    BY <2>4, <2>7
<1>12. Plain' /\ Busy' /\ DataFirst'
  BY <1>1, <1>9, <1>10 DEF IndInv, Plain, Busy, DataFirst
<1>13. QED
  BY <1>1, <1>7, <1>8, <1>11, <1>12 DEF IndInv

\* A synced record enters the cache, an unsynced one is cut off again.
LEMMA SyncRecordInv == ASSUME IndInv, SyncRecord PROVE IndInv'
<1> DEFINE f == Handle.file
<1>1. pc = "sync" /\ UNCHANGED <<name, names, blobs, doubt>>
  BY DEF SyncRecord
<1>2. /\ job \in [h : Handles, op : Ops] /\ f \in Files /\ job.op \in blobs /\ job.op \in Ops
      /\ meta[f] \in Contents /\ Mentioned(meta[f]) \subseteq blobs
      /\ Handle.end <= Len(meta[f].recs)
  BY <1>1, BusyHandle DEF IndInv, FilesWithin, DataFirst, RecordWritten, Handle
<1>3. ASSUME disk' = [disk EXCEPT ![f] = {meta[f]}], hs' = Committing,
             Goto("checkpoint"), Charge(0, 0), UNCHANGED <<meta, acked, firm>>
      PROVE  IndInv'
  <2>1. FilesWithin(meta', disk', blobs')
    BY <1>1, <1>2, <1>3 DEF IndInv, FilesWithin
  <2>2. HandlesWithin(hs', blobs')
    <3> DEFINE H == Bumped(hs)
               g == [Handle EXCEPT !.map = Handle.map \cup {job.op}, !.seq = Handle.seq + 1,
                                   !.end = Handle.end + 1, !.seen = TRUE]
    <3>1. HandlesWithin(H, blobs)
      BY BumpedHandles DEF IndInv
    <3>2. hs' = [H EXCEPT ![job.h] = g]
      BY <1>3 DEF Committing
    <3>3. g \in HandleStates /\ g.map \subseteq blobs
      <4> DEFINE m == Handle.map \cup {job.op}
                 q == Handle.seq + 1
                 e == Handle.end + 1
      <4>1. m \in SUBSET Ops /\ m \subseteq blobs /\ q \in Nat /\ e \in Nat
        BY <1>1, <1>2, BusyHandle
      <4>2. Handle \in HandleStates
        BY <1>1, BusyHandle
      <4> DEFINE k == [Handle EXCEPT !.map = m, !.seq = q, !.end = e, !.seen = TRUE]
      <4>3. g = k
        OBVIOUS
      <4> HIDE DEF g, m, q, e
      <4>4. k \in HandleStates /\ k.map = m
        BY <4>1, <4>2 DEF HandleStates
      <4>5. QED
        BY <4>1, <4>3, <4>4
    <3> HIDE DEF H, g
    <3>4. QED
      BY <1>1, <1>2, <3>1, <3>2, <3>3 DEF HandlesWithin
  <2>3. count' \in [ops : 0 .. MaxOps, faults : 0 .. MaxFaults]
    BY <1>3, ChargeType DEF IndInv, Plain
  <2>4. pc' = "checkpoint" /\ job' = job
    BY <1>3 DEF Goto
  <2>5. QED
    BY <1>1, <1>2, <1>3, <2>1, <2>2, <2>3, <2>4
    DEF IndInv, Plain, Busy, DataFirst, RecordWritten
<1>4. ASSUME NEW ok \in BOOLEAN, SetRollback(meta[f], {}, ok),
             Charge(0, IF ok THEN 1 ELSE 2), Fail, UNCHANGED hs
      PROVE  IndInv'
  <2>1. FilesWithin(meta', disk', blobs)
    BY <1>2, <1>4, RollbackWithin DEF IndInv
  <2>2. count' \in [ops : 0 .. MaxOps, faults : 0 .. MaxFaults]
    BY <1>4, ChargeType DEF IndInv, Plain
  <2>3. pc' = "idle" /\ job' = NoJob /\ UNCHANGED <<acked, firm>>
    BY <1>4 DEF Fail
  <2>4. QED
    BY <1>1, <1>4, <2>1, <2>2, <2>3
    DEF IndInv, Plain, Busy, DataFirst, RecordWritten
<1>5. \A ok \in {TRUE, ~RollbackFails} : ok \in BOOLEAN
  BY ConstantsAssumption
<1>6. QED
  BY <1>3, <1>4, <1>5 DEF SyncRecord

\* An acknowledged operation is an operation.
LEMMA AcknowledgeType ==
    ASSUME acked \subseteq Ops, firm \subseteq acked, NEW o \in Ops, Acknowledge(o)
    PROVE  acked' \subseteq Ops /\ firm' \subseteq acked'
  BY DEF Acknowledge

\* A checkpoint writes the cached map, whose blobs are durable.
LEMMA CheckpointInv == ASSUME IndInv, Checkpoint PROVE IndInv'
<1>1. pc = "checkpoint" /\ Ack /\ UNCHANGED blobs
  BY DEF Checkpoint
<1>2. pc' = "idle" /\ job' = NoJob /\ acked' \subseteq Ops /\ firm' \subseteq acked'
  BY <1>1, BusyHandle, AcknowledgeType DEF Ack, IndInv, Plain
<1>3. /\ FilesWithin(meta', disk', blobs) /\ HandlesWithin(hs', blobs)
      /\ name' \in names' /\ names' \subseteq Files /\ doubt' \in BOOLEAN
      /\ count' \in [ops : 0 .. MaxOps, faults : 0 .. MaxFaults]
  <2>1. CASE UNCHANGED <<meta, disk, name, names, hs, doubt, count>>
    BY <2>1 DEF IndInv, Plain
  <2>2. CASE \E out \in SaveResults, reopen \in BOOLEAN :
                LET s == Save(out, Handle.map, Handle.seq)
                    ok == out = "saved" /\ reopen
                IN  SetSaved(s, Reopened(job.h, s, ok)) /\ Charge(0, IF ok THEN 0 ELSE 1)
    <3>1. PICK out \in SaveResults, reopen \in BOOLEAN :
              LET s == Save(out, Handle.map, Handle.seq)
                  ok == out = "saved" /\ reopen
              IN  SetSaved(s, Reopened(job.h, s, ok)) /\ Charge(0, IF ok THEN 0 ELSE 1)
      BY <2>2
    <3> DEFINE s == Save(out, Handle.map, Handle.seq)
               ok == out = "saved" /\ reopen
    <3>2. /\ ok \in BOOLEAN /\ s = Save(out, Handle.map, Handle.seq)
          /\ SetSaved(s, Reopened(job.h, s, ok)) /\ Charge(0, IF ok THEN 0 ELSE 1)
      BY <3>1
    <3> HIDE DEF s, ok
    <3>3. QED
      BY <1>1, <3>2, ReplacedWithin
  <2>3. QED
    BY <2>1, <2>2 DEF Checkpoint
<1>4. QED
  BY <1>1, <1>2, <1>3 DEF IndInv, Plain, Busy, DataFirst, RecordWritten

\* Truncate by path syncs its blob before it saves the map.
LEMMA TruncatePathInv == ASSUME IndInv, TruncatePath PROVE IndInv'
<1> DEFINE op == count.ops + 1
           c == meta[name]
           map == MapOf(c) \cup {op}
           n == c.seq + Committed(c)
<1>1. PICK out \in SaveResults :
          /\ SetSaved(Save(out, map, n), Bumped(hs)) /\ Charge(1, Failing(out))
          /\ blobs' = blobs \cup {op}
          /\ IF out = "saved" THEN Acknowledge(op) ELSE UNCHANGED <<acked, firm>>
  BY DEF TruncatePath
<1>2. pc = "idle" /\ UNCHANGED <<pc, job>>
  BY DEF TruncatePath
<1>3. Failing(out) \in Nat
  BY DEF Failing
<1>4. count' \in [ops : 0 .. MaxOps, faults : 0 .. MaxFaults]
  BY <1>1, <1>3, ChargeType DEF IndInv, Plain
<1>5. op \in Ops
  BY <1>1, ConstantsAssumption DEF IndInv, Plain, Charge, Ops
<1>6. c \in Contents /\ Mentioned(c) \subseteq blobs
  BY DEF IndInv, Plain, FilesWithin
<1>7. MapOf(c) \subseteq blobs /\ MapOf(c) \subseteq Ops /\ n \in Nat
  BY <1>6, MapMentioned, MentionedOps, CommittedType DEF Contents
<1>8. map \in SUBSET Ops /\ map \subseteq blobs'
  BY <1>1, <1>5, <1>7
<1>9. FilesWithin(meta, disk, blobs') /\ HandlesWithin(hs, blobs')
  BY <1>1, MoreBlobs DEF IndInv
<1> HIDE DEF op, c, map, n
<1>10. /\ FilesWithin(meta', disk', blobs') /\ hs' = Bumped(hs)
       /\ name' \in names' /\ names' \subseteq Files /\ doubt' \in BOOLEAN
  BY <1>1, <1>7, <1>8, <1>9, SavedWithin DEF IndInv
<1>11. HandlesWithin(hs', blobs')
  BY <1>9, <1>10, BumpedHandles
<1>12. acked' \subseteq Ops /\ firm' \subseteq acked' /\ blobs' \subseteq Ops
  BY <1>1, <1>5, AcknowledgeType DEF IndInv, Plain
<1>13. Plain'
  BY <1>2, <1>4, <1>10, <1>12 DEF IndInv, Plain
<1>14. QED
  BY <1>2, <1>10, <1>11, <1>13 DEF IndInv, Busy, DataFirst, RecordWritten

\* Steps between operations that change handles and nothing else but the inodes
\* they free.
LEMMA IdleInv ==
    ASSUME IndInv, pc = "idle", NEW H, HandlesWithin(H, blobs),
           FilesWithin(meta', disk', blobs), names' = names, hs' = H,
           UNCHANGED <<name, blobs, pc, job, acked, firm, doubt, count>>
    PROVE  IndInv'
  BY DEF IndInv, Plain, Busy, DataFirst, RecordWritten

\* Open caches what the file holds.
LEMMA OpenInv == ASSUME IndInv, NEW h \in Handles, Open(h) PROVE IndInv'
<1> DEFINE new == [NoHandle EXCEPT !.open = TRUE]
           H == [hs EXCEPT ![h] = Loaded(new, name)]
<1>1. new \in HandleStates
  BY ConstantsAssumption DEF NoHandle, HandleStates
<1>2. name \in Files
  BY DEF IndInv, Plain
<1> HIDE DEF new
<1>3. Loaded(new, name) \in HandleStates /\ Loaded(new, name).map \subseteq blobs
  BY <1>1, <1>2, LoadedHandle DEF IndInv
<1>4. HandlesWithin(H, blobs)
  BY <1>3 DEF IndInv, HandlesWithin
<1>5. /\ pc = "idle" /\ hs' = H
      /\ UNCHANGED <<meta, disk, name, names, blobs, pc, job, acked, firm, doubt, count>>
  BY DEF Open, new
<1> HIDE DEF H
<1>6. FilesWithin(meta', disk', blobs)
  BY <1>5 DEF IndInv
<1>7. QED
  BY <1>4, <1>5, <1>6, IdleInv

\* Release forgets a cache and may free an inode.
LEMMA ReleaseInv == ASSUME IndInv, NEW h \in Handles, Release(h) PROVE IndInv'
<1> DEFINE H == [hs EXCEPT ![h] = NoHandle]
<1>1. HandlesWithin(H, blobs)
  BY ConstantsAssumption DEF IndInv, HandlesWithin, HandleStates, NoHandle
<1>2. /\ pc = "idle" /\ SetFiles(meta, disk, names, H)
      /\ UNCHANGED <<name, blobs, pc, job, acked, firm, doubt, count>>
  BY DEF Release
<1> HIDE DEF H
<1>3. FilesWithin(meta', disk', blobs) /\ names' = names /\ hs' = H
  BY <1>2, SetFilesWithin DEF IndInv
<1>4. QED
  BY <1>1, <1>2, <1>3, IdleInv

\* Refresh caches what the file holds.
LEMMA RefreshInv == ASSUME IndInv, NEW h \in Handles, Refresh(h) PROVE IndInv'
<1> DEFINE H == [hs EXCEPT ![h] = Loaded(hs[h], name)]
<1>1. name \in Files /\ hs[h] \in HandleStates
  BY DEF IndInv, Plain, HandlesWithin
<1>2. Loaded(hs[h], name) \in HandleStates /\ Loaded(hs[h], name).map \subseteq blobs
  BY <1>1, LoadedHandle DEF IndInv
<1>3. HandlesWithin(H, blobs)
  BY <1>2 DEF IndInv, HandlesWithin
<1>4. /\ pc = "idle" /\ SetFiles(meta, disk, names, H)
      /\ UNCHANGED <<name, blobs, pc, job, acked, firm, doubt, count>>
  BY DEF Refresh
<1> HIDE DEF H
<1>5. FilesWithin(meta', disk', blobs) /\ names' = names /\ hs' = H
  BY <1>4, SetFilesWithin DEF IndInv
<1>6. QED
  BY <1>3, <1>4, <1>5, IdleInv

\* No handle survives the daemon.
LEMMA NobodyWithin == HandlesWithin([h \in Handles |-> NoHandle], blobs)
  BY ConstantsAssumption DEF HandlesWithin, HandleStates, NoHandle

\* A kill loses the caches; it leaves the files, or a part of the record in one.
LEMMA KillInv == ASSUME IndInv, Kill PROVE IndInv'
<1> DEFINE H == [h \in Handles |-> NoHandle]
<1>1. PICK m, d : /\ FilesWithin(m, d, blobs)
                  /\ SetFiles(m, d, names, H) /\ pc' = "idle" /\ job' = NoJob
                  /\ UNCHANGED <<name, blobs, acked, firm, doubt, count>>
  <2>1. CASE Vanish(meta, disk, names)
    BY <2>1 DEF Kill, Vanish, IndInv
  <2>2. ASSUME pc = "append", Handle.end <= Len(meta[Handle.file].recs),
               NEW c \in {Cut(meta[Handle.file]), Written(TRUE)},
               Vanish([meta EXCEPT ![Handle.file] = c],
                      [disk EXCEPT ![Handle.file] = @ \cup {Cut(meta[Handle.file]), c}], names)
        PROVE  \E m, d : /\ FilesWithin(m, d, blobs)
                         /\ SetFiles(m, d, names, H) /\ pc' = "idle" /\ job' = NoJob
    <3> DEFINE f == Handle.file
               k == Cut(meta[f])
               m == [meta EXCEPT ![f] = c]
               d == [disk EXCEPT ![f] = @ \cup {k, c}]
    <3>1. k \in Contents /\ Mentioned(k) \subseteq blobs
      BY <2>2, WrittenContents
    <3>2. c \in Contents /\ Mentioned(c) \subseteq blobs
      BY <2>2, <3>1, WrittenContents
    <3>3. SetFiles(m, d, names, H) /\ pc' = "idle" /\ job' = NoJob
      BY <2>2 DEF Vanish
    <3>4. f \in Files
      BY <2>2, BusyHandle
    <3> HIDE DEF f, k
    <3>5. FilesWithin(m, d, blobs)
      BY <3>1, <3>2, <3>4 DEF IndInv, FilesWithin
    <3> HIDE DEF m, d
    <3>6. QED
      BY <3>3, <3>5
  <2>3. QED
    BY <2>1, <2>2 DEF Kill, Vanish, IndInv
<1>2. HandlesWithin(H, blobs)
  BY NobodyWithin
<1> HIDE DEF H
<1>3. FilesWithin(meta', disk', blobs) /\ names' = names /\ hs' = H
  BY <1>1, SetFilesWithin
<1>4. QED
  BY <1>1, <1>2, <1>3 DEF IndInv, Plain, Busy, DataFirst, RecordWritten

\* Power loss leaves one of the contents that the invariant speaks of.
LEMMA PowerLossInv == ASSUME IndInv, PowerLoss PROVE IndInv'
<1> DEFINE H == [h \in Handles |-> NoHandle]
<1> DEFINE P(f, c) ==
        /\ name' = f
        /\ Vanish([meta EXCEPT ![f] = c], [disk EXCEPT ![f] = {c}], {f})
        /\ acked' = acked \cap MapOf(c) /\ firm' = firm \cap MapOf(c)
<1>a. PICK f \in names : \E c \in disk[f] : P(f, c)
  BY DEF PowerLoss
<1>1. PICK c \in disk[f] : P(f, c)
  BY <1>a
<1> DEFINE m == [meta EXCEPT ![f] = c]
           d == [disk EXCEPT ![f] = {c}]
<1>2. /\ SetFiles(m, d, {f}, H) /\ pc' = "idle" /\ job' = NoJob
      /\ UNCHANGED blobs /\ doubt' = FALSE /\ Charge(0, 1)
  BY <1>1 DEF PowerLoss, Vanish
<1>3. f \in Files /\ c \in Contents /\ Mentioned(c) \subseteq blobs
  BY DEF IndInv, Plain, FilesWithin
<1>4. FilesWithin(m, d, blobs)
  BY <1>3 DEF IndInv, FilesWithin
<1>5. HandlesWithin(H, blobs)
  BY NobodyWithin
<1> HIDE DEF H, m, d
<1>6. FilesWithin(meta', disk', blobs) /\ names' = {f} /\ hs' = H
  BY <1>2, <1>4, SetFilesWithin
<1>7. count' \in [ops : 0 .. MaxOps, faults : 0 .. MaxFaults]
  BY <1>2, ChargeType DEF IndInv, Plain
<1>8. acked' \subseteq Ops /\ firm' \subseteq acked'
  BY <1>1 DEF IndInv, Plain
<1>9. QED
  BY <1>1, <1>2, <1>3, <1>5, <1>6, <1>7, <1>8
  DEF IndInv, Plain, Busy, DataFirst, RecordWritten

\* Every step keeps the inductive invariant.
LEMMA StepInv == IndInv /\ [Next]_vars => IndInv'
<1> SUFFICES ASSUME IndInv, [Next]_vars PROVE IndInv'
  OBVIOUS
<1>1. CASE UNCHANGED vars
  BY <1>1 DEF vars, IndInv, Plain, Busy, DataFirst, RecordWritten, FilesWithin, HandlesWithin
<1>2. CASE \E h \in Handles : Start(h) \/ Open(h) \/ Release(h) \/ Refresh(h)
  BY <1>2, StartInv, OpenInv, ReleaseInv, RefreshInv
<1>3. CASE Operation
  BY <1>3, ConvertInv, WriteDataInv, AppendRecordInv, SyncRecordInv, CheckpointInv DEF Operation
<1>4. CASE TruncatePath \/ Kill \/ PowerLoss
  BY <1>4, TruncatePathInv, KillInv, PowerLossInv
<1>5. QED
  BY <1>1, <1>2, <1>3, <1>4 DEF Next

-----------------------------------------------------------------------------
(* The theorems.                                                           *)

\* The inductive invariant holds in every reachable state.
THEOREM IndInvHolds == Spec => []IndInv
  BY InitInv, StepInv, PTL DEF Spec

\* Every variable keeps its type: the name in use is one of those that a power
\* loss may leave, and what is known to survive was acknowledged
\* (metadata.c:275-343, file.c:31-56).
THEOREM TypeCorrect == Spec => []TypeOK
<1>1. IndInv => TypeOK
  BY DEF IndInv, Plain, FilesWithin, HandlesWithin, TypeOK
<1>2. QED
  BY <1>1, IndInvHolds, PTL

\* Whatever calls fail and whenever power is lost, no map that a power loss may
\* leave refers to a blob that is not durable: the blobs are synced before the
\* record is written (file.c:1033-1053).
THEOREM DurableBlobs == Spec => []BlobsDurable
<1>1. IndInv => BlobsDurable
  <2> SUFFICES ASSUME IndInv, NEW f \in names, NEW c \in disk[f]
               PROVE  MapOf(c) \subseteq blobs
    BY DEF BlobsDurable
  <2>1. c \in Contents /\ Mentioned(c) \subseteq blobs
    BY DEF IndInv, Plain, FilesWithin
  <2>2. QED
    BY <2>1, MapMentioned
<1>2. QED
  BY <1>1, IndInvHolds, PTL

=============================================================================
