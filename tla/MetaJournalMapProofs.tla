------------------------ MODULE MetaJournalMapProofs -----------------------
(***************************************************************************)
(* Proofs about the maps that the journal holds and the handles cache, for *)
(* any number of handles, files, operations and faults and any checkpoint  *)
(* interval, as long as the rollback of a failed append succeeds: what was *)
(* acknowledged survives a power loss, and no current cache misses it.     *)
(***************************************************************************)
EXTENDS MetaJournalProofs

\* The records are numbered in turn, and only the last may be torn.
WellFormed(c) ==
    \A i \in 1 .. Len(c.recs) :
        c.recs[i].seq = c.seq + i /\ (i < Len(c.recs) => ~c.recs[i].torn)

\* The files m, of which power loss may leave d, by the names ns load; each
\* holds the operations F, and the file named nm holds the operations A.
FilesSound(m, d, nm, ns, A, F) ==
    \A f \in ns :
        /\ m[f] \in d[f]
        /\ \A c \in d[f] : /\ WellFormed(c) /\ F \subseteq MapOf(c)
                           /\ f = nm => A \subseteq MapOf(c)

\* The name of the file is certain unless a directory fsync failed.
Certain == ~doubt => names = {name}

\* The handle caches the map of the file c without its last n records.
Follows(h, c, n) ==
    /\ h.end + n = Committed(c)
    /\ h.map = MapUpTo(c, h.end)
    /\ h.seq = c.seq + h.end

\* The current handles of H cache the file named nm.
PairedWith(H, m, nm, n) ==
    \A h \in Handles : H[h].open /\ H[h].valid /\ H[h].seen =>
        H[h].file = nm /\ Follows(H[h], m[nm], n)

\* The record that is not synced yet is in the file and in no cache.
Paired == PairedWith(hs, meta, name, IF pc = "sync" THEN 1 ELSE 0)

\* The handle of the operation in progress is current; where its record is.
Working ==
    /\ pc # "idle" => hs[job.h].open /\ Current(job.h)
    /\ pc = "sync" => MapOf(meta[name]) = hs[job.h].map \cup {job.op}
    /\ pc = "checkpoint" => disk[name] = {meta[name]} /\ job.op \in hs[job.h].map

MapInv ==
    /\ FilesSound(meta, disk, name, names, acked, firm)
    /\ Certain /\ Paired /\ Working /\ CacheCoherent

\* The inductive invariant.
JournalInv == IndInv /\ MapInv

-----------------------------------------------------------------------------
(* Files and records.                                                      *)

\* Where the first torn record is, the journal ends.
LEMMA CommittedIs ==
    ASSUME NEW c \in Contents, NEW n \in Nat, n <= Len(c.recs),
           \A i \in 1 .. n : ~c.recs[i].torn,
           n < Len(c.recs) => c.recs[n + 1].torn
    PROVE  Committed(c) = n
<1> DEFINE I == {i \in 1 .. Len(c.recs) : \A j \in 1 .. i : ~c.recs[j].torn}
<1>1. Len(c.recs) \in Nat
  BY CommittedType
<1>2. I = 1 .. n
  <2>1. ASSUME NEW i \in I PROVE i \in 1 .. n
    <3>1. i \in 1 .. Len(c.recs) /\ \A j \in 1 .. i : ~c.recs[j].torn
      OBVIOUS
    <3>2. ASSUME i > n PROVE FALSE
      <4>1. n + 1 \in 1 .. i /\ n < Len(c.recs)
        BY <1>1, <3>1, <3>2
      <4>2. QED
        BY <3>1, <4>1
    <3>3. QED
      BY <3>1, <3>2
  <2>2. ASSUME NEW i \in 1 .. n PROVE i \in I
    BY <1>1
  <2>3. QED
    BY <2>1, <2>2
<1>3. Cardinality(1 .. n) = n
  BY FS_Interval
<1>4. QED
  BY <1>2, <1>3 DEF Committed

\* A well-formed file loads, and what is committed is not torn.
LEMMA WellFormedLoads ==
    ASSUME NEW c \in Contents, WellFormed(c)
    PROVE  Loads(c) /\ \A i \in 1 .. Committed(c) : ~c.recs[i].torn
<1>1. Len(c.recs) \in Nat /\ Committed(c) \in 0 .. Len(c.recs)
  BY CommittedType
<1>2. Loads(c)
  BY <1>1 DEF Loads, WellFormed
<1>3. \A i \in 1 .. Len(c.recs) : i < Len(c.recs) => ~c.recs[i].torn
  BY DEF WellFormed
<1>4. CASE Len(c.recs) = 0
  BY <1>1, <1>2, <1>4
<1>5. CASE Len(c.recs) > 0 /\ c.recs[Len(c.recs)].torn
  <2> DEFINE n == Len(c.recs) - 1
  <2>1. n \in Nat /\ n <= Len(c.recs) /\ n + 1 = Len(c.recs)
    BY <1>1, <1>5
  <2>2. \A i \in 1 .. n : ~c.recs[i].torn
    BY <1>1, <1>3, <2>1
  <2>3. n < Len(c.recs) => c.recs[n + 1].torn
    BY <1>5, <2>1
  <2> HIDE DEF n
  <2>4. Committed(c) = n
    BY <2>1, <2>2, <2>3, CommittedIs
  <2>5. QED
    BY <1>2, <2>2, <2>4
<1>6. CASE Len(c.recs) > 0 /\ ~c.recs[Len(c.recs)].torn
  BY <1>1, <1>2, <1>3, <1>6
<1>7. QED
  BY <1>1, <1>4, <1>5, <1>6

\* d is the file c with the first n of its records and others after them.
Starts(d, c, n) ==
    /\ d \in Contents /\ n <= Len(d.recs) /\ d.base = c.base /\ d.seq = c.seq
    /\ \A i \in 1 .. n : d.recs[i] = c.recs[i]

\* A shared start of two files holds one map.
LEMMA SharedMap ==
    ASSUME NEW c, NEW n \in Nat, NEW d, Starts(d, c, n)
    PROVE  MapUpTo(d, n) = MapUpTo(c, n)
  BY DEF Starts, MapUpTo

\* A cut file starts like the file.
LEMMA CutStarts ==
    ASSUME NEW c \in Contents, NEW n \in Nat, n <= Len(c.recs)
    PROVE  LET d == [c EXCEPT !.recs = SubSeq(@, 1, n)]
           IN  Starts(d, c, n) /\ Len(d.recs) = n
<1> DEFINE s == SubSeq(c.recs, 1, n)
           d == [c EXCEPT !.recs = s]
<1>1. c.recs \in Seq(Records) /\ Len(c.recs) \in Nat
  BY CommittedType DEF Contents
<1>2. \A i \in 1 .. n : c.recs[i] \in Records
  BY <1>1, ElementOfSeq
<1>3. /\ s \in Seq(Records)
      /\ Len(s) = IF 1 <= n THEN n - 1 + 1 ELSE 0
      /\ \A i \in 1 .. n - 1 + 1 : s[i] = c.recs[1 + i - 1]
  BY <1>2, SubSeqProperties
<1>4. s \in Seq(Records) /\ Len(s) = n /\ \A i \in 1 .. n : s[i] = c.recs[i]
  BY <1>3
<1> HIDE DEF s
<1>5. d.recs = s /\ d.base = c.base /\ d.seq = c.seq /\ d \in Contents
  BY <1>4 DEF Contents
<1>6. Starts(d, c, n) /\ Len(d.recs) = n
  BY <1>4, <1>5 DEF Starts
<1>7. QED
  BY <1>6 DEF s

\* A file with one more record starts like the file.
LEMMA AppendStarts ==
    ASSUME NEW c \in Contents, NEW r \in Records
    PROVE  LET d == [c EXCEPT !.recs = Append(@, r)]
           IN  /\ Starts(d, c, Len(c.recs)) /\ Len(d.recs) = Len(c.recs) + 1
               /\ d.recs[Len(c.recs) + 1] = r
<1> DEFINE s == Append(c.recs, r)
           d == [c EXCEPT !.recs = s]
<1>1. c.recs \in Seq(Records) /\ Len(c.recs) \in Nat
  BY CommittedType DEF Contents
<1>2. /\ s \in Seq(Records) /\ Len(s) = Len(c.recs) + 1 /\ s[Len(c.recs) + 1] = r
      /\ \A i \in 1 .. Len(c.recs) : s[i] = c.recs[i]
  BY <1>1, AppendProperties
<1> HIDE DEF s
<1>3. d.recs = s /\ d.base = c.base /\ d.seq = c.seq /\ d \in Contents
  BY <1>2 DEF Contents
<1>4. /\ Starts(d, c, Len(c.recs)) /\ Len(d.recs) = Len(c.recs) + 1
      /\ d.recs[Len(c.recs) + 1] = r
  BY <1>1, <1>2, <1>3 DEF Starts
<1>5. QED
  BY <1>4 DEF s

\* A well-formed file that is cut at a committed record is well-formed, and all
\* of it is committed.
LEMMA CutWellFormed ==
    ASSUME NEW c \in Contents, WellFormed(c), NEW n \in Nat, n <= Committed(c),
           NEW d, Starts(d, c, n), Len(d.recs) = n
    PROVE  WellFormed(d) /\ Committed(d) = n
<1>1. \A i \in 1 .. n : ~c.recs[i].torn /\ c.recs[i].seq = c.seq + i
  BY CommittedType, WellFormedLoads DEF WellFormed
<1>2. \A i \in 1 .. n : ~d.recs[i].torn /\ d.recs[i].seq = d.seq + i
  BY <1>1 DEF Starts
<1>3. d \in Contents
  BY DEF Starts
<1>4. Committed(d) = n
  BY <1>2, <1>3, CommittedIs
<1>5. QED
  BY <1>2, <1>4 DEF WellFormed

\* A file that is committed as a whole stays well-formed when the next record is
\* appended, and that record counts unless it is torn.
LEMMA AppendWellFormed ==
    ASSUME NEW c \in Contents, WellFormed(c), Committed(c) = Len(c.recs),
           NEW r \in Records, r.seq = c.seq + Len(c.recs) + 1,
           NEW d, Starts(d, c, Len(c.recs)), Len(d.recs) = Len(c.recs) + 1,
           d.recs[Len(c.recs) + 1] = r
    PROVE  /\ WellFormed(d)
           /\ r.torn => Committed(d) = Len(c.recs)
           /\ ~r.torn => Committed(d) = Len(c.recs) + 1 /\ MapOf(d) = MapOf(c) \cup {r.op}
<1> DEFINE n == Len(c.recs)
<1>1. n \in Nat
  BY CommittedType
<1>2. \A i \in 1 .. n : ~c.recs[i].torn /\ c.recs[i].seq = c.seq + i
  BY WellFormedLoads DEF WellFormed
<1>3. \A i \in 1 .. n : ~d.recs[i].torn /\ d.recs[i].seq = d.seq + i
  BY <1>2 DEF Starts
<1>4. d \in Contents /\ d.seq = c.seq /\ d.base = c.base
  BY DEF Starts
<1>5. r.seq \in Nat /\ c.seq \in Nat
  BY DEF Records, Contents
<1>6. Len(d.recs) = n + 1 /\ d.recs[n + 1] = r /\ r.seq = c.seq + (n + 1)
  BY <1>1, <1>5
<1> HIDE DEF n
<1>7. WellFormed(d)
  <2> SUFFICES ASSUME NEW i \in 1 .. n + 1
               PROVE  d.recs[i].seq = d.seq + i /\ (i < n + 1 => ~d.recs[i].torn)
    BY <1>6 DEF WellFormed
  <2>1. CASE i \in 1 .. n
    BY <2>1, <1>3
  <2>2. CASE i = n + 1
    BY <2>2, <1>1, <1>4, <1>6
  <2>3. QED
    BY <1>1, <2>1, <2>2
<1>8. ASSUME r.torn PROVE Committed(d) = n
  BY <1>1, <1>3, <1>4, <1>6, <1>8, CommittedIs
<1>9. ASSUME ~r.torn PROVE Committed(d) = n + 1 /\ MapOf(d) = MapOf(c) \cup {r.op}
  <2>1. \A i \in 1 .. n + 1 : ~d.recs[i].torn
    BY <1>1, <1>3, <1>6, <1>9
  <2> DEFINE k == n + 1
  <2>2. k \in Nat /\ k <= Len(d.recs) /\ ~(k < Len(d.recs)) /\ \A i \in 1 .. k : ~d.recs[i].torn
    BY <1>1, <1>6, <2>1
  <2> HIDE DEF k
  <2>3. Committed(d) = k
    BY <1>4, <2>2, CommittedIs
  <2>4. MapOf(d) = MapUpTo(d, n + 1) /\ MapOf(c) = MapUpTo(c, n)
    BY <2>3 DEF MapOf, k, n
  <2>5. MapUpTo(d, n) = MapUpTo(c, n)
    BY <1>1, SharedMap DEF n
  <2>6. MapUpTo(d, n + 1) = MapUpTo(d, n) \cup {r.op}
    <3>1. 1 .. n + 1 = (1 .. n) \cup {n + 1}
      BY <1>1
    <3>2. {d.recs[i].op : i \in 1 .. n + 1} = {d.recs[i].op : i \in 1 .. n} \cup {d.recs[n + 1].op}
      BY <3>1
    <3>3. QED
      BY <1>6, <3>2 DEF MapUpTo
  <2>7. QED
    BY <2>3, <2>4, <2>5, <2>6 DEF k
<1>10. QED
  BY <1>7, <1>8, <1>9 DEF n

\* More records hold more.
LEMMA MapGrows ==
    ASSUME NEW c, NEW n \in Nat, NEW k \in Nat, n <= k
    PROVE  MapUpTo(c, n) \subseteq MapUpTo(c, k)
  BY DEF MapUpTo

\* A saved file is well-formed and holds the map that was saved.
LEMMA WholeMapSound ==
    ASSUME NEW map \in SUBSET Ops, NEW n \in Nat
    PROVE  LET c == WholeMap(map, n)
           IN  /\ WellFormed(c) /\ Committed(c) = 0 /\ c.seq = n
               /\ MapOf(c) = map /\ MapUpTo(c, 0) = map
<1> DEFINE c == WholeMap(map, n)
<1>1. c \in Contents /\ c.recs = <<>> /\ c.base = map /\ c.seq = n
  BY WholeMapContents DEF WholeMap
<1>2. Len(<<>>) = 0
  BY EmptySeq
<1> HIDE DEF c
<1>3. Committed(c) = 0
  BY <1>1, <1>2, CommittedIs
<1>4. MapUpTo(c, 0) = map
  BY <1>1 DEF MapUpTo
<1>5. WellFormed(c)
  BY <1>1, <1>2 DEF WellFormed
<1>6. QED
  BY <1>1, <1>3, <1>4, <1>5 DEF MapOf, c

-----------------------------------------------------------------------------
(* The files of a step.                                                    *)

\* A file in use is what the step made of it.
LEMMA KeptFiles ==
    ASSUME NEW m, NEW d, NEW ns \in SUBSET Files, NEW H, SetFiles(m, d, ns, H)
    PROVE  names' = ns /\ hs' = H /\ \A f \in ns : meta'[f] = m[f] /\ disk'[f] = d[f]
  BY DEF SetFiles, InUse

\* Soundness is about the files that may be named.
LEMMA SameFilesSound ==
    ASSUME NEW m, NEW d, NEW nm, NEW ns, NEW A, NEW F, FilesSound(m, d, nm, ns, A, F),
           NEW x, NEW y, \A f \in ns : x[f] = m[f] /\ y[f] = d[f]
    PROVE  FilesSound(x, y, nm, ns, A, F)
  BY DEF FilesSound

\* What the save s leaves is sound, and its name is certain unless in doubt.
SavedSound(s, A, F) ==
    /\ FilesSound(s.meta, s.disk, s.name, s.names, A, F)
    /\ ~s.doubt => s.names = {s.name}

\* What a save that got as far as its rename leaves holds the map it saved,
\* and the file it replaced holds what it held.
LEMMA SaveSound ==
    ASSUME JournalInv, NEW out \in SaveResults, out # "tmp",
           NEW map \in SUBSET Ops, NEW n \in Nat, NEW s, s = Save(out, map, n),
           s.name \in Files, NEW A, A \subseteq map, NEW F, F \subseteq A,
           out = "renamed" => F \subseteq firm
    PROVE  SavedSound(s, A, F)
<1> DEFINE c == WholeMap(map, n)
<1>1. /\ s.meta = [meta EXCEPT ![Fresh] = c] /\ s.disk = [disk EXCEPT ![Fresh] = {c}]
      /\ s.name = Fresh
      /\ s.names = IF out = "renamed" THEN names \cup {Fresh} ELSE {Fresh}
      /\ s.doubt <=> out = "renamed"
  BY DEF Save
<1>2. WellFormed(c) /\ MapOf(c) = map
  BY WholeMapSound
<1> HIDE DEF c
<1>3. Fresh \in Files /\ meta \in [Files -> Contents] /\ disk \in [Files -> SUBSET Contents]
      /\ names \subseteq Files
  BY <1>1 DEF JournalInv, IndInv, Plain, FilesWithin
<1>4. s.meta[Fresh] = c /\ s.disk[Fresh] = {c}
  BY <1>1, <1>3
<1>5. \A f \in names : f # Fresh => s.meta[f] = meta[f] /\ s.disk[f] = disk[f]
  BY <1>1, <1>3
<1>6. ASSUME NEW f \in s.names
      PROVE  /\ s.meta[f] \in s.disk[f]
             /\ \A x \in s.disk[f] : /\ WellFormed(x) /\ F \subseteq MapOf(x)
                                     /\ f = s.name => A \subseteq MapOf(x)
  <2>1. CASE f = Fresh
    BY <1>2, <1>4, <2>1
  <2>2. CASE f # Fresh
    <3>1. f \in names /\ F \subseteq firm
      BY <1>1, <2>2
    <3>2. /\ meta[f] \in disk[f]
          /\ \A x \in disk[f] : WellFormed(x) /\ firm \subseteq MapOf(x)
      BY <3>1 DEF JournalInv, MapInv, FilesSound
    <3>3. QED
      BY <1>1, <1>5, <2>2, <3>1, <3>2
  <2>3. QED
    BY <2>1, <2>2
<1>7. FilesSound(s.meta, s.disk, s.name, s.names, A, F)
  BY <1>6 DEF FilesSound
<1>8. ~s.doubt => s.names = {s.name}
  BY <1>1
<1>9. QED
  BY <1>7, <1>8 DEF SavedSound

\* The file it leaves under the name is the one it wrote.
LEMMA SaveWrites ==
    ASSUME JournalInv, NEW out, out # "tmp", NEW map, NEW n, NEW s, s = Save(out, map, n),
           s.name \in Files
    PROVE  s.meta[s.name] = WholeMap(map, n)
  BY DEF Save, JournalInv, IndInv, FilesWithin

\* A save that failed before its rename changes nothing.
LEMMA SaveNothing ==
    ASSUME NEW map, NEW n, NEW s, s = Save("tmp", map, n)
    PROVE  /\ s.meta = meta /\ s.disk = disk /\ s.name = name /\ s.names = names
           /\ s.doubt = doubt
  BY DEF Save

\* An operation whose record is on the disk may be acknowledged.
LEMMA AckSound ==
    ASSUME JournalInv, disk[name] = {meta[name]}, NEW op, op \in MapOf(meta[name])
    PROVE  FilesSound(meta, disk, name, names, acked \cup {op},
                      IF doubt THEN firm ELSE firm \cup {op})
<1>1. FilesSound(meta, disk, name, names, acked, firm) /\ (~doubt => names = {name})
      /\ doubt \in BOOLEAN
  BY DEF JournalInv, MapInv, Certain, IndInv, Plain
<1>2. QED
  BY <1>1 DEF FilesSound

-----------------------------------------------------------------------------
(* The handles of a step.                                                  *)

\* No handle is current after the epoch was bumped.
LEMMA NobodyPaired ==
    ASSUME NEW H, \A h \in Handles : ~(H[h].open /\ H[h].valid /\ H[h].seen),
           NEW m, NEW nm, NEW n
    PROVE  PairedWith(H, m, nm, n)
  BY DEF PairedWith

\* No handle has seen the new epoch.
LEMMA BumpedStale ==
    ASSUME HandlesWithin(hs, blobs), NEW h \in Handles
    PROVE  Bumped(hs)[h] \in HandleStates /\ ~Bumped(hs)[h].seen
  BY DEF Bumped, HandlesWithin, HandleStates

\* A handle whose file could not be opened again is not current, and no other
\* is.
LEMMA ReopenFailed ==
    ASSUME HandlesWithin(hs, blobs), NEW h \in Handles, NEW s, NEW g \in Handles
    PROVE  LET H == Reopened(h, s, FALSE) IN ~(H[g].open /\ H[g].valid /\ H[g].seen)
<1>1. Bumped(hs)[h] \in HandleStates /\ Bumped(hs)[g] \in HandleStates /\ ~Bumped(hs)[g].seen
  BY BumpedStale
<1> DEFINE B == Bumped(hs)
           bad == [B[h] EXCEPT !.valid = FALSE]
<1>2. Reopened(h, s, FALSE) = [B EXCEPT ![h] = bad]
  BY DEF Reopened
<1>3. DOMAIN B = Handles
  BY DEF Bumped
<1>4. ~bad.valid
  BY <1>1 DEF HandleStates
<1> HIDE DEF B, bad
<1>5. QED
  BY <1>1, <1>2, <1>3, <1>4 DEF B

\* A handle whose file was opened again caches the map that was saved there.
LEMMA ReopenPaired ==
    ASSUME HandlesWithin(hs, blobs), NEW h \in Handles, NEW s, s.name \in Files,
           hs[h].open, Current(h),
           NEW m, m[s.name] = WholeMap(hs[h].map, hs[h].seq),
           NEW H, H = Reopened(h, s, TRUE)
    PROVE  /\ PairedWith(H, m, s.name, 0)
           /\ H[h].open /\ H[h].valid /\ H[h].seen /\ H[h].map = hs[h].map
<1> DEFINE B == Bumped(hs)
           good == [B[h] EXCEPT !.file = s.name, !.end = 0, !.legacy = FALSE, !.seen = TRUE]
<1>1. /\ B[h] \in HandleStates /\ B[h].open = hs[h].open /\ B[h].valid = hs[h].valid
      /\ B[h].map = hs[h].map /\ B[h].seq = hs[h].seq
  BY DEF Bumped, HandlesWithin, HandleStates
<1>2. H = [B EXCEPT ![h] = good] /\ DOMAIN B = Handles
  BY DEF Reopened, Bumped
<1>3. \A g \in Handles : ~B[g].seen
  BY BumpedStale
<1>4. hs[h].map \in SUBSET Ops /\ hs[h].seq \in Nat /\ hs[h].open /\ hs[h].valid
  BY DEF HandlesWithin, HandleStates, Current
<1> HIDE DEF B
<1>5. /\ good.file = s.name /\ good.end = 0 /\ good.seen
      /\ good.open /\ good.valid /\ good.map = hs[h].map /\ good.seq = hs[h].seq
  BY <1>1, <1>4 DEF HandleStates
<1> HIDE DEF good
<1>6. H[h] = good /\ \A g \in Handles : g # h => ~H[g].seen
  BY <1>2, <1>3
<1> DEFINE c == WholeMap(hs[h].map, hs[h].seq)
<1>7. Committed(c) = 0 /\ c.seq = hs[h].seq /\ MapUpTo(c, 0) = hs[h].map
  BY <1>4, WholeMapSound
<1> HIDE DEF c
<1>8. Follows(good, c, 0)
  BY <1>4, <1>5, <1>7 DEF Follows
<1>9. PairedWith(H, m, s.name, 0)
  BY <1>5, <1>6, <1>8 DEF PairedWith, c
<1>10. QED
  BY <1>5, <1>6, <1>9

\* A handle that loads the file that has the name caches its map.
LEMMA LoadedPaired ==
    ASSUME IndInv, PairedWith(hs, meta, name, 0), NEW x \in HandleStates, NEW h \in Handles,
           NEW H, H = [hs EXCEPT ![h] = Loaded(x, name)]
    PROVE  /\ PairedWith(H, meta, name, 0)
           /\ H[h].open = x.open /\ H[h].valid /\ H[h].seen
<1> DEFINE c == meta[name]
           m == MapOf(c)
           l == c.legacy
           q == c.seq + Committed(c)
           e == Committed(c)
           y == [x EXCEPT !.file = name, !.map = m, !.legacy = l, !.seq = q,
                          !.end = e, !.valid = TRUE, !.seen = TRUE]
<1>1. Loaded(x, name) = y
  BY DEF Loaded
<1>2. c \in Contents /\ DOMAIN hs = Handles
  BY DEF IndInv, Plain, FilesWithin, HandlesWithin
<1>3. e \in Nat
  BY <1>2, CommittedType
<1>4. m = MapUpTo(c, e) /\ q = c.seq + e /\ e + 0 = Committed(c)
  BY <1>3 DEF MapOf
<1> HIDE DEF c, m, l, q, e
<1>5. /\ y.file = name /\ y.map = m /\ y.seq = q /\ y.end = e /\ y.valid /\ y.seen
      /\ y.open = x.open
  BY DEF HandleStates
<1> HIDE DEF y
<1>6. Follows(y, c, 0)
  BY <1>4, <1>5 DEF Follows
<1>7. H[h] = y /\ \A g \in Handles : g # h => H[g] = hs[g]
  BY <1>1, <1>2
<1>8. PairedWith(H, meta, name, 0)
  BY <1>5, <1>6, <1>7 DEF PairedWith, c
<1>9. QED
  BY <1>5, <1>7, <1>8

\* When every record is synced, a current cache holds what the file holds.
LEMMA PairedCoherent ==
    ASSUME NEW H \in [Handles -> HandleStates], NEW m, NEW d, NEW nm, NEW ns, NEW A, NEW F,
           nm \in ns, FilesSound(m, d, nm, ns, A, F), PairedWith(H, m, nm, 0),
           NEW h \in Handles, H[h].open, H[h].valid, H[h].seen
    PROVE  H[h].map = MapOf(m[nm]) /\ A \subseteq H[h].map
<1>1. Follows(H[h], m[nm], 0)
  BY DEF PairedWith
<1>2. H[h].end \in Nat
  BY DEF HandleStates
<1>3. H[h].map = MapOf(m[nm])
  BY <1>1, <1>2 DEF Follows, MapOf
<1>4. A \subseteq MapOf(m[nm])
  BY DEF FilesSound
<1>5. QED
  BY <1>3, <1>4

-----------------------------------------------------------------------------
(* The operation in progress.                                              *)

\* Its handle is current, has the file open that has the name, and misses no
\* acknowledged operation.
LEMMA BusyPaired ==
    ASSUME JournalInv, pc # "idle"
    PROVE  /\ job.h \in Handles /\ job.op \in Ops /\ Handle \in HandleStates
           /\ Handle.open /\ Current(job.h)
           /\ Handle.file = name /\ name \in names /\ name \in Files
           /\ meta[name] \in Contents
           /\ Follows(Handle, meta[name], IF pc = "sync" THEN 1 ELSE 0)
           /\ acked \subseteq Handle.map
<1>1. IndInv /\ MapInv
  BY DEF JournalInv
<1>2. job \in [h : Handles, op : Ops] /\ Handle \in HandleStates
  BY <1>1, BusyHandle
<1>3. Handle.open /\ Current(job.h)
  BY <1>1 DEF MapInv, Working, Handle
<1>4. Handle.file = name /\ Follows(Handle, meta[name], IF pc = "sync" THEN 1 ELSE 0)
  BY <1>1, <1>2, <1>3 DEF MapInv, Paired, PairedWith, Current, Handle
<1>5. acked \subseteq Handle.map
  BY <1>1, <1>2, <1>3 DEF MapInv, CacheCoherent, Handle
<1>6. name \in names /\ name \in Files /\ meta[name] \in Contents
  BY <1>1 DEF IndInv, Plain, FilesWithin
<1>7. QED
  BY <1>2, <1>3, <1>4, <1>5, <1>6

\* The file x is well-formed and begins with what its handle caches.
Holds(x) ==
    /\ x \in Contents /\ WellFormed(x)
    /\ Handle.end <= Committed(x)
    /\ MapUpTo(x, Handle.end) = Handle.map
    /\ x.seq + Handle.end = Handle.seq

\* The file that has the name does.
LEMMA FileHolds ==
    ASSUME JournalInv, pc # "idle"
    PROVE  Holds(meta[name])
<1>1. /\ meta[name] \in Contents /\ Handle \in HandleStates /\ name \in names
      /\ Follows(Handle, meta[name], IF pc = "sync" THEN 1 ELSE 0)
  BY BusyPaired
<1>2. WellFormed(meta[name])
  BY <1>1 DEF JournalInv, MapInv, FilesSound
<1>3. Handle.end \in Nat
  BY <1>1 DEF HandleStates
<1>4. Handle.end <= Committed(meta[name])
  BY <1>1, <1>3 DEF Follows
<1>5. QED
  BY <1>1, <1>2, <1>4 DEF Holds, Follows

\* Such a file holds what was acknowledged.
LEMMA HoldsAcked ==
    ASSUME JournalInv, pc # "idle", NEW x, Holds(x)
    PROVE  acked \subseteq MapOf(x)
<1>1. Handle.end \in Nat /\ acked \subseteq Handle.map
  BY BusyPaired DEF HandleStates
<1>2. Committed(x) \in Nat
  BY CommittedType DEF Holds
<1>3. MapUpTo(x, Handle.end) \subseteq MapUpTo(x, Committed(x))
  BY <1>1, <1>2, MapGrows DEF Holds
<1>4. QED
  BY <1>1, <1>3 DEF Holds, MapOf

\* So does the file when it is cut.
LEMMA CutHolds ==
    ASSUME JournalInv, pc # "idle", NEW x, Holds(x)
    PROVE  Holds(Cut(x)) /\ Committed(Cut(x)) = Handle.end /\ Len(Cut(x).recs) = Handle.end
<1> DEFINE n == Handle.end
           d == Cut(x)
<1>1. n \in Nat
  BY BusyPaired DEF HandleStates
<1>2. x \in Contents /\ WellFormed(x) /\ n <= Committed(x)
  BY DEF Holds
<1>3. n <= Len(x.recs)
  BY <1>1, <1>2, CommittedType
<1>4. d = [x EXCEPT !.recs = SubSeq(@, 1, n)]
  BY DEF Cut
<1> HIDE DEF n, d
<1>5. Starts(d, x, n) /\ Len(d.recs) = n
  BY <1>1, <1>2, <1>3, <1>4, CutStarts
<1>6. WellFormed(d) /\ Committed(d) = n
  BY <1>1, <1>2, <1>5, CutWellFormed
<1>7. MapUpTo(d, n) = MapUpTo(x, n)
  BY <1>1, <1>5, SharedMap
<1>8. d \in Contents /\ d.seq = x.seq /\ n <= Committed(d)
  BY <1>1, <1>5, <1>6 DEF Starts
<1>9. Holds(d)
  BY <1>6, <1>7, <1>8 DEF Holds, n
<1>10. QED
  BY <1>5, <1>6, <1>9 DEF n, d

\* So does the file with the record of the operation, which counts unless it is
\* torn.
LEMMA WrittenHolds ==
    ASSUME JournalInv, pc # "idle", NEW torn \in BOOLEAN
    PROVE  /\ Holds(Written(torn))
           /\ torn => Committed(Written(torn)) = Handle.end
           /\ ~torn => /\ Committed(Written(torn)) = Handle.end + 1
                       /\ MapOf(Written(torn)) = Handle.map \cup {job.op}
<1> DEFINE n == Handle.end
           c == Cut(meta[name])
           r == [seq |-> Handle.seq + 1, op |-> job.op, torn |-> torn]
           d == [c EXCEPT !.recs = Append(@, r)]
<1>1. n \in Nat /\ Handle.seq \in Nat /\ job.op \in Ops /\ Handle.file = name
  BY BusyPaired DEF HandleStates
<1>2. Holds(c) /\ Committed(c) = n /\ Len(c.recs) = n
  BY FileHolds, CutHolds
<1>3. Written(torn) = d
  BY <1>1 DEF Written
<1>4. r \in Records /\ r.seq = Handle.seq + 1 /\ r.op = job.op /\ r.torn = torn
  BY <1>1 DEF Records
<1>5. c \in Contents /\ WellFormed(c) /\ MapUpTo(c, n) = Handle.map /\ c.seq + n = Handle.seq
  BY <1>2 DEF Holds
<1> HIDE DEF c, r
<1>6. Starts(d, c, Len(c.recs)) /\ Len(d.recs) = Len(c.recs) + 1
      /\ d.recs[Len(c.recs) + 1] = r
  BY <1>4, <1>5, AppendStarts
<1> HIDE DEF n, d
<1>7. r.seq = c.seq + Len(c.recs) + 1 /\ Committed(c) = Len(c.recs)
  BY <1>2, <1>4, <1>5
<1>8. /\ WellFormed(d)
      /\ r.torn => Committed(d) = Len(c.recs)
      /\ ~r.torn => Committed(d) = Len(c.recs) + 1 /\ MapOf(d) = MapOf(c) \cup {r.op}
  BY <1>4, <1>5, <1>6, <1>7, AppendWellFormed
<1>9. MapOf(c) = Handle.map
  BY <1>2, <1>5 DEF MapOf
<1>10. MapUpTo(d, n) = MapUpTo(c, n) /\ d \in Contents /\ d.seq = c.seq
  BY <1>1, <1>2, <1>6, SharedMap DEF Starts
<1>11. n <= Committed(d)
  BY <1>1, <1>2, <1>4, <1>8
<1>12. Holds(d)
  BY <1>5, <1>8, <1>10, <1>11 DEF Holds, n
<1>13. /\ torn => Committed(d) = n
       /\ ~torn => Committed(d) = n + 1 /\ MapOf(d) = Handle.map \cup {job.op}
  BY <1>2, <1>4, <1>8, <1>9
<1>14. QED
  BY <1>3, <1>12, <1>13 DEF n

\* The files stay sound when the one of the operation is rewritten and power loss
\* may leave others that hold what its handle caches.
LEMMA RewrittenSound ==
    ASSUME JournalInv, pc # "idle", NEW m, Holds(m), NEW lost, \A x \in lost : Holds(x),
           NEW M, M = [meta EXCEPT ![Handle.file] = m],
           NEW D, D = [disk EXCEPT ![Handle.file] = @ \cup lost \cup {m}]
    PROVE  FilesSound(M, D, name, names, acked, firm)
<1>1. Handle.file = name /\ name \in Files
  BY BusyPaired
<1>2. FilesSound(meta, disk, name, names, acked, firm)
  BY DEF JournalInv, MapInv
<1>3. firm \subseteq acked /\ names \subseteq Files /\ DOMAIN meta = Files /\ DOMAIN disk = Files
  BY DEF JournalInv, IndInv, Plain, FilesWithin
<1>4. M[name] = m /\ D[name] = disk[name] \cup lost \cup {m}
  BY <1>1, <1>3
<1>5. \A f \in names : f # name => M[f] = meta[f] /\ D[f] = disk[f]
  BY <1>1, <1>3
<1>6. \A x \in lost \cup {m} : WellFormed(x) /\ acked \subseteq MapOf(x)
  BY HoldsAcked DEF Holds
<1>7. QED
  BY <1>2, <1>3, <1>4, <1>5, <1>6 DEF FilesSound

\* The current handles cache the same map, so they follow the rewritten file
\* when one of them does.
LEMMA RewrittenPaired ==
    ASSUME JournalInv, pc # "idle", NEW m, Holds(m), NEW n \in Nat, Handle.end + n = Committed(m),
           NEW M, M = [meta EXCEPT ![Handle.file] = m]
    PROVE  PairedWith(hs, M, name, n)
<1> SUFFICES ASSUME NEW h \in Handles, hs[h].open, hs[h].valid, hs[h].seen
             PROVE  hs[h].file = name /\ Follows(hs[h], M[name], n)
  BY DEF PairedWith
<1> DEFINE k == IF pc = "sync" THEN 1 ELSE 0
<1>1. /\ Handle.file = name /\ name \in Files /\ Handle \in HandleStates
      /\ Follows(Handle, meta[name], k)
  BY BusyPaired
<1>2. hs[h].file = name /\ Follows(hs[h], meta[name], k)
  BY DEF JournalInv, MapInv, Paired, PairedWith
<1>3. hs[h] \in HandleStates /\ DOMAIN meta = Files
  BY DEF JournalInv, IndInv, HandlesWithin, FilesWithin
<1>4. k \in Nat
  OBVIOUS
<1> HIDE DEF k
<1>5. hs[h].end \in Nat /\ Handle.end \in Nat
  BY <1>1, <1>3 DEF HandleStates
<1>6. hs[h].end = Handle.end
  BY <1>1, <1>2, <1>4, <1>5 DEF Follows
<1>7. hs[h].map = Handle.map /\ hs[h].seq = Handle.seq
  BY <1>1, <1>2, <1>6 DEF Follows
<1>8. M[name] = m
  BY <1>1, <1>3
<1>9. Follows(hs[h], m, n)
  BY <1>6, <1>7 DEF Follows, Holds
<1>10. QED
  BY <1>2, <1>8, <1>9

-----------------------------------------------------------------------------
(* Every step preserves the invariant, one lemma for each action.          *)

\* Once every record is synced, sound files and handles that follow them are
\* enough for the caches.
LEMMA SettledInv ==
    ASSUME IndInv', FilesSound(meta', disk', name', names', acked', firm'),
           PairedWith(hs', meta', name', 0), pc' # "sync", Certain', Working'
    PROVE  MapInv'
<1>1. hs' \in [Handles -> HandleStates] /\ name' \in names'
  BY DEF IndInv, Plain, HandlesWithin
<1>2. \A h \in Handles : hs'[h].open /\ hs'[h].valid /\ hs'[h].seen => acked' \subseteq hs'[h].map
  BY <1>1, PairedCoherent
<1>3. CacheCoherent'
  BY <1>2 DEF CacheCoherent, Current
<1>4. Paired'
  BY DEF Paired
<1>5. QED
  BY <1>3, <1>4 DEF MapInv

\* The files, the names and what was acknowledged stay as they are.
LEMMA SameFiles ==
    ASSUME JournalInv, names' = names, \A f \in names : meta'[f] = meta[f] /\ disk'[f] = disk[f],
           UNCHANGED <<name, acked, firm, doubt>>
    PROVE  /\ FilesSound(meta', disk', name', names', acked', firm') /\ Certain'
           /\ name \in names /\ meta'[name] = meta[name]
<1>1. FilesSound(meta, disk, name, names, acked, firm) /\ Certain /\ name \in names
  BY DEF JournalInv, MapInv, IndInv, Plain
<1>2. FilesSound(meta', disk', name, names, acked, firm)
  BY <1>1, SameFilesSound
<1>3. QED
  BY <1>1, <1>2 DEF Certain

\* Handles that follow the file with the name before a step that leaves the files
\* follow it afterwards.
LEMMA SamePaired ==
    ASSUME NEW H, NEW n, PairedWith(H, meta, name, n), hs' = H, name' = name,
           meta'[name] = meta[name]
    PROVE  PairedWith(hs', meta', name', n)
  BY DEF PairedWith

\* A new file is empty, and nothing was acknowledged.
LEMMA MapInit == Init => MapInv
<1> SUFFICES ASSUME Init PROVE MapInv
  OBVIOUS
<1>1. PICK old \in BOOLEAN :
          meta = [f \in Files |-> [Blank EXCEPT !.legacy = (old /\ f = 0)]]
  BY DEF Init
<1>2. meta[0].recs = <<>> /\ disk[0] = {meta[0]} /\ name = 0 /\ names = {0}
  BY <1>1, ConstantsAssumption DEF Init, Blank, WholeMap
<1>3. Len(<<>>) = 0
  BY EmptySeq
<1>4. WellFormed(meta[0])
  BY <1>2, <1>3 DEF WellFormed
<1>5. acked = {} /\ firm = {} /\ pc = "idle" /\ doubt = FALSE
  BY DEF Init
<1>6. FilesSound(meta, disk, name, names, acked, firm)
  BY <1>2, <1>4, <1>5 DEF FilesSound
<1>7. \A h \in Handles : ~hs[h].open
  BY DEF Init, NoHandle
<1>8. QED
  BY <1>2, <1>5, <1>6, <1>7 DEF MapInv, Certain, Paired, PairedWith, Working, CacheCoherent

\* Start takes a handle whose cache is current or loads it again.
LEMMA StartMap == ASSUME JournalInv, NEW h \in Handles, Start(h) PROVE MapInv'
<1>1. IndInv /\ IndInv'
  BY StartInv DEF JournalInv
<1> DEFINE H == IF Current(h) THEN hs ELSE [hs EXCEPT ![h] = Loaded(hs[h], name)]
<1>2. /\ pc = "idle" /\ hs[h].open /\ SetFiles(meta, disk, names, H)
      /\ pc' \in {"convert", "data"} /\ job'.h = h
      /\ UNCHANGED <<name, acked, firm, doubt>>
  BY DEF Start
<1>3. names \in SUBSET Files /\ hs[h] \in HandleStates
  BY <1>1 DEF IndInv, Plain, HandlesWithin
<1>4. PairedWith(hs, meta, name, 0)
  BY <1>2 DEF JournalInv, MapInv, Paired
<1>5. PairedWith(H, meta, name, 0) /\ H[h].open /\ H[h].valid /\ H[h].seen
  <2>1. CASE Current(h)
    BY <1>2, <1>4, <2>1 DEF Current
  <2>2. CASE ~Current(h)
    BY <1>1, <1>2, <1>3, <1>4, <2>2, LoadedPaired
  <2>3. QED
    BY <2>1, <2>2
<1> HIDE DEF H
<1>6. names' = names /\ hs' = H /\ \A f \in names : meta'[f] = meta[f] /\ disk'[f] = disk[f]
  BY <1>2, <1>3, KeptFiles
<1>7. /\ FilesSound(meta', disk', name', names', acked', firm') /\ Certain'
      /\ name \in names /\ meta'[name] = meta[name]
  BY <1>2, <1>6, SameFiles
<1>8. PairedWith(hs', meta', name', 0)
  BY <1>2, <1>5, <1>6, <1>7, SamePaired
<1>9. Working'
  BY <1>2, <1>5, <1>6 DEF Working, Current
<1>10. QED
  BY <1>1, <1>2, <1>7, <1>8, <1>9, SettledInv

\* Steps between operations that change handles only.
LEMMA IdleMap ==
    ASSUME JournalInv, IndInv', pc = "idle", NEW H, PairedWith(H, meta, name, 0),
           names' = names, hs' = H, \A f \in names : meta'[f] = meta[f] /\ disk'[f] = disk[f],
           UNCHANGED <<name, pc, acked, firm, doubt>>
    PROVE  MapInv'
<1>1. /\ FilesSound(meta', disk', name', names', acked', firm') /\ Certain'
      /\ name \in names /\ meta'[name] = meta[name]
  BY SameFiles
<1>2. PairedWith(hs', meta', name', 0)
  BY <1>1, SamePaired
<1>3. Working'
  BY DEF Working
<1>4. QED
  BY <1>1, <1>2, <1>3, SettledInv

\* Open loads the map.
LEMMA OpenMap == ASSUME JournalInv, NEW h \in Handles, Open(h) PROVE MapInv'
<1>1. IndInv /\ IndInv'
  BY OpenInv DEF JournalInv
<1> DEFINE new == [NoHandle EXCEPT !.open = TRUE]
           H == [hs EXCEPT ![h] = Loaded(new, name)]
<1>2. /\ pc = "idle" /\ hs' = H
      /\ UNCHANGED <<meta, disk, name, names, pc, acked, firm, doubt>>
  BY DEF Open
<1>3. new \in HandleStates
  BY ConstantsAssumption DEF NoHandle, HandleStates
<1>4. PairedWith(hs, meta, name, 0)
  BY <1>2 DEF JournalInv, MapInv, Paired
<1> HIDE DEF new
<1>5. PairedWith(H, meta, name, 0)
  BY <1>1, <1>3, <1>4, LoadedPaired
<1> HIDE DEF H
<1>6. QED
  BY <1>1, <1>2, <1>5, IdleMap

\* Release forgets the cache of a handle.
LEMMA ReleaseMap == ASSUME JournalInv, NEW h \in Handles, Release(h) PROVE MapInv'
<1>1. IndInv /\ IndInv'
  BY ReleaseInv DEF JournalInv
<1> DEFINE H == [hs EXCEPT ![h] = NoHandle]
<1>2. /\ pc = "idle" /\ SetFiles(meta, disk, names, H)
      /\ UNCHANGED <<name, pc, acked, firm, doubt>>
  BY DEF Release
<1>3. PairedWith(hs, meta, name, 0) /\ DOMAIN hs = Handles /\ names \in SUBSET Files
  BY <1>1, <1>2 DEF JournalInv, MapInv, Paired, IndInv, Plain, HandlesWithin
<1>4. ~H[h].open /\ \A g \in Handles : g # h => H[g] = hs[g]
  BY <1>3 DEF NoHandle
<1> HIDE DEF H
<1>5. PairedWith(H, meta, name, 0)
  BY <1>3, <1>4 DEF PairedWith
<1>6. names' = names /\ hs' = H /\ \A f \in names : meta'[f] = meta[f] /\ disk'[f] = disk[f]
  BY <1>2, <1>3, KeptFiles
<1>7. QED
  BY <1>1, <1>2, <1>5, <1>6, IdleMap

\* Refresh loads the map again.
LEMMA RefreshMap == ASSUME JournalInv, NEW h \in Handles, Refresh(h) PROVE MapInv'
<1>1. IndInv /\ IndInv'
  BY RefreshInv DEF JournalInv
<1> DEFINE H == [hs EXCEPT ![h] = Loaded(hs[h], name)]
<1>2. /\ pc = "idle" /\ SetFiles(meta, disk, names, H)
      /\ UNCHANGED <<name, pc, acked, firm, doubt>>
  BY DEF Refresh
<1>3. /\ PairedWith(hs, meta, name, 0) /\ hs[h] \in HandleStates /\ names \in SUBSET Files
  BY <1>1, <1>2 DEF JournalInv, MapInv, Paired, IndInv, Plain, HandlesWithin
<1>4. PairedWith(H, meta, name, 0)
  BY <1>1, <1>3, LoadedPaired
<1> HIDE DEF H
<1>5. names' = names /\ hs' = H /\ \A f \in names : meta'[f] = meta[f] /\ disk'[f] = disk[f]
  BY <1>2, <1>3, KeptFiles
<1>6. QED
  BY <1>1, <1>2, <1>4, <1>5, IdleMap

\* The blobs are no part of the files.
LEMMA WriteDataMap == ASSUME JournalInv, WriteData PROVE MapInv'
<1>1. IndInv /\ IndInv'
  BY WriteDataInv DEF JournalInv
<1>2. /\ pc = "data" /\ pc' \in {"append", "idle"} /\ (pc' = "append" => job' = job)
      /\ UNCHANGED <<meta, disk, name, names, hs, acked, firm, doubt>>
  BY DEF WriteData, Goto, Fail
<1>3. PairedWith(hs, meta, name, 0)
  BY <1>2 DEF JournalInv, MapInv, Paired
<1>4. /\ FilesSound(meta', disk', name', names', acked', firm') /\ Certain'
  BY <1>2, SameFiles
<1>5. PairedWith(hs', meta', name', 0)
  BY <1>2, <1>3
<1>6. Working'
  BY <1>2 DEF JournalInv, MapInv, Working, Current
<1>7. QED
  BY <1>1, <1>2, <1>4, <1>5, <1>6, SettledInv

\* What a save leaves is what the step leaves.
LEMMA SavedFiles ==
    ASSUME NEW s, NEW H, SetSaved(s, H), s.names \subseteq Files, NEW A, NEW F,
           FilesSound(s.meta, s.disk, s.name, s.names, A, F),
           ~s.doubt => s.names = {s.name}, s.name \in s.names
    PROVE  /\ FilesSound(meta', disk', name', names', A, F) /\ Certain'
           /\ hs' = H /\ name' = s.name /\ meta'[s.name] = s.meta[s.name]
<1>1. SetFiles(s.meta, s.disk, s.names, H) /\ name' = s.name /\ doubt' = s.doubt
  BY DEF SetSaved
<1>2. /\ names' = s.names /\ hs' = H
      /\ \A f \in s.names : meta'[f] = s.meta[f] /\ disk'[f] = s.disk[f]
  BY <1>1, KeptFiles
<1>3. FilesSound(meta', disk', s.name, s.names, A, F)
  BY <1>2, SameFilesSound
<1>4. QED
  BY <1>1, <1>2, <1>3 DEF Certain

\* What an operation leaves that replaces the file under its handle, when it
\* then acknowledges the operations A, and F while the name is certain.
LEMMA ReplacedMap ==
    ASSUME JournalInv, pc # "idle", pc # "sync", NEW out \in SaveResults, NEW s,
           s = Save(out, Handle.map, Handle.seq), NEW ok \in BOOLEAN, ok => out = "saved",
           SetSaved(s, Reopened(job.h, s, ok)), NEW A, A \subseteq Handle.map,
           NEW F, F \subseteq A, s.doubt => F \subseteq firm,
           out = "tmp" => FilesSound(meta, disk, name, names, A, F)
    PROVE  /\ FilesSound(meta', disk', name', names', A, F) /\ Certain'
           /\ PairedWith(hs', meta', name', 0)
           /\ ok => hs'[job.h].open /\ hs'[job.h].valid /\ hs'[job.h].seen
<1>1. /\ job.h \in Handles /\ Handle \in HandleStates /\ Handle.open /\ Current(job.h)
      /\ Handle.map \in SUBSET Ops /\ Handle.seq \in Nat
  BY BusyPaired DEF HandleStates
<1>2. s.name \in Files
  BY DEF SetSaved
<1>3. HandlesWithin(hs, blobs) /\ FilesWithin(meta, disk, blobs) /\ Plain /\ IndInv
  BY DEF JournalInv, IndInv
<1>4. Handle.map \subseteq blobs
  BY <1>3, BusyHandle
<1>5. s.name \in s.names /\ s.names \subseteq Files
  BY <1>1, <1>2, <1>3, <1>4, SaveWithin
<1>6. /\ FilesSound(s.meta, s.disk, s.name, s.names, A, F)
      /\ ~s.doubt => s.names = {s.name}
      /\ ok => s.meta[s.name] = WholeMap(Handle.map, Handle.seq)
  <2>1. CASE out = "tmp"
    <3>1. /\ s.meta = meta /\ s.disk = disk /\ s.name = name /\ s.names = names
          /\ s.doubt = doubt
      BY <2>1, SaveNothing
    <3>2. ~doubt => names = {name}
      BY DEF JournalInv, MapInv, Certain
    <3>3. QED
      BY <2>1, <3>1, <3>2
  <2>2. CASE out # "tmp"
    <3>1. out = "renamed" => F \subseteq firm
      BY <2>2 DEF Save
    <3> DEFINE map == Handle.map
               n == Handle.seq
    <3>2. map \in SUBSET Ops /\ n \in Nat /\ s = Save(out, map, n) /\ A \subseteq map
      BY <1>1
    <3> HIDE DEF map, n
    <3>3. SavedSound(s, A, F)
      BY <1>2, <2>2, <3>1, <3>2, SaveSound
    <3>4. s.meta[s.name] = WholeMap(map, n)
      BY <1>2, <2>2, <3>2, SaveWrites
    <3>5. QED
      BY <3>3, <3>4 DEF map, n, SavedSound
  <2>3. QED
    BY <2>1, <2>2
<1>7. /\ FilesSound(meta', disk', name', names', A, F) /\ Certain'
      /\ hs' = Reopened(job.h, s, ok) /\ name' = s.name /\ meta'[s.name] = s.meta[s.name]
  BY <1>5, <1>6, SavedFiles
<1>8. CASE ok
  <2>1. /\ meta'[s.name] = WholeMap(hs[job.h].map, hs[job.h].seq)
        /\ hs[job.h].open /\ hs' = Reopened(job.h, s, TRUE)
    BY <1>1, <1>6, <1>7, <1>8 DEF Handle
  <2>2. /\ PairedWith(hs', meta', s.name, 0)
        /\ hs'[job.h].open /\ hs'[job.h].valid /\ hs'[job.h].seen
    BY <1>1, <1>2, <1>3, <2>1, ReopenPaired
  <2>3. QED
    BY <1>7, <2>2
<1>9. CASE ~ok
  <2>1. hs' = Reopened(job.h, s, FALSE)
    BY <1>7, <1>9
  <2>2. \A g \in Handles : ~(hs'[g].open /\ hs'[g].valid /\ hs'[g].seen)
    BY <1>1, <1>3, <2>1, ReopenFailed
  <2>3. PairedWith(hs', meta', name', 0)
    BY <2>2, NobodyPaired
  <2>4. QED
    BY <1>7, <1>9, <2>3
<1>10. QED
  BY <1>8, <1>9

\* A conversion saves the cached map; it acknowledges nothing.
LEMMA ConvertMap == ASSUME JournalInv, Convert PROVE MapInv'
<1>1. PICK out \in SaveResults, reopen \in BOOLEAN :
          LET s == Save(out, Handle.map, Handle.seq)
              ok == out = "saved" /\ reopen
          IN  /\ SetSaved(s, Reopened(job.h, s, ok))
              /\ Charge(0, IF ok THEN 0 ELSE 1)
              /\ IF ok THEN Goto("data") /\ UNCHANGED <<acked, firm>> ELSE Fail
  BY DEF Convert
<1> DEFINE s == Save(out, Handle.map, Handle.seq)
           ok == out = "saved" /\ reopen
<1>2. pc = "convert" /\ IndInv'
  BY ConvertInv DEF Convert, JournalInv
<1>3. /\ s = Save(out, Handle.map, Handle.seq) /\ ok \in BOOLEAN /\ (ok => out = "saved")
      /\ SetSaved(s, Reopened(job.h, s, ok))
      /\ IF ok THEN Goto("data") /\ UNCHANGED <<acked, firm>> ELSE Fail
  BY <1>1
<1> HIDE DEF s, ok
<1>4. acked \subseteq Handle.map
  BY <1>2, BusyPaired
<1>5. FilesSound(meta, disk, name, names, acked, firm) /\ firm \subseteq acked
  BY DEF JournalInv, MapInv, IndInv, Plain
<1>6. /\ FilesSound(meta', disk', name', names', acked, firm) /\ Certain'
      /\ PairedWith(hs', meta', name', 0)
      /\ ok => hs'[job.h].open /\ hs'[job.h].valid /\ hs'[job.h].seen
  BY <1>2, <1>3, <1>4, <1>5, ReplacedMap
<1>7. /\ UNCHANGED <<acked, firm>>
      /\ pc' = "idle" \/ (pc' = "data" /\ job' = job /\ ok)
  BY <1>3 DEF Goto, Fail
<1>8. Working'
  BY <1>6, <1>7 DEF Working, Current
<1>9. QED
  BY <1>2, <1>6, <1>7, <1>8, SettledInv

\* A checkpoint saves the cached map, which holds the operation that it then
\* acknowledges; without one, or when it fails, the file holds it.
LEMMA CheckpointMap == ASSUME JournalInv, Checkpoint PROVE MapInv'
<1>1. pc = "checkpoint" /\ IndInv' /\ Ack
  BY CheckpointInv DEF Checkpoint, JournalInv
<1> DEFINE A == acked \cup {job.op}
           F == IF doubt' THEN firm ELSE firm \cup {job.op}
<1>2. pc' = "idle" /\ acked' = A /\ firm' = F
  BY <1>1 DEF Ack, Acknowledge
<1>3. /\ acked \subseteq Handle.map /\ job.op \in Handle.map /\ disk[name] = {meta[name]}
      /\ Handle \in HandleStates /\ Follows(Handle, meta[name], 0)
  BY <1>1, BusyPaired DEF JournalInv, MapInv, Working, Handle
<1>4. job.op \in MapOf(meta[name])
  <2>1. Handle.end \in Nat
    BY <1>3 DEF HandleStates
  <2>2. QED
    BY <1>3, <2>1 DEF Follows, MapOf
<1>5. doubt \in BOOLEAN /\ doubt' \in BOOLEAN /\ firm \subseteq acked
  BY <1>1 DEF JournalInv, IndInv, Plain
<1>6. A \subseteq Handle.map /\ F \subseteq A /\ (doubt' => F \subseteq firm)
  BY <1>3, <1>5
<1>7. ASSUME doubt' = doubt PROVE FilesSound(meta, disk, name, names, A, F)
  BY <1>3, <1>4, <1>7, AckSound
<1>8. /\ FilesSound(meta', disk', name', names', A, F) /\ Certain'
      /\ PairedWith(hs', meta', name', 0)
  <2>1. CASE UNCHANGED <<meta, disk, name, names, hs, doubt, count>>
    <3>1. PairedWith(hs, meta, name, 0) /\ Certain
      BY <1>1 DEF JournalInv, MapInv, Paired
    <3> HIDE DEF A, F
    <3>2. FilesSound(meta, disk, name, names, A, F)
      BY <1>7, <2>1
    <3>3. QED
      BY <2>1, <3>1, <3>2 DEF Certain
  <2>2. CASE \E out \in SaveResults, reopen \in BOOLEAN :
                LET s == Save(out, Handle.map, Handle.seq)
                    ok == out = "saved" /\ reopen
                IN  SetSaved(s, Reopened(job.h, s, ok)) /\ Charge(0, IF ok THEN 0 ELSE 1)
    <3>1. PICK out \in SaveResults, reopen \in BOOLEAN :
              LET s == Save(out, Handle.map, Handle.seq)
                  ok == out = "saved" /\ reopen
              IN  SetSaved(s, Reopened(job.h, s, ok)) /\ Charge(0, IF ok THEN 0 ELSE 1)
      BY <2>2
    <3> DEFINE s == Save(out, Handle.map, Handle.seq)
               ok == out = "saved" /\ reopen
    <3>2. /\ ok \in BOOLEAN /\ (ok => out = "saved") /\ s = Save(out, Handle.map, Handle.seq)
          /\ SetSaved(s, Reopened(job.h, s, ok))
      BY <3>1
    <3>3. doubt' = s.doubt
      BY <3>2 DEF SetSaved
    <3>4. out = "tmp" => s.doubt = doubt
      BY SaveNothing
    <3> HIDE DEF s, ok, A, F
    <3>5. out = "tmp" => FilesSound(meta, disk, name, names, A, F)
      BY <1>7, <3>3, <3>4
    <3>6. s.doubt => F \subseteq firm
      BY <1>6, <3>3
    <3>7. QED
      BY <1>1, <1>6, <3>2, <3>5, <3>6, ReplacedMap
  <2>3. QED
    BY <2>1, <2>2 DEF Checkpoint
<1>9. Working'
  BY <1>2 DEF Working
<1> HIDE DEF A, F
<1>10. QED
  BY <1>1, <1>2, <1>8, <1>9, SettledInv

\* Truncate by path acknowledges an operation only when the map that holds it was
\* saved as a whole, and leaves no handle current.
LEMMA TruncatePathMap == ASSUME JournalInv, TruncatePath PROVE MapInv'
<1> DEFINE op == count.ops + 1
           c == meta[name]
           map == MapOf(c) \cup {op}
           n == c.seq + Committed(c)
<1>1. PICK out \in SaveResults :
          /\ SetSaved(Save(out, map, n), Bumped(hs)) /\ Charge(1, Failing(out))
          /\ IF out = "saved" THEN Acknowledge(op) ELSE UNCHANGED <<acked, firm>>
  BY DEF TruncatePath
<1>2. pc' = "idle" /\ IndInv /\ IndInv'
  BY TruncatePathInv DEF TruncatePath, JournalInv
<1>3. op \in Ops
  BY <1>1, <1>2, ConstantsAssumption DEF IndInv, Plain, Charge, Ops
<1>4. c \in Contents /\ Plain /\ name \in names
  BY <1>2 DEF IndInv, Plain, FilesWithin
<1>5. MapOf(c) \subseteq Ops /\ n \in Nat
  BY <1>4, MapMentioned, MentionedOps, CommittedType DEF Contents
<1>6. map \in SUBSET Ops /\ acked \subseteq map /\ op \in map
  <2>1. acked \subseteq MapOf(c)
    BY <1>4 DEF JournalInv, MapInv, FilesSound
  <2>2. QED
    BY <1>3, <1>5, <2>1
<1> DEFINE s == Save(out, map, n)
<1>7. s = Save(out, map, n) /\ SetSaved(s, Bumped(hs)) /\ s.name \in Files /\ doubt' = s.doubt
  BY <1>1 DEF SetSaved
<1>8. out = "renamed" => acked' = acked /\ firm' = firm
  BY <1>1
<1>9. acked' \subseteq map /\ firm' \subseteq acked'
  BY <1>1, <1>2, <1>6 DEF Acknowledge, IndInv, Plain
<1>10. out = "tmp" => UNCHANGED <<acked, firm>>
  BY <1>1
<1> HIDE DEF s, map, n, op
<1>11. /\ FilesSound(s.meta, s.disk, s.name, s.names, acked', firm')
       /\ ~s.doubt => s.names = {s.name}
       /\ s.name \in s.names /\ s.names \subseteq Files
  <2>1. CASE out = "tmp"
    <3>1. /\ s.meta = meta /\ s.disk = disk /\ s.name = name /\ s.names = names
          /\ s.doubt = doubt
      BY <1>7, <2>1, SaveNothing
    <3>2. /\ FilesSound(meta, disk, name, names, acked, firm)
          /\ ~doubt => names = {name}
          /\ name \in names /\ names \subseteq Files
      BY <1>4 DEF JournalInv, MapInv, Certain, Plain
    <3>3. QED
      BY <1>10, <2>1, <3>1, <3>2
  <2>2. CASE out # "tmp"
    <3>1. out = "renamed" => firm' \subseteq firm
      BY <1>8
    <3>2. SavedSound(s, acked', firm')
      BY <1>5, <1>6, <1>7, <1>9, <2>2, <3>1, SaveSound
    <3>3. s.name = Fresh /\ s.names \in {names \cup {Fresh}, {Fresh}}
      BY <1>7, <2>2 DEF Save
    <3>4. QED
      BY <1>4, <1>7, <3>2, <3>3 DEF Plain, SavedSound
  <2>3. QED
    BY <2>1, <2>2
<1>12. /\ FilesSound(meta', disk', name', names', acked', firm') /\ Certain'
       /\ hs' = Bumped(hs)
  BY <1>7, <1>11, SavedFiles
<1>13. \A h \in Handles : ~hs'[h].seen
  BY <1>2, <1>12, BumpedStale DEF IndInv
<1>14. PairedWith(hs', meta', name', 0)
  BY <1>13, NobodyPaired
<1>15. Working'
  BY <1>2 DEF Working
<1>16. QED
  BY <1>2, <1>12, <1>14, <1>15, SettledInv

\* The rollbacks that the configuration allows.
LEMMA RollbackWorks ==
    ASSUME ~RollbackFails, NEW ok \in {TRUE, ~RollbackFails}
    PROVE  ok = TRUE
  BY ConstantsAssumption

\* A rollback leaves the file as the current handles cache it.
LEMMA RolledBack ==
    ASSUME JournalInv, pc # "idle", NEW c, Holds(c), NEW lost, \A x \in lost : Holds(x),
           SetRollback(c, lost, TRUE), UNCHANGED <<name, names, hs, doubt, acked, firm>>,
           pc' = "idle", IndInv'
    PROVE  MapInv'
<1> DEFINE m == Cut(c)
<1>1. Holds(m) /\ Committed(m) = Handle.end
  BY CutHolds
<1>2. /\ meta' = [meta EXCEPT ![Handle.file] = m]
      /\ disk' = [disk EXCEPT ![Handle.file] = @ \cup lost \cup {m}]
  BY DEF SetRollback
<1> HIDE DEF m
<1>3. FilesSound(meta', disk', name, names, acked, firm)
  BY <1>1, <1>2, RewrittenSound
<1>4. Handle.end \in Nat
  BY BusyPaired DEF HandleStates
<1> DEFINE n == 0
<1>5. n \in Nat /\ Handle.end + n = Committed(m)
  BY <1>1, <1>4
<1> HIDE DEF n
<1>6. PairedWith(hs, meta', name, n)
  BY <1>1, <1>2, <1>5, RewrittenPaired
<1>7. PairedWith(hs', meta', name', 0)
  BY <1>6 DEF n
<1>8. Certain' /\ Working'
  BY DEF JournalInv, MapInv, Certain, Working
<1>9. FilesSound(meta', disk', name', names', acked', firm')
  BY <1>3
<1>10. QED
  BY <1>7, <1>8, <1>9, SettledInv

\* A record that was written is in no cache yet; one that was not is cut off.
LEMMA AppendRecordMap == ASSUME JournalInv, ~RollbackFails, AppendRecord PROVE MapInv'
<1> DEFINE f == Handle.file
           lost == {Cut(meta[f]), Written(TRUE)}
<1>1. pc = "append" /\ UNCHANGED <<name, names, blobs, hs, doubt>> /\ IndInv'
  BY AppendRecordInv DEF AppendRecord, JournalInv
<1>2. f = name /\ Holds(meta[f])
  BY <1>1, BusyPaired, FileHolds
<1>3. \A x \in lost : Holds(x)
  BY <1>1, <1>2, CutHolds, WrittenHolds
<1>4. \/ /\ Fail /\ UNCHANGED <<meta, disk>>
      \/ /\ \E ok \in {TRUE, ~RollbackFails} : SetRollback(meta[f], {}, ok)
         /\ Fail
      \/ /\ \E ok \in {TRUE, ~RollbackFails} : SetRollback(Written(TRUE), lost, ok)
         /\ Fail
      \/ /\ SetRollback(Written(FALSE), lost, FALSE)
         /\ Goto("sync") /\ UNCHANGED <<acked, firm>>
  BY DEF AppendRecord
<1>5. ASSUME Fail PROVE pc' = "idle" /\ UNCHANGED <<acked, firm>>
  BY <1>5 DEF Fail
<1> HIDE DEF f, lost
<1>6. CASE Fail /\ UNCHANGED <<meta, disk>>
  <2>1. /\ FilesSound(meta', disk', name', names', acked', firm') /\ Certain'
    BY <1>1, <1>5, <1>6, SameFiles
  <2>2. PairedWith(hs', meta', name', 0)
    BY <1>1, <1>6 DEF JournalInv, MapInv, Paired
  <2>3. Working'
    BY <1>5, <1>6 DEF Working
  <2>4. QED
    BY <1>1, <1>5, <1>6, <2>1, <2>2, <2>3, SettledInv
<1>7. ASSUME NEW ok \in {TRUE, ~RollbackFails}, SetRollback(meta[f], {}, ok), Fail
      PROVE  MapInv'
  <2> DEFINE none == {}
  <2>1. SetRollback(meta[f], none, TRUE) /\ \A x \in none : Holds(x)
    BY <1>7, RollbackWorks
  <2> HIDE DEF none
  <2>2. pc' = "idle" /\ UNCHANGED <<name, names, hs, doubt, acked, firm>>
    BY <1>1, <1>5, <1>7
  <2>3. QED
    BY <1>1, <1>2, <2>1, <2>2, RolledBack
<1>8. ASSUME NEW ok \in {TRUE, ~RollbackFails}, SetRollback(Written(TRUE), lost, ok), Fail
      PROVE  MapInv'
  <2>1. SetRollback(Written(TRUE), lost, TRUE)
    BY <1>8, RollbackWorks
  <2>2. pc' = "idle" /\ UNCHANGED <<name, names, hs, doubt, acked, firm>>
    BY <1>1, <1>5, <1>8
  <2>3. Holds(Written(TRUE))
    BY <1>1, WrittenHolds
  <2>4. QED
    BY <1>1, <1>3, <2>1, <2>2, <2>3, RolledBack
<1>9. ASSUME SetRollback(Written(FALSE), lost, FALSE), Goto("sync"), UNCHANGED <<acked, firm>>
      PROVE  MapInv'
  <2> DEFINE m == Written(FALSE)
             n == 1
  <2>1. /\ Holds(m) /\ Committed(m) = Handle.end + 1
        /\ MapOf(m) = Handle.map \cup {job.op}
    BY <1>1, WrittenHolds
  <2>2. /\ meta' = [meta EXCEPT ![Handle.file] = m]
        /\ disk' = [disk EXCEPT ![Handle.file] = @ \cup lost \cup {m}]
    BY <1>9 DEF SetRollback, f
  <2>3. n \in Nat /\ Handle.end + n = Committed(m)
    BY <2>1
  <2> HIDE DEF m, n
  <2>4. FilesSound(meta', disk', name, names, acked, firm)
    BY <1>1, <1>3, <2>1, <2>2, RewrittenSound
  <2>5. PairedWith(hs, meta', name, n)
    BY <1>1, <2>1, <2>2, <2>3, RewrittenPaired
  <2>6. pc' = "sync" /\ job' = job
    BY <1>9 DEF Goto
  <2>7. Paired'
    BY <1>1, <2>5, <2>6 DEF Paired, n
  <2>8. meta'[name] = m
    BY <1>1, <2>2, BusyPaired DEF JournalInv, IndInv, FilesWithin
  <2>9. Working'
    BY <1>1, <2>1, <2>6, <2>8 DEF JournalInv, MapInv, Working, Current, Handle
  <2>10. Certain' /\ CacheCoherent'
    BY <1>1, <1>9 DEF JournalInv, MapInv, Certain, CacheCoherent, Current
  <2>11. QED
    BY <1>1, <1>9, <2>4, <2>7, <2>9, <2>10 DEF MapInv
<1>10. QED
  BY <1>4, <1>6, <1>7, <1>8, <1>9

\* A synced record enters the cache of the handle, and no other handle stays
\* current.
LEMMA SyncedPaired ==
    ASSUME JournalInv, pc = "sync", NEW H, H = Committing
    PROVE  /\ PairedWith(H, meta, name, 0)
           /\ H[job.h].open /\ H[job.h].valid /\ H[job.h].seen /\ job.op \in H[job.h].map
<1> DEFINE B == Bumped(hs)
           M == Handle.map \cup {job.op}
           q == Handle.seq + 1
           e == Handle.end + 1
           g == [Handle EXCEPT !.map = M, !.seq = q, !.end = e, !.seen = TRUE]
<1>1. /\ job.h \in Handles /\ Handle \in HandleStates /\ Handle.open /\ Handle.valid
      /\ Handle.file = name /\ Follows(Handle, meta[name], 1) /\ Holds(meta[name])
  BY BusyPaired, FileHolds DEF Current, Handle
<1>2. MapOf(meta[name]) = M
  BY DEF JournalInv, MapInv, Working, Handle
<1>3. Handle.end \in Nat /\ Handle.seq \in Nat /\ meta[name].seq \in Nat
  BY <1>1 DEF HandleStates, Holds, Contents
<1>4. e = Committed(meta[name]) /\ M = MapUpTo(meta[name], e) /\ q = meta[name].seq + e
  BY <1>1, <1>2, <1>3 DEF Follows, MapOf
<1>5. e + 0 = Committed(meta[name]) /\ job.op \in M
  BY <1>3, <1>4
<1>6. H = [B EXCEPT ![job.h] = g] /\ DOMAIN B = Handles
  BY DEF Committing, Bumped
<1>7. \A h \in Handles : ~B[h].seen
  BY BumpedStale DEF JournalInv, IndInv
<1> HIDE DEF B, M, q, e
<1>8. /\ g.file = name /\ g.map = M /\ g.seq = q /\ g.end = e /\ g.seen /\ g.open /\ g.valid
  BY <1>1 DEF HandleStates
<1> HIDE DEF g
<1>9. H[job.h] = g /\ \A h \in Handles : h # job.h => ~H[h].seen
  BY <1>1, <1>6, <1>7
<1>10. Follows(g, meta[name], 0)
  BY <1>4, <1>5, <1>8 DEF Follows
<1>11. PairedWith(H, meta, name, 0)
  BY <1>8, <1>9, <1>10 DEF PairedWith
<1>12. QED
  BY <1>5, <1>8, <1>9, <1>11

\* A record that was synced is all that power loss may leave; one that was not is
\* cut off.
LEMMA SyncRecordMap == ASSUME JournalInv, ~RollbackFails, SyncRecord PROVE MapInv'
<1>1. pc = "sync" /\ UNCHANGED <<name, names, blobs, doubt>> /\ IndInv'
  BY SyncRecordInv DEF SyncRecord, JournalInv
<1>2. Handle.file = name /\ name \in names /\ name \in Files /\ Holds(meta[name])
  BY <1>1, BusyPaired, FileHolds
<1>3. ASSUME disk' = [disk EXCEPT ![Handle.file] = {meta[Handle.file]}], hs' = Committing,
             Goto("checkpoint"), UNCHANGED <<meta, acked, firm>>
      PROVE  MapInv'
  <2>1. FilesSound(meta, disk, name, names, acked, firm) /\ Certain
        /\ DOMAIN disk = Files /\ names \subseteq Files
    BY DEF JournalInv, MapInv, IndInv, Plain, FilesWithin
  <2>2. disk'[name] = {meta[name]} /\ \A f \in names : f # name => disk'[f] = disk[f]
    BY <1>2, <1>3, <2>1
  <2>3. FilesSound(meta, disk', name, names, acked, firm)
    BY <1>2, <2>1, <2>2 DEF FilesSound
  <2>4. /\ PairedWith(hs', meta, name, 0)
        /\ hs'[job.h].open /\ hs'[job.h].valid /\ hs'[job.h].seen /\ job.op \in hs'[job.h].map
    BY <1>1, <1>3, SyncedPaired
  <2>5. pc' = "checkpoint" /\ job' = job
    BY <1>3 DEF Goto
  <2>6. Working'
    BY <1>1, <1>3, <2>2, <2>4, <2>5 DEF Working, Current
  <2>7. Certain'
    BY <1>1, <2>1 DEF Certain
  <2>8. /\ FilesSound(meta', disk', name', names', acked', firm')
        /\ PairedWith(hs', meta', name', 0)
    BY <1>1, <1>3, <2>3, <2>4
  <2>9. QED
    BY <1>1, <2>5, <2>6, <2>7, <2>8, SettledInv
<1>4. ASSUME NEW ok \in {TRUE, ~RollbackFails}, SetRollback(meta[Handle.file], {}, ok),
             Fail, UNCHANGED hs
      PROVE  MapInv'
  <2> DEFINE none == {}
             c == meta[Handle.file]
  <2>1. SetRollback(c, none, TRUE) /\ (\A x \in none : Holds(x)) /\ Holds(c)
    BY <1>2, <1>4, RollbackWorks
  <2> HIDE DEF none, c
  <2>2. pc' = "idle" /\ UNCHANGED <<name, names, hs, doubt, acked, firm>>
    BY <1>1, <1>4 DEF Fail
  <2>3. QED
    BY <1>1, <2>1, <2>2, RolledBack
<1>5. QED
  BY <1>3, <1>4 DEF SyncRecord

\* A kill leaves no handle, and at most a file cut or with a torn record.
LEMMA KillMap == ASSUME JournalInv, Kill PROVE MapInv'
<1> DEFINE H == [h \in Handles |-> NoHandle]
<1>1. IndInv' /\ UNCHANGED <<name, acked, firm, doubt>>
  BY KillInv DEF Kill, JournalInv
<1>2. names \in SUBSET Files /\ FilesSound(meta, disk, name, names, acked, firm) /\ Certain
  BY DEF JournalInv, MapInv, IndInv, Plain
<1>3. PICK m, d : /\ FilesSound(m, d, name, names, acked, firm)
                  /\ SetFiles(m, d, names, H) /\ pc' = "idle"
  <2>1. CASE Vanish(meta, disk, names)
    BY <1>2, <2>1 DEF Vanish
  <2>2. ASSUME pc = "append",
               NEW c \in {Cut(meta[Handle.file]), Written(TRUE)},
               Vanish([meta EXCEPT ![Handle.file] = c],
                      [disk EXCEPT ![Handle.file] = @ \cup {Cut(meta[Handle.file]), c}], names)
        PROVE  \E m, d : /\ FilesSound(m, d, name, names, acked, firm)
                         /\ SetFiles(m, d, names, H) /\ pc' = "idle"
    <3> DEFINE lost == {Cut(meta[Handle.file])}
               m == [meta EXCEPT ![Handle.file] = c]
               d == [disk EXCEPT ![Handle.file] = @ \cup lost \cup {c}]
    <3>1. Holds(Cut(meta[Handle.file])) /\ Holds(Written(TRUE))
      BY <2>2, BusyPaired, FileHolds, CutHolds, WrittenHolds
    <3>2. Holds(c) /\ \A x \in lost : Holds(x)
      BY <2>2, <3>1
    <3>3. [disk EXCEPT ![Handle.file] = @ \cup {Cut(meta[Handle.file]), c}] = d
      <4>1. disk[Handle.file] \cup {Cut(meta[Handle.file]), c} = disk[Handle.file] \cup lost \cup {c}
        OBVIOUS
      <4>2. QED
        BY <4>1
    <3>4. SetFiles(m, d, names, H) /\ pc' = "idle"
      BY <2>2, <3>3 DEF Vanish
    <3> HIDE DEF lost
    <3>5. m = [meta EXCEPT ![Handle.file] = c]
          /\ d = [disk EXCEPT ![Handle.file] = @ \cup lost \cup {c}]
      OBVIOUS
    <3> HIDE DEF m, d
    <3>6. FilesSound(m, d, name, names, acked, firm)
      BY <2>2, <3>2, <3>5, RewrittenSound
    <3>7. QED
      BY <3>4, <3>6
  <2>3. QED
    BY <2>1, <2>2 DEF Kill
<1> HIDE DEF H
<1>4. names' = names /\ hs' = H /\ \A f \in names : meta'[f] = m[f] /\ disk'[f] = d[f]
  BY <1>2, <1>3, KeptFiles
<1>5. FilesSound(meta', disk', name, names, acked, firm)
  BY <1>3, <1>4, SameFilesSound
<1>6. \A h \in Handles : ~hs'[h].open
  BY <1>4 DEF H, NoHandle
<1>7. PairedWith(hs', meta', name', 0)
  BY <1>6, NobodyPaired
<1>8. Working' /\ Certain'
  BY <1>1, <1>2, <1>3, <1>4 DEF Working, Certain
<1>9. FilesSound(meta', disk', name', names', acked', firm')
  BY <1>1, <1>4, <1>5
<1>10. QED
  BY <1>1, <1>3, <1>7, <1>8, <1>9, SettledInv

\* Power loss leaves one of the files that the invariant speaks of.
LEMMA PowerLossMap == ASSUME JournalInv, PowerLoss PROVE MapInv'
<1> DEFINE P(f, c) ==
        /\ name' = f
        /\ Vanish([meta EXCEPT ![f] = c], [disk EXCEPT ![f] = {c}], {f})
        /\ acked' = acked \cap MapOf(c) /\ firm' = firm \cap MapOf(c)
<1>1. PICK f \in names : \E c \in disk[f] : P(f, c)
  BY DEF PowerLoss
<1>2. PICK c \in disk[f] : P(f, c)
  BY <1>1
<1> DEFINE m == [meta EXCEPT ![f] = c]
           d == [disk EXCEPT ![f] = {c}]
           ns == {f}
           H == [h \in Handles |-> NoHandle]
<1>3. IndInv'
  BY PowerLossInv DEF JournalInv
<1>4. f \in Files /\ DOMAIN meta = Files /\ DOMAIN disk = Files
  BY DEF JournalInv, IndInv, Plain, FilesWithin
<1>5. WellFormed(c)
  BY DEF JournalInv, MapInv, FilesSound
<1>6. SetFiles(m, d, ns, H) /\ pc' = "idle" /\ name' = f
  BY <1>2 DEF Vanish
<1>7. m[f] = c /\ d[f] = {c} /\ ns \in SUBSET Files
  BY <1>4
<1>8. acked' \subseteq MapOf(c) /\ firm' \subseteq MapOf(c)
  BY <1>2
<1> HIDE DEF m, d, H
<1>9. names' = ns /\ hs' = H /\ \A x \in ns : meta'[x] = m[x] /\ disk'[x] = d[x]
  BY <1>6, <1>7, KeptFiles
<1>10. meta'[f] = c /\ disk'[f] = {c} /\ names' = {f}
  BY <1>7, <1>9
<1>11. FilesSound(meta', disk', name', names', acked', firm')
  BY <1>5, <1>8, <1>10 DEF FilesSound
<1>12. \A h \in Handles : ~hs'[h].open
  BY <1>9 DEF H, NoHandle
<1>13. PairedWith(hs', meta', name', 0)
  BY <1>12, NobodyPaired
<1>14. Working' /\ Certain'
  BY <1>6, <1>10 DEF Working, Certain
<1>15. QED
  BY <1>3, <1>6, <1>11, <1>13, <1>14, SettledInv

\* Every step keeps the invariant.
LEMMA StepMap == ASSUME ~RollbackFails PROVE JournalInv /\ [Next]_vars => JournalInv'
<1> SUFFICES ASSUME JournalInv, [Next]_vars PROVE JournalInv'
  OBVIOUS
<1>1. IndInv'
  BY StepInv DEF JournalInv
<1>2. MapInv'
  <2>1. CASE UNCHANGED vars
    BY <2>1 DEF vars, JournalInv, MapInv, FilesSound, Certain, Paired, PairedWith, Follows,
                Working, CacheCoherent, Current
  <2>2. CASE \E h \in Handles : Start(h) \/ Open(h) \/ Release(h) \/ Refresh(h)
    BY <2>2, StartMap, OpenMap, ReleaseMap, RefreshMap
  <2>3. CASE Operation
    BY <2>3, ConvertMap, WriteDataMap, AppendRecordMap, SyncRecordMap, CheckpointMap
    DEF Operation
  <2>4. CASE TruncatePath \/ Kill \/ PowerLoss
    BY <2>4, TruncatePathMap, KillMap, PowerLossMap
  <2>5. QED
    BY <2>1, <2>2, <2>3, <2>4 DEF Next
<1>3. QED
  BY <1>1, <1>2 DEF JournalInv

-----------------------------------------------------------------------------
(* The theorems.                                                           *)

\* As long as a failed append is rolled back, every file that may have the name
\* is well-formed, and every current handle caches the map of the file that has
\* it (metadata.c:275-343, 478-547, file.c:21-56).
THEOREM JournalInvHolds == ASSUME ~RollbackFails PROVE Spec => []JournalInv
<1>1. Init => JournalInv
  BY InitInv, MapInit DEF JournalInv
<1>2. JournalInv /\ [Next]_vars => JournalInv'
  BY StepMap
<1>3. QED
  BY <1>1, <1>2, PTL DEF Spec

\* Whatever else fails and whenever the daemon is killed or power is lost, the
\* file that power loss leaves loads, and holds every operation that was
\* acknowledged while the name of the file was certain (metadata.c:275-343,
\* 478-484, 517-547, file.c:23-49).
THEOREM AcknowledgedSurvives == ASSUME ~RollbackFails PROVE Spec => []AckedSurvives
<1>1. JournalInv => AckedSurvives
  <2> SUFFICES ASSUME JournalInv, NEW f \in names, NEW c \in disk[f]
               PROVE  Loads(c) /\ firm \subseteq MapOf(c) /\ (f = name => acked \subseteq MapOf(c))
    BY DEF AckedSurvives
  <2>1. c \in Contents
    BY DEF JournalInv, IndInv, Plain, FilesWithin
  <2>2. /\ WellFormed(c) /\ firm \subseteq MapOf(c)
        /\ f = name => acked \subseteq MapOf(c)
    BY DEF JournalInv, MapInv, FilesSound
  <2>3. QED
    BY <2>1, <2>2, WellFormedLoads
<1>2. QED
  BY <1>1, JournalInvHolds, PTL

\* A handle that reads through its cache without the path lock misses no
\* acknowledged operation (file.c:766-802).
THEOREM CachesCoherent == ASSUME ~RollbackFails PROVE Spec => []CacheCoherent
<1>1. JournalInv => CacheCoherent
  BY DEF JournalInv, MapInv
<1>2. QED
  BY <1>1, JournalInvHolds, PTL

\* Between operations a current handle has the file open that has the name, and
\* caches its map: what it appends will be replayed on the same map (file.c:21-49,
\* metadata.c:519-530).
THEOREM CachesPaired == ASSUME ~RollbackFails PROVE Spec => []CachePaired
<1>1. JournalInv => CachePaired
  <2> SUFFICES ASSUME JournalInv, pc = "idle", NEW h \in Handles, hs[h].open, Current(h)
               PROVE  LET c == meta[name]
                      IN  /\ hs[h].file = name
                          /\ hs[h].end <= Committed(c)
                          /\ hs[h].map = MapUpTo(c, hs[h].end)
                          /\ hs[h].seq = c.seq + hs[h].end
    BY DEF CachePaired
  <2>1. hs[h].file = name /\ Follows(hs[h], meta[name], 0)
    BY DEF JournalInv, MapInv, Paired, PairedWith, Current
  <2>2. hs[h].end \in Nat
    BY DEF JournalInv, IndInv, HandlesWithin, HandleStates
  <2>3. QED
    BY <2>1, <2>2 DEF Follows
<1>2. QED
  BY <1>1, JournalInvHolds, PTL

=============================================================================
