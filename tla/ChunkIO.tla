------------------------------- MODULE ChunkIO ------------------------------
(***************************************************************************)
(* The bytes of one file: the chunk map of src/fuse_ops/file.c, the        *)
(* repacking of src/core/chunkio.c and the choice of the window size in    *)
(* src/core/compact.c.  A file is cut into windows of one size; a chunk    *)
(* says where the bytes of a part of the file are found, as a blob in the  *)
(* data file.  A map is packed when each chunk starts a window and stays   *)
(* in it.  Older versions left maps that are not.                          *)
(*                                                                         *)
(* The operations hold the path lock and the cache lock, so each is one    *)
(* step here; the module MetaJournal has the steps inside.  A reader that  *)
(* has a map keeps using it, with the data file it belongs to.             *)
(*                                                                         *)
(* A byte is the number of the operation that wrote it; 0 is a zero byte.  *)
(* The data file is a sequence of blobs: a blob occupies one place         *)
(* whatever its compressed size.  Whether it is compressed depends on its  *)
(* bytes and shows only when it is cut, so it is chosen there.             *)
(***************************************************************************)
EXTENDS Integers, SequencesExt, FiniteSetsExt

CONSTANTS MinWindow, MaxWindow,  \* MYFS_MIN_WINDOW_SIZE, MYFS_MAX_WINDOW_SIZE
          DefaultWindow,         \* MYFS_DEFAULT_WINDOW_SIZE
          MaxOffset,             \* INT64_MAX, the largest off_t
          MinSample,             \* ADAPTIVE_MIN_SAMPLE
          Points,                \* where reads, writes and truncates begin and end
          OldLayouts,            \* the chunks <<offset, length>> of old files
          MaxOps                 \* bound: writes and truncates

\* A number above zero that has no odd divisor but 1: w & (w - 1) = 0.
PowerOf2(w) == \A d \in 2 .. w : w % d = 0 => d % 2 = 0

\* The window sizes are powers of two; old files had chunks that are in order
\* and do not overlap, but begin and end anywhere.
ASSUME ConstantsAssumption ==
    /\ {MinWindow, DefaultWindow, MaxWindow, MinSample} \subseteq Nat \ {0}
    /\ MinWindow <= DefaultWindow /\ DefaultWindow <= MaxWindow
    /\ PowerOf2(MinWindow) /\ PowerOf2(DefaultWindow) /\ PowerOf2(MaxWindow)
    /\ MaxOffset \in Nat
    /\ Points \subseteq 0 .. MaxOffset
    /\ \A old \in OldLayouts :
           /\ old \in Seq(Nat \X Nat)
           /\ \A i \in DOMAIN old : /\ 0 < old[i][2]
                                    /\ old[i][1] + old[i][2] <= MaxOffset
           /\ \A i, j \in DOMAIN old : i < j => old[i][1] + old[i][2] <= old[j][1]
    /\ MaxOps \in Nat

VARIABLES map,      \* chunk_map.chunks
          size,     \* chunk_map.logical_size
          window,   \* window_size of the generation
          data,     \* the blobs of the data file
          stats,    \* adaptive_stats
          reader,   \* a read in progress: its map and what it has to return
          content,  \* the bytes the file must have
          ops       \* how many operations took place

vars == <<map, size, window, data, stats, reader, content, ops>>

-----------------------------------------------------------------------------
(***************************************************************************)
(* Windows.                                                                *)
(***************************************************************************)

\* myfs_window_size_valid
ValidWindow(w) == MinWindow <= w /\ w <= MaxWindow /\ PowerOf2(w)

\* myfs_window_base, myfs_window_ceil.  The latter refuses an offset near
\* UINT64_MAX, which no off_t is.
Base(offset, w) == offset - (offset % w)

Ceil(offset, w) == Base(offset + w - 1, w)

\* The windows of size w that begin in lo .. hi - 1.
Windows(lo, hi, w) == {x \in lo .. hi - 1 : x % w = 0}

-----------------------------------------------------------------------------
(***************************************************************************)
(* Chunks.  blob is the place of the payload, which may be longer than the *)
(* chunk.                                                                  *)
(***************************************************************************)
Chunks == [lo : Nat, len : Nat, blob : Nat]

End(c) == c.lo + c.len

Covers(c, p) == c.lo <= p /\ p < End(c)

Meets(c, lo, hi) == c.lo < hi /\ lo < End(c)

\* chunk_map_is_packed, which is computed again whenever a map changes.
Packed(m, w) ==
    /\ ValidWindow(w)
    /\ \A i \in DOMAIN m :
           /\ m[i].lo % w = 0 /\ 0 < m[i].len /\ m[i].len <= w
           /\ i > 1 => m[i - 1].lo < m[i].lo

\* myfs_chunk_payload_load: the byte at p of a file with the blobs d.
PayloadByte(c, p, d) == d[c.blob][p - c.lo + 1]

-----------------------------------------------------------------------------
(***************************************************************************)
(* read_from_inode.                                                        *)
(***************************************************************************)

\* The chunk that a read at p uses, 0 if it takes p for a hole.
FindChunk(m, w, p) ==
    IF Packed(m, w)
    THEN LET i == SelectInSeq(m, LAMBDA c : c.lo >= Base(p, w))
         IN  IF i # 0 /\ m[i].lo = Base(p, w) /\ p < End(m[i]) THEN i ELSE 0
    ELSE SelectInSeq(m, LAMBDA c : Covers(c, p))

\* The end of the hole at p: the next chunk or the end of the file.
HoleEnd(m, p, n) ==
    LET i == SelectInSeq(m, LAMBDA c : c.lo > p)
    IN  IF i = 0 THEN n ELSE Min({m[i].lo, n})

\* What a read from offset to the end of a file of n bytes returns.
ReadAll(m, w, d, n, offset) ==
    LET from[p \in Nat] ==
            IF p >= n THEN <<>>
            ELSE LET i == FindChunk(m, w, p)
                     end == IF i = 0 THEN HoleEnd(m, p, n) ELSE Min({End(m[i]), n})
                     part == [k \in 1 .. end - p |->
                                 IF i = 0 THEN 0 ELSE PayloadByte(m[i], p + k - 1, d)]
                 IN  part \o from[end]
    IN  from[offset]

-----------------------------------------------------------------------------
(***************************************************************************)
(* myfs_repack_windows: the chunks s and the patch become one blob for     *)
(* each window of size w that holds any of their bytes.                    *)
(***************************************************************************)
Patch(lo, hi, byte) == [lo |-> lo, hi |-> hi, byte |-> byte]

NoPatch == Patch(0, 0, 0)

InPatch(patch, p) == patch.lo <= p /\ p < patch.hi

\* Defect: the window buffer keeps what the last call left in it.
DefectByteAt(s, patch, p) ==
    LET i == SelectLastInSeq(s, LAMBDA c : Covers(c, p))
    IN  IF InPatch(patch, p) THEN patch.byte
        ELSE IF i # 0 THEN PayloadByte(s[i], p, data) ELSE -1

\* Defect: the patch is copied before the chunks.
DefectOrder(s, patch, p) ==
    LET i == SelectLastInSeq(s, LAMBDA c : Covers(c, p))
    IN  IF i # 0 THEN PayloadByte(s[i], p, data)
        ELSE IF InPatch(patch, p) THEN patch.byte ELSE 0

\* A byte of the window buffer: zero, under the chunks in their order, under
\* the patch.
ByteAt(s, patch, p) ==
    LET i == SelectLastInSeq(s, LAMBDA c : Covers(c, p))
    IN  IF InPatch(patch, p) THEN patch.byte
        ELSE IF i # 0 THEN PayloadByte(s[i], p, data) ELSE 0

\* How far the sources reach in the window [lo, hi), lo if not at all.
Used(s, patch, lo, hi) ==
    Max({lo} \cup {Min({End(s[i]), hi}) : i \in {j \in DOMAIN s : Meets(s[j], lo, hi)}}
             \cup (IF patch.lo < hi /\ lo < patch.hi THEN {Min({patch.hi, hi})} ELSE {}))

\* The numbers of a finite set in ascending order.
Ascending(S) ==
    [i \in 1 .. Cardinality(S) |-> CHOOSE x \in S : Cardinality({y \in S : y < x}) = i - 1]

\* The blobs and the chunks that refer to them, the first at place eof + 1.
Repack(s, lo, hi, w, patch, eof) ==
    LET wins == Ascending({x \in Windows(Base(lo, w), hi, w) :
                               Used(s, patch, x, x + w) > x})
        len(i) == Used(s, patch, wins[i], wins[i] + w) - wins[i]
    IN  [blobs |-> [i \in DOMAIN wins |->
                       [k \in 1 .. len(i) |-> ByteAt(s, patch, wins[i] + k - 1)]],
         chunks |-> [i \in DOMAIN wins |->
                       [lo |-> wins[i], len |-> len(i), blob |-> eof + i]]]

\* lseek(SEEK_END)
Eof == Len(data)

\* myfs_blob_append at the end of the file.
Appended(eof, blobs) == SubSeq(data, 1, eof) \o blobs

-----------------------------------------------------------------------------
(***************************************************************************)
(* myfs_write_locked.                                                      *)
(***************************************************************************)

\* The chunks a region consumes: from the first that ends after it starts to
\* the last before one that starts after it ends.
First(r) ==
    LET i == SelectInSeq(map, LAMBDA c : End(c) > r.lo)
    IN  IF i = 0 THEN Len(map) + 1 ELSE i

Beyond(r) ==
    LET i == SelectInSubSeq(map, First(r), Len(map), LAMBDA c : c.lo >= r.hi)
    IN  IF i = 0 THEN Len(map) + 1 ELSE i

Consumed(r) == SubSeq(map, First(r), Beyond(r) - 1)

\* The borders of windows that no chunk crosses.
Borders ==
    {x \in 0 .. MaxOffset :
        x % window = 0 /\ \A i \in DOMAIN map : ~(map[i].lo < x /\ x < End(map[i]))}

\* The windows of the write grow until they pull in no further chunk, at most
\* one round for each chunk: up to the nearest such borders.
Region(lo, hi) == [lo |-> Max({x \in Borders : x <= lo}),
                   hi |-> Min({x \in Borders : hi <= x})]

\* A region that ends above INT64_MAX is refused.
Fits(hi) == \E x \in Borders : hi <= x

\* The evidence of a write: windows it fills, and windows that hold other
\* bytes as well.
Evidence(lo, hi) ==
    LET wins == Windows(Base(lo, window), Ceil(hi, window), window)
        full == {x \in wins : lo <= x /\ x + window <= hi}
        partial == {x \in wins \ full :
                       \E i \in DOMAIN map : Meets(map[i], x, x + window)}
    IN  [full |-> stats.full + Cardinality(full),
         partial |-> stats.partial + Cardinality(partial)]

Count == ops < MaxOps /\ ops' = ops + 1

\* The new chunks replace the consumed ones.
Write(lo, hi) ==
    LET r == Region(lo, hi)
        out == Repack(Consumed(r), r.lo, r.hi, window, Patch(lo, hi, ops + 1), Eof)
    IN  /\ lo < hi /\ Count /\ Fits(hi)
        /\ data' = Appended(Eof, out.blobs)
        /\ map' = SubSeq(map, 1, First(r) - 1) \o out.chunks
                      \o SubSeq(map, Beyond(r), Len(map))
        /\ size' = Max({size, hi})
        /\ content' = [p \in DOMAIN content |-> IF lo <= p /\ p < hi THEN ops + 1 ELSE content[p]]
        /\ stats' = Evidence(lo, hi)
        /\ UNCHANGED <<window, reader>>

\* A write whose fdatasync fails leaves its blobs behind; one that stops earlier
\* leaves fewer.
WriteFails(lo, hi) ==
    LET r == Region(lo, hi)
        out == Repack(Consumed(r), r.lo, r.hi, window, Patch(lo, hi, ops + 1), Eof)
    IN  /\ lo < hi /\ Count /\ Fits(hi)
        /\ data' = Appended(Eof, out.blobs)
        /\ UNCHANGED <<map, size, window, stats, reader, content>>

-----------------------------------------------------------------------------
(***************************************************************************)
(* Truncate.                                                               *)
(***************************************************************************)

\* Defect: a chunk is kept when it starts at the new size.
DefectKept(n) == {i \in DOMAIN map : map[i].lo <= n}

\* The chunks that start before the new size; the array is sorted.
Kept(n) == {i \in DOMAIN map : map[i].lo < n}

\* The last of them is cut when it ends after the new size.
LastKept(n) == Cardinality(Kept(n))

Cut(n) == LastKept(n) > 0 /\ End(map[LastKept(n)]) > n

\* A compressed chunk is cut by writing what stays of it again ...
Rewritten(n) ==
    LET c == map[LastKept(n)]
    IN  Appended(Eof, <<[k \in 1 .. n - c.lo |-> PayloadByte(c, c.lo + k - 1, data)]>>)

\* ... a raw one keeps its blob, as compressed ones did in old files.
Shortened(n, blob) ==
    SubSeq(map, 1, LastKept(n) - 1)
        \o <<[map[LastKept(n)] EXCEPT !.len = n - map[LastKept(n)].lo, !.blob = blob]>>

Truncate(n) ==
    /\ Count
    /\ \/ ~Cut(n) /\ map' = SubSeq(map, 1, LastKept(n)) /\ UNCHANGED data
       \/ Cut(n) /\ map' = Shortened(n, map[LastKept(n)].blob) /\ UNCHANGED data
       \/ Cut(n) /\ map' = Shortened(n, Eof + 1) /\ data' = Rewritten(n)
    /\ size' = n
    /\ content' = [p \in DOMAIN content |-> IF p < n THEN content[p] ELSE 0]
    /\ UNCHANGED <<window, stats, reader>>

\* It fails after it wrote a chunk again.
TruncateFails(n) ==
    /\ Count /\ Cut(n) /\ data' = Rewritten(n)
    /\ UNCHANGED <<map, size, window, stats, reader, content>>

-----------------------------------------------------------------------------
(***************************************************************************)
(* compact_data_file_locked.                                               *)
(***************************************************************************)

\* Defect: the largest window is doubled as well.
DefectResizeTarget(st, bytes) ==
    IF st.full >= MinSample /\ st.partial = 0 THEN window * 2 ELSE window

\* myfs_choose_resize_target: the new size is a half or the double if that
\* saves as many bytes as the file has to move.
ResizeTarget(st, bytes) ==
    LET sample == st.full + st.partial
        shrink == st.partial * 100 >= sample * 60
        grow == ~shrink /\ st.full * 100 >= sample * 90
    IN  IF sample < MinSample THEN window
        ELSE IF shrink /\ window > MinWindow /\ st.partial * (window \div 2) >= bytes
        THEN window \div 2
        ELSE IF grow /\ window < MaxWindow /\ st.full * window >= bytes
        THEN window * 2
        ELSE window

LiveBytes == FoldLeft(LAMBDA n, c : n + c.len, 0, map)

\* A reader stays on the data file of its generation.
ReaderLeftBehind == reader' = IF reader.here THEN [reader EXCEPT !.data = data, !.here = FALSE]
                              ELSE reader

\* The blobs of a packed file are copied as they are ...
CompactVerbatim ==
    /\ data # <<>> /\ Packed(map, window)
    /\ data' = [i \in DOMAIN map |-> data[map[i].blob]]
    /\ map' = [i \in DOMAIN map |-> [map[i] EXCEPT !.blob = i]]
    /\ ReaderLeftBehind
    /\ UNCHANGED <<size, window, stats, content, ops>>

\* The evidence of a ticket is a part of what was gathered: writes go on after
\* the claim, and a cooldown or an ordinary request leave it aside.
Snapshots == [full : 0 .. stats.full, partial : 0 .. stats.partial]

\* ... any other file, and one whose window changes, is repacked.  The writers
\* go on with the new map.
CompactRepack ==
    \E snapshot \in Snapshots :
        LET target == ResizeTarget(snapshot, LiveBytes)
            end == Max({0} \cup {End(map[i]) : i \in DOMAIN map})
            out == Repack(map, 0, Ceil(end, target), target, NoPatch, 0)
        IN  /\ data # <<>>
            /\ ~Packed(map, window) \/ target # window
            /\ Ceil(end, target) <= MaxOffset
            /\ data' = out.blobs /\ map' = out.chunks /\ window' = target
            /\ stats' = IF target = window THEN stats
                        ELSE [full |-> stats.full - snapshot.full,
                              partial |-> stats.partial - snapshot.partial]
            /\ ReaderLeftBehind
            /\ UNCHANGED <<size, content, ops>>

-----------------------------------------------------------------------------
\* A read takes the cached map of its handle; the operations above go on
\* beside it (file.c:96-98).
ReadBegins ==
    /\ ~reader.busy
    /\ reader' = [busy |-> TRUE, here |-> TRUE, map |-> map, window |-> window,
                  size |-> size, content |-> content, data |-> <<>>]
    /\ UNCHANGED <<map, size, window, data, stats, content, ops>>

NoReader == [busy |-> FALSE, here |-> FALSE, map |-> <<>>, window |-> DefaultWindow,
             size |-> 0, content |-> [p \in 0 .. MaxOffset |-> 0], data |-> <<>>]

\* A new file, or one that an old version of the program wrote: its bytes are
\* a number of their own.
Init ==
    /\ \E old \in OldLayouts :
           LET at(p) == \E i \in DOMAIN old : old[i][1] <= p /\ p < old[i][1] + old[i][2]
           IN  /\ map = [i \in DOMAIN old |-> [lo |-> old[i][1], len |-> old[i][2], blob |-> i]]
               /\ data = [i \in DOMAIN old |-> [k \in 1 .. old[i][2] |-> MaxOps + 1]]
               /\ size = Max({0} \cup {old[i][1] + old[i][2] : i \in DOMAIN old})
               /\ content = [p \in 0 .. MaxOffset |-> IF at(p) THEN MaxOps + 1 ELSE 0]
    /\ window = DefaultWindow
    /\ stats = [full |-> 0, partial |-> 0]
    /\ reader = NoReader
    /\ ops = 0

Next ==
    \/ \E lo, hi \in Points : Write(lo, hi) \/ WriteFails(lo, hi)
    \/ \E n \in Points : Truncate(n) \/ TruncateFails(n)
    \/ CompactVerbatim \/ CompactRepack
    \/ ReadBegins

Spec == Init /\ [][Next]_vars

-----------------------------------------------------------------------------
(***************************************************************************)
(* Properties.                                                             *)
(***************************************************************************)
Byte == 0 .. MaxOps + 1

\* The only typing statement of this module.
TypeOK ==
    /\ map \in Seq(Chunks) /\ size \in 0 .. MaxOffset /\ window \in Nat \ {0}
    /\ data \in Seq(Seq(Byte))
    /\ stats \in [full : Nat, partial : Nat]
    /\ content \in [0 .. MaxOffset -> Byte]
    /\ ops \in 0 .. MaxOps

\* The chunks are in order, do not overlap, hold a byte each, lie within the
\* file, and their blobs hold all their bytes: what the binary search, the
\* search for the end of a hole and the journal's index of the first consumed
\* chunk rely on (file.c:656-720, 979-1010).
MapSound ==
    \A i \in DOMAIN map :
        /\ 0 < map[i].len /\ End(map[i]) <= size
        /\ i > 1 => End(map[i - 1]) <= map[i].lo
        /\ map[i].blob \in DOMAIN data /\ map[i].len <= Len(data[map[i].blob])

Reads(m, w, d, n, bytes) ==
    \A p \in Points : p <= n =>
        ReadAll(m, w, d, n, p) = [k \in 1 .. n - p |-> bytes[p + k - 1]]

\* A read returns the bytes last written, zeros in holes and after an extension,
\* and all of them; so does a read that began before the latest operations,
\* which get no byte of theirs into it (file.c:638-761, chunkio.c:190-380,
\* file.c:96-98).
ContentRead ==
    /\ Reads(map, window, data, size, content)
    /\ reader.busy =>
           Reads(reader.map, reader.window, IF reader.here THEN data ELSE reader.data,
                 reader.size, reader.content)

\* Once a map is packed it stays packed, through writes, truncates and changes
\* of the window size, and a compaction packs it (README.md:375, chunkio.c:81-97).
StaysPacked ==
    [][Packed(map, window) \/ (map' # map /\ content' = content /\ size' = size)
          => Packed(map', window')]_vars
=============================================================================
