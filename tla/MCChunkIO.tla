------------------------------ MODULE MCChunkIO -----------------------------
(***************************************************************************)
(* Small instances of ChunkIO for TLC.                                     *)
(***************************************************************************)
EXTENDS ChunkIO, TLC

\* A new file; and chunks that cross windows, so that a write at 4 consumes one
\* and, as its region grows, the next, with a hole before the last.
SomeLayouts == {<<>>, << <<1, 2>>, <<3, 4>>, <<8, 1>> >>}

\* Inside and on the border of windows of every size; 9 lies in the last window
\* of size 4, which ends above MaxOffset.
SomePoints == {0, 3, 4, 9}
==================================================
