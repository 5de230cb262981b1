--------------------------- MODULE MCCompactQueue ---------------------------
(***************************************************************************)
(* Small instances of CompactQueue for TLC.                                *)
(***************************************************************************)
EXTENDS CompactQueue, TLC

CONSTANTS p1, p2, c1, c2

OnePath == {p1}
TwoPaths == {p1, p2}
TwoClients == {c1, c2}

Symmetry == Permutations(Paths) \cup Permutations(Clients)
=============================================================================
