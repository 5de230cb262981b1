---------------------------- MODULE MCGenerations ---------------------------
(***************************************************************************)
(* Small instances of Generations for TLC.                                 *)
(***************************************************************************)
EXTENDS Generations, TLC

CONSTANTS g1, g2, g3, i1, i2, h1, h2

TwoGens == {g1, g2}
ThreeGens == {g1, g2, g3}
OneInc == {i1}
TwoIncs == {i1, i2}
OneHandle == {h1}
TwoHandles == {h1, h2}

\* Generations, inode numbers and handles are interchangeable.
Symmetry == Permutations(Gens) \cup Permutations(Incs) \cup Permutations(Handles)
=============================================================================
