---------------------------- MODULE MCMetaJournal ---------------------------
(***************************************************************************)
(* Small instances of MetaJournal for TLC.                                 *)
(***************************************************************************)
EXTENDS MetaJournal, TLC

CONSTANTS h1, h2

TwoHandles == {h1, h2}
SixFiles == 0 .. 5
=============================================================================
