------------------------- MODULE MCStorePersistence -------------------------
(***************************************************************************)
(* Small instances of StorePersistence for TLC.                            *)
(***************************************************************************)
EXTENDS StorePersistence, TLC

CONSTANTS loop, video, i1, i2, i3, i4

OneWriter == {loop}
TwoWriters == {loop, video}
FourInodes == {i1, i2, i3, i4}
Symmetry == Permutations(Inodes)
=============================================================================
