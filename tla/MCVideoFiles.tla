---------------------------- MODULE MCVideoFiles ----------------------------
(***************************************************************************)
(* A small instance of VideoFiles for TLC.                                 *)
(***************************************************************************)
EXTENDS VideoFiles, TLC

CONSTANTS j1, j2, c1, c2

TwoJobs == {j1, j2}
TwoCallers == {c1, c2}
Symmetry == Permutations(Jobs) \cup Permutations(Callers)
=============================================================================
