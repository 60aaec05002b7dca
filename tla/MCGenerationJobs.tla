-------------------------- MODULE MCGenerationJobs --------------------------
(***************************************************************************)
(* A small instance of GenerationJobs for TLC.                             *)
(***************************************************************************)
EXTENDS GenerationJobs, TLC

CONSTANTS j1, j2, p1, item1, f1, f2, edit1

TwoJobs == {j1, j2}
OneProduct == {p1}
OneItem == {item1}
TwoFormats == {f1, f2}
OneEdit == {edit1}
=============================================================================
