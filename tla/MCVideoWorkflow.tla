-------------------------- MODULE MCVideoWorkflow --------------------------
(***************************************************************************)
(* Small instances of VideoWorkflow for TLC.                               *)
(***************************************************************************)
EXTENDS VideoWorkflowInvariant, VideoViews, TLC

CONSTANTS j1, j2, j3, r1, r2, c1, c2, loop, t1, t2, v1, v2

ThreeJobs == {j1, j2, j3}
TwoResults == {r1, r2}
TwoJobs == {j1, j2}
OneResult == {r1}
OneCaller == {c1}
TwoCallers == {c1, c2}
EventLoop == {loop}
TwoThreads == {t1, t2}
OneCopy == {v1}
TwoCopies == {v1, v2}
NoResults == {}

\* With one minute of lead and a clock that runs to 2, time 1 can be asked
\* for at 0 only and is over at 1; time 2 can be asked for until 1.
Times == {1, 2}
OneTime == {2}

\* Can be asked for at 0 and has come when the clock stops at 1.
Soon == {1}

JobSymmetry == Permutations(Jobs)
Symmetry == Permutations(Jobs) \cup Permutations(Callers)
              \cup Permutations(Handlers) \cup Permutations(Copies)
              \cup Permutations(Results)
=============================================================================
