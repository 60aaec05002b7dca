--------------------------- MODULE MCOpenAIBudget ---------------------------
(***************************************************************************)
(* A small instance of OpenAIBudget for TLC: answers that cost 2 and 14,    *)
(* three threads and a limit that three cheap answers reach.               *)
(***************************************************************************)
EXTENDS OpenAIBudget

CONSTANTS t1, t2, t3

ThreeThreads == {t1, t2, t3}

\* An unknown model: the fallback pricing applies
SomeUsages == {[prompt |-> 1, completion |-> 0], [prompt |-> 1, completion |-> 1]}

=============================================================================
