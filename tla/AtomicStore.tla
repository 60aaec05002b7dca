---------------------------- MODULE AtomicStore -----------------------------
(***************************************************************************)
(* What the comments of store.py promise of the store file: it always      *)
(* holds the whole of some earlier data, a save replaces that by the       *)
(* present data in one step, and a restart continues from it.              *)
(***************************************************************************)
EXTENDS Naturals

VARIABLES
    memory,     \* the number of the last change that the dictionaries contain
    disk,       \* the number of the last change that the store file contains
    last        \* the number of the last change that was made

Init == memory = 0 /\ disk = 0 /\ last = 0

Change ==
    /\ last' = last + 1
    /\ memory' = last'
    /\ UNCHANGED disk

Save ==
    /\ disk' = memory
    /\ UNCHANGED <<memory, last>>

Restart ==
    /\ memory' = disk
    /\ UNCHANGED <<disk, last>>

Next == Change \/ Save \/ Restart

Spec == Init /\ [][Next]_<<memory, disk, last>>
=============================================================================
