---------------------------- MODULE SharedStore -----------------------------
(***************************************************************************)
(* save() of services/store.py as the handlers of the event loop see it     *)
(* while a thread of the shorts workflow saves too.                         *)
(*                                                                         *)
(* save() serialises everything, writes store.tmp and renames it.  A thread *)
(* can be anywhere between the first and the last of these while the loop   *)
(* goes on, and what it then renames is what it had serialised.  The loop   *)
(* takes no lock, so that its own save() may overlap: both write the same   *)
(* store.tmp, and whichever renames it takes what is there, be it the       *)
(* loop's data, the thread's or a torn mixture; the other finds no file and *)
(* raises, or is left writing into store.json itself.  Threads take one     *)
(* lock for their saves, so that only one is under way.                     *)
(*                                                                         *)
(* StorePersistence takes both writers apart into the single steps.         *)
(***************************************************************************)

EXTENDS Naturals

CONSTANTS
    Nothing,        \* what load() makes of a file that is absent or torn
    MaxThreadSaves  \* bound on the saves of threads and on their overlaps

VARIABLES
    disk,           \* what load() would find
    thread          \* the save() of a thread: whether one is under way, whether
                    \* a save() of the loop has overlapped it, and the versions
                    \* that it may rename or write into store.json; count is
                    \* for the bound

NoThread(count) ==
    [saving |-> FALSE, clashed |-> FALSE, versions |-> {}, count |-> count]

ThreadEnds == thread' = NoThread(thread.count)

ThreadTypeOK(Snapshots) ==
    /\ thread \in [saving : BOOLEAN, clashed : BOOLEAN,
                   versions : SUBSET Snapshots, count : 0..MaxThreadSaves]
    /\ ~thread.saving => thread = NoThread(thread.count)

\* The loop saves `new` while a thread is saving, or begins to.
Clash(new) ==
    /\ thread.count < MaxThreadSaves
    /\ thread' = [saving |-> TRUE, clashed |-> TRUE,
                  versions |-> thread.versions \cup {new},
                  count |-> thread.count + 1]

(***************************************************************************)
(* The save() of a handler, which returns or raises.                       *)
(***************************************************************************)
LoopSaves(new) ==
    \/ ~thread.saving /\ disk' = new /\ UNCHANGED thread
    \/ disk' \in thread.versions \cup {new, Nothing} /\ Clash(new)

LoopSaveRaises(new) ==
    \/ UNCHANGED <<disk, thread>>
    \/ disk' \in thread.versions \cup {new, Nothing, disk} /\ Clash(new)

(***************************************************************************)
(* The save() of a thread.                                                 *)
(***************************************************************************)
ThreadSerializes(now) ==
    /\ ~thread.saving
    /\ thread.count < MaxThreadSaves
    /\ thread' = [saving |-> TRUE, clashed |-> FALSE, versions |-> {now},
                  count |-> thread.count + 1]
    /\ UNCHANGED disk

ThreadReplaces ==
    /\ thread.saving
    /\ disk' \in thread.versions
    /\ ThreadEnds

ThreadRaises ==
    /\ thread.saving
    /\ ThreadEnds
    /\ UNCHANGED disk

\* After an overlap store.json may be a file that the thread still writes, or
\* hold a mixture.
ThreadSpoils ==
    /\ thread.clashed
    /\ disk' \in thread.versions \cup {Nothing}
    /\ UNCHANGED thread \/ ThreadEnds

ThreadSaves(now) ==
    ThreadSerializes(now) \/ ThreadReplaces \/ ThreadRaises \/ ThreadSpoils
=============================================================================
