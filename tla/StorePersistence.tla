-------------------------- MODULE StorePersistence --------------------------
(***************************************************************************)
(* store.save() and store.load() taken apart (services/store.py).          *)
(*                                                                         *)
(* Every handler that changes one of the dictionaries calls save(): the    *)
(* coroutines of the event loop (products, generations, history, posts,    *)
(* inquiries, customers) and, under a lock of its own that the loop does   *)
(* not take, the threads of the shorts workflow.  save() serialises        *)
(* everything, writes one common temporary file and renames it to          *)
(* store.json.                                                             *)
(*                                                                         *)
(* A file is an inode; a name refers to one, and so does the descriptor of *)
(* a writer, also after the name has been moved.  Data are identified by   *)
(* the number of the last change they contain, and a file has two halves,  *)
(* which is what it takes to tell a whole file from a torn one.            *)
(***************************************************************************)
EXTENDS Naturals

CONSTANTS
    Writers,        \* the threads that call save()
    Inodes,         \* enough of them for two names and every descriptor
    None,           \* no file
    MaxChanges      \* bound on the number of changes

ASSUME StoreNoneAssumption == None \notin Inodes
ASSUME StoreBoundAssumption == MaxChanges \in Nat

VARIABLES
    memory,         \* the last change in the dictionaries
    last,           \* the last change that was made
    acknowledged,   \* the last change whose save() returned
    writer,         \* what each writer is doing, its data and its descriptor
    tmp,            \* what store.tmp refers to
    file,           \* what store.json refers to
    data            \* the two halves of every inode

vars == <<memory, last, acknowledged, writer, tmp, file, data>>

Stage == {"idle", "changed", "serialized", "first", "second", "replace"}
Idle == [stage |-> "idle", snapshot |-> 0, fd |-> None]
Empty == [first |-> 0, second |-> 0]

Whole(content) == content.first # 0 /\ content.first = content.second

\* The change that load() finds: a file that is absent or torn is no data.
Loaded(inode) ==
    IF inode # None /\ Whole(data[inode]) THEN data[inode].first ELSE 0

ToStage(w, stage) == writer' = [writer EXCEPT ![w].stage = stage]
MemoryUnchanged == UNCHANGED <<memory, last, acknowledged>>

(***************************************************************************)
(* A handler and the save() it calls.                                      *)
(***************************************************************************)
Change(w) ==
    /\ writer[w].stage = "idle"
    /\ last < MaxChanges
    /\ last' = last + 1
    /\ memory' = last'
    /\ ToStage(w, "changed")
    /\ UNCHANGED <<acknowledged, tmp, file, data>>

\* json.dumps() holds the interpreter lock, so the snapshot is of one moment.
Serialize(w) ==
    /\ writer[w].stage = "changed"
    /\ writer' = [writer EXCEPT ![w].stage = "serialized",
                                ![w].snapshot = memory]
    /\ UNCHANGED <<tmp, file, data>>
    /\ MemoryUnchanged

InUse(inode) ==
    inode \in {tmp, file} \cup {writer[w].fd : w \in Writers}

\* Mutated form: the store file itself is opened for writing.
OpenedStore(inode) ==
    IF file # None THEN inode = file ELSE ~InUse(inode)

\* What open(store.tmp, "w") opens: the file of that name, or a new one.
Opened(inode) ==
    IF tmp # None THEN inode = tmp ELSE ~InUse(inode)

Open(w) ==
    /\ writer[w].stage = "serialized"
    /\ \E inode \in Inodes :
         /\ Opened(inode)
         /\ tmp' = inode
         /\ data' = [data EXCEPT ![inode] = Empty]
         /\ writer' = [writer EXCEPT ![w].stage = "first", ![w].fd = inode]
    /\ UNCHANGED file
    /\ MemoryUnchanged

WriteFirst(w) ==
    /\ writer[w].stage = "first"
    /\ data' = [data EXCEPT ![writer[w].fd].first = writer[w].snapshot]
    /\ ToStage(w, "second")
    /\ UNCHANGED <<tmp, file>>
    /\ MemoryUnchanged

WriteSecond(w) ==
    /\ writer[w].stage = "second"
    /\ data' = [data EXCEPT ![writer[w].fd].second = writer[w].snapshot]
    /\ writer' = [writer EXCEPT ![w].stage = "replace", ![w].fd = None]
    /\ UNCHANGED <<tmp, file>>
    /\ MemoryUnchanged

\* Mutated form: the temporary file is moved as soon as it is open.
ReadyToReplaceEarly == {"first", "replace"}

ReadyToReplace == {"replace"}

Replace(w) ==
    /\ writer[w].stage \in ReadyToReplace
    /\ tmp # None
    /\ file' = tmp
    /\ tmp' = None
    /\ writer' = [writer EXCEPT ![w] = Idle]
    /\ acknowledged' = IF writer[w].snapshot > acknowledged
                         THEN writer[w].snapshot ELSE acknowledged
    /\ UNCHANGED <<memory, last, data>>

AfterRaise(w) == Idle

\* Serialising, writing or renaming raises, the last also because another
\* writer has moved the temporary file: the change stays in memory.
SaveRaises(w) ==
    /\ writer[w].stage # "idle"
    /\ writer' = [writer EXCEPT ![w] = AfterRaise(w)]
    /\ UNCHANGED <<tmp, file, data>>
    /\ MemoryUnchanged

(***************************************************************************)
(* The process dies and a new one loads the file.                          *)
(***************************************************************************)
Restart ==
    /\ memory' = Loaded(file)
    /\ writer' = [w \in Writers |-> Idle]
    /\ UNCHANGED <<last, acknowledged, tmp, file, data>>

Init ==
    /\ memory = 0
    /\ last = 0
    /\ acknowledged = 0
    /\ writer = [w \in Writers |-> Idle]
    /\ tmp = None
    /\ file = None
    /\ data = [inode \in Inodes |-> Empty]

Next ==
    \/ \E w \in Writers :
         \/ Change(w)
         \/ Serialize(w)
         \/ Open(w)
         \/ WriteFirst(w)
         \/ WriteSecond(w)
         \/ Replace(w)
         \/ SaveRaises(w)
    \/ Restart

Spec == Init /\ [][Next]_vars

(***************************************************************************)
(* Properties.                                                             *)
(***************************************************************************)

\* Every variable has its type; a descriptor is open exactly while writing.
TypeOK ==
    /\ memory \in Nat /\ last \in Nat /\ acknowledged \in Nat
    /\ writer \in [Writers -> [stage : Stage, snapshot : Nat,
                               fd : Inodes \cup {None}]]
    /\ \A w \in Writers :
         writer[w].stage \in {"first", "second"} <=> writer[w].fd # None
    /\ tmp \in Inodes \cup {None}
    /\ file \in Inodes \cup {None}
    /\ data \in [Inodes -> [first : Nat, second : Nat]]

\* "Atomic replacement: the existing file does not break even if the process
\* dies while writing" (store.py, last line of save()).
StoreFileIsWhole == file # None => Whole(data[file])

\* What save() has acknowledged is in the data that a restart would load, and
\* in memory, wherever the process dies.
AcknowledgedSurvives ==
    /\ acknowledged <= Loaded(file)
    /\ acknowledged <= memory

\* The whole of save() and load() looks like one atomic step.
Atomic == INSTANCE AtomicStore WITH disk <- Loaded(file)
ImplementsAtomicStore == Atomic!Spec
=============================================================================
