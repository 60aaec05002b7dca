----------------------- MODULE StorePersistenceProofs -----------------------
(***************************************************************************)
(* With one writer, as the comments of store.py assume, save() and load()  *)
(* implement AtomicStore for any number of changes, crashes and failed     *)
(* writes.                                                                 *)
(***************************************************************************)
EXTENDS StorePersistence, TLAPS

SingleWriter == \A v, w \in Writers : v = w

\* The temporary file is not the store file; its halves are as far as the
\* writer is; and what the writer has serialised is what memory holds.
WriterInv ==
    \A w \in Writers :
      /\ writer[w].stage # "idle" => memory # 0
      /\ writer[w].stage \in {"serialized", "first", "second", "replace"} =>
           writer[w].snapshot = memory
      /\ writer[w].stage \in {"first", "second"} =>
           writer[w].fd = tmp /\ tmp # None
      /\ writer[w].stage = "second" => data[tmp].first = memory
      /\ writer[w].stage = "replace" =>
           /\ tmp # None
           /\ data[tmp].first = memory
           /\ data[tmp].second = memory

\* Changes are numbered upwards, and the file is never ahead of memory.
OrderInv == Loaded(file) <= memory /\ memory <= last

StoreInv ==
    /\ TypeOK
    /\ tmp # None => tmp # file
    /\ OrderInv
    /\ WriterInv
    /\ StoreFileIsWhole
    /\ AcknowledgedSurvives

\* What every proof about a step may assume.
StepContext == SingleWriter /\ StoreInv

\* A store file that no writer touches is loaded as before.
LEMMA LoadedUnchanged ==
    ASSUME file' = file, file # None => data'[file] = data[file]
    PROVE  Loaded(file)' = Loaded(file)
BY DEF Loaded, Whole

\* The invariant holds of an empty directory.
THEOREM StoreInitially == Init => StoreInv
BY StoreNoneAssumption
   DEF Init, StoreInv, TypeOK, OrderInv, WriterInv, StoreFileIsWhole,
       AcknowledgedSurvives, Loaded, Whole, Idle, Empty, Stage

(***************************************************************************)
(* One lemma per step.                                                     *)
(***************************************************************************)
LEMMA ChangeStep ==
    ASSUME StepContext, NEW w \in Writers, Change(w)
    PROVE  StoreInv' /\ Atomic!Change
<1> USE DEF StepContext, StoreInv, Change, ToStage
<1>1. Loaded(file)' = Loaded(file)
  BY LoadedUnchanged
<1>2. TypeOK'
  BY DEF TypeOK, Stage
<1>3. WriterInv'
  BY DEF WriterInv, TypeOK, SingleWriter
<1>4. StoreFileIsWhole'
  BY DEF StoreFileIsWhole, Whole
<1>5. AcknowledgedSurvives'
  BY <1>1, SMT DEF AcknowledgedSurvives, TypeOK, OrderInv
<1>6. Atomic!Change
  BY <1>1 DEF Atomic!Change
<1>7. OrderInv'
  BY <1>1, SMT DEF OrderInv, TypeOK, Loaded
<1> QED BY <1>2, <1>3, <1>4, <1>5, <1>6, <1>7

LEMMA SerializeStep ==
    ASSUME StepContext, NEW w \in Writers, Serialize(w)
    PROVE  StoreInv' /\ UNCHANGED <<memory, Loaded(file), last>>
<1> USE DEF StepContext, StoreInv, Serialize, MemoryUnchanged
<1>1. Loaded(file)' = Loaded(file)
  BY LoadedUnchanged
<1>2. TypeOK'
  BY DEF TypeOK, Stage
<1>3. WriterInv'
  BY DEF WriterInv, TypeOK, SingleWriter
<1>4. StoreFileIsWhole'
  BY DEF StoreFileIsWhole, Whole
<1>5. AcknowledgedSurvives'
  BY <1>1 DEF AcknowledgedSurvives
<1>6. OrderInv'
  BY <1>1 DEF OrderInv
<1> QED BY <1>1, <1>2, <1>3, <1>4, <1>5, <1>6

LEMMA OpenStep ==
    ASSUME StepContext, NEW w \in Writers, Open(w)
    PROVE  StoreInv' /\ UNCHANGED <<memory, Loaded(file), last>>
<1> USE DEF StepContext, StoreInv, MemoryUnchanged
<1>1. PICK inode \in Inodes :
        /\ Opened(inode)
        /\ tmp' = inode
        /\ data' = [data EXCEPT ![inode] = Empty]
        /\ writer' = [writer EXCEPT ![w].stage = "first", ![w].fd = inode]
  BY DEF Open
<1>2. UNCHANGED <<file, memory, last, acknowledged>>
      /\ writer[w].stage = "serialized"
  BY DEF Open
<1>3. inode # file
  BY <1>1, StoreNoneAssumption DEF Opened, InUse
<1>4. Loaded(file)' = Loaded(file)
  BY <1>1, <1>2, <1>3, LoadedUnchanged DEF TypeOK
<1>5. TypeOK'
  <2>1. writer' \in [Writers -> [stage : Stage, snapshot : Nat,
                                 fd : Inodes \cup {None}]]
    BY <1>1 DEF TypeOK, Stage
  <2>2. \A v \in Writers :
          (writer[v].stage \in {"first", "second"} <=> writer[v].fd # None)'
    BY <1>1, StoreNoneAssumption DEF TypeOK
  <2>3. data' \in [Inodes -> [first : Nat, second : Nat]]
    BY <1>1 DEF TypeOK, Empty
  <2> QED BY <1>1, <1>2, <2>1, <2>2, <2>3 DEF TypeOK
<1>6. WriterInv'
  BY <1>1, <1>2, StoreNoneAssumption DEF WriterInv, TypeOK, SingleWriter
<1>7. StoreFileIsWhole'
  BY <1>1, <1>2, <1>3 DEF StoreFileIsWhole, Whole, TypeOK
<1>8. AcknowledgedSurvives'
  BY <1>2, <1>4 DEF AcknowledgedSurvives
<1>9. OrderInv'
  BY <1>2, <1>4 DEF OrderInv
<1> QED BY <1>1, <1>2, <1>3, <1>4, <1>5, <1>6, <1>7, <1>8, <1>9

LEMMA WriteFirstStep ==
    ASSUME StepContext, NEW w \in Writers, WriteFirst(w)
    PROVE  StoreInv' /\ UNCHANGED <<memory, Loaded(file), last>>
<1> USE DEF StepContext, StoreInv, WriteFirst, MemoryUnchanged, ToStage
<1>1. writer[w].fd = tmp /\ tmp # None /\ tmp # file /\ tmp \in Inodes
  BY DEF WriterInv, TypeOK
<1>2. Loaded(file)' = Loaded(file)
  BY <1>1, LoadedUnchanged DEF TypeOK
<1>3. TypeOK'
  <2>1. writer' \in [Writers -> [stage : Stage, snapshot : Nat,
                                 fd : Inodes \cup {None}]]
    BY DEF TypeOK, Stage
  <2>2. \A v \in Writers :
          (writer[v].stage \in {"first", "second"} <=> writer[v].fd # None)'
    BY DEF TypeOK
  <2>3. data' \in [Inodes -> [first : Nat, second : Nat]]
    BY <1>1 DEF TypeOK
  <2> QED BY <2>1, <2>2, <2>3 DEF TypeOK
<1>4. WriterInv'
  BY <1>1 DEF WriterInv, TypeOK, SingleWriter
<1>5. StoreFileIsWhole'
  BY <1>1 DEF StoreFileIsWhole, Whole, TypeOK
<1>6. AcknowledgedSurvives'
  BY <1>2 DEF AcknowledgedSurvives
<1>7. OrderInv'
  BY <1>2 DEF OrderInv
<1> QED BY <1>1, <1>2, <1>3, <1>4, <1>5, <1>6, <1>7

LEMMA WriteSecondStep ==
    ASSUME StepContext, NEW w \in Writers, WriteSecond(w)
    PROVE  StoreInv' /\ UNCHANGED <<memory, Loaded(file), last>>
<1> USE DEF StepContext, StoreInv, WriteSecond, MemoryUnchanged
<1>1. /\ writer[w].fd = tmp /\ tmp # None /\ tmp # file /\ tmp \in Inodes
      /\ data[tmp].first = memory
  BY DEF WriterInv, TypeOK
<1>2. Loaded(file)' = Loaded(file)
  BY <1>1, LoadedUnchanged DEF TypeOK
<1>3. TypeOK'
  <2>1. writer' \in [Writers -> [stage : Stage, snapshot : Nat,
                                 fd : Inodes \cup {None}]]
    BY DEF TypeOK, Stage
  <2>2. \A v \in Writers :
          (writer[v].stage \in {"first", "second"} <=> writer[v].fd # None)'
    BY DEF TypeOK
  <2>3. data' \in [Inodes -> [first : Nat, second : Nat]]
    BY <1>1 DEF TypeOK
  <2> QED BY <2>1, <2>2, <2>3 DEF TypeOK
<1>4. WriterInv'
  BY <1>1 DEF WriterInv, TypeOK, SingleWriter
<1>5. StoreFileIsWhole'
  BY <1>1 DEF StoreFileIsWhole, Whole, TypeOK
<1>6. AcknowledgedSurvives'
  BY <1>2 DEF AcknowledgedSurvives
<1>7. OrderInv'
  BY <1>2 DEF OrderInv
<1> QED BY <1>1, <1>2, <1>3, <1>4, <1>5, <1>6, <1>7

\* The rename is the step that saves.
LEMMA ReplaceStep ==
    ASSUME StepContext, NEW w \in Writers, Replace(w)
    PROVE  StoreInv' /\ Atomic!Save
<1> USE DEF StepContext, StoreInv, Replace, ReadyToReplace
<1>1. /\ writer[w].snapshot = memory /\ memory # 0 /\ tmp \in Inodes
      /\ data[tmp].first = memory /\ data[tmp].second = memory
  BY DEF WriterInv, TypeOK
<1>2. Loaded(file)' = memory
  BY <1>1, StoreNoneAssumption DEF Loaded, Whole
<1>3. TypeOK'
  BY <1>1, SMT DEF TypeOK, Stage, Idle
<1>4. WriterInv'
  BY <1>1 DEF WriterInv, TypeOK, SingleWriter, Idle
<1>5. StoreFileIsWhole'
  BY <1>1 DEF StoreFileIsWhole, Whole
<1>6. AcknowledgedSurvives'
  <2>1. acknowledged' <= memory
    BY <1>1, SMT DEF AcknowledgedSurvives, TypeOK
  <2> QED BY <1>2, <2>1 DEF AcknowledgedSurvives
<1>7. Atomic!Save
  BY <1>2 DEF Atomic!Save
<1>8. OrderInv'
  BY <1>2, SMT DEF OrderInv, TypeOK
<1> QED BY <1>1, <1>3, <1>4, <1>5, <1>6, <1>7, <1>8

LEMMA SaveRaisesStep ==
    ASSUME StepContext, NEW w \in Writers, SaveRaises(w)
    PROVE  StoreInv' /\ UNCHANGED <<memory, Loaded(file), last>>
<1> USE DEF StepContext, StoreInv, SaveRaises, AfterRaise, MemoryUnchanged
<1>1. Loaded(file)' = Loaded(file)
  BY LoadedUnchanged
<1>2. TypeOK'
  BY DEF TypeOK, Stage, Idle
<1>3. WriterInv'
  BY DEF WriterInv, TypeOK, SingleWriter, Idle
<1>4. StoreFileIsWhole'
  BY DEF StoreFileIsWhole, Whole
<1>5. AcknowledgedSurvives'
  BY <1>1 DEF AcknowledgedSurvives
<1>6. OrderInv'
  BY <1>1 DEF OrderInv
<1> QED BY <1>1, <1>2, <1>3, <1>4, <1>5, <1>6

LEMMA RestartStep ==
    ASSUME StepContext, Restart
    PROVE  StoreInv' /\ Atomic!Restart
<1> USE DEF StepContext, StoreInv, Restart
<1>1. Loaded(file)' = Loaded(file) /\ Loaded(file) \in Nat
  BY LoadedUnchanged DEF Loaded, TypeOK
<1>2. TypeOK'
  BY <1>1 DEF TypeOK, Stage, Idle
<1>3. WriterInv'
  BY DEF WriterInv, Idle
<1>4. StoreFileIsWhole'
  BY DEF StoreFileIsWhole, Whole
<1>5. AcknowledgedSurvives'
  BY <1>1 DEF AcknowledgedSurvives
<1>6. Atomic!Restart
  BY <1>1 DEF Atomic!Restart
<1>7. OrderInv'
  BY <1>1, SMT DEF OrderInv, TypeOK
<1> QED BY <1>2, <1>3, <1>4, <1>5, <1>6, <1>7

(***************************************************************************)
(* The theorems.                                                           *)
(***************************************************************************)
\* Every step keeps the invariant and is a step of AtomicStore or a stutter.
LEMMA StoreStep ==
    ASSUME StepContext, [Next]_vars
    PROVE  StoreInv' /\ [Atomic!Next]_<<memory, Loaded(file), last>>
<1>1. ASSUME NEW w \in Writers, Change(w)
      PROVE  StoreInv' /\ Atomic!Next
  BY <1>1, ChangeStep DEF Atomic!Next
<1>2. ASSUME NEW w \in Writers, Replace(w)
      PROVE  StoreInv' /\ Atomic!Next
  BY <1>2, ReplaceStep DEF Atomic!Next
<1>3. ASSUME NEW w \in Writers,
             \/ Serialize(w) \/ Open(w) \/ WriteFirst(w)
             \/ WriteSecond(w) \/ SaveRaises(w)
      PROVE  StoreInv' /\ UNCHANGED <<memory, Loaded(file), last>>
  BY <1>3, SerializeStep, OpenStep, WriteFirstStep, WriteSecondStep,
     SaveRaisesStep
<1>4. CASE Restart
  BY <1>4, RestartStep DEF Atomic!Next
<1>5. CASE UNCHANGED vars
  <2>1. Loaded(file)' = Loaded(file)
    BY <1>5, LoadedUnchanged DEF vars
  <2>2. StoreInv'
    BY <1>5, <2>1
       DEF StepContext, StoreInv, vars, TypeOK, OrderInv, WriterInv, StoreFileIsWhole,
           AcknowledgedSurvives, Whole
  <2> QED BY <1>5, <2>1, <2>2 DEF vars
<1> QED BY <1>1, <1>2, <1>3, <1>4, <1>5 DEF Next

\* With one writer the invariant always holds.
THEOREM StoreAlways ==
    ASSUME SingleWriter
    PROVE  Spec => []StoreInv
<1>1. StoreInv /\ [Next]_vars => StoreInv'
  BY StoreStep DEF StepContext
<1> QED BY <1>1, StoreInitially, PTL DEF Spec

\* With one writer store.json is never torn, and nothing that save() has
\* acknowledged is lost, wherever the process dies.
THEOREM StoreIsDurable ==
    ASSUME SingleWriter
    PROVE  Spec => [](TypeOK /\ StoreFileIsWhole /\ AcknowledgedSurvives)
<1>1. StoreInv => TypeOK /\ StoreFileIsWhole /\ AcknowledgedSurvives
  BY DEF StoreInv
<1> QED BY <1>1, StoreAlways, PTL

\* With one writer the steps of save() and load() look like one atomic step.
THEOREM StoreIsAtomic ==
    ASSUME SingleWriter
    PROVE  Spec => ImplementsAtomicStore
<1>1. Init => Atomic!Init
  BY DEF Init, Atomic!Init, Loaded
<1>2. StoreInv /\ [Next]_vars => [Atomic!Next]_<<memory, Loaded(file), last>>
  BY StoreStep DEF StepContext
<1> QED BY <1>1, <1>2, StoreAlways, PTL DEF Spec, Atomic!Spec, ImplementsAtomicStore
=============================================================================
