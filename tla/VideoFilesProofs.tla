-------------------------- MODULE VideoFilesProofs --------------------------
(***************************************************************************)
(* What VideoFiles promises about the files of the shorts, for any number  *)
(* of jobs, sweeps and restarts and all lifetimes of directories.  Two     *)
(* facts carry the proof: a job that is completed or failed stays so, and  *)
(* what a sweep has chosen is such a job (SweepInv); and an index never    *)
(* holds an older date than that of its job (IndexInv).                    *)
(***************************************************************************)
EXTENDS VideoFiles, TLAPS

(***************************************************************************)
(* The inductive invariant.                                                *)
(***************************************************************************)
\* The render of a job is where its status says.
RenderInv ==
    \A j \in Jobs :
      /\ render[j].stage = "none" <=> status[j] \notin {"queued", "processing"}
      /\ render[j].stage = "queued" <=> status[j] = "queued"
      /\ render[j].stage \in {"none", "queued"} => render[j].written = 0

\* A final file is whole from the moment ffmpeg has returned.
FinalInv ==
    \A j \in Jobs :
      render[j].stage \in {"probe", "rendered"} => final[j] = "complete"

\* Each index holds jobs of its status only, under their current dates.
IndexInv ==
    \A j \in Jobs :
      /\ failedAt[j] # None => status[j] = "failed" /\ failedAt[j] = updated[j]
      /\ completedAt[j] # None => status[j] = "completed" /\ completedAt[j] = updated[j]

\* What a sweep has chosen is still completed or failed, and had not been
\* touched for its lifetime; a directory to forget is gone.
ChosenRightly(c) ==
    /\ \A candidate \in sweep[c].left :
         /\ status[candidate.job] = candidate.status
         /\ candidate.status = "completed" =>
              candidate.at + CompletedTTL < sweep[c].at
    /\ sweep[c].stage \in {"removing", "forget"} =>
         /\ sweep[c].current.job \in Jobs
         /\ status[sweep[c].current.job] = "failed"
    /\ sweep[c].stage = "forget" => work[sweep[c].current.job] = None

SweepInv == \A c \in Callers : ChosenRightly(c)

FilesInv ==
    /\ TypeOK /\ RenderInv /\ FinalInv /\ IndexInv /\ SweepInv
    /\ RenderInputsSurvive /\ WorkIsFoundAgain /\ CompletedVideoIsWhole

-----------------------------------------------------------------------------

(***************************************************************************)
(* The model's operators.                                                  *)
(***************************************************************************)
\* The two groups of inputs, and what is written after each of them.
LEMMA InputFacts ==
  /\ Len(Inputs) = 2 /\ DOMAIN Inputs = 1..2
  /\ Inputs[1] = "images" /\ Inputs[2] = "speech"
  /\ Written(0) = {} /\ Written(1) = {"images"}
  /\ Written(2) = {"images", "speech"} /\ Managed = {"images", "speech"}
<1>1. Len(Inputs) = 2 /\ DOMAIN Inputs = 1..2 /\ Inputs[1] = "images" /\ Inputs[2] = "speech"
  BY DEF Inputs
<1>2. 1..0 = {} /\ 1..1 = {1} /\ 1..2 = {1, 2}
  OBVIOUS
<1>3. Written(0) = {} /\ Written(1) = {"images"} /\ Written(2) = {"images", "speech"}
  BY <1>1, <1>2 DEF Written
<1> QED BY <1>1, <1>3 DEF Managed

\* A directory is a set of files, and no set of files is None.
LEMMA DirectoryFacts ==
  ASSUME NEW dir \in Directory
  PROVE  /\ dir # None => dir \subseteq {"images", "speech", "other"}
         /\ \A files : files \subseteq {"images", "speech", "other"} =>
              files \in Directory /\ files # None
BY InputFacts, FilesNoneAssumption DEF Directory

\* Removing files leaves directories.
LEMMA FilesShrink ==
  ASSUME TypeOK, NEW j, NEW removed, work[j] # None,
         work' = [work EXCEPT ![j] = @ \ removed]
  PROVE  work' \in [Jobs -> Directory]
<1>1. CASE j \in Jobs
  <2>1. work[j] \ removed \in Directory
    BY <1>1, DirectoryFacts DEF TypeOK
  <2> QED BY <2>1 DEF TypeOK
<1>2. CASE j \notin Jobs
  BY <1>2 DEF TypeOK
<1> QED BY <1>1, <1>2

\* What a write of a job leaves: the other jobs as they were, the job with its
\* status and date in the index of that status.
LEMMA PersistFacts ==
  ASSUME TypeOK, NEW j \in Jobs, NEW s \in Status, NEW at \in Nat, Persist(j, s, at)
  PROVE  /\ status' \in [Jobs -> Status] /\ updated' \in [Jobs -> Nat]
         /\ failedAt' \in [Jobs -> Nat \cup {None}]
         /\ completedAt' \in [Jobs -> Nat \cup {None}]
         /\ status'[j] = s /\ updated'[j] = at
         /\ failedAt'[j] = (IF s = "failed" THEN at ELSE None)
         /\ completedAt'[j] = (IF s = "completed" THEN at ELSE None)
         /\ \A k \in Jobs \ {j} :
              /\ status'[k] = status[k] /\ updated'[k] = updated[k]
              /\ failedAt'[k] = failedAt[k] /\ completedAt'[k] = completedAt[k]
BY DEF Persist, CountsAsFailed, TypeOK

(***************************************************************************)
(* Type correctness.                                                       *)
(***************************************************************************)
\* The sweeps keep their type when the clock moves on.
SweepType(time) ==
    sweep \in [Callers -> [stage : SweepStage, at : 0..time, left : SUBSET Candidate,
                           current : Candidate \cup {NoCandidate}]]

LEMMA WriteType ==
  ASSUME TypeOK, NEW j \in Jobs, NEW s \in Status, Write(j, s)
  PROVE  /\ status' \in [Jobs -> Status] /\ updated' \in [Jobs -> 0..now']
         /\ failedAt' \in [Jobs -> Nat \cup {None}]
         /\ completedAt' \in [Jobs -> Nat \cup {None}]
         /\ now' \in Nat /\ SweepType(now')
<1>1. now \in Nat /\ now' = now + 1 /\ Persist(j, s, now)
  BY DEF TypeOK, Write
<1>2. \A k \in Jobs : updated[k] \in 0..now'
  BY <1>1 DEF TypeOK
<1>3. updated' \in [Jobs -> 0..now']
  BY <1>1, <1>2 DEF TypeOK, Persist
<1>4. 0..now \subseteq 0..now'
  BY <1>1
<1>5. SweepType(now')
  BY <1>4 DEF TypeOK, SweepType
<1> QED BY <1>1, <1>3, <1>5, PersistFacts

LEMMA RenderType ==
  ASSUME TypeOK, RenderNext
  PROVE  TypeOK'
<1> USE DEF FilesUnchanged, jobVars
<1> PICK j \in Jobs :
      \/ RenderStart(j) \/ WriteInput(j) \/ RenderCheckInputs(j) \/ EncodeSegments(j)
      \/ ConcatSegments(j) \/ RenderProbe(j) \/ RenderRaises(j) \/ RenderEnd(j)
  BY DEF RenderNext
<1>1. \A stage \in RenderStage :
        ToStage(j, stage) => render' \in [Jobs -> [stage : RenderStage, written : 0..Len(Inputs)]]
  BY DEF ToStage, TypeOK
<1>2. \A stage \in RenderStage :
        ToStage(j, stage) /\ UNCHANGED <<work, final>> /\ FilesUnchanged => TypeOK'
  BY <1>1 DEF TypeOK
<1>3. CASE RenderStart(j)
  <2>1. Write(j, "processing") /\ ToStage(j, "inputs")
        /\ UNCHANGED <<nextCleanup, work, final, sweep, restarts>>
    BY <1>3 DEF RenderStart
  <2>2. "processing" \in Status /\ "inputs" \in RenderStage
    BY DEF Status, RenderStage
  <2> QED BY <2>1, <2>2, <1>1, WriteType DEF TypeOK, SweepType
<1>4. CASE WriteInput(j)
  <2> DEFINE n == render[j].written + 1
             dir == IF work[j] = None THEN {} ELSE work[j]
  <2>1. n \in 1..2 /\ dir \subseteq {"images", "speech", "other"}
        /\ work' = [work EXCEPT ![j] = dir \cup {Inputs[n]}]
        /\ render' = [render EXCEPT ![j].written = n] /\ UNCHANGED final /\ FilesUnchanged
    BY <1>4, InputFacts, DirectoryFacts DEF WriteInput, TypeOK
  <2>2. dir \cup {Inputs[n]} \in Directory
    BY <2>1, InputFacts, DirectoryFacts DEF Directory
  <2>3. render' \in [Jobs -> [stage : RenderStage, written : 0..Len(Inputs)]]
    BY <2>1, InputFacts DEF TypeOK
  <2> QED BY <2>1, <2>2, <2>3 DEF TypeOK
<1>5. CASE RenderCheckInputs(j) \/ EncodeSegments(j) \/ RenderProbe(j) \/ RenderRaises(j)
  <2>1. \E stage \in {"encode", "concat", "rendered", "raised"} :
          ToStage(j, stage) /\ UNCHANGED <<work, final>> /\ FilesUnchanged
    BY <1>5 DEF RenderCheckInputs, EncodeSegments, RenderProbe, RenderRaises
  <2> QED BY <2>1, <1>2 DEF RenderStage
<1>6. CASE ConcatSegments(j)
  <2>1. final' \in [Jobs -> FinalFile]
    BY <1>6 DEF ConcatSegments, TypeOK, FinalFile
  <2>2. UNCHANGED render \/ ToStage(j, "probe")
    BY <1>6 DEF ConcatSegments
  <2>3. render' \in [Jobs -> [stage : RenderStage, written : 0..Len(Inputs)]]
    BY <2>2, <1>1 DEF TypeOK, RenderStage
  <2> QED BY <1>6, <2>1, <2>3 DEF ConcatSegments, TypeOK
<1>7. CASE RenderEnd(j)
  <2>1. \E s \in {"failed", "completed"} : Write(j, s)
    BY <1>7 DEF RenderEnd
  <2>2. render' \in [Jobs -> [stage : RenderStage, written : 0..Len(Inputs)]]
    BY <1>7, InputFacts DEF RenderEnd, NoRender, TypeOK, RenderStage
  <2> QED BY <1>7, <2>1, <2>2, WriteType DEF RenderEnd, TypeOK, SweepType, Status
<1> QED BY <1>3, <1>4, <1>5, <1>6, <1>7

LEMMA CreateType ==
  ASSUME TypeOK, CreateNext
  PROVE  TypeOK'
<1> USE DEF SweepUnchanged, jobVars
<1> PICK c \in Callers :
      \/ CreateBegin(c) \/ SweepBegin(c)
      \/ \E candidate \in sweep[c].left :
           SweepCompleted(c, candidate) \/ SweepFailed(c, candidate)
      \/ RemoveTree(c) \/ RemoveFails(c) \/ Forget(c) \/ CreateEnd(c)
  BY DEF CreateNext
<1>0. IdleSweep \in [stage : SweepStage, at : 0..now, left : SUBSET Candidate,
                     current : Candidate \cup {NoCandidate}]
      /\ now \in Nat /\ now \in 0..now
  BY DEF IdleSweep, SweepStage, TypeOK
<1>1. CASE CreateBegin(c)
  BY <1>0, <1>1 DEF CreateBegin, TypeOK, SweepStage, IdleSweep
<1>2. CASE SweepBegin(c)
  <2> DEFINE at == sweep[c].at
             due == nextCleanup = None \/ at >= nextCleanup
             chosen == {[job |-> j, status |-> "failed", at |-> failedAt[j]] :
                          j \in Expired(failedAt, FailedTTL, at)}
                       \cup {[job |-> j, status |-> "completed", at |-> completedAt[j]] :
                          j \in Expired(completedAt, CompletedTTL, at)}
  <2>1. chosen \subseteq Candidate
    BY DEF Expired, TypeOK, Candidate
  <2>2. sweep' = [sweep EXCEPT ![c].stage = "sweeping",
                               ![c].left = IF due THEN chosen ELSE {}]
    BY <1>2 DEF SweepBegin
  <2>3. sweep' \in [Callers -> [stage : SweepStage, at : 0..now, left : SUBSET Candidate,
                                current : Candidate \cup {NoCandidate}]]
    <3> HIDE DEF due, chosen
    <3> QED BY <2>1, <2>2 DEF TypeOK, SweepStage
  <2>4. at + Interval \in Nat
    BY FilesTimeAssumption DEF TypeOK
  <2>5. nextCleanup' \in Nat \cup {None}
    BY <1>2, <2>4 DEF SweepBegin, TypeOK
  <2> QED BY <1>2, <2>3, <2>5 DEF SweepBegin, TypeOK
<1>3. ASSUME NEW candidate \in sweep[c].left, SweepCompleted(c, candidate)
      PROVE  TypeOK'
  <2> DEFINE j == candidate.job
  <2>1. candidate \in Candidate /\ j \in Jobs
    BY DEF TypeOK, Candidate
  <2>2. work' \in [Jobs -> Directory]
    <3>1. ASSUME NEW removed, work[j] # None,
                 work' = [work EXCEPT ![j] = @ \ removed]
          PROVE  work' \in [Jobs -> Directory]
      BY <2>1, <3>1, FilesShrink
    <3> QED BY <1>3, <3>1 DEF SweepCompleted, TypeOK
  <2>3. completedAt' \in [Jobs -> Nat \cup {None}]
    BY <1>3, <2>1 DEF SweepCompleted, TypeOK
  <2>4. sweep' \in [Callers -> [stage : SweepStage, at : 0..now, left : SUBSET Candidate,
                                current : Candidate \cup {NoCandidate}]]
    BY <1>3 DEF SweepCompleted, TypeOK
  <2> QED BY <1>3, <2>2, <2>3, <2>4 DEF SweepCompleted, TypeOK
<1>4. ASSUME NEW candidate \in sweep[c].left, SweepFailed(c, candidate)
      PROVE  TypeOK'
  <2>1. candidate \in Candidate
    BY DEF TypeOK
  <2>2. sweep' \in [Callers -> [stage : SweepStage, at : 0..now, left : SUBSET Candidate,
                                current : Candidate \cup {NoCandidate}]]
    <3> DEFINE stage == IF work[candidate.job] = None THEN "forget" ELSE "removing"
    <3>1. sweep' = [sweep EXCEPT ![c].left = @ \ {candidate}, ![c].current = candidate,
                                 ![c].stage = stage]
      BY <1>4 DEF SweepFailed
    <3>2. stage \in SweepStage
      BY DEF SweepStage
    <3> DEFINE S == [stage : SweepStage, at : 0..now, left : SUBSET Candidate,
                     current : Candidate \cup {NoCandidate}]
               r1 == [sweep[c] EXCEPT !.left = @ \ {candidate}]
               r2 == [r1 EXCEPT !.current = candidate]
               r3 == [r2 EXCEPT !.stage = stage]
    <3>3. sweep \in [Callers -> S] /\ r1 \in S
      BY DEF TypeOK
    <3>4. r2 \in S
      <4> HIDE DEF r1
      <4> QED BY <2>1, <3>3
    <3>5. r3 \in S
      <4> HIDE DEF r2, stage
      <4> QED BY <3>2, <3>4
    <3>6. sweep' = [sweep EXCEPT ![c] = r3]
      <4> HIDE DEF S, stage
      <4> QED BY <3>1, <3>3
    <3> HIDE DEF r3, S
    <3>7. sweep' \in [Callers -> S]
      BY <3>3, <3>5, <3>6
    <3> QED BY <3>7 DEF S
  <2> QED BY <1>4, <2>2 DEF SweepFailed, TypeOK
<1>5. CASE RemoveTree(c)
  <2> DEFINE j == sweep[c].current.job
  <2>1. work' \in [Jobs -> Directory]
    <3>1. ASSUME NEW f, work[j] # None, work' = [work EXCEPT ![j] = @ \ {f}]
          PROVE  work' \in [Jobs -> Directory]
      BY <3>1, FilesShrink
    <3>2. None \in Directory
      BY DEF Directory
    <3> QED BY <1>5, <3>1, <3>2 DEF RemoveTree, TypeOK
  <2>2. sweep' \in [Callers -> [stage : SweepStage, at : 0..now, left : SUBSET Candidate,
                                current : Candidate \cup {NoCandidate}]]
    <3>1. UNCHANGED sweep \/ sweep' = [sweep EXCEPT ![c].stage = "forget"]
      BY <1>5 DEF RemoveTree
    <3>2. "forget" \in SweepStage
      BY DEF SweepStage
    <3>3. CASE sweep' = [sweep EXCEPT ![c].stage = "forget"]
      BY <3>2, <3>3 DEF TypeOK
    <3> QED BY <3>1, <3>3 DEF TypeOK
  <2> QED BY <1>5, <2>1, <2>2 DEF RemoveTree, TypeOK
<1>6. CASE RemoveFails(c)
  BY <1>6 DEF RemoveFails, AfterRemoveFails, TypeOK, SweepStage
<1>7. CASE Forget(c)
  <2>1. failedAt' \in [Jobs -> Nat \cup {None}]
    BY <1>7 DEF Forget, TypeOK
  <2> QED BY <1>7, <2>1 DEF Forget, TypeOK, SweepStage
<1>8. CASE CreateEnd(c)
  <2>1. sweep' = [sweep EXCEPT ![c] = IdleSweep]
        /\ UNCHANGED <<nextCleanup, work, final, now, restarts>>
    BY <1>8 DEF CreateEnd
  <2>2. CASE UNCHANGED <<jobVars, render>>
    BY <1>0, <2>1, <2>2 DEF TypeOK
  <2>3. ASSUME NEW j \in Jobs, Persist(j, "queued", sweep[c].at),
               render' = [render EXCEPT ![j].stage = "queued"]
        PROVE  TypeOK'
    <3>1. "queued" \in Status /\ "queued" \in RenderStage /\ sweep[c].at \in 0..now
      BY DEF Status, RenderStage, TypeOK
    <3>2. updated' \in [Jobs -> 0..now]
      BY <2>3, <3>1 DEF Persist, TypeOK
    <3>3. render' \in [Jobs -> [stage : RenderStage, written : 0..Len(Inputs)]]
      BY <2>3, <3>1 DEF TypeOK
    <3>4. /\ status' \in [Jobs -> Status]
          /\ failedAt' \in [Jobs -> Nat \cup {None}]
          /\ completedAt' \in [Jobs -> Nat \cup {None}]
      BY <2>3, <3>1, <1>0, PersistFacts
    <3> QED BY <1>0, <2>1, <3>2, <3>3, <3>4 DEF TypeOK
  <2> QED BY <1>8, <2>2, <2>3 DEF CreateEnd
<1> QED BY <1>1, <1>2, <1>3, <1>4, <1>5, <1>6, <1>7, <1>8

LEMMA RestartType ==
  ASSUME TypeOK, Restart
  PROVE  TypeOK'
<1>1. now \in Nat /\ now' = now + 1 /\ restarts' \in Nat
  BY DEF Restart, TypeOK
<1>2. \A j \in Jobs : updated[j] \in 0..now' /\ now \in 0..now'
  BY <1>1 DEF TypeOK
<1>3. updated' \in [Jobs -> 0..now'] /\ status' \in [Jobs -> Status]
  BY <1>2 DEF Restart, TypeOK, Recovered, Status
<1>4. \A j \in Jobs : updated'[j] \in Nat
  BY <1>1, <1>3
<1>5. failedAt' \in [Jobs -> Nat \cup {None}] /\ completedAt' \in [Jobs -> Nat \cup {None}]
  BY <1>4 DEF Restart
<1>6. IdleSweep \in [stage : SweepStage, at : 0..now', left : SUBSET Candidate,
                     current : Candidate \cup {NoCandidate}]
  BY <1>1 DEF IdleSweep, SweepStage
<1>7. NoRender \in [stage : RenderStage, written : 0..Len(Inputs)]
  BY InputFacts DEF NoRender, RenderStage
<1> QED BY <1>1, <1>3, <1>5, <1>6, <1>7 DEF Restart, TypeOK

LEMMA TypeStep ==
  ASSUME TypeOK, [Next]_vars
  PROVE  TypeOK'
<1>1. ASSUME NEW j \in Jobs, Decide(j) PROVE TypeOK'
  BY <1>1, WriteType DEF Decide, TypeOK, SweepType
<1>2. ASSUME NEW j \in Jobs, ForeignFile(j) PROVE TypeOK'
  <2>1. work' \in [Jobs -> Directory]
    BY <1>2, DirectoryFacts DEF ForeignFile, TypeOK
  <2> QED BY <1>2, <2>1 DEF ForeignFile, FilesUnchanged, jobVars, TypeOK
<1>3. CASE Tick
  <2>1. now \in Nat /\ now' = now + 1 /\ 0..now \subseteq 0..now'
    BY <1>3 DEF Tick, TypeOK
  <2>2. updated \in [Jobs -> 0..now'] /\ SweepType(now')
    BY <2>1 DEF TypeOK, SweepType
  <2> QED BY <1>3, <2>1, <2>2 DEF Tick, jobVars, TypeOK, SweepType
<1>4. CASE UNCHANGED vars
  BY <1>4 DEF vars, jobVars, TypeOK
<1> QED BY <1>1, <1>2, <1>3, <1>4, RenderType, CreateType, RestartType DEF Next

\* Every variable has its type, and nothing is dated in the future.
THEOREM FilesTypeCorrect == Spec => []TypeOK
<1>1. Init => TypeOK
  <2> SUFFICES ASSUME Init PROVE TypeOK
    OBVIOUS
  <2>1. NoRender \in [stage : RenderStage, written : 0..Len(Inputs)]
    BY InputFacts DEF NoRender, RenderStage
  <2> QED BY <2>1 DEF Init, TypeOK, Status, Directory, FinalFile, IdleSweep, SweepStage
<1>2. TypeOK /\ [Next]_vars => TypeOK'
  BY TypeStep
<1> QED BY <1>1, <1>2, PTL DEF Spec

(***************************************************************************)
(* The inductive step.                                                     *)
(***************************************************************************)
\* A write that keeps a terminal status, and completes only what is whole,
\* leaves the indexes, the sweeps and the work to find as they should be.
LEMMA PersistStep ==
  ASSUME FilesInv, NEW j \in Jobs, NEW s \in Status, NEW at \in Nat, Persist(j, s, at),
         UNCHANGED <<work, final>>,
         \A c \in Callers : sweep'[c] = sweep[c] \/ sweep'[c] = IdleSweep,
         status[j] \in {"failed", "completed"} => s = status[j],
         s = "completed" => final[j] = "complete"
  PROVE  IndexInv' /\ SweepInv' /\ WorkIsFoundAgain' /\ CompletedVideoIsWhole'
<1>1. /\ status'[j] = s /\ updated'[j] = at
      /\ failedAt'[j] = (IF s = "failed" THEN at ELSE None)
      /\ completedAt'[j] = (IF s = "completed" THEN at ELSE None)
      /\ \A k \in Jobs \ {j} :
           /\ status'[k] = status[k] /\ updated'[k] = updated[k]
           /\ failedAt'[k] = failedAt[k] /\ completedAt'[k] = completedAt[k]
  BY PersistFacts DEF FilesInv
<1>2. IndexInv'
  BY <1>1 DEF IndexInv, FilesInv
<1>3. SweepInv'
  <2>1. \A k \in Jobs : status[k] \in {"failed", "completed"} => status'[k] = status[k]
    BY <1>1
  <2>2. \A c \in Callers : sweep[c].left \subseteq Candidate
    BY DEF FilesInv, TypeOK
  <2>3. ASSUME NEW c \in Callers, sweep'[c] = IdleSweep
        PROVE  sweep'[c].left = {} /\ sweep'[c].stage = "idle"
    BY <2>3 DEF IdleSweep
  <2>4. ASSUME NEW c \in Callers, sweep'[c] = sweep[c], NEW candidate \in sweep[c].left
        PROVE  /\ status'[candidate.job] = candidate.status
               /\ candidate.status = "completed" =>
                    candidate.at + CompletedTTL < sweep[c].at
    BY <2>1, <2>2 DEF FilesInv, SweepInv, ChosenRightly, Candidate
  <2>5. ASSUME NEW c \in Callers, sweep'[c] = sweep[c]
        PROVE  /\ sweep[c].stage \in {"removing", "forget"} =>
                    /\ sweep[c].current.job \in Jobs
                    /\ status'[sweep[c].current.job] = "failed"
               /\ sweep[c].stage = "forget" => work'[sweep[c].current.job] = None
    BY <2>1 DEF FilesInv, SweepInv, ChosenRightly
  <2> QED BY <2>3, <2>4, <2>5 DEF SweepInv, ChosenRightly
<1>4. WorkIsFoundAgain'
  BY <1>1 DEF WorkIsFoundAgain, FilesInv
<1>5. CompletedVideoIsWhole'
  BY <1>1 DEF CompletedVideoIsWhole, FilesInv
<1> QED BY <1>2, <1>3, <1>4, <1>5

\* Every step of a render keeps the invariant.
LEMMA RenderStep ==
  ASSUME FilesInv, RenderNext, TypeOK'
  PROVE  FilesInv'
<1> USE DEF FilesUnchanged, jobVars
<1> PICK j \in Jobs :
      \/ RenderStart(j) \/ WriteInput(j) \/ RenderCheckInputs(j) \/ EncodeSegments(j)
      \/ ConcatSegments(j) \/ RenderProbe(j) \/ RenderRaises(j) \/ RenderEnd(j)
  BY DEF RenderNext
<1>0. TypeOK /\ now \in Nat /\ render \in [Jobs -> [stage : RenderStage, written : 0..Len(Inputs)]]
  BY DEF FilesInv, TypeOK
<1>1. ASSUME FilesUnchanged, UNCHANGED work,
             \A k \in Jobs : status[k] \in {"failed", "completed"} => final'[k] = final[k]
      PROVE  IndexInv' /\ SweepInv' /\ WorkIsFoundAgain' /\ CompletedVideoIsWhole'
  BY <1>1 DEF FilesInv, IndexInv, SweepInv, ChosenRightly, WorkIsFoundAgain, CompletedVideoIsWhole
<1>2. ASSUME NEW stage \in {"encode", "concat", "probe", "rendered", "raised"},
             ToStage(j, stage), render[j].stage \notin {"none", "queued"},
             FilesUnchanged, UNCHANGED work
      PROVE  RenderInv' /\ RenderInputsSurvive'
  <2>1. /\ render'[j].stage = stage /\ render'[j].written = render[j].written
        /\ \A k \in Jobs \ {j} : render'[k] = render[k]
    BY <1>0, <1>2 DEF ToStage
  <2>2. RenderInv'
    BY <1>2, <2>1 DEF FilesInv, RenderInv
  <2>3. RenderInputsSurvive'
    BY <1>2, <2>1 DEF FilesInv, RenderInputsSurvive
  <2> QED BY <2>2, <2>3
<1>3. CASE RenderStart(j)
  <2>1. /\ Persist(j, "processing", now) /\ ToStage(j, "inputs")
        /\ UNCHANGED <<work, final, sweep>>
        /\ render[j].stage = "queued" /\ status[j] = "queued" /\ render[j].written = 0
    BY <1>3 DEF RenderStart, Write, FilesInv, RenderInv
  <2>2. IndexInv' /\ SweepInv' /\ WorkIsFoundAgain' /\ CompletedVideoIsWhole'
    BY <1>0, <2>1, PersistStep DEF Status
  <2>3. /\ status'[j] = "processing"
        /\ \A k \in Jobs \ {j} : status'[k] = status[k]
    BY <1>0, <2>1, PersistFacts DEF Status
  <2>4. /\ render'[j].stage = "inputs" /\ render'[j].written = 0
        /\ \A k \in Jobs \ {j} : render'[k] = render[k]
    BY <1>0, <2>1 DEF ToStage
  <2>5. RenderInv'
    BY <2>3, <2>4 DEF FilesInv, RenderInv
  <2>6. FinalInv'
    BY <2>1, <2>4 DEF FilesInv, FinalInv
  <2>7. RenderInputsSurvive'
    BY <2>1, <2>4 DEF FilesInv, RenderInputsSurvive
  <2> QED BY <2>2, <2>5, <2>6, <2>7 DEF FilesInv
<1>4. CASE WriteInput(j)
  <2> DEFINE n == render[j].written + 1
             dir == IF work[j] = None THEN {} ELSE work[j]
  <2>1. /\ n \in {1, 2} /\ render[j].stage = "inputs" /\ status[j] \notin {"failed", "completed"}
        /\ work' = [work EXCEPT ![j] = dir \cup {Inputs[n]}]
        /\ render' = [render EXCEPT ![j].written = n] /\ UNCHANGED final /\ FilesUnchanged
    BY <1>0, <1>4, InputFacts DEF WriteInput, FilesInv, RenderInv
  <2>2. /\ render'[j].stage = "inputs" /\ render'[j].written = n
        /\ \A k \in Jobs \ {j} : render'[k] = render[k] /\ work'[k] = work[k]
    BY <1>0, <2>1 DEF TypeOK
  <2>3. RenderInv' /\ FinalInv'
    BY <2>1, <2>2 DEF FilesInv, RenderInv, FinalInv
  <2>4. RenderInputsSurvive'
    <3>1. work'[j] = dir \cup {Inputs[n]}
      BY <1>0, <2>1 DEF TypeOK
    <3>2. dir \cup {Inputs[n]} # None
      <4>1. dir \subseteq {"images", "speech", "other"} /\ work[j] \in Directory
        BY <1>0, DirectoryFacts DEF TypeOK
      <4>2. Inputs[n] \in {"images", "speech", "other"}
        BY <2>1, InputFacts
      <4> HIDE DEF dir, n
      <4> QED BY <4>1, <4>2, DirectoryFacts
    <3>3. Written(n) \subseteq dir \cup {Inputs[n]}
      <4>1. CASE n = 1
        BY <4>1, InputFacts
      <4>2. CASE n = 2
        <5>1. render[j].written = 1
          BY <4>2, <1>0, InputFacts
        <5>2. Written(1) \subseteq work[j] /\ work[j] # None
          BY <5>1, <2>1 DEF FilesInv, RenderInputsSurvive
        <5> QED BY <4>2, <5>2, InputFacts
      <4> QED BY <2>1, <4>1, <4>2
    <3> HIDE DEF n, dir
    <3> QED BY <2>1, <2>2, <3>1, <3>2, <3>3 DEF FilesInv, RenderInputsSurvive
  <2>5. IndexInv' /\ WorkIsFoundAgain' /\ CompletedVideoIsWhole'
    <3> HIDE DEF n, dir
    <3> QED BY <2>1, <2>2 DEF FilesInv, IndexInv, WorkIsFoundAgain, CompletedVideoIsWhole
  <2>6. SweepInv'
    <3> HIDE DEF n, dir
    <3> QED BY <2>1, <2>2 DEF FilesInv, SweepInv, ChosenRightly
  <2> QED BY <2>3, <2>4, <2>5, <2>6 DEF FilesInv
<1>5. CASE RenderCheckInputs(j) \/ EncodeSegments(j) \/ RenderRaises(j)
  <2>1. PICK stage \in {"encode", "concat", "raised"} :
          ToStage(j, stage) /\ UNCHANGED <<work, final>> /\ FilesUnchanged
    BY <1>5 DEF RenderCheckInputs, EncodeSegments, RenderRaises
  <2>2. render[j].stage \notin {"none", "queued"}
    BY <1>5 DEF RenderCheckInputs, EncodeSegments, RenderRaises
  <2>3. RenderInv' /\ RenderInputsSurvive'
    BY <2>1, <2>2, <1>2
  <2>4. FinalInv'
    BY <1>0, <2>1 DEF ToStage, FilesInv, FinalInv
  <2> QED BY <2>1, <2>3, <2>4, <1>1 DEF FilesInv
<1>6. CASE RenderProbe(j)
  <2>1. render[j].stage = "probe" /\ ToStage(j, "rendered")
        /\ UNCHANGED <<work, final>> /\ FilesUnchanged
    BY <1>6 DEF RenderProbe
  <2>2. RenderInv' /\ RenderInputsSurvive'
    BY <2>1, <1>2
  <2>3. FinalInv'
    BY <1>0, <2>1 DEF ToStage, FilesInv, FinalInv
  <2> QED BY <2>1, <2>2, <2>3, <1>1 DEF FilesInv
<1>7. CASE ConcatSegments(j)
  <2>1. /\ render[j].stage = "concat" /\ UNCHANGED work /\ FilesUnchanged
        /\ status[j] \notin {"failed", "completed"}
        /\ \A k \in Jobs \ {j} : final'[k] = final[k]
    BY <1>7 DEF ConcatSegments, FilesInv, RenderInv, TypeOK
  <2>2. IndexInv' /\ SweepInv' /\ WorkIsFoundAgain' /\ CompletedVideoIsWhole'
    BY <2>1, <1>1
  <2>3. CASE UNCHANGED render
    <3>1. RenderInv' /\ FinalInv' /\ RenderInputsSurvive'
      BY <2>1, <2>3 DEF FilesInv, RenderInv, FinalInv, RenderInputsSurvive
    <3> QED BY <2>2, <3>1 DEF FilesInv
  <2>4. CASE final' = [final EXCEPT ![j] = "complete"] /\ ToStage(j, "probe")
    <3>1. RenderInv' /\ RenderInputsSurvive'
      BY <2>1, <2>4, <1>2
    <3>2. final'[j] = "complete" /\ \A k \in Jobs \ {j} : render'[k] = render[k]
      BY <1>0, <2>4 DEF ToStage, TypeOK
    <3>3. FinalInv'
      BY <2>1, <3>2 DEF FilesInv, FinalInv
    <3> QED BY <2>2, <3>1, <3>3 DEF FilesInv
  <2> QED BY <1>7, <2>3, <2>4 DEF ConcatSegments
<1>8. CASE RenderEnd(j)
  <2>1. PICK s \in {"failed", "completed"} :
          /\ Persist(j, s, now) /\ render[j].stage = IF s = "failed" THEN "raised" ELSE "rendered"
          /\ render' = [render EXCEPT ![j] = NoRender] /\ UNCHANGED <<work, final, sweep>>
    BY <1>8 DEF RenderEnd, Write
  <2>2. status[j] \notin {"failed", "completed"} /\ (s = "completed" => final[j] = "complete")
    BY <2>1 DEF FilesInv, RenderInv, FinalInv
  <2>3. IndexInv' /\ SweepInv' /\ WorkIsFoundAgain' /\ CompletedVideoIsWhole'
    BY <1>0, <2>1, <2>2, PersistStep DEF Status
  <2>4. status'[j] = s /\ \A k \in Jobs \ {j} : status'[k] = status[k]
    BY <1>0, <2>1, PersistFacts DEF Status
  <2>5. /\ render'[j].stage = "none" /\ render'[j].written = 0
        /\ \A k \in Jobs \ {j} : render'[k] = render[k]
    BY <1>0, <2>1 DEF NoRender
  <2>6. RenderInv' /\ FinalInv' /\ RenderInputsSurvive'
    BY <2>1, <2>4, <2>5 DEF FilesInv, RenderInv, FinalInv, RenderInputsSurvive
  <2> QED BY <2>3, <2>6 DEF FilesInv
<1> QED BY <1>3, <1>4, <1>5, <1>6, <1>7, <1>8

\* A step of one sweep leaves the others as they are: they stay right while
\* no terminal status changes and no directory that is gone comes back.
LEMMA OtherSweeps ==
  ASSUME FilesInv, NEW c \in Callers, status' = status,
         \A k \in Jobs : status[k] = "failed" /\ work[k] = None => work'[k] = None,
         \A d \in Callers \ {c} : sweep'[d] = sweep[d],
         ChosenRightly(c)'
  PROVE  SweepInv'
<1>1. ASSUME NEW d \in Callers \ {c} PROVE ChosenRightly(d)'
  BY DEF FilesInv, SweepInv, ChosenRightly
<1> QED BY <1>1 DEF SweepInv

\* Every step of create() keeps the invariant.
LEMMA CreateStep ==
  ASSUME FilesInv, CreateNext, TypeOK'
  PROVE  FilesInv'
<1> PICK c \in Callers :
      \/ CreateBegin(c) \/ SweepBegin(c)
      \/ \E candidate \in sweep[c].left :
           SweepCompleted(c, candidate) \/ SweepFailed(c, candidate)
      \/ RemoveTree(c) \/ RemoveFails(c) \/ Forget(c) \/ CreateEnd(c)
  BY DEF CreateNext
<1>0. TypeOK /\ now \in Nat /\ sweep[c].left \subseteq Candidate
  BY DEF FilesInv, TypeOK
<1>1. ASSUME SweepUnchanged
      PROVE  RenderInv' /\ FinalInv' /\ CompletedVideoIsWhole'
  BY <1>1 DEF SweepUnchanged, FilesInv, RenderInv, FinalInv, CompletedVideoIsWhole
<1>2. ASSUME SweepUnchanged, UNCHANGED <<failedAt, completedAt, work>>
      PROVE  IndexInv' /\ RenderInputsSurvive' /\ WorkIsFoundAgain'
  BY <1>2 DEF SweepUnchanged, FilesInv, IndexInv, RenderInputsSurvive, WorkIsFoundAgain
<1>3. CASE CreateBegin(c)
  <2>1. SweepUnchanged /\ UNCHANGED <<failedAt, completedAt, work>>
        /\ \A d \in Callers \ {c} : sweep'[d] = sweep[d]
    BY <1>0, <1>3 DEF CreateBegin, TypeOK
  <2>2. sweep'[c].left = {} /\ sweep'[c].stage \in {"asked", "sweeping"}
    BY <1>0, <1>3 DEF CreateBegin, TypeOK, IdleSweep
  <2>3. ChosenRightly(c)'
    BY <2>2 DEF ChosenRightly
  <2> QED BY <1>1, <1>2, <2>1, <2>3, OtherSweeps DEF FilesInv, SweepUnchanged
<1>4. CASE SweepBegin(c)
  <2> DEFINE at == sweep[c].at
             failed == {[job |-> j, status |-> "failed", at |-> failedAt[j]] :
                          j \in Expired(failedAt, FailedTTL, at)}
             completed == {[job |-> j, status |-> "completed", at |-> completedAt[j]] :
                          j \in Expired(completedAt, CompletedTTL, at)}
  <2>1. SweepUnchanged /\ UNCHANGED <<failedAt, completedAt, work>>
        /\ \A d \in Callers \ {c} : sweep'[d] = sweep[d]
    BY <1>0, <1>4 DEF SweepBegin, TypeOK
  <2>2. /\ sweep'[c].left \subseteq failed \cup completed
        /\ sweep'[c].stage = "sweeping" /\ sweep'[c].at = at
    BY <1>0, <1>4 DEF SweepBegin, TypeOK
  <2>3. \A candidate \in failed :
          status[candidate.job] = "failed" /\ candidate.status = "failed"
    BY DEF Expired, FilesInv, IndexInv
  <2>4. \A candidate \in completed :
          /\ status[candidate.job] = "completed" /\ candidate.status = "completed"
          /\ candidate.at + CompletedTTL < at
    BY DEF Expired, FilesInv, IndexInv
  <2>5. ChosenRightly(c)'
    <3> HIDE DEF failed, completed, at
    <3> QED BY <2>1, <2>2, <2>3, <2>4 DEF ChosenRightly, SweepUnchanged
  <2> QED BY <1>1, <1>2, <2>1, <2>5, OtherSweeps DEF FilesInv, SweepUnchanged
<1>5. ASSUME NEW candidate \in sweep[c].left, SweepCompleted(c, candidate)
      PROVE  FilesInv'
  <2> DEFINE j == candidate.job
  <2>1. /\ j \in Jobs /\ candidate.at # None /\ SweepUnchanged /\ UNCHANGED failedAt
        /\ sweep' = [sweep EXCEPT ![c].left = @ \ {candidate}]
    BY <1>0, <1>5, FilesNoneAssumption DEF SweepCompleted, Candidate
  <2>2. /\ \A d \in Callers \ {c} : sweep'[d] = sweep[d]
        /\ sweep'[c].left = sweep[c].left \ {candidate} /\ sweep'[c].stage = sweep[c].stage
        /\ sweep[c].stage = "sweeping" /\ sweep'[c].at = sweep[c].at
    BY <1>0, <1>5, <2>1 DEF TypeOK, SweepCompleted
  <2>3. ChosenRightly(c)'
    BY <2>1, <2>2 DEF ChosenRightly, FilesInv, SweepInv, SweepUnchanged
  <2>4. CASE ~StillExpired(candidate)
    <3>1. UNCHANGED <<failedAt, completedAt, work>>
      BY <1>5, <2>4 DEF SweepCompleted
    <3> QED BY <1>1, <1>2, <2>1, <2>2, <2>3, <3>1, OtherSweeps DEF FilesInv, SweepUnchanged
  <2>5. CASE StillExpired(candidate)
    <3> DEFINE managed == IF work[j] = None THEN {} ELSE work[j] \cap Managed
    <3>1. PICK removed \in SUBSET managed, error \in BOOLEAN :
            /\ ~error => removed = managed
            /\ work' = IF work[j] = None THEN work ELSE [work EXCEPT ![j] = @ \ removed]
            /\ completedAt' = IF error THEN completedAt ELSE [completedAt EXCEPT ![j] = None]
      BY <1>5, <2>5 DEF SweepCompleted
    <3>2. status[j] = "completed" /\ completedAt[j] = updated[j]
      BY <2>1, <2>5 DEF StillExpired, FilesInv, IndexInv
    <3>3. \A k \in Jobs \ {j} : work'[k] = work[k] /\ completedAt'[k] = completedAt[k]
      BY <1>0, <2>1, <3>1 DEF TypeOK
    <3>4. /\ work[j] = None => work'[j] = None
          /\ work[j] # None => work'[j] = work[j] \ removed
          /\ completedAt'[j] \in {completedAt[j], None}
          /\ completedAt'[j] # completedAt[j] => removed = managed
      BY <1>0, <2>1, <3>1 DEF TypeOK
    <3> HIDE DEF managed, j
    <3>5. IndexInv'
      BY <2>1, <3>2, <3>3, <3>4 DEF FilesInv, IndexInv, SweepUnchanged
    <3>6. SweepInv'
      BY <2>1, <2>2, <2>3, <3>2, <3>3, OtherSweeps DEF SweepUnchanged
    <3>7. RenderInputsSurvive'
      <4>1. render[j].stage = "none"
        BY <2>1, <3>2 DEF FilesInv, RenderInv
      <4> QED BY <2>1, <3>3, <4>1 DEF FilesInv, RenderInputsSurvive, SweepUnchanged
    <3>8. WorkIsFoundAgain'
      <4>1. ASSUME work'[j] # None, work'[j] \cap Managed # {}
            PROVE  completedAt'[j] = updated[j]
        BY <3>2, <3>4, <4>1 DEF managed
      <4> QED BY <2>1, <3>2, <3>3, <4>1 DEF FilesInv, WorkIsFoundAgain, SweepUnchanged
    <3> QED BY <1>1, <2>1, <3>5, <3>6, <3>7, <3>8 DEF FilesInv
  <2> QED BY <2>4, <2>5
<1>6. ASSUME NEW candidate \in sweep[c].left, SweepFailed(c, candidate)
      PROVE  FilesInv'
  <2>1. SweepUnchanged /\ UNCHANGED <<failedAt, completedAt, work>>
        /\ candidate.job \in Jobs /\ status[candidate.job] = "failed"
    BY <1>0, <1>6 DEF SweepFailed, FilesInv, SweepInv, ChosenRightly, Candidate
  <2>2. /\ \A d \in Callers \ {c} : sweep'[d] = sweep[d]
        /\ sweep'[c].left = sweep[c].left \ {candidate} /\ sweep'[c].current = candidate
        /\ sweep'[c].at = sweep[c].at
        /\ sweep'[c].stage = IF work[candidate.job] = None THEN "forget" ELSE "removing"
    BY <1>0, <1>6 DEF TypeOK, SweepFailed
  <2>3. ChosenRightly(c)'
    BY <2>1, <2>2 DEF ChosenRightly, FilesInv, SweepInv, SweepUnchanged
  <2> QED BY <1>1, <1>2, <2>1, <2>2, <2>3, OtherSweeps DEF FilesInv, SweepUnchanged
<1>7. CASE RemoveTree(c)
  <2> DEFINE j == sweep[c].current.job
  <2>1. /\ SweepUnchanged /\ UNCHANGED <<failedAt, completedAt>> /\ work[j] # None
        /\ j \in Jobs /\ status[j] = "failed" /\ render[j].stage = "none"
    <3>1. j \in Jobs /\ status[j] = "failed"
      BY <1>7 DEF RemoveTree, FilesInv, SweepInv, ChosenRightly
    <3>2. work[j] # None
      BY <1>7, FilesNoneAssumption DEF RemoveTree
    <3> QED BY <1>7, <3>1, <3>2 DEF RemoveTree, FilesInv, RenderInv
  <2>2. /\ \A d \in Callers \ {c} : sweep'[d] = sweep[d]
        /\ sweep'[c].left = sweep[c].left /\ sweep'[c].current = sweep[c].current
        /\ sweep'[c].at = sweep[c].at
        /\ sweep'[c].stage = "forget" => work'[j] = None
    BY <1>0, <1>7, <2>1 DEF TypeOK, RemoveTree
  <2>3. \A k \in Jobs \ {j} : work'[k] = work[k]
    BY <1>0, <1>7, <2>1 DEF TypeOK, RemoveTree
  <2>4. ChosenRightly(c)'
    BY <2>1, <2>2 DEF ChosenRightly, FilesInv, SweepInv, SweepUnchanged
  <2> HIDE DEF j
  <2>5. IndexInv'
    BY <2>1 DEF FilesInv, IndexInv, SweepUnchanged
  <2>6. SweepInv'
    BY <2>1, <2>2, <2>3, <2>4, OtherSweeps DEF SweepUnchanged
  <2>7. RenderInputsSurvive'
    BY <2>1, <2>3 DEF FilesInv, RenderInputsSurvive, SweepUnchanged
  <2>8. WorkIsFoundAgain'
    BY <2>1, <2>3 DEF FilesInv, WorkIsFoundAgain, SweepUnchanged
  <2> QED BY <1>1, <2>1, <2>5, <2>6, <2>7, <2>8 DEF FilesInv
<1>8. CASE RemoveFails(c)
  <2>1. SweepUnchanged /\ UNCHANGED <<failedAt, completedAt, work>>
    BY <1>8 DEF RemoveFails
  <2>2. /\ \A d \in Callers \ {c} : sweep'[d] = sweep[d]
        /\ sweep'[c].left = sweep[c].left /\ sweep'[c].at = sweep[c].at
        /\ sweep'[c].stage = "sweeping"
    BY <1>0, <1>8 DEF TypeOK, RemoveFails, AfterRemoveFails
  <2>3. ChosenRightly(c)'
    BY <2>1, <2>2 DEF ChosenRightly, FilesInv, SweepInv, SweepUnchanged
  <2> QED BY <1>1, <1>2, <2>1, <2>2, <2>3, OtherSweeps DEF FilesInv, SweepUnchanged
<1>9. CASE Forget(c)
  <2> DEFINE j == sweep[c].current.job
  <2>1. /\ SweepUnchanged /\ UNCHANGED <<completedAt, work>>
        /\ j \in Jobs /\ status[j] = "failed" /\ work[j] = None
        /\ failedAt' = [failedAt EXCEPT ![j] = None]
    BY <1>9 DEF Forget, FilesInv, SweepInv, ChosenRightly
  <2>2. /\ \A d \in Callers \ {c} : sweep'[d] = sweep[d]
        /\ sweep'[c].left = sweep[c].left /\ sweep'[c].at = sweep[c].at
        /\ sweep'[c].stage = "sweeping"
    BY <1>0, <1>9 DEF TypeOK, Forget
  <2>3. ChosenRightly(c)'
    BY <2>1, <2>2 DEF ChosenRightly, FilesInv, SweepInv, SweepUnchanged
  <2> HIDE DEF j
  <2>4. IndexInv'
    BY <1>0, <2>1 DEF FilesInv, IndexInv, SweepUnchanged, TypeOK
  <2>5. RenderInputsSurvive'
    BY <2>1 DEF FilesInv, RenderInputsSurvive, SweepUnchanged
  <2>6. WorkIsFoundAgain'
    BY <1>0, <2>1 DEF FilesInv, WorkIsFoundAgain, SweepUnchanged, TypeOK
  <2> QED BY <1>1, <2>1, <2>2, <2>3, <2>4, <2>5, <2>6, OtherSweeps DEF FilesInv, SweepUnchanged
<1>10. CASE CreateEnd(c)
  <2>1. /\ \A d \in Callers : sweep'[d] = sweep[d] \/ sweep'[d] = IdleSweep
        /\ UNCHANGED <<work, final>>
    BY <1>0, <1>10 DEF CreateEnd, TypeOK
  <2>2. ASSUME NEW j \in Jobs, status[j] = "absent", Persist(j, "queued", sweep[c].at),
               render' = [render EXCEPT ![j].stage = "queued"]
        PROVE  FilesInv'
    <3>1. sweep[c].at \in Nat /\ render[j].written = 0
      BY <1>0, <2>2 DEF TypeOK, FilesInv, RenderInv
    <3>2. IndexInv' /\ SweepInv' /\ WorkIsFoundAgain' /\ CompletedVideoIsWhole'
      BY <2>1, <2>2, <3>1, PersistStep DEF Status
    <3>3. /\ status'[j] = "queued" /\ \A k \in Jobs \ {j} : status'[k] = status[k]
          /\ render'[j].stage = "queued" /\ render'[j].written = 0
          /\ \A k \in Jobs \ {j} : render'[k] = render[k]
      BY <1>0, <2>2, <3>1 DEF Persist, TypeOK
    <3>4. RenderInv' /\ FinalInv' /\ RenderInputsSurvive'
      BY <2>1, <3>3 DEF FilesInv, RenderInv, FinalInv, RenderInputsSurvive
    <3> QED BY <3>2, <3>4 DEF FilesInv
  <2>3. CASE UNCHANGED <<jobVars, render>>
    <3>1. SweepInv'
      <4>1. ASSUME NEW d \in Callers PROVE ChosenRightly(d)'
        BY <2>1, <2>3 DEF FilesInv, SweepInv, ChosenRightly, IdleSweep, jobVars
      <4> QED BY <4>1 DEF SweepInv
    <3>2. RenderInv' /\ FinalInv' /\ IndexInv'
      BY <2>1, <2>3 DEF jobVars, FilesInv, RenderInv, FinalInv, IndexInv
    <3>3. RenderInputsSurvive' /\ WorkIsFoundAgain' /\ CompletedVideoIsWhole'
      BY <2>1, <2>3 DEF jobVars, FilesInv, RenderInputsSurvive, WorkIsFoundAgain,
                        CompletedVideoIsWhole
    <3> QED BY <3>1, <3>2, <3>3 DEF FilesInv
  <2> QED BY <1>10, <2>2, <2>3 DEF CreateEnd
<1> QED BY <1>3, <1>4, <1>5, <1>6, <1>7, <1>8, <1>9, <1>10

\* A restart settles interrupted renders as failed and builds both indexes anew.
LEMMA RestartStep ==
  ASSUME FilesInv, Restart, TypeOK'
  PROVE  FilesInv'
<1>1. /\ \A j \in Jobs :
           /\ status'[j] = Recovered(j)
           /\ updated'[j] = IF Interrupted(j) THEN now ELSE updated[j]
           /\ failedAt'[j] = IF status'[j] = "failed" THEN updated'[j] ELSE None
           /\ completedAt'[j] = IF status'[j] = "completed" THEN updated'[j] ELSE None
           /\ render'[j].stage = "none" /\ render'[j].written = 0
      /\ \A c \in Callers : sweep'[c].left = {} /\ sweep'[c].stage = "idle"
      /\ UNCHANGED <<work, final>>
  BY DEF Restart, NoRender, IdleSweep
<1>2. RenderInv' /\ FinalInv' /\ RenderInputsSurvive'
  BY <1>1 DEF Recovered, Interrupted, RenderInv, FinalInv, RenderInputsSurvive
<1>3. IndexInv' /\ WorkIsFoundAgain'
  BY <1>1 DEF IndexInv, WorkIsFoundAgain
<1>4. SweepInv'
  BY <1>1 DEF SweepInv, ChosenRightly
<1>5. CompletedVideoIsWhole'
  BY <1>1 DEF Recovered, FilesInv, CompletedVideoIsWhole
<1> QED BY <1>2, <1>3, <1>4, <1>5 DEF FilesInv

LEMMA FilesStep == FilesInv /\ [Next]_vars => FilesInv'
<1> SUFFICES ASSUME FilesInv, [Next]_vars PROVE FilesInv'
  OBVIOUS
<1>1. TypeOK /\ TypeOK' /\ now \in Nat
  BY TypeStep DEF FilesInv, TypeOK
<1>2. ASSUME NEW j \in Jobs, Decide(j) PROVE FilesInv'
  <2>1. Persist(j, status[j], now) /\ UNCHANGED <<work, final, render, sweep>>
        /\ status[j] \in Status
    BY <1>1, <1>2 DEF Decide, Write, TypeOK
  <2>2. IndexInv' /\ SweepInv' /\ WorkIsFoundAgain' /\ CompletedVideoIsWhole'
    BY <1>1, <2>1, PersistStep DEF FilesInv, CompletedVideoIsWhole
  <2>3. \A k \in Jobs : status'[k] = status[k]
    BY <1>1, <2>1 DEF Persist, TypeOK
  <2>4. RenderInv' /\ FinalInv' /\ RenderInputsSurvive'
    BY <2>1, <2>3 DEF FilesInv, RenderInv, FinalInv, RenderInputsSurvive
  <2> QED BY <1>1, <2>2, <2>4 DEF FilesInv
<1>3. ASSUME NEW j \in Jobs, ForeignFile(j) PROVE FilesInv'
  <2>1. /\ status[j] = "completed" /\ work[j] # None
        /\ work' = [work EXCEPT ![j] = @ \cup {"other"}]
        /\ UNCHANGED <<jobVars, now, nextCleanup, sweep, restarts, final, render>>
    BY <1>3 DEF ForeignFile, FilesUnchanged
  <2>2. /\ \A k \in Jobs \ {j} : work'[k] = work[k]
        /\ work'[j] = work[j] \cup {"other"}
    BY <1>1, <2>1 DEF TypeOK
  <2>3. RenderInv' /\ FinalInv' /\ IndexInv' /\ CompletedVideoIsWhole'
    BY <2>1 DEF jobVars, FilesInv, RenderInv, FinalInv, IndexInv, CompletedVideoIsWhole
  <2>4. SweepInv'
    BY <2>1, <2>2 DEF jobVars, FilesInv, SweepInv, ChosenRightly
  <2>5. RenderInputsSurvive'
    BY <2>1, <2>2 DEF jobVars, FilesInv, RenderInv, RenderInputsSurvive
  <2>6. WorkIsFoundAgain'
    <3>1. work'[j] \cap Managed = work[j] \cap Managed
      BY <2>2, InputFacts
    <3> QED BY <2>1, <2>2, <3>1 DEF jobVars, FilesInv, WorkIsFoundAgain
  <2> QED BY <1>1, <2>3, <2>4, <2>5, <2>6 DEF FilesInv
<1>4. CASE Tick \/ UNCHANGED vars
  <2>1. UNCHANGED <<jobVars, work, final, render, sweep>>
    BY <1>4 DEF Tick, vars
  <2>2. RenderInv' /\ FinalInv' /\ IndexInv' /\ SweepInv'
    BY <2>1 DEF jobVars, FilesInv, RenderInv, FinalInv, IndexInv, SweepInv, ChosenRightly
  <2>3. RenderInputsSurvive' /\ WorkIsFoundAgain' /\ CompletedVideoIsWhole'
    BY <2>1 DEF jobVars, FilesInv, RenderInputsSurvive, WorkIsFoundAgain, CompletedVideoIsWhole
  <2> QED BY <1>1, <2>2, <2>3 DEF FilesInv
<1> QED BY <1>1, <1>2, <1>3, <1>4, RenderStep, CreateStep, RestartStep DEF Next

LEMMA FilesInvariant == Spec => []FilesInv
<1>1. Init => FilesInv
  <2> SUFFICES ASSUME Init PROVE FilesInv
    OBVIOUS
  <2>1. NoRender \in [stage : RenderStage, written : 0..Len(Inputs)]
    BY InputFacts DEF NoRender, RenderStage
  <2>2. TypeOK
    BY <2>1 DEF Init, TypeOK, Status, Directory, FinalFile, IdleSweep, SweepStage
  <2> QED BY <2>2 DEF Init, FilesInv, RenderInv, FinalInv, IndexInv, SweepInv, ChosenRightly,
       RenderInputsSurvive, WorkIsFoundAgain, CompletedVideoIsWhole, NoRender, IdleSweep
<1>2. FilesInv /\ [Next]_vars => FilesInv'
  BY FilesStep
<1> QED BY <1>1, <1>2, PTL DEF Spec

(***************************************************************************)
(* What it promises.                                                       *)
(***************************************************************************)
\* However many sweeps run beside it, a render finds the inputs that it wrote:
\* a sweep touches the directories of completed and failed jobs only, and no
\* job leaves these states.
THEOREM InputsSurviveSweeps == Spec => []RenderInputsSurvive
<1>1. FilesInv => RenderInputsSurvive
  BY DEF FilesInv
<1> QED BY <1>1, FilesInvariant, PTL

\* What a sweep should remove stays in the index of its job, under the date
\* of its last write: failed, overlapping and overtaken sweeps lose nothing.
THEOREM WorkFoundAgain == Spec => []WorkIsFoundAgain
<1>1. FilesInv => WorkIsFoundAgain
  BY DEF FilesInv
<1> QED BY <1>1, FilesInvariant, PTL

\* A completed job has the whole file that ffmpeg wrote for it.
THEOREM CompletedIsWhole == Spec => []CompletedVideoIsWhole
<1>1. FilesInv => CompletedVideoIsWhole
  BY DEF FilesInv
<1> QED BY <1>1, FilesInvariant, PTL

\* The sweep of a completed job checks, under the lock, that its date is still
\* the one under which it was chosen; so it takes files of jobs only that
\* nothing touched for CompletedTTL, and never the directory.
SweptRightly ==
    \A j \in Jobs :
      LET taken == work[j] \ work'[j]
      IN  status[j] = "completed" /\ work[j] # None =>
            /\ work'[j] # None
            /\ "other" \notin taken
            /\ taken # {} => updated[j] + CompletedTTL < now

LEMMA SweepsTakeRightly ==
  ASSUME FilesInv, TypeOK', [Next]_vars
  PROVE  SweptRightly
<1> DEFINE Kept(j) == work'[j] = work[j] \/ (work[j] # None => work'[j] # None /\ work[j] \subseteq work'[j])
<1>0. TypeOK
  BY DEF FilesInv
<1>1. ASSUME \A j \in Jobs : status[j] = "completed" => Kept(j)
      PROVE  SweptRightly
  BY <1>1 DEF SweptRightly
<1>2. CASE RenderNext
  <2>1. ASSUME NEW j \in Jobs, WriteInput(j) PROVE SweptRightly
    <3>1. status[j] # "completed" /\ \A k \in Jobs \ {j} : work'[k] = work[k]
      BY <1>0, <2>1 DEF WriteInput, FilesInv, RenderInv, TypeOK
    <3> QED BY <3>1, <1>1
  <2>2. ASSUME UNCHANGED work PROVE SweptRightly
    BY <2>2, <1>1
  <2>3. ASSUME NEW j \in Jobs,
               \/ RenderStart(j) \/ RenderCheckInputs(j) \/ EncodeSegments(j)
               \/ ConcatSegments(j) \/ RenderProbe(j) \/ RenderRaises(j) \/ RenderEnd(j)
        PROVE  UNCHANGED work
    BY <2>3 DEF RenderStart, RenderCheckInputs, EncodeSegments, ConcatSegments,
                RenderProbe, RenderRaises, RenderEnd
  <2> QED BY <1>2, <2>1, <2>2, <2>3 DEF RenderNext
<1>3. CASE CreateNext
  <2> PICK c \in Callers :
        \/ CreateBegin(c) \/ SweepBegin(c)
        \/ \E candidate \in sweep[c].left :
             SweepCompleted(c, candidate) \/ SweepFailed(c, candidate)
        \/ RemoveTree(c) \/ RemoveFails(c) \/ Forget(c) \/ CreateEnd(c)
    BY <1>3 DEF CreateNext
  <2>1. ASSUME NEW candidate \in sweep[c].left, SweepCompleted(c, candidate)
        PROVE  SweptRightly
    <3> DEFINE j == candidate.job
               managed == IF work[j] = None THEN {} ELSE work[j] \cap Managed
    <3>1. candidate \in Candidate /\ j \in Jobs /\ sweep[c].at \in 0..now /\ now \in Nat
      BY <1>0 DEF TypeOK, Candidate
    <3>2. CASE ~StillExpired(candidate)
      BY <2>1, <3>2, <1>1 DEF SweepCompleted
    <3>3. CASE StillExpired(candidate)
      <4>1. candidate.at = updated[j] /\ updated[j] \in Nat
        BY <1>0, <3>1, <3>3, FilesNoneAssumption
           DEF StillExpired, FilesInv, IndexInv, Candidate, TypeOK
      <4>2. candidate.at + CompletedTTL < sweep[c].at
        BY <2>1 DEF SweepCompleted, FilesInv, SweepInv, ChosenRightly
      <4>3. updated[j] + CompletedTTL < now
        BY <3>1, <4>1, <4>2, FilesTimeAssumption
      <4>4. PICK removed \in SUBSET managed :
              work' = IF work[j] = None THEN work ELSE [work EXCEPT ![j] = @ \ removed]
        BY <2>1, <3>3 DEF SweepCompleted
      <4>5. /\ \A k \in Jobs \ {j} : work'[k] = work[k]
            /\ work[j] # None => work'[j] = work[j] \ removed
        BY <1>0, <3>1, <4>4 DEF TypeOK
      <4>6. "other" \notin removed
        BY <4>4, InputFacts
      <4>7. work[j] # None => work'[j] # None
        BY <1>0, <3>1, <4>5, DirectoryFacts DEF TypeOK
      <4> HIDE DEF j, managed
      <4> QED BY <4>3, <4>5, <4>6, <4>7 DEF SweptRightly
    <3> QED BY <3>2, <3>3
  <2>2. CASE RemoveTree(c)
    <3> DEFINE j == sweep[c].current.job
    <3>1. status[j] = "failed" /\ \A k \in Jobs \ {j} : work'[k] = work[k]
      BY <1>0, <2>2 DEF RemoveTree, FilesInv, SweepInv, ChosenRightly, TypeOK
    <3> QED BY <3>1, <1>1
  <2>3. ASSUME UNCHANGED work PROVE SweptRightly
    BY <2>3, <1>1
  <2>4. ASSUME \/ CreateBegin(c) \/ SweepBegin(c) \/ RemoveFails(c) \/ Forget(c) \/ CreateEnd(c)
               \/ \E candidate \in sweep[c].left : SweepFailed(c, candidate)
        PROVE  UNCHANGED work
    BY <2>4 DEF CreateBegin, SweepBegin, SweepFailed, RemoveFails, Forget, CreateEnd
  <2> QED BY <2>1, <2>2, <2>3, <2>4
<1>4. ASSUME NEW j \in Jobs, ForeignFile(j) PROVE SweptRightly
  <2>1. \A k \in Jobs : work'[k] = IF k = j THEN work[j] \cup {"other"} ELSE work[k]
    BY <1>0, <1>4 DEF ForeignFile, TypeOK
  <2>2. work[j] # None => work'[j] # None
    BY <1>0, <2>1, DirectoryFacts DEF TypeOK
  <2> QED BY <2>1, <2>2, <1>1
<1>5. ASSUME UNCHANGED work PROVE SweptRightly
  BY <1>5, <1>1
<1>6. ASSUME Tick \/ Restart \/ UNCHANGED vars \/ \E j \in Jobs : Decide(j)
      PROVE  UNCHANGED work
  BY <1>6 DEF Tick, Restart, vars, Decide
<1> QED BY <1>2, <1>3, <1>4, <1>5, <1>6 DEF Next

THEOREM SweepTakesExpired == Spec => SweepTakesExpiredOnly
<1>1. FilesInv /\ FilesInv' /\ [Next]_vars =>
        [\A j \in Jobs :
           LET taken == work[j] \ work'[j]
           IN  status[j] = "completed" /\ work[j] # None =>
                 /\ work'[j] # None
                 /\ "other" \notin taken
                 /\ taken # {} => updated[j] + CompletedTTL < now]_vars
  BY SweepsTakeRightly DEF FilesInv, SweptRightly
<1> QED BY <1>1, FilesInvariant, PTL DEF Spec, SweepTakesExpiredOnly

=============================================================================
