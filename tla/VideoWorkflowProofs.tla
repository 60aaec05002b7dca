------------------------ MODULE VideoWorkflowProofs ------------------------
(***************************************************************************)
(* The safety properties of VideoWorkflow hold for every set of jobs,      *)
(* results, callers and handler threads.  Those that take store.save() not *)
(* to raise follow from SafetyInv, those that do not from FailureInv; both *)
(* are inductive.  Without saves that fail VideoWorkflow also implements   *)
(* VideoLifecycle: every step stores one job and is a lifecycle step of    *)
(* this job, or is a restart, or leaves the statuses alone.  The end of    *)
(* the module is about VideoViews: a video that is shown goes on being     *)
(* shown, and what the pages offer is accepted.                            *)
(***************************************************************************)
EXTENDS VideoWorkflowInvariant, VideoViews, TLAPS

(***************************************************************************)
(* Type correctness.                                                       *)
(***************************************************************************)

StoreTypeOK ==
    /\ jobs \in [Jobs -> VideoJob]
    /\ active \in [Results -> SUBSET Jobs]
    /\ tone \in [Results -> Tone]
    /\ source \in [Results -> Copies]
    /\ disk \in [jobs : [Jobs -> VideoJob], tone : [Results -> Tone],
                 source : [Results -> Copies]]

\* Storing a job keeps the types of the store: _persist_locked.
LEMMA PersistTypeOK ==
  ASSUME StoreTypeOK, NEW j \in Jobs, NEW job \in VideoJob,
         NEW newTone \in [Results -> Tone],
         \E saved \in SaveOutcomes : PersistLocked(j, job, newTone, saved)
  PROVE  StoreTypeOK'
<1>0. PICK saved \in BOOLEAN : PersistLocked(j, job, newTone, saved)
  BY FlagAssumption DEF SaveOutcomes
<1> USE <1>0 DEF StoreTypeOK, PersistLocked
<1>1. jobs' \in [Jobs -> VideoJob]
  <2>1. jobs[j].updated + 1 \in Nat
    BY DEF VideoJob
  <2>2. [job EXCEPT !.updated = jobs[j].updated + 1] \in VideoJob
    BY <2>1 DEF VideoJob
  <2> QED BY <2>2
<1>2. active' \in [Results -> SUBSET Jobs]
  BY DEF UpdateJobIndexes
<1>3. disk' \in [jobs : [Jobs -> VideoJob], tone : [Results -> Tone],
                 source : [Results -> Copies]]
  BY <1>1 DEF Snapshot
<1> QED BY <1>1, <1>2, <1>3

\* create() by any thread keeps the types.
LEMMA CreateTypeOK == TypeOK /\ CreateNext => TypeOK'
<1> SUFFICES ASSUME TypeOK, NEW c \in Callers,
                    \/ \E r \in Results : CreateBegin(c, r)
                    \/ CreateRefused(c)
                    \/ \E j \in Jobs : CreateCommit(c, j)
             PROVE  TypeOK'
  BY DEF CreateNext
<1> USE DEF TypeOK, storeVars, historyVars
<1>1. ASSUME NEW r \in Results, CreateBegin(c, r) PROVE TypeOK'
  BY <1>1 DEF CreateBegin
<1>2. CASE CreateRefused(c)
  BY <1>2 DEF CreateRefused
<1>3. ASSUME NEW j \in Jobs, CreateCommit(c, j) PROVE TypeOK'
  <2> DEFINE r == creating[c].result
             job == NewJob(r, creating[c].fp)
             newTone == [tone EXCEPT ![r].job = j]
  <2>1. r \in Results /\ creating[c].fp \in Copies
    BY <1>3 DEF CreateCommit
  <2>2. job \in VideoJob
    BY <2>1 DEF NewJob, NoJob, VideoJob, RenderStatus, ApprovalStatus, PublishStatus
  <2>3. newTone \in [Results -> Tone]
    BY <2>1 DEF Tone
  <2>4. StoreTypeOK /\ \E saved \in SaveOutcomes : PersistLocked(j, job, newTone, saved)
    BY <1>3 DEF CreateCommit, StoreTypeOK
  <2>5. StoreTypeOK'
    <3> HIDE DEF job, newTone, TypeOK
    <3> QED BY <2>2, <2>3, <2>4, PersistTypeOK
  <2>6. render' \in [Jobs -> RenderTask]
    BY <1>3 DEF CreateCommit, RenderTask, QueuedRender, RenderStage
  <2>7. creating' \in [Callers -> [result : Results, fp : Copies] \cup {IdleCreate}]
    BY <1>3 DEF CreateCommit
  <2> QED BY <1>3, <2>5, <2>6, <2>7 DEF CreateCommit, StoreTypeOK
<1> QED BY <1>1, <1>2, <1>3

\* run_render() keeps the types.
LEMMA RenderTypeOK == TypeOK /\ RenderNext => TypeOK'
<1> SUFFICES ASSUME TypeOK, NEW j \in Jobs,
                    \/ RenderStart(j) \/ RenderStoryboard(j)
                    \/ RenderMedia(j) \/ RenderRaises(j)
                    \/ RenderFailed(j) \/ RenderCompleted(j)
             PROVE  TypeOK'
  BY DEF RenderNext
<1> USE DEF RenderUnchanged, historyVars
<1>1. StoreTypeOK /\ SaveOutcomes \subseteq BOOLEAN
  BY FlagAssumption DEF TypeOK, StoreTypeOK, SaveOutcomes
<1>2. ASSUME StoreTypeOK', render' \in [Jobs -> RenderTask],
             mp4' \in [Jobs -> Copies \cup {None}], RenderUnchanged
      PROVE  TypeOK'
  BY <1>2 DEF TypeOK, StoreTypeOK
<1>3. StoreTypeOK /\ UNCHANGED storeVars => StoreTypeOK'
  BY DEF StoreTypeOK, storeVars
<1>4. ASSUME NEW status \in RenderStatus
      PROVE  [jobs[j] EXCEPT !.render = status] \in VideoJob
  <2>1. jobs[j] \in VideoJob
    BY DEF TypeOK
  <2> QED BY <2>1, <1>4 DEF VideoJob
<1>5. render[j] \in RenderTask /\ mp4 \in [Jobs -> Copies \cup {None}]
        /\ tone \in [Results -> Tone] /\ render \in [Jobs -> RenderTask]
  BY DEF TypeOK
<1>6. CASE RenderStart(j)
  <2>1. render' \in [Jobs -> RenderTask]
    BY <1>5, <1>6 DEF RenderStart, RenderTask, RenderStage, NoRender
  <2>2. StoreTypeOK'
    BY <1>1, <1>3, <1>4, <1>5, <1>6, PersistTypeOK DEF RenderStart, RenderStatus
  <2> QED BY <1>2, <1>5, <1>6, <2>1, <2>2 DEF RenderStart
<1>7. CASE RenderStoryboard(j)
  <2>1. source[jobs[j].result] \in Copies \cup {None}
    BY <1>7 DEF RenderStoryboard, TypeOK, VideoJob, SameFingerprint
  <2>2. render' \in [Jobs -> RenderTask]
    BY <1>5, <1>7, <2>1 DEF RenderStoryboard, RenderTask, RenderStage
  <2> QED BY <1>1, <1>2, <1>3, <1>5, <1>7, <2>2 DEF RenderStoryboard
<1>8. CASE RenderMedia(j)
  <2>1. /\ render' \in [Jobs -> RenderTask]
        /\ mp4' \in [Jobs -> Copies \cup {None}]
    BY <1>5, <1>8 DEF RenderMedia, RenderTask, RenderStage
  <2> QED BY <1>1, <1>2, <1>3, <1>8, <2>1 DEF RenderMedia
<1>9. CASE RenderRaises(j)
  <2>1. render' \in [Jobs -> RenderTask]
    BY <1>5, <1>9 DEF RenderRaises, RenderTask, RenderStage
  <2> QED BY <1>1, <1>2, <1>3, <1>5, <1>9, <2>1 DEF RenderRaises
<1>10. CASE RenderFailed(j)
  <2>1. render' \in [Jobs -> RenderTask]
    BY <1>5, <1>10 DEF RenderFailed, RenderTask, RenderStage, NoRender
  <2>2. StoreTypeOK'
    BY <1>1, <1>4, <1>5, <1>10, PersistTypeOK DEF RenderFailed, RenderStatus
  <2> QED BY <1>2, <1>5, <1>10, <2>1, <2>2 DEF RenderFailed
<1>11. CASE RenderCompleted(j)
  <2>1. render' \in [Jobs -> RenderTask]
    BY <1>5, <1>11 DEF RenderCompleted, RenderTask, RenderStage, NoRender
  <2>2. [tone EXCEPT ![jobs[j].result].url = j] \in [Results -> Tone]
    BY <1>5 DEF Tone
  <2>3. [jobs[j] EXCEPT !.render = "completed"] \in VideoJob
    <3>1. "completed" \in RenderStatus
      BY DEF RenderStatus
    <3> QED BY <1>4, <3>1
  <2>4. ASSUME jobs[j].render = "processing" PROVE StoreTypeOK'
    <3> DEFINE job == [jobs[j] EXCEPT !.render = "completed"]
               newTone == [tone EXCEPT ![jobs[j].result].url = j]
    <3>1. \E saved \in SaveOutcomes : PersistLocked(j, job, newTone, saved)
      BY <1>11, <2>4 DEF RenderCompleted
    <3>2. job \in VideoJob /\ newTone \in [Results -> Tone]
      BY <2>2, <2>3
    <3> HIDE DEF job, newTone
    <3> QED BY <1>1, <3>1, <3>2, PersistTypeOK
  <2>5. ASSUME jobs[j].render # "processing" PROVE StoreTypeOK'
    BY <1>1, <1>3, <1>11, <2>5 DEF RenderCompleted
  <2> QED BY <1>2, <1>5, <1>11, <2>1, <2>4, <2>5 DEF RenderCompleted
<1> QED BY <1>6, <1>7, <1>8, <1>9, <1>10, <1>11

\* approve(), reject() and the copy editor keep the types.
LEMMA HandlerTypeOK == TypeOK /\ HandlerNext => TypeOK'
<1> SUFFICES ASSUME TypeOK, NEW h \in Handlers, HandlerNext
             PROVE  TypeOK'
  BY DEF HandlerNext
<1> USE DEF ApproveUnchanged, HandlerState
<1>1. StoreTypeOK /\ (UNCHANGED storeVars => StoreTypeOK')
  BY DEF TypeOK, StoreTypeOK, storeVars
<1>2. ASSUME StoreTypeOK', waiting' \in [Jobs -> Nat], requeues' \in [Jobs -> Nat],
             handler' \in [Handlers -> HandlerState \cup {IdleHandler}],
             ApproveUnchanged
      PROVE  TypeOK'
  BY <1>2 DEF TypeOK, StoreTypeOK
<1>3. /\ jobs \in [Jobs -> VideoJob] /\ tone \in [Results -> Tone]
      /\ waiting \in [Jobs -> Nat] /\ requeues \in [Jobs -> Nat]
      /\ handler \in [Handlers -> HandlerState \cup {IdleHandler}]
  BY DEF TypeOK
<1>4. ASSUME NEW g \in Handlers, NEW j \in Jobs, NEW at \in Requested,
             NEW publish \in BOOLEAN, NEW confirmed \in BOOLEAN,
             ApproveBegin(g, j, at, publish, confirmed)
      PROVE  TypeOK'
  <2> DEFINE reply == ApproveReply(j, jobs[j], at, publish, confirmed)
             ok == confirmed /\ jobs[j].result \in NeedsReview
  <2>1. reply \in {"approve", "requeue"} /\ at \in Nat /\ ok \in BOOLEAN
    BY <1>4, TimeAssumption DEF ApproveBegin
  <2> HIDE DEF reply, ok
  <2>2. [stage |-> reply, job |-> j, snap |-> jobs[j], at |-> at,
         publish |-> publish, confirmed |-> ok] \in HandlerState
    BY <1>3, <2>1
  <2>3. handler' \in [Handlers -> HandlerState \cup {IdleHandler}]
    BY <1>3, <1>4, <2>2 DEF ApproveBegin, reply, ok
  <2> QED BY <1>1, <1>2, <1>3, <1>4, <2>3 DEF ApproveBegin
<1>5. ASSUME NEW g \in Handlers, NEW j \in Jobs, NEW at \in Requested,
             NEW publish \in BOOLEAN, NEW confirmed \in BOOLEAN,
             ApproveAgain(g, j, at, publish, confirmed)
      PROVE  TypeOK'
  BY <1>1, <1>2, <1>3, <1>5 DEF ApproveAgain
<1>6. ASSUME NEW g \in Handlers, ApproveCommit(g) PROVE TypeOK'
  <2> DEFINE req == handler[g]
             j == req.job
             next == IF req.stage = "approve" THEN Approved(jobs[j], req)
                                              ELSE Requeued(jobs[j], req)
  <2>1. req \in HandlerState /\ j \in Jobs
    BY <1>3, <1>6 DEF ApproveCommit, IdleHandler
  <2>2. next \in VideoJob
    <3>1. jobs[j] \in VideoJob /\ req.at \in Nat /\ req.confirmed \in BOOLEAN
      BY <1>3, <2>1
    <3> HIDE DEF req, j
    <3>2. Approved(jobs[j], req) \in VideoJob
      BY <3>1 DEF Approved, VideoJob, ApprovalStatus, PublishStatus
    <3>3. Requeued(jobs[j], req) \in VideoJob
      BY <3>1 DEF Requeued, VideoJob, ApprovalStatus, PublishStatus
    <3> QED BY <3>2, <3>3
  <2>3. StoreTypeOK'
    <3>1. CASE NotChangedSince(jobs[j], req.snap)
      <4>1. \E saved \in SaveOutcomes : PersistLocked(j, next, tone, saved)
        BY <1>6, <3>1 DEF ApproveCommit
      <4> HIDE DEF next, j, req
      <4> QED BY <1>1, <1>3, <2>1, <2>2, <4>1, PersistTypeOK
    <3>2. CASE ~NotChangedSince(jobs[j], req.snap)
      BY <1>1, <1>6, <3>2 DEF ApproveCommit
    <3> QED BY <3>1, <3>2
  <2>4. waiting' \in [Jobs -> Nat] /\ requeues' \in [Jobs -> Nat]
    BY <1>3, <1>6 DEF ApproveCommit
  <2> QED BY <1>2, <1>3, <1>6, <2>3, <2>4 DEF ApproveCommit
<1>7. ASSUME NEW g \in Handlers, NEW j \in Jobs, Reject(g, j) PROVE TypeOK'
  <2> DEFINE job == [jobs[j] EXCEPT !.approval = "rejected"]
  <2>1. job \in VideoJob
    <3>1. jobs[j] \in VideoJob
      BY <1>3
    <3> QED BY <3>1 DEF VideoJob, ApprovalStatus
  <2>2. \E saved \in SaveOutcomes : PersistLocked(j, job, tone, saved)
    BY <1>7 DEF Reject
  <2>3. StoreTypeOK'
    <3> HIDE DEF job
    <3> QED BY <1>1, <1>3, <2>1, <2>2, PersistTypeOK
  <2> QED BY <1>2, <1>3, <1>7, <2>3 DEF Reject
<1>8. ASSUME NEW g \in Handlers, NEW r \in Results, NEW copy \in Copies,
             UpdateCopy(g, r, copy)
      PROVE  TypeOK'
  <2>1. StoreTypeOK'
    BY <1>1, <1>8 DEF UpdateCopy, StoreTypeOK, Snapshot
  <2> QED BY <1>2, <1>3, <1>8, <2>1 DEF UpdateCopy
<1>9. ASSUME NEW g \in Handlers, OtherSave(g) PROVE TypeOK'
  <2>1. StoreTypeOK'
    BY <1>1, <1>9 DEF OtherSave, StoreTypeOK, Snapshot
  <2> QED BY <1>2, <1>3, <1>9, <2>1 DEF OtherSave
<1> QED BY <1>4, <1>5, <1>6, <1>7, <1>8, <1>9 DEF HandlerNext

\* run_publish() and YouTube keep the types.
LEMMA PublishTypeOK == TypeOK /\ PublishNext => TypeOK'
<1> SUFFICES ASSUME TypeOK, NEW j \in Jobs,
                    \/ PublishTake(j) \/ PublishIntegrity(j)
                    \/ PublishNotStarted(j) \/ PublishStart(j)
                    \/ YouTubeStores(j) \/ AnswerServerError(j)
                    \/ AnswerRefused(j) \/ AnswerUnknown(j)
                    \/ AnswerVideoId(j) \/ PublishCommit(j)
             PROVE  TypeOK'
  BY DEF PublishNext
<1> USE DEF PublishUnchanged
<1>1. StoreTypeOK /\ (UNCHANGED storeVars => StoreTypeOK')
  BY DEF TypeOK, StoreTypeOK, storeVars
<1>2. ASSUME StoreTypeOK', waiting' \in [Jobs -> Nat], sessions' \in [Jobs -> Nat],
             youtube' \in [Jobs -> Nat], upload' \in [Jobs -> Upload],
             PublishUnchanged
      PROVE  TypeOK'
  BY <1>2 DEF TypeOK, StoreTypeOK
<1>3. /\ jobs \in [Jobs -> VideoJob] /\ tone \in [Results -> Tone]
      /\ waiting \in [Jobs -> Nat] /\ sessions \in [Jobs -> Nat]
      /\ youtube \in [Jobs -> Nat] /\ upload \in [Jobs -> Upload]
      /\ upload[j] \in Upload
  BY DEF TypeOK
<1>4. /\ "integrity" \in UploadStage /\ "request" \in UploadStage
      /\ "uploading" \in UploadStage /\ "done" \in UploadStage
      /\ {"needs_review", "schedule_expired", "auth_required", "failed",
          "scheduled"} \subseteq PublishStatus
  BY DEF UploadStage, PublishStatus
<1>5. ASSUME NEW outcome \in PublishStatus, Finish(j, outcome)
      PROVE  upload' \in [Jobs -> Upload]
  <2>1. [upload[j] EXCEPT !.stage = "done", !.outcome = outcome] \in Upload
    BY <1>3, <1>4 DEF Upload
  <2> QED BY <1>3, <1>5, <2>1 DEF Finish
<1>6. CASE PublishTake(j)
  <2>1. waiting' \in [Jobs -> Nat]
    BY <1>3, <1>6 DEF PublishTake, TaskWaits
  <2>2. upload' \in [Jobs -> Upload]
    BY <1>3, <1>4, <1>6 DEF PublishTake, Upload
  <2> QED BY <1>1, <1>2, <1>3, <1>6, <2>1, <2>2 DEF PublishTake
<1>7. CASE PublishIntegrity(j)
  <2>1. upload' \in [Jobs -> Upload]
    BY <1>3, <1>4, <1>5, <1>7 DEF PublishIntegrity, Upload
  <2> QED BY <1>1, <1>2, <1>3, <1>7, <2>1 DEF PublishIntegrity
<1>8. CASE PublishNotStarted(j)
  <2>1. upload' \in [Jobs -> Upload]
    BY <1>3, <1>4, <1>5, <1>8 DEF PublishNotStarted
  <2> QED BY <1>1, <1>2, <1>3, <1>8, <2>1 DEF PublishNotStarted
<1>9. CASE PublishStart(j)
  <2>1. upload' \in [Jobs -> Upload] /\ sessions' \in [Jobs -> Nat]
    BY <1>3, <1>4, <1>9 DEF PublishStart, Upload
  <2> QED BY <1>1, <1>2, <1>3, <1>9, <2>1 DEF PublishStart
<1>10. CASE YouTubeStores(j)
  <2>1. upload' \in [Jobs -> Upload] /\ youtube' \in [Jobs -> Nat]
    BY <1>3, <1>4, <1>10 DEF YouTubeStores, Upload
  <2> QED BY <1>1, <1>2, <1>3, <1>10, <2>1 DEF YouTubeStores
<1>11. CASE AnswerServerError(j)
  <2>1. upload' \in [Jobs -> Upload]
    <3>1. CASE upload[j].tries < MaxRetries
      <4>1. upload[j].tries + 1 \in 0..MaxRetries
        BY <1>3, <3>1 DEF Upload, MaxRetries
      <4> QED BY <1>3, <1>4, <1>11, <3>1, <4>1 DEF AnswerServerError, Upload
    <3>2. CASE ~(upload[j].tries < MaxRetries)
      BY <1>3, <1>4, <1>5, <1>11, <3>2 DEF AnswerServerError
    <3> QED BY <3>1, <3>2
  <2> QED BY <1>1, <1>2, <1>3, <1>11, <2>1 DEF AnswerServerError
<1>12. CASE AnswerRefused(j)
  <2>1. upload' \in [Jobs -> Upload]
    BY <1>3, <1>4, <1>5, <1>12 DEF AnswerRefused
  <2> QED BY <1>1, <1>2, <1>3, <1>12, <2>1 DEF AnswerRefused
<1>13. CASE AnswerUnknown(j)
  <2>1. upload' \in [Jobs -> Upload]
    BY <1>3, <1>4, <1>5, <1>13 DEF AnswerUnknown
  <2> QED BY <1>1, <1>2, <1>3, <1>13, <2>1 DEF AnswerUnknown
<1>14. CASE AnswerVideoId(j)
  <2>1. upload' \in [Jobs -> Upload]
    BY <1>3, <1>4, <1>5, <1>14 DEF AnswerVideoId
  <2> QED BY <1>1, <1>2, <1>3, <1>14, <2>1 DEF AnswerVideoId
<1>15. CASE PublishCommit(j)
  <2> DEFINE outcome == upload[j].outcome
             job == [jobs[j] EXCEPT !.publish = outcome,
                                    !.youtubeId = (outcome = "scheduled")]
  <2>1. job \in VideoJob
    <3>1. jobs[j] \in VideoJob /\ outcome \in PublishStatus
      BY <1>3 DEF Upload
    <3> HIDE DEF outcome
    <3> QED BY <3>1 DEF VideoJob
  <2>2. StoreTypeOK'
    <3>1. CASE NotChangedSince(jobs[j], upload[j].snap)
      <4>1. \E saved \in SaveOutcomes : PersistLocked(j, job, tone, saved)
        BY <1>15, <3>1 DEF PublishCommit
      <4> HIDE DEF job
      <4> QED BY <1>1, <1>3, <2>1, <4>1, PersistTypeOK
    <3>2. CASE ~NotChangedSince(jobs[j], upload[j].snap)
      BY <1>1, <1>15, <3>2 DEF PublishCommit
    <3> QED BY <3>1, <3>2
  <2>3. IdleUpload \in Upload
    BY DEF IdleUpload, NoJob, Upload, VideoJob, UploadStage, RenderStatus,
           ApprovalStatus, PublishStatus, MaxRetries
  <2>4. upload' \in [Jobs -> Upload]
    BY <1>3, <1>15, <2>3 DEF PublishCommit
  <2> QED BY <1>2, <1>3, <1>15, <2>2, <2>4 DEF PublishCommit
<1> QED BY <1>6, <1>7, <1>8, <1>9, <1>10, <1>11, <1>12, <1>13, <1>14, <1>15

\* A restart keeps the types: what is recovered from the file is a job again.
LEMMA RestartTypeOK == TypeOK /\ Restart => TypeOK'
<1> SUFFICES ASSUME TypeOK, Restart PROVE TypeOK'
  OBVIOUS
<1>1. ASSUME NEW job \in VideoJob PROVE RecoverVideoJob(job) \in VideoJob
  <2>1. /\ job.render \in RenderStatus /\ job.publish \in PublishStatus
        /\ job.updated \in Nat
        /\ "failed" \in RenderStatus /\ "needs_review" \in PublishStatus
    BY DEF VideoJob, RenderStatus, PublishStatus
  <2>2. ASSUME NEW a \in RenderStatus, NEW b \in PublishStatus, NEW n \in Nat
        PROVE  [job EXCEPT !.render = a, !.publish = b, !.updated = n] \in VideoJob
    BY DEF VideoJob
  <2> DEFINE a == IF job.render \in {"queued", "processing"} THEN "failed" ELSE job.render
             b == IF job.publish = "pending" /\ ~job.youtubeId THEN "needs_review"
                                                               ELSE job.publish
             n == IF \/ job.render \in {"queued", "processing"}
                     \/ job.publish = "pending" /\ ~job.youtubeId
                    THEN job.updated + 1 ELSE job.updated
  <2>3. a \in RenderStatus /\ b \in PublishStatus /\ n \in Nat
    BY <2>1
  <2>4. RecoverVideoJob(job) = [job EXCEPT !.render = a, !.publish = b, !.updated = n]
    BY DEF RecoverVideoJob
  <2> HIDE DEF a, b, n
  <2> QED BY <2>2, <2>3, <2>4
<1>2. disk \in [jobs : [Jobs -> VideoJob], tone : [Results -> Tone],
                source : [Results -> Copies]]
  BY DEF TypeOK
<1>3. jobs' \in [Jobs -> VideoJob]
  BY <1>1, <1>2 DEF Restart
<1>4. StoreTypeOK'
  BY <1>2, <1>3 DEF Restart, StoreTypeOK, InitializeJobIndexes
<1>5. IdleUpload \in Upload /\ NoRender \in RenderTask
  BY DEF IdleUpload, NoJob, Upload, VideoJob, UploadStage, RenderStatus,
         ApprovalStatus, PublishStatus, MaxRetries, NoRender, RenderTask, RenderStage
<1>6. /\ creating' \in [Callers -> [result : Results, fp : Copies] \cup {IdleCreate}]
      /\ render' \in [Jobs -> RenderTask] /\ waiting' \in [Jobs -> Nat]
      /\ upload' \in [Jobs -> Upload] /\ restarts' \in Nat
      /\ handler' \in [Handlers -> HandlerState \cup {IdleHandler}]
  BY <1>5 DEF Restart, TypeOK, NoCreates, NoRenders, NothingWaiting, NoUploads, NoHandlers
<1> QED BY <1>4, <1>6 DEF Restart, TypeOK, StoreTypeOK

LEMMA InitTypeOK == Init => TypeOK
<1> SUFFICES ASSUME Init PROVE TypeOK
  OBVIOUS
<1>1. IdleUpload \in Upload /\ NoRender \in RenderTask /\ NoJob \in VideoJob
  BY DEF IdleUpload, NoJob, Upload, VideoJob, UploadStage, RenderStatus,
         ApprovalStatus, PublishStatus, MaxRetries, NoRender, RenderTask, RenderStage
<1>2. jobs \in [Jobs -> VideoJob] /\ tone \in [Results -> Tone]
        /\ source \in [Results -> Copies]
  BY <1>1 DEF Init, Tone
<1> QED BY <1>1, <1>2 DEF Init, TypeOK, Snapshot, NoCreates, NoRenders,
                          NothingWaiting, NoUploads, NoHandlers

\* Every reachable state is well typed, whatever the sets of jobs, results,
\* callers and handlers, and whether or not saves fail and answers get lost.
THEOREM TypeCorrect == Spec => []TypeOK
<1>1. Init => TypeOK
  BY InitTypeOK
<1>2. TypeOK /\ [Next]_vars => TypeOK'
  <2>1. TypeOK /\ Tick => TypeOK'
    BY DEF TypeOK, Tick, storeVars, taskVars, historyVars
  <2>2. TypeOK /\ UNCHANGED vars => TypeOK'
    BY DEF TypeOK, vars, storeVars, taskVars, historyVars
  <2> QED BY <2>1, <2>2, CreateTypeOK, RenderTypeOK, HandlerTypeOK,
             PublishTypeOK, RestartTypeOK DEF Next
<1> QED BY <1>1, <1>2, PTL DEF Spec

-----------------------------------------------------------------------------

(***************************************************************************)
(* What _persist_locked changes.                                           *)
(***************************************************************************)

\* One of the outcomes of _persist_locked.
Stores(j, job, newTone) ==
    \E saved \in SaveOutcomes : PersistLocked(j, job, newTone, saved)

\* The job is stored under a new version, the others stay, and file and index
\* follow.
LEMMA PersistFacts ==
  ASSUME TypeOK, ~SaveCanFail, NEW j \in Jobs, NEW job \in VideoJob,
         NEW newTone,
         Stores(j, job, newTone)
  PROVE  /\ jobs'[j] = [job EXCEPT !.updated = jobs[j].updated + 1]
         /\ \A k \in Jobs : k # j => jobs'[k] = jobs[k]
         /\ disk'.jobs = jobs'
         /\ active' = UpdateJobIndexes(active, j, job)
<1>1. PersistLocked(j, job, newTone, TRUE)
  BY DEF Stores, SaveOutcomes
<1> QED BY <1>1 DEF PersistLocked, TypeOK, Snapshot

\* The index stays exact and no second job becomes active, if the stored job
\* was active before or its result had no active job.
LEMMA PersistIndex ==
  ASSUME TypeOK, ~SaveCanFail, ActiveIndexIsExact, OneActiveJobPerResult,
         NEW j \in Jobs, NEW job \in VideoJob, NEW newTone,
         Stores(j, job, newTone),
         job.result \in Results,
         \/ /\ jobs[j].result = job.result
            /\ IsActive(job) => IsActive(jobs[j])
         \/ jobs[j] = NoJob /\ active[job.result] = {}
  PROVE  ActiveIndexIsExact' /\ OneActiveJobPerResult'
<1>1. /\ jobs'[j] = [job EXCEPT !.updated = jobs[j].updated + 1]
      /\ \A k \in Jobs : k # j => jobs'[k] = jobs[k]
      /\ active' = UpdateJobIndexes(active, j, job)
  BY PersistFacts
<1>2. /\ IsActive(jobs'[j]) <=> IsActive(job)
      /\ jobs'[j].result = job.result
  BY <1>1 DEF IsActive, VideoJob
<1>3. /\ ~IsActive(NoJob) /\ NoJob.result = None /\ None \notin Results
      /\ active \in [Results -> SUBSET Jobs]
  BY NoneAssumption DEF IsActive, NoJob, TypeOK
<1>4. ActiveIndexIsExact'
  <2> SUFFICES ASSUME NEW r \in Results
               PROVE  active'[r] = {k \in Jobs : jobs'[k].result = r /\ IsActive(jobs'[k])}
    BY DEF ActiveIndexIsExact, IsActive
  <2>1. active[r] = {k \in Jobs : jobs[k].result = r /\ IsActive(jobs[k])}
    BY DEF ActiveIndexIsExact
  <2>2. CASE r = job.result
    <3>1. active'[r] = IF IsActive(job) THEN active[r] \cup {j} ELSE active[r] \ {j}
      BY <1>1, <1>3, <2>2 DEF UpdateJobIndexes
    <3> QED BY <1>1, <1>2, <2>1, <2>2, <3>1
  <2>3. CASE r # job.result
    <3>1. active'[r] = active[r]
      BY <1>1, <1>3, <2>3 DEF UpdateJobIndexes
    <3> QED BY <1>1, <1>2, <1>3, <2>1, <2>3, <3>1
  <2> QED BY <2>2, <2>3
<1>5. OneActiveJobPerResult'
  <2> SUFFICES ASSUME NEW k \in Jobs, NEW l \in Jobs,
                      IsActive(jobs'[k]), IsActive(jobs'[l]),
                      jobs'[k].result = jobs'[l].result
               PROVE  k = l
    BY DEF OneActiveJobPerResult, IsActive
  <2>1. CASE jobs[j].result = job.result /\ (IsActive(job) => IsActive(jobs[j]))
    <3>1. \A i \in Jobs : IsActive(jobs'[i]) => /\ IsActive(jobs[i])
                                                /\ jobs'[i].result = jobs[i].result
      BY <1>1, <1>2, <2>1
    <3> QED BY <3>1 DEF OneActiveJobPerResult
  <2>2. CASE jobs[j] = NoJob /\ active[job.result] = {}
    <3>1. \A i \in Jobs : ~(jobs[i].result = job.result /\ IsActive(jobs[i]))
      BY <2>2 DEF ActiveIndexIsExact
    <3> QED BY <1>1, <1>2, <3>1 DEF OneActiveJobPerResult
  <2> QED BY <2>1, <2>2
<1> QED BY <1>4, <1>5

(***************************************************************************)
(* Steps that change the parts of one job.                                 *)
(***************************************************************************)
TasksKept(k) ==
    /\ render'[k] = render[k]
    /\ mp4'[k] = mp4[k]
    /\ upload'[k] = upload[k]
    /\ youtube'[k] = youtube[k]
    /\ waiting'[k] = waiting[k]
    /\ sessions'[k] = sessions[k]
    /\ requeues'[k] = requeues[k]

\* A step that stores one job keeps the invariant when it keeps the parts that
\* speak of this job.
LEMMA StoreStep ==
  ASSUME TypeOK, SafetyInv, ~SaveCanFail,
         NEW j \in Jobs, NEW job \in VideoJob, NEW newTone,
         Stores(j, job, newTone),
         job.result \in Results,
         \/ /\ jobs[j].result = job.result
            /\ IsActive(job) => IsActive(jobs[j])
         \/ jobs[j] = NoJob /\ active[job.result] = {},
         \A k \in Jobs : k # j => TasksKept(k),
         \A h \in Handlers : handler'[h] \in {handler[h], IdleHandler},
         JobShape(jobs'[j]),
         RenderInv(jobs'[j], render'[j], mp4'[j]),
         UploadInv(jobs'[j], upload'[j], youtube'[j]),
         SessionInv(jobs'[j], waiting'[j], upload'[j], sessions'[j], requeues'[j])
  PROVE  SafetyInv'
<1>1. ActiveIndexIsExact' /\ OneActiveJobPerResult'
  BY PersistIndex DEF SafetyInv
<1>2. /\ jobs'[j].updated = jobs[j].updated + 1
      /\ \A k \in Jobs : k # j => jobs'[k] = jobs[k]
      /\ disk'.jobs = jobs'
  <2>1. jobs'[j] = [job EXCEPT !.updated = jobs[j].updated + 1]
    BY PersistFacts
  <2>2. jobs'[j].updated = jobs[j].updated + 1
    BY <2>1 DEF VideoJob
  <2> QED BY <2>2, PersistFacts
<1>3. ASSUME NEW k \in Jobs PROVE JobInv(k)'
  <2>1. DiskInv(jobs'[k], disk'.jobs[k])
    BY <1>2 DEF DiskInv
  <2>2. CASE k = j
    BY <2>1, <2>2 DEF JobInv
  <2>3. CASE k # j
    <3>1. JobInv(k) /\ TasksKept(k) /\ jobs'[k] = jobs[k]
      BY <1>2, <2>3 DEF SafetyInv
    <3> QED BY <2>1, <3>1 DEF JobInv, TasksKept
  <2> QED BY <2>2, <2>3
<1>4. ASSUME NEW h \in Handlers, handler'[h] # IdleHandler
      PROVE  HandlerInv(handler'[h], jobs'[handler'[h].job])
  <2>1. /\ handler'[h] = handler[h] /\ handler[h] \in HandlerState
        /\ HandlerInv(handler[h], jobs[handler[h].job])
    BY <1>4 DEF SafetyInv, TypeOK
  <2> DEFINE request == handler[h]
             i == request.job
  <2>2. i \in Jobs /\ request.snap.updated \in Nat
    BY <2>1 DEF HandlerState, VideoJob
  <2>3. CASE i = j
    <3>1. jobs[j].updated \in Nat
      BY DEF TypeOK, VideoJob
    <3>2. request.snap.updated < jobs'[i].updated
      BY <1>2, <2>1, <2>2, <2>3, <3>1 DEF HandlerInv
    <3> QED BY <1>2, <2>1, <2>2, <2>3, <3>1, <3>2 DEF HandlerInv
  <2>4. CASE i # j
    BY <1>2, <2>1, <2>2, <2>4
  <2> QED BY <2>3, <2>4
<1> QED BY <1>1, <1>3, <1>4 DEF SafetyInv

\* A step that stores no job keeps the invariant when it keeps the parts of the
\* jobs and handlers whose tasks it changes.
LEMMA TaskStep ==
  ASSUME SafetyInv, UNCHANGED <<jobs, active>>,
         disk' = disk \/ disk'.jobs = jobs,
         \A k \in Jobs :
           \/ TasksKept(k)
           \/ /\ RenderInv(jobs[k], render'[k], mp4'[k])
              /\ UploadInv(jobs[k], upload'[k], youtube'[k])
              /\ SessionInv(jobs[k], waiting'[k], upload'[k], sessions'[k], requeues'[k]),
         \A h \in Handlers :
           \/ handler'[h] \in {handler[h], IdleHandler}
           \/ HandlerInv(handler'[h], jobs[handler'[h].job])
  PROVE  SafetyInv'
<1>1. ActiveIndexIsExact' /\ OneActiveJobPerResult'
  BY DEF SafetyInv, ActiveIndexIsExact, OneActiveJobPerResult, IsActive
<1>2. ASSUME NEW k \in Jobs PROVE JobInv(k)'
  <2>1. DiskInv(jobs'[k], disk'.jobs[k])
    BY DEF SafetyInv, JobInv, DiskInv
  <2>2. JobInv(k)
    BY DEF SafetyInv
  <2> QED BY <2>1, <2>2 DEF JobInv, TasksKept
<1>3. ASSUME NEW h \in Handlers, handler'[h] # IdleHandler
      PROVE  HandlerInv(handler'[h], jobs'[handler'[h].job])
  BY <1>3 DEF SafetyInv
<1> QED BY <1>1, <1>2, <1>3 DEF SafetyInv

\* The parts of a job and their types, for the proofs below.
LEMMA JobParts ==
  ASSUME TypeOK, SafetyInv, NEW j \in Jobs
  PROVE  /\ jobs[j] \in VideoJob /\ render[j] \in RenderTask /\ upload[j] \in Upload
         /\ waiting[j] \in Nat /\ sessions[j] \in Nat /\ requeues[j] \in Nat
         /\ youtube[j] \in Nat
         /\ JobShape(jobs[j])
         /\ RenderInv(jobs[j], render[j], mp4[j])
         /\ UploadInv(jobs[j], upload[j], youtube[j])
         /\ SessionInv(jobs[j], waiting[j], upload[j], sessions[j], requeues[j])
BY DEF TypeOK, SafetyInv, JobInv

(***************************************************************************)
(* create().                                                               *)
(***************************************************************************)
LEMMA CreateSafe ==
  ASSUME TypeOK, SafetyInv, ~SaveCanFail, CreateNext
  PROVE  SafetyInv'
<1> USE DEF historyVars, storeVars
<1>1. ASSUME NEW c \in Callers, NEW r \in Results, CreateBegin(c, r)
      PROVE  SafetyInv'
  BY <1>1, TaskStep DEF CreateBegin, TasksKept
<1>2. ASSUME NEW c \in Callers, CreateRefused(c) PROVE SafetyInv'
  BY <1>2, TaskStep DEF CreateRefused, TasksKept
<1>3. ASSUME NEW c \in Callers, NEW j \in Jobs, CreateCommit(c, j)
      PROVE  SafetyInv'
  <2> DEFINE r == creating[c].result
             job == NewJob(r, creating[c].fp)
             newTone == [tone EXCEPT ![r].job = j]
  <2>1. r \in Results /\ creating[c].fp \in Copies
    BY <1>3 DEF CreateCommit, TypeOK
  <2>2. job \in VideoJob /\ job.result = r
    BY <2>1 DEF NewJob, NoJob, VideoJob, RenderStatus, ApprovalStatus, PublishStatus
  <2>3. /\ Stores(j, job, newTone)
        /\ jobs[j] = NoJob /\ active[r] = {}
        /\ render' = [render EXCEPT ![j] = QueuedRender]
        /\ UNCHANGED <<mp4, waiting, upload, handler, youtube, sessions, requeues>>
    BY <1>3 DEF CreateCommit, CanCreate, SaveOutcomes, Stores
  <2>4. jobs'[j] = [job EXCEPT !.updated = jobs[j].updated + 1]
    <3> HIDE DEF job, newTone
    <3> QED BY <2>2, <2>3, PersistFacts
  <2>5. /\ jobs'[j].result = r /\ jobs'[j].fp \in Copies
        /\ jobs'[j].render = "queued" /\ jobs'[j].approval = "pending"
        /\ jobs'[j].publish = "not_requested" /\ ~jobs'[j].youtubeId
    BY <2>1, <2>4 DEF NewJob, NoJob
  <2>6. /\ UploadInv(NoJob, upload[j], youtube[j])
        /\ SessionInv(NoJob, waiting[j], upload[j], sessions[j], requeues[j])
        /\ sessions[j] \in Nat /\ requeues[j] \in Nat
    BY <2>3, JobParts
  <2>7. upload[j].stage = "idle" /\ sessions[j] = 0 /\ requeues[j] = 0
    BY <2>6 DEF UploadInv, SessionInv, MustUpload, NoJob
  <2>8. render'[j] = QueuedRender /\ (\A k \in Jobs : k # j => TasksKept(k))
    BY <2>3 DEF TasksKept, TypeOK
  <2>9. JobShape(jobs'[j]) /\ RenderInv(jobs'[j], render'[j], mp4'[j])
    BY <2>1, <2>5, <2>8 DEF JobShape, RenderInv, QueuedRender
  <2>10. UploadInv(jobs'[j], upload'[j], youtube'[j])
    BY <2>3, <2>5, <2>6, <2>7 DEF UploadInv
  <2>11. SessionInv(jobs'[j], waiting'[j], upload'[j], sessions'[j], requeues'[j])
    BY <2>3, <2>5, <2>7 DEF SessionInv
  <2> HIDE DEF job, newTone
  <2> QED BY <2>1, <2>2, <2>3, <2>8, <2>9, <2>10, <2>11, StoreStep
<1> QED BY <1>1, <1>2, <1>3, CreateNext DEF CreateNext

(***************************************************************************)
(* run_render().                                                           *)
(***************************************************************************)


\* Another render status, and nothing else of the job that a part speaks of.
RenderedTo(job, old) ==
    /\ job \in VideoJob
    /\ job.result = old.result /\ job.fp = old.fp
    /\ job.render # "absent"
    /\ job.approval = old.approval /\ job.publish = old.publish
    /\ job.youtubeId = old.youtubeId

\* A step of the render stores another status of a job that is not finished.
LEMMA RenderStoreStep ==
  ASSUME TypeOK, SafetyInv, ~SaveCanFail,
         NEW j \in Jobs, NEW job, NEW newTone,
         jobs[j].render \in {"queued", "processing"},
         RenderedTo(job, jobs[j]),
         Stores(j, job, newTone),
         \A k \in Jobs : k # j => render'[k] = render[k],
         UNCHANGED mp4, RenderUnchanged,
         RenderInv(job, render'[j], mp4[j])
  PROVE  SafetyInv'
<1>1. /\ jobs[j] \in VideoJob /\ JobShape(jobs[j])
      /\ UploadInv(jobs[j], upload[j], youtube[j])
      /\ SessionInv(jobs[j], waiting[j], upload[j], sessions[j], requeues[j])
  BY JobParts
<1>2. jobs'[j] = [job EXCEPT !.updated = jobs[j].updated + 1]
  BY PersistFacts DEF RenderedTo
<1>3. /\ jobs'[j].result = jobs[j].result /\ jobs'[j].fp = jobs[j].fp
      /\ jobs'[j].render = job.render /\ job.render # "absent"
      /\ jobs'[j].approval = jobs[j].approval /\ jobs'[j].publish = jobs[j].publish
      /\ jobs'[j].youtubeId = jobs[j].youtubeId
  BY <1>2 DEF VideoJob, RenderedTo
<1>4. /\ jobs[j].approval # "approved" /\ jobs[j].publish = "not_requested"
      /\ jobs[j].result \in Results /\ jobs[j].fp \in Copies
  BY <1>1 DEF JobShape
<1>5. IsActive(job) => IsActive(jobs[j])
  BY DEF IsActive, RenderedTo
<1>6. JobShape(jobs'[j])
  BY <1>1, <1>3, <1>4 DEF JobShape
<1>7. RenderInv(jobs'[j], render'[j], mp4'[j])
  BY <1>3 DEF RenderInv, RenderedTo
<1>8. UploadInv(jobs'[j], upload'[j], youtube'[j])
  BY <1>1, <1>3, <1>4 DEF UploadInv, MustUpload, RenderUnchanged
<1>9. SessionInv(jobs'[j], waiting'[j], upload'[j], sessions'[j], requeues'[j])
  BY <1>1, <1>3, <1>4 DEF SessionInv, RenderUnchanged, historyVars
<1>10. \A k \in Jobs : k # j => TasksKept(k)
  BY DEF TasksKept, RenderUnchanged, historyVars
<1>11. \A h \in Handlers : handler'[h] \in {handler[h], IdleHandler}
  BY DEF RenderUnchanged
<1> QED BY <1>4, <1>5, <1>6, <1>7, <1>8, <1>9, <1>10, <1>11, StoreStep DEF RenderedTo

LEMMA RenderSafe ==
  ASSUME TypeOK, SafetyInv, ~SaveCanFail, NEW j \in Jobs,
         \/ RenderStart(j) \/ RenderStoryboard(j) \/ RenderMedia(j)
         \/ RenderRaises(j) \/ RenderFailed(j) \/ RenderCompleted(j)
  PROVE  SafetyInv'
<1>1. /\ jobs[j] \in VideoJob /\ render[j] \in RenderTask
      /\ RenderInv(jobs[j], render[j], mp4[j])
      /\ UploadInv(jobs[j], upload[j], youtube[j])
      /\ SessionInv(jobs[j], waiting[j], upload[j], sessions[j], requeues[j])
      /\ render \in [Jobs -> RenderTask] /\ mp4 \in [Jobs -> Copies \cup {None}]
  BY JobParts DEF TypeOK
<1>2. ASSUME NEW status \in RenderStatus \ {"absent"}
      PROVE  /\ RenderedTo([jobs[j] EXCEPT !.render = status], jobs[j])
             /\ [jobs[j] EXCEPT !.render = status].render = status
  BY <1>1 DEF RenderedTo, VideoJob
<1>3. ASSUME UNCHANGED storeVars, RenderUnchanged,
             \A k \in Jobs : k # j => render'[k] = render[k] /\ mp4'[k] = mp4[k],
             RenderInv(jobs[j], render'[j], mp4'[j])
      PROVE  SafetyInv'
  BY <1>1, <1>3, TaskStep DEF TasksKept, RenderUnchanged, storeVars, historyVars
<1>4. CASE RenderStart(j)
  <2> DEFINE job == [jobs[j] EXCEPT !.render = "processing"]
  <2>1. /\ jobs[j].render = "queued"
        /\ render' = [render EXCEPT ![j].stage = "storyboard"]
        /\ Stores(j, job, tone)
    BY <1>1, <1>4 DEF RenderStart, RenderInv, SaveOutcomes, Stores
  <2>2. RenderedTo(job, jobs[j]) /\ job.render = "processing"
    BY <1>2 DEF RenderStatus
  <2>3. render'[j].stage = "storyboard" /\ (\A k \in Jobs : k # j => render'[k] = render[k])
    BY <1>1, <2>1 DEF RenderTask
  <2>4. RenderInv(job, render'[j], mp4[j])
    BY <2>2, <2>3 DEF RenderInv, RenderedTo
  <2>5. RenderUnchanged /\ UNCHANGED mp4 /\ jobs[j].render \in {"queued", "processing"}
    BY <1>4, <2>1 DEF RenderStart
  <2> HIDE DEF job
  <2> QED BY <2>1, <2>2, <2>3, <2>4, <2>5, RenderStoreStep
<1>5. CASE RenderStoryboard(j)
  <2>1. /\ render'[j].stage = "media" /\ render'[j].board = jobs[j].fp
        /\ \A k \in Jobs : k # j => render'[k] = render[k]
    BY <1>1, <1>5 DEF RenderStoryboard, SameFingerprint, RenderTask
  <2>2. RenderInv(jobs[j], render'[j], mp4'[j])
    BY <1>1, <1>5, <2>1 DEF RenderStoryboard, RenderInv
  <2> QED BY <1>3, <1>5, <2>1, <2>2 DEF RenderStoryboard
<1>6. CASE RenderMedia(j)
  <2>1. /\ render'[j].stage = "rendered" /\ render'[j].board = render[j].board
        /\ mp4'[j] = render[j].board
        /\ \A k \in Jobs : k # j => render'[k] = render[k] /\ mp4'[k] = mp4[k]
    BY <1>1, <1>6 DEF RenderMedia, RenderTask
  <2>2. RenderInv(jobs[j], render'[j], mp4'[j])
    BY <1>1, <1>6, <2>1 DEF RenderMedia, RenderInv
  <2> QED BY <1>3, <1>6, <2>1, <2>2 DEF RenderMedia
<1>7. CASE RenderRaises(j)
  <2>1. /\ render'[j].stage = "raised"
        /\ \A k \in Jobs : k # j => render'[k] = render[k]
    BY <1>1, <1>7 DEF RenderRaises, RenderTask
  <2>2. RenderInv(jobs[j], render'[j], mp4'[j])
    BY <1>1, <1>7, <2>1 DEF RenderRaises, RenderInv
  <2> QED BY <1>3, <1>7, <2>1, <2>2 DEF RenderRaises
<1>8. CASE RenderFailed(j)
  <2> DEFINE job == [jobs[j] EXCEPT !.render = "failed"]
  <2>1. /\ jobs[j].render = "processing" /\ render'[j] = NoRender
        /\ Stores(j, job, tone)
        /\ \A k \in Jobs : k # j => render'[k] = render[k]
    BY <1>1, <1>8 DEF RenderFailed, RenderInv, Stores
  <2>9. RenderedTo(job, jobs[j]) /\ job.render = "failed"
    BY <1>2 DEF RenderStatus
  <2>2. RenderInv(job, render'[j], mp4[j])
    BY <2>1, <2>9 DEF RenderInv, NoRender, RenderedTo
  <2>8. RenderUnchanged /\ UNCHANGED mp4 /\ jobs[j].render \in {"queued", "processing"}
    BY <1>8, <2>1 DEF RenderFailed
  <2> HIDE DEF job
  <2> QED BY <2>8, <2>9, <2>1, <2>2, RenderStoreStep
<1>9. CASE RenderCompleted(j)
  <2> DEFINE job == [jobs[j] EXCEPT !.render = "completed"]
  <2>1. /\ jobs[j].render = "processing" /\ render'[j] = NoRender /\ mp4[j] = jobs[j].fp
        /\ \A k \in Jobs : k # j => render'[k] = render[k]
    BY <1>1, <1>9 DEF RenderCompleted, RenderInv
  <2>9. RenderedTo(job, jobs[j]) /\ job.render = "completed"
    BY <1>2 DEF RenderStatus
  <2>2. RenderInv(job, render'[j], mp4[j])
    BY <2>1, <2>9 DEF RenderInv, NoRender, RenderedTo
  <2>3. PICK newTone : Stores(j, job, newTone)
    BY <1>9, <2>1 DEF RenderCompleted, Stores
  <2>8. RenderUnchanged /\ UNCHANGED mp4 /\ jobs[j].render \in {"queued", "processing"}
    BY <1>9, <2>1 DEF RenderCompleted, Stores
  <2> HIDE DEF job
  <2> QED BY <2>8, <2>9, <2>1, <2>2, <2>3, RenderStoreStep
<1> QED BY <1>4, <1>5, <1>6, <1>7, <1>8, <1>9

(***************************************************************************)
(* approve(), reject() and the copy editor.                                *)
(***************************************************************************)

\* What approve() has found out when it goes on to a commit.
LEMMA ReplyFacts ==
  ASSUME NEW j, NEW job, NEW at, NEW publish, NEW confirmed
  PROVE  LET reply == ApproveReply(j, job, at, publish, confirmed)
         IN  /\ reply = "approve" => job.render = "completed" /\ job.approval = "pending"
             /\ reply = "requeue" => /\ job.render = "completed"
                                     /\ job.approval = "approved"
                                     /\ job.publish \in Retryable
             /\ reply \in {"approve", "requeue", "same", "refused"}
BY DEF ApproveReply

\* A decision on a job, or the result of its upload: the render stays.
DecidedOn(job, old) ==
    /\ job \in VideoJob
    /\ old.render # "absent"
    /\ job.result = old.result /\ job.fp = old.fp /\ job.render = old.render
    /\ old.approval = "rejected" => job.approval = "rejected"

\* Storing a decision keeps the invariant while no upload of the job runs.
LEMMA DecisionStoreStep ==
  ASSUME TypeOK, SafetyInv, ~SaveCanFail,
         NEW j \in Jobs, NEW job, NEW newTone,
         DecidedOn(job, jobs[j]), Stores(j, job, newTone),
         render' = render, mp4' = mp4,
         \A k \in Jobs : k # j => TasksKept(k),
         \A h \in Handlers : handler'[h] \in {handler[h], IdleHandler},
         upload'[j].stage = "idle",
         JobShape(job),
         UploadInv(job, upload'[j], youtube'[j]),
         SessionInv(job, waiting'[j], upload'[j], sessions'[j], requeues'[j])
  PROVE  SafetyInv'
<1>1. /\ jobs[j] \in VideoJob /\ JobShape(jobs[j])
      /\ RenderInv(jobs[j], render[j], mp4[j])
  BY JobParts
<1>2. jobs'[j] = [job EXCEPT !.updated = jobs[j].updated + 1]
  BY PersistFacts DEF DecidedOn
<1>3. /\ jobs'[j].result = jobs[j].result /\ jobs'[j].fp = jobs[j].fp
      /\ jobs'[j].render = jobs[j].render
      /\ jobs'[j].approval = job.approval /\ jobs'[j].publish = job.publish
      /\ jobs'[j].youtubeId = job.youtubeId
  BY <1>2 DEF VideoJob, DecidedOn
<1>4. job.result \in Results /\ (IsActive(job) => IsActive(jobs[j]))
  BY <1>1 DEF DecidedOn, JobShape, IsActive
<1>5. JobShape(jobs'[j])
  BY <1>1, <1>3 DEF JobShape, DecidedOn
<1>6. RenderInv(jobs'[j], render'[j], mp4'[j])
  BY <1>1, <1>3 DEF RenderInv
<1>7. UploadInv(jobs'[j], upload'[j], youtube'[j])
  BY <1>3 DEF UploadInv
<1>8. SessionInv(jobs'[j], waiting'[j], upload'[j], sessions'[j], requeues'[j])
  BY <1>3 DEF SessionInv
<1> QED BY <1>4, <1>5, <1>6, <1>7, <1>8, StoreStep DEF DecidedOn

LEMMA ApproveCommitSafe ==
  ASSUME TypeOK, SafetyInv, ~SaveCanFail, NEW h \in Handlers, ApproveCommit(h)
  PROVE  SafetyInv'
<1> DEFINE req == handler[h]
           j == req.job
           next == IF req.stage = "approve" THEN Approved(jobs[j], req)
                                            ELSE Requeued(jobs[j], req)
<1>1. /\ req \in HandlerState /\ j \in Jobs
      /\ req.stage \in {"approve", "requeue"}
      /\ req.at \in Nat /\ req.publish \in BOOLEAN /\ req.confirmed \in BOOLEAN
  BY DEF ApproveCommit, IdleHandler, TypeOK, HandlerState
<1>2. /\ HandlerInv(req, jobs[j])
      /\ jobs[j] \in VideoJob /\ upload[j] \in Upload
      /\ waiting[j] \in Nat /\ sessions[j] \in Nat /\ requeues[j] \in Nat
      /\ JobShape(jobs[j])
      /\ UploadInv(jobs[j], upload[j], youtube[j])
      /\ SessionInv(jobs[j], waiting[j], upload[j], sessions[j], requeues[j])
  <2>1. req # IdleHandler
    BY <1>1 DEF IdleHandler
  <2>2. HandlerInv(req, jobs[j])
    BY <2>1 DEF SafetyInv
  <2> HIDE DEF j
  <2> QED BY <1>1, <2>2, JobParts
<1>3. /\ \A g \in Handlers : handler'[g] \in {handler[g], IdleHandler}
      /\ UNCHANGED <<mp4, render, upload, youtube, sessions>>
  BY DEF ApproveCommit, ApproveUnchanged, TypeOK
<1>4. CASE ~NotChangedSince(jobs[j], req.snap)
  <2>1. UNCHANGED <<jobs, active, disk, waiting, requeues>>
    BY <1>4 DEF ApproveCommit, storeVars
  <2> QED BY <1>3, <2>1, TaskStep DEF TasksKept
<1>5. CASE NotChangedSince(jobs[j], req.snap)
  <2>1. req.snap = jobs[j]
    BY <1>2, <1>5 DEF NotChangedSince, HandlerInv
  <2>2. /\ jobs[j].render = "completed" /\ jobs[j].approval # "rejected"
        /\ req.stage = "approve" => jobs[j].approval = "pending"
        /\ req.stage = "requeue" => /\ jobs[j].approval = "approved"
                                    /\ jobs[j].publish \in Retryable
    BY <1>1, <1>2, <2>1 DEF HandlerInv
  <2>3. /\ next \in VideoJob
        /\ next.result = jobs[j].result /\ next.fp = jobs[j].fp
        /\ next.render = "completed" /\ next.approval = "approved"
        /\ ~next.youtubeId
        /\ \/ next.publish = "pending"
           \/ req.stage = "approve" /\ next.publish = "not_requested"
    <3> HIDE DEF req, j
    <3>1. /\ Approved(jobs[j], req) \in VideoJob
          /\ Approved(jobs[j], req).result = jobs[j].result
          /\ Approved(jobs[j], req).fp = jobs[j].fp
          /\ Approved(jobs[j], req).render = jobs[j].render
          /\ Approved(jobs[j], req).approval = "approved"
          /\ Approved(jobs[j], req).publish \in {"pending", "not_requested"}
          /\ Approved(jobs[j], req).youtubeId = jobs[j].youtubeId
      BY <1>1, <1>2 DEF Approved, VideoJob, ApprovalStatus, PublishStatus
    <3>2. /\ Requeued(jobs[j], req) \in VideoJob
          /\ Requeued(jobs[j], req).result = jobs[j].result
          /\ Requeued(jobs[j], req).fp = jobs[j].fp
          /\ Requeued(jobs[j], req).render = jobs[j].render
          /\ Requeued(jobs[j], req).approval = jobs[j].approval
          /\ Requeued(jobs[j], req).publish = "pending"
          /\ ~Requeued(jobs[j], req).youtubeId
      BY <1>1, <1>2 DEF Requeued, VideoJob, ApprovalStatus, PublishStatus
    <3>3. req.stage = "approve" => ~jobs[j].youtubeId
      BY <1>2, <2>2 DEF JobShape
    <3> QED BY <1>1, <2>2, <3>1, <3>2, <3>3
  <2>4. /\ Stores(j, next, tone)
        /\ waiting' = IF next.publish = "pending" THEN [waiting EXCEPT ![j] = @ + 1]
                                                  ELSE waiting
        /\ requeues' = [requeues EXCEPT ![j] = IF req.stage = "requeue" THEN @ + 1 ELSE @]
    <3> HIDE DEF next
    <3> QED BY <1>5 DEF ApproveCommit, QueuesUpload, SaveOutcomes, Stores, next
  <2> HIDE DEF next
  <2>5. /\ waiting'[j] = IF next.publish = "pending" THEN waiting[j] + 1 ELSE waiting[j]
        /\ requeues'[j] = IF req.stage = "requeue" THEN requeues[j] + 1 ELSE requeues[j]
        /\ \A k \in Jobs : k # j => TasksKept(k)
    <3> HIDE DEF req, j
    <3> QED BY <1>1, <1>3, <2>4 DEF TypeOK, TasksKept
  <2>6. /\ upload'[j].stage = "idle" /\ youtube'[j] = youtube[j]
        /\ upload'[j] = upload[j] /\ sessions'[j] = sessions[j]
    BY <1>1, <1>2, <1>3, <2>2 DEF UploadInv, MustUpload, Retryable
  <2>7. DecidedOn(next, jobs[j]) /\ JobShape(next)
    BY <1>2, <2>2, <2>3 DEF DecidedOn, JobShape
  <2>8. UploadInv(next, upload'[j], youtube'[j])
    BY <1>2, <2>3, <2>6 DEF UploadInv
  <2>9. SessionInv(next, waiting'[j], upload'[j], sessions'[j], requeues'[j])
    <3>1. CASE req.stage = "approve"
      <4>1. sessions[j] = 0 /\ requeues[j] = 0
        BY <1>2, <2>2, <3>1 DEF SessionInv, JobShape
      <4> QED BY <1>2, <2>3, <2>5, <2>6, <3>1, <4>1 DEF SessionInv
    <3>2. CASE req.stage = "requeue"
      BY <1>2, <2>3, <2>5, <2>6, <3>2 DEF SessionInv
    <3> QED BY <1>1, <3>1, <3>2
  <2> HIDE DEF req, j
  <2> QED BY <1>1, <1>3, <2>4, <2>5, <2>6, <2>7, <2>8, <2>9, DecisionStoreStep
<1> QED BY <1>4, <1>5

LEMMA HandlerSafe ==
  ASSUME TypeOK, SafetyInv, ~SaveCanFail, HandlerNext
  PROVE  SafetyInv'
<1> USE DEF storeVars
<1>1. ASSUME NEW h \in Handlers, NEW j \in Jobs, NEW at \in Requested,
             NEW publish \in BOOLEAN, NEW confirmed \in BOOLEAN,
             ApproveBegin(h, j, at, publish, confirmed)
      PROVE  SafetyInv'
  <2> DEFINE reply == ApproveReply(j, jobs[j], at, publish, confirmed)
             ok == confirmed /\ jobs[j].result \in NeedsReview
             request == [stage |-> reply, job |-> j, snap |-> jobs[j], at |-> at,
                         publish |-> publish, confirmed |-> ok]
  <2>1. handler' = [handler EXCEPT ![h] = request] /\ reply \in {"approve", "requeue"}
    BY <1>1 DEF ApproveBegin
  <2>2. jobs[j].updated \in Nat
    BY DEF TypeOK, VideoJob
  <2>3. HandlerInv(request, jobs[j])
    <3>1. /\ reply = "approve" => jobs[j].render = "completed" /\ jobs[j].approval = "pending"
          /\ reply = "requeue" => /\ jobs[j].render = "completed"
                                  /\ jobs[j].approval = "approved"
                                  /\ jobs[j].publish \in Retryable
      BY ReplyFacts
    <3> HIDE DEF reply, ok
    <3> QED BY <2>1, <2>2, <3>1 DEF HandlerInv
  <2>4. request.job = j
    OBVIOUS
  <2> HIDE DEF request
  <2>5. \A g \in Handlers : \/ handler'[g] \in {handler[g], IdleHandler}
                            \/ HandlerInv(handler'[g], jobs[handler'[g].job])
    BY <2>1, <2>3, <2>4 DEF TypeOK
  <2> QED BY <1>1, <2>5, TaskStep DEF ApproveBegin, ApproveUnchanged, TasksKept
<1>2. ASSUME NEW h \in Handlers, NEW j \in Jobs, NEW at \in Requested,
             NEW publish \in BOOLEAN, NEW confirmed \in BOOLEAN,
             ApproveAgain(h, j, at, publish, confirmed)
      PROVE  SafetyInv'
  <2>1. /\ UNCHANGED <<jobs, active, disk, handler, requeues>> /\ ApproveUnchanged
        /\ waiting' = [waiting EXCEPT ![j] = @ + 1]
    BY <1>2 DEF ApproveAgain
  <2>2. \A k \in Jobs : k # j => TasksKept(k)
    BY <2>1 DEF ApproveUnchanged, TasksKept, TypeOK
  <2>3. /\ RenderInv(jobs[j], render'[j], mp4'[j])
        /\ UploadInv(jobs[j], upload'[j], youtube'[j])
    BY <2>1, JobParts DEF ApproveUnchanged
  <2>4. SessionInv(jobs[j], waiting'[j], upload'[j], sessions'[j], requeues'[j])
    <3>1. /\ SessionInv(jobs[j], waiting[j], upload[j], sessions[j], requeues[j])
          /\ waiting[j] \in Nat /\ waiting'[j] = waiting[j] + 1
      BY <2>1, JobParts DEF TypeOK
    <3> QED BY <2>1, <3>1 DEF SessionInv, ApproveUnchanged
  <2> QED BY <2>1, <2>2, <2>3, <2>4, TaskStep
<1>3. ASSUME NEW h \in Handlers, ApproveCommit(h) PROVE SafetyInv'
  BY <1>3, ApproveCommitSafe
<1>4. ASSUME NEW h \in Handlers, NEW j \in Jobs, Reject(h, j) PROVE SafetyInv'
  <2> DEFINE job == [jobs[j] EXCEPT !.approval = "rejected"]
  <2>1. /\ jobs[j].render # "absent" /\ jobs[j].approval = "pending"
        /\ Stores(j, job, tone) /\ UNCHANGED <<handler, waiting, requeues>>
        /\ UNCHANGED <<mp4, render, upload, youtube, sessions>>
    BY <1>4 DEF Reject, Rejectable, Stores, ApproveUnchanged
  <2>2. /\ jobs[j] \in VideoJob /\ JobShape(jobs[j])
        /\ UploadInv(jobs[j], upload[j], youtube[j])
        /\ SessionInv(jobs[j], waiting[j], upload[j], sessions[j], requeues[j])
    BY JobParts
  <2>3. /\ job \in VideoJob
        /\ job.result = jobs[j].result /\ job.fp = jobs[j].fp
        /\ job.render = jobs[j].render /\ job.publish = jobs[j].publish
        /\ job.approval = "rejected" /\ job.youtubeId = jobs[j].youtubeId
    BY <2>2 DEF VideoJob, ApprovalStatus
  <2> HIDE DEF job
  <2>4. DecidedOn(job, jobs[j]) /\ JobShape(job) /\ upload[j].stage = "idle"
    BY <2>1, <2>2, <2>3 DEF DecidedOn, JobShape, UploadInv, MustUpload
  <2>5. UploadInv(job, upload[j], youtube[j])
    BY <2>2, <2>3, <2>4 DEF UploadInv
  <2>6. SessionInv(job, waiting[j], upload[j], sessions[j], requeues[j])
    BY <2>2, <2>3 DEF SessionInv
  <2>7. \A k \in Jobs : TasksKept(k)
    BY <2>1 DEF TasksKept
  <2> QED BY <2>1, <2>4, <2>5, <2>6, <2>7, DecisionStoreStep
<1>5. ASSUME NEW h \in Handlers, NEW r \in Results, NEW copy \in Copies,
             UpdateCopy(h, r, copy)
      PROVE  SafetyInv'
  <2>1. /\ UNCHANGED <<jobs, active, handler>> /\ \A k \in Jobs : TasksKept(k)
        /\ disk' = disk \/ disk'.jobs = jobs
    BY <1>5 DEF UpdateCopy, ApproveUnchanged, Snapshot, TasksKept
  <2> QED BY <2>1, TaskStep
<1>6. ASSUME NEW h \in Handlers, OtherSave(h) PROVE SafetyInv'
  <2>1. /\ UNCHANGED <<jobs, active, handler>> /\ \A k \in Jobs : TasksKept(k)
        /\ disk'.jobs = jobs
    BY <1>6 DEF OtherSave, ApproveUnchanged, Snapshot, TasksKept
  <2> QED BY <2>1, TaskStep
<1> QED BY <1>1, <1>2, <1>3, <1>4, <1>5, <1>6 DEF HandlerNext

(***************************************************************************)
(* run_publish() and YouTube.                                              *)
(***************************************************************************)

\* Steps of an upload between taking the job and storing the result.
LEMMA UploadStep ==
  ASSUME TypeOK, SafetyInv, NEW j \in Jobs,
         UNCHANGED storeVars, PublishUnchanged,
         \A k \in Jobs : k # j => TasksKept(k),
         UploadInv(jobs[j], upload'[j], youtube'[j]),
         SessionInv(jobs[j], waiting'[j], upload'[j], sessions'[j], requeues[j])
  PROVE  SafetyInv'
<1>1. RenderInv(jobs[j], render'[j], mp4'[j]) /\ requeues' = requeues
  BY JobParts DEF PublishUnchanged
<1>2. UNCHANGED <<jobs, active, disk, handler>>
  BY DEF storeVars, PublishUnchanged
<1> QED BY <1>1, <1>2, TaskStep

\* The answer of the publisher ends the upload: done, with an outcome.
LEMMA FinishStep ==
  ASSUME TypeOK, SafetyInv, NEW j \in Jobs, NEW outcome,
         outcome \in PublishStatus \ {"not_requested", "pending"},
         upload[j].stage # "idle", Finish(j, outcome),
         outcome = "scheduled" => youtube[j] > 0,
         UNCHANGED <<storeVars, waiting, youtube, sessions>>, PublishUnchanged
  PROVE  SafetyInv'
<1>1. /\ upload[j] \in Upload /\ sessions[j] \in Nat /\ requeues[j] \in Nat
      /\ UploadInv(jobs[j], upload[j], youtube[j])
      /\ SessionInv(jobs[j], waiting[j], upload[j], sessions[j], requeues[j])
  BY JobParts
<1>2. /\ upload'[j].stage = "done" /\ upload'[j].outcome = outcome
      /\ upload'[j].snap = upload[j].snap /\ upload'[j].stored = upload[j].stored
      /\ \A k \in Jobs : k # j => TasksKept(k)
  BY <1>1 DEF Finish, TypeOK, Upload, TasksKept, PublishUnchanged
<1>3. UploadInv(jobs[j], upload'[j], youtube'[j])
  BY <1>1, <1>2 DEF UploadInv
<1>4. SessionInv(jobs[j], waiting'[j], upload'[j], sessions'[j], requeues[j])
  BY <1>1, <1>2 DEF SessionInv
<1> QED BY <1>2, <1>3, <1>4, UploadStep DEF storeVars

LEMMA PublishTakeSafe ==
  ASSUME TypeOK, SafetyInv, NEW j \in Jobs, PublishTake(j)
  PROVE  SafetyInv'
<1>1. /\ jobs[j] \in VideoJob /\ upload[j] \in Upload /\ waiting[j] \in Nat
      /\ JobShape(jobs[j])
      /\ UploadInv(jobs[j], upload[j], youtube[j])
      /\ SessionInv(jobs[j], waiting[j], upload[j], sessions[j], requeues[j])
      /\ upload[j].stage = "idle"
  BY JobParts DEF PublishTake
<1>2. /\ \A k \in Jobs : k # j => TasksKept(k)
      /\ UNCHANGED <<youtube, sessions>>
  BY DEF PublishTake, PublishUnchanged, TasksKept, TypeOK
<1>3. CASE MustUpload(jobs[j])
  <2>1. /\ upload'[j].stage = "integrity" /\ upload'[j].snap = jobs[j]
        /\ upload'[j].stored = upload[j].stored
    BY <1>1, <1>3 DEF PublishTake, TypeOK, Upload
  <2>2. UploadInv(jobs[j], upload'[j], youtube'[j])
    BY <1>1, <1>2, <1>3, <2>1 DEF UploadInv
  <2>3. SessionInv(jobs[j], waiting'[j], upload'[j], sessions'[j], requeues[j])
    BY <1>1, <1>2, <1>3, <2>1 DEF SessionInv, MustUpload
  <2> QED BY <1>2, <2>2, <2>3, UploadStep DEF PublishTake
<1>4. CASE ~MustUpload(jobs[j])
  <2>1. upload' = upload /\ jobs[j].publish # "pending"
    BY <1>1, <1>4 DEF PublishTake, MustUpload, JobShape
  <2>2. SessionInv(jobs[j], waiting'[j], upload'[j], sessions'[j], requeues[j])
    BY <1>1, <1>2, <2>1 DEF SessionInv
  <2> QED BY <1>1, <1>2, <2>1, <2>2, UploadStep DEF PublishTake
<1> QED BY <1>3, <1>4

\* The result of an upload is stored: nobody has written the job meanwhile.
LEMMA PublishCommitSafe ==
  ASSUME TypeOK, SafetyInv, ~SaveCanFail, NEW j \in Jobs, PublishCommit(j)
  PROVE  SafetyInv'
<1> DEFINE outcome == upload[j].outcome
           job == [jobs[j] EXCEPT !.publish = outcome,
                                  !.youtubeId = (outcome = "scheduled")]
<1>1. /\ jobs[j] \in VideoJob /\ JobShape(jobs[j])
      /\ UploadInv(jobs[j], upload[j], youtube[j])
      /\ SessionInv(jobs[j], waiting[j], upload[j], sessions[j], requeues[j])
      /\ sessions[j] \in Nat /\ requeues[j] \in Nat
  BY JobParts
<1>2. /\ jobs[j] = upload[j].snap /\ MustUpload(jobs[j])
      /\ outcome \in PublishStatus \ {"not_requested", "pending"}
      /\ outcome = "scheduled" => youtube[j] > 0
  BY <1>1 DEF PublishCommit, UploadInv
<1>3. Stores(j, job, tone)
  BY <1>2 DEF PublishCommit, Stores, NotChangedSince
<1>4. /\ upload'[j] = IdleUpload /\ UNCHANGED <<waiting, youtube, sessions>>
      /\ PublishUnchanged /\ \A k \in Jobs : k # j => TasksKept(k)
  BY DEF PublishCommit, PublishUnchanged, TasksKept, TypeOK
<1> HIDE DEF outcome
<1>5. /\ job \in VideoJob
      /\ job.result = jobs[j].result /\ job.fp = jobs[j].fp
      /\ job.render = jobs[j].render /\ job.approval = jobs[j].approval
      /\ job.publish = outcome /\ job.youtubeId = (outcome = "scheduled")
  BY <1>1, <1>2 DEF VideoJob
<1> HIDE DEF job
<1>6. DecidedOn(job, jobs[j]) /\ JobShape(job)
  BY <1>1, <1>2, <1>5 DEF DecidedOn, JobShape, MustUpload
<1>7. upload'[j].stage = "idle" /\ upload'[j].stored = "no"
  BY <1>4 DEF IdleUpload
<1>8. UploadInv(job, upload'[j], youtube'[j])
  BY <1>2, <1>4, <1>5, <1>7 DEF UploadInv
<1>9. SessionInv(job, waiting'[j], upload'[j], sessions'[j], requeues'[j])
  BY <1>1, <1>2, <1>4, <1>5 DEF SessionInv, PublishUnchanged
<1> QED BY <1>3, <1>4, <1>6, <1>7, <1>8, <1>9, DecisionStoreStep DEF PublishUnchanged

LEMMA PublishSafe ==
  ASSUME TypeOK, SafetyInv, ~SaveCanFail, NEW j \in Jobs,
         \/ PublishTake(j) \/ PublishIntegrity(j)
         \/ PublishNotStarted(j) \/ PublishStart(j)
         \/ YouTubeStores(j) \/ AnswerServerError(j)
         \/ AnswerRefused(j) \/ AnswerUnknown(j)
         \/ AnswerVideoId(j) \/ PublishCommit(j)
  PROVE  SafetyInv'
<1>1. /\ jobs[j] \in VideoJob /\ upload[j] \in Upload
      /\ upload \in [Jobs -> Upload] /\ sessions \in [Jobs -> Nat]
      /\ youtube \in [Jobs -> Nat]
      /\ sessions[j] \in Nat /\ requeues[j] \in Nat /\ youtube[j] \in Nat
      /\ UploadInv(jobs[j], upload[j], youtube[j])
      /\ SessionInv(jobs[j], waiting[j], upload[j], sessions[j], requeues[j])
  BY JobParts DEF TypeOK
<1>2. {"needs_review", "schedule_expired", "auth_required", "failed", "scheduled"}
        \subseteq PublishStatus \ {"not_requested", "pending"}
  BY DEF PublishStatus
<1>3. CASE PublishTake(j)
  BY <1>3, PublishTakeSafe
<1>4. CASE PublishIntegrity(j)
  <2>1. CASE Finish(j, "needs_review")
    BY <1>2, <1>4, <2>1, FinishStep DEF PublishIntegrity
  <2>2. CASE upload' = [upload EXCEPT ![j].stage = "request"]
    <3>1. /\ upload'[j].stage = "request" /\ upload'[j].snap = upload[j].snap
          /\ upload'[j].stored = upload[j].stored /\ upload[j].stage = "integrity"
          /\ \A k \in Jobs : k # j => TasksKept(k)
      BY <1>1, <1>4, <2>2 DEF PublishIntegrity, PublishUnchanged, TasksKept, Upload
    <3> HIDE <2>2
    <3>2. UploadInv(jobs[j], upload'[j], youtube'[j])
      BY <1>1, <1>4, <3>1 DEF UploadInv, PublishIntegrity
    <3>3. SessionInv(jobs[j], waiting'[j], upload'[j], sessions'[j], requeues[j])
      BY <1>1, <1>4, <3>1 DEF SessionInv, PublishIntegrity
    <3>4. UNCHANGED storeVars /\ PublishUnchanged
      BY <1>4 DEF PublishIntegrity
    <3> QED BY <3>1, <3>2, <3>3, <3>4, UploadStep
  <2> QED BY <1>4, <2>1, <2>2 DEF PublishIntegrity
<1>5. CASE PublishNotStarted(j)
  BY <1>2, <1>5, FinishStep DEF PublishNotStarted
<1>6. CASE PublishStart(j)
  <2>1. /\ upload'[j].stage = "uploading" /\ upload'[j].snap = upload[j].snap
        /\ upload'[j].stored = upload[j].stored /\ upload[j].stage = "request"
        /\ sessions'[j] = sessions[j] + 1
        /\ \A k \in Jobs : k # j => TasksKept(k)
    BY <1>1, <1>6 DEF PublishStart, PublishUnchanged, TasksKept, Upload
  <2>2. UploadInv(jobs[j], upload'[j], youtube'[j])
    BY <1>1, <1>6, <2>1 DEF UploadInv, PublishStart
  <2>3. SessionInv(jobs[j], waiting'[j], upload'[j], sessions'[j], requeues[j])
    BY <1>1, <1>6, <2>1 DEF UploadInv, MustUpload, SessionInv, PublishStart
  <2>4. UNCHANGED storeVars /\ PublishUnchanged
    BY <1>6 DEF PublishStart
  <2> QED BY <2>1, <2>2, <2>3, <2>4, UploadStep
<1>7. CASE YouTubeStores(j)
  <2>1. /\ upload'[j].stage = "uploading" /\ upload'[j].snap = upload[j].snap
        /\ upload[j].stage = "uploading" /\ youtube'[j] = youtube[j] + 1
        /\ \A k \in Jobs : k # j => TasksKept(k)
    BY <1>1, <1>7 DEF YouTubeStores, PublishUnchanged, TasksKept, Upload
  <2>2. UploadInv(jobs[j], upload'[j], youtube'[j])
    BY <1>1, <2>1 DEF UploadInv
  <2>3. SessionInv(jobs[j], waiting'[j], upload'[j], sessions'[j], requeues[j])
    BY <1>1, <1>7, <2>1 DEF SessionInv, YouTubeStores
  <2>4. UNCHANGED storeVars /\ PublishUnchanged
    BY <1>7 DEF YouTubeStores
  <2> QED BY <2>1, <2>2, <2>3, <2>4, UploadStep
<1>8. CASE AnswerServerError(j)
  <2>1. CASE Finish(j, "needs_review")
    BY <1>2, <1>8, <2>1, FinishStep DEF AnswerServerError
  <2>2. CASE ~Finish(j, "needs_review")
    <3>1. /\ upload'[j].stage = "uploading" /\ upload'[j].snap = upload[j].snap
          /\ upload[j].stage = "uploading"
          /\ upload'[j].stored # "no" => upload[j].stored # "no"
          /\ \A k \in Jobs : k # j => TasksKept(k)
      BY <1>1, <1>8, <2>2 DEF AnswerServerError, PublishUnchanged, TasksKept, Upload
    <3>2. UploadInv(jobs[j], upload'[j], youtube'[j])
      BY <1>1, <1>8, <3>1 DEF UploadInv, AnswerServerError
    <3>3. SessionInv(jobs[j], waiting'[j], upload'[j], sessions'[j], requeues[j])
      BY <1>1, <1>8, <3>1 DEF SessionInv, AnswerServerError
    <3>4. UNCHANGED storeVars /\ PublishUnchanged
      BY <1>8 DEF AnswerServerError
    <3> QED BY <3>1, <3>2, <3>3, <3>4, UploadStep
  <2> QED BY <2>1, <2>2
<1>9. CASE AnswerRefused(j)
  BY <1>2, <1>9, FinishStep DEF AnswerRefused
<1>10. CASE AnswerUnknown(j)
  BY <1>2, <1>10, FinishStep DEF AnswerUnknown
<1>11. CASE AnswerVideoId(j)
  BY <1>1, <1>2, <1>11, FinishStep DEF AnswerVideoId, UploadInv
<1>12. CASE PublishCommit(j)
  BY <1>12, PublishCommitSafe
<1> QED BY <1>3, <1>4, <1>5, <1>6, <1>7, <1>8, <1>9, <1>10, <1>11, <1>12

(***************************************************************************)
(* Restart.                                                                *)
(***************************************************************************)

\* _recover_video_jobs settles a job and changes nothing that is settled.
LEMMA RecoverFacts ==
  ASSUME NEW job \in VideoJob, job.youtubeId => job.publish = "scheduled"
  PROVE  LET new == RecoverVideoJob(job)
         IN  /\ new.result = job.result /\ new.fp = job.fp
             /\ new.approval = job.approval /\ new.youtubeId = job.youtubeId
             /\ new.render = IF job.render \in {"queued", "processing"} THEN "failed"
                                                                        ELSE job.render
             /\ new.publish = IF job.publish = "pending" THEN "needs_review"
                                                         ELSE job.publish
BY DEF RecoverVideoJob, VideoJob

\* A restart takes each job from the file, and leaves it as it was in memory but
\* for what was in progress.
LEMMA RecoveredJob ==
  ASSUME TypeOK, SafetyInv, Restart, NEW j \in Jobs
  PROVE  /\ jobs'[j] = RecoverVideoJob(disk.jobs[j]) /\ disk'.jobs[j] = disk.jobs[j]
         /\ jobs'[j].result = jobs[j].result /\ jobs'[j].fp = jobs[j].fp
         /\ jobs'[j].approval = jobs[j].approval
         /\ jobs'[j].youtubeId = jobs[j].youtubeId
         /\ jobs'[j].render = IF jobs[j].render \in {"queued", "processing"} THEN "failed"
                                                                            ELSE jobs[j].render
         /\ jobs'[j].publish = IF jobs[j].publish = "pending" THEN "needs_review"
                                                             ELSE jobs[j].publish
<1> DEFINE saved == disk.jobs[j]
<1>1. jobs'[j] = RecoverVideoJob(saved) /\ disk' = disk
  BY DEF Restart
<1>2. /\ jobs[j] \in VideoJob /\ saved \in VideoJob /\ JobShape(jobs[j])
      /\ jobs[j] = saved \/ jobs[j] = jobs'[j]
  BY <1>1 DEF TypeOK, SafetyInv, JobInv, DiskInv
<1>3. CASE jobs[j] = saved
  BY <1>1, <1>2, <1>3, RecoverFacts DEF JobShape
<1>4. CASE jobs[j] = jobs'[j] /\ jobs[j] # saved
  <2>1. jobs'[j].render \notin {"queued", "processing"}
    BY <1>1, <1>2 DEF RecoverVideoJob, VideoJob
  <2>2. jobs'[j].publish = "pending" => jobs'[j].youtubeId
    BY <1>1, <1>2 DEF RecoverVideoJob, VideoJob
  <2> QED BY <1>1, <1>2, <1>4, <2>1, <2>2 DEF JobShape
<1> QED BY <1>2, <1>3, <1>4

LEMMA RestartSafe ==
  ASSUME TypeOK, SafetyInv, Restart
  PROVE  SafetyInv'
<1>1. ActiveIndexIsExact'
  <2>1. active' = InitializeJobIndexes(jobs')
    BY DEF Restart
  <2> QED BY <2>1 DEF ActiveIndexIsExact, InitializeJobIndexes, IsActive
<1>2. OneActiveJobPerResult'
  <2>1. \A j \in Jobs : IsActive(jobs'[j]) => /\ IsActive(jobs[j])
                                              /\ jobs'[j].result = jobs[j].result
    BY RecoveredJob DEF IsActive
  <2>2. SUFFICES ASSUME NEW k \in Jobs, NEW l \in Jobs,
                        IsActive(jobs'[k]), IsActive(jobs'[l]),
                        jobs'[k].result = jobs'[l].result
                 PROVE  k = l
    BY DEF OneActiveJobPerResult, IsActive
  <2> QED BY <2>1, <2>2 DEF SafetyInv, OneActiveJobPerResult
<1>3. ASSUME NEW j \in Jobs PROVE JobInv(j)'
  <2> DEFINE old == jobs[j]
             new == jobs'[j]
  <2>1. /\ render'[j] = NoRender /\ upload'[j] = IdleUpload /\ waiting'[j] = 0
        /\ UNCHANGED <<mp4, youtube, sessions, requeues>>
    BY DEF Restart, NoRenders, NoUploads, NothingWaiting
  <2>2. /\ JobShape(old)
        /\ RenderInv(old, render[j], mp4[j])
        /\ UploadInv(old, upload[j], youtube[j])
        /\ SessionInv(old, waiting[j], upload[j], sessions[j], requeues[j])
    BY JobParts
  <2>3. /\ new = RecoverVideoJob(disk.jobs[j]) /\ disk'.jobs[j] = disk.jobs[j]
        /\ new.result = old.result /\ new.fp = old.fp
        /\ new.approval = old.approval /\ new.youtubeId = old.youtubeId
        /\ new.render = IF old.render \in {"queued", "processing"} THEN "failed" ELSE old.render
        /\ new.publish = IF old.publish = "pending" THEN "needs_review" ELSE old.publish
    BY RecoveredJob
  <2>4. DiskInv(new, disk'.jobs[j])
    BY <2>3 DEF DiskInv
  <2>5. new.render = "absent" => new = NoJob
    <3> SUFFICES ASSUME new.render = "absent" PROVE new = NoJob
      OBVIOUS
    <3>1. old = NoJob
      BY <2>2, <2>3 DEF JobShape
    <3>2. RecoverVideoJob(NoJob) = NoJob
      BY DEF RecoverVideoJob, NoJob
    <3>3. old = disk.jobs[j] \/ old = RecoverVideoJob(disk.jobs[j])
      BY DEF SafetyInv, JobInv, DiskInv
    <3> QED BY <2>3, <3>1, <3>2, <3>3
  <2> HIDE DEF old, new
  <2>6. JobShape(new)
    BY <2>2, <2>3, <2>5 DEF JobShape
  <2>7. RenderInv(new, NoRender, mp4[j])
    BY <2>2, <2>3 DEF RenderInv, NoRender
  <2>8. UploadInv(new, IdleUpload, youtube[j])
    BY <2>2, <2>3 DEF UploadInv, IdleUpload
  <2>9. SessionInv(new, 0, IdleUpload, sessions[j], requeues[j])
    BY <2>2, <2>3 DEF SessionInv
  <2> QED BY <2>1, <2>4, <2>6, <2>7, <2>8, <2>9 DEF JobInv, new
<1>4. \A h \in Handlers : handler'[h] = IdleHandler
  BY DEF Restart, NoHandlers
<1> QED BY <1>1, <1>2, <1>3, <1>4 DEF SafetyInv

(***************************************************************************)
(* Saves that fail.  FailureInv is inductive whether they fail or not: the *)
(* proofs have the structure of those above, with the file behind the jobs *)
(* in memory instead of in step with them.                                 *)
(***************************************************************************)

\* The job is stored under a new version and the others stay; the file is the
\* one before, or has all of them.
LEMMA StoredJob ==
  ASSUME TypeOK, NEW j \in Jobs, NEW job \in VideoJob, NEW newTone,
         Stores(j, job, newTone)
  PROVE  /\ jobs'[j] = [job EXCEPT !.updated = jobs[j].updated + 1]
         /\ \A k \in Jobs : k # j => jobs'[k] = jobs[k]
         /\ disk' = disk \/ disk'.jobs = jobs'
<1>1. PICK saved \in SaveOutcomes : PersistLocked(j, job, newTone, saved)
  BY DEF Stores
<1> QED BY <1>1 DEF PersistLocked, TypeOK, Snapshot

LEMMA LooseJobParts ==
  ASSUME TypeOK, FailureInv, NEW j \in Jobs
  PROVE  /\ jobs[j] \in VideoJob /\ render[j] \in RenderTask /\ upload[j] \in Upload
         /\ sessions[j] \in Nat /\ requeues[j] \in Nat /\ restarts \in Nat
         /\ youtube[j] \in Nat
         /\ JobShape(jobs[j])
         /\ LooseRenderInv(jobs[j], render[j], mp4[j])
         /\ UploadInv(jobs[j], upload[j], youtube[j])
         /\ LooseSessionInv(jobs[j], upload[j], sessions[j], requeues[j] + restarts)
         /\ FileInv(jobs[j], disk.jobs[j], mp4[j], youtube[j])
BY DEF TypeOK, FailureInv, LooseJobInv

\* A save that succeeds brings the file in step with a job.
LEMMA SavedNow ==
  ASSUME NEW job, NEW task, NEW up, NEW file, NEW videos,
         JobShape(job), LooseRenderInv(job, task, file), UploadInv(job, up, videos)
  PROVE  FileInv(job, job, file, videos)
BY DEF FileInv, LooseRenderInv, UploadInv

\* The next state of a job does not contradict a file that was not contradicted
\* by the job before.
LEMMA StillInFile ==
  ASSUME NEW old, NEW job, NEW saved, NEW file, NEW videos,
         JobShape(old), FileInv(old, saved, file, videos),
         old.render # "absent" => job.result = old.result /\ job.fp = old.fp,
         old.approval # "pending" => job.approval = old.approval
  PROVE  FileInv(job, saved, file, videos)
<1>1. old.render = "absent" => saved.render = "absent"
  BY NoneAssumption DEF FileInv, JobShape, NoJob
<1> QED BY <1>1 DEF FileInv

\* A step that stores one job: see StoreStep.
LEMMA LooseStoreStep ==
  ASSUME TypeOK, FailureInv,
         NEW j \in Jobs, NEW job \in VideoJob, NEW newTone,
         Stores(j, job, newTone),
         jobs[j].render # "absent" => /\ job.result = jobs[j].result
                                      /\ job.fp = jobs[j].fp,
         jobs[j].approval # "pending" => job.approval = jobs[j].approval,
         \A k \in Jobs : k # j => TasksKept(k),
         UNCHANGED <<mp4, youtube, restarts>>,
         \A h \in Handlers : handler'[h] \in {handler[h], IdleHandler},
         JobShape(jobs'[j]),
         LooseRenderInv(jobs'[j], render'[j], mp4[j]),
         UploadInv(jobs'[j], upload'[j], youtube[j]),
         LooseSessionInv(jobs'[j], upload'[j], sessions'[j], requeues'[j] + restarts)
  PROVE  FailureInv'
<1>1. /\ jobs'[j].updated = jobs[j].updated + 1
      /\ jobs'[j].result = job.result /\ jobs'[j].fp = job.fp
      /\ jobs'[j].approval = job.approval
      /\ \A k \in Jobs : k # j => jobs'[k] = jobs[k]
      /\ disk' = disk \/ disk'.jobs = jobs'
  <2>1. jobs'[j] = [job EXCEPT !.updated = jobs[j].updated + 1]
    BY StoredJob
  <2>2. /\ jobs'[j].updated = jobs[j].updated + 1
        /\ jobs'[j].result = job.result /\ jobs'[j].fp = job.fp
        /\ jobs'[j].approval = job.approval
    BY <2>1 DEF VideoJob
  <2> QED BY <2>2, StoredJob
<1>2. ASSUME NEW k \in Jobs PROVE LooseJobInv(k)'
  <2>1. CASE k = j
    <3>1. CASE disk' = disk
      <4>1. JobShape(jobs[j]) /\ FileInv(jobs[j], disk.jobs[j], mp4[j], youtube[j])
        BY LooseJobParts
      <4>2. FileInv(jobs'[j], disk.jobs[j], mp4[j], youtube[j])
        BY <1>1, <4>1, StillInFile
      <4> QED BY <2>1, <3>1, <4>2 DEF LooseJobInv
    <3>2. CASE disk'.jobs = jobs'
      <4>1. FileInv(jobs'[j], jobs'[j], mp4[j], youtube[j])
        BY SavedNow
      <4> QED BY <2>1, <3>2, <4>1 DEF LooseJobInv
    <3> QED BY <1>1, <3>1, <3>2
  <2>2. CASE k # j
    <3>1. LooseJobInv(k) /\ TasksKept(k) /\ jobs'[k] = jobs[k]
      BY <1>1, <2>2 DEF FailureInv
    <3>2. FileInv(jobs[k], jobs[k], mp4[k], youtube[k])
      BY <3>1, SavedNow DEF LooseJobInv
    <3>3. disk'.jobs[k] = disk.jobs[k] \/ disk'.jobs[k] = jobs[k]
      BY <1>1, <3>1
    <3>4. FileInv(jobs'[k], disk'.jobs[k], mp4'[k], youtube'[k])
      BY <3>1, <3>2, <3>3 DEF LooseJobInv
    <3> QED BY <3>1, <3>4 DEF LooseJobInv, TasksKept
  <2> QED BY <2>1, <2>2
<1>3. ASSUME NEW h \in Handlers, handler'[h] # IdleHandler
      PROVE  HandlerInv(handler'[h], jobs'[handler'[h].job])
  <2>1. /\ handler'[h] = handler[h] /\ handler[h] \in HandlerState
        /\ HandlerInv(handler[h], jobs[handler[h].job])
    BY <1>3 DEF FailureInv, TypeOK
  <2> DEFINE request == handler[h]
             i == request.job
  <2>2. i \in Jobs /\ request.snap.updated \in Nat
    BY <2>1 DEF HandlerState, VideoJob
  <2>3. CASE i = j
    <3>1. jobs[j].updated \in Nat
      BY DEF TypeOK, VideoJob
    <3>2. request.snap.updated < jobs'[i].updated
      BY <1>1, <2>1, <2>2, <2>3, <3>1 DEF HandlerInv
    <3> QED BY <1>1, <2>1, <2>2, <2>3, <3>1, <3>2 DEF HandlerInv
  <2>4. CASE i # j
    BY <1>1, <2>1, <2>2, <2>4
  <2> QED BY <2>3, <2>4
<1> QED BY <1>2, <1>3 DEF FailureInv

\* A step that stores no job: see TaskStep.
LEMMA LooseTaskStep ==
  ASSUME TypeOK, FailureInv, UNCHANGED <<jobs, restarts>>,
         disk' = disk \/ disk'.jobs = jobs,
         \A k \in Jobs :
           \/ TasksKept(k)
           \/ /\ LooseRenderInv(jobs[k], render'[k], mp4'[k])
              /\ UploadInv(jobs[k], upload'[k], youtube'[k])
              /\ LooseSessionInv(jobs[k], upload'[k], sessions'[k], requeues'[k] + restarts)
              /\ FileInv(jobs[k], disk.jobs[k], mp4'[k], youtube'[k]),
         \A h \in Handlers :
           \/ handler'[h] \in {handler[h], IdleHandler}
           \/ HandlerInv(handler'[h], jobs[handler'[h].job])
  PROVE  FailureInv'
<1>1. ASSUME NEW k \in Jobs PROVE LooseJobInv(k)'
  <2>1. /\ JobShape(jobs[k])
        /\ LooseRenderInv(jobs[k], render'[k], mp4'[k])
        /\ UploadInv(jobs[k], upload'[k], youtube'[k])
        /\ LooseSessionInv(jobs[k], upload'[k], sessions'[k], requeues'[k] + restarts)
        /\ FileInv(jobs[k], disk.jobs[k], mp4'[k], youtube'[k])
    BY LooseJobParts DEF TasksKept
  <2>2. FileInv(jobs[k], jobs[k], mp4'[k], youtube'[k])
    BY <2>1, SavedNow
  <2>3. FileInv(jobs[k], disk'.jobs[k], mp4'[k], youtube'[k])
    BY <2>1, <2>2
  <2> QED BY <2>1, <2>3 DEF LooseJobInv
<1>2. ASSUME NEW h \in Handlers, handler'[h] # IdleHandler
      PROVE  HandlerInv(handler'[h], jobs'[handler'[h].job])
  BY <1>2 DEF FailureInv
<1> QED BY <1>1, <1>2 DEF FailureInv

LEMMA LooseCreateStep ==
  ASSUME TypeOK, FailureInv, CreateNext
  PROVE  FailureInv'
<1> USE DEF historyVars, storeVars
<1>1. ASSUME NEW c \in Callers, NEW r \in Results, CreateBegin(c, r)
      PROVE  FailureInv'
  BY <1>1, LooseTaskStep DEF CreateBegin, TasksKept
<1>2. ASSUME NEW c \in Callers, CreateRefused(c) PROVE FailureInv'
  BY <1>2, LooseTaskStep DEF CreateRefused, TasksKept
<1>3. ASSUME NEW c \in Callers, NEW j \in Jobs, CreateCommit(c, j)
      PROVE  FailureInv'
  <2> DEFINE r == creating[c].result
             job == NewJob(r, creating[c].fp)
             newTone == [tone EXCEPT ![r].job = j]
  <2>1. r \in Results /\ creating[c].fp \in Copies
    BY <1>3 DEF CreateCommit, TypeOK
  <2>2. job \in VideoJob
    BY <2>1 DEF NewJob, NoJob, VideoJob, RenderStatus, ApprovalStatus, PublishStatus
  <2>3. /\ Stores(j, job, newTone)
        /\ jobs[j] = NoJob
        /\ render' \in {render, [render EXCEPT ![j] = QueuedRender]}
        /\ UNCHANGED <<mp4, waiting, upload, handler, youtube, sessions, requeues, restarts>>
    BY <1>3 DEF CreateCommit, Stores
  <2>4. jobs'[j] = [job EXCEPT !.updated = jobs[j].updated + 1]
    <3> HIDE DEF job, newTone
    <3> QED BY <2>2, <2>3, StoredJob
  <2>5. /\ jobs'[j].result = r /\ jobs'[j].fp \in Copies
        /\ jobs'[j].render = "queued" /\ jobs'[j].approval = "pending"
        /\ jobs'[j].publish = "not_requested" /\ ~jobs'[j].youtubeId
    BY <2>1, <2>4 DEF NewJob, NoJob
  <2>6. /\ LooseRenderInv(NoJob, render[j], mp4[j])
        /\ UploadInv(NoJob, upload[j], youtube[j])
        /\ LooseSessionInv(NoJob, upload[j], sessions[j], requeues[j] + restarts)
        /\ render[j] \in RenderTask
    BY <2>3, LooseJobParts
  <2>7. /\ render[j].stage = "none" /\ upload[j].stage = "idle"
        /\ sessions[j] <= requeues[j] + restarts
    BY <2>6 DEF LooseRenderInv, UploadInv, LooseSessionInv, MustUpload, NoJob, RenderTask
  <2>8. /\ render'[j].stage \in {"none", "queued"}
        /\ \A k \in Jobs : k # j => TasksKept(k)
    BY <2>3, <2>7 DEF TasksKept, TypeOK, QueuedRender
  <2>9. JobShape(jobs'[j]) /\ LooseRenderInv(jobs'[j], render'[j], mp4[j])
    BY <2>1, <2>5, <2>8 DEF JobShape, LooseRenderInv
  <2>10. UploadInv(jobs'[j], upload'[j], youtube[j])
    BY <2>3, <2>5, <2>6, <2>7 DEF UploadInv
  <2>11. LooseSessionInv(jobs'[j], upload'[j], sessions'[j], requeues'[j] + restarts)
    BY <2>3, <2>5, <2>6, <2>7 DEF LooseSessionInv
  <2>12. jobs[j].render = "absent" /\ jobs[j].approval = "pending"
    BY <2>3 DEF NoJob
  <2> HIDE DEF job, newTone
  <2> QED BY <2>2, <2>3, <2>8, <2>9, <2>10, <2>11, <2>12, LooseStoreStep
<1> QED BY <1>1, <1>2, <1>3 DEF CreateNext

\* A step of the render stores another status of a job that is not finished.
LEMMA LooseRenderStoreStep ==
  ASSUME TypeOK, FailureInv,
         NEW j \in Jobs, NEW job, NEW newTone,
         jobs[j].render \in {"queued", "processing"},
         RenderedTo(job, jobs[j]),
         Stores(j, job, newTone),
         \A k \in Jobs : k # j => render'[k] = render[k],
         UNCHANGED mp4, RenderUnchanged,
         LooseRenderInv(job, render'[j], mp4[j])
  PROVE  FailureInv'
<1>1. /\ jobs[j] \in VideoJob /\ JobShape(jobs[j])
      /\ UploadInv(jobs[j], upload[j], youtube[j])
      /\ LooseSessionInv(jobs[j], upload[j], sessions[j], requeues[j] + restarts)
  BY LooseJobParts
<1>2. jobs'[j] = [job EXCEPT !.updated = jobs[j].updated + 1]
  BY StoredJob DEF RenderedTo
<1>3. /\ jobs'[j].result = jobs[j].result /\ jobs'[j].fp = jobs[j].fp
      /\ jobs'[j].render = job.render /\ job.render # "absent"
      /\ jobs'[j].approval = jobs[j].approval /\ jobs'[j].publish = jobs[j].publish
      /\ jobs'[j].youtubeId = jobs[j].youtubeId
  BY <1>2 DEF VideoJob, RenderedTo
<1>4. /\ jobs[j].approval # "approved" /\ jobs[j].publish = "not_requested"
      /\ jobs[j].result \in Results /\ jobs[j].fp \in Copies
  BY <1>1 DEF JobShape
<1>5. /\ JobShape(jobs'[j])
      /\ LooseRenderInv(jobs'[j], render'[j], mp4[j])
  BY <1>1, <1>3, <1>4 DEF JobShape, LooseRenderInv, RenderedTo
<1>6. /\ UNCHANGED <<upload, handler, waiting, youtube, sessions, requeues, restarts>>
      /\ \A h \in Handlers : handler'[h] \in {handler[h], IdleHandler}
      /\ \A k \in Jobs : k # j => TasksKept(k)
  BY DEF RenderUnchanged, historyVars, TasksKept
<1>7. UploadInv(jobs'[j], upload'[j], youtube[j])
  BY <1>1, <1>3, <1>4, <1>6 DEF UploadInv, MustUpload
<1>8. LooseSessionInv(jobs'[j], upload'[j], sessions'[j], requeues'[j] + restarts)
  BY <1>1, <1>3, <1>4, <1>6 DEF LooseSessionInv
<1> QED BY <1>5, <1>6, <1>7, <1>8, LooseStoreStep DEF RenderedTo

LEMMA LooseRenderSteps ==
  ASSUME TypeOK, FailureInv, NEW j \in Jobs,
         \/ RenderStart(j) \/ RenderStoryboard(j) \/ RenderMedia(j)
         \/ RenderRaises(j) \/ RenderFailed(j) \/ RenderCompleted(j)
  PROVE  FailureInv'
<1>1. /\ jobs[j] \in VideoJob /\ render[j] \in RenderTask
      /\ JobShape(jobs[j])
      /\ LooseRenderInv(jobs[j], render[j], mp4[j])
      /\ UploadInv(jobs[j], upload[j], youtube[j])
      /\ LooseSessionInv(jobs[j], upload[j], sessions[j], requeues[j] + restarts)
      /\ FileInv(jobs[j], disk.jobs[j], mp4[j], youtube[j])
      /\ render \in [Jobs -> RenderTask] /\ mp4 \in [Jobs -> Copies \cup {None}]
  BY LooseJobParts DEF TypeOK
<1>2. ASSUME NEW status \in RenderStatus \ {"absent"}
      PROVE  /\ RenderedTo([jobs[j] EXCEPT !.render = status], jobs[j])
             /\ [jobs[j] EXCEPT !.render = status].render = status
  BY <1>1 DEF RenderedTo, VideoJob
<1>3. ASSUME UNCHANGED storeVars, RenderUnchanged,
             \A k \in Jobs : k # j => render'[k] = render[k] /\ mp4'[k] = mp4[k],
             LooseRenderInv(jobs[j], render'[j], mp4'[j]),
             mp4'[j] \in {mp4[j], jobs[j].fp}
      PROVE  FailureInv'
  <2>1. /\ UNCHANGED <<jobs, disk, upload, handler, waiting, youtube, sessions, requeues, restarts>>
        /\ \A k \in Jobs : k # j => TasksKept(k)
    BY <1>3 DEF RenderUnchanged, storeVars, historyVars, TasksKept
  <2>2. FileInv(jobs[j], disk.jobs[j], mp4'[j], youtube'[j])
    BY <1>1, <1>3, <2>1 DEF FileInv
  <2> QED BY <1>1, <1>3, <2>1, <2>2, LooseTaskStep
<1>4. CASE RenderStart(j)
  <2> DEFINE job == [jobs[j] EXCEPT !.render = "processing"]
  <2>1. jobs[j].render = "queued" /\ RenderUnchanged /\ UNCHANGED mp4
    BY <1>1, <1>4 DEF RenderStart, LooseRenderInv
  <2>2. /\ Stores(j, job, tone)
        /\ \/ render' = [render EXCEPT ![j].stage = "storyboard"]
           \/ render' = [render EXCEPT ![j].stage = "none"]
    BY <1>4, <2>1 DEF RenderStart, Stores
  <2>3. RenderedTo(job, jobs[j]) /\ job.render = "processing"
    BY <1>2 DEF RenderStatus
  <2>4. render'[j].stage \in {"none", "storyboard"} /\ (\A k \in Jobs : k # j => render'[k] = render[k])
    BY <1>1, <2>2 DEF RenderTask
  <2>5. LooseRenderInv(job, render'[j], mp4[j])
    BY <2>3, <2>4 DEF LooseRenderInv
  <2> HIDE DEF job
  <2> QED BY <2>1, <2>2, <2>3, <2>4, <2>5, LooseRenderStoreStep
<1>5. CASE RenderStoryboard(j)
  <2>1. /\ render'[j].stage = "media" /\ render'[j].board = jobs[j].fp
        /\ \A k \in Jobs : k # j => render'[k] = render[k]
    BY <1>1, <1>5 DEF RenderStoryboard, SameFingerprint, RenderTask
  <2>2. LooseRenderInv(jobs[j], render'[j], mp4'[j])
    BY <1>1, <1>5, <2>1 DEF RenderStoryboard, LooseRenderInv
  <2> QED BY <1>3, <1>5, <2>1, <2>2 DEF RenderStoryboard
<1>6. CASE RenderMedia(j)
  <2>1. /\ render'[j].stage = "rendered" /\ render'[j].board = render[j].board
        /\ mp4'[j] = render[j].board /\ render[j].stage = "media"
        /\ \A k \in Jobs : k # j => render'[k] = render[k] /\ mp4'[k] = mp4[k]
    BY <1>1, <1>6 DEF RenderMedia, RenderTask
  <2>2. LooseRenderInv(jobs[j], render'[j], mp4'[j]) /\ mp4'[j] = jobs[j].fp
    BY <1>1, <2>1 DEF LooseRenderInv
  <2> QED BY <1>3, <1>6, <2>1, <2>2 DEF RenderMedia
<1>7. CASE RenderRaises(j)
  <2>1. /\ render'[j].stage = "raised"
        /\ \A k \in Jobs : k # j => render'[k] = render[k]
    BY <1>1, <1>7 DEF RenderRaises, RenderTask
  <2>2. LooseRenderInv(jobs[j], render'[j], mp4'[j])
    BY <1>1, <1>7, <2>1 DEF RenderRaises, LooseRenderInv
  <2> QED BY <1>3, <1>7, <2>1, <2>2 DEF RenderRaises
<1>8. CASE RenderFailed(j)
  <2> DEFINE job == [jobs[j] EXCEPT !.render = "failed"]
  <2>1. /\ jobs[j].render = "processing" /\ render'[j] = NoRender
        /\ Stores(j, job, tone)
        /\ \A k \in Jobs : k # j => render'[k] = render[k]
    BY <1>1, <1>8 DEF RenderFailed, LooseRenderInv, Stores
  <2>2. RenderedTo(job, jobs[j]) /\ job.render = "failed"
    BY <1>2 DEF RenderStatus
  <2>3. LooseRenderInv(job, render'[j], mp4[j])
    BY <2>1, <2>2 DEF LooseRenderInv, NoRender
  <2>4. RenderUnchanged /\ UNCHANGED mp4
    BY <1>8 DEF RenderFailed
  <2> HIDE DEF job
  <2> QED BY <2>1, <2>2, <2>3, <2>4, LooseRenderStoreStep
<1>9. CASE RenderCompleted(j)
  <2> DEFINE job == [jobs[j] EXCEPT !.render = "completed"]
  <2>1. /\ jobs[j].render = "processing" /\ render'[j] = NoRender /\ mp4[j] = jobs[j].fp
        /\ \A k \in Jobs : k # j => render'[k] = render[k]
    BY <1>1, <1>9 DEF RenderCompleted, LooseRenderInv
  <2>2. RenderedTo(job, jobs[j]) /\ job.render = "completed"
    BY <1>2 DEF RenderStatus
  <2>3. LooseRenderInv(job, render'[j], mp4[j])
    BY <2>1, <2>2 DEF LooseRenderInv, NoRender, RenderedTo
  <2>4. PICK newTone : Stores(j, job, newTone)
    BY <1>9, <2>1 DEF RenderCompleted, Stores
  <2>5. RenderUnchanged /\ UNCHANGED mp4
    BY <1>9 DEF RenderCompleted
  <2> HIDE DEF job
  <2> QED BY <2>1, <2>2, <2>3, <2>4, <2>5, LooseRenderStoreStep
<1> QED BY <1>4, <1>5, <1>6, <1>7, <1>8, <1>9

\* A decision on a job is stored, or the result of its upload.
LEMMA LooseDecisionStoreStep ==
  ASSUME TypeOK, FailureInv,
         NEW j \in Jobs, NEW job, NEW newTone,
         DecidedOn(job, jobs[j]), Stores(j, job, newTone),
         jobs[j].approval # "pending" => job.approval = jobs[j].approval,
         UNCHANGED <<render, mp4, youtube, restarts>>,
         \A k \in Jobs : k # j => TasksKept(k),
         \A h \in Handlers : handler'[h] \in {handler[h], IdleHandler},
         JobShape(job),
         UploadInv(job, upload'[j], youtube[j]),
         upload'[j].stage = "idle",
         LooseSessionInv(job, upload'[j], sessions'[j], requeues'[j] + restarts)
  PROVE  FailureInv'
<1>1. /\ jobs[j] \in VideoJob /\ JobShape(jobs[j])
      /\ LooseRenderInv(jobs[j], render[j], mp4[j])
  BY LooseJobParts
<1>2. jobs'[j] = [job EXCEPT !.updated = jobs[j].updated + 1]
  BY StoredJob DEF DecidedOn
<1>3. /\ jobs'[j].result = jobs[j].result /\ jobs'[j].fp = jobs[j].fp
      /\ jobs'[j].render = jobs[j].render
      /\ jobs'[j].approval = job.approval /\ jobs'[j].publish = job.publish
      /\ jobs'[j].youtubeId = job.youtubeId
  BY <1>2 DEF VideoJob, DecidedOn
<1>4. JobShape(jobs'[j])
  BY <1>1, <1>3 DEF JobShape, DecidedOn
<1>5. LooseRenderInv(jobs'[j], render'[j], mp4[j])
  BY <1>1, <1>3 DEF LooseRenderInv
<1>6. UploadInv(jobs'[j], upload'[j], youtube[j])
  BY <1>3 DEF UploadInv
<1>7. LooseSessionInv(jobs'[j], upload'[j], sessions'[j], requeues'[j] + restarts)
  BY <1>3 DEF LooseSessionInv
<1> QED BY <1>4, <1>5, <1>6, <1>7, LooseStoreStep DEF DecidedOn

\* A commit whose save raises queues no upload, but the job says pending.
LEMMA LooseApproveCommit ==
  ASSUME TypeOK, FailureInv, NEW h \in Handlers, ApproveCommit(h)
  PROVE  FailureInv'
<1> DEFINE req == handler[h]
           j == req.job
           next == IF req.stage = "approve" THEN Approved(jobs[j], req)
                                            ELSE Requeued(jobs[j], req)
<1>1. /\ req \in HandlerState /\ j \in Jobs
      /\ req.stage \in {"approve", "requeue"}
      /\ req.at \in Nat /\ req.publish \in BOOLEAN /\ req.confirmed \in BOOLEAN
  BY DEF ApproveCommit, IdleHandler, TypeOK, HandlerState
<1>2. /\ HandlerInv(req, jobs[j])
      /\ jobs[j] \in VideoJob /\ upload[j] \in Upload
      /\ sessions[j] \in Nat /\ requeues[j] \in Nat /\ restarts \in Nat
      /\ JobShape(jobs[j])
      /\ UploadInv(jobs[j], upload[j], youtube[j])
      /\ LooseSessionInv(jobs[j], upload[j], sessions[j], requeues[j] + restarts)
  <2>1. req # IdleHandler
    BY <1>1 DEF IdleHandler
  <2>2. HandlerInv(req, jobs[j])
    BY <2>1 DEF FailureInv
  <2> HIDE DEF j
  <2> QED BY <1>1, <2>2, LooseJobParts
<1>3. /\ \A g \in Handlers : handler'[g] \in {handler[g], IdleHandler}
      /\ UNCHANGED <<mp4, render, upload, youtube, sessions, restarts>>
  BY DEF ApproveCommit, ApproveUnchanged, TypeOK
<1>4. CASE ~NotChangedSince(jobs[j], req.snap)
  <2>1. UNCHANGED <<jobs, disk, waiting, requeues>>
    BY <1>4 DEF ApproveCommit, storeVars
  <2> QED BY <1>3, <2>1, LooseTaskStep DEF TasksKept
<1>5. CASE NotChangedSince(jobs[j], req.snap)
  <2>1. req.snap = jobs[j]
    BY <1>2, <1>5 DEF NotChangedSince, HandlerInv
  <2>2. /\ jobs[j].render = "completed" /\ jobs[j].approval # "rejected"
        /\ req.stage = "approve" => jobs[j].approval = "pending"
        /\ req.stage = "requeue" => /\ jobs[j].approval = "approved"
                                    /\ jobs[j].publish \in Retryable
    BY <1>1, <1>2, <2>1 DEF HandlerInv
  <2>3. /\ next \in VideoJob
        /\ next.result = jobs[j].result /\ next.fp = jobs[j].fp
        /\ next.render = "completed" /\ next.approval = "approved"
        /\ ~next.youtubeId
        /\ \/ next.publish = "pending"
           \/ req.stage = "approve" /\ next.publish = "not_requested"
    <3> HIDE DEF req, j
    <3>1. /\ Approved(jobs[j], req) \in VideoJob
          /\ Approved(jobs[j], req).result = jobs[j].result
          /\ Approved(jobs[j], req).fp = jobs[j].fp
          /\ Approved(jobs[j], req).render = jobs[j].render
          /\ Approved(jobs[j], req).approval = "approved"
          /\ Approved(jobs[j], req).publish \in {"pending", "not_requested"}
          /\ Approved(jobs[j], req).youtubeId = jobs[j].youtubeId
      BY <1>1, <1>2 DEF Approved, VideoJob, ApprovalStatus, PublishStatus
    <3>2. /\ Requeued(jobs[j], req) \in VideoJob
          /\ Requeued(jobs[j], req).result = jobs[j].result
          /\ Requeued(jobs[j], req).fp = jobs[j].fp
          /\ Requeued(jobs[j], req).render = jobs[j].render
          /\ Requeued(jobs[j], req).approval = jobs[j].approval
          /\ Requeued(jobs[j], req).publish = "pending"
          /\ ~Requeued(jobs[j], req).youtubeId
      BY <1>1, <1>2 DEF Requeued, VideoJob, ApprovalStatus, PublishStatus
    <3>3. req.stage = "approve" => ~jobs[j].youtubeId
      BY <1>2, <2>2 DEF JobShape
    <3> QED BY <1>1, <2>2, <3>1, <3>2, <3>3
  <2>4. /\ Stores(j, next, tone)
        /\ waiting' \in {waiting, [waiting EXCEPT ![j] = @ + 1]}
        /\ requeues' = [requeues EXCEPT ![j] = IF req.stage = "requeue" THEN @ + 1 ELSE @]
    <3> HIDE DEF next
    <3> QED BY <1>5 DEF ApproveCommit, Stores, next
  <2> HIDE DEF next
  <2>5. /\ requeues'[j] = IF req.stage = "requeue" THEN requeues[j] + 1 ELSE requeues[j]
        /\ \A k \in Jobs : k # j => TasksKept(k)
    <3> HIDE DEF req, j
    <3>1. \A k \in Jobs : k # j => waiting'[k] = waiting[k]
      <4>1. CASE waiting' = waiting
        BY <4>1
      <4>2. CASE waiting' = [waiting EXCEPT ![j] = @ + 1]
        BY <1>1, <4>2 DEF TypeOK
      <4> QED BY <2>4, <4>1, <4>2
    <3>2. /\ requeues'[j] = IF req.stage = "requeue" THEN requeues[j] + 1 ELSE requeues[j]
          /\ \A k \in Jobs : k # j => requeues'[k] = requeues[k]
      BY <1>1, <2>4 DEF TypeOK
    <3>3. \A k \in Jobs : k # j => TasksKept(k)
      BY <1>3, <3>1, <3>2 DEF TasksKept
    <3> QED BY <3>2, <3>3
  <2>6. upload'[j].stage = "idle" /\ upload'[j] = upload[j] /\ sessions'[j] = sessions[j]
    BY <1>1, <1>2, <1>3, <2>2 DEF UploadInv, MustUpload, Retryable
  <2>7. DecidedOn(next, jobs[j]) /\ JobShape(next)
    BY <1>2, <2>2, <2>3 DEF DecidedOn, JobShape
  <2>8. UploadInv(next, upload'[j], youtube[j])
    BY <1>2, <2>3, <2>6 DEF UploadInv
  <2>9. LooseSessionInv(next, upload'[j], sessions'[j], requeues'[j] + restarts)
    <3>1. CASE req.stage = "approve"
      <4>1. sessions[j] <= requeues[j] + restarts /\ requeues'[j] = requeues[j]
        BY <1>2, <2>2, <2>5, <3>1 DEF LooseSessionInv, JobShape
      <4> QED BY <1>2, <2>6, <4>1 DEF LooseSessionInv
    <3>2. CASE req.stage = "requeue"
      <4>1. sessions[j] <= requeues'[j] + restarts /\ requeues'[j] \in Nat
        BY <1>2, <2>5, <3>2 DEF LooseSessionInv
      <4> QED BY <1>2, <2>6, <4>1 DEF LooseSessionInv
    <3> QED BY <1>1, <3>1, <3>2
  <2>10. jobs[j].approval # "pending" => next.approval = jobs[j].approval
    BY <1>1, <2>2, <2>3
  <2> HIDE DEF req, j
  <2> QED BY <1>1, <1>3, <2>4, <2>5, <2>6, <2>7, <2>8, <2>9, <2>10, LooseDecisionStoreStep
<1> QED BY <1>4, <1>5

LEMMA LooseHandlerStep ==
  ASSUME TypeOK, FailureInv, HandlerNext
  PROVE  FailureInv'
<1> USE DEF storeVars
<1>1. ASSUME NEW h \in Handlers, NEW j \in Jobs, NEW at \in Requested,
             NEW publish \in BOOLEAN, NEW confirmed \in BOOLEAN,
             ApproveBegin(h, j, at, publish, confirmed)
      PROVE  FailureInv'
  <2> DEFINE reply == ApproveReply(j, jobs[j], at, publish, confirmed)
             ok == confirmed /\ jobs[j].result \in NeedsReview
             request == [stage |-> reply, job |-> j, snap |-> jobs[j], at |-> at,
                         publish |-> publish, confirmed |-> ok]
  <2>1. handler' = [handler EXCEPT ![h] = request] /\ reply \in {"approve", "requeue"}
    BY <1>1 DEF ApproveBegin
  <2>2. jobs[j].updated \in Nat
    BY DEF TypeOK, VideoJob
  <2>3. HandlerInv(request, jobs[j])
    <3>1. /\ reply = "approve" => jobs[j].render = "completed" /\ jobs[j].approval = "pending"
          /\ reply = "requeue" => /\ jobs[j].render = "completed"
                                  /\ jobs[j].approval = "approved"
                                  /\ jobs[j].publish \in Retryable
      BY ReplyFacts
    <3> HIDE DEF reply, ok
    <3> QED BY <2>1, <2>2, <3>1 DEF HandlerInv
  <2>4. request.job = j
    OBVIOUS
  <2> HIDE DEF request
  <2>5. \A g \in Handlers : \/ handler'[g] \in {handler[g], IdleHandler}
                            \/ HandlerInv(handler'[g], jobs[handler'[g].job])
    BY <2>1, <2>3, <2>4 DEF TypeOK
  <2>6. /\ UNCHANGED <<jobs, disk, restarts>>
        /\ \A k \in Jobs : TasksKept(k)
    BY <1>1 DEF ApproveBegin, ApproveUnchanged, TasksKept
  <2> QED BY <2>5, <2>6, LooseTaskStep
<1>2. ASSUME NEW h \in Handlers, NEW j \in Jobs, NEW at \in Requested,
             NEW publish \in BOOLEAN, NEW confirmed \in BOOLEAN,
             ApproveAgain(h, j, at, publish, confirmed)
      PROVE  FailureInv'
  <2>1. /\ UNCHANGED <<jobs, disk, handler, requeues>> /\ ApproveUnchanged
        /\ waiting' = [waiting EXCEPT ![j] = @ + 1]
    BY <1>2 DEF ApproveAgain
  <2>2. \A k \in Jobs : k # j => TasksKept(k)
    BY <2>1 DEF ApproveUnchanged, TasksKept, TypeOK
  <2>3. /\ LooseRenderInv(jobs[j], render'[j], mp4'[j])
        /\ UploadInv(jobs[j], upload'[j], youtube'[j])
        /\ LooseSessionInv(jobs[j], upload'[j], sessions'[j], requeues'[j] + restarts)
        /\ FileInv(jobs[j], disk.jobs[j], mp4'[j], youtube'[j])
    BY <2>1, LooseJobParts DEF ApproveUnchanged
  <2>4. UNCHANGED restarts
    BY <2>1 DEF ApproveUnchanged
  <2> QED BY <2>1, <2>2, <2>3, <2>4, LooseTaskStep
<1>3. ASSUME NEW h \in Handlers, ApproveCommit(h) PROVE FailureInv'
  BY <1>3, LooseApproveCommit
<1>4. ASSUME NEW h \in Handlers, NEW j \in Jobs, Reject(h, j) PROVE FailureInv'
  <2> DEFINE job == [jobs[j] EXCEPT !.approval = "rejected"]
  <2>1. /\ jobs[j].render # "absent" /\ jobs[j].approval = "pending"
        /\ Stores(j, job, tone) /\ UNCHANGED <<handler, waiting, requeues>>
        /\ UNCHANGED <<mp4, render, upload, youtube, sessions, restarts>>
    BY <1>4 DEF Reject, Rejectable, Stores, ApproveUnchanged
  <2>2. /\ jobs[j] \in VideoJob /\ JobShape(jobs[j])
        /\ UploadInv(jobs[j], upload[j], youtube[j])
        /\ LooseSessionInv(jobs[j], upload[j], sessions[j], requeues[j] + restarts)
    BY LooseJobParts
  <2>3. /\ job \in VideoJob
        /\ job.result = jobs[j].result /\ job.fp = jobs[j].fp
        /\ job.render = jobs[j].render /\ job.publish = jobs[j].publish
        /\ job.approval = "rejected" /\ job.youtubeId = jobs[j].youtubeId
    BY <2>2 DEF VideoJob, ApprovalStatus
  <2> HIDE DEF job
  <2>4. DecidedOn(job, jobs[j]) /\ JobShape(job) /\ upload[j].stage = "idle"
    BY <2>1, <2>2, <2>3 DEF DecidedOn, JobShape, UploadInv, MustUpload
  <2>5. UploadInv(job, upload[j], youtube[j])
    BY <2>2, <2>3, <2>4 DEF UploadInv
  <2>6. LooseSessionInv(job, upload[j], sessions[j], requeues[j] + restarts)
    BY <2>2, <2>3 DEF LooseSessionInv
  <2>7. \A k \in Jobs : TasksKept(k)
    BY <2>1 DEF TasksKept
  <2> QED BY <2>1, <2>4, <2>5, <2>6, <2>7, LooseDecisionStoreStep
<1>5. ASSUME NEW h \in Handlers, NEW r \in Results, NEW copy \in Copies,
             UpdateCopy(h, r, copy)
      PROVE  FailureInv'
  <2>1. /\ UNCHANGED <<jobs, handler, restarts>> /\ \A k \in Jobs : TasksKept(k)
        /\ disk' = disk \/ disk'.jobs = jobs
    BY <1>5 DEF UpdateCopy, ApproveUnchanged, Snapshot, TasksKept
  <2> QED BY <2>1, LooseTaskStep
<1>6. ASSUME NEW h \in Handlers, OtherSave(h) PROVE FailureInv'
  <2>1. /\ UNCHANGED <<jobs, handler, restarts>> /\ \A k \in Jobs : TasksKept(k)
        /\ disk'.jobs = jobs
    BY <1>6 DEF OtherSave, ApproveUnchanged, Snapshot, TasksKept
  <2> QED BY <2>1, LooseTaskStep
<1> QED BY <1>1, <1>2, <1>3, <1>4, <1>5, <1>6 DEF HandlerNext

\* Steps of an upload between taking the job and storing the result.
LEMMA LooseUploadStep ==
  ASSUME TypeOK, FailureInv, NEW j \in Jobs,
         UNCHANGED storeVars, PublishUnchanged,
         \A k \in Jobs : k # j => TasksKept(k),
         UploadInv(jobs[j], upload'[j], youtube'[j]),
         youtube[j] > 0 => youtube'[j] > 0,
         LooseSessionInv(jobs[j], upload'[j], sessions'[j], requeues[j] + restarts)
  PROVE  FailureInv'
<1>1. UNCHANGED <<jobs, disk, render, mp4, handler, requeues, restarts>>
  BY DEF storeVars, PublishUnchanged
<1>2. LooseRenderInv(jobs[j], render'[j], mp4'[j])
  BY <1>1, LooseJobParts
<1>3. FileInv(jobs[j], disk.jobs[j], mp4'[j], youtube'[j])
  <2>1. FileInv(jobs[j], disk.jobs[j], mp4[j], youtube[j])
    BY LooseJobParts
  <2> QED BY <1>1, <2>1 DEF FileInv
<1> QED BY <1>1, <1>2, <1>3, LooseTaskStep

\* The answer of the publisher ends the upload: done, with an outcome.
LEMMA LooseFinishStep ==
  ASSUME TypeOK, FailureInv, NEW j \in Jobs, NEW outcome,
         outcome \in PublishStatus \ {"not_requested", "pending"},
         upload[j].stage # "idle", Finish(j, outcome),
         outcome = "scheduled" => youtube[j] > 0,
         UNCHANGED <<storeVars, waiting, youtube, sessions>>, PublishUnchanged
  PROVE  FailureInv'
<1>1. /\ upload[j] \in Upload /\ sessions[j] \in Nat /\ youtube[j] \in Nat
      /\ UploadInv(jobs[j], upload[j], youtube[j])
      /\ LooseSessionInv(jobs[j], upload[j], sessions[j], requeues[j] + restarts)
  BY LooseJobParts
<1>2. /\ upload'[j].stage = "done" /\ upload'[j].outcome = outcome
      /\ upload'[j].snap = upload[j].snap /\ upload'[j].stored = upload[j].stored
      /\ \A k \in Jobs : k # j => TasksKept(k)
  BY <1>1 DEF Finish, TypeOK, Upload, TasksKept, PublishUnchanged
<1>3. UploadInv(jobs[j], upload'[j], youtube'[j])
  BY <1>1, <1>2 DEF UploadInv
<1>4. LooseSessionInv(jobs[j], upload'[j], sessions'[j], requeues[j] + restarts)
  BY <1>1, <1>2 DEF LooseSessionInv
<1> QED BY <1>2, <1>3, <1>4, LooseUploadStep DEF storeVars

LEMMA LoosePublishCommit ==
  ASSUME TypeOK, FailureInv, NEW j \in Jobs, PublishCommit(j)
  PROVE  FailureInv'
<1> DEFINE outcome == upload[j].outcome
           job == [jobs[j] EXCEPT !.publish = outcome,
                                  !.youtubeId = (outcome = "scheduled")]
<1>1. /\ jobs[j] \in VideoJob /\ JobShape(jobs[j])
      /\ UploadInv(jobs[j], upload[j], youtube[j])
      /\ LooseSessionInv(jobs[j], upload[j], sessions[j], requeues[j] + restarts)
  BY LooseJobParts
<1>2. /\ jobs[j] = upload[j].snap /\ MustUpload(jobs[j])
      /\ outcome \in PublishStatus \ {"not_requested", "pending"}
      /\ outcome = "scheduled" => youtube[j] > 0
  BY <1>1 DEF PublishCommit, UploadInv
<1>3. Stores(j, job, tone)
  BY <1>2 DEF PublishCommit, Stores, NotChangedSince
<1>4. /\ upload'[j] = IdleUpload
      /\ UNCHANGED <<waiting, youtube, sessions, render, mp4, handler, requeues, restarts>>
      /\ \A k \in Jobs : k # j => TasksKept(k)
  BY DEF PublishCommit, PublishUnchanged, TasksKept, TypeOK
<1> HIDE DEF outcome
<1>5. /\ job \in VideoJob
      /\ job.result = jobs[j].result /\ job.fp = jobs[j].fp
      /\ job.render = jobs[j].render /\ job.approval = jobs[j].approval
      /\ job.publish = outcome /\ job.youtubeId = (outcome = "scheduled")
  BY <1>1, <1>2 DEF VideoJob
<1> HIDE DEF job
<1>6. DecidedOn(job, jobs[j]) /\ JobShape(job)
  BY <1>1, <1>2, <1>5 DEF DecidedOn, JobShape, MustUpload
<1>7. upload'[j].stage = "idle" /\ upload'[j].stored = "no"
  BY <1>4 DEF IdleUpload
<1>8. UploadInv(job, upload'[j], youtube[j])
  BY <1>2, <1>5, <1>7 DEF UploadInv
<1>9. LooseSessionInv(job, upload'[j], sessions'[j], requeues'[j] + restarts)
  BY <1>1, <1>2, <1>4, <1>5 DEF LooseSessionInv
<1> QED BY <1>3, <1>4, <1>5, <1>6, <1>7, <1>8, <1>9, LooseDecisionStoreStep

LEMMA LoosePublishSteps ==
  ASSUME TypeOK, FailureInv, NEW j \in Jobs,
         \/ PublishTake(j) \/ PublishIntegrity(j)
         \/ PublishNotStarted(j) \/ PublishStart(j)
         \/ YouTubeStores(j) \/ AnswerServerError(j)
         \/ AnswerRefused(j) \/ AnswerUnknown(j)
         \/ AnswerVideoId(j) \/ PublishCommit(j)
  PROVE  FailureInv'
<1>1. /\ jobs[j] \in VideoJob /\ upload[j] \in Upload
      /\ upload \in [Jobs -> Upload] /\ sessions \in [Jobs -> Nat]
      /\ youtube \in [Jobs -> Nat]
      /\ sessions[j] \in Nat /\ requeues[j] \in Nat /\ restarts \in Nat /\ youtube[j] \in Nat
      /\ UploadInv(jobs[j], upload[j], youtube[j])
      /\ LooseSessionInv(jobs[j], upload[j], sessions[j], requeues[j] + restarts)
      /\ youtube[j] + 1 > 0
  BY LooseJobParts DEF TypeOK
<1>2. {"needs_review", "schedule_expired", "auth_required", "failed", "scheduled"}
        \subseteq PublishStatus \ {"not_requested", "pending"}
  BY DEF PublishStatus
\* A step of the upload that neither finishes it nor opens a session.
<1>3. ASSUME UNCHANGED storeVars, PublishUnchanged, UNCHANGED <<youtube, sessions>>,
             \A k \in Jobs : k # j => TasksKept(k),
             UploadInv(jobs[j], upload'[j], youtube[j]),
             upload'[j].stage \in {"integrity", "request"} =>
               upload[j].stage \in {"idle", "integrity"},
             upload'[j].stage = "idle" => upload[j].stage = "idle"
      PROVE  FailureInv'
  <2>1. LooseSessionInv(jobs[j], upload'[j], sessions'[j], requeues[j] + restarts)
    BY <1>1, <1>3 DEF LooseSessionInv
  <2> QED BY <1>1, <1>3, <2>1, LooseUploadStep
<1>4. CASE PublishTake(j)
  <2>1. /\ UNCHANGED storeVars /\ PublishUnchanged /\ UNCHANGED <<youtube, sessions>>
        /\ \A k \in Jobs : k # j => TasksKept(k)
        /\ upload[j].stage = "idle"
    BY <1>4 DEF PublishTake, PublishUnchanged, TasksKept, TypeOK
  <2>2. CASE MustUpload(jobs[j])
    <3>1. /\ upload'[j].stage = "integrity" /\ upload'[j].snap = jobs[j]
          /\ upload'[j].stored = upload[j].stored
      BY <1>1, <1>4, <2>2 DEF PublishTake, Upload
    <3>2. UploadInv(jobs[j], upload'[j], youtube[j])
      BY <1>1, <2>2, <3>1 DEF UploadInv
    <3> QED BY <1>3, <2>1, <3>1, <3>2
  <2>3. CASE ~MustUpload(jobs[j])
    <3>1. upload' = upload
      BY <1>4, <2>3 DEF PublishTake
    <3> QED BY <1>1, <1>3, <2>1, <3>1
  <2> QED BY <2>2, <2>3
<1>5. CASE PublishIntegrity(j)
  <2>1. CASE Finish(j, "needs_review")
    BY <1>2, <1>5, <2>1, LooseFinishStep DEF PublishIntegrity
  <2>2. CASE upload' = [upload EXCEPT ![j].stage = "request"]
    <3>1. /\ upload'[j].stage = "request" /\ upload'[j].snap = upload[j].snap
          /\ upload'[j].stored = upload[j].stored /\ upload[j].stage = "integrity"
          /\ \A k \in Jobs : k # j => TasksKept(k)
      BY <1>1, <1>5, <2>2 DEF PublishIntegrity, PublishUnchanged, TasksKept, Upload
    <3>2. UNCHANGED storeVars /\ PublishUnchanged /\ UNCHANGED <<youtube, sessions>>
      BY <1>5 DEF PublishIntegrity
    <3> HIDE <2>2
    <3>3. UploadInv(jobs[j], upload'[j], youtube[j])
      BY <1>1, <3>1 DEF UploadInv
    <3> QED BY <1>3, <3>1, <3>2, <3>3
  <2> QED BY <1>5, <2>1, <2>2 DEF PublishIntegrity
<1>6. CASE PublishNotStarted(j)
  BY <1>2, <1>6, LooseFinishStep DEF PublishNotStarted
<1>7. CASE PublishStart(j)
  <2>1. /\ upload'[j].stage = "uploading" /\ upload'[j].snap = upload[j].snap
        /\ upload'[j].stored = upload[j].stored /\ upload[j].stage = "request"
        /\ sessions'[j] = sessions[j] + 1
        /\ \A k \in Jobs : k # j => TasksKept(k)
    BY <1>1, <1>7 DEF PublishStart, PublishUnchanged, TasksKept, Upload
  <2>2. UNCHANGED storeVars /\ PublishUnchanged /\ youtube' = youtube
    BY <1>7 DEF PublishStart
  <2>3. UploadInv(jobs[j], upload'[j], youtube'[j]) /\ MustUpload(jobs[j])
    BY <1>1, <2>1, <2>2 DEF UploadInv
  <2>4. LooseSessionInv(jobs[j], upload'[j], sessions'[j], requeues[j] + restarts)
    BY <1>1, <2>1, <2>3 DEF MustUpload, LooseSessionInv
  <2> QED BY <1>1, <2>1, <2>2, <2>3, <2>4, LooseUploadStep
<1>8. CASE YouTubeStores(j)
  <2>1. /\ upload'[j].stage = "uploading" /\ upload'[j].snap = upload[j].snap
        /\ upload[j].stage = "uploading" /\ youtube'[j] = youtube[j] + 1
        /\ sessions' = sessions
        /\ \A k \in Jobs : k # j => TasksKept(k)
    BY <1>1, <1>8 DEF YouTubeStores, PublishUnchanged, TasksKept, Upload
  <2>2. UploadInv(jobs[j], upload'[j], youtube'[j])
    BY <1>1, <2>1 DEF UploadInv
  <2>3. LooseSessionInv(jobs[j], upload'[j], sessions'[j], requeues[j] + restarts)
    BY <1>1, <2>1 DEF LooseSessionInv
  <2>4. UNCHANGED storeVars /\ PublishUnchanged
    BY <1>8 DEF YouTubeStores
  <2> QED BY <1>1, <2>1, <2>2, <2>3, <2>4, LooseUploadStep
<1>9. CASE AnswerServerError(j)
  <2>1. CASE Finish(j, "needs_review")
    BY <1>2, <1>9, <2>1, LooseFinishStep DEF AnswerServerError
  <2>2. CASE ~Finish(j, "needs_review")
    <3>1. /\ upload'[j].stage = "uploading" /\ upload'[j].snap = upload[j].snap
          /\ upload[j].stage = "uploading"
          /\ upload'[j].stored # "no" => upload[j].stored # "no"
          /\ \A k \in Jobs : k # j => TasksKept(k)
      BY <1>1, <1>9, <2>2 DEF AnswerServerError, PublishUnchanged, TasksKept, Upload
    <3>2. UploadInv(jobs[j], upload'[j], youtube[j])
      BY <1>1, <3>1 DEF UploadInv
    <3>3. UNCHANGED storeVars /\ PublishUnchanged /\ UNCHANGED <<youtube, sessions>>
      BY <1>9 DEF AnswerServerError
    <3> QED BY <1>3, <3>1, <3>2, <3>3
  <2> QED BY <2>1, <2>2
<1>10. CASE AnswerRefused(j)
  BY <1>2, <1>10, LooseFinishStep DEF AnswerRefused
<1>11. CASE AnswerUnknown(j)
  BY <1>2, <1>11, LooseFinishStep DEF AnswerUnknown
<1>12. CASE AnswerVideoId(j)
  BY <1>1, <1>2, <1>12, LooseFinishStep DEF AnswerVideoId, UploadInv
<1>13. CASE PublishCommit(j)
  BY <1>13, LoosePublishCommit
<1> QED BY <1>4, <1>5, <1>6, <1>7, <1>8, <1>9, <1>10, <1>11, <1>12, <1>13

\* A restart goes back to what the file says of a job: an older state of the
\* same job, or none.
LEMMA LooseRestartStep ==
  ASSUME TypeOK, FailureInv, Restart
  PROVE  FailureInv'
<1>1. ASSUME NEW j \in Jobs PROVE LooseJobInv(j)'
  <2> DEFINE saved == disk.jobs[j]
             new == jobs'[j]
  <2>1. /\ render'[j] = NoRender /\ upload'[j] = IdleUpload
        /\ UNCHANGED <<disk, mp4, youtube, sessions, requeues>>
        /\ restarts' = restarts + 1
        /\ new = RecoverVideoJob(saved)
    BY DEF Restart, NoRenders, NoUploads
  <2>2. /\ saved \in VideoJob /\ JobShape(saved)
        /\ FileInv(jobs[j], saved, mp4[j], youtube[j])
        /\ LooseSessionInv(jobs[j], upload[j], sessions[j], requeues[j] + restarts)
        /\ sessions[j] \in Nat /\ requeues[j] \in Nat /\ restarts \in Nat
    BY LooseJobParts DEF TypeOK, FileInv
  <2>3. /\ new.result = saved.result /\ new.fp = saved.fp
        /\ new.approval = saved.approval /\ new.youtubeId = saved.youtubeId
        /\ new.render = IF saved.render \in {"queued", "processing"} THEN "failed"
                                                                      ELSE saved.render
        /\ new.publish = IF saved.publish = "pending" THEN "needs_review" ELSE saved.publish
    <3> HIDE DEF saved
    <3> QED BY <2>1, <2>2, RecoverFacts DEF JobShape
  <2>4. new.render = "absent" => new = NoJob
    <3>1. RecoverVideoJob(NoJob) = NoJob
      BY DEF RecoverVideoJob, NoJob
    <3> HIDE DEF saved, new
    <3> QED BY <2>1, <2>2, <2>3, <3>1 DEF JobShape
  <2> HIDE DEF saved, new
  <2>5. JobShape(new)
    BY <2>2, <2>3, <2>4 DEF JobShape
  <2>6. LooseRenderInv(new, NoRender, mp4[j])
    BY <2>2, <2>3 DEF FileInv, LooseRenderInv, NoRender
  <2>7. UploadInv(new, IdleUpload, youtube[j])
    BY <2>2, <2>3 DEF FileInv, UploadInv, IdleUpload
  <2>8. LooseSessionInv(new, IdleUpload, sessions[j], requeues[j] + restarts')
    <3>1. sessions[j] <= requeues[j] + restarts'
      BY <2>1, <2>2 DEF LooseSessionInv
    <3>2. requeues[j] + restarts' \in Nat
      BY <2>1, <2>2
    <3> QED BY <2>2, <3>1, <3>2 DEF LooseSessionInv
  <2>9. FileInv(new, saved, mp4[j], youtube[j])
    BY <2>2, <2>3 DEF FileInv
  <2> QED BY <2>1, <2>5, <2>6, <2>7, <2>8, <2>9 DEF LooseJobInv, saved, new
<1>2. \A h \in Handlers : handler'[h] = IdleHandler
  BY DEF Restart, NoHandlers
<1> QED BY <1>1, <1>2 DEF FailureInv

LEMMA LooseInit == Init => FailureInv
<1> SUFFICES ASSUME Init PROVE FailureInv
  OBVIOUS
<1>1. ASSUME NEW j \in Jobs PROVE LooseJobInv(j)
  <2>1. /\ jobs[j] = NoJob /\ disk.jobs[j] = NoJob /\ render[j] = NoRender
        /\ upload[j] = IdleUpload /\ sessions[j] = 0 /\ requeues[j] = 0 /\ restarts = 0
    BY DEF Init, Snapshot, NoRenders, NoUploads
  <2>2. JobShape(NoJob) /\ LooseRenderInv(NoJob, NoRender, mp4[j])
    BY DEF JobShape, LooseRenderInv, NoJob, NoRender
  <2>3. UploadInv(NoJob, IdleUpload, youtube[j]) /\ LooseSessionInv(NoJob, IdleUpload, 0, 0 + 0)
    BY DEF UploadInv, LooseSessionInv, NoJob, IdleUpload
  <2>4. FileInv(NoJob, NoJob, mp4[j], youtube[j])
    BY <2>2, <2>3, SavedNow
  <2> QED BY <2>1, <2>2, <2>3, <2>4 DEF LooseJobInv
<1>2. \A h \in Handlers : handler[h] = IdleHandler
  BY DEF Init, NoHandlers
<1> QED BY <1>1, <1>2 DEF FailureInv

LEMMA LooseNext ==
  ASSUME TypeOK, FailureInv, [Next]_vars
  PROVE  FailureInv'
<1>1. CASE CreateNext
  BY <1>1, LooseCreateStep
<1>2. CASE RenderNext
  BY <1>2, LooseRenderSteps DEF RenderNext
<1>3. CASE HandlerNext
  BY <1>3, LooseHandlerStep
<1>4. CASE PublishNext
  BY <1>4, LoosePublishSteps DEF PublishNext
<1>5. CASE Restart
  BY <1>5, LooseRestartStep
<1>6. CASE Tick \/ UNCHANGED vars
  <2>1. /\ UNCHANGED <<jobs, disk, handler, restarts>>
        /\ \A k \in Jobs : TasksKept(k)
    BY <1>6 DEF Tick, vars, storeVars, taskVars, historyVars, TasksKept
  <2> QED BY <2>1, LooseTaskStep
<1> QED BY <1>1, <1>2, <1>3, <1>4, <1>5, <1>6 DEF Next

(***************************************************************************)
(* The theorems.                                                           *)
(***************************************************************************)
LEMMA InitSafe == Init => SafetyInv
<1> SUFFICES ASSUME Init PROVE SafetyInv
  OBVIOUS
<1>1. ActiveIndexIsExact /\ OneActiveJobPerResult
  BY DEF Init, ActiveIndexIsExact, OneActiveJobPerResult, IsActive, NoJob
<1>2. ASSUME NEW j \in Jobs PROVE JobInv(j)
  <2>1. /\ jobs[j] = NoJob /\ disk.jobs[j] = NoJob /\ render[j] = NoRender
        /\ upload[j] = IdleUpload /\ sessions[j] = 0 /\ requeues[j] = 0
    BY DEF Init, Snapshot, NoRenders, NoUploads
  <2>2. JobShape(NoJob) /\ RenderInv(NoJob, NoRender, mp4[j])
    BY DEF JobShape, RenderInv, NoJob, NoRender
  <2>3. UploadInv(NoJob, IdleUpload, youtube[j]) /\ SessionInv(NoJob, waiting[j], IdleUpload, 0, 0)
    BY DEF UploadInv, SessionInv, NoJob, IdleUpload
  <2> QED BY <2>1, <2>2, <2>3 DEF JobInv, DiskInv
<1>3. \A h \in Handlers : handler[h] = IdleHandler
  BY DEF Init, NoHandlers
<1> QED BY <1>1, <1>2, <1>3 DEF SafetyInv

LEMMA NextSafe ==
  ASSUME TypeOK, SafetyInv, ~SaveCanFail, [Next]_vars
  PROVE  SafetyInv'
<1>1. CASE CreateNext
  BY <1>1, CreateSafe
<1>2. CASE RenderNext
  BY <1>2, RenderSafe DEF RenderNext
<1>3. CASE HandlerNext
  BY <1>3, HandlerSafe
<1>4. CASE PublishNext
  BY <1>4, PublishSafe DEF PublishNext
<1>5. CASE Restart
  BY <1>5, RestartSafe
<1>6. CASE Tick \/ UNCHANGED vars
  <2>1. /\ UNCHANGED <<jobs, active, disk, handler>>
        /\ \A k \in Jobs : TasksKept(k)
    BY <1>6 DEF Tick, vars, storeVars, taskVars, historyVars, TasksKept
  <2> QED BY <2>1, TaskStep
<1> QED BY <1>1, <1>2, <1>3, <1>4, <1>5, <1>6 DEF Next

\* The inductive invariant holds in every reachable state when saves succeed.
THEOREM SafetyInvariant == ASSUME ~SaveCanFail PROVE Spec => []SafetyInv
<1>1. Init => SafetyInv
  BY InitSafe
<1>2. TypeOK /\ SafetyInv /\ [Next]_vars => SafetyInv'
  BY NextSafe
<1> QED BY <1>1, <1>2, TypeCorrect, PTL DEF Spec

\* At most one job of a result is active, with any number of threads that
\* create, decide and render, and over restarts.
THEOREM OneActiveJob == ASSUME ~SaveCanFail PROVE Spec => []OneActiveJobPerResult
<1>1. SafetyInv => OneActiveJobPerResult
  BY DEF SafetyInv
<1> QED BY <1>1, SafetyInvariant, PTL

\* The index that create() trusts is the set of active jobs.
THEOREM ExactIndex == ASSUME ~SaveCanFail PROVE Spec => []ActiveIndexIsExact
<1>1. SafetyInv => ActiveIndexIsExact
  BY DEF SafetyInv
<1> QED BY <1>1, SafetyInvariant, PTL

\* No job is left queued, processing or pending without a task.
THEOREM WorkHasOwner == ASSUME ~SaveCanFail PROVE Spec => []UnsettledWorkHasOwner
<1>1. SafetyInv => UnsettledWorkHasOwner
  BY DEF SafetyInv, JobInv, RenderInv, SessionInv, UnsettledWorkHasOwner, HoldsRenderLock
<1> QED BY <1>1, SafetyInvariant, PTL

\* The program opens one upload session per request of the user.
THEOREM OneSession == ASSUME ~SaveCanFail PROVE Spec => []OneSessionPerRequest
<1>1. SafetyInv => OneSessionPerRequest
  BY DEF SafetyInv, JobInv, SessionInv, OneSessionPerRequest
<1> QED BY <1>1, SafetyInvariant, PTL

(***************************************************************************)
(* What holds although saves fail.                                         *)
(***************************************************************************)

\* FailureInv holds for all parameters: in memory, and in a file that is behind,
\* no job gets ahead of what has happened to it.
THEOREM FailureInvariant == Spec => []FailureInv
<1>1. Init => FailureInv
  BY LooseInit
<1>2. TypeOK /\ FailureInv /\ [Next]_vars => FailureInv'
  BY LooseNext
<1> QED BY <1>1, <1>2, TypeCorrect, PTL DEF Spec

\* The answer of an upload is never discarded, whatever saves fail meanwhile.
THEOREM UploadIsRecorded == Spec => []UploadResultIsRecorded
<1>1. FailureInv => UploadResultIsRecorded
  BY DEF FailureInv, LooseJobInv, UploadInv, UploadResultIsRecorded
<1> QED BY <1>1, FailureInvariant, PTL

\* Only approved renders are uploaded, and a scheduled job has its video, also
\* when a restart goes back to an old file.
THEOREM PublishedIsApproved == Spec => []PublishedWorkIsApproved
<1>1. FailureInv => PublishedWorkIsApproved
  BY DEF FailureInv, LooseJobInv, JobShape, LooseRenderInv, UploadInv, PublishedWorkIsApproved
<1> QED BY <1>1, FailureInvariant, PTL

\* A restart after a save that failed opens one more upload session at most.
THEOREM SessionsAreCounted == Spec => []OneSessionPerRequestOrRestart
<1>1. TypeOK /\ FailureInv => OneSessionPerRequestOrRestart
  <2> SUFFICES ASSUME TypeOK, FailureInv, NEW j \in Jobs
               PROVE  sessions[j] <= 1 + requeues[j] + restarts
    BY DEF OneSessionPerRequestOrRestart
  <2>1. /\ LooseSessionInv(jobs[j], upload[j], sessions[j], requeues[j] + restarts)
        /\ sessions[j] \in Nat /\ requeues[j] \in Nat /\ restarts \in Nat
    BY LooseJobParts
  <2> QED BY <2>1 DEF LooseSessionInv
<1> QED BY <1>1, TypeCorrect, FailureInvariant, PTL

\* The job that a step stores keeps a decision that was taken; only the commit
\* of approve() stores an approval; and the result of an upload is stored by
\* run_publish, another publish status only when none or a failure was there.
StoresDecision(i, job) ==
    /\ job \in VideoJob
    /\ \E newTone : Stores(i, job, newTone)
    /\ jobs[i].approval # "pending" => job.approval = jobs[i].approval
    /\ job.approval = "approved" =>
         jobs[i].approval = "approved" \/ \E h \in Handlers : ApproveCommit(h)
    /\ \/ job.publish = jobs[i].publish
       \/ jobs[i].publish \in Retryable \cup {"not_requested"}
       \/ PublishNext

StoresNone == UNCHANGED jobs /\ (disk' = disk \/ disk'.jobs = jobs)

\* What a step stores: every step but a restart stores one job or none.
LEMMA WhatIsStored ==
  ASSUME TypeOK, FailureInv, [Next]_vars
  PROVE  \/ Restart
         \/ StoresNone
         \/ \E i \in Jobs : \E job \in VideoJob : StoresDecision(i, job)
<1> DEFINE Stored == \E i \in Jobs : \E job \in VideoJob : StoresDecision(i, job)
<1> USE DEF storeVars
<1>1. \A i \in Jobs : jobs[i] \in VideoJob
  BY DEF TypeOK
\* A job that is stored with the approval it had.
<1>2. ASSUME NEW i \in Jobs, NEW job \in VideoJob, NEW newTone, Stores(i, job, newTone),
             job.approval = jobs[i].approval,
             job.publish = jobs[i].publish \/ PublishNext
      PROVE  Stored
  BY <1>2 DEF StoresDecision
<1>3. UNCHANGED <<jobs, disk>> => StoresNone
  BY DEF StoresNone
<1> HIDE DEF Stored
<1>4. CASE CreateNext
  <2>1. ASSUME NEW c \in Callers, NEW i \in Jobs, CreateCommit(c, i)
        PROVE  Stored
    <3> DEFINE job == NewJob(creating[c].result, creating[c].fp)
    <3>1. creating[c].result \in Results /\ creating[c].fp \in Copies
      BY <2>1 DEF CreateCommit, TypeOK
    <3>2. /\ job \in VideoJob /\ job.approval = "pending"
          /\ job.publish = "not_requested"
      BY <3>1 DEF NewJob, NoJob, VideoJob, RenderStatus, ApprovalStatus, PublishStatus
    <3>3. Stores(i, job, [tone EXCEPT ![creating[c].result].job = i])
      BY <2>1 DEF CreateCommit, Stores
    <3>4. jobs[i].approval = "pending" /\ jobs[i].publish = "not_requested"
      BY <2>1 DEF CreateCommit, NoJob
    <3> HIDE DEF job
    <3> QED BY <1>2, <3>2, <3>3, <3>4
  <2>2. ASSUME NEW c \in Callers,
               CreateRefused(c) \/ \E r \in Results : CreateBegin(c, r)
        PROVE  StoresNone
    BY <1>3, <2>2 DEF CreateRefused, CreateBegin
  <2> QED BY <1>4, <2>1, <2>2 DEF CreateNext, Stored
<1>5. CASE RenderNext
  <2> PICK i \in Jobs :
        \/ RenderStart(i) \/ RenderStoryboard(i) \/ RenderMedia(i)
        \/ RenderRaises(i) \/ RenderFailed(i) \/ RenderCompleted(i)
    BY <1>5 DEF RenderNext
  <2>1. ASSUME NEW status \in {"processing", "completed", "failed"}, NEW newTone,
               Stores(i, [jobs[i] EXCEPT !.render = status], newTone)
        PROVE  Stored
    <3> DEFINE job == [jobs[i] EXCEPT !.render = status]
    <3>1. /\ job \in VideoJob /\ job.approval = jobs[i].approval
          /\ job.publish = jobs[i].publish
      BY <1>1 DEF VideoJob, RenderStatus
    <3>2. Stores(i, job, newTone)
      BY <2>1
    <3> HIDE DEF job
    <3> QED BY <1>2, <3>1, <3>2
  <2>2. CASE RenderStart(i) \/ RenderFailed(i) \/ RenderCompleted(i)
    <3>1. \/ UNCHANGED <<jobs, disk>>
          \/ \E status \in {"processing", "completed", "failed"},
                newTone \in {tone, [tone EXCEPT ![jobs[i].result].url = i]} :
               Stores(i, [jobs[i] EXCEPT !.render = status], newTone)
      BY <2>2 DEF RenderStart, RenderFailed, RenderCompleted, Stores
    <3> QED BY <1>3, <2>1, <3>1 DEF Stored
  <2>3. CASE RenderStoryboard(i) \/ RenderMedia(i) \/ RenderRaises(i)
    BY <1>3, <2>3 DEF RenderStoryboard, RenderMedia, RenderRaises
  <2> QED BY <2>2, <2>3 DEF Stored
<1>6. CASE HandlerNext
  <2>1. ASSUME NEW h \in Handlers, NEW i \in Jobs, Reject(h, i)
        PROVE  Stored
    <3> DEFINE job == [jobs[i] EXCEPT !.approval = "rejected"]
    <3>1. /\ job \in VideoJob /\ job.approval = "rejected"
          /\ job.publish = jobs[i].publish
      BY <1>1 DEF VideoJob, ApprovalStatus
    <3>2. Stores(i, job, tone) /\ jobs[i].approval = "pending"
      BY <2>1 DEF Reject, Rejectable, Stores
    <3> HIDE DEF job
    <3>3. StoresDecision(i, job)
      BY <3>1, <3>2 DEF StoresDecision
    <3> QED BY <3>1, <3>3 DEF Stored
  <2>2. ASSUME NEW h \in Handlers,
               \/ \E i \in Jobs, at \in Requested, publish, confirmed \in BOOLEAN :
                    \/ ApproveBegin(h, i, at, publish, confirmed)
                    \/ ApproveAgain(h, i, at, publish, confirmed)
               \/ \E r \in Results, copy \in Copies : UpdateCopy(h, r, copy)
               \/ OtherSave(h)
        PROVE  StoresNone
    BY <2>2 DEF ApproveBegin, ApproveAgain, UpdateCopy, OtherSave, Snapshot, StoresNone
  <2>3. ASSUME NEW h \in Handlers, ApproveCommit(h)
        PROVE  Stored \/ StoresNone
    <3> DEFINE req == handler[h]
               i == req.job
               next == IF req.stage = "approve" THEN Approved(jobs[i], req)
                                                ELSE Requeued(jobs[i], req)
    <3>1. CASE ~NotChangedSince(jobs[i], req.snap)
      BY <1>3, <2>3, <3>1 DEF ApproveCommit
    <3>2. CASE NotChangedSince(jobs[i], req.snap)
      <4>1. /\ req \in HandlerState /\ i \in Jobs /\ req # IdleHandler
            /\ req.stage \in {"approve", "requeue"}
            /\ req.at \in Nat /\ req.publish \in BOOLEAN /\ req.confirmed \in BOOLEAN
        BY <2>3 DEF ApproveCommit, IdleHandler, TypeOK, HandlerState
      <4>2. HandlerInv(req, jobs[i])
        BY <4>1 DEF FailureInv
      <4>3. /\ req.stage = "approve" => jobs[i].approval = "pending"
            /\ req.stage = "requeue" => /\ jobs[i].approval = "approved"
                                        /\ jobs[i].publish \in Retryable
        BY <1>1, <3>2, <4>1, <4>2 DEF HandlerInv, NotChangedSince
      <4>4. Stores(i, next, tone)
        <5> HIDE DEF next
        <5> QED BY <2>3, <3>2 DEF ApproveCommit, Stores, next
      <4>5. next \in VideoJob /\ next.approval = "approved"
        <5> HIDE DEF req, i
        <5>1. Approved(jobs[i], req) \in VideoJob /\ Approved(jobs[i], req).approval = "approved"
          BY <1>1, <4>1 DEF Approved, VideoJob, ApprovalStatus, PublishStatus
        <5>2. /\ Requeued(jobs[i], req) \in VideoJob
              /\ Requeued(jobs[i], req).approval = jobs[i].approval
          BY <1>1, <4>1 DEF Requeued, VideoJob, ApprovalStatus, PublishStatus
        <5> QED BY <4>1, <4>3, <5>1, <5>2
      <4> HIDE DEF next
      <4>6. jobs[i].publish \in Retryable \cup {"not_requested"}
        <5>1. JobShape(jobs[i])
          BY <4>1, LooseJobParts
        <5> QED BY <1>1, <4>1, <4>3, <5>1 DEF JobShape
      <4>7. StoresDecision(i, next)
        BY <2>3, <4>1, <4>3, <4>4, <4>5, <4>6 DEF StoresDecision
      <4> QED BY <4>1, <4>5, <4>7 DEF Stored
    <3> QED BY <3>1, <3>2
  <2> QED BY <1>6, <2>1, <2>2, <2>3 DEF HandlerNext, Stored
<1>7. CASE PublishNext
  <2> PICK i \in Jobs :
        \/ PublishTake(i) \/ PublishIntegrity(i)
        \/ PublishNotStarted(i) \/ PublishStart(i)
        \/ YouTubeStores(i) \/ AnswerServerError(i)
        \/ AnswerRefused(i) \/ AnswerUnknown(i)
        \/ AnswerVideoId(i) \/ PublishCommit(i)
    BY <1>7 DEF PublishNext
  <2>1. CASE PublishCommit(i)
    <3> DEFINE job == [jobs[i] EXCEPT !.publish = upload[i].outcome,
                         !.youtubeId = (upload[i].outcome = "scheduled")]
    <3>1. job \in VideoJob /\ job.approval = jobs[i].approval
      BY <1>1 DEF TypeOK, Upload, VideoJob
    <3>2. StoresNone \/ Stores(i, job, tone)
      BY <1>3, <2>1 DEF PublishCommit, Stores
    <3> HIDE DEF job
    <3> QED BY <1>2, <1>7, <3>1, <3>2 DEF Stored
  <2>2. CASE ~PublishCommit(i)
    BY <1>3, <2>2 DEF PublishTake, PublishIntegrity, PublishNotStarted, PublishStart,
                YouTubeStores, AnswerServerError, AnswerRefused, AnswerUnknown,
                AnswerVideoId
  <2> QED BY <2>1, <2>2
<1>8. CASE Tick \/ UNCHANGED vars
  BY <1>3, <1>8 DEF Tick, vars
<1> QED BY <1>4, <1>5, <1>6, <1>7, <1>8 DEF Next, Stored

\* A decision that the file has is final, and one that it has not is lost by
\* nothing but a restart.
THEOREM SavedDecisionStays == Spec => SavedDecisionIsFinal
<1>1. ASSUME TypeOK, FailureInv, [Next]_vars
      PROVE  \A j \in Jobs :
               /\ jobs[j].approval # "pending"
               /\ restarts' = restarts \/ disk.jobs[j].approval # "pending"
               => jobs'[j].approval = jobs[j].approval
  <2> SUFFICES ASSUME NEW j \in Jobs, jobs[j].approval # "pending",
                      restarts' = restarts \/ disk.jobs[j].approval # "pending"
               PROVE  jobs'[j].approval = jobs[j].approval
    OBVIOUS
  <2>1. CASE Restart
    <3>1. /\ FileInv(jobs[j], disk.jobs[j], mp4[j], youtube[j])
          /\ disk.jobs[j] \in VideoJob /\ restarts \in Nat
      BY <1>1, LooseJobParts DEF TypeOK
    <3>2. restarts' = restarts + 1 /\ jobs'[j] = RecoverVideoJob(disk.jobs[j])
      BY <2>1 DEF Restart
    <3>3. disk.jobs[j].approval # "pending" /\ jobs[j].approval = disk.jobs[j].approval
      BY <3>1, <3>2 DEF FileInv
    <3>4. RecoverVideoJob(disk.jobs[j]).approval = disk.jobs[j].approval
      BY <3>1 DEF RecoverVideoJob, VideoJob
    <3> QED BY <3>2, <3>3, <3>4
  <2>2. CASE StoresNone
    BY <2>2 DEF StoresNone
  <2>3. ASSUME NEW i \in Jobs, NEW job \in VideoJob, StoresDecision(i, job)
        PROVE  jobs'[j].approval = jobs[j].approval
    <3>1. /\ jobs'[i] = [job EXCEPT !.updated = jobs[i].updated + 1]
          /\ \A k \in Jobs : k # i => jobs'[k] = jobs[k]
      BY <1>1, <2>3, StoredJob DEF StoresDecision
    <3>2. jobs'[i].approval = job.approval
      BY <3>1 DEF VideoJob
    <3> QED BY <2>3, <3>1, <3>2 DEF StoresDecision
  <2> QED BY <1>1, <2>1, <2>2, <2>3, WhatIsStored
<1> QED BY <1>1, TypeCorrect, FailureInvariant, PTL DEF Spec, SavedDecisionIsFinal

\* The handlers start no task but uploads, and leave the others alone.
LEMMA HandlerUnchanged == HandlerNext => ApproveUnchanged
<1>1. ASSUME NEW h \in Handlers, NEW j, NEW at, NEW publish, NEW confirmed,
             \/ ApproveBegin(h, j, at, publish, confirmed)
             \/ ApproveAgain(h, j, at, publish, confirmed)
      PROVE  ApproveUnchanged
  BY <1>1 DEF ApproveBegin, ApproveAgain
<1>2. ASSUME NEW h \in Handlers, ApproveCommit(h)
      PROVE  ApproveUnchanged
  BY <1>2 DEF ApproveCommit
<1>3. ASSUME NEW h \in Handlers, NEW j, NEW r, NEW copy,
             Reject(h, j) \/ UpdateCopy(h, r, copy) \/ OtherSave(h)
      PROVE  ApproveUnchanged
  BY <1>3 DEF Reject, UpdateCopy, OtherSave
<1> QED BY <1>1, <1>2, <1>3 DEF HandlerNext

(***************************************************************************)
(* Duplicates.  NoDuplicateVideo is violated when YouTube answers 5xx to   *)
(* an upload it has stored; without this answer it holds, over any number  *)
(* of retries, duplicate tasks, threads and restarts.                      *)
(***************************************************************************)

\* A job keeps its publish status, or no video of it can exist yet.
PublishKept(j) ==
    \/ jobs'[j].publish = jobs[j].publish
    \/ jobs[j].publish \in Retryable \cup {"not_requested"}

\* A step that leaves the uploads alone does not let a job that has a video be
\* uploaded again.
LEMMA VideoStays ==
  ASSUME TypeOK, SafetyInv, OneVideoInv, UNCHANGED <<upload, youtube>>,
         \A j \in Jobs : PublishKept(j)
  PROVE  OneVideoInv'
<1> SUFFICES ASSUME NEW j \in Jobs
             PROVE  VideoInv(jobs'[j], upload[j], youtube[j])
  BY DEF OneVideoInv
<1>1. /\ VideoInv(jobs[j], upload[j], youtube[j])
      /\ UploadInv(jobs[j], upload[j], youtube[j])
      /\ PublishKept(j)
  BY JobParts DEF OneVideoInv
<1>2. upload[j].stage # "idle" => jobs[j].publish = "pending"
  BY <1>1 DEF UploadInv, MustUpload
<1>3. CASE jobs'[j].publish = jobs[j].publish
  BY <1>1, <1>3 DEF VideoInv
<1>4. CASE jobs[j].publish \in Retryable \cup {"not_requested"}
  BY <1>1, <1>2, <1>4 DEF VideoInv, Retryable
<1> QED BY <1>1, <1>3, <1>4 DEF PublishKept

\* A step of one upload: the others, and the jobs, stay.
LEMMA VideoStep ==
  ASSUME OneVideoInv, NEW j \in Jobs,
         \A k \in Jobs : k # j => TasksKept(k) /\ jobs'[k] = jobs[k],
         VideoInv(jobs'[j], upload'[j], youtube'[j])
  PROVE  OneVideoInv'
<1> SUFFICES ASSUME NEW k \in Jobs
             PROVE  VideoInv(jobs'[k], upload'[k], youtube'[k])
  BY DEF OneVideoInv
<1> QED BY DEF OneVideoInv, TasksKept

LEMMA PublishVideo ==
  ASSUME TypeOK, SafetyInv, OneVideoInv, ~SaveCanFail, ~LostAnswers, NEW j \in Jobs,
         \/ PublishTake(j) \/ PublishIntegrity(j)
         \/ PublishNotStarted(j) \/ PublishStart(j)
         \/ YouTubeStores(j) \/ AnswerServerError(j)
         \/ AnswerRefused(j) \/ AnswerUnknown(j)
         \/ AnswerVideoId(j) \/ PublishCommit(j)
  PROVE  OneVideoInv'
<1>1. /\ jobs[j] \in VideoJob /\ upload[j] \in Upload /\ youtube[j] \in Nat
      /\ upload \in [Jobs -> Upload] /\ youtube \in [Jobs -> Nat]
      /\ UploadInv(jobs[j], upload[j], youtube[j])
      /\ VideoInv(jobs[j], upload[j], youtube[j])
  BY JobParts DEF TypeOK, OneVideoInv
<1>2. \A k \in Jobs : k # j => TasksKept(k)
  <2>1. \A k \in Jobs : k # j => /\ upload'[k] = upload[k] /\ youtube'[k] = youtube[k]
                                 /\ waiting'[k] = waiting[k] /\ sessions'[k] = sessions[k]
    BY DEF TypeOK, PublishTake, PublishIntegrity, PublishNotStarted, PublishStart,
           YouTubeStores, AnswerServerError, AnswerRefused, AnswerUnknown,
           AnswerVideoId, PublishCommit, Finish
  <2>2. PublishUnchanged
    BY DEF PublishTake, PublishIntegrity, PublishNotStarted, PublishStart,
           YouTubeStores, AnswerServerError, AnswerRefused, AnswerUnknown,
           AnswerVideoId, PublishCommit
  <2> QED BY <2>1, <2>2 DEF PublishUnchanged, TasksKept
\* The answer of the publisher; a video that is there is not forgotten.
<1>3. ASSUME NEW outcome, Finish(j, outcome), upload[j].stage # "idle",
             UNCHANGED <<storeVars, youtube>>,
             youtube[j] = 1 => outcome \in {"needs_review", "scheduled"}
      PROVE  OneVideoInv'
  <2>1. /\ upload'[j].stage = "done" /\ upload'[j].outcome = outcome
        /\ upload'[j].stored = upload[j].stored
    BY <1>1, <1>3 DEF Finish, Upload
  <2>2. jobs' = jobs /\ youtube' = youtube
    BY <1>3 DEF storeVars
  <2>3. VideoInv(jobs'[j], upload'[j], youtube'[j])
    BY <1>1, <1>3, <2>1, <2>2 DEF VideoInv
  <2> QED BY <1>2, <2>2, <2>3, VideoStep
<1>4. CASE PublishTake(j)
  <2>1. jobs' = jobs /\ youtube' = youtube /\ upload[j].stage = "idle"
    BY <1>4 DEF PublishTake, storeVars
  <2>2. CASE MustUpload(jobs[j])
    <3>1. upload'[j].stage = "integrity" /\ upload'[j].stored = upload[j].stored
      BY <1>1, <1>4, <2>2 DEF PublishTake, Upload
    <3>2. youtube[j] # 1
      BY <1>1, <2>1, <2>2 DEF VideoInv, MustUpload
    <3>3. VideoInv(jobs'[j], upload'[j], youtube'[j])
      BY <1>1, <2>1, <3>1, <3>2 DEF VideoInv
    <3> QED BY <1>2, <2>1, <3>3, VideoStep
  <2>3. CASE ~MustUpload(jobs[j])
    <3>1. upload' = upload
      BY <1>4, <2>3 DEF PublishTake
    <3> QED BY <1>1, <1>2, <2>1, <3>1, VideoStep
  <2> QED BY <2>2, <2>3
<1>5. CASE PublishIntegrity(j)
  <2>1. CASE Finish(j, "needs_review")
    BY <1>3, <1>5, <2>1 DEF PublishIntegrity
  <2>2. CASE upload' = [upload EXCEPT ![j].stage = "request"]
    <3>1. /\ upload'[j].stage = "request" /\ upload'[j].stored = upload[j].stored
          /\ upload[j].stage = "integrity" /\ jobs' = jobs /\ youtube' = youtube
      BY <1>1, <1>5, <2>2 DEF PublishIntegrity, Upload, storeVars
    <3>2. VideoInv(jobs'[j], upload'[j], youtube'[j])
      BY <1>1, <3>1 DEF VideoInv
    <3> QED BY <1>2, <3>1, <3>2, VideoStep
  <2> QED BY <1>5, <2>1, <2>2 DEF PublishIntegrity
<1>6. CASE PublishNotStarted(j)
  <2>1. youtube[j] # 1 /\ upload[j].stage # "idle" /\ UNCHANGED <<storeVars, youtube>>
    BY <1>1, <1>6 DEF PublishNotStarted, VideoInv
  <2> QED BY <1>3, <1>6, <2>1 DEF PublishNotStarted
<1>7. CASE PublishStart(j)
  <2>1. /\ upload'[j].stage = "uploading" /\ upload'[j].stored = upload[j].stored
        /\ upload[j].stage = "request" /\ jobs' = jobs /\ youtube' = youtube
    BY <1>1, <1>7 DEF PublishStart, Upload, storeVars
  <2>2. VideoInv(jobs'[j], upload'[j], youtube'[j])
    BY <1>1, <2>1 DEF VideoInv
  <2> QED BY <1>2, <2>1, <2>2, VideoStep
<1>8. CASE YouTubeStores(j)
  <2>1. /\ upload'[j].stage = "uploading" /\ upload'[j].stored = "yes"
        /\ upload[j].stage = "uploading" /\ upload[j].stored = "no"
        /\ jobs' = jobs /\ youtube'[j] = youtube[j] + 1
    BY <1>1, <1>8 DEF YouTubeStores, Upload, storeVars
  <2>2. youtube[j] = 0
    BY <1>1, <2>1 DEF VideoInv
  <2>3. VideoInv(jobs'[j], upload'[j], youtube'[j])
    BY <2>1, <2>2 DEF VideoInv
  <2> QED BY <1>2, <2>1, <2>3, VideoStep
<1>9. CASE AnswerServerError(j)
  <2>1. upload[j].stored # "yes" /\ upload[j].stage = "uploading" /\ UNCHANGED <<storeVars, youtube>>
    BY <1>9 DEF AnswerServerError
  <2>2. CASE Finish(j, "needs_review")
    BY <1>3, <2>1, <2>2
  <2>3. CASE ~Finish(j, "needs_review")
    <3>1. /\ upload'[j].stage = "uploading" /\ upload'[j].stored = upload[j].stored
          /\ jobs' = jobs /\ youtube' = youtube
      BY <1>1, <1>9, <2>1, <2>3 DEF AnswerServerError, Upload, storeVars
    <3>2. VideoInv(jobs'[j], upload'[j], youtube'[j])
      BY <1>1, <2>1, <3>1 DEF VideoInv
    <3> QED BY <1>2, <3>1, <3>2, VideoStep
  <2> QED BY <2>2, <2>3
<1>10. CASE AnswerRefused(j)
  <2>1. youtube[j] # 1 /\ upload[j].stage # "idle" /\ UNCHANGED <<storeVars, youtube>>
    BY <1>1, <1>10 DEF AnswerRefused, VideoInv
  <2> QED BY <1>3, <1>10, <2>1 DEF AnswerRefused
<1>11. CASE AnswerUnknown(j) \/ AnswerVideoId(j)
  <2>1. upload[j].stage # "idle" /\ UNCHANGED <<storeVars, youtube>>
    BY <1>11 DEF AnswerUnknown, AnswerVideoId
  <2>2. Finish(j, "needs_review") \/ Finish(j, "scheduled")
    BY <1>11 DEF AnswerUnknown, AnswerVideoId
  <2> QED BY <1>3, <2>1, <2>2
<1>12. CASE PublishCommit(j)
  <2> DEFINE outcome == upload[j].outcome
             job == [jobs[j] EXCEPT !.publish = outcome,
                                    !.youtubeId = (outcome = "scheduled")]
  <2>1. /\ upload[j].stage = "done" /\ jobs[j] = upload[j].snap
        /\ outcome \in PublishStatus /\ upload'[j] = IdleUpload /\ youtube' = youtube
    BY <1>1, <1>12 DEF PublishCommit, UploadInv, TypeOK
  <2>2. Stores(j, job, tone)
    BY <1>12, <2>1 DEF PublishCommit, Stores, NotChangedSince
  <2>3. job \in VideoJob /\ job.publish = outcome
    BY <1>1, <2>1 DEF VideoJob
  <2> HIDE DEF job
  <2>4. /\ jobs'[j] = [job EXCEPT !.updated = jobs[j].updated + 1]
        /\ \A k \in Jobs : k # j => jobs'[k] = jobs[k]
    BY <2>2, <2>3, StoredJob
  <2>5. jobs'[j].publish = outcome
    BY <2>3, <2>4 DEF VideoJob
  <2>6. VideoInv(jobs'[j], upload'[j], youtube'[j])
    BY <1>1, <2>1, <2>5 DEF VideoInv, IdleUpload
  <2> QED BY <1>2, <2>4, <2>6, VideoStep
<1> QED BY <1>4, <1>5, <1>6, <1>7, <1>8, <1>9, <1>10, <1>11, <1>12

\* The steps that are neither of run_publish nor a restart.
LEMMA OtherVideo ==
  ASSUME TypeOK, SafetyInv, FailureInv, OneVideoInv, [Next]_vars, ~PublishNext, ~Restart
  PROVE  OneVideoInv'
<1>1. UNCHANGED <<upload, youtube>>
  <2>1. CreateNext => UNCHANGED <<upload, youtube>>
    BY DEF CreateNext, CreateBegin, CreateRefused, CreateCommit
  <2>2. RenderNext => UNCHANGED <<upload, youtube>>
    BY DEF RenderNext, RenderStart, RenderStoryboard, RenderMedia, RenderRaises,
           RenderFailed, RenderCompleted, RenderUnchanged
  <2>3. HandlerNext => ApproveUnchanged
    BY HandlerUnchanged
  <2>4. Tick \/ UNCHANGED vars => UNCHANGED <<upload, youtube>>
    BY DEF Tick, vars, taskVars
  <2> QED BY <2>1, <2>2, <2>3, <2>4 DEF Next, ApproveUnchanged
<1>2. ASSUME NEW j \in Jobs PROVE PublishKept(j)
  <2>1. CASE StoresNone
    BY <2>1 DEF StoresNone, PublishKept
  <2>2. ASSUME NEW i \in Jobs, NEW job \in VideoJob, StoresDecision(i, job)
        PROVE  PublishKept(j)
    <3>1. /\ jobs'[i] = [job EXCEPT !.updated = jobs[i].updated + 1]
          /\ \A k \in Jobs : k # i => jobs'[k] = jobs[k]
      BY <2>2, StoredJob DEF StoresDecision
    <3>2. jobs'[i].publish = job.publish
      BY <3>1 DEF VideoJob
    <3> QED BY <2>2, <3>1, <3>2 DEF StoresDecision, PublishKept
  <2> QED BY <2>1, <2>2, WhatIsStored
<1> QED BY <1>1, <1>2, VideoStays

LEMMA RestartVideo ==
  ASSUME TypeOK, SafetyInv, OneVideoInv, Restart
  PROVE  OneVideoInv'
<1> SUFFICES ASSUME NEW j \in Jobs
             PROVE  VideoInv(jobs'[j], upload'[j], youtube'[j])
  BY DEF OneVideoInv
<1>1. upload'[j] = IdleUpload /\ youtube' = youtube
  BY DEF Restart, NoUploads
<1>2. /\ UploadInv(jobs[j], upload[j], youtube[j])
      /\ VideoInv(jobs[j], upload[j], youtube[j])
  BY JobParts DEF OneVideoInv
<1>3. jobs'[j].publish = IF jobs[j].publish = "pending" THEN "needs_review"
                                                        ELSE jobs[j].publish
  BY RecoveredJob
<1> QED BY <1>1, <1>2, <1>3 DEF VideoInv, UploadInv, MustUpload, IdleUpload

\* YouTube holds at most one video of a job, however often a user retries: a
\* status from which an upload can be asked for says that there is none.
THEOREM NoDuplicates ==
  ASSUME ~SaveCanFail, ~LostAnswers PROVE Spec => []NoDuplicateVideo
<1>1. Init => OneVideoInv
  BY DEF Init, NoUploads, IdleUpload, OneVideoInv, VideoInv
<1>2. ASSUME TypeOK, SafetyInv, FailureInv, OneVideoInv, [Next]_vars
      PROVE  OneVideoInv'
  <2>1. CASE PublishNext
    BY <1>2, <2>1, PublishVideo DEF PublishNext
  <2>2. CASE Restart
    BY <1>2, <2>2, RestartVideo
  <2>3. CASE ~PublishNext /\ ~Restart
    BY <1>2, <2>3, OtherVideo
  <2> QED BY <2>1, <2>2, <2>3
<1>3. OneVideoInv => NoDuplicateVideo
  BY DEF OneVideoInv, VideoInv, NoDuplicateVideo
<1> QED BY <1>1, <1>2, <1>3, TypeCorrect, SafetyInvariant, FailureInvariant, PTL DEF Spec

(***************************************************************************)
(* The refinement of VideoLifecycle, and the approval of the current copy. *)
(***************************************************************************)
\* The refinement mapping of VideoWorkflow!Lifecycle.
ResultOf == [j \in Jobs |-> jobs[j].result]
RenderOf == [j \in Jobs |-> jobs[j].render]
ApprovalOf == [j \in Jobs |-> jobs[j].approval]
PublishOf == [j \in Jobs |-> jobs[j].publish]

\* Storing a job changes its statuses only.
LEMMA StoredView ==
  ASSUME TypeOK, ~SaveCanFail, NEW j \in Jobs, NEW job \in VideoJob, NEW newTone,
         Stores(j, job, newTone)
  PROVE  /\ ResultOf' = [ResultOf EXCEPT ![j] = job.result]
         /\ RenderOf' = [RenderOf EXCEPT ![j] = job.render]
         /\ ApprovalOf' = [ApprovalOf EXCEPT ![j] = job.approval]
         /\ PublishOf' = [PublishOf EXCEPT ![j] = job.publish]
<1>1. /\ jobs'[j] = [job EXCEPT !.updated = jobs[j].updated + 1]
      /\ \A k \in Jobs : k # j => jobs'[k] = jobs[k]
  BY PersistFacts
<1>2. /\ jobs'[j].result = job.result /\ jobs'[j].render = job.render
      /\ jobs'[j].approval = job.approval /\ jobs'[j].publish = job.publish
  BY <1>1 DEF VideoJob
<1> QED BY <1>1, <1>2 DEF ResultOf, RenderOf, ApprovalOf, PublishOf

\* Storing what a job had keeps the view of it.
LEMMA SameView ==
  ASSUME NEW j \in Jobs
  PROVE  /\ [ResultOf EXCEPT ![j] = jobs[j].result] = ResultOf
         /\ [RenderOf EXCEPT ![j] = jobs[j].render] = RenderOf
         /\ [ApprovalOf EXCEPT ![j] = jobs[j].approval] = ApprovalOf
         /\ [PublishOf EXCEPT ![j] = jobs[j].publish] = PublishOf
BY DEF ResultOf, RenderOf, ApprovalOf, PublishOf

\* A step of one job is a step of the lifecycle.
LEMMA JobStep ==
  ASSUME NEW j \in Jobs,
         \/ \E r \in Results : Lifecycle!Create(j, r)
         \/ Lifecycle!Reject(j)
         \/ \E status \in {"not_requested", "pending"} : Lifecycle!Approve(j, status)
         \/ \E outcome \in Lifecycle!Outcomes : Lifecycle!Publish(j, outcome)
         \/ Lifecycle!Retry(j)
  PROVE  Lifecycle!Next
BY DEF Lifecycle!Next, Lifecycle!JobNext

LEMMA RenderView ==
  ASSUME TypeOK, SafetyInv, ~SaveCanFail, RenderNext
  PROVE  [Lifecycle!Next]_(Lifecycle!vars)
<1> SUFFICES ASSUME NEW j \in Jobs,
                    \/ RenderStart(j) \/ RenderStoryboard(j) \/ RenderMedia(j)
                    \/ RenderRaises(j) \/ RenderFailed(j) \/ RenderCompleted(j)
             PROVE  [Lifecycle!Next]_(Lifecycle!vars)
  BY DEF RenderNext
<1>1. jobs[j] \in VideoJob /\ RenderInv(jobs[j], render[j], mp4[j])
  BY JobParts
<1>2. ASSUME NEW status \in RenderStatus, NEW newTone,
             Stores(j, [jobs[j] EXCEPT !.render = status], newTone),
             \/ jobs[j].render = "queued" /\ status = "processing"
             \/ jobs[j].render = "processing" /\ status \in {"completed", "failed"}
      PROVE  Lifecycle!Next
  <2> DEFINE job == [jobs[j] EXCEPT !.render = status]
  <2>1. /\ job \in VideoJob /\ job.result = jobs[j].result /\ job.render = status
        /\ job.approval = jobs[j].approval /\ job.publish = jobs[j].publish
    BY <1>1 DEF VideoJob
  <2>2. Stores(j, job, newTone)
    BY <1>2
  <2> HIDE DEF job
  <2>3. /\ ResultOf' = ResultOf /\ ApprovalOf' = ApprovalOf /\ PublishOf' = PublishOf
        /\ RenderOf' = [RenderOf EXCEPT ![j] = status]
    BY <2>1, <2>2, StoredView, SameView
  <2>4. RenderOf[j] = jobs[j].render
    BY DEF RenderOf
  <2>5. Lifecycle!Render(j, jobs[j].render, status)
    BY <2>3, <2>4 DEF Lifecycle!Render, ResultOf, RenderOf, ApprovalOf, PublishOf
  <2> QED BY <1>2, <2>5 DEF Lifecycle!Next, Lifecycle!JobNext
<1>3. ASSUME UNCHANGED jobs PROVE [Lifecycle!Next]_(Lifecycle!vars)
  BY <1>3 DEF Lifecycle!vars
<1>4. {"processing", "completed", "failed"} \subseteq RenderStatus
  BY DEF RenderStatus
<1>5. CASE RenderStart(j)
  BY <1>1, <1>2, <1>4, <1>5 DEF RenderStart, RenderInv, Stores
<1>6. CASE RenderFailed(j)
  BY <1>1, <1>2, <1>4, <1>6 DEF RenderFailed, RenderInv, Stores
<1>7. CASE RenderCompleted(j)
  <2>1. jobs[j].render = "processing"
    BY <1>1, <1>7 DEF RenderCompleted, RenderInv
  <2>2. Stores(j, [jobs[j] EXCEPT !.render = "completed"], [tone EXCEPT ![jobs[j].result].url = j])
    BY <1>7, <2>1 DEF RenderCompleted, Stores
  <2> QED BY <1>2, <1>4, <2>1, <2>2
<1>8. CASE RenderStoryboard(j) \/ RenderMedia(j) \/ RenderRaises(j)
  BY <1>3, <1>8 DEF RenderStoryboard, RenderMedia, RenderRaises, storeVars
<1> QED BY <1>5, <1>6, <1>7, <1>8

LEMMA CreateView ==
  ASSUME TypeOK, SafetyInv, ~SaveCanFail, CreateNext
  PROVE  [Lifecycle!Next]_(Lifecycle!vars)
<1>1. ASSUME NEW c \in Callers, NEW j \in Jobs, CreateCommit(c, j)
      PROVE  Lifecycle!Next
  <2> DEFINE r == creating[c].result
             job == NewJob(r, creating[c].fp)
             newTone == [tone EXCEPT ![r].job = j]
  <2>1. r \in Results /\ creating[c].fp \in Copies
    BY <1>1 DEF CreateCommit, TypeOK
  <2>2. /\ job \in VideoJob /\ job.result = r /\ job.render = "queued"
        /\ job.approval = NoJob.approval /\ job.publish = NoJob.publish
    BY <2>1 DEF NewJob, NoJob, VideoJob, RenderStatus, ApprovalStatus, PublishStatus
  <2>3. Stores(j, job, newTone) /\ jobs[j] = NoJob /\ active[r] = {}
    BY <1>1 DEF CreateCommit, CanCreate, Stores
  <2> HIDE DEF job, newTone
  <2>4. /\ ResultOf' = [ResultOf EXCEPT ![j] = r]
        /\ RenderOf' = [RenderOf EXCEPT ![j] = "queued"]
        /\ ApprovalOf' = ApprovalOf /\ PublishOf' = PublishOf
    BY <2>2, <2>3, StoredView, SameView
  <2>5. RenderOf[j] = "absent"
    BY <2>3 DEF RenderOf, NoJob
  <2>6. ~\E k \in Jobs : ResultOf[k] = r /\ RenderOf[k] \in {"queued", "processing", "completed"}
                        /\ ApprovalOf[k] # "rejected"
    <3>1. active[r] = {k \in Jobs : jobs[k].result = r /\ IsActive(jobs[k])}
      BY <2>1 DEF SafetyInv, ActiveIndexIsExact
    <3> QED BY <2>3, <3>1 DEF ResultOf, RenderOf, ApprovalOf, IsActive
  <2>7. PICK s \in Results : s = r
    BY <2>1
  <2>8. Lifecycle!Create(j, s)
    BY <2>4, <2>5, <2>6, <2>7 DEF Lifecycle!Create, Lifecycle!Active,
                                  ResultOf, RenderOf, ApprovalOf, PublishOf
  <2> QED BY <2>8, JobStep
<1>2. ASSUME NEW c \in Callers,
             CreateRefused(c) \/ \E r \in Results : CreateBegin(c, r)
      PROVE  UNCHANGED Lifecycle!vars
  BY <1>2 DEF CreateRefused, CreateBegin, storeVars, Lifecycle!vars
<1> QED BY <1>1, <1>2, CreateNext DEF CreateNext

LEMMA HandlerView ==
  ASSUME TypeOK, SafetyInv, ~SaveCanFail, HandlerNext
  PROVE  [Lifecycle!Next]_(Lifecycle!vars)
<1>1. ASSUME UNCHANGED jobs PROVE [Lifecycle!Next]_(Lifecycle!vars)
  BY <1>1 DEF Lifecycle!vars
<1>2. ASSUME NEW h \in Handlers, ApproveCommit(h)
      PROVE  [Lifecycle!Next]_(Lifecycle!vars)
  <2> DEFINE req == handler[h]
             j == req.job
             next == IF req.stage = "approve" THEN Approved(jobs[j], req)
                                              ELSE Requeued(jobs[j], req)
  <2>1. /\ req \in HandlerState /\ j \in Jobs /\ req # IdleHandler
        /\ req.stage \in {"approve", "requeue"}
        /\ req.at \in Nat /\ req.publish \in BOOLEAN /\ req.confirmed \in BOOLEAN
    BY <1>2 DEF ApproveCommit, IdleHandler, TypeOK, HandlerState
  <2>2. CASE ~NotChangedSince(jobs[j], req.snap)
    BY <1>1, <1>2, <2>2 DEF ApproveCommit, storeVars
  <2>3. CASE NotChangedSince(jobs[j], req.snap)
    <3>1. jobs[j] \in VideoJob /\ HandlerInv(req, jobs[j])
      BY <2>1 DEF SafetyInv, TypeOK
    <3>2. /\ jobs[j].render = "completed"
          /\ req.stage = "approve" => jobs[j].approval = "pending"
          /\ req.stage = "requeue" => jobs[j].publish \in Retryable
      BY <2>1, <2>3, <3>1 DEF HandlerInv, NotChangedSince
    <3>3. Stores(j, next, tone)
      BY <1>2, <2>3 DEF ApproveCommit, Stores
    <3>4. CASE req.stage = "approve"
      <4> DEFINE status == IF req.publish THEN "pending" ELSE "not_requested"
      <4> HIDE DEF req, j
      <4>1. /\ next \in VideoJob /\ next.result = jobs[j].result
            /\ next.render = jobs[j].render
            /\ next.approval = "approved" /\ next.publish = status
        BY <2>1, <3>1, <3>4 DEF Approved, VideoJob, ApprovalStatus, PublishStatus
      <4> HIDE DEF next
      <4>2. /\ ResultOf' = ResultOf /\ RenderOf' = RenderOf
            /\ ApprovalOf' = [ApprovalOf EXCEPT ![j] = "approved"]
            /\ PublishOf' = [PublishOf EXCEPT ![j] = status]
        BY <2>1, <3>3, <4>1, StoredView, SameView
      <4>3. RenderOf[j] = "completed" /\ ApprovalOf[j] = "pending"
        BY <2>1, <3>2, <3>4 DEF RenderOf, ApprovalOf
      <4>4. PICK k \in Jobs, s \in {"not_requested", "pending"} : k = j /\ s = status
        BY <2>1
      <4>5. Lifecycle!Approve(k, s)
        BY <4>2, <4>3, <4>4 DEF Lifecycle!Approve, ResultOf, RenderOf, ApprovalOf, PublishOf
      <4> QED BY <4>5, JobStep
    <3>5. CASE req.stage = "requeue"
      <4> HIDE DEF req, j
      <4>1. /\ next \in VideoJob /\ next.result = jobs[j].result
            /\ next.render = jobs[j].render
            /\ next.approval = jobs[j].approval /\ next.publish = "pending"
        BY <2>1, <3>1, <3>5 DEF Requeued, VideoJob, ApprovalStatus, PublishStatus
      <4> HIDE DEF next
      <4>2. /\ ResultOf' = ResultOf /\ RenderOf' = RenderOf /\ ApprovalOf' = ApprovalOf
            /\ PublishOf' = [PublishOf EXCEPT ![j] = "pending"]
        BY <2>1, <3>3, <4>1, StoredView, SameView
      <4>3. PublishOf[j] \in {"failed", "auth_required", "schedule_expired"}
        BY <2>1, <3>2, <3>5 DEF PublishOf, Retryable
      <4>4. PICK k \in Jobs : k = j
        BY <2>1
      <4>5. Lifecycle!Retry(k)
        BY <4>2, <4>3, <4>4 DEF Lifecycle!Retry, Lifecycle!DefiniteFailures,
                                ResultOf, RenderOf, ApprovalOf, PublishOf
      <4> QED BY <4>5, JobStep
    <3> QED BY <2>1, <3>4, <3>5
  <2> QED BY <2>2, <2>3
<1>3. ASSUME NEW h \in Handlers, NEW j \in Jobs, Reject(h, j)
      PROVE  [Lifecycle!Next]_(Lifecycle!vars)
  <2> DEFINE job == [jobs[j] EXCEPT !.approval = "rejected"]
  <2>1. /\ jobs[j].render # "absent" /\ jobs[j].approval = "pending"
        /\ Stores(j, job, tone) /\ jobs[j] \in VideoJob
    BY <1>3 DEF Reject, Rejectable, Stores, TypeOK
  <2>2. /\ job \in VideoJob /\ job.result = jobs[j].result
        /\ job.render = jobs[j].render /\ job.publish = jobs[j].publish
        /\ job.approval = "rejected"
    BY <2>1 DEF VideoJob, ApprovalStatus
  <2> HIDE DEF job
  <2>3. /\ ResultOf' = ResultOf /\ RenderOf' = RenderOf /\ PublishOf' = PublishOf
        /\ ApprovalOf' = [ApprovalOf EXCEPT ![j] = "rejected"]
    BY <2>1, <2>2, StoredView, SameView
  <2>4. RenderOf[j] # "absent" /\ ApprovalOf[j] = "pending"
    BY <2>1 DEF RenderOf, ApprovalOf
  <2>5. Lifecycle!Reject(j)
    BY <2>3, <2>4 DEF Lifecycle!Reject, ResultOf, RenderOf, ApprovalOf, PublishOf
  <2> QED BY <2>5, JobStep
<1>4. ASSUME NEW h \in Handlers,
             \/ \E j \in Jobs, at \in Requested, publish, confirmed \in BOOLEAN :
                  \/ ApproveBegin(h, j, at, publish, confirmed)
                  \/ ApproveAgain(h, j, at, publish, confirmed)
             \/ \E r \in Results, copy \in Copies : UpdateCopy(h, r, copy)
             \/ OtherSave(h)
      PROVE  UNCHANGED jobs
  BY <1>4 DEF ApproveBegin, ApproveAgain, UpdateCopy, OtherSave, storeVars
<1> QED BY <1>1, <1>2, <1>3, <1>4 DEF HandlerNext

LEMMA PublishView ==
  ASSUME TypeOK, SafetyInv, ~SaveCanFail, PublishNext
  PROVE  [Lifecycle!Next]_(Lifecycle!vars)
<1> SUFFICES ASSUME NEW j \in Jobs,
                    \/ PublishTake(j) \/ PublishIntegrity(j)
                    \/ PublishNotStarted(j) \/ PublishStart(j)
                    \/ YouTubeStores(j) \/ AnswerServerError(j)
                    \/ AnswerRefused(j) \/ AnswerUnknown(j)
                    \/ AnswerVideoId(j) \/ PublishCommit(j)
             PROVE  [Lifecycle!Next]_(Lifecycle!vars)
  BY DEF PublishNext
<1>1. CASE PublishCommit(j)
  <2> DEFINE outcome == upload[j].outcome
             job == [jobs[j] EXCEPT !.publish = outcome,
                                    !.youtubeId = (outcome = "scheduled")]
  <2>1. /\ jobs[j] \in VideoJob /\ UploadInv(jobs[j], upload[j], youtube[j])
    BY JobParts
  <2>2. /\ jobs[j].publish = "pending" /\ Stores(j, job, tone)
        /\ outcome \in PublishStatus \ {"not_requested", "pending"}
    BY <1>1, <2>1 DEF PublishCommit, UploadInv, MustUpload, Stores, NotChangedSince
  <2> HIDE DEF outcome
  <2>3. /\ job \in VideoJob /\ job.result = jobs[j].result
        /\ job.render = jobs[j].render /\ job.approval = jobs[j].approval
        /\ job.publish = outcome
    BY <2>1, <2>2 DEF VideoJob
  <2> HIDE DEF job
  <2>4. /\ ResultOf' = ResultOf /\ RenderOf' = RenderOf /\ ApprovalOf' = ApprovalOf
        /\ PublishOf' = [PublishOf EXCEPT ![j] = outcome]
    BY <2>2, <2>3, StoredView, SameView
  <2>5. PublishOf[j] = "pending"
    BY <2>2 DEF PublishOf
  <2>6. PICK o \in Lifecycle!Outcomes : o = outcome
    BY <2>2 DEF PublishStatus, Lifecycle!Outcomes
  <2>7. Lifecycle!Publish(j, o)
    BY <2>4, <2>5, <2>6 DEF Lifecycle!Publish, ResultOf, RenderOf, ApprovalOf, PublishOf
  <2> QED BY <2>7, JobStep
<1>2. CASE ~PublishCommit(j)
  <2>1. UNCHANGED jobs
    BY <1>2 DEF PublishTake, PublishIntegrity, PublishNotStarted, PublishStart,
                YouTubeStores, AnswerServerError, AnswerRefused, AnswerUnknown,
                AnswerVideoId, storeVars
  <2> QED BY <2>1 DEF Lifecycle!vars
<1> QED BY <1>1, <1>2

LEMMA RestartView ==
  ASSUME TypeOK, SafetyInv, Restart
  PROVE  [Lifecycle!Next]_(Lifecycle!vars)
<1>1. ASSUME NEW j \in Jobs
      PROVE  /\ jobs'[j].result = jobs[j].result
             /\ jobs'[j].approval = jobs[j].approval
             /\ jobs'[j].render = IF jobs[j].render \in {"queued", "processing"} THEN "failed"
                                                                                ELSE jobs[j].render
             /\ jobs'[j].publish = IF jobs[j].publish = "pending" THEN "needs_review"
                                                                 ELSE jobs[j].publish
  BY RecoveredJob
<1>2. Lifecycle!Crash
  BY <1>1 DEF Lifecycle!Crash
<1> QED BY <1>2 DEF Lifecycle!Next

\* Threads, locks, task queues, duplicate tasks and restarts show only the
\* steps of VideoLifecycle.
THEOREM WorkflowImplementsLifecycle == ASSUME ~SaveCanFail PROVE Spec => ImplementsLifecycle
<1>1. Init => Lifecycle!Init
  BY DEF Init, NoJob, Lifecycle!Init
<1>2. TypeOK /\ SafetyInv /\ [Next]_vars => [Lifecycle!Next]_(Lifecycle!vars)
  <2> SUFFICES ASSUME TypeOK, SafetyInv, [Next]_vars
               PROVE  [Lifecycle!Next]_(Lifecycle!vars)
    OBVIOUS
  <2>1. CASE Tick \/ UNCHANGED vars
    <3>1. UNCHANGED jobs
      BY <2>1 DEF Tick, vars, storeVars
    <3> QED BY <3>1 DEF Lifecycle!vars
  <2> QED BY <2>1, CreateView, RenderView, HandlerView, PublishView, RestartView DEF Next
<1> QED BY <1>1, <1>2, TypeCorrect, SafetyInvariant, PTL
        DEF Spec, ImplementsLifecycle, Lifecycle!Spec

\* A decision is final, because it is in the lifecycle.
THEOREM DecisionStays == ASSUME ~SaveCanFail PROVE Spec => DecisionIsFinal
<1>1. ASSUME TypeOK, [Lifecycle!Next]_(Lifecycle!vars)
      PROVE  \A j \in Jobs : jobs[j].approval # "pending" =>
               jobs'[j].approval = jobs[j].approval
  <2>1. ASSUME NEW j \in Jobs, ApprovalOf[j] # "pending"
        PROVE  ApprovalOf'[j] = ApprovalOf[j]
    BY <1>1, <2>1 DEF Lifecycle!Next, Lifecycle!JobNext, Lifecycle!vars, Lifecycle!Create,
           Lifecycle!Render, Lifecycle!Reject, Lifecycle!Approve, Lifecycle!Publish,
           Lifecycle!Retry, Lifecycle!Crash, ApprovalOf
  <2> QED BY <2>1 DEF ApprovalOf
<1> QED BY <1>1, TypeCorrect, WorkflowImplementsLifecycle, PTL
        DEF DecisionIsFinal, ImplementsLifecycle, Lifecycle!Spec

(***************************************************************************)
(* An approval is stored while the video shows the current copy, if one    *)
(* event loop runs the handlers: approve() checks the integrity outside    *)
(* the lock, and the copy cannot be edited before it commits, because the  *)
(* loop is still in approve().                                             *)
(***************************************************************************)
OneEventLoop == \A g, h \in Handlers : g = h

\* The handler in approve() still sees the copy that it has compared.
SeesInv ==
    \A h \in Handlers :
      handler[h] # IdleHandler => source[handler[h].snap.result] = handler[h].snap.fp

\* A step that neither edits a copy nor starts an approval keeps this.
LEMMA SeenCopyStays ==
  ASSUME SeesInv, UNCHANGED source,
         \A h \in Handlers : handler'[h] \in {handler[h], IdleHandler}
  PROVE  SeesInv'
BY DEF SeesInv

LEMMA SeesStep ==
  ASSUME TypeOK, SeesInv, OneEventLoop, [Next]_vars
  PROVE  SeesInv'
<1> USE DEF storeVars
<1>1. CASE CreateNext \/ RenderNext \/ PublishNext \/ Tick \/ UNCHANGED vars
  <2>1. CreateNext => UNCHANGED <<source, handler>>
    BY DEF CreateNext, CreateBegin, CreateRefused, CreateCommit, PersistLocked
  <2>2. RenderNext => UNCHANGED <<source, handler>>
    BY DEF RenderNext, RenderStart, RenderStoryboard, RenderMedia, RenderRaises,
           RenderFailed, RenderCompleted, RenderUnchanged, PersistLocked
  <2>3. PublishNext => UNCHANGED <<source, handler>>
    BY DEF PublishNext, PublishTake, PublishIntegrity, PublishNotStarted, PublishStart,
           YouTubeStores, AnswerServerError, AnswerRefused, AnswerUnknown,
           AnswerVideoId, PublishCommit, PublishUnchanged, PersistLocked
  <2>4. Tick \/ UNCHANGED vars => UNCHANGED <<source, handler>>
    BY DEF Tick, vars, taskVars
  <2> QED BY <1>1, <2>1, <2>2, <2>3, <2>4, SeenCopyStays
<1>2. CASE HandlerNext
  <2>1. ASSUME NEW h \in Handlers, NEW j \in Jobs, NEW at \in Requested,
               NEW publish \in BOOLEAN, NEW confirmed \in BOOLEAN,
               ApproveBegin(h, j, at, publish, confirmed)
        PROVE  SeesInv'
    <3>1. Intact(j, jobs[j])
      BY <2>1 DEF ApproveBegin, ApproveReply
    <3>2. /\ UNCHANGED source
          /\ handler'[h].snap = jobs[j]
          /\ \A g \in Handlers : g # h => handler'[g] = handler[g]
      BY <2>1 DEF ApproveBegin, TypeOK
    <3> QED BY <3>1, <3>2 DEF SeesInv, Intact
  <2>2. ASSUME NEW h \in Handlers, NEW j \in Jobs, NEW at \in Requested,
               NEW publish \in BOOLEAN, NEW confirmed \in BOOLEAN,
               ApproveAgain(h, j, at, publish, confirmed)
        PROVE  SeesInv'
    <3>1. UNCHANGED <<source, handler>>
      BY <2>2 DEF ApproveAgain
    <3> QED BY <3>1, SeenCopyStays
  <2>3. ASSUME NEW h \in Handlers, ApproveCommit(h)
        PROVE  SeesInv'
    <3>1. UNCHANGED source
      BY <2>3 DEF ApproveCommit, PersistLocked
    <3>2. \A g \in Handlers : handler'[g] \in {handler[g], IdleHandler}
      BY <2>3 DEF ApproveCommit, TypeOK
    <3> QED BY <3>1, <3>2, SeenCopyStays
  <2>4. ASSUME NEW h \in Handlers, NEW r \in Results, NEW copy \in Copies,
               UpdateCopy(h, r, copy)
        PROVE  SeesInv'
    <3>1. handler[h] = IdleHandler /\ handler' = handler
      BY <2>4 DEF UpdateCopy
    <3> QED BY <3>1 DEF OneEventLoop, SeesInv
  <2>5. ASSUME NEW h \in Handlers, NEW j \in Jobs, Reject(h, j)
        PROVE  SeesInv'
    <3>1. UNCHANGED <<source, handler>>
      BY <2>5 DEF Reject, PersistLocked
    <3> QED BY <3>1, SeenCopyStays
  <2>6. ASSUME NEW h \in Handlers, OtherSave(h)
        PROVE  SeesInv'
    <3>1. UNCHANGED <<source, handler>>
      BY <2>6 DEF OtherSave
    <3> QED BY <3>1, SeenCopyStays
  <2> QED BY <1>2, <2>1, <2>2, <2>3, <2>4, <2>5, <2>6 DEF HandlerNext
<1>3. CASE Restart
  BY <1>3 DEF Restart, NoHandlers, SeesInv
<1> QED BY <1>1, <1>2, <1>3 DEF Next

\* Nothing but the commit of approve() approves a job: a restart finds in the
\* file no approval that the memory has not.
LEMMA OnlyCommitApproves ==
  ASSUME TypeOK, FailureInv, [Next]_vars, NEW j \in Jobs,
         jobs[j].approval = "pending", jobs'[j].approval = "approved"
  PROVE  \E h \in Handlers : ApproveCommit(h)
<1>1. CASE Restart
  <2>1. /\ FileInv(jobs[j], disk.jobs[j], mp4[j], youtube[j])
        /\ disk.jobs[j] \in VideoJob
    BY LooseJobParts DEF TypeOK
  <2>2. jobs'[j] = RecoverVideoJob(disk.jobs[j])
    BY <1>1 DEF Restart
  <2>3. RecoverVideoJob(disk.jobs[j]).approval = disk.jobs[j].approval
    BY <2>1 DEF RecoverVideoJob, VideoJob
  <2> QED BY <2>1, <2>2, <2>3 DEF FileInv
<1>2. CASE StoresNone
  BY <1>2 DEF StoresNone
<1>3. ASSUME NEW i \in Jobs, NEW job \in VideoJob, StoresDecision(i, job)
      PROVE  \E h \in Handlers : ApproveCommit(h)
  <2>1. /\ jobs'[i] = [job EXCEPT !.updated = jobs[i].updated + 1]
        /\ \A k \in Jobs : k # i => jobs'[k] = jobs[k]
    BY <1>3, StoredJob DEF StoresDecision
  <2>2. jobs'[i].approval = job.approval
    BY <2>1 DEF VideoJob
  <2>3. i = j
    BY <2>1
  <2> QED BY <1>3, <2>2, <2>3 DEF StoresDecision
<1> QED BY <1>1, <1>2, <1>3, WhatIsStored

\* Whatever is approved shows the copy of its result at that moment: for every
\* number of jobs, results, copies and restarts, with one event loop.
THEOREM ApprovalIsCurrent ==
  ASSUME OneEventLoop PROVE Spec => ApprovalSeesCurrentCopy
<1>1. Init => SeesInv
  BY DEF Init, NoHandlers, SeesInv
<1>2. ASSUME TypeOK, FailureInv, SeesInv, [Next]_vars
      PROVE  \A j \in Jobs :
               jobs[j].approval = "pending" /\ jobs'[j].approval = "approved" =>
                 mp4[j] = source[jobs[j].result]
  <2> SUFFICES ASSUME NEW j \in Jobs,
                      jobs[j].approval = "pending", jobs'[j].approval = "approved"
               PROVE  mp4[j] = source[jobs[j].result]
    OBVIOUS
  <2> PICK h \in Handlers : ApproveCommit(h)
    BY <1>2, OnlyCommitApproves
  <2> DEFINE req == handler[h]
             i == req.job
  <2>1. /\ req # IdleHandler /\ i \in Jobs
        /\ NotChangedSince(jobs[i], req.snap) => HandlerInv(req, jobs[i])
    BY <1>2 DEF ApproveCommit, IdleHandler, TypeOK, HandlerState, FailureInv
  <2>2. NotChangedSince(jobs[i], req.snap) /\ i = j
    <3>1. jobs'[j] # jobs[j]
      OBVIOUS
    <3> QED BY <1>2, <2>1, <3>1 DEF ApproveCommit, PersistLocked, storeVars, TypeOK
  <2>3. req.snap = jobs[j] /\ jobs[j].render = "completed"
    BY <2>1, <2>2 DEF HandlerInv, NotChangedSince
  <2>4. mp4[j] = jobs[j].fp
    BY <1>2, <2>3, LooseJobParts DEF LooseRenderInv
  <2>5. source[jobs[j].result] = jobs[j].fp
    BY <1>2, <2>1, <2>3 DEF SeesInv
  <2> QED BY <2>4, <2>5
<1> QED BY <1>1, <1>2, SeesStep, TypeCorrect, FailureInvariant, PTL
        DEF Spec, ApprovalSeesCurrentCopy

(***************************************************************************)
(* What the shop shows, proved from the invariant and the lifecycle of the *)
(* workflow: an approved video keeps its statuses because the lifecycle    *)
(* does, and its activation time because only a retry writes it again.     *)
(* What the pages offer, the service accepts.                              *)
(***************************************************************************)

\* The statuses that a shown video needs are never given up.
LEMMA StatusesStay ==
  ASSUME TypeOK, [Lifecycle!Next]_(Lifecycle!vars), NEW j \in Jobs,
         jobs[j].render = "completed", jobs[j].approval = "approved"
  PROVE  jobs'[j].render = "completed" /\ jobs'[j].approval = "approved"
<1>1. RenderOf[j] = "completed" /\ ApprovalOf[j] = "approved"
  BY DEF RenderOf, ApprovalOf
<1>2. RenderOf'[j] = "completed" /\ ApprovalOf'[j] = "approved"
  BY <1>1 DEF Lifecycle!Next, Lifecycle!JobNext, Lifecycle!vars, Lifecycle!Create,
         Lifecycle!Render, Lifecycle!Reject, Lifecycle!Approve, Lifecycle!Publish,
         Lifecycle!Retry, Lifecycle!Crash, RenderOf, ApprovalOf
<1> QED BY <1>2 DEF RenderOf, ApprovalOf

\* Storing a job that has its activation time keeps the time of every job.
LEMMA StoredActivation ==
  ASSUME TypeOK, ~SaveCanFail, NEW i \in Jobs, NEW job \in VideoJob, NEW newTone,
         Stores(i, job, newTone), job.activation = jobs[i].activation,
         NEW j \in Jobs
  PROVE  jobs'[j].activation = jobs[j].activation
<1>1. /\ jobs'[i] = [job EXCEPT !.updated = jobs[i].updated + 1]
      /\ \A k \in Jobs : k # i => jobs'[k] = jobs[k]
  BY PersistFacts
<1>2. jobs'[i].activation = job.activation
  BY <1>1 DEF VideoJob
<1> QED BY <1>1, <1>2

\* Only the commit of a decision writes the activation time of an approved
\* job, and then it is a retry, which is counted.
LEMMA ActivationStays ==
  ASSUME TypeOK, SafetyInv, ~SaveCanFail, [Next]_vars, NEW j \in Jobs,
         jobs[j].approval = "approved", requeues'[j] = requeues[j]
  PROVE  jobs'[j].activation = jobs[j].activation
<1> USE DEF storeVars
<1>1. \A i \in Jobs : jobs[i] \in VideoJob /\ requeues[i] \in Nat
  BY DEF TypeOK
<1>2. CASE CreateNext
  <2>1. ASSUME NEW c \in Callers, NEW i \in Jobs, CreateCommit(c, i)
        PROVE  jobs'[j] = jobs[j]
    <3>1. /\ jobs[i] = NoJob
          /\ jobs'[j] = IF j = i THEN jobs'[i] ELSE jobs[j]
      BY <2>1 DEF CreateCommit, PersistLocked, TypeOK
    <3> QED BY <3>1 DEF NoJob
  <2>2. ASSUME NEW c \in Callers,
               CreateRefused(c) \/ \E r \in Results : CreateBegin(c, r)
        PROVE  UNCHANGED jobs
    BY <2>2 DEF CreateRefused, CreateBegin
  <2> QED BY <1>2, <2>1, <2>2 DEF CreateNext
<1>3. CASE RenderNext
  <2> PICK i \in Jobs :
        \/ RenderStart(i) \/ RenderStoryboard(i) \/ RenderMedia(i)
        \/ RenderRaises(i) \/ RenderFailed(i) \/ RenderCompleted(i)
    BY <1>3 DEF RenderNext
  <2>1. ASSUME NEW status \in RenderStatus, NEW newTone,
               Stores(i, [jobs[i] EXCEPT !.render = status], newTone)
        PROVE  jobs'[j].activation = jobs[j].activation
    <3> DEFINE job == [jobs[i] EXCEPT !.render = status]
    <3>1. job \in VideoJob /\ job.activation = jobs[i].activation
      BY <1>1 DEF VideoJob
    <3>2. Stores(i, job, newTone)
      BY <2>1
    <3> HIDE DEF job
    <3> QED BY <3>1, <3>2, StoredActivation
  <2>2. {"processing", "completed", "failed"} \subseteq RenderStatus
    BY DEF RenderStatus
  <2>3. CASE RenderStart(i) \/ RenderFailed(i) \/ RenderCompleted(i)
    <3>1. \/ UNCHANGED jobs
          \/ \E status \in {"processing", "completed", "failed"},
                newTone \in {tone, [tone EXCEPT ![jobs[i].result].url = i]} :
               Stores(i, [jobs[i] EXCEPT !.render = status], newTone)
      BY <2>3 DEF RenderStart, RenderFailed, RenderCompleted, Stores
    <3> QED BY <2>1, <2>2, <3>1
  <2>4. CASE RenderStoryboard(i) \/ RenderMedia(i) \/ RenderRaises(i)
    BY <2>4 DEF RenderStoryboard, RenderMedia, RenderRaises
  <2> QED BY <2>3, <2>4
<1>4. CASE HandlerNext
  <2>1. ASSUME NEW h \in Handlers, ApproveCommit(h)
        PROVE  jobs'[j] = jobs[j]
    <3> DEFINE req == handler[h]
               i == req.job
               next == IF req.stage = "approve" THEN Approved(jobs[i], req)
                                                ELSE Requeued(jobs[i], req)
    <3>1. CASE ~NotChangedSince(jobs[i], req.snap)
      BY <2>1, <3>1 DEF ApproveCommit
    <3>2. CASE NotChangedSince(jobs[i], req.snap)
      <4>1. /\ req \in HandlerState /\ i \in Jobs /\ req # IdleHandler
            /\ req.stage \in {"approve", "requeue"}
        BY <2>1 DEF ApproveCommit, IdleHandler, TypeOK, HandlerState
      <4>2. HandlerInv(req, jobs[i])
        BY <4>1 DEF SafetyInv
      <4>3. req.stage = "approve" => jobs[i].approval = "pending"
        BY <1>1, <3>2, <4>1, <4>2 DEF HandlerInv, NotChangedSince, VideoJob
      <4>4. req.stage = "requeue" => requeues'[i] = requeues[i] + 1
        BY <2>1, <3>2, <4>1 DEF ApproveCommit, TypeOK
      <4>5. i # j
        BY <1>1, <4>1, <4>3, <4>4
      <4>6. jobs'[j] = IF j = i THEN jobs'[i] ELSE jobs[j]
        BY <2>1, <3>2, <4>1 DEF ApproveCommit, PersistLocked, TypeOK
      <4> QED BY <4>5, <4>6
    <3> QED BY <3>1, <3>2
  <2>2. ASSUME NEW h \in Handlers, NEW i \in Jobs, Reject(h, i)
        PROVE  jobs'[j] = jobs[j]
    <3>1. /\ jobs[i].approval = "pending"
          /\ jobs'[j] = IF j = i THEN jobs'[i] ELSE jobs[j]
      BY <2>2 DEF Reject, Rejectable, PersistLocked, TypeOK
    <3> QED BY <3>1
  <2>3. ASSUME NEW h \in Handlers,
               \/ \E i \in Jobs, at \in Requested, publish, confirmed \in BOOLEAN :
                    \/ ApproveBegin(h, i, at, publish, confirmed)
                    \/ ApproveAgain(h, i, at, publish, confirmed)
               \/ \E r \in Results, copy \in Copies : UpdateCopy(h, r, copy)
               \/ OtherSave(h)
        PROVE  UNCHANGED jobs
    BY <2>3 DEF ApproveBegin, ApproveAgain, UpdateCopy, OtherSave
  <2> QED BY <1>4, <2>1, <2>2, <2>3 DEF HandlerNext
<1>5. CASE PublishNext
  <2> PICK i \in Jobs :
        \/ PublishTake(i) \/ PublishIntegrity(i)
        \/ PublishNotStarted(i) \/ PublishStart(i)
        \/ YouTubeStores(i) \/ AnswerServerError(i)
        \/ AnswerRefused(i) \/ AnswerUnknown(i)
        \/ AnswerVideoId(i) \/ PublishCommit(i)
    BY <1>5 DEF PublishNext
  <2>1. CASE PublishCommit(i)
    <3> DEFINE job == [jobs[i] EXCEPT !.publish = upload[i].outcome,
                         !.youtubeId = (upload[i].outcome = "scheduled")]
    <3>1. job \in VideoJob /\ job.activation = jobs[i].activation
      BY <1>1 DEF TypeOK, Upload, VideoJob
    <3>2. UNCHANGED jobs \/ Stores(i, job, tone)
      BY <2>1 DEF PublishCommit, Stores
    <3> HIDE DEF job
    <3> QED BY <3>1, <3>2, StoredActivation
  <2>2. CASE ~PublishCommit(i)
    BY <2>2 DEF PublishTake, PublishIntegrity, PublishNotStarted, PublishStart,
                YouTubeStores, AnswerServerError, AnswerRefused, AnswerUnknown,
                AnswerVideoId
  <2> QED BY <2>1, <2>2
<1>6. CASE Restart
  <2>1. jobs'[j] = RecoverVideoJob(disk.jobs[j])
    BY <1>6 DEF Restart
  <2>2. DiskInv(jobs[j], disk.jobs[j]) /\ disk.jobs[j] \in VideoJob
    BY DEF SafetyInv, JobInv, TypeOK
  <2>3. \A job \in VideoJob : RecoverVideoJob(job).activation = job.activation
    BY DEF RecoverVideoJob, VideoJob
  <2> QED BY <2>1, <2>2, <2>3 DEF DiskInv
<1>7. CASE Tick \/ UNCHANGED vars
  BY <1>7 DEF Tick, vars
<1> QED BY <1>2, <1>3, <1>4, <1>5, <1>6, <1>7 DEF Next

\* The clock does not go back.
LEMMA ClockGoesOn ==
  ASSUME TypeOK, [Next]_vars
  PROVE  now \in Nat /\ now' \in Nat /\ now <= now'
<1>1. now \in Nat
  BY DEF TypeOK
<1>2. CreateNext => now' = now
  BY DEF CreateNext, CreateBegin, CreateRefused, CreateCommit
<1>3. RenderNext => now' = now
  BY DEF RenderNext, RenderStart, RenderStoryboard, RenderMedia, RenderRaises,
         RenderFailed, RenderCompleted, RenderUnchanged
<1>4. HandlerNext => now' = now
  BY HandlerUnchanged DEF ApproveUnchanged
<1>5. PublishNext => now' = now
  BY DEF PublishNext, PublishTake, PublishIntegrity, PublishNotStarted, PublishStart,
         YouTubeStores, AnswerServerError, AnswerRefused, AnswerUnknown,
         AnswerVideoId, PublishCommit, PublishUnchanged
<1>6. Restart \/ Tick \/ UNCHANGED vars => now' = now \/ now' = now + 1
  BY DEF Restart, Tick, vars
<1> QED BY <1>1, <1>2, <1>3, <1>4, <1>5, <1>6 DEF Next

\* A video on the site stays there, for every number of jobs, threads, retries
\* and restarts, unless its upload is retried.
THEOREM ShownStaysShown == ASSUME ~SaveCanFail PROVE Spec => ExposureIsKept
<1>1. ASSUME TypeOK, SafetyInv, [Next]_vars, [Lifecycle!Next]_(Lifecycle!vars)
      PROVE  \A j \in Jobs : Shown(jobs[j], now) /\ requeues'[j] = requeues[j] =>
               Shown(jobs'[j], now')
  <2> SUFFICES ASSUME NEW j \in Jobs, Shown(jobs[j], now), requeues'[j] = requeues[j]
               PROVE  Shown(jobs'[j], now')
    OBVIOUS
  <2>1. jobs[j].render = "completed" /\ jobs[j].approval = "approved"
        /\ jobs[j].activation <= now
    BY DEF Shown
  <2>2. jobs'[j].render = "completed" /\ jobs'[j].approval = "approved"
    BY <1>1, <2>1, StatusesStay
  <2>3. jobs'[j].activation = jobs[j].activation
    BY <1>1, <2>1, ActivationStays
  <2>4. jobs[j].activation \in Nat
    BY <1>1 DEF TypeOK, VideoJob
  <2>5. now \in Nat /\ now' \in Nat /\ now <= now'
    BY <1>1, ClockGoesOn
  <2> QED BY <2>1, <2>2, <2>3, <2>4, <2>5 DEF Shown
<1> QED BY <1>1, TypeCorrect, SafetyInvariant, WorkflowImplementsLifecycle, PTL
        DEF Spec, ExposureIsKept, ImplementsLifecycle, Lifecycle!Spec

-----------------------------------------------------------------------------
(* What the pages offer.  A page finds the job of a result in the tone     *)
(* result, the service its active job in the index: the invariant ties the *)
(* two together, in memory and, for a restart, in the file.                *)

PageInv ==
    /\ disk.tone = tone
    /\ \A r \in Results : active[r] \subseteq {tone[r].job}
    /\ \A r \in Results :
         tone[r].job # None => jobs[tone[r].job].render # "absent"

\* Storing a job that does not become active, and whose result keeps its job,
\* keeps the invariant.
LEMMA StoredPage ==
  ASSUME TypeOK, SafetyInv, PageInv, ~SaveCanFail,
         NEW i \in Jobs, NEW job \in VideoJob, NEW newTone,
         Stores(i, job, newTone),
         job.result = jobs[i].result,
         IsActive(job) => IsActive(jobs[i]),
         jobs[i].render # "absent", job.render # "absent",
         \A r \in Results : newTone[r].job = tone[r].job
  PROVE  PageInv'
<1>1. /\ jobs'[i] = [job EXCEPT !.updated = jobs[i].updated + 1]
      /\ \A k \in Jobs : k # i => jobs'[k] = jobs[k]
      /\ active' = UpdateJobIndexes(active, i, job)
  BY PersistFacts
<1>2. disk'.tone = tone' /\ tone' = newTone
  <2>1. PersistLocked(i, job, newTone, TRUE)
    BY DEF Stores, SaveOutcomes
  <2> QED BY <2>1 DEF PersistLocked, Snapshot
<1>3. jobs'[i].render = job.render
  BY <1>1 DEF VideoJob
<1>4. ASSUME NEW r \in Results PROVE active'[r] \subseteq {tone'[r].job}
  <2>1. active'[r] \subseteq active[r]
    <3>1. CASE r # job.result
      BY <1>1, <3>1 DEF UpdateJobIndexes, TypeOK
    <3>2. CASE r = job.result /\ IsActive(job)
      <4>1. i \in active[r]
        BY <3>2 DEF SafetyInv, ActiveIndexIsExact
      <4> QED BY <1>1, <3>2, <4>1 DEF UpdateJobIndexes, TypeOK
    <3>3. CASE r = job.result /\ ~IsActive(job)
      BY <1>1, <3>3 DEF UpdateJobIndexes, TypeOK
    <3> QED BY <3>1, <3>2, <3>3
  <2> QED BY <1>2, <2>1 DEF PageInv
<1>5. ASSUME NEW r \in Results, tone'[r].job # None
      PROVE  jobs'[tone'[r].job].render # "absent"
  <2>1. tone[r].job \in Jobs /\ tone'[r].job = tone[r].job
    BY <1>2, <1>5 DEF TypeOK, Tone
  <2> QED BY <1>1, <1>3, <1>5, <2>1 DEF PageInv
<1> QED BY <1>2, <1>4, <1>5 DEF PageInv

LEMMA CreatePage ==
  ASSUME TypeOK, SafetyInv, PageInv, ~SaveCanFail,
         NEW c \in Callers, NEW i \in Jobs, CreateCommit(c, i)
  PROVE  PageInv'
<1> DEFINE r == creating[c].result
           job == NewJob(r, creating[c].fp)
           newTone == [tone EXCEPT ![r].job = i]
<1>1. r \in Results /\ creating[c].fp \in Copies /\ active[r] = {}
  BY DEF CreateCommit, CanCreate, TypeOK
<1>2. job \in VideoJob /\ job.result = r /\ job.render = "queued"
  BY <1>1 DEF NewJob, NoJob, VideoJob, RenderStatus, ApprovalStatus, PublishStatus
<1>3. Stores(i, job, newTone)
  BY DEF CreateCommit, Stores
<1>4. newTone \in [Results -> Tone] /\ newTone[r].job = i
      /\ \A s \in Results : s # r => newTone[s] = tone[s]
  BY <1>1 DEF TypeOK, Tone
<1> HIDE DEF job, newTone, r
<1>5. /\ jobs'[i] = [job EXCEPT !.updated = jobs[i].updated + 1]
      /\ \A k \in Jobs : k # i => jobs'[k] = jobs[k]
      /\ active' = UpdateJobIndexes(active, i, job)
  BY <1>2, <1>3, PersistFacts
<1>6. disk'.tone = tone' /\ tone' = newTone
  <2>1. PersistLocked(i, job, newTone, TRUE)
    BY <1>3 DEF Stores, SaveOutcomes
  <2> QED BY <2>1 DEF PersistLocked, Snapshot
<1>7. jobs'[i].render = "queued"
  BY <1>2, <1>5 DEF VideoJob
<1>8. ASSUME NEW s \in Results PROVE active'[s] \subseteq {tone'[s].job}
  <2>1. active'[s] \subseteq IF s = r THEN {i} ELSE active[s]
    BY <1>1, <1>2, <1>5 DEF UpdateJobIndexes, TypeOK
  <2> QED BY <1>4, <1>6, <2>1 DEF PageInv
<1>9. ASSUME NEW s \in Results, tone'[s].job # None
      PROVE  jobs'[tone'[s].job].render # "absent"
  <2>1. CASE tone'[s].job = i
    BY <1>7, <2>1
  <2>2. CASE tone'[s].job # i
    <3>1. tone'[s].job = tone[s].job /\ tone[s].job \in Jobs
      BY <1>4, <1>6, <1>9, <2>2 DEF TypeOK, Tone
    <3> QED BY <1>5, <1>9, <2>2, <3>1 DEF PageInv
  <2> QED BY <2>1, <2>2
<1> QED BY <1>6, <1>8, <1>9 DEF PageInv

LEMMA RenderPage ==
  ASSUME TypeOK, SafetyInv, PageInv, ~SaveCanFail, RenderNext
  PROVE  PageInv'
<1> USE DEF storeVars
<1> PICK i \in Jobs :
      \/ RenderStart(i) \/ RenderStoryboard(i) \/ RenderMedia(i)
      \/ RenderRaises(i) \/ RenderFailed(i) \/ RenderCompleted(i)
  BY DEF RenderNext
<1>1. jobs[i] \in VideoJob /\ RenderInv(jobs[i], render[i], mp4[i])
  BY JobParts
<1>2. ASSUME NEW status \in {"processing", "completed", "failed"}, NEW newTone,
             Stores(i, [jobs[i] EXCEPT !.render = status], newTone),
             jobs[i].render \in {"queued", "processing"},
             \A r \in Results : newTone[r].job = tone[r].job
      PROVE  PageInv'
  <2> DEFINE job == [jobs[i] EXCEPT !.render = status]
  <2>1. /\ job \in VideoJob /\ job.result = jobs[i].result /\ job.render = status
        /\ job.approval = jobs[i].approval
    BY <1>1 DEF VideoJob, RenderStatus
  <2>2. Stores(i, job, newTone)
    BY <1>2
  <2> HIDE DEF job
  <2>3. IsActive(job) => IsActive(jobs[i])
    BY <1>2, <2>1 DEF IsActive
  <2> QED BY <1>2, <2>1, <2>2, <2>3, StoredPage
<1>3. CASE UNCHANGED storeVars
  BY <1>3 DEF PageInv
<1>4. \A r \in Results : [tone EXCEPT ![jobs[i].result].url = i][r].job = tone[r].job
  BY DEF TypeOK, Tone
<1>5. CASE RenderStart(i)
  BY <1>1, <1>2, <1>3, <1>5 DEF RenderStart, RenderInv, Stores
<1>6. CASE RenderFailed(i)
  BY <1>1, <1>2, <1>6 DEF RenderFailed, RenderInv, Stores
<1>7. CASE RenderCompleted(i)
  <2>1. jobs[i].render = "processing"
    BY <1>1, <1>7 DEF RenderCompleted, RenderInv
  <2>2. Stores(i, [jobs[i] EXCEPT !.render = "completed"], [tone EXCEPT ![jobs[i].result].url = i])
    BY <1>7, <2>1 DEF RenderCompleted, Stores
  <2> QED BY <1>2, <1>4, <2>1, <2>2
<1>8. CASE RenderStoryboard(i) \/ RenderMedia(i) \/ RenderRaises(i)
  BY <1>3, <1>8 DEF RenderStoryboard, RenderMedia, RenderRaises
<1> QED BY <1>5, <1>6, <1>7, <1>8

LEMMA HandlerPage ==
  ASSUME TypeOK, SafetyInv, PageInv, ~SaveCanFail, HandlerNext
  PROVE  PageInv'
<1> USE DEF storeVars
<1>1. ASSUME NEW h \in Handlers, ApproveCommit(h)
      PROVE  PageInv'
  <2> DEFINE req == handler[h]
             i == req.job
             next == IF req.stage = "approve" THEN Approved(jobs[i], req)
                                              ELSE Requeued(jobs[i], req)
  <2>1. /\ req \in HandlerState /\ i \in Jobs /\ req # IdleHandler
        /\ req.at \in Nat /\ req.publish \in BOOLEAN /\ req.confirmed \in BOOLEAN
        /\ req.stage \in {"approve", "requeue"}
    BY <1>1 DEF ApproveCommit, IdleHandler, TypeOK, HandlerState
  <2>2. CASE ~NotChangedSince(jobs[i], req.snap)
    BY <1>1, <2>2 DEF ApproveCommit, PageInv
  <2>3. CASE NotChangedSince(jobs[i], req.snap)
    <3>1. jobs[i] \in VideoJob /\ HandlerInv(req, jobs[i])
      BY <2>1 DEF SafetyInv, TypeOK
    <3>2. /\ jobs[i].render = "completed"
          /\ jobs[i].approval \in {"pending", "approved"}
      BY <2>1, <2>3, <3>1 DEF HandlerInv, NotChangedSince
    <3>3. Stores(i, next, tone)
      BY <1>1, <2>3 DEF ApproveCommit, Stores
    <3> HIDE DEF req, i
    <3>4. /\ next \in VideoJob /\ next.result = jobs[i].result
          /\ next.render = jobs[i].render
      BY <2>1, <3>1 DEF Approved, Requeued, VideoJob, ApprovalStatus, PublishStatus
    <3> HIDE DEF next
    <3>5. IsActive(jobs[i])
      BY <3>2 DEF IsActive
    <3> QED BY <2>1, <3>2, <3>3, <3>4, <3>5, StoredPage
  <2> QED BY <2>2, <2>3
<1>2. ASSUME NEW h \in Handlers, NEW i \in Jobs, Reject(h, i)
      PROVE  PageInv'
  <2> DEFINE job == [jobs[i] EXCEPT !.approval = "rejected"]
  <2>1. /\ jobs[i].render # "absent" /\ jobs[i] \in VideoJob
        /\ Stores(i, job, tone)
    BY <1>2 DEF Reject, Rejectable, Stores, TypeOK
  <2>2. /\ job \in VideoJob /\ job.result = jobs[i].result
        /\ job.render = jobs[i].render /\ ~IsActive(job)
    BY <2>1 DEF VideoJob, ApprovalStatus, IsActive
  <2> HIDE DEF job
  <2> QED BY <2>1, <2>2, StoredPage
<1>3. ASSUME NEW h \in Handlers, NEW r \in Results, NEW copy \in Copies,
             UpdateCopy(h, r, copy)
      PROVE  PageInv'
  <2>1. disk' = Snapshot(jobs, tone, source')
    BY <1>3 DEF UpdateCopy, SaveOutcomes
  <2>2. UNCHANGED <<jobs, active, tone>>
    BY <1>3 DEF UpdateCopy
  <2> QED BY <2>1, <2>2 DEF PageInv, Snapshot
<1>4. ASSUME NEW h \in Handlers, NEW i \in Jobs, NEW at, NEW publish, NEW confirmed,
             \/ ApproveBegin(h, i, at, publish, confirmed)
             \/ ApproveAgain(h, i, at, publish, confirmed)
      PROVE  PageInv'
  <2>1. UNCHANGED storeVars
    BY <1>4 DEF ApproveBegin, ApproveAgain
  <2> QED BY <2>1 DEF PageInv
<1>5. ASSUME NEW h \in Handlers, OtherSave(h)
      PROVE  PageInv'
  BY <1>5 DEF OtherSave, PageInv, Snapshot
<1> QED BY <1>1, <1>2, <1>3, <1>4, <1>5 DEF HandlerNext

LEMMA PublishPage ==
  ASSUME TypeOK, SafetyInv, PageInv, ~SaveCanFail, PublishNext
  PROVE  PageInv'
<1> USE DEF storeVars
<1> PICK i \in Jobs :
      \/ PublishTake(i) \/ PublishIntegrity(i)
      \/ PublishNotStarted(i) \/ PublishStart(i)
      \/ YouTubeStores(i) \/ AnswerServerError(i)
      \/ AnswerRefused(i) \/ AnswerUnknown(i)
      \/ AnswerVideoId(i) \/ PublishCommit(i)
  BY DEF PublishNext
<1>1. CASE PublishCommit(i)
  <2> DEFINE job == [jobs[i] EXCEPT !.publish = upload[i].outcome,
                       !.youtubeId = (upload[i].outcome = "scheduled")]
  <2>1. /\ jobs[i] \in VideoJob /\ JobShape(jobs[i])
        /\ UploadInv(jobs[i], upload[i], youtube[i])
    BY JobParts
  <2>2. /\ jobs[i].render = "completed" /\ jobs[i].approval = "approved"
        /\ Stores(i, job, tone)
    BY <1>1, <2>1 DEF PublishCommit, UploadInv, MustUpload, JobShape, Stores, NotChangedSince
  <2>3. /\ job \in VideoJob /\ job.result = jobs[i].result
        /\ job.render = jobs[i].render
    BY <2>1 DEF TypeOK, Upload, VideoJob
  <2> HIDE DEF job
  <2>4. IsActive(jobs[i])
    BY <2>2 DEF IsActive
  <2> QED BY <2>2, <2>3, <2>4, StoredPage
<1>2. CASE ~PublishCommit(i)
  <2>1. UNCHANGED storeVars
    BY <1>2 DEF PublishTake, PublishIntegrity, PublishNotStarted, PublishStart,
                YouTubeStores, AnswerServerError, AnswerRefused, AnswerUnknown,
                AnswerVideoId
  <2> QED BY <2>1 DEF PageInv
<1> QED BY <1>1, <1>2

LEMMA RestartPage ==
  ASSUME TypeOK, SafetyInv, PageInv, Restart
  PROVE  PageInv'
<1>1. ASSUME NEW j \in Jobs
      PROVE  /\ jobs'[j].result = jobs[j].result
             /\ jobs'[j].render = "absent" => jobs[j].render = "absent"
             /\ IsActive(jobs'[j]) => IsActive(jobs[j])
  BY RecoveredJob DEF IsActive
<1>2. tone' = tone /\ disk' = disk
      /\ active' = [r \in Results |-> {j \in Jobs : jobs'[j].result = r /\ IsActive(jobs'[j])}]
  BY DEF Restart, PageInv, InitializeJobIndexes
<1>3. ASSUME NEW r \in Results PROVE active'[r] \subseteq active[r]
  <2>1. active[r] = {j \in Jobs : jobs[j].result = r /\ IsActive(jobs[j])}
    BY DEF SafetyInv, ActiveIndexIsExact
  <2> QED BY <1>1, <1>2, <2>1
<1>4. ASSUME NEW r \in Results, tone'[r].job # None
      PROVE  jobs'[tone'[r].job].render # "absent"
  BY <1>1, <1>2, <1>4 DEF PageInv, TypeOK, Tone
<1> QED BY <1>2, <1>3, <1>4 DEF PageInv

\* What a page shows of a result is its only job that can be active.
LEMMA PageInvariant == ASSUME ~SaveCanFail PROVE Spec => []PageInv
<1>1. Init => PageInv
  BY DEF Init, PageInv, Snapshot
<1>2. TypeOK /\ SafetyInv /\ PageInv /\ [Next]_vars => PageInv'
  <2> SUFFICES ASSUME TypeOK, SafetyInv, PageInv, [Next]_vars PROVE PageInv'
    OBVIOUS
  <2>1. CASE CreateNext
    <3>1. ASSUME NEW c \in Callers,
                 CreateRefused(c) \/ \E r \in Results : CreateBegin(c, r)
          PROVE  PageInv'
      BY <3>1 DEF CreateRefused, CreateBegin, storeVars, PageInv
    <3> QED BY <2>1, <3>1, CreatePage DEF CreateNext
  <2>2. CASE Tick \/ UNCHANGED vars
    BY <2>2 DEF Tick, vars, storeVars, PageInv
  <2> QED BY <2>1, <2>2, RenderPage, HandlerPage, PublishPage, RestartPage DEF Next
<1> QED BY <1>1, <1>2, TypeCorrect, SafetyInvariant, PTL DEF Spec

\* The pages offer only what the service accepts, for every number of jobs,
\* threads and restarts, as long as the copy was not edited.
THEOREM OffersHold == ASSUME ~SaveCanFail PROVE Spec => []OffersAreAccepted
<1>1. TypeOK /\ SafetyInv /\ PageInv => OffersAreAccepted
  <2> SUFFICES ASSUME TypeOK, SafetyInv, PageInv, NEW r \in Results
               PROVE  /\ OffersCreate(r) => CanCreate(r)
                      /\ tone[r].job # None =>
                           LET j == tone[r].job
                               Reply(at, publish, confirmed) ==
                                   ApproveReply(j, jobs[j], at, publish, confirmed)
                           IN  /\ OffersReject(jobs[j]) => Rejectable(jobs[j])
                               /\ ~Edited(jobs[j]) =>
                                    \A at \in {t \in Requested : ScheduleValid(t)} :
                                    \A tick \in BOOLEAN :
                                      /\ OffersApprove(jobs[j], tick) =>
                                           \A publish \in BOOLEAN :
                                               Reply(at, publish, tick) = "approve"
                                      /\ OffersSubmit(jobs[j], tick) =>
                                           Reply(at, TRUE,
                                                 NeedsPronunciationConfirmation(jobs[j]) => tick)
                                             = IF CanRetryPublish(jobs[j]) THEN "requeue"
                                                                           ELSE "approve"
    BY DEF OffersAreAccepted
  <2>1. OffersCreate(r) => CanCreate(r)
    <3>1. /\ active[r] \subseteq {tone[r].job} /\ active[r] \subseteq Jobs
          /\ \A j \in active[r] : IsActive(jobs[j])
      BY DEF PageInv, SafetyInv, ActiveIndexIsExact
    <3>2. tone[r].job = None => active[r] = {}
      BY <3>1, NoneAssumption
    <3>3. ~IsActive(jobs[tone[r].job]) => active[r] = {}
      BY <3>1
    <3>4. VideoViewKind(jobs[tone[r].job]) = "failed" => ~IsActive(jobs[tone[r].job])
      BY DEF VideoViewKind, IsActive
    <3> QED BY <3>2, <3>3, <3>4 DEF OffersCreate, CanCreate
  <2> SUFFICES ASSUME NEW j \in Jobs, j = tone[r].job, jobs[j].render # "absent",
                      jobs[j] \in VideoJob
               PROVE  /\ OffersReject(jobs[j]) => Rejectable(jobs[j])
                      /\ ~Edited(jobs[j]) =>
                           \A at \in {t \in Requested : ScheduleValid(t)} :
                           \A tick \in BOOLEAN :
                             /\ OffersApprove(jobs[j], tick) =>
                                  \A publish \in BOOLEAN :
                                      ApproveReply(j, jobs[j], at, publish, tick) = "approve"
                             /\ OffersSubmit(jobs[j], tick) =>
                                  ApproveReply(j, jobs[j], at, TRUE,
                                        NeedsPronunciationConfirmation(jobs[j]) => tick)
                                    = IF CanRetryPublish(jobs[j]) THEN "requeue"
                                                                  ELSE "approve"
    <3>1. tone[r].job # None => /\ tone[r].job \in Jobs
                                /\ jobs[tone[r].job] \in VideoJob
                                /\ jobs[tone[r].job].render # "absent"
      BY DEF PageInv, TypeOK, Tone
    <3> QED BY <2>1, <3>1
  <2> DEFINE job == jobs[j]
  <2>2. /\ job.render \in {"queued", "processing", "completed", "failed"}
        /\ job.approval \in {"pending", "approved", "rejected"}
    BY DEF VideoJob, RenderStatus, ApprovalStatus
  <2>3. VideoViewKind(job) \in {"review", "pronunciation_review"} =>
          /\ job.render = "completed" /\ job.approval = "pending"
          /\ VideoViewKind(job) = "review" => job.result \notin NeedsReview
    BY <2>2 DEF VideoViewKind
  <2>4. job.render = "completed" /\ ~Edited(job) => Intact(j, job)
    <3>1. JobShape(job) /\ RenderInv(job, render[j], mp4[j])
      BY JobParts
    <3> QED BY <3>1, NoneAssumption DEF JobShape, RenderInv, Edited, Intact
  <2> HIDE DEF job
  <2>5. OffersReject(job) => Rejectable(job)
    BY <2>3 DEF OffersReject, Rejectable
  <2>6. ASSUME NEW at \in Requested, ScheduleValid(at), ~Edited(job),
               NEW tick \in BOOLEAN, NEW publish \in BOOLEAN, OffersApprove(job, tick)
        PROVE  ApproveReply(j, job, at, publish, tick) = "approve"
    BY <2>3, <2>4, <2>6 DEF OffersApprove, ApproveReply
  <2>7. ASSUME NEW at \in Requested, ScheduleValid(at), ~Edited(job),
               NEW tick \in BOOLEAN, OffersSubmit(job, tick)
        PROVE  ApproveReply(j, job, at, TRUE, NeedsPronunciationConfirmation(job) => tick)
                 = IF CanRetryPublish(job) THEN "requeue" ELSE "approve"
    <3>1. /\ job.render = "completed" /\ Intact(j, job)
          /\ job.approval = "pending" \/ CanRetryPublish(job)
          /\ job.result \in NeedsReview =>
               job.reviewed \/ (NeedsPronunciationConfirmation(job) => tick)
      BY <2>4, <2>7 DEF OffersSubmit, CanSubmitPublish, NeedsPronunciationConfirmation
    <3>2. CASE CanRetryPublish(job)
      BY <2>7, <3>1, <3>2 DEF CanRetryPublish, ApproveReply, Retryable
    <3>3. CASE ~CanRetryPublish(job)
      BY <2>7, <3>1, <3>3 DEF ApproveReply
    <3> QED BY <3>2, <3>3
  <2> QED BY <2>5, <2>6, <2>7 DEF job
<1> QED BY <1>1, TypeCorrect, SafetyInvariant, PageInvariant, PTL
=============================================================================
