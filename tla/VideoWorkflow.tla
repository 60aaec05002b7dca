--------------------------- MODULE VideoWorkflow ---------------------------
(***************************************************************************)
(* The shorts workflow of the backend: VideoWorkflowService                *)
(* (app/backend/services/video_workflow.py), the handlers that call it     *)
(* (app/backend/api/videos.py), the publisher it uploads with              *)
(* (youtube_publisher.py) and what store.py keeps of it over a restart.    *)
(*                                                                         *)
(* Actors.  A worker thread serves each POST /videos (create); one         *)
(* background thread per queued task runs run_render or run_publish; the   *)
(* event loop runs approve, reject and the copy editor, which never await  *)
(* and so exclude each other: it is the single element of Handlers.  The   *)
(* service itself takes locks and compares updated_at, so it is also       *)
(* checked, and proved, for any number of handler threads.                 *)
(*                                                                         *)
(* Granularity.  One action is one region under _state_lock, or one read   *)
(* of shared state outside it.  The index of terminal jobs that drives the *)
(* deletion of work directories is in VideoFiles; the store file's own     *)
(* write is one step here and is taken apart in StorePersistence.          *)
(***************************************************************************)
EXTENDS Integers, FiniteSets

CONSTANTS
    Jobs,           \* video_job_id values that uuid4 may produce
    Results,        \* result_id values: tone results in HISTORY
    Callers,        \* worker threads serving POST /videos
    Handlers,       \* threads running approve, reject and update_copy
    Copies,         \* contents of a result, as its fingerprint tells them apart
    None,           \* Python's None
    NeedsReview,    \* results whose product name needs a pronunciation review
    Requested,      \* activation times that clients ask for
    Window,         \* times inside the rush-hour window of the job's slot
    Lead,           \* MINIMUM_LEAD_TIME
    SaveCanFail,    \* TRUE: store.save() may raise
    LostAnswers,    \* TRUE: YouTube may answer 5xx to an upload it has stored
    MaxNow,         \* bound on the clock
    MaxRequeues,    \* bound on the retries a user asks for, per job
    MaxPublishTasks,\* bound on the publish tasks waiting for one job
    MaxRestarts     \* bound on process restarts

ASSUME NoneAssumption ==
    /\ None \notin Jobs
    /\ None \notin Results
    /\ None \notin Copies
ASSUME ReviewAssumption == NeedsReview \subseteq Results
ASSUME TimeAssumption ==
    /\ Requested \subseteq Nat \ {0}
    /\ Window \subseteq Nat
    /\ Lead \in Nat
ASSUME FlagAssumption == SaveCanFail \in BOOLEAN /\ LostAnswers \in BOOLEAN
ASSUME BoundAssumption ==
    /\ MaxNow \in Nat
    /\ MaxRequeues \in Nat
    /\ MaxPublishTasks \in Nat \ {0}
    /\ MaxRestarts \in Nat

VARIABLES
    jobs,       \* store.VIDEO_JOBS in memory; a job not yet created is NoJob
    active,     \* _active_job_ids_by_result
    tone,       \* video_job_id and video_url of each tone result in HISTORY
    source,     \* the content of each tone result and its product
    mp4,        \* the copy that the final file of each job was rendered from
    disk,       \* what the last successful store.save() wrote
    creating,   \* requests inside create(): the storyboard each has built
    render,     \* the run_render task of each job
    waiting,    \* how many run_publish tasks wait for each job
    upload,     \* the run_publish that holds _publish_lock, per job
    handler,    \* what each handler thread is doing
    now,        \* the clock
    youtube,    \* videos YouTube stores for each job
    sessions,   \* upload sessions started for each job
    requeues,   \* retries a user asked for, per job
    restarts

storeVars == <<jobs, active, tone, source, disk>>
taskVars == <<creating, render, waiting, upload, handler>>
historyVars == <<sessions, requeues, restarts>>
vars == <<storeVars, mp4, taskVars, now, youtube, historyVars>>

(***************************************************************************)
(* Data.                                                                   *)
(***************************************************************************)
RenderStatus == {"absent", "queued", "processing", "completed", "failed"}
ApprovalStatus == {"pending", "approved", "rejected"}
PublishStatus == {"not_requested", "pending", "scheduled", "failed",
                  "auth_required", "needs_review", "schedule_expired"}

\* RETRYABLE_PUBLISH_STATUSES
Retryable == {"failed", "auth_required", "schedule_expired"}

\* updated_at is a version: every write reads a clock that has moved on.
VideoJob ==
    [result : Results \cup {None}, fp : Copies \cup {None},
     render : RenderStatus, approval : ApprovalStatus, publish : PublishStatus,
     activation : Nat, reviewed : BOOLEAN, youtubeId : BOOLEAN, updated : Nat]

NoJob ==
    [result |-> None, fp |-> None, render |-> "absent",
     approval |-> "pending", publish |-> "not_requested",
     activation |-> 0, reviewed |-> FALSE, youtubeId |-> FALSE, updated |-> 0]

NewJob(r, copy) ==
    [NoJob EXCEPT !.result = r, !.fp = copy, !.render = "queued"]

Tone == [job : Jobs \cup {None}, url : Jobs \cup {None}]

IdleCreate == [result |-> None, fp |-> None]
IdleHandler == [stage |-> "idle", job |-> None, snap |-> NoJob,
                at |-> 0, publish |-> FALSE, confirmed |-> FALSE]
IdleUpload == [stage |-> "idle", snap |-> NoJob, stored |-> "no",
               tries |-> 0, outcome |-> "pending"]

IsActive(job) ==
    /\ job.render \notin {"absent", "failed"}
    /\ job.approval # "rejected"

\* How often publish() sends a chunk again after a 5xx answer
MaxRetries == 2

RenderStage == {"none", "queued", "storyboard", "media", "rendered", "raised"}

\* board: the storyboard that the task has read, by its fingerprint
RenderTask == [stage : RenderStage, board : Copies \cup {None}]
NoRender == [stage |-> "none", board |-> None]
QueuedRender == [stage |-> "queued", board |-> None]

UploadStage == {"idle", "integrity", "request", "uploading", "done"}

HandlerState ==
    [stage : {"approve", "requeue"}, job : Jobs, snap : VideoJob,
     at : Nat, publish : BOOLEAN, confirmed : BOOLEAN]

Upload == [stage : UploadStage, snap : VideoJob,
           stored : {"no", "yes", "lost"}, tries : 0..MaxRetries,
           outcome : PublishStatus]

(***************************************************************************)
(* Persistence: _persist_locked stores the job in memory, saves, and only  *)
(* then brings the index up to date.  A save that raises leaves the job    *)
(* changed in memory and the index and the file behind.                    *)
(***************************************************************************)
SaveOutcomes == IF SaveCanFail THEN BOOLEAN ELSE {TRUE}

Snapshot(newJobs, newTone, newSource) ==
    [jobs |-> newJobs, tone |-> newTone, source |-> newSource]

\* Mutated form: a job that is no longer active stays in the index.
UpdateJobIndexesNoDiscard(index, j, job) ==
    [index EXCEPT ![job.result] = IF IsActive(job) THEN @ \cup {j} ELSE @]

UpdateJobIndexes(index, j, job) ==
    [index EXCEPT ![job.result] = IF IsActive(job) THEN @ \cup {j} ELSE @ \ {j}]

PersistLocked(j, job, newTone, saved) ==
    /\ jobs' = [jobs EXCEPT ![j] = [job EXCEPT !.updated = jobs[j].updated + 1]]
    /\ tone' = newTone
    /\ active' = IF saved THEN UpdateJobIndexes(active, j, job) ELSE active
    /\ disk' = IF saved THEN Snapshot(jobs', newTone, source) ELSE disk
    /\ UNCHANGED source

(***************************************************************************)
(* create().  The storyboard, and with it the fingerprint, is built before *)
(* the lock is taken; the check for an active job and the new record are   *)
(* one region under the lock.  The run_render task is queued only when     *)
(* create() returns.                                                       *)
(***************************************************************************)
CreateBegin(c, r) ==
    /\ creating[c] = IdleCreate
    \* uuid4 never runs out: leave an identifier for every open request
    /\ Cardinality({j \in Jobs : jobs[j] = NoJob})
         > Cardinality({d \in Callers : creating[d] # IdleCreate})
    /\ creating' = [creating EXCEPT ![c] = [result |-> r, fp |-> source[r]]]
    /\ UNCHANGED <<storeVars, mp4, render, waiting, upload, handler, now,
                   youtube, historyVars>>

\* Mutated form: the index is not looked at.
CanCreateAlways(r) == TRUE

CanCreate(r) == active[r] = {}

CreateRefused(c) ==
    /\ creating[c] # IdleCreate
    /\ ~CanCreate(creating[c].result)
    /\ creating' = [creating EXCEPT ![c] = IdleCreate]
    /\ UNCHANGED <<storeVars, mp4, render, waiting, upload, handler, now,
                   youtube, historyVars>>

CreateCommit(c, j) ==
    LET r == creating[c].result
    IN  /\ creating[c] # IdleCreate
        /\ CanCreate(r)
        /\ jobs[j] = NoJob
        /\ \E saved \in SaveOutcomes :
             /\ PersistLocked(j, NewJob(r, creating[c].fp),
                              [tone EXCEPT ![r].job = j], saved)
             /\ render' = IF saved THEN [render EXCEPT ![j] = QueuedRender]
                                   ELSE render
        /\ creating' = [creating EXCEPT ![c] = IdleCreate]
        /\ UNCHANGED <<mp4, waiting, upload, handler, now, youtube, historyVars>>

(***************************************************************************)
(* run_render().  "queued" waits for _render_lock; every later stage holds *)
(* it.  The pipeline may raise before the final file is in place, and then *)
(* the job is FAILED; after that only the commit is left.                  *)
(***************************************************************************)
HoldsRenderLock(j) == render[j].stage \notin {"none", "queued"}

RenderUnchanged ==
    UNCHANGED <<creating, waiting, upload, handler, now, youtube, historyVars>>

RenderStart(j) ==
    /\ render[j].stage = "queued"
    /\ \A k \in Jobs : ~HoldsRenderLock(k)
    /\ IF jobs[j].render = "queued"
         THEN \E saved \in SaveOutcomes :
                /\ PersistLocked(j, [jobs[j] EXCEPT !.render = "processing"],
                                 tone, saved)
                /\ render' = [render EXCEPT ![j].stage =
                                IF saved THEN "storyboard" ELSE "none"]
         ELSE /\ render' = [render EXCEPT ![j] = NoRender]
              /\ UNCHANGED storeVars
    /\ UNCHANGED mp4
    /\ RenderUnchanged

\* Mutated form: the render does not compare the fingerprints.
SameFingerprintUnchecked(board, job) == TRUE

SameFingerprint(board, job) == board = job.fp

\* The storyboard is built again and must have the fingerprint of the job.
RenderStoryboard(j) ==
    LET board == source[jobs[j].result]
    IN  /\ render[j].stage = "storyboard"
        /\ SameFingerprint(board, jobs[j])
        /\ render' = [render EXCEPT ![j] = [stage |-> "media", board |-> board]]
        /\ UNCHANGED <<storeVars, mp4>>
        /\ RenderUnchanged

\* Scene images, speech and ffmpeg work on the storyboard read before.
RenderMedia(j) ==
    /\ render[j].stage = "media"
    /\ render' = [render EXCEPT ![j].stage = "rendered"]
    /\ mp4' = [mp4 EXCEPT ![j] = render[j].board]
    /\ UNCHANGED storeVars
    /\ RenderUnchanged

\* A changed source, a missing runtime or any other error of the pipeline.
RenderRaises(j) ==
    /\ render[j].stage \in {"storyboard", "media"}
    /\ render' = [render EXCEPT ![j].stage = "raised"]
    /\ UNCHANGED <<storeVars, mp4>>
    /\ RenderUnchanged

RenderFailed(j) ==
    /\ render[j].stage = "raised"
    /\ \E saved \in SaveOutcomes :
         PersistLocked(j, [jobs[j] EXCEPT !.render = "failed"], tone, saved)
    /\ render' = [render EXCEPT ![j] = NoRender]
    /\ UNCHANGED mp4
    /\ RenderUnchanged

RenderCompleted(j) ==
    /\ render[j].stage = "rendered"
    /\ IF jobs[j].render = "processing"
         THEN \E saved \in SaveOutcomes :
                PersistLocked(j, [jobs[j] EXCEPT !.render = "completed"],
                              [tone EXCEPT ![jobs[j].result].url = j], saved)
         ELSE UNCHANGED storeVars
    /\ render' = [render EXCEPT ![j] = NoRender]
    /\ UNCHANGED mp4
    /\ RenderUnchanged

(***************************************************************************)
(* approve().  A snapshot of the job is read under the lock; the schedule, *)
(* the metadata and the integrity of source and file are checked outside   *)
(* it; the commit compares updated_at with the snapshot.                   *)
(***************************************************************************)
ScheduleValid(at) == at >= now + Lead /\ at \in Window

\* Mutated form: only the file is checked.
IntactFileOnly(j, job) == mp4[j] # None

\* The source still has the fingerprint, and the file is the one rendered.
Intact(j, job) == source[job.result] = job.fp /\ mp4[j] # None

SameRequest(job, at, publish) ==
    /\ job.activation = at
    /\ (job.publish # "not_requested") = publish

\* What approve() answers from its snapshot; a refusal is a 404, 409 or 422.
ApproveReply(j, job, at, publish, confirmed) ==
    LET checked == /\ job.render = "completed"
                   /\ job.approval # "rejected"
                   /\ ScheduleValid(at)
                   /\ job.result \in NeedsReview => job.reviewed \/ confirmed
                   /\ Intact(j, job)
    IN  CASE checked /\ job.approval = "pending" -> "approve"
          [] /\ checked /\ job.approval = "approved"
             /\ job.publish \in Retryable /\ publish -> "requeue"
          [] /\ checked /\ job.approval = "approved"
             /\ job.publish \in {"not_requested", "pending", "scheduled"}
             /\ SameRequest(job, at, publish) -> "same"
          [] OTHER -> "refused"

ApproveUnchanged == UNCHANGED <<mp4, creating, render, upload, now, youtube,
                                sessions, restarts>>

ApproveBegin(h, j, at, publish, confirmed) ==
    LET reply == ApproveReply(j, jobs[j], at, publish, confirmed)
    IN  /\ handler[h] = IdleHandler
        /\ reply \in {"approve", "requeue"}
        /\ reply = "requeue" => requeues[j] < MaxRequeues
        /\ handler' = [handler EXCEPT ![h] =
                         [stage |-> reply, job |-> j, snap |-> jobs[j],
                          at |-> at, publish |-> publish,
                          confirmed |-> confirmed /\ jobs[j].result \in NeedsReview]]
        /\ UNCHANGED <<storeVars, waiting, requeues>>
        /\ ApproveUnchanged

\* The same request again: the snapshot is returned, and approve_video queues
\* another run_publish when it is still pending.
ApproveAgain(h, j, at, publish, confirmed) ==
    /\ handler[h] = IdleHandler
    /\ ApproveReply(j, jobs[j], at, publish, confirmed) = "same"
    /\ jobs[j].publish = "pending"
    /\ waiting[j] < MaxPublishTasks
    /\ waiting' = [waiting EXCEPT ![j] = @ + 1]
    /\ UNCHANGED <<storeVars, handler, requeues>>
    /\ ApproveUnchanged

Approved(job, req) ==
    [job EXCEPT !.approval = "approved",
                !.publish = IF req.publish THEN "pending" ELSE "not_requested",
                !.activation = req.at,
                !.reviewed = @ \/ req.confirmed]

Requeued(job, req) ==
    [job EXCEPT !.publish = "pending", !.activation = req.at,
                !.youtubeId = FALSE]

\* Mutated form: updated_at is not compared.
NotChangedSinceUnchecked(job, snap) == TRUE

NotChangedSince(job, snap) == job.updated = snap.updated

\* Mutated form: approve_video queues no upload for a retry.
QueuesUploadOnce(req, job) == req.stage = "approve" /\ job.publish = "pending"

QueuesUpload(req, job) == job.publish = "pending"

ApproveCommit(h) ==
    LET req == handler[h]
        j == req.job
        next == IF req.stage = "approve" THEN Approved(jobs[j], req)
                                         ELSE Requeued(jobs[j], req)
    IN  /\ req.stage \in {"approve", "requeue"}
        /\ handler' = [handler EXCEPT ![h] = IdleHandler]
        /\ IF NotChangedSince(jobs[j], req.snap)
             THEN /\ \E saved \in SaveOutcomes :
                       /\ PersistLocked(j, next, tone, saved)
                       /\ waiting' = IF saved /\ QueuesUpload(req, next)
                                       THEN [waiting EXCEPT ![j] = @ + 1]
                                       ELSE waiting
                  /\ requeues' = [requeues EXCEPT ![j] =
                                    IF req.stage = "requeue" THEN @ + 1 ELSE @]
             ELSE UNCHANGED <<storeVars, waiting, requeues>>
        /\ ApproveUnchanged

\* Mutated form: an approved job may be rejected as well.
RejectableUnlessRejected(job) ==
    job.render # "absent" /\ job.approval # "rejected"

Rejectable(job) == job.render # "absent" /\ job.approval = "pending"

\* reject(): one region under the lock; a render in progress goes on.
Reject(h, j) ==
    /\ handler[h] = IdleHandler
    /\ Rejectable(jobs[j])
    /\ \E saved \in SaveOutcomes :
         PersistLocked(j, [jobs[j] EXCEPT !.approval = "rejected"], tone, saved)
    /\ UNCHANGED <<handler, waiting, requeues>>
    /\ ApproveUnchanged

\* update_copy(): another content for the result, then store.save().
UpdateCopy(h, r, copy) ==
    /\ handler[h] = IdleHandler
    /\ copy # source[r]
    /\ source' = [source EXCEPT ![r] = copy]
    /\ \E saved \in SaveOutcomes :
         disk' = IF saved THEN Snapshot(jobs, tone, source') ELSE disk
    /\ UNCHANGED <<jobs, active, tone, handler, waiting, requeues>>
    /\ ApproveUnchanged

\* Any other endpoint that saves the store (products, history, community...).
OtherSave(h) ==
    /\ handler[h] = IdleHandler
    /\ disk # Snapshot(jobs, tone, source)
    /\ disk' = Snapshot(jobs, tone, source)
    /\ UNCHANGED <<jobs, active, tone, source, handler, waiting, requeues>>
    /\ ApproveUnchanged

(***************************************************************************)
(* run_publish().  A task that waits is a count; the one that holds        *)
(* _publish_lock has left stage "idle".                                    *)
(***************************************************************************)
PublishUnchanged == UNCHANGED <<mp4, creating, render, handler, now,
                                requeues, restarts>>

Finish(j, outcome) ==
    upload' = [upload EXCEPT ![j].stage = "done", ![j].outcome = outcome]

\* Mutated form: any approved job is uploaded.
MustUploadIfApproved(job) == job.approval = "approved"

MustUpload(job) == job.approval = "approved" /\ job.publish = "pending"

TaskWaits(j) == waiting[j] > 0

PublishTake(j) ==
    /\ TaskWaits(j)
    /\ \A k \in Jobs : upload[k].stage = "idle"
    /\ waiting' = [waiting EXCEPT ![j] = @ - 1]
    /\ upload' = IF MustUpload(jobs[j])
                   THEN [upload EXCEPT ![j].stage = "integrity",
                                       ![j].snap = jobs[j]]
                   ELSE upload
    /\ UNCHANGED <<storeVars, youtube, sessions>>
    /\ PublishUnchanged

PublishIntegrity(j) ==
    /\ upload[j].stage = "integrity"
    /\ IF Intact(j, upload[j].snap)
         THEN upload' = [upload EXCEPT ![j].stage = "request"]
         ELSE Finish(j, "needs_review")
    /\ UNCHANGED <<storeVars, waiting, youtube, sessions>>
    /\ PublishUnchanged

\* No upload session is opened: the schedule has passed, there is no token or no
\* service, the publisher refuses the request (its file has gone since it was
\* checked), or the request cannot be built (any other exception, which counts
\* as unknown).
PublishNotStarted(j) ==
    /\ upload[j].stage = "request"
    /\ \/ upload[j].snap.activation <= now /\ Finish(j, "schedule_expired")
       \/ Finish(j, "auth_required")
       \/ Finish(j, "failed")
       \/ Finish(j, "needs_review")
    /\ UNCHANGED <<storeVars, waiting, youtube, sessions>>
    /\ PublishUnchanged

PublishStart(j) ==
    /\ upload[j].stage = "request"
    /\ upload[j].snap.activation > now
    /\ upload' = [upload EXCEPT ![j].stage = "uploading"]
    /\ sessions' = [sessions EXCEPT ![j] = @ + 1]
    /\ UNCHANGED <<storeVars, waiting, youtube>>
    /\ PublishUnchanged

\* YouTube, outside the program: it stores the video of the session once.
YouTubeStores(j) ==
    /\ upload[j].stage = "uploading"
    /\ upload[j].stored = "no"
    /\ upload' = [upload EXCEPT ![j].stored = "yes"]
    /\ youtube' = [youtube EXCEPT ![j] = @ + 1]
    /\ UNCHANGED <<storeVars, waiting, sessions>>
    /\ PublishUnchanged

\* 500, 502, 503 or 504: the chunk is sent again, at most MaxRetries times.
AnswerServerError(j) ==
    /\ upload[j].stage = "uploading"
    /\ upload[j].stored = "yes" => LostAnswers
    /\ IF upload[j].tries < MaxRetries
         THEN upload' = [upload EXCEPT ![j].tries = @ + 1,
                           ![j].stored = IF @ = "yes" THEN "lost" ELSE @]
         ELSE Finish(j, "needs_review")
    /\ UNCHANGED <<storeVars, waiting, youtube, sessions>>
    /\ PublishUnchanged

\* 401 or another definite error: not for a video that this request stored,
\* but possible when an earlier request of the session did.
AnswerRefused(j) ==
    /\ upload[j].stage = "uploading"
    /\ upload[j].stored # "yes"
    /\ \E outcome \in {"auth_required", "failed"} : Finish(j, outcome)
    /\ UNCHANGED <<storeVars, waiting, youtube, sessions>>
    /\ PublishUnchanged

\* The connection breaks, or the answer has no video id.
AnswerUnknown(j) ==
    /\ upload[j].stage = "uploading"
    /\ Finish(j, "needs_review")
    /\ UNCHANGED <<storeVars, waiting, youtube, sessions>>
    /\ PublishUnchanged

AnswerVideoId(j) ==
    /\ upload[j].stage = "uploading"
    /\ upload[j].stored # "no"
    /\ Finish(j, "scheduled")
    /\ UNCHANGED <<storeVars, waiting, youtube, sessions>>
    /\ PublishUnchanged

PublishCommit(j) ==
    LET outcome == upload[j].outcome
    IN  /\ upload[j].stage = "done"
        /\ IF NotChangedSince(jobs[j], upload[j].snap)
             THEN \E saved \in SaveOutcomes :
                    PersistLocked(j, [jobs[j] EXCEPT
                                        !.publish = outcome,
                                        !.youtubeId = (outcome = "scheduled")],
                                  tone, saved)
             ELSE UNCHANGED storeVars
        /\ upload' = [upload EXCEPT ![j] = IdleUpload]
        /\ UNCHANGED <<waiting, youtube, sessions>>
        /\ PublishUnchanged

(***************************************************************************)
(* Restart.  Every thread is gone; load() reads the last saved file and    *)
(* _recover_video_jobs settles what was in progress, in memory only; a new *)
(* service builds its index from the jobs.                                 *)
(***************************************************************************)
\* Mutated form: a job whose upload was interrupted may be tried again.
RecoverVideoJobRetryable(job) ==
    LET interrupted == job.render \in {"queued", "processing"}
        unknown == job.publish = "pending" /\ ~job.youtubeId
    IN  [job EXCEPT
           !.render = IF interrupted THEN "failed" ELSE @,
           !.publish = IF unknown THEN "failed" ELSE @,
           !.updated = IF interrupted \/ unknown THEN @ + 1 ELSE @]

\* Mutated form: a render that had not started is left queued.
RecoverVideoJobLeavesQueued(job) ==
    LET interrupted == job.render = "processing"
        unknown == job.publish = "pending" /\ ~job.youtubeId
    IN  [job EXCEPT
           !.render = IF interrupted THEN "failed" ELSE @,
           !.publish = IF unknown THEN "needs_review" ELSE @,
           !.updated = IF interrupted \/ unknown THEN @ + 1 ELSE @]

RecoverVideoJob(job) ==
    LET interrupted == job.render \in {"queued", "processing"}
        unknown == job.publish = "pending" /\ ~job.youtubeId
    IN  [job EXCEPT
           !.render = IF interrupted THEN "failed" ELSE @,
           !.publish = IF unknown THEN "needs_review" ELSE @,
           !.updated = IF interrupted \/ unknown THEN @ + 1 ELSE @]

InitializeJobIndexes(videoJobs) ==
    [r \in Results |->
       {j \in Jobs : videoJobs[j].result = r /\ IsActive(videoJobs[j])}]

NoCreates == [c \in Callers |-> IdleCreate]
NoRenders == [j \in Jobs |-> NoRender]
NothingWaiting == [j \in Jobs |-> 0]
NoUploads == [j \in Jobs |-> IdleUpload]
NoHandlers == [h \in Handlers |-> IdleHandler]

Restart ==
    /\ restarts < MaxRestarts
    /\ restarts' = restarts + 1
    /\ jobs' = [j \in Jobs |-> RecoverVideoJob(disk.jobs[j])]
    /\ active' = InitializeJobIndexes(jobs')
    /\ tone' = disk.tone
    /\ source' = disk.source
    /\ creating' = NoCreates
    /\ render' = NoRenders
    /\ waiting' = NothingWaiting
    /\ upload' = NoUploads
    /\ handler' = NoHandlers
    /\ UNCHANGED <<disk, mp4, now, youtube, sessions, requeues>>

Tick ==
    /\ now < MaxNow
    /\ now' = now + 1
    /\ UNCHANGED <<storeVars, mp4, taskVars, youtube, historyVars>>

(***************************************************************************)
(* Specification.                                                          *)
(***************************************************************************)
Init ==
    /\ jobs = [j \in Jobs |-> NoJob]
    /\ active = [r \in Results |-> {}]
    /\ tone = [r \in Results |-> [job |-> None, url |-> None]]
    /\ source \in [Results -> Copies]
    /\ mp4 = [j \in Jobs |-> None]
    /\ disk = Snapshot(jobs, tone, source)
    /\ creating = NoCreates
    /\ render = NoRenders
    /\ waiting = NothingWaiting
    /\ upload = NoUploads
    /\ handler = NoHandlers
    /\ now = 0
    /\ youtube = [j \in Jobs |-> 0]
    /\ sessions = [j \in Jobs |-> 0]
    /\ requeues = [j \in Jobs |-> 0]
    /\ restarts = 0

CreateNext ==
    \E c \in Callers :
      \/ \E r \in Results : CreateBegin(c, r)
      \/ CreateRefused(c)
      \/ \E j \in Jobs : CreateCommit(c, j)

RenderNext ==
    \E j \in Jobs :
      \/ RenderStart(j)
      \/ RenderStoryboard(j)
      \/ RenderMedia(j)
      \/ RenderRaises(j)
      \/ RenderFailed(j)
      \/ RenderCompleted(j)

HandlerNext ==
    \E h \in Handlers :
      \/ \E j \in Jobs, at \in Requested, publish, confirmed \in BOOLEAN :
           \/ ApproveBegin(h, j, at, publish, confirmed)
           \/ ApproveAgain(h, j, at, publish, confirmed)
      \/ ApproveCommit(h)
      \/ \E j \in Jobs : Reject(h, j)
      \/ \E r \in Results, copy \in Copies : UpdateCopy(h, r, copy)
      \/ OtherSave(h)

PublishNext ==
    \E j \in Jobs :
      \/ PublishTake(j)
      \/ PublishIntegrity(j)
      \/ PublishNotStarted(j)
      \/ PublishStart(j)
      \/ YouTubeStores(j)
      \/ AnswerServerError(j)
      \/ AnswerRefused(j)
      \/ AnswerUnknown(j)
      \/ AnswerVideoId(j)
      \/ PublishCommit(j)

Next ==
    \/ CreateNext
    \/ RenderNext
    \/ HandlerNext
    \/ PublishNext
    \/ Restart
    \/ Tick

Spec == Init /\ [][Next]_vars

(***************************************************************************)
(* Fairness.  Each thread that has work keeps running; a call to ffmpeg,   *)
(* the model server or YouTube returns.  Users, restarts, the clock and    *)
(* YouTube's storing of a video are under no obligation.                   *)
(***************************************************************************)
Fairness ==
    /\ \A c \in Callers :
         WF_vars(CreateRefused(c) \/ \E j \in Jobs : CreateCommit(c, j))
    /\ \A h \in Handlers : WF_vars(ApproveCommit(h))
    /\ \A j \in Jobs :
         /\ WF_vars(RenderStart(j))
         /\ WF_vars(RenderStoryboard(j) \/ RenderRaises(j))
         /\ WF_vars(RenderMedia(j) \/ RenderRaises(j))
         /\ WF_vars(RenderFailed(j))
         /\ WF_vars(RenderCompleted(j))
         /\ WF_vars(PublishTake(j))
         /\ WF_vars(PublishIntegrity(j))
         /\ WF_vars(PublishNotStarted(j) \/ PublishStart(j))
         /\ WF_vars(AnswerServerError(j) \/ AnswerRefused(j)
                      \/ AnswerUnknown(j) \/ AnswerVideoId(j))
         /\ WF_vars(PublishCommit(j))

FairSpec == Spec /\ Fairness

(***************************************************************************)
(* Properties.                                                             *)
(***************************************************************************)

\* Every variable has its type.
TypeOK ==
    /\ jobs \in [Jobs -> VideoJob]
    /\ active \in [Results -> SUBSET Jobs]
    /\ tone \in [Results -> Tone]
    /\ source \in [Results -> Copies]
    /\ mp4 \in [Jobs -> Copies \cup {None}]
    /\ disk \in [jobs : [Jobs -> VideoJob], tone : [Results -> Tone],
                 source : [Results -> Copies]]
    /\ creating \in [Callers -> [result : Results, fp : Copies]
                                 \cup {IdleCreate}]
    /\ render \in [Jobs -> RenderTask]
    /\ waiting \in [Jobs -> Nat]
    /\ upload \in [Jobs -> Upload]
    /\ handler \in [Handlers -> HandlerState \cup {IdleHandler}]
    /\ now \in Nat
    /\ youtube \in [Jobs -> Nat]
    /\ sessions \in [Jobs -> Nat]
    /\ requeues \in [Jobs -> Nat]
    /\ restarts \in Nat

\* create() answers 409 while a job of the result is active: two requests
\* that build their storyboards at the same time, a rejection, a failed
\* render or a restart in between never leave two active jobs.
OneActiveJobPerResult ==
    \A j, k \in Jobs :
      /\ IsActive(jobs[j]) /\ IsActive(jobs[k])
      /\ jobs[j].result = jobs[k].result
      => j = k

\* _active_job_ids_by_result, which create() trusts instead of scanning the
\* jobs, holds exactly the active jobs after every step of every thread.
ActiveIndexIsExact ==
    \A r \in Results :
      active[r] = {j \in Jobs : jobs[j].result = r /\ IsActive(jobs[j])}

\* Work that a status announces is owned by a task that will settle it: no
\* job is left queued, processing or pending without a thread, also after a
\* restart, a rejection during the render, or an error of the pipeline.
UnsettledWorkHasOwner ==
    \A j \in Jobs :
      /\ jobs[j].render = "queued" => render[j].stage = "queued"
      /\ jobs[j].render = "processing" => HoldsRenderLock(j)
      /\ jobs[j].publish = "pending" =>
           waiting[j] > 0 \/ upload[j].stage # "idle"

\* From the moment run_publish takes the job until it stores the result no
\* other thread writes the job, so the comparison of updated_at in its last
\* step never discards the answer of an upload.
UploadResultIsRecorded ==
    \A j \in Jobs : upload[j].stage # "idle" => jobs[j] = upload[j].snap

\* An upload session is opened once per request of the user: duplicate
\* run_publish tasks, crashes in mid-upload and restarts open no other one.
OneSessionPerRequest ==
    \A j \in Jobs : sessions[j] <= 1 + requeues[j]

\* Nothing is published that a person has not approved after it was rendered,
\* and a scheduled job has a video on YouTube.
PublishedWorkIsApproved ==
    \A j \in Jobs :
      /\ jobs[j].approval = "approved" =>
           jobs[j].render = "completed" /\ mp4[j] = jobs[j].fp
      /\ jobs[j].publish # "not_requested" => jobs[j].approval = "approved"
      /\ jobs[j].publish = "scheduled" => youtube[j] > 0

\* An approval or a rejection is never revoked or overwritten, whatever the
\* handlers and the background threads interleave, and restarts keep it.
DecisionIsFinal ==
    [][\A j \in Jobs : jobs[j].approval # "pending" =>
         jobs'[j].approval = jobs[j].approval]_vars

\* The workflow keeps the promises of VideoLifecycle: threads, locks, queued
\* tasks, duplicate tasks and restarts show only lifecycle steps of the jobs.
Lifecycle == INSTANCE VideoLifecycle WITH
    result <- [j \in Jobs |-> jobs[j].result],
    renderStatus <- [j \in Jobs |-> jobs[j].render],
    approvalStatus <- [j \in Jobs |-> jobs[j].approval],
    publishStatus <- [j \in Jobs |-> jobs[j].publish]

ImplementsLifecycle == Lifecycle!Spec

\* On the event loop an approval is stored only while the approved video still
\* shows the current copy of its result.
ApprovalSeesCurrentCopy ==
    [][\A j \in Jobs :
         jobs[j].approval = "pending" /\ jobs'[j].approval = "approved" =>
           mp4[j] = source[jobs[j].result]]_vars

\* needs_review protects against duplicates: without lost answers YouTube
\* holds at most one video per job, however often the user retries.
NoDuplicateVideo == \A j \in Jobs : youtube[j] <= 1

\* A completed job that its result names has its video in History as well.
HistoryShowsCompletedVideo ==
    \A r \in Results :
      tone[r].job # None /\ jobs[tone[r].job].render = "completed" =>
        tone[r].url = tone[r].job

\* Work that a status announces comes to an end: every render that create()
\* accepts completes or fails, and no publish status stays pending.
WorkSettles ==
    \A j \in Jobs :
      /\ jobs[j].render \in {"queued", "processing"} ~>
           jobs[j].render \in {"completed", "failed"}
      /\ jobs[j].publish = "pending" ~> jobs[j].publish # "pending"

=============================================================================
