---------------------- MODULE VideoWorkflowInvariant -----------------------
(***************************************************************************)
(* The inductive invariants behind the safety properties of VideoWorkflow: *)
(* SafetyInv when saves succeed, FailureInv whether they do or not.  Their *)
(* parts speak of one job, or of one handler and the job it works on, so   *)
(* that a step disturbs the parts of one job only.                         *)
(***************************************************************************)
EXTENDS VideoWorkflow

\* A job is decided on after it was rendered, and uploaded after it was
\* approved.
JobShape(job) ==
    /\ job.render = "absent" => job = NoJob
    /\ job.render # "absent" => job.result \in Results /\ job.fp \in Copies
    /\ job.approval = "approved" => job.render = "completed"
    /\ job.publish # "not_requested" => job.approval = "approved"
    /\ job.youtubeId => job.publish = "scheduled"

\* The run_render task and the render status go together, and the final file
\* is made from the copy that the job was created for.
RenderInv(job, task, file) ==
    /\ job.render = "queued" <=> task.stage = "queued"
    /\ job.render = "processing" <=> task.stage \notin {"none", "queued"}
    /\ task.stage \in {"media", "rendered"} => task.board = job.fp
    /\ task.stage = "rendered" \/ job.render = "completed" => file = job.fp

\* The job stays as run_publish has taken it until the result is stored.
UploadInv(job, up, videos) ==
    /\ up.stage # "idle" => job = up.snap /\ MustUpload(job)
    /\ up.stage = "done" => up.outcome \in PublishStatus \ {"not_requested", "pending"}
    /\ up.stored # "no" => videos > 0
    /\ up.stage = "done" /\ up.outcome = "scheduled" => videos > 0
    /\ job.publish = "scheduled" => videos > 0

\* A pending upload has its task; a session is opened for a request that has
\* none yet.
SessionInv(job, tasks, up, opened, asked) ==
    /\ job.publish = "pending" => tasks > 0 \/ up.stage # "idle"
    /\ job.publish = "not_requested" => opened = 0 /\ asked = 0
    /\ job.publish = "pending" /\ up.stage \in {"idle", "integrity", "request"}
         => opened <= asked
    /\ opened <= 1 + asked

\* The file holds the job, or the job has been recovered from the file.
DiskInv(job, saved) == job = saved \/ job = RecoverVideoJob(saved)

JobInv(j) ==
    /\ JobShape(jobs[j])
    /\ RenderInv(jobs[j], render[j], mp4[j])
    /\ UploadInv(jobs[j], upload[j], youtube[j])
    /\ SessionInv(jobs[j], waiting[j], upload[j], sessions[j], requeues[j])
    /\ DiskInv(jobs[j], disk.jobs[j])

\* A handler that passed the checks of approve() saw a job that could be
\* approved or retried, and updated_at tells whether it is still that job.
HandlerInv(request, job) ==
    /\ request.snap.updated <= job.updated
    /\ request.snap.updated = job.updated => request.snap = job
    /\ request.snap.render = "completed"
    /\ request.stage = "approve" => request.snap.approval = "pending"
    /\ request.stage = "requeue" => /\ request.snap.approval = "approved"
                                    /\ request.snap.publish \in Retryable

SafetyInv ==
    /\ ActiveIndexIsExact
    /\ OneActiveJobPerResult
    /\ \A j \in Jobs : JobInv(j)
    /\ \A h \in Handlers :
         handler[h] # IdleHandler => HandlerInv(handler[h], jobs[handler[h].job])

\* Once YouTube has the video of a job, the job is on the way to a status from
\* which no upload is asked for; this takes that YouTube never answers 5xx to an
\* upload it has stored.
VideoInv(job, up, videos) ==
    /\ videos <= 1
    /\ up.stored # "lost"
    /\ up.stored = "yes" <=> up.stage # "idle" /\ videos = 1
    /\ videos = 1 => up.stage \notin {"integrity", "request"}
    /\ videos = 1 /\ up.stage = "idle" => job.publish \in {"needs_review", "scheduled"}
    /\ videos = 1 /\ up.stage = "done" => up.outcome \in {"needs_review", "scheduled"}

OneVideoInv == \A j \in Jobs : VideoInv(jobs[j], upload[j], youtube[j])

(***************************************************************************)
(* What is left of it when saves may fail: the index and the file are then *)
(* behind the jobs in memory, tasks are missing, and a restart goes back   *)
(* to the file.                                                            *)
(***************************************************************************)

\* RenderInv of a job whose status may announce a task that is not there.
LooseRenderInv(job, task, file) ==
    /\ task.stage = "queued" => job.render = "queued"
    /\ task.stage \notin {"none", "queued"} => job.render = "processing"
    /\ task.stage \in {"media", "rendered"} => task.board = job.fp
    /\ task.stage = "rendered" \/ job.render = "completed" => file = job.fp

\* SessionInv where a restart that forgets a session counts as a request: what
\* it finds in the file lets the job be uploaded once more.
LooseSessionInv(job, up, opened, asked) ==
    /\ job.publish = "not_requested" => opened <= asked
    /\ job.publish = "pending" /\ up.stage \in {"idle", "integrity", "request"}
         => opened <= asked
    /\ opened <= 1 + asked

\* What the file says of a job is older than the memory and not contradicted
\* by it: a restart finds the same job, a decision that was taken, and a video
\* file and a YouTube video that are there.
FileInv(job, saved, file, videos) ==
    /\ JobShape(saved)
    /\ saved.render # "absent" => saved.result = job.result /\ saved.fp = job.fp
    /\ saved.render = "completed" => file = saved.fp
    /\ saved.approval # "pending" => job.approval = saved.approval
    /\ saved.publish = "scheduled" => videos > 0

LooseJobInv(j) ==
    /\ JobShape(jobs[j])
    /\ LooseRenderInv(jobs[j], render[j], mp4[j])
    /\ UploadInv(jobs[j], upload[j], youtube[j])
    /\ LooseSessionInv(jobs[j], upload[j], sessions[j], requeues[j] + restarts)
    /\ FileInv(jobs[j], disk.jobs[j], mp4[j], youtube[j])

FailureInv ==
    /\ \A j \in Jobs : LooseJobInv(j)
    /\ \A h \in Handlers :
         handler[h] # IdleHandler => HandlerInv(handler[h], jobs[handler[h].job])

\* Saves that fail cost a request at most: the upload sessions of a job are not
\* more than the requests for it, and one for each restart that may have gone
\* back to a file without the request or its result (OneSessionPerRequest, for
\* a store.save() that raises in _persist_locked).
OneSessionPerRequestOrRestart ==
    \A j \in Jobs : sessions[j] <= 1 + requeues[j] + restarts

\* A decision of a person is revoked by nothing but a restart, and by that only
\* when no save has succeeded since: once the file has it, it is final
\* (DecisionIsFinal, for a store.save() that raises in _persist_locked).
SavedDecisionIsFinal ==
    [][\A j \in Jobs :
         /\ jobs[j].approval # "pending"
         /\ restarts' = restarts \/ disk.jobs[j].approval # "pending"
         => jobs'[j].approval = jobs[j].approval]_vars
=============================================================================
