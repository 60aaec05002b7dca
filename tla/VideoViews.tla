----------------------------- MODULE VideoViews -----------------------------
(***************************************************************************)
(* What people see of the workflow: the review page of the operator        *)
(* (video_view_state.py and pages/3_History.py) and the publishing page of *)
(* the web application (publishing-state.mts and publishing/page.tsx),     *)
(* which decide on their own what they offer, and the shop, where          *)
(* exposure.py shows approved videos.  All read the same jobs as the       *)
(* service and change none of them; what the pages offer is compared here  *)
(* with what the service would answer.                                     *)
(***************************************************************************)
EXTENDS VideoWorkflow

\* Mutated form: what is decided counts before the state of the render.
VideoViewKindByApproval(job) ==
    CASE job.approval = "rejected" -> "rejected"
      [] job.approval = "approved" -> "approved"
      [] job.approval = "pending" /\ job.result \in NeedsReview ->
           "pronunciation_review"
      [] job.render = "failed" -> "failed"
      [] OTHER -> "review"

\* build_video_view_state.  The page looks at the render, then at the decision
\* and the upload, and only then at what a person has still to listen to.
VideoViewKind(job) ==
    CASE job.render \in {"queued", "processing"} -> "creating"
      [] job.render = "failed" -> "failed"
      [] job.render = "completed" /\ job.approval = "rejected" -> "rejected"
      [] job.render = "completed" /\ job.approval = "approved" ->
           CASE job.publish = "pending" -> "publishing"
             [] job.publish \in {"not_requested", "scheduled"} -> "approved"
             [] OTHER -> "publish_warning"
      [] OTHER -> IF job.result \in NeedsReview THEN "pronunciation_review"
                                                ELSE "review"

\* The buttons of render_video_workflow for a result.  Approving a video with
\* a pronunciation to review takes the tick of its checkbox.
OffersCreate(r) ==
    \/ tone[r].job = None
    \/ VideoViewKind(jobs[tone[r].job]) = "failed"

OffersApprove(job, confirmed) ==
    \/ VideoViewKind(job) = "review" /\ ~confirmed
    \/ VideoViewKind(job) = "pronunciation_review" /\ confirmed

OffersReject(job) == VideoViewKind(job) \in {"review", "pronunciation_review"}

\* canRetryPublish, canSubmitPublish and needsPronunciationConfirmation: the
\* second list of statuses from which an upload can be tried again
CanRetryPublish(job) ==
    /\ job.approval = "approved"
    /\ job.publish \in {"failed", "auth_required", "schedule_expired"}

CanSubmitPublish(job) == job.approval = "pending" \/ CanRetryPublish(job)

NeedsPronunciationConfirmation(job) ==
    job.result \in NeedsReview /\ ~job.reviewed

\* The publishing page lists completed videos and has one button, which asks
\* for an upload; a pronunciation that nobody has confirmed takes a tick.
OffersSubmit(job, ticked) ==
    /\ job.render = "completed"
    /\ job.publish # "scheduled"
    /\ CanSubmitPublish(job)
    /\ NeedsPronunciationConfirmation(job) => ticked

\* The copy that the video shows has been edited since: approve() is right to
\* refuse, and the pages do not know.
Edited(job) == source[job.result] # job.fp

\* A job that pick_video_exposure may choose at a time of its slot
Shown(job, t) ==
    /\ job.render = "completed"
    /\ job.approval = "approved"
    /\ job.activation <= t

(***************************************************************************)
(* Properties.                                                             *)
(***************************************************************************)

\* The pages and the service keep three notions of a job's state, and they
\* agree: every button of a page is accepted when it is pressed while the page
\* is fresh, over renders, rejections, successors of rejected jobs, uploads and
\* restarts, and a button that says "retry" retries.  Only an edit of the copy
\* leads to a refusal.
OffersAreAccepted ==
    \A r \in Results :
      /\ OffersCreate(r) => CanCreate(r)
      /\ tone[r].job # None =>
           LET j == tone[r].job
               Reply(at, publish, confirmed) ==
                   ApproveReply(j, jobs[j], at, publish, confirmed)
           IN  /\ OffersReject(jobs[j]) => Rejectable(jobs[j])
               /\ ~Edited(jobs[j]) =>
                    \A at \in {t \in Requested : ScheduleValid(t)} :
                    \A tick \in BOOLEAN :
                      /\ OffersApprove(jobs[j], tick) =>
                           \A publish \in BOOLEAN :
                               Reply(at, publish, tick) = "approve"
                      /\ OffersSubmit(jobs[j], tick) =>
                           Reply(at, TRUE,
                                 NeedsPronunciationConfirmation(jobs[j]) => tick)
                             = IF CanRetryPublish(jobs[j]) THEN "requeue"
                                                           ELSE "approve"

\* A video that the shop shows goes on being shown: failed, doubtful and late
\* uploads, later rejections and restarts do not withdraw it.  Only a retry of
\* its upload does, because the retry moves the activation time.
ExposureIsKept ==
    [][\A j \in Jobs :
         Shown(jobs[j], now) /\ requeues'[j] = requeues[j] =>
           Shown(jobs'[j], now')]_vars

=============================================================================
