----------------------------- MODULE VideoFiles -----------------------------
(***************************************************************************)
(* The files of the shorts workflow: the work directory that run_render    *)
(* fills (scene_images.py, tts_provider.py), the final file that the       *)
(* renderer puts beside it (video_renderer.py), and the sweep by which     *)
(* create() deletes old work directories (_cleanup_stale_work_dirs in      *)
(* video_workflow.py).                                                     *)
(*                                                                         *)
(* Sweeps run in the worker threads of POST /videos, in parallel with the  *)
(* render, with approvals and with each other.  A directory of a completed *)
(* job is cleaned under _state_lock; one of a failed job is removed with   *)
(* rmtree, file by file and without the lock.  Of a job only the render    *)
(* status and updated_at matter here; approvals, rejections and publish    *)
(* results are the writes that leave the render status alone.              *)
(***************************************************************************)
EXTENDS Integers, Sequences

CONSTANTS
    Jobs,           \* video_job_id values
    Callers,        \* worker threads serving POST /videos
    None,           \* Python's None, and a directory that does not exist
    FailedTTL,      \* _failed_work_ttl_seconds; 0 keeps the directories
    CompletedTTL,   \* _completed_work_ttl_seconds
    Interval,       \* _work_cleanup_interval_seconds
    MaxNow,         \* bound on the clock
    MaxRestarts     \* bound on process restarts

ASSUME FilesNoneAssumption ==
    /\ None \notin Jobs /\ None \notin Nat /\ None \notin {"partial", "complete"}
    /\ \A files \in SUBSET {"images", "speech", "other"} : None # files
ASSUME FilesTimeAssumption ==
    /\ FailedTTL \in Nat /\ CompletedTTL \in Nat /\ Interval \in Nat
    /\ MaxNow \in Nat /\ MaxRestarts \in Nat

VARIABLES
    status,         \* render_status of each job; "absent" before create()
    updated,        \* updated_at of each job
    failedAt,       \* _failed_job_updated_at
    completedAt,    \* _completed_job_updated_at
    nextCleanup,    \* _next_work_cleanup_at
    work,           \* the files in the work directory of each job
    final,          \* the file of each job in VIDEO_DIR
    render,         \* run_render of each job: its stage and the inputs written
    sweep,          \* what each caller does in create()
    now,            \* the clock
    restarts

jobVars == <<status, updated, failedAt, completedAt>>
vars == <<jobVars, nextCleanup, work, final, render, sweep, now, restarts>>

(***************************************************************************)
(* Data.                                                                   *)
(***************************************************************************)
Status == {"absent", "queued", "processing", "completed", "failed"}

\* What a render writes, in order: the three scene images, then the four lines.
Inputs == <<"images", "speech">>
Written(n) == {Inputs[i] : i \in 1..n}

\* COMPLETED_INTERMEDIATE_FILES; "other" is a file that somebody put there
Managed == Written(Len(Inputs))

Directory == (SUBSET (Written(Len(Inputs)) \cup {"other"})) \cup {None}
FinalFile == {None, "partial", "complete"}
RenderStage == {"none", "queued", "inputs", "encode", "concat", "probe",
                "rendered", "raised"}
NoRender == [stage |-> "none", written |-> 0]

Candidate == [job : Jobs, status : {"failed", "completed"}, at : Nat]
NoCandidate == [job |-> None, status |-> "failed", at |-> 0]
SweepStage == {"idle", "asked", "sweeping", "removing", "forget"}
IdleSweep == [stage |-> "idle", at |-> 0, left |-> {}, current |-> NoCandidate]

(***************************************************************************)
(* Every write of a job reads a clock that has moved on, saves, and brings *)
(* the two indexes of terminal jobs up to date.                            *)
(***************************************************************************)
\* Mutated form: every job that is not completed is indexed as failed.
CountsAsFailedAny(s) == s # "completed"

CountsAsFailed(s) == s = "failed"

Persist(j, newStatus, at) ==
    /\ status' = [status EXCEPT ![j] = newStatus]
    /\ updated' = [updated EXCEPT ![j] = at]
    /\ failedAt' = [failedAt EXCEPT ![j] =
                      IF CountsAsFailed(newStatus) THEN at ELSE None]
    /\ completedAt' = [completedAt EXCEPT ![j] =
                         IF newStatus = "completed" THEN at ELSE None]

Write(j, newStatus) ==
    /\ now < MaxNow
    /\ now' = now + 1
    /\ Persist(j, newStatus, now)

\* Approvals, rejections and publish results.
Decide(j) ==
    /\ status[j] # "absent"
    /\ Write(j, status[j])
    /\ UNCHANGED <<nextCleanup, work, final, render, sweep, restarts>>

(***************************************************************************)
(* run_render().  The inputs are written one after the other; the renderer *)
(* checks them, encodes one segment per scene from them, joins the         *)
(* segments straight into the final file and probes it.                    *)
(***************************************************************************)
FilesUnchanged == UNCHANGED <<jobVars, now, nextCleanup, sweep, restarts>>

ToStage(j, stage) == render' = [render EXCEPT ![j].stage = stage]

RenderStart(j) ==
    /\ render[j].stage = "queued"
    /\ \A k \in Jobs : render[k].stage \in {"none", "queued"}
    /\ Write(j, "processing")
    /\ ToStage(j, "inputs")
    /\ UNCHANGED <<nextCleanup, work, final, sweep, restarts>>

WriteInput(j) ==
    LET n == render[j].written + 1
        dir == IF work[j] = None THEN {} ELSE work[j]
    IN  /\ render[j].stage = "inputs"
        /\ n \in DOMAIN Inputs
        /\ work' = [work EXCEPT ![j] = dir \cup {Inputs[n]}]
        /\ render' = [render EXCEPT ![j].written = n]
        /\ UNCHANGED final
        /\ FilesUnchanged

InputsPresent(j) == work[j] # None /\ Written(Len(Inputs)) \subseteq work[j]

RenderCheckInputs(j) ==
    /\ render[j].stage = "inputs"
    /\ render[j].written = Len(Inputs)
    /\ ToStage(j, IF InputsPresent(j) THEN "encode" ELSE "raised")
    /\ UNCHANGED <<work, final>>
    /\ FilesUnchanged

EncodeSegments(j) ==
    /\ render[j].stage = "encode"
    /\ ToStage(j, IF InputsPresent(j) THEN "concat" ELSE "raised")
    /\ UNCHANGED <<work, final>>
    /\ FilesUnchanged

\* ffmpeg creates the final file, fills it and returns.
ConcatSegments(j) ==
    /\ render[j].stage = "concat"
    /\ \/ /\ final[j] = None
          /\ final' = [final EXCEPT ![j] = "partial"]
          /\ UNCHANGED render
       \/ /\ final[j] = "partial"
          /\ final' = [final EXCEPT ![j] = "complete"]
          /\ ToStage(j, "probe")
    /\ UNCHANGED work
    /\ FilesUnchanged

RenderProbe(j) ==
    /\ render[j].stage = "probe"
    /\ ToStage(j, "rendered")
    /\ UNCHANGED <<work, final>>
    /\ FilesUnchanged

\* Any exception; a final file that is already there stays.
RenderRaises(j) ==
    /\ render[j].stage \in {"inputs", "encode", "concat", "probe"}
    /\ ToStage(j, "raised")
    /\ UNCHANGED <<work, final>>
    /\ FilesUnchanged

RenderEnd(j) ==
    /\ \/ render[j].stage = "raised" /\ Write(j, "failed")
       \/ render[j].stage = "rendered" /\ Write(j, "completed")
    /\ render' = [render EXCEPT ![j] = NoRender]
    /\ UNCHANGED <<nextCleanup, work, final, sweep, restarts>>

(***************************************************************************)
(* create(): the clock is read, old work is swept, the job is stored.      *)
(***************************************************************************)
SweepUnchanged == UNCHANGED <<status, updated, final, render, now, restarts>>

CreateBegin(c) ==
    /\ sweep[c] = IdleSweep
    /\ sweep' = [sweep EXCEPT ![c] =
                   [IdleSweep EXCEPT !.at = now,
                      !.stage = IF FailedTTL = 0 /\ CompletedTTL = 0
                                  THEN "sweeping" ELSE "asked"]]
    /\ UNCHANGED <<failedAt, completedAt, nextCleanup, work>>
    /\ SweepUnchanged

\* The jobs in an index that were last written before the cutoff.
Expired(index, ttl, at) ==
    {j \in Jobs : ttl > 0 /\ index[j] # None /\ index[j] + ttl < at}

\* Under the lock: at most one sweep per interval, and its candidates.
SweepBegin(c) ==
    LET at == sweep[c].at
        due == nextCleanup = None \/ at >= nextCleanup
        failed == Expired(failedAt, FailedTTL, at)
        completed == Expired(completedAt, CompletedTTL, at)
    IN  /\ sweep[c].stage = "asked"
        /\ nextCleanup' = IF due THEN at + Interval ELSE nextCleanup
        /\ sweep' = [sweep EXCEPT
             ![c].stage = "sweeping",
             ![c].left =
               IF due
                 THEN {[job |-> j, status |-> "failed", at |-> failedAt[j]] : j \in failed}
                      \cup {[job |-> j, status |-> "completed", at |-> completedAt[j]]
                              : j \in completed}
                 ELSE {}]
        /\ UNCHANGED <<failedAt, completedAt, work>>
        /\ SweepUnchanged

\* Mutated form: a candidate is cleaned whatever happened since.
StillExpiredUnchecked(candidate) == TRUE

StillExpired(candidate) == completedAt[candidate.job] = candidate.at

\* A completed job: one region under the lock.  An OSError in the middle
\* leaves some of the files and the job in the index.
SweepCompleted(c, candidate) ==
    LET j == candidate.job
        managed == IF work[j] = None THEN {} ELSE work[j] \cap Managed
    IN  /\ sweep[c].stage = "sweeping"
        /\ candidate \in sweep[c].left
        /\ candidate.status = "completed"
        /\ sweep' = [sweep EXCEPT ![c].left = @ \ {candidate}]
        /\ IF StillExpired(candidate)
             THEN \E removed \in SUBSET managed, error \in BOOLEAN :
                    /\ ~error => removed = managed
                    /\ error => work[j] # None
                    /\ work' = IF work[j] = None THEN work
                                 ELSE [work EXCEPT ![j] = @ \ removed]
                    /\ completedAt' = IF error THEN completedAt
                                        ELSE [completedAt EXCEPT ![j] = None]
             ELSE UNCHANGED <<work, completedAt>>
        /\ UNCHANGED <<failedAt, nextCleanup>>
        /\ SweepUnchanged

\* A failed job: is there a directory at all?
SweepFailed(c, candidate) ==
    /\ sweep[c].stage = "sweeping"
    /\ candidate \in sweep[c].left
    /\ candidate.status = "failed"
    /\ sweep' = [sweep EXCEPT
         ![c].left = @ \ {candidate}, ![c].current = candidate,
         ![c].stage = IF work[candidate.job] = None THEN "forget" ELSE "removing"]
    /\ UNCHANGED <<failedAt, completedAt, nextCleanup, work>>
    /\ SweepUnchanged

\* rmtree removes one file after the other and then the directory.
RemoveTree(c) ==
    LET j == sweep[c].current.job
    IN  /\ sweep[c].stage = "removing"
        /\ \/ /\ work[j] \notin {None, {}}
              /\ \E f \in work[j] : work' = [work EXCEPT ![j] = @ \ {f}]
              /\ UNCHANGED sweep
           \/ /\ work[j] = {}
              /\ work' = [work EXCEPT ![j] = None]
              /\ sweep' = [sweep EXCEPT ![c].stage = "forget"]
        /\ UNCHANGED <<failedAt, completedAt, nextCleanup>>
        /\ SweepUnchanged

\* Mutated form: the job is forgotten although its directory is still there.
AfterRemoveFailsForget == "forget"

AfterRemoveFails == "sweeping"

\* rmtree raises: a file that cannot be removed, or another sweep was faster.
RemoveFails(c) ==
    /\ sweep[c].stage = "removing"
    /\ sweep' = [sweep EXCEPT ![c].stage = AfterRemoveFails]
    /\ UNCHANGED <<failedAt, completedAt, nextCleanup, work>>
    /\ SweepUnchanged

Forget(c) ==
    /\ sweep[c].stage = "forget"
    /\ failedAt' = [failedAt EXCEPT ![sweep[c].current.job] = None]
    /\ sweep' = [sweep EXCEPT ![c].stage = "sweeping"]
    /\ UNCHANGED <<completedAt, nextCleanup, work>>
    /\ SweepUnchanged

\* The sweep is over: the job is stored with the time that create() read, and
\* its render queued; or the request is refused.
CreateEnd(c) ==
    /\ sweep[c].stage = "sweeping" /\ sweep[c].left = {}
    /\ sweep' = [sweep EXCEPT ![c] = IdleSweep]
    /\ \/ \E j \in Jobs :
            /\ status[j] = "absent"
            /\ Persist(j, "queued", sweep[c].at)
            /\ render' = [render EXCEPT ![j].stage = "queued"]
       \/ UNCHANGED <<jobVars, render>>
    /\ UNCHANGED <<nextCleanup, work, final, now, restarts>>

(***************************************************************************)
(* The environment.                                                        *)
(***************************************************************************)
\* Somebody keeps a file of their own in the directory of a completed job.
ForeignFile(j) ==
    /\ status[j] = "completed"
    /\ work[j] # None /\ "other" \notin work[j]
    /\ work' = [work EXCEPT ![j] = @ \cup {"other"}]
    /\ UNCHANGED <<final, render>>
    /\ FilesUnchanged

Tick ==
    /\ now < MaxNow
    /\ now' = now + 1
    /\ UNCHANGED <<jobVars, nextCleanup, work, final, render, sweep, restarts>>

Interrupted(j) == status[j] \in {"queued", "processing"}

\* Mutated form: a final file that is there is taken for a finished render.
RecoveredByFile(j) ==
    IF Interrupted(j)
      THEN IF final[j] = None THEN "failed" ELSE "completed"
      ELSE status[j]

Recovered(j) == IF Interrupted(j) THEN "failed" ELSE status[j]

\* load() settles what was interrupted; a new service builds its indexes.
Restart ==
    /\ restarts < MaxRestarts
    /\ now < MaxNow
    /\ restarts' = restarts + 1
    /\ now' = now + 1
    /\ status' = [j \in Jobs |-> Recovered(j)]
    /\ updated' = [j \in Jobs |-> IF Interrupted(j) THEN now ELSE updated[j]]
    /\ failedAt' = [j \in Jobs |->
                      IF status'[j] = "failed" THEN updated'[j] ELSE None]
    /\ completedAt' = [j \in Jobs |->
                         IF status'[j] = "completed" THEN updated'[j] ELSE None]
    /\ nextCleanup' = None
    /\ render' = [j \in Jobs |-> NoRender]
    /\ sweep' = [c \in Callers |-> IdleSweep]
    /\ UNCHANGED <<work, final>>

(***************************************************************************)
(* Specification.                                                          *)
(***************************************************************************)
Init ==
    /\ status = [j \in Jobs |-> "absent"]
    /\ updated = [j \in Jobs |-> 0]
    /\ failedAt = [j \in Jobs |-> None]
    /\ completedAt = [j \in Jobs |-> None]
    /\ nextCleanup = None
    /\ work = [j \in Jobs |-> None]
    /\ final = [j \in Jobs |-> None]
    /\ render = [j \in Jobs |-> NoRender]
    /\ sweep = [c \in Callers |-> IdleSweep]
    /\ now = 0
    /\ restarts = 0

RenderNext ==
    \E j \in Jobs :
      \/ RenderStart(j)
      \/ WriteInput(j)
      \/ RenderCheckInputs(j)
      \/ EncodeSegments(j)
      \/ ConcatSegments(j)
      \/ RenderProbe(j)
      \/ RenderRaises(j)
      \/ RenderEnd(j)

CreateNext ==
    \E c \in Callers :
      \/ CreateBegin(c)
      \/ SweepBegin(c)
      \/ \E candidate \in sweep[c].left :
           SweepCompleted(c, candidate) \/ SweepFailed(c, candidate)
      \/ RemoveTree(c)
      \/ RemoveFails(c)
      \/ Forget(c)
      \/ CreateEnd(c)

Next ==
    \/ RenderNext
    \/ CreateNext
    \/ \E j \in Jobs : Decide(j) \/ ForeignFile(j)
    \/ Tick
    \/ Restart

Spec == Init /\ [][Next]_vars

(***************************************************************************)
(* Properties.                                                             *)
(***************************************************************************)

\* Every variable has its type, and no job or sweep is dated in the future.
TypeOK ==
    /\ status \in [Jobs -> Status]
    /\ updated \in [Jobs -> 0..now]
    /\ failedAt \in [Jobs -> Nat \cup {None}]
    /\ completedAt \in [Jobs -> Nat \cup {None}]
    /\ nextCleanup \in Nat \cup {None}
    /\ work \in [Jobs -> Directory]
    /\ final \in [Jobs -> FinalFile]
    /\ render \in [Jobs -> [stage : RenderStage, written : 0..Len(Inputs)]]
    /\ sweep \in [Callers -> [stage : SweepStage, at : 0..now,
                               left : SUBSET Candidate,
                               current : Candidate \cup {NoCandidate}]]
    /\ now \in Nat
    /\ restarts \in Nat

\* No sweep takes an input away from a render in progress: what run_render has
\* written is there when the renderer checks it, and still when it encodes.
RenderInputsSurvive ==
    \A j \in Jobs :
      render[j].stage \notin {"none", "queued"} /\ render[j].written > 0 =>
        /\ work[j] # None
        /\ Written(render[j].written) \subseteq work[j]

\* A sweep takes from a completed job its intermediates and nothing else, and
\* only if nothing touched the job for the whole CompletedTTL: not when it is
\* approved, rejected or published after the sweep chose it.  The directory
\* and the files that others keep in it stay.
SweepTakesExpiredOnly ==
    [][\A j \in Jobs :
         LET taken == work[j] \ work'[j]
         IN  status[j] = "completed" /\ work[j] # None =>
               /\ work'[j] # None
               /\ "other" \notin taken
               /\ taken # {} => updated[j] + CompletedTTL < now]_vars

\* What a later sweep should remove is in an index under its current date, so
\* nothing is forgotten by sweeps that fail, overlap or are overtaken by a
\* write of the job, nor over a restart.
WorkIsFoundAgain ==
    \A j \in Jobs :
      /\ status[j] = "failed" /\ work[j] # None => failedAt[j] = updated[j]
      /\ /\ status[j] = "completed"
         /\ work[j] # None
         /\ work[j] \cap Managed # {}
         => completedAt[j] = updated[j]

\* A completed job has its whole video, also if the process died while ffmpeg
\* was writing one: the file of an interrupted render is never taken for it.
CompletedVideoIsWhole ==
    \A j \in Jobs : status[j] = "completed" => final[j] = "complete"
=============================================================================
