--------------------------- MODULE GenerationJobs ---------------------------
(***************************************************************************)
(* Advertisement jobs (api/generations.py, services/generation_service.py, *)
(* the job part of services/store.py).                                     *)
(*                                                                         *)
(* create_generation(), run_generation() and update_copy() are coroutines  *)
(* of one event loop: what lies between two awaits is not interrupted by   *)
(* another of them, and `loop` names the handler that is in such a part.   *)
(* The threads of the shorts workflow are not bound by that: one of them   *)
(* may be anywhere in save() (SharedStore), and the process may die        *)
(* anywhere.                                                               *)
(*                                                                         *)
(* An image file is written under a new name each time and never changed,  *)
(* so an image is represented by the copy that it shows.                   *)
(***************************************************************************)
EXTENDS Naturals, FiniteSets

CONSTANTS
    Jobs,           \* job_id values
    Products,       \* product_id values
    Items,          \* the plan: time slot and tone, one result each
    Formats,        \* output formats of a request
    Made,           \* the copy that generation writes
    Edits,          \* the copies that a user may write
    None,           \* Python's None
    MaxRestarts,    \* bound on process restarts
    MaxThreadSaves  \* bound on the saves of threads, see SharedStore

ASSUME GenerationSetsAssumption ==
    /\ IsFiniteSet(Items) /\ IsFiniteSet(Formats)
    /\ Items # {} /\ Formats # {}
    /\ None \notin Jobs /\ None \notin Products /\ None \notin Edits
    /\ Made \notin Edits /\ Made # None
ASSUME GenerationBoundAssumption == MaxRestarts \in Nat /\ MaxThreadSaves \in Nat

VARIABLES
    jobs,           \* JOBS
    history,        \* HISTORY: the entry of each job
    task,           \* run_generation of each job
    loop,           \* the handler between two awaits
    disk,           \* what load() would find
    thread,         \* the save() of a thread of the shorts workflow
    unsaved,        \* jobs whose creation failed in save()
    cut,            \* a restart found data saved in the middle of a handler
    restarts

ghosts == <<unsaved, cut, restarts>>
vars == <<jobs, history, task, loop, disk, thread, ghosts>>

(***************************************************************************)
(* Data.                                                                   *)
(***************************************************************************)
Copy == {Made} \cup Edits
ToneResult == [copy : Copy, images : [Formats -> Copy]]
MadeResult == [copy |-> Made, images |-> [f \in Formats |-> Made]]
Results == [Items -> ToneResult]

Status == {"absent", "queued", "processing", "completed", "failed"}
Active == {"queued", "processing"}
Settled == {"completed", "failed"}
TotalCount == Cardinality(Items) * Cardinality(Formats)

Job == [product : Products \cup {None}, status : Status,
        completed_count : 0..TotalCount, result : Results \cup {None}]
NoJob == [product |-> None, status |-> "absent",
          completed_count |-> 0, result |-> None]

\* The entry that run_generation appends holds the list of the job itself;
\* after a restart the two are separate.
Entry == [state : {"none", "shared", "own"}, results : Results \cup {None}]
NoEntry == [state |-> "none", results |-> None]
SharedEntry == [state |-> "shared", results |-> None]
OwnEntry(results) == [state |-> "own", results |-> results]

EntryResults(j) ==
    IF history[j].state = "shared" THEN jobs[j].result ELSE history[j].results

TaskStage == {"none", "queued", "running"}
Step == {"result", "completed", "recorded", "render", "copy", "images",
         "entry_copy", "entry_images"}
Handler == [step : Step, job : Jobs, item : Items \cup {None},
            copy : Copy \cup {None}, rendered : SUBSET Formats]

ASSUME GenerationNoneAssumption ==
    /\ \A results \in Results : None # results
    /\ \A handler \in Handler : None # handler

(***************************************************************************)
(* The store.                                                              *)
(***************************************************************************)
SavedEntry(j) ==
    IF history[j].state = "none" THEN NoEntry ELSE OwnEntry(EntryResults(j))

Snapshot(inHandler) ==
    [jobs |-> jobs, history |-> [j \in Jobs |-> SavedEntry(j)],
     inHandler |-> inHandler]

NothingSaved ==
    [jobs |-> [j \in Jobs |-> NoJob], history |-> [j \in Jobs |-> NoEntry],
     inHandler |-> FALSE]

Store == INSTANCE SharedStore WITH Nothing <- NothingSaved

\* save() at the end of a handler, after the changes of that step.
Saves == Store!LoopSaves(Snapshot(FALSE)')
SaveRaises == Store!LoopSaveRaises(Snapshot(FALSE)')
SavesOrRaises == Saves \/ SaveRaises

\* A thread of the shorts workflow saves everything, between two awaits of the
\* loop or in the middle of a handler.
ThreadSaves ==
    /\ Store!ThreadSaves(Snapshot(loop # None))
    /\ UNCHANGED <<jobs, history, task, loop, ghosts>>

\* Mutated form: a job that was running is left as it is.
RecoveredAsIs(job) == job

\* Mutated form: what was settled before the restart fails too.
RecoveredAllFailed(job) ==
    IF job.status = "absent" THEN job ELSE [job EXCEPT !.status = "failed"]

\* load(): whoever ran an unfinished job is gone.
Recovered(job) ==
    IF job.status \in Active THEN [job EXCEPT !.status = "failed"] ELSE job

Restart ==
    /\ restarts < MaxRestarts
    /\ restarts' = restarts + 1
    /\ jobs' = [j \in Jobs |-> Recovered(disk.jobs[j])]
    /\ history' = disk.history
    /\ task' = [j \in Jobs |-> "none"]
    /\ loop' = None
    /\ unsaved' = {}
    /\ cut' = (cut \/ disk.inHandler)
    /\ Store!ThreadEnds
    /\ UNCHANGED disk

(***************************************************************************)
(* create_generation().                                                    *)
(***************************************************************************)
IsActive(job) == job.status \in Active

Create(j, p) ==
    /\ loop = None
    /\ jobs[j].status = "absent"
    /\ ~\E k \in Jobs : jobs[k].product = p /\ IsActive(jobs[k])
    /\ jobs' = [jobs EXCEPT ![j] = [NoJob EXCEPT !.product = p,
                                                 !.status = "queued"]]
    /\ UNCHANGED <<history, loop, cut, restarts>>
    /\ \/ /\ Saves
          /\ task' = [task EXCEPT ![j] = "queued"]
          /\ UNCHANGED unsaved
       \/ /\ SaveRaises
          /\ unsaved' = unsaved \cup {j}
          /\ UNCHANGED task

(***************************************************************************)
(* run_generation().                                                       *)
(***************************************************************************)
Start(j) ==
    /\ loop = None
    /\ task[j] = "queued"
    /\ task' = [task EXCEPT ![j] = "running"]
    /\ jobs' = [jobs EXCEPT ![j].status = "processing"]
    /\ UNCHANGED <<history, loop, disk, thread, ghosts>>

MoreToGenerate(job) == job.completed_count < TotalCount

\* One format of one item is generated, or the copy task, the model server or
\* a file operation raises.
Generate(j) ==
    /\ loop = None
    /\ task[j] = "running"
    /\ MoreToGenerate(jobs[j])
    /\ jobs' = [jobs EXCEPT ![j].completed_count = @ + 1]
    /\ UNCHANGED <<history, task, loop, disk, thread, ghosts>>

\* Mutated form: an exception ends the task without a word.
StatusAfterRaiseKept(status) == status

StatusAfterRaise(status) == "failed"

GenerateRaises(j) ==
    /\ loop = None
    /\ task[j] = "running"
    /\ jobs' = [jobs EXCEPT ![j].status = StatusAfterRaise(@)]
    /\ task' = [task EXCEPT ![j] = "none"]
    /\ UNCHANGED <<history, loop, ghosts>>
    /\ SavesOrRaises

ToStep(step) == loop' = [loop EXCEPT !.step = step]
AtStep(step) == loop # None /\ loop.step = step
StepUnchanged == UNCHANGED <<task, disk, thread, ghosts>>

FinishResult(j) ==
    /\ loop = None
    /\ task[j] = "running"
    /\ jobs[j].completed_count = TotalCount
    /\ jobs' = [jobs EXCEPT ![j].result = [i \in Items |-> MadeResult]]
    /\ loop' = [step |-> "result", job |-> j, item |-> None,
                copy |-> None, rendered |-> {}]
    /\ UNCHANGED history
    /\ StepUnchanged

FinishStatus ==
    /\ AtStep("result")
    /\ jobs' = [jobs EXCEPT ![loop.job].status = "completed"]
    /\ ToStep("completed")
    /\ UNCHANGED history
    /\ StepUnchanged

FinishHistory ==
    /\ AtStep("completed")
    /\ history' = [history EXCEPT ![loop.job] = SharedEntry]
    /\ ToStep("recorded")
    /\ UNCHANGED jobs
    /\ StepUnchanged

FinishSave ==
    /\ AtStep("recorded")
    /\ task' = [task EXCEPT ![loop.job] = "none"]
    /\ loop' = None
    /\ UNCHANGED <<jobs, history, ghosts>>
    /\ SavesOrRaises

(***************************************************************************)
(* update_copy(): every format is rendered anew from its source image, and *)
(* only then are the job and its history entry changed.                    *)
(***************************************************************************)
UpdateBegin(j, i, c) ==
    /\ loop = None
    /\ jobs[j].status = "completed" /\ jobs[j].result # None
    /\ loop' = [step |-> "render", job |-> j, item |-> i,
                copy |-> c, rendered |-> {}]
    /\ UNCHANGED <<jobs, history>>
    /\ StepUnchanged

UpdateRender(f) ==
    /\ AtStep("render")
    /\ f \notin loop.rendered
    /\ loop' = [loop EXCEPT !.rendered = @ \cup {f}]
    /\ UNCHANGED <<jobs, history>>
    /\ StepUnchanged

\* The source image of a format is gone: 409, whatever has been rendered.
UpdateRefused ==
    /\ AtStep("render")
    /\ loop.rendered # Formats
    /\ loop' = None
    /\ UNCHANGED <<jobs, history>>
    /\ StepUnchanged

\* Mutated form: the job is changed when the first image is there.
AllRenderedAny(rendered) == rendered # {}

AllRendered(rendered) == rendered = Formats

NewImages(images) ==
    [f \in Formats |-> IF f \in loop.rendered THEN loop.copy ELSE images[f]]

UpdateTargetCopy ==
    /\ AtStep("render")
    /\ AllRendered(loop.rendered)
    /\ jobs' = [jobs EXCEPT ![loop.job].result[loop.item].copy = loop.copy]
    /\ ToStep("copy")
    /\ UNCHANGED history
    /\ StepUnchanged

UpdateTargetImages ==
    /\ AtStep("copy")
    /\ jobs' = [jobs EXCEPT ![loop.job].result[loop.item].images = NewImages(@)]
    /\ ToStep("images")
    /\ UNCHANGED history
    /\ StepUnchanged

\* Mutated form: the entry is taken to share the list of the job.
OwnsResultsNever(entry) == FALSE

OwnsResults(entry) == entry.state = "own"

UpdateEntryCopy ==
    /\ AtStep("images")
    /\ history' = IF OwnsResults(history[loop.job])
                    THEN [history EXCEPT
                            ![loop.job].results[loop.item].copy = loop.copy]
                    ELSE history
    /\ ToStep("entry_copy")
    /\ UNCHANGED jobs
    /\ StepUnchanged

UpdateEntryImages ==
    /\ AtStep("entry_copy")
    /\ history' = IF OwnsResults(history[loop.job])
                    THEN [history EXCEPT
                            ![loop.job].results[loop.item].images = NewImages(@)]
                    ELSE history
    /\ ToStep("entry_images")
    /\ UNCHANGED jobs
    /\ StepUnchanged

UpdateSave ==
    /\ AtStep("entry_images")
    /\ loop' = None
    /\ UNCHANGED <<jobs, history, task, ghosts>>
    /\ SavesOrRaises

(***************************************************************************)
(* Specification.                                                          *)
(***************************************************************************)
Init ==
    /\ jobs = [j \in Jobs |-> NoJob]
    /\ history = [j \in Jobs |-> NoEntry]
    /\ task = [j \in Jobs |-> "none"]
    /\ loop = None
    /\ disk = NothingSaved
    /\ thread = Store!NoThread(0)
    /\ unsaved = {}
    /\ cut = FALSE
    /\ restarts = 0

Run(j) ==
    \/ Start(j)
    \/ Generate(j)
    \/ GenerateRaises(j)
    \/ FinishResult(j)

Continue ==
    \/ FinishStatus
    \/ FinishHistory
    \/ FinishSave
    \/ \E f \in Formats : UpdateRender(f)
    \/ UpdateRefused
    \/ UpdateTargetCopy
    \/ UpdateTargetImages
    \/ UpdateEntryCopy
    \/ UpdateEntryImages
    \/ UpdateSave

Next ==
    \/ \E j \in Jobs, p \in Products : Create(j, p)
    \/ \E j \in Jobs : Run(j)
    \/ Continue
    \/ \E j \in Jobs, i \in Items, c \in Edits : UpdateBegin(j, i, c)
    \/ ThreadSaves
    \/ Restart

Spec == Init /\ [][Next]_vars

\* The event loop finishes the handler it is in, and takes every task that is
\* ready again and again; the calls to the model server time out.
Fairness ==
    /\ WF_vars(Continue)
    /\ \A j \in Jobs : SF_vars(Run(j))

FairSpec == Spec /\ Fairness

(***************************************************************************)
(* Properties.                                                             *)
(***************************************************************************)

SavedData == [jobs : [Jobs -> Job], history : [Jobs -> Entry], inHandler : BOOLEAN]
StoreTypeOK == disk \in SavedData /\ Store!ThreadTypeOK(SavedData)

\* Every variable has its type.
TypeOK ==
    /\ jobs \in [Jobs -> Job]
    /\ history \in [Jobs -> Entry]
    /\ task \in [Jobs -> TaskStage]
    /\ loop \in Handler \cup {None}
    /\ StoreTypeOK
    /\ unsaved \subseteq Jobs
    /\ cut \in BOOLEAN
    /\ restarts \in 0..MaxRestarts

\* A product never has two jobs in progress (the 409 of create_generation), and
\* a job in progress, which keeps its product from being generated again, has
\* a task that will end it: also after a failure, a restart, or a save by
\* another thread at any moment.  A job whose creation failed in save() has
\* none.
ActiveJobsAreServed ==
    \A j \in Jobs : jobs[j].status \in Active =>
      /\ task[j] # "none" \/ j \in unsaved
      /\ \A k \in Jobs \ {j} :
           jobs[k].status \in Active => jobs[k].product # jobs[j].product

\* Between handlers a completed job has all its results and is in the history
\* with the same ones, and no other job is.  The exception is a process that
\* died after another thread had saved in the middle of a handler.
HistoryAgreesWithJobs ==
    loop = None /\ ~cut =>
      \A j \in Jobs :
        /\ history[j].state # "none" <=> jobs[j].status = "completed"
        /\ jobs[j].status = "completed" =>
             /\ jobs[j].completed_count = TotalCount
             /\ jobs[j].result # None
             /\ EntryResults(j) = jobs[j].result

\* Between handlers every image that a job or the history refers to shows the
\* copy recorded beside it: an update that is refused half way, or whose
\* process dies, changes neither.
ImagesShowTheCopy ==
    loop = None /\ ~cut =>
      \A j \in Jobs :
        jobs[j].status = "completed" =>
          \A i \in Items, f \in Formats :
            /\ jobs[j].result[i].images[f] = jobs[j].result[i].copy
            /\ EntryResults(j)[i].images[f] = EntryResults(j)[i].copy

\* A job that the store file shows as settled stays settled in that way over
\* every later save and restart, but for overlapping saves of a thread and the
\* loop: they may put an older version over it, or a torn one.  Memory has the
\* outcome even then, for the next save.
SavedOutcomeIsFinal ==
    [][\A j \in Jobs :
         LET saved == disk.jobs[j].status IN
         saved \in Settled =>
           \/ disk'.jobs[j].status = saved
           \/ (thread.clashed \/ thread'.clashed) /\ jobs'[j].status = saved]_vars

\* Every task that is queued settles its job.  If it dies with the process, the
\* restart does, or the job is gone with a file that overlapping saves have
\* left without it.
JobSettles ==
    \A j \in Jobs :
      task[j] = "queued" ~> jobs[j].status \in Settled \cup {"absent"}
=============================================================================
