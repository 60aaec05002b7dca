------------------------ MODULE GenerationJobsProofs ------------------------
(***************************************************************************)
(* What GenerationJobs promises about jobs, history and images, for any    *)
(* number of jobs, plans and formats, over all restarts.  The properties   *)
(* speak of the moments between two handlers; the invariant says of every  *)
(* step of a handler what it has already changed (JobInv, ContentInv), and *)
(* the store file, and of every version that a thread may still rename to  *)
(* it, that what it shows as settled is settled (DiskInv).                 *)
(***************************************************************************)
EXTENDS GenerationJobs, FiniteSetTheorems, TLAPS

(***************************************************************************)
(* The inductive invariant.                                                *)
(***************************************************************************)
\* A handler is at work on job j, or on item i of it, in one of these steps.
LoopAt(j, steps) == loop # None /\ loop.job = j /\ loop.step \in steps
LoopOn(j, i, steps) == LoopAt(j, steps) /\ loop.item = i

UpdateSteps == {"render", "copy", "images", "entry_copy", "entry_images"}
RenderedSteps == {"copy", "images", "entry_copy", "entry_images"}

\* What update_copy carries from one await to the next.
LoopInv ==
    /\ loop # None /\ loop.step \in UpdateSteps => loop.item \in Items /\ loop.copy \in Edits
    /\ loop # None /\ loop.step \in RenderedSteps => loop.rendered = Formats

\* Status, task and history of a job go together, in every step of a handler.
JobFacts(j) ==
    /\ task[j] = "queued" <=> jobs[j].status = "queued" /\ j \notin unsaved
    /\ task[j] = "running" <=>
         jobs[j].status = "processing" \/ LoopAt(j, {"completed", "recorded"})
    /\ j \in unsaved => jobs[j].status = "queued"
    /\ LoopAt(j, {"result"}) =>
         /\ jobs[j].status = "processing" /\ jobs[j].completed_count = TotalCount
         /\ jobs[j].result = [i \in Items |-> MadeResult]
    /\ LoopAt(j, {"completed"}) => jobs[j].result = [i \in Items |-> MadeResult]
    /\ LoopAt(j, Step \ {"result"}) => jobs[j].status = "completed"
    /\ jobs[j].status = "completed" =>
         jobs[j].completed_count = TotalCount /\ jobs[j].result # None
    /\ history[j].state # "none" => jobs[j].status = "completed"
    /\ history[j].state = "own" => history[j].results \in Results

JobInv == \A j \in Jobs : JobFacts(j)

\* Two jobs in progress are for two products.
ProductInv ==
    \A j, k \in Jobs :
      j # k /\ jobs[j].status \in Active /\ jobs[k].status \in Active =>
        jobs[j].product # jobs[k].product

ShowsItsCopy(tone) == \A f \in Formats : tone.images[f] = tone.copy

\* What the job and its own entry say of an item, at each step of an update.
ItemFacts(j, i) ==
    LET target == jobs[j].result[i]
        entry == history[j].results[i]
    IN  /\ ~LoopOn(j, i, {"copy"}) => ShowsItsCopy(target)
        /\ LoopOn(j, i, RenderedSteps) => target.copy = loop.copy
        /\ history[j].state = "own" =>
             /\ ~LoopOn(j, i, {"entry_copy"}) => ShowsItsCopy(entry)
             /\ LoopOn(j, i, {"entry_copy"}) => entry.copy = loop.copy
             /\ ~LoopOn(j, i, {"copy", "images", "entry_copy"}) => entry = target

ContentFacts(j) ==
    /\ history[j].state # "none" <=>
         jobs[j].status = "completed" /\ ~LoopAt(j, {"completed"})
    /\ jobs[j].status = "completed" => \A i \in Items : ItemFacts(j, i)

ContentInv == ~cut => \A j \in Jobs : ContentFacts(j)

\* The store file, or a version of it that a thread may rename: what it shows
\* as settled is what the job is, an entry has results of its own, and what was
\* not saved in a handler agrees.
SavedFacts(data, j) ==
    LET job == data.jobs[j]
        entry == data.history[j]
    IN  /\ job.status \in Settled => jobs[j].status = job.status
        /\ job.status = "completed" =>
             job.completed_count = TotalCount /\ job.result # None
        /\ entry.state # "none" =>
             /\ entry.state = "own" /\ entry.results \in Results
             /\ job.status = "completed"
        /\ ~cut /\ ~data.inHandler =>
             /\ entry.state # "none" <=> job.status = "completed"
             /\ job.status = "completed" =>
                  /\ entry.results = job.result
                  /\ \A i \in Items : ShowsItsCopy(job.result[i])

\* What a thread has serialised is not older than the file, as long as no save
\* of the loop has overlapped its own.
CleanInv ==
    thread.saving /\ ~thread.clashed =>
      \A data \in thread.versions, j \in Jobs :
        disk.jobs[j].status \in Settled => data.jobs[j].status = disk.jobs[j].status

DiskInv ==
    /\ \A j \in Jobs : SavedFacts(disk, j)
    /\ \A data \in thread.versions : \A j \in Jobs : SavedFacts(data, j)
    /\ CleanInv

GenerationInv ==
    TypeOK /\ LoopInv /\ JobInv /\ ProductInv /\ ContentInv /\ DiskInv

-----------------------------------------------------------------------------

(***************************************************************************)
(* The model's operators.                                                  *)
(***************************************************************************)
\* The number of images of a job, and what can never be taken for None.
LEMMA GenerationFacts ==
  /\ TotalCount \in Nat
  /\ \A results \in Results : results # None
  /\ \A handler \in Handler : handler # None
  /\ MadeResult \in ToneResult /\ [i \in Items |-> MadeResult] \in Results
<1>1. TotalCount \in Nat
  <2>1. Cardinality(Items) \in Nat /\ Cardinality(Formats) \in Nat
    BY FS_CardinalityType, GenerationSetsAssumption
  <2> QED BY <2>1 DEF TotalCount
<1>2. MadeResult \in ToneResult
  BY DEF MadeResult, ToneResult, Copy
<1> QED BY <1>1, <1>2, GenerationNoneAssumption DEF Results

\* The three fields that steps change, one at a time.
LEMMA StatusSet ==
  ASSUME TypeOK, NEW j \in Jobs, NEW s \in Status, jobs' = [jobs EXCEPT ![j].status = s]
  PROVE  /\ jobs' \in [Jobs -> Job]
         /\ jobs'[j].status = s /\ jobs'[j].product = jobs[j].product
         /\ jobs'[j].completed_count = jobs[j].completed_count
         /\ jobs'[j].result = jobs[j].result
         /\ \A k \in Jobs \ {j} : jobs'[k] = jobs[k]
BY DEF TypeOK, Job

LEMMA ResultSet ==
  ASSUME TypeOK, NEW j \in Jobs, NEW r \in Results, jobs' = [jobs EXCEPT ![j].result = r]
  PROVE  /\ jobs' \in [Jobs -> Job]
         /\ jobs'[j].result = r /\ jobs'[j].product = jobs[j].product
         /\ jobs'[j].completed_count = jobs[j].completed_count
         /\ jobs'[j].status = jobs[j].status
         /\ \A k \in Jobs \ {j} : jobs'[k] = jobs[k]
BY DEF TypeOK, Job

LEMMA EntrySet ==
  ASSUME TypeOK, NEW j \in Jobs, NEW r \in Results, history' = [history EXCEPT ![j].results = r]
  PROVE  /\ history' \in [Jobs -> Entry]
         /\ history'[j].results = r /\ history'[j].state = history[j].state
         /\ \A k \in Jobs \ {j} : history'[k] = history[k]
BY DEF TypeOK, Entry

\* A new copy or new images for one item of the results.
LEMMA ToneSet ==
  ASSUME NEW r \in Results, NEW i \in Items, NEW c \in Copy, NEW m \in [Formats -> Copy]
  PROVE  /\ [r EXCEPT ![i].copy = c] \in Results
         /\ [r EXCEPT ![i].copy = c][i].copy = c
         /\ [r EXCEPT ![i].copy = c][i].images = r[i].images
         /\ [r EXCEPT ![i].images = m] \in Results
         /\ [r EXCEPT ![i].images = m][i].copy = r[i].copy
         /\ [r EXCEPT ![i].images = m][i].images = m
         /\ \A k \in Items \ {i} :
              [r EXCEPT ![i].copy = c][k] = r[k] /\ [r EXCEPT ![i].images = m][k] = r[k]
BY DEF Results, ToneResult

\* The steps of a handler after the first one.
LEMMA StepSet ==
  ASSUME TypeOK, loop # None, NEW step \in Step, ToStep(step)
  PROVE  /\ loop' \in Handler /\ loop' # None
         /\ loop'.step = step /\ loop'.job = loop.job /\ loop'.item = loop.item
         /\ loop'.copy = loop.copy /\ loop'.rendered = loop.rendered
<1>1. loop' \in Handler /\ loop'.step = step /\ loop'.job = loop.job /\ loop'.item = loop.item
      /\ loop'.copy = loop.copy /\ loop'.rendered = loop.rendered
  BY DEF TypeOK, Handler, ToStep
<1> QED BY <1>1, GenerationFacts

\* With every format rendered, all images show the new copy.
LEMMA AllNew ==
  ASSUME TypeOK, loop # None, loop.rendered = Formats, NEW images
  PROVE  NewImages(images) = [f \in Formats |-> loop.copy]
BY DEF NewImages

\* Saving what the jobs and the history are.
LEMMA SnapshotType ==
  ASSUME jobs' \in [Jobs -> Job], history' \in [Jobs -> Entry],
         \A j \in Jobs : EntryResults(j)' \in Results \cup {None},
         NEW b \in BOOLEAN
  PROVE  Snapshot(b)' \in SavedData
<1>1. \A j \in Jobs : SavedEntry(j)' \in Entry
  BY DEF SavedEntry, NoEntry, OwnEntry, Entry
<1> QED BY <1>1 DEF Snapshot, SavedData

\* A file that is absent or torn has nothing to contradict.
LEMMA NothingSavedFacts ==
  /\ NothingSaved \in SavedData
  /\ \A j \in Jobs : NothingSaved.jobs[j].status \notin Settled
  /\ \A j \in Jobs : SavedFacts(NothingSaved, j) /\ SavedFacts(NothingSaved, j)'
<1>1. NoJob \in Job /\ NoEntry \in Entry
  BY GenerationFacts DEF NoJob, NoEntry, Job, Entry, Status
<1>2. NothingSaved \in SavedData
  BY <1>1 DEF NothingSaved, SavedData
<1>3. \A j \in Jobs : /\ NothingSaved.jobs[j].status = "absent"
                       /\ NothingSaved.history[j].state = "none"
  BY DEF NothingSaved, NoJob, NoEntry
<1> QED BY <1>2, <1>3 DEF SavedFacts, Settled

(***************************************************************************)
(* What a step leaves as it was.                                           *)
(***************************************************************************)
\* A step that works on one job keeps what is said of the others.
LEMMA OtherJobs ==
  ASSUME JobInv, ContentInv, NEW j \in Jobs,
         loop # None => loop.job = j, loop' # None => loop'.job = j,
         \A k \in Jobs \ {j} :
           /\ jobs'[k] = jobs[k] /\ history'[k] = history[k]
           /\ task'[k] = task[k] /\ (k \in unsaved' <=> k \in unsaved),
         cut' = cut,
         JobFacts(j)', ~cut => ContentFacts(j)'
  PROVE  JobInv' /\ ContentInv'
<1>1. ASSUME NEW k \in Jobs, k # j, NEW steps
      PROVE  ~LoopAt(k, steps) /\ ~LoopAt(k, steps)'
  BY <1>1 DEF LoopAt
<1>2. ASSUME NEW k \in Jobs, k # j PROVE JobFacts(k)'
  <2>1. JobFacts(k)
    BY DEF JobInv
  <2> QED BY <1>1, <1>2, <2>1 DEF JobFacts
<1>3. ASSUME NEW k \in Jobs, k # j, ~cut PROVE ContentFacts(k)'
  <2>1. ContentFacts(k)
    BY <1>3 DEF ContentInv
  <2>2. ASSUME NEW i \in Items, ItemFacts(k, i) PROVE ItemFacts(k, i)'
    BY <1>1, <1>3, <2>2 DEF ItemFacts, LoopOn, ShowsItsCopy
  <2> QED BY <1>1, <1>3, <2>1, <2>2 DEF ContentFacts
<1> QED BY <1>2, <1>3 DEF JobInv, ContentInv

\* What was saved stays true as long as no settled job changes.
LEMMA FactsKept ==
  ASSUME cut' = cut, NEW data, NEW j \in Jobs, SavedFacts(data, j),
         jobs[j].status \in Settled => jobs'[j].status = jobs[j].status
  PROVE  SavedFacts(data, j)'
BY DEF SavedFacts, ShowsItsCopy

\* A step that saves nothing and settles nothing anew.
LEMMA DiskKept ==
  ASSUME DiskInv, UNCHANGED <<disk, thread>>, cut' = cut,
         \A k \in Jobs : jobs[k].status \in Settled => jobs'[k].status = jobs[k].status
  PROVE  DiskInv'
<1>1. \A j \in Jobs : SavedFacts(disk, j)'
  <2>1. \A data : data = disk /\ data = disk' => \A j \in Jobs : SavedFacts(data, j)'
    BY FactsKept DEF DiskInv
  <2> QED BY <2>1 DEF SavedFacts, ShowsItsCopy
<1>2. \A data \in thread'.versions : \A j \in Jobs : SavedFacts(data, j)'
  BY FactsKept DEF DiskInv
<1>3. CleanInv'
  BY DEF DiskInv, CleanInv
<1> QED BY <1>1, <1>2, <1>3 DEF DiskInv

\* What is serialised between two handlers, or marked as inside of one.
LEMMA SnapshotFacts ==
  ASSUME jobs' \in [Jobs -> Job], history' \in [Jobs -> Entry], JobInv', ContentInv',
         NEW b \in BOOLEAN, ~b => loop' = None, NEW data, data = Snapshot(b)'
  PROVE  data \in SavedData /\ \A j \in Jobs : SavedFacts(data, j)'
<1>1. ASSUME NEW j \in Jobs
      PROVE  /\ EntryResults(j)' \in Results \cup {None}
             /\ history'[j].state # "none" => EntryResults(j)' \in Results
  BY DEF EntryResults, JobInv, JobFacts, Job, Entry
<1>2. data.jobs = jobs' /\ data.inHandler = b
      /\ \A j \in Jobs : data.history[j] = SavedEntry(j)'
  BY DEF Snapshot
<1>3. ASSUME NEW j \in Jobs PROVE SavedFacts(data, j)'
  <2>1. JobFacts(j)' /\ (~cut' => ContentFacts(j)')
    BY DEF JobInv, ContentInv
  <2>2. /\ data.history[j].state # "none" <=> history'[j].state # "none"
        /\ data.history[j].state # "none" =>
             data.history[j].state = "own" /\ data.history[j].results = EntryResults(j)'
    <3> DEFINE results == EntryResults(j)'
    <3>1. data.history[j] = IF history'[j].state = "none" THEN [state |-> "none", results |-> None]
                               ELSE [state |-> "own", results |-> results]
      BY <1>2 DEF SavedEntry, NoEntry, OwnEntry
    <3> HIDE DEF results
    <3>2. CASE history'[j].state = "none"
      BY <3>1, <3>2
    <3>3. CASE history'[j].state # "none"
      BY <3>1, <3>3 DEF results
    <3> QED BY <3>2, <3>3
  <2>3. ASSUME ~cut', ~b, jobs'[j].status = "completed"
        PROVE  /\ EntryResults(j)' = jobs'[j].result
               /\ history'[j].state # "none"
               /\ \A i \in Items : ShowsItsCopy(jobs'[j].result[i])
    <3>1. \A i \in Items : ItemFacts(j, i)'
      BY <2>1, <2>3 DEF ContentFacts
    <3>2. ~LoopAt(j, {"completed"})' /\ \A i \in Items : \A steps : ~LoopOn(j, i, steps)'
      BY <2>3 DEF LoopAt, LoopOn
    <3>3. \A i \in Items : ShowsItsCopy(jobs'[j].result[i])
      BY <3>1, <3>2 DEF ItemFacts, ShowsItsCopy
    <3>4. history'[j].state \in {"shared", "own"}
      BY <2>1, <2>3, <3>2 DEF ContentFacts, Entry
    <3>5. CASE history'[j].state = "own"
      <4>1. \A i \in Items : history'[j].results[i] = jobs'[j].result[i]
        BY <3>1, <3>2, <3>5 DEF ItemFacts
      <4>2. history'[j].results \in Results /\ jobs'[j].result \in Results
        BY <2>1, <2>3, <3>5 DEF JobFacts, Job
      <4> QED BY <3>3, <3>5, <4>1, <4>2 DEF Results, EntryResults
    <3> QED BY <3>3, <3>4, <3>5 DEF EntryResults
  <2>4. history'[j].state # "none" => jobs'[j].status = "completed"
    BY <2>1 DEF JobFacts
  <2>5. jobs'[j].status = "completed" =>
          jobs'[j].completed_count = TotalCount /\ jobs'[j].result # None
    BY <2>1 DEF JobFacts
  <2> QED BY <1>1, <1>2, <2>2, <2>3, <2>4, <2>5 DEF SavedFacts, ShowsItsCopy
<1>4. data \in SavedData
  BY <1>1, SnapshotType
<1> QED BY <1>3, <1>4

\* A save(), of the loop or of a thread, of what the jobs are then.
LEMMA DiskSaved ==
  ASSUME StoreTypeOK, DiskInv, cut' = cut,
         jobs' \in [Jobs -> Job], history' \in [Jobs -> Entry], JobInv', ContentInv',
         \A k \in Jobs : jobs[k].status \in Settled => jobs'[k].status = jobs[k].status,
         NEW b \in BOOLEAN, ~b => loop' = None, NEW new, new = Snapshot(b)',
         \/ Store!LoopSaves(new) \/ Store!LoopSaveRaises(new)
         \/ Store!ThreadSaves(new)
  PROVE  DiskInv' /\ StoreTypeOK'
<1> DEFINE known == {disk, NothingSaved, new} \cup thread.versions
<1>1. new \in SavedData /\ (\A j \in Jobs : SavedFacts(new, j)') /\ new.jobs = jobs'
  <2>1. new.jobs = jobs'
    BY DEF Snapshot
  <2> QED BY <2>1, SnapshotFacts
<1>2. disk' \in known /\ thread'.versions \subseteq known
  <2>1. thread \in [saving : BOOLEAN, clashed : BOOLEAN, versions : SUBSET SavedData,
                    count : 0..MaxThreadSaves]
    BY DEF StoreTypeOK, Store!ThreadTypeOK
  <2>2. ASSUME Store!LoopSaves(new) \/ Store!LoopSaveRaises(new)
        PROVE  disk' \in known /\ thread'.versions \subseteq known
    BY <2>1, <2>2 DEF Store!LoopSaves, Store!LoopSaveRaises, Store!Clash
  <2>3. ASSUME Store!ThreadSaves(new)
        PROVE  disk' \in known /\ thread'.versions \subseteq known
    BY <2>1, <2>3 DEF Store!ThreadSaves, Store!ThreadSerializes, Store!ThreadReplaces,
       Store!ThreadRaises, Store!ThreadSpoils, Store!ThreadEnds, Store!NoThread
  <2> QED BY <2>2, <2>3
<1>3. ASSUME NEW data \in known
      PROVE  data \in SavedData /\ \A j \in Jobs : SavedFacts(data, j)'
  <2>1. CASE data = new
    BY <1>1, <2>1
  <2>2. CASE data = NothingSaved
    BY <2>2, NothingSavedFacts
  <2>3. CASE data = disk \/ data \in thread.versions
    <3>1. data \in SavedData
      BY <2>3 DEF StoreTypeOK, Store!ThreadTypeOK
    <3>2. \A j \in Jobs : SavedFacts(data, j)
      BY <2>3 DEF DiskInv
    <3> QED BY <3>1, <3>2, FactsKept
  <2> QED BY <1>3, <2>1, <2>2, <2>3
<1>4. Store!ThreadTypeOK(SavedData)'
  <2> DEFINE clashed == [saving |-> TRUE, clashed |-> TRUE,
                         versions |-> thread.versions \cup {new}, count |-> thread.count + 1]
             begun == [saving |-> TRUE, clashed |-> FALSE,
                       versions |-> {new}, count |-> thread.count + 1]
             ended == [saving |-> FALSE, clashed |-> FALSE,
                       versions |-> {}, count |-> thread.count]
             type == [saving : BOOLEAN, clashed : BOOLEAN,
                      versions : SUBSET SavedData, count : 0..MaxThreadSaves]
  <2>1. /\ thread \in type /\ thread.count \in 0..MaxThreadSaves
        /\ thread.versions \subseteq SavedData /\ (~thread.saving => thread = ended)
    BY DEF StoreTypeOK, Store!ThreadTypeOK, Store!NoThread
  <2>2. \/ thread' = thread \/ thread' = ended
        \/ thread.count < MaxThreadSaves /\ thread' \in {clashed, begun}
    BY DEF Store!LoopSaves, Store!LoopSaveRaises, Store!Clash, Store!ThreadSaves,
       Store!ThreadSerializes, Store!ThreadReplaces, Store!ThreadRaises, Store!ThreadSpoils,
       Store!ThreadEnds, Store!NoThread
  <2>3. ended \in type
    BY <2>1
  <2>4. ASSUME thread.count < MaxThreadSaves PROVE clashed \in type /\ begun \in type
    <3>1. thread.count + 1 \in 0..MaxThreadSaves
      BY <2>1, <2>4, GenerationBoundAssumption
    <3>2. thread.versions \cup {new} \in SUBSET SavedData /\ {new} \in SUBSET SavedData
      BY <1>1, <2>1
    <3> QED BY <3>1, <3>2
  <2>5. CASE thread' = thread
    BY <2>1, <2>5 DEF Store!ThreadTypeOK, Store!NoThread
  <2>6. CASE thread' = ended
    BY <2>3, <2>6 DEF Store!ThreadTypeOK, Store!NoThread
  <2>7. CASE thread.count < MaxThreadSaves /\ thread' \in {clashed, begun}
    <3>1. thread' \in type
      BY <2>4, <2>7
    <3>2. thread'.saving
      BY <2>7
    <3> QED BY <3>1, <3>2 DEF Store!ThreadTypeOK
  <2> QED BY <2>2, <2>5, <2>6, <2>7
<1>5. CleanInv'
  <2>1. UNCHANGED <<disk, thread>> \/ thread'.clashed \/ ~thread'.saving \/ Store!ThreadSerializes(new)
    BY DEF Store!LoopSaves, Store!LoopSaveRaises, Store!Clash, Store!ThreadSaves,
           Store!ThreadReplaces, Store!ThreadRaises, Store!ThreadSpoils, Store!ThreadEnds,
           Store!NoThread, StoreTypeOK, Store!ThreadTypeOK
  <2>2. CASE UNCHANGED <<disk, thread>>
    BY <2>2 DEF DiskInv, CleanInv
  <2>3. CASE Store!ThreadSerializes(new)
    <3>1. thread'.versions = {new} /\ disk' = disk
      BY <2>3 DEF Store!ThreadSerializes
    <3>2. \A j \in Jobs : disk.jobs[j].status \in Settled => jobs'[j].status = disk.jobs[j].status
      BY DEF DiskInv, SavedFacts
    <3> QED BY <1>1, <3>1, <3>2 DEF CleanInv
  <2> QED BY <2>1, <2>2, <2>3 DEF CleanInv
<1>6. disk' \in SavedData /\ \A j \in Jobs : SavedFacts(disk, j)'
  <2>1. \A data : data = disk' => data \in SavedData /\ \A j \in Jobs : SavedFacts(data, j)'
    BY <1>2, <1>3
  <2> QED BY <2>1 DEF SavedFacts, ShowsItsCopy
<1>7. \A data \in thread'.versions : \A j \in Jobs : SavedFacts(data, j)'
  BY <1>2, <1>3
<1> QED BY <1>4, <1>5, <1>6, <1>7 DEF DiskInv, StoreTypeOK

\* A save at the end of a handler, or one that raises.
LEMMA DiskSavedOrKept ==
  ASSUME TypeOK, DiskInv, SavesOrRaises, loop' = None, cut' = cut,
         jobs' \in [Jobs -> Job], history' \in [Jobs -> Entry], JobInv', ContentInv',
         \A k \in Jobs : jobs[k].status \in Settled => jobs'[k].status = jobs[k].status
  PROVE  DiskInv' /\ StoreTypeOK'
<1>1. PICK new : new = Snapshot(FALSE)'
  OBVIOUS
<1>2. Store!LoopSaves(new) \/ Store!LoopSaveRaises(new)
  BY <1>1 DEF SavesOrRaises, Saves, SaveRaises
<1>3. StoreTypeOK
  BY DEF TypeOK
<1> QED BY <1>1, <1>2, <1>3, DiskSaved

\* Only a new job can be a second one for its product.
LEMMA ProductKept ==
  ASSUME ProductInv,
         \A k \in Jobs : jobs'[k].status \in Active =>
           jobs[k].status \in Active /\ jobs'[k].product = jobs[k].product
  PROVE  ProductInv'
BY DEF ProductInv

(***************************************************************************)
(* The inductive step.                                                     *)
(***************************************************************************)
LEMMA CreateStep ==
  ASSUME GenerationInv, NEW j \in Jobs, NEW p \in Products, Create(j, p)
  PROVE  GenerationInv'
<1>0. /\ TypeOK /\ loop = None /\ UNCHANGED <<history, loop, cut, restarts>>
      /\ jobs[j].status = "absent"
      /\ jobs' = [jobs EXCEPT ![j] = [NoJob EXCEPT !.product = p, !.status = "queued"]]
      /\ \A k \in Jobs : jobs[k].product = p => jobs[k].status \notin Active
  BY DEF GenerationInv, Create, IsActive
<1>1. /\ jobs'[j] = [product |-> p, status |-> "queued", completed_count |-> 0, result |-> None]
      /\ \A k \in Jobs \ {j} : jobs'[k] = jobs[k]
  BY <1>0 DEF NoJob, TypeOK
<1>2. jobs' \in [Jobs -> Job]
  <2>1. [product |-> p, status |-> "queued", completed_count |-> 0, result |-> None] \in Job
    BY GenerationFacts DEF Job, Status
  <2> QED BY <1>0, <1>1, <2>1 DEF TypeOK
<1>3. task' \in [Jobs -> TaskStage] /\ unsaved' \subseteq Jobs
  BY DEF GenerationInv, TypeOK, Create, TaskStage
<1>4. /\ \A k \in Jobs \ {j} : task'[k] = task[k] /\ (k \in unsaved' <=> k \in unsaved)
      /\ \/ task'[j] = "queued" /\ j \notin unsaved'
         \/ task'[j] = "none" /\ j \in unsaved'
  <2>1. task[j] = "none" /\ j \notin unsaved
    BY <1>0 DEF GenerationInv, JobInv, JobFacts, TypeOK, TaskStage, LoopAt
  <2> QED BY <2>1 DEF Create, GenerationInv, TypeOK
<1>5. history[j].state = "none"
  BY <1>0 DEF GenerationInv, JobInv, JobFacts
<1>6. JobFacts(j)' /\ (~cut => ContentFacts(j)')
  BY <1>0, <1>1, <1>4, <1>5 DEF JobFacts, ContentFacts, LoopAt
<1>7. JobInv' /\ ContentInv'
  BY <1>0, <1>1, <1>4, <1>6, OtherJobs DEF GenerationInv
<1>8. ProductInv'
  BY <1>0, <1>1 DEF GenerationInv, ProductInv, Active
<1>9. DiskInv' /\ StoreTypeOK'
  <2>1. \A k \in Jobs : jobs[k].status \in Settled => jobs'[k].status = jobs[k].status
    BY <1>0, <1>1 DEF Settled
  <2>2. SavesOrRaises
    BY DEF Create, SavesOrRaises
  <2> QED BY <1>0, <1>2, <1>7, <2>1, <2>2, DiskSavedOrKept DEF GenerationInv, TypeOK
<1>10. TypeOK'
  BY <1>0, <1>2, <1>3, <1>9 DEF TypeOK
<1>11. LoopInv'
  BY <1>0 DEF LoopInv
<1> QED BY <1>7, <1>8, <1>9, <1>10, <1>11 DEF GenerationInv

\* run_generation up to its last await: the task is running, the job in progress.
LEMMA RunStep ==
  ASSUME GenerationInv, NEW j \in Jobs, Run(j)
  PROVE  GenerationInv'
<1>0. /\ TypeOK /\ LoopInv /\ loop = None /\ UNCHANGED <<history, unsaved, cut, restarts>>
      /\ JobFacts(j) /\ (~cut => ContentFacts(j))
      /\ task \in [Jobs -> TaskStage] /\ jobs \in [Jobs -> Job]
  BY DEF GenerationInv, Run, Start, Generate, GenerateRaises, FinishResult, StepUnchanged, ghosts,
         TypeOK, JobInv, ContentInv
<1>1. CASE Start(j)
  <2>1. /\ jobs' = [jobs EXCEPT ![j].status = "processing"] /\ UNCHANGED <<loop, disk, thread>>
        /\ task' = [task EXCEPT ![j] = "running"] /\ jobs[j].status = "queued" /\ j \notin unsaved
    BY <1>0, <1>1 DEF Start, JobFacts
  <2>2. /\ jobs' \in [Jobs -> Job] /\ jobs'[j].status = "processing"
        /\ jobs'[j].product = jobs[j].product /\ \A k \in Jobs \ {j} : jobs'[k] = jobs[k]
    BY <1>0, <2>1, StatusSet DEF Status
  <2>3. JobFacts(j)' /\ (~cut => ContentFacts(j)')
    BY <1>0, <2>1, <2>2 DEF JobFacts, ContentFacts, LoopAt
  <2>4. JobInv' /\ ContentInv'
    BY <1>0, <2>1, <2>2, <2>3, OtherJobs DEF GenerationInv
  <2>5. ProductInv' /\ DiskInv'
    BY <1>0, <2>1, <2>2, ProductKept, DiskKept DEF GenerationInv, Active, Settled
  <2>6. TypeOK' /\ LoopInv'
    BY <1>0, <2>1, <2>2 DEF TypeOK, StoreTypeOK, Store!ThreadTypeOK, Store!NoThread, LoopInv, TaskStage
  <2> QED BY <2>4, <2>5, <2>6 DEF GenerationInv
<1>2. CASE Generate(j)
  <2>1. /\ jobs' = [jobs EXCEPT ![j].completed_count = @ + 1] /\ UNCHANGED <<task, loop, disk, thread>>
        /\ jobs[j].completed_count < TotalCount /\ jobs[j].status = "processing"
    BY <1>0, <1>2 DEF Generate, MoreToGenerate, JobFacts, LoopAt
  <2>2. /\ jobs' \in [Jobs -> Job] /\ jobs'[j].status = "processing"
        /\ jobs'[j].product = jobs[j].product /\ \A k \in Jobs \ {j} : jobs'[k] = jobs[k]
    BY <1>0, <2>1, GenerationFacts DEF Job
  <2>3. JobFacts(j)' /\ (~cut => ContentFacts(j)')
    BY <1>0, <2>1, <2>2 DEF JobFacts, ContentFacts, LoopAt
  <2>4. JobInv' /\ ContentInv'
    BY <1>0, <2>1, <2>2, <2>3, OtherJobs DEF GenerationInv
  <2>5. ProductInv' /\ DiskInv'
    BY <1>0, <2>1, <2>2, ProductKept, DiskKept DEF GenerationInv, Active, Settled
  <2>6. TypeOK' /\ LoopInv'
    BY <1>0, <2>1, <2>2 DEF TypeOK, StoreTypeOK, Store!ThreadTypeOK, Store!NoThread, LoopInv
  <2> QED BY <2>4, <2>5, <2>6 DEF GenerationInv
<1>3. CASE GenerateRaises(j)
  <2>1. /\ jobs' = [jobs EXCEPT ![j].status = "failed"] /\ UNCHANGED loop
        /\ task' = [task EXCEPT ![j] = "none"] /\ SavesOrRaises /\ jobs[j].status = "processing"
    BY <1>0, <1>3 DEF GenerateRaises, StatusAfterRaise, JobFacts, LoopAt
  <2>2. /\ jobs' \in [Jobs -> Job] /\ jobs'[j].status = "failed"
        /\ \A k \in Jobs \ {j} : jobs'[k] = jobs[k]
    BY <1>0, <2>1, StatusSet DEF Status
  <2>3. JobFacts(j)' /\ (~cut => ContentFacts(j)')
    BY <1>0, <2>1, <2>2 DEF JobFacts, ContentFacts, LoopAt
  <2>4. JobInv' /\ ContentInv'
    BY <1>0, <2>1, <2>2, <2>3, OtherJobs DEF GenerationInv
  <2>5. ProductInv'
    BY <2>2, ProductKept DEF GenerationInv, Active
  <2>6. DiskInv' /\ StoreTypeOK'
    <3>1. \A k \in Jobs : jobs[k].status \in Settled => jobs'[k].status = jobs[k].status
      BY <2>1, <2>2 DEF Settled
    <3> QED BY <1>0, <2>1, <2>2, <2>4, <3>1, DiskSavedOrKept DEF GenerationInv, TypeOK
  <2>7. TypeOK' /\ LoopInv'
    BY <1>0, <2>1, <2>2, <2>6 DEF TypeOK, StoreTypeOK, Store!ThreadTypeOK, Store!NoThread, LoopInv, TaskStage
  <2> QED BY <2>4, <2>5, <2>6, <2>7 DEF GenerationInv
<1>4. CASE FinishResult(j)
  <2>1. /\ jobs' = [jobs EXCEPT ![j].result = [i \in Items |-> MadeResult]]
        /\ loop' = [step |-> "result", job |-> j, item |-> None, copy |-> None, rendered |-> {}]
        /\ UNCHANGED <<task, disk, thread>>
        /\ jobs[j].completed_count = TotalCount /\ jobs[j].status = "processing"
    BY <1>0, <1>4 DEF FinishResult, StepUnchanged, JobFacts, LoopAt
  <2>2. /\ jobs' \in [Jobs -> Job] /\ jobs'[j].status = "processing"
        /\ jobs'[j].product = jobs[j].product /\ jobs'[j].completed_count = TotalCount
        /\ jobs'[j].result = [i \in Items |-> MadeResult]
        /\ \A k \in Jobs \ {j} : jobs'[k] = jobs[k]
    BY <1>0, <2>1, ResultSet, GenerationFacts
  <2>3. loop' \in Handler
    BY <2>1 DEF Handler, Step
  <2>4. JobFacts(j)' /\ (~cut => ContentFacts(j)')
    BY <1>0, <2>1, <2>2 DEF JobFacts, ContentFacts, LoopAt
  <2>5. JobInv' /\ ContentInv'
    BY <1>0, <2>1, <2>2, <2>4, OtherJobs DEF GenerationInv
  <2>6. ProductInv' /\ DiskInv'
    BY <1>0, <2>1, <2>2, ProductKept, DiskKept DEF GenerationInv, Active, Settled
  <2>7. TypeOK' /\ LoopInv'
    BY <1>0, <2>1, <2>2, <2>3 DEF TypeOK, StoreTypeOK, Store!ThreadTypeOK, Store!NoThread, LoopInv, UpdateSteps, RenderedSteps
  <2> QED BY <2>5, <2>6, <2>7 DEF GenerationInv
<1> QED BY <1>1, <1>2, <1>3, <1>4 DEF Run

\* The end of run_generation: results, status, history entry and save().
LEMMA FinishStep ==
  ASSUME GenerationInv, FinishStatus \/ FinishHistory \/ FinishSave
  PROVE  GenerationInv'
<1> PICK j \in Jobs : loop.job = j
  BY DEF GenerationInv, FinishStatus, FinishHistory, FinishSave, AtStep, TypeOK, Handler
<1>0. /\ TypeOK /\ loop # None /\ loop \in Handler
      /\ JobFacts(j) /\ (~cut => ContentFacts(j)) /\ UNCHANGED <<unsaved, cut, restarts>>
      /\ task \in [Jobs -> TaskStage] /\ jobs \in [Jobs -> Job] /\ history \in [Jobs -> Entry]
  BY DEF GenerationInv, FinishStatus, FinishHistory, FinishSave, StepUnchanged, ghosts, AtStep,
         TypeOK, Handler, JobInv, ContentInv
<1>1. CASE FinishStatus
  <2>1. /\ jobs' = [jobs EXCEPT ![j].status = "completed"] /\ UNCHANGED <<task, history, disk, thread>>
        /\ ToStep("completed") /\ LoopAt(j, {"result"})
    BY <1>1 DEF FinishStatus, StepUnchanged, AtStep, LoopAt
  <2>2. /\ jobs[j].status = "processing" /\ jobs[j].completed_count = TotalCount
        /\ jobs[j].result = [i \in Items |-> MadeResult] /\ history[j].state = "none"
        /\ task[j] = "running" /\ j \notin unsaved
    BY <1>0, <2>1 DEF JobFacts
  <2>3. /\ jobs' \in [Jobs -> Job] /\ jobs'[j].status = "completed"
        /\ jobs'[j].completed_count = TotalCount /\ jobs'[j].result = [i \in Items |-> MadeResult]
        /\ \A k \in Jobs \ {j} : jobs'[k] = jobs[k]
    BY <1>0, <2>1, <2>2, StatusSet DEF Status
  <2>4. loop' \in Handler /\ loop' # None /\ loop'.step = "completed" /\ loop'.job = j
    BY <1>0, <2>1, StepSet DEF Step
  <2>5. [i \in Items |-> MadeResult] # None
    BY GenerationFacts
  <2>6. JobFacts(j)'
    BY <2>1, <2>2, <2>3, <2>4, <2>5, <1>0 DEF JobFacts, LoopAt
  <2>7. ContentFacts(j)'
    <3>1. \A i \in Items : ShowsItsCopy(jobs'[j].result[i])
      BY <2>3 DEF ShowsItsCopy, MadeResult
    <3>2. ASSUME NEW i \in Items PROVE ItemFacts(j, i)'
      BY <2>1, <2>2, <2>4, <3>1 DEF ItemFacts, LoopOn, LoopAt, RenderedSteps, ShowsItsCopy
    <3> QED BY <2>1, <2>2, <2>3, <2>4, <3>2 DEF ContentFacts, LoopAt
  <2>8. JobInv' /\ ContentInv'
    BY <1>0, <2>1, <2>3, <2>4, <2>6, <2>7, OtherJobs DEF GenerationInv
  <2>9. ProductInv' /\ DiskInv'
    BY <1>0, <2>1, <2>2, <2>3, ProductKept, DiskKept DEF GenerationInv, Active, Settled
  <2>10. TypeOK' /\ LoopInv'
    BY <1>0, <2>1, <2>3, <2>4 DEF TypeOK, StoreTypeOK, Store!ThreadTypeOK, Store!NoThread, LoopInv, UpdateSteps, RenderedSteps
  <2> QED BY <2>8, <2>9, <2>10 DEF GenerationInv
<1>2. CASE FinishHistory
  <2>1. /\ history' = [history EXCEPT ![j] = SharedEntry] /\ UNCHANGED <<task, jobs, disk, thread>>
        /\ ToStep("recorded") /\ LoopAt(j, {"completed"}) /\ loop.step = "completed"
    BY <1>2 DEF FinishHistory, StepUnchanged, AtStep, LoopAt
  <2>2. /\ jobs[j].status = "completed" /\ jobs[j].completed_count = TotalCount
        /\ jobs[j].result # None /\ task[j] = "running" /\ j \notin unsaved
    BY <1>0, <2>1 DEF JobFacts, LoopAt, Step
  <2>3. /\ history' \in [Jobs -> Entry] /\ history'[j].state = "shared"
        /\ \A k \in Jobs \ {j} : history'[k] = history[k]
    BY <1>0, <2>1 DEF SharedEntry, Entry
  <2>4. loop' \in Handler /\ loop' # None /\ loop'.step = "recorded" /\ loop'.job = j
    BY <1>0, <2>1, StepSet DEF Step
  <2>5. JobFacts(j)'
    BY <2>1, <2>2, <2>3, <2>4, <1>0 DEF JobFacts, LoopAt
  <2>6. ASSUME ~cut PROVE ContentFacts(j)'
    <3>1. ASSUME NEW i \in Items PROVE ItemFacts(j, i)'
      <4>1. ItemFacts(j, i)
        BY <1>0, <2>2, <2>6 DEF ContentFacts
      <4> QED BY <2>1, <2>3, <2>4, <4>1 DEF ItemFacts, LoopOn, LoopAt, RenderedSteps, ShowsItsCopy
    <3> QED BY <2>1, <2>2, <2>3, <2>4, <3>1 DEF ContentFacts, LoopAt
  <2>7. JobInv' /\ ContentInv'
    BY <1>0, <2>1, <2>3, <2>4, <2>5, <2>6, OtherJobs DEF GenerationInv
  <2>8. ProductInv' /\ DiskInv'
    BY <1>0, <2>1, ProductKept, DiskKept DEF GenerationInv
  <2>9. TypeOK' /\ LoopInv'
    BY <1>0, <2>1, <2>3, <2>4 DEF TypeOK, StoreTypeOK, Store!ThreadTypeOK, Store!NoThread, LoopInv, UpdateSteps, RenderedSteps
  <2> QED BY <2>7, <2>8, <2>9 DEF GenerationInv
<1>3. CASE FinishSave
  <2>1. /\ task' = [task EXCEPT ![j] = "none"] /\ loop' = None /\ UNCHANGED <<jobs, history>>
        /\ SavesOrRaises /\ LoopAt(j, {"recorded"})
    BY <1>3 DEF FinishSave, AtStep, LoopAt
  <2>2. jobs[j].status = "completed" /\ j \notin unsaved
    BY <1>0, <2>1 DEF JobFacts, LoopAt, Step
  <2>3. JobFacts(j)'
    BY <2>1, <2>2, <1>0 DEF JobFacts, LoopAt
  <2>4. ASSUME ~cut PROVE ContentFacts(j)'
    <3>1. ASSUME NEW i \in Items PROVE ItemFacts(j, i)'
      <4>1. ItemFacts(j, i)
        BY <1>0, <2>2, <2>4 DEF ContentFacts
      <4> QED BY <2>1, <4>1 DEF ItemFacts, LoopOn, LoopAt, RenderedSteps, ShowsItsCopy
    <3> QED BY <1>0, <2>1, <2>2, <2>4, <3>1 DEF ContentFacts, LoopAt
  <2>5. JobInv' /\ ContentInv'
    BY <1>0, <2>1, <2>3, <2>4, OtherJobs DEF GenerationInv
  <2>6. DiskInv' /\ StoreTypeOK'
    BY <1>0, <2>1, <2>5, DiskSavedOrKept DEF GenerationInv
  <2>7. ProductInv'
    BY <2>1, ProductKept DEF GenerationInv
  <2>8. TypeOK' /\ LoopInv'
    BY <1>0, <2>1, <2>6 DEF TypeOK, StoreTypeOK, Store!ThreadTypeOK, Store!NoThread, LoopInv, TaskStage
  <2> QED BY <2>5, <2>6, <2>7, <2>8 DEF GenerationInv
<1> QED BY <1>1, <1>2, <1>3

\* update_copy() before it changes anything: begin, render, refuse.
LEMMA UpdateBeginStep ==
  ASSUME GenerationInv,
         \/ \E j \in Jobs, i \in Items, c \in Edits : UpdateBegin(j, i, c)
         \/ \E f \in Formats : UpdateRender(f)
         \/ UpdateRefused
  PROVE  GenerationInv'
<1>0. /\ TypeOK /\ UNCHANGED <<jobs, history, task, disk, thread, unsaved, cut, restarts>>
  BY DEF GenerationInv, UpdateBegin, UpdateRender, UpdateRefused, StepUnchanged, ghosts
<1>1. PICK j \in Jobs :
        /\ loop # None => loop.job = j /\ loop.step = "render"
        /\ loop' # None =>
             /\ loop'.job = j /\ loop'.step = "render" /\ jobs[j].status = "completed"
             /\ loop'.item \in Items /\ loop'.copy \in Edits
        /\ loop' \in Handler \cup {None}
  <2>1. ASSUME NEW j \in Jobs, NEW i \in Items, NEW c \in Edits, UpdateBegin(j, i, c)
        PROVE  /\ loop = None /\ jobs[j].status = "completed" /\ loop' \in Handler
               /\ loop'.job = j /\ loop'.step = "render" /\ loop'.item = i /\ loop'.copy = c
    BY <2>1 DEF UpdateBegin, Handler, Step, Copy
  <2>2. ASSUME NEW f \in Formats, UpdateRender(f)
        PROVE  /\ loop # None /\ loop.step = "render" /\ loop.job \in Jobs
               /\ loop.item \in Items /\ loop.copy \in Edits
               /\ jobs[loop.job].status = "completed" /\ loop' \in Handler
               /\ loop'.job = loop.job /\ loop'.step = "render"
               /\ loop'.item = loop.item /\ loop'.copy = loop.copy
    <3>1. loop \in Handler /\ loop # None /\ loop.step = "render" /\ loop.job \in Jobs
          /\ loop' = [loop EXCEPT !.rendered = @ \cup {f}]
      BY <2>2, <1>0 DEF UpdateRender, AtStep, TypeOK, Handler
    <3>2. loop.item \in Items /\ loop.copy \in Edits
      BY <3>1 DEF GenerationInv, LoopInv, UpdateSteps
    <3>3. jobs[loop.job].status = "completed"
      BY <3>1 DEF GenerationInv, JobInv, JobFacts, LoopAt, Step
    <3> QED BY <3>1, <3>2, <3>3 DEF Handler
  <2>3. CASE UpdateRefused
    <3>1. loop \in Handler /\ loop # None /\ loop.step = "render" /\ loop.job \in Jobs /\ loop' = None
      BY <2>3, <1>0 DEF UpdateRefused, AtStep, TypeOK, Handler
    <3> QED BY <3>1
  <2> QED BY <2>1, <2>2, <2>3
<1>2. JobFacts(j) /\ (~cut => ContentFacts(j))
  BY DEF GenerationInv, JobInv, ContentInv
<1>3. JobFacts(j)'
  BY <1>0, <1>1, <1>2 DEF JobFacts, LoopAt
<1>4. ASSUME ~cut PROVE ContentFacts(j)'
  <2>1. ASSUME NEW i \in Items, ItemFacts(j, i) PROVE ItemFacts(j, i)'
    BY <1>0, <1>1, <2>1 DEF ItemFacts, LoopOn, LoopAt, RenderedSteps, ShowsItsCopy
  <2> QED BY <1>0, <1>1, <1>2, <1>4, <2>1 DEF ContentFacts, LoopAt
<1>5. JobInv' /\ ContentInv'
  BY <1>0, <1>1, <1>3, <1>4, OtherJobs DEF GenerationInv
<1>6. ProductInv' /\ DiskInv'
  BY <1>0, ProductKept, DiskKept DEF GenerationInv
<1>7. TypeOK' /\ LoopInv'
  BY <1>0, <1>1 DEF TypeOK, StoreTypeOK, Store!ThreadTypeOK, Store!NoThread, LoopInv, RenderedSteps
<1> QED BY <1>5, <1>6, <1>7 DEF GenerationInv

\* The changes of update_copy, with every format rendered: what ItemFacts says
\* of one step becomes what it says of the next.
LEMMA UpdateStep ==
  ASSUME GenerationInv, NEW step \in UpdateSteps, AtStep(step),
         loop.rendered = Formats, StepUnchanged, loop' # None, loop'.step \in RenderedSteps,
         loop' \in Handler, loop'.job = loop.job, loop'.item = loop.item,
         loop'.copy = loop.copy, loop'.rendered = loop.rendered,
         jobs' \in [Jobs -> Job], history' \in [Jobs -> Entry],
         \A k \in Jobs \ {loop.job} : jobs'[k] = jobs[k] /\ history'[k] = history[k],
         jobs'[loop.job].status = "completed",
         jobs'[loop.job].completed_count = jobs[loop.job].completed_count,
         jobs'[loop.job].result \in Results,
         history'[loop.job].state = history[loop.job].state,
         history'[loop.job].state = "own" => history'[loop.job].results \in Results,
         \A j \in Jobs, i \in Items :
           j = loop.job /\ ItemFacts(j, i) => ItemFacts(j, i)'
  PROVE  GenerationInv'
<1> PICK j \in Jobs : loop.job = j
  BY DEF GenerationInv, AtStep, TypeOK, Handler
<1>0. /\ TypeOK /\ loop # None /\ LoopAt(j, UpdateSteps)
      /\ UNCHANGED <<task, disk, thread, unsaved, cut, restarts>>
      /\ JobFacts(j) /\ (~cut => ContentFacts(j))
  BY DEF GenerationInv, AtStep, LoopAt, StepUnchanged, ghosts, JobInv, ContentInv
<1>1. jobs[j].status = "completed"
  BY <1>0 DEF JobFacts, LoopAt, UpdateSteps, Step
<1>2. JobFacts(j)'
  BY <1>0, <1>1, GenerationFacts DEF JobFacts, LoopAt, UpdateSteps, RenderedSteps
<1>3. ASSUME ~cut PROVE ContentFacts(j)'
  <2>1. \A i \in Items : ItemFacts(j, i)'
    BY <1>0, <1>1, <1>3 DEF ContentFacts
  <2> QED BY <1>0, <1>1, <1>3, <2>1 DEF ContentFacts, LoopAt, UpdateSteps, RenderedSteps
<1>4. JobInv' /\ ContentInv'
  BY <1>0, <1>2, <1>3, OtherJobs DEF GenerationInv
<1>5. ProductInv' /\ DiskInv'
  BY <1>0, <1>1, ProductKept, DiskKept DEF GenerationInv, Active
<1>6. TypeOK' /\ LoopInv'
  BY <1>0 DEF TypeOK, StoreTypeOK, Store!ThreadTypeOK, Store!NoThread, GenerationInv, LoopInv, LoopAt
<1> QED BY <1>4, <1>5, <1>6 DEF GenerationInv

LEMMA UpdateTargetStep ==
  ASSUME GenerationInv, UpdateTargetCopy \/ UpdateTargetImages
  PROVE  GenerationInv'
<1> PICK j \in Jobs : loop.job = j
  BY DEF GenerationInv, UpdateTargetCopy, UpdateTargetImages, AtStep, TypeOK, Handler
<1> PICK i \in Items : loop.item = i /\ loop.copy \in Copy
  BY DEF GenerationInv, LoopInv, UpdateTargetCopy, UpdateTargetImages, AtStep, UpdateSteps, Copy
<1>0. /\ TypeOK /\ loop # None /\ StepUnchanged /\ UNCHANGED history /\ loop.rendered = Formats
      /\ history' \in [Jobs -> Entry] /\ JobFacts(j)
      /\ jobs[j].status = "completed" /\ jobs[j].result \in Results
  <2>1. /\ TypeOK /\ JobFacts(j) /\ LoopAt(j, {"render", "copy"})
    BY DEF GenerationInv, UpdateTargetCopy, UpdateTargetImages, AtStep, LoopAt, JobInv
  <2>2. jobs[j].status = "completed" /\ jobs[j].result \in Results
    BY <2>1 DEF JobFacts, LoopAt, Step, TypeOK, Job
  <2>3. loop.rendered = Formats
    BY DEF GenerationInv, LoopInv, UpdateTargetCopy, UpdateTargetImages, AtStep, RenderedSteps,
           AllRendered
  <2> QED BY <2>1, <2>2, <2>3
      DEF UpdateTargetCopy, UpdateTargetImages, AtStep, TypeOK
<1>1. CASE UpdateTargetCopy
  <2> DEFINE r == [jobs[j].result EXCEPT ![i].copy = loop.copy]
  <2>1. jobs' = [jobs EXCEPT ![j].result = r] /\ AtStep("render") /\ ToStep("copy")
    BY <1>1 DEF UpdateTargetCopy
  <2>2. /\ r \in Results /\ r[i].copy = loop.copy /\ r[i].images = jobs[j].result[i].images
        /\ \A k \in Items \ {i} : r[k] = jobs[j].result[k]
    BY <1>0, ToneSet, GenerationSetsAssumption DEF Results, ToneResult
  <2> HIDE DEF r
  <2>3. /\ jobs' \in [Jobs -> Job] /\ jobs'[j].status = "completed" /\ jobs'[j].result = r
        /\ jobs'[j].completed_count = jobs[j].completed_count
        /\ \A k \in Jobs \ {j} : jobs'[k] = jobs[k]
    BY <1>0, <2>1, <2>2, ResultSet
  <2>4. /\ loop' \in Handler /\ loop' # None /\ loop'.step = "copy" /\ loop'.job = j
        /\ loop'.item = i /\ loop'.copy = loop.copy /\ loop'.rendered = loop.rendered
    BY <1>0, <2>1, StepSet DEF Step
  <2>5. ASSUME NEW k \in Items, ItemFacts(j, k) PROVE ItemFacts(j, k)'
    <3>1. CASE k = i
      BY <1>0, <2>1, <2>2, <2>3, <2>4, <2>5, <3>1
         DEF ItemFacts, LoopOn, LoopAt, RenderedSteps, AtStep, ShowsItsCopy
    <3>2. CASE k # i
      BY <1>0, <2>1, <2>2, <2>3, <2>4, <2>5, <3>2
         DEF ItemFacts, LoopOn, LoopAt, RenderedSteps, AtStep, ShowsItsCopy
    <3> QED BY <3>1, <3>2
  <2>6. "render" \in UpdateSteps /\ "copy" \in RenderedSteps
        /\ (history[j].state = "own" => history[j].results \in Results)
    BY <1>0 DEF UpdateSteps, RenderedSteps, JobFacts
  <2> QED BY <1>0, <2>1, <2>2, <2>3, <2>4, <2>5, <2>6, UpdateStep
<1>2. CASE UpdateTargetImages
  <2> DEFINE m == [f \in Formats |-> loop.copy]
             r == [jobs[j].result EXCEPT ![i].images = m]
  <2>1. jobs' = [jobs EXCEPT ![j].result = r] /\ AtStep("copy") /\ ToStep("images")
    BY <1>0, <1>2, AllNew DEF UpdateTargetImages
  <2>2. /\ r \in Results /\ r[i].copy = jobs[j].result[i].copy /\ r[i].images = m
        /\ m \in [Formats -> Copy]
        /\ \A k \in Items \ {i} : r[k] = jobs[j].result[k]
    <3>1. m \in [Formats -> Copy]
      OBVIOUS
    <3>2. jobs[j].result \in Results
      BY <1>0
    <3> HIDE DEF m
    <3> QED BY <3>1, <3>2, ToneSet DEF Results, ToneResult
  <2>3. \A f \in Formats : r[i].images[f] = loop.copy
    BY <2>2
  <2> HIDE DEF r, m
  <2>4. /\ jobs' \in [Jobs -> Job] /\ jobs'[j].status = "completed" /\ jobs'[j].result = r
        /\ jobs'[j].completed_count = jobs[j].completed_count
        /\ \A k \in Jobs \ {j} : jobs'[k] = jobs[k]
    BY <1>0, <2>1, <2>2, ResultSet
  <2>5. /\ loop' \in Handler /\ loop' # None /\ loop'.step = "images" /\ loop'.job = j
        /\ loop'.item = i /\ loop'.copy = loop.copy /\ loop'.rendered = loop.rendered
    BY <1>0, <2>1, StepSet DEF Step
  <2>6. ASSUME NEW k \in Items, ItemFacts(j, k) PROVE ItemFacts(j, k)'
    <3>1. CASE k = i
      <4>1. jobs[j].result[i].copy = loop.copy
        BY <1>0, <2>1, <2>6, <3>1 DEF ItemFacts, LoopOn, LoopAt, RenderedSteps, AtStep
      <4>2. ShowsItsCopy(jobs'[j].result[i])
        BY <2>2, <2>3, <2>4, <4>1 DEF ShowsItsCopy
      <4> QED BY <1>0, <2>1, <2>2, <2>4, <2>5, <2>6, <3>1, <4>1, <4>2
         DEF ItemFacts, LoopOn, LoopAt, RenderedSteps, AtStep, ShowsItsCopy
    <3>2. CASE k # i
      BY <1>0, <2>1, <2>2, <2>4, <2>5, <2>6, <3>2
         DEF ItemFacts, LoopOn, LoopAt, RenderedSteps, AtStep, ShowsItsCopy
    <3> QED BY <3>1, <3>2
  <2>7. "copy" \in UpdateSteps /\ "images" \in RenderedSteps
        /\ (history[j].state = "own" => history[j].results \in Results)
    BY <1>0 DEF UpdateSteps, RenderedSteps, JobFacts
  <2> QED BY <1>0, <2>1, <2>2, <2>4, <2>5, <2>6, <2>7, UpdateStep
<1> QED BY <1>1, <1>2

LEMMA UpdateEntryStep ==
  ASSUME GenerationInv, UpdateEntryCopy \/ UpdateEntryImages
  PROVE  GenerationInv'
<1> PICK j \in Jobs : loop.job = j
  BY DEF GenerationInv, UpdateEntryCopy, UpdateEntryImages, AtStep, TypeOK, Handler
<1> PICK i \in Items : loop.item = i /\ loop.copy \in Copy
  BY DEF GenerationInv, LoopInv, UpdateEntryCopy, UpdateEntryImages, AtStep, UpdateSteps, Copy
<1>0. /\ TypeOK /\ loop # None /\ StepUnchanged /\ UNCHANGED jobs /\ loop.rendered = Formats
      /\ jobs' \in [Jobs -> Job] /\ history \in [Jobs -> Entry] /\ JobFacts(j)
      /\ jobs[j].status = "completed" /\ jobs[j].result \in Results
      /\ (history[j].state = "own" => history[j].results \in Results)
  <2>1. /\ TypeOK /\ JobFacts(j) /\ LoopAt(j, {"images", "entry_copy"})
    BY DEF GenerationInv, UpdateEntryCopy, UpdateEntryImages, AtStep, LoopAt, JobInv
  <2>2. jobs[j].status = "completed" /\ jobs[j].result \in Results
        /\ (history[j].state = "own" => history[j].results \in Results)
    BY <2>1 DEF JobFacts, LoopAt, Step, TypeOK, Job
  <2>3. loop.rendered = Formats
    BY DEF GenerationInv, LoopInv, UpdateEntryCopy, UpdateEntryImages, AtStep, RenderedSteps
  <2> QED BY <2>1, <2>2, <2>3 DEF UpdateEntryCopy, UpdateEntryImages, AtStep, TypeOK
<1>1. ASSUME NEW step \in {"images", "entry_copy"}, NEW next \in {"entry_copy", "entry_images"},
             AtStep(step), ToStep(next), history' \in [Jobs -> Entry],
             history'[j].state = history[j].state,
             history'[j].state = "own" => history'[j].results \in Results,
             \A k \in Jobs \ {j} : history'[k] = history[k],
             \A k \in Items : ItemFacts(j, k) => ItemFacts(j, k)'
      PROVE  GenerationInv'
  <2>1. /\ loop' \in Handler /\ loop' # None /\ loop'.step = next /\ loop'.job = j
        /\ loop'.item = i /\ loop'.copy = loop.copy /\ loop'.rendered = loop.rendered
    BY <1>0, <1>1, StepSet DEF Step
  <2>2. step \in UpdateSteps /\ next \in RenderedSteps
    BY DEF UpdateSteps, RenderedSteps
  <2>3. /\ jobs'[j].status = "completed" /\ jobs'[j].completed_count = jobs[j].completed_count
        /\ jobs'[j].result \in Results /\ \A k \in Jobs \ {j} : jobs'[k] = jobs[k]
    BY <1>0
  <2> QED BY <1>0, <1>1, <2>1, <2>2, <2>3, UpdateStep
<1>2. CASE UpdateEntryCopy
  <2>1. AtStep("images") /\ ToStep("entry_copy")
    BY <1>2 DEF UpdateEntryCopy
  <2>2. /\ loop' # None /\ loop'.step = "entry_copy" /\ loop'.job = j
        /\ loop'.item = i /\ loop'.copy = loop.copy
    BY <1>0, <2>1, StepSet DEF Step
  <2>3. CASE history[j].state # "own"
    <3>1. UNCHANGED history
      BY <1>2, <2>3 DEF UpdateEntryCopy, OwnsResults
    <3>2. ASSUME NEW k \in Items, ItemFacts(j, k) PROVE ItemFacts(j, k)'
      BY <1>0, <2>1, <2>2, <2>3, <3>1, <3>2
         DEF ItemFacts, LoopOn, LoopAt, RenderedSteps, AtStep, ShowsItsCopy
    <3> QED BY <1>0, <1>1, <2>1, <3>1, <3>2
  <2>4. CASE history[j].state = "own"
    <3> DEFINE r == [history[j].results EXCEPT ![i].copy = loop.copy]
    <3>1. history' = [history EXCEPT ![j].results = r]
      BY <1>2, <2>4 DEF UpdateEntryCopy, OwnsResults
    <3>2. /\ r \in Results /\ r[i].copy = loop.copy /\ r[i].images = history[j].results[i].images
          /\ \A k \in Items \ {i} : r[k] = history[j].results[k]
      BY <1>0, <2>4, ToneSet, GenerationSetsAssumption DEF Results, ToneResult
    <3> HIDE DEF r
    <3>3. /\ history' \in [Jobs -> Entry] /\ history'[j].state = "own" /\ history'[j].results = r
          /\ \A k \in Jobs \ {j} : history'[k] = history[k]
      BY <1>0, <2>4, <3>1, <3>2, EntrySet
    <3>4. ASSUME NEW k \in Items, ItemFacts(j, k) PROVE ItemFacts(j, k)'
      <4>1. CASE k = i
        BY <1>0, <2>1, <2>2, <2>4, <3>2, <3>3, <3>4, <4>1
           DEF ItemFacts, LoopOn, LoopAt, RenderedSteps, AtStep, ShowsItsCopy
      <4>2. CASE k # i
        BY <1>0, <2>1, <2>2, <2>4, <3>2, <3>3, <3>4, <4>2
           DEF ItemFacts, LoopOn, LoopAt, RenderedSteps, AtStep, ShowsItsCopy
      <4> QED BY <4>1, <4>2
    <3> QED BY <1>1, <2>1, <2>4, <3>2, <3>3, <3>4
  <2> QED BY <2>3, <2>4
<1>3. CASE UpdateEntryImages
  <2>1. AtStep("entry_copy") /\ ToStep("entry_images")
    BY <1>3 DEF UpdateEntryImages
  <2>2. /\ loop' # None /\ loop'.step = "entry_images" /\ loop'.job = j
        /\ loop'.item = i /\ loop'.copy = loop.copy
    BY <1>0, <2>1, StepSet DEF Step
  <2>3. CASE history[j].state # "own"
    <3>1. UNCHANGED history
      BY <1>3, <2>3 DEF UpdateEntryImages, OwnsResults
    <3>2. ASSUME NEW k \in Items, ItemFacts(j, k) PROVE ItemFacts(j, k)'
      BY <1>0, <2>1, <2>2, <2>3, <3>1, <3>2
         DEF ItemFacts, LoopOn, LoopAt, RenderedSteps, AtStep, ShowsItsCopy
    <3> QED BY <1>0, <1>1, <2>1, <3>1, <3>2
  <2>4. CASE history[j].state = "own"
    <3> DEFINE m == [f \in Formats |-> loop.copy]
               r == [history[j].results EXCEPT ![i].images = m]
    <3>1. history' = [history EXCEPT ![j].results = r]
      BY <1>0, <1>3, <2>4, AllNew DEF UpdateEntryImages, OwnsResults
    <3>2. /\ r \in Results /\ r[i].copy = history[j].results[i].copy /\ r[i].images = m
          /\ \A k \in Items \ {i} : r[k] = history[j].results[k]
      <4>1. m \in [Formats -> Copy]
        OBVIOUS
      <4> HIDE DEF m
      <4> QED BY <1>0, <2>4, <4>1, ToneSet DEF Results, ToneResult
    <3>3. \A f \in Formats : m[f] = loop.copy
      OBVIOUS
    <3> HIDE DEF r, m
    <3>4. /\ history' \in [Jobs -> Entry] /\ history'[j].state = "own" /\ history'[j].results = r
          /\ \A k \in Jobs \ {j} : history'[k] = history[k]
      BY <1>0, <2>4, <3>1, <3>2, EntrySet
    <3>5. ASSUME NEW k \in Items, ItemFacts(j, k) PROVE ItemFacts(j, k)'
      <4>1. CASE k = i
        <5>1. history[j].results[i].copy = loop.copy
          BY <1>0, <2>1, <2>4, <3>5, <4>1 DEF ItemFacts, LoopOn, LoopAt, AtStep
        <5>2. jobs[j].result[i].copy = loop.copy /\ ShowsItsCopy(jobs[j].result[i])
          BY <1>0, <2>1, <3>5, <4>1 DEF ItemFacts, LoopOn, LoopAt, RenderedSteps, AtStep
        <5>3. ShowsItsCopy(history'[j].results[i])
          BY <3>2, <3>3, <3>4, <5>1 DEF ShowsItsCopy
        <5>4. r[i] = jobs[j].result[i]
          <6>1. r[i] \in ToneResult /\ jobs[j].result[i] \in ToneResult
            BY <1>0, <3>2 DEF Results
          <6>2. \A f \in Formats : r[i].images[f] = jobs[j].result[i].images[f]
            BY <3>2, <3>3, <5>2 DEF ShowsItsCopy
          <6>3. r[i].images = jobs[j].result[i].images
            BY <6>1, <6>2 DEF ToneResult
          <6> QED BY <3>2, <5>1, <5>2, <6>1, <6>3 DEF ToneResult
        <5> QED BY <1>0, <2>1, <2>2, <3>4, <3>5, <4>1, <5>2, <5>3, <5>4
            DEF ItemFacts, LoopOn, LoopAt, RenderedSteps, AtStep, ShowsItsCopy
      <4>2. CASE k # i
        BY <1>0, <2>1, <2>2, <2>4, <3>2, <3>4, <3>5, <4>2
           DEF ItemFacts, LoopOn, LoopAt, RenderedSteps, AtStep, ShowsItsCopy
      <4> QED BY <4>1, <4>2
    <3> QED BY <1>1, <2>1, <2>4, <3>2, <3>4, <3>5
  <2> QED BY <2>3, <2>4
<1> QED BY <1>2, <1>3

LEMMA UpdateSaveStep ==
  ASSUME GenerationInv, UpdateSave
  PROVE  GenerationInv'
<1> PICK j \in Jobs : loop.job = j
  BY DEF GenerationInv, UpdateSave, AtStep, TypeOK, Handler
<1>0. /\ TypeOK /\ loop # None /\ LoopAt(j, {"entry_images"}) /\ loop' = None /\ SavesOrRaises
      /\ UNCHANGED <<jobs, history, task, unsaved, cut, restarts>>
      /\ JobFacts(j) /\ (~cut => ContentFacts(j)) /\ jobs[j].status = "completed"
  <2>1. /\ TypeOK /\ loop # None /\ LoopAt(j, {"entry_images"}) /\ loop' = None /\ SavesOrRaises
        /\ UNCHANGED <<jobs, history, task, unsaved, cut, restarts>>
        /\ JobFacts(j) /\ (~cut => ContentFacts(j))
    BY DEF GenerationInv, UpdateSave, AtStep, LoopAt, ghosts, JobInv, ContentInv
  <2> QED BY <2>1 DEF JobFacts, LoopAt, Step
<1>1. JobFacts(j)'
  BY <1>0 DEF JobFacts, LoopAt
<1>2. ASSUME ~cut PROVE ContentFacts(j)'
  <2>1. ASSUME NEW i \in Items PROVE ItemFacts(j, i)'
    <3>1. ItemFacts(j, i)
      BY <1>0, <1>2 DEF ContentFacts
    <3> QED BY <1>0, <3>1 DEF ItemFacts, LoopOn, LoopAt, ShowsItsCopy
  <2> QED BY <1>0, <1>2, <2>1 DEF ContentFacts, LoopAt
<1>3. JobInv' /\ ContentInv'
  BY <1>0, <1>1, <1>2, OtherJobs DEF GenerationInv
<1>4. DiskInv' /\ StoreTypeOK'
  BY <1>0, <1>3, DiskSavedOrKept DEF GenerationInv, TypeOK
<1>5. ProductInv'
  BY <1>0, ProductKept DEF GenerationInv
<1>6. TypeOK' /\ LoopInv'
  BY <1>0, <1>4 DEF TypeOK, StoreTypeOK, Store!ThreadTypeOK, Store!NoThread, LoopInv
<1> QED BY <1>3, <1>4, <1>5, <1>6 DEF GenerationInv

\* A save by a thread, in the middle of a handler or not, shows what the jobs
\* are; what is serialised inside a handler is marked.
LEMMA ThreadSavesStep ==
  ASSUME GenerationInv, ThreadSaves
  PROVE  GenerationInv'
<1>0. /\ TypeOK /\ UNCHANGED <<jobs, history, task, loop, unsaved, cut, restarts>>
      /\ Store!ThreadSaves(Snapshot(loop # None))
  BY DEF GenerationInv, ThreadSaves, ghosts
<1>1. JobInv' /\ ContentInv' /\ LoopInv' /\ ProductInv'
  <2>1. ASSUME NEW j \in Jobs PROVE JobFacts(j)' = JobFacts(j)
    BY <1>0 DEF JobFacts, LoopAt
  <2>2. ASSUME NEW j \in Jobs PROVE ContentFacts(j)' = ContentFacts(j)
    BY <1>0 DEF ContentFacts, ItemFacts, LoopOn, LoopAt, ShowsItsCopy
  <2> QED BY <1>0, <2>1, <2>2 DEF GenerationInv, JobInv, ContentInv, LoopInv, ProductInv
<1>2. PICK b \in BOOLEAN : b = (loop # None)
  OBVIOUS
<1>3. PICK new : new = Snapshot(b)'
  OBVIOUS
<1>4. new = Snapshot(loop # None) /\ (~b => loop' = None)
  BY <1>0, <1>2, <1>3 DEF Snapshot, SavedEntry, EntryResults
<1>5. Store!ThreadSaves(new)
  BY <1>0, <1>4
<1>6. DiskInv' /\ StoreTypeOK'
  BY <1>0, <1>1, <1>3, <1>4, <1>5, DiskSaved DEF TypeOK, GenerationInv
<1>7. TypeOK'
  BY <1>0, <1>6 DEF TypeOK
<1> QED BY <1>1, <1>6, <1>7 DEF GenerationInv

LEMMA RestartStep ==
  ASSUME GenerationInv, Restart
  PROVE  GenerationInv'
<1>0. /\ TypeOK /\ history' = disk.history /\ loop' = None /\ unsaved' = {}
      /\ cut' = (cut \/ disk.inHandler) /\ UNCHANGED disk /\ thread' = Store!NoThread(thread.count)
      /\ restarts' = restarts + 1 /\ restarts < MaxRestarts
      /\ task' = [k \in Jobs |-> "none"] /\ jobs' = [k \in Jobs |-> Recovered(disk.jobs[k])]
  BY DEF GenerationInv, Restart, Store!ThreadEnds
<1>1. ASSUME NEW j \in Jobs
      PROVE  /\ jobs'[j] \in Job /\ jobs'[j].status \notin Active
             /\ jobs'[j].status \in {"failed", disk.jobs[j].status}
             /\ jobs'[j].completed_count = disk.jobs[j].completed_count
             /\ jobs'[j].result = disk.jobs[j].result
             /\ disk.jobs[j].status \in Settled => jobs'[j].status = disk.jobs[j].status
             /\ jobs'[j].status = "completed" <=> disk.jobs[j].status = "completed"
  <2>1. disk.jobs[j] \in Job /\ jobs'[j] = Recovered(disk.jobs[j])
    BY <1>0 DEF TypeOK, StoreTypeOK, SavedData
  <2>2. CASE disk.jobs[j].status \in Active
    <3>1. jobs'[j] = [disk.jobs[j] EXCEPT !.status = "failed"]
      BY <2>1, <2>2 DEF Recovered
    <3>2. /\ jobs'[j] \in Job /\ jobs'[j].status = "failed" /\ jobs'[j].result = disk.jobs[j].result
          /\ jobs'[j].completed_count = disk.jobs[j].completed_count
      BY <2>1, <3>1 DEF Job, Status
    <3> QED BY <2>2, <3>2 DEF Active, Settled
  <2>3. CASE disk.jobs[j].status \notin Active
    BY <2>1, <2>3 DEF Recovered
  <2> QED BY <2>2, <2>3
<1>2. \A j \in Jobs : SavedFacts(disk, j)
  BY DEF GenerationInv, DiskInv
<1>3. JobInv'
  BY <1>0, <1>1, <1>2 DEF JobInv, JobFacts, SavedFacts, LoopAt, Active
<1>4. ContentInv'
  <2>1. ASSUME NEW j \in Jobs, ~cut, ~disk.inHandler PROVE ContentFacts(j)'
    <3>1. history'[j].state # "none" <=> jobs'[j].status = "completed"
      BY <1>0, <1>1, <1>2, <2>1 DEF SavedFacts
    <3>2. ASSUME jobs'[j].status = "completed", NEW i \in Items PROVE ItemFacts(j, i)'
      BY <1>0, <1>1, <1>2, <2>1, <3>2 DEF SavedFacts, ItemFacts, LoopOn, LoopAt, ShowsItsCopy
    <3> QED BY <1>0, <3>1, <3>2 DEF ContentFacts, LoopAt
  <2> QED BY <1>0, <2>1 DEF ContentInv
<1>5. DiskInv'
  <2>1. ASSUME NEW j \in Jobs PROVE SavedFacts(disk, j)'
    BY <1>0, <1>1, <1>2 DEF SavedFacts, ShowsItsCopy
  <2> QED BY <1>0, <2>1 DEF DiskInv, CleanInv, Store!NoThread
<1>6. ProductInv' /\ LoopInv'
  BY <1>0, <1>1 DEF ProductInv, LoopInv
<1>7. TypeOK'
  <2>1. jobs' \in [Jobs -> Job]
    BY <1>0, <1>1
  <2>2. restarts' \in 0..MaxRestarts
    BY <1>0, GenerationBoundAssumption DEF TypeOK
  <2>3. StoreTypeOK' /\ disk.history \in [Jobs -> Entry] /\ disk.inHandler \in BOOLEAN
    BY <1>0 DEF TypeOK, StoreTypeOK, SavedData, Store!ThreadTypeOK, Store!NoThread
  <2> QED BY <1>0, <2>1, <2>2, <2>3 DEF TypeOK, TaskStage
<1> QED BY <1>3, <1>4, <1>5, <1>6, <1>7 DEF GenerationInv

LEMMA GenerationStep == GenerationInv /\ [Next]_vars => GenerationInv'
<1> SUFFICES ASSUME GenerationInv, [Next]_vars PROVE GenerationInv'
  OBVIOUS
<1>1. CASE UNCHANGED vars
  <2>1. UNCHANGED <<jobs, history, task, loop, disk, thread, unsaved, cut, restarts>>
    BY <1>1 DEF vars, ghosts
  <2>2. TypeOK' /\ LoopInv' /\ ProductInv'
    BY <2>1 DEF GenerationInv, TypeOK, StoreTypeOK, Store!ThreadTypeOK, Store!NoThread,
       LoopInv, ProductInv
  <2>3. JobInv' /\ DiskInv'
    BY <2>1, DiskKept DEF GenerationInv, JobInv, JobFacts, LoopAt
  <2>4. ContentInv'
    BY <2>1 DEF GenerationInv, ContentInv, ContentFacts, ItemFacts, LoopOn, LoopAt, ShowsItsCopy
  <2> QED BY <2>2, <2>3, <2>4 DEF GenerationInv
<1>2. CASE Continue
  BY <1>2, FinishStep, UpdateBeginStep, UpdateTargetStep, UpdateEntryStep, UpdateSaveStep
     DEF Continue
<1> QED BY <1>1, <1>2, CreateStep, RunStep, UpdateBeginStep, ThreadSavesStep, RestartStep DEF Next

LEMMA GenerationInvariant == Spec => []GenerationInv
<1>1. Init => GenerationInv
  <2> SUFFICES ASSUME Init PROVE GenerationInv
    OBVIOUS
  <2>1. NoJob \in Job /\ NoEntry \in Entry
    BY GenerationFacts DEF NoJob, NoEntry, Job, Entry, Status
  <2>2. TypeOK
    <3>1. jobs \in [Jobs -> Job] /\ history \in [Jobs -> Entry] /\ task \in [Jobs -> TaskStage]
      BY <2>1 DEF Init, TaskStage
    <3>2. StoreTypeOK
      BY <2>1, NothingSavedFacts, GenerationBoundAssumption
         DEF Init, StoreTypeOK, Store!ThreadTypeOK, Store!NoThread
    <3>3. 0 \in 0..MaxRestarts
      BY GenerationBoundAssumption
    <3> QED BY <3>1, <3>2, <3>3 DEF Init, TypeOK
  <2>3. LoopInv /\ JobInv /\ ProductInv
    BY DEF Init, LoopInv, JobInv, JobFacts, LoopAt, ProductInv, NoJob, NoEntry, Active
  <2>4. ContentInv /\ DiskInv
    BY NothingSavedFacts
       DEF Init, ContentInv, ContentFacts, DiskInv, CleanInv, NoJob, NoEntry, LoopAt, Settled,
           Store!NoThread
  <2> QED BY <2>2, <2>3, <2>4 DEF GenerationInv
<1>2. GenerationInv /\ [Next]_vars => GenerationInv'
  BY GenerationStep
<1> QED BY <1>1, <1>2, PTL DEF Spec

(***************************************************************************)
(* What it promises.                                                       *)
(***************************************************************************)
\* Every variable has its type.
THEOREM GenerationTypeCorrect == Spec => []TypeOK
<1>1. GenerationInv => TypeOK
  BY DEF GenerationInv
<1> QED BY <1>1, GenerationInvariant, PTL

\* A job in progress has a task, or is one whose creation failed in save();
\* no other job in progress is for the same product.
THEOREM ActiveJobsServed == Spec => []ActiveJobsAreServed
<1>1. GenerationInv => ActiveJobsAreServed
  <2> SUFFICES ASSUME GenerationInv, NEW j \in Jobs, jobs[j].status \in Active
               PROVE  /\ task[j] # "none" \/ j \in unsaved
                      /\ \A k \in Jobs \ {j} :
                           jobs[k].status \in Active => jobs[k].product # jobs[j].product
    BY DEF ActiveJobsAreServed
  <2>1. task[j] # "none" \/ j \in unsaved
    BY DEF GenerationInv, JobInv, JobFacts, Active
  <2> QED BY <2>1 DEF GenerationInv, ProductInv
<1> QED BY <1>1, GenerationInvariant, PTL

\* Between two handlers the history has the completed jobs and no others, with
\* the results of the job, however often the process restarted between saves
\* of whole handlers.
THEOREM HistoryAgrees == Spec => []HistoryAgreesWithJobs
<1>1. GenerationInv => HistoryAgreesWithJobs
  <2> SUFFICES ASSUME GenerationInv, loop = None, ~cut, NEW j \in Jobs
               PROVE  /\ history[j].state # "none" <=> jobs[j].status = "completed"
                      /\ jobs[j].status = "completed" =>
                           /\ jobs[j].completed_count = TotalCount
                           /\ jobs[j].result # None
                           /\ EntryResults(j) = jobs[j].result
    BY DEF HistoryAgreesWithJobs
  <2>1. JobFacts(j) /\ ContentFacts(j)
    BY DEF GenerationInv, JobInv, ContentInv
  <2>2. history[j].state # "none" <=> jobs[j].status = "completed"
    BY <2>1 DEF ContentFacts, LoopAt
  <2>3. ASSUME jobs[j].status = "completed" PROVE EntryResults(j) = jobs[j].result
    <3>1. history[j].state \in {"shared", "own"}
      BY <2>2, <2>3 DEF GenerationInv, TypeOK, Entry
    <3>2. CASE history[j].state = "own"
      <4>1. \A i \in Items : history[j].results[i] = jobs[j].result[i]
        BY <2>1, <2>3, <3>2 DEF ContentFacts, ItemFacts, LoopOn, LoopAt
      <4>2. history[j].results \in Results /\ jobs[j].result \in Results
        BY <2>1, <2>3, <3>2 DEF JobFacts, GenerationInv, TypeOK, Job
      <4> QED BY <3>2, <4>1, <4>2 DEF Results, EntryResults
    <3> QED BY <3>1, <3>2 DEF EntryResults
  <2> QED BY <2>1, <2>2, <2>3 DEF JobFacts
<1> QED BY <1>1, GenerationInvariant, PTL

\* Between two handlers every image of a completed job, and of its entry in
\* the history, shows the copy beside it: update_copy changes neither before
\* it has rendered every format.
THEOREM ImagesShowCopy == Spec => []ImagesShowTheCopy
<1>1. GenerationInv => ImagesShowTheCopy
  <2> SUFFICES ASSUME GenerationInv, loop = None, ~cut, NEW j \in Jobs,
                      jobs[j].status = "completed", NEW i \in Items, NEW f \in Formats
               PROVE  /\ jobs[j].result[i].images[f] = jobs[j].result[i].copy
                      /\ EntryResults(j)[i].images[f] = EntryResults(j)[i].copy
    BY DEF ImagesShowTheCopy
  <2>1. ContentFacts(j) /\ ItemFacts(j, i) /\ ~LoopOn(j, i, {"copy"}) /\ ~LoopOn(j, i, {"entry_copy"})
    BY DEF GenerationInv, ContentInv, ContentFacts, LoopOn, LoopAt
  <2>2. history[j].state \in {"shared", "own"}
    BY <2>1 DEF ContentFacts, LoopAt, GenerationInv, TypeOK, Entry
  <2> QED BY <2>1, <2>2 DEF ItemFacts, ShowsItsCopy, EntryResults
<1> QED BY <1>1, GenerationInvariant, PTL

\* A save() that is not overlapped, of the loop or of a thread, keeps what the
\* file shows as settled; one that is may put an older version in its place.
LEMMA OutcomeSaved ==
  ASSUME DiskInv, NEW j \in Jobs, disk.jobs[j].status \in Settled,
         jobs'[j].status = jobs[j].status, NEW new, new.jobs = jobs',
         \/ Store!LoopSaves(new) \/ Store!LoopSaveRaises(new)
         \/ Store!ThreadSaves(new)
  PROVE  \/ disk'.jobs[j].status = disk.jobs[j].status
         \/ (thread.clashed \/ thread'.clashed) /\ jobs'[j].status = disk.jobs[j].status
<1>1. jobs'[j].status = disk.jobs[j].status
  BY DEF DiskInv, SavedFacts
<1>2. CASE Store!LoopSaves(new) \/ Store!LoopSaveRaises(new)
  <2>1. disk' = new \/ UNCHANGED disk \/ thread'.clashed
    BY <1>2 DEF Store!LoopSaves, Store!LoopSaveRaises, Store!Clash
  <2> QED BY <1>1, <2>1
<1>3. CASE Store!ThreadSaves(new)
  <2>1. \/ UNCHANGED disk \/ thread.clashed
        \/ thread.saving /\ ~thread.clashed /\ disk' \in thread.versions
    BY <1>3 DEF Store!ThreadSaves, Store!ThreadSerializes, Store!ThreadReplaces,
       Store!ThreadRaises, Store!ThreadSpoils
  <2> QED BY <1>1, <2>1 DEF DiskInv, CleanInv
<1> QED BY <1>2, <1>3

\* A status that the store file shows as settled is the status of the job, and
\* no step changes a settled job but a restart, which reads it from the file;
\* a thread that nobody overlaps renames no older version.
THEOREM SavedIsFinal == Spec => SavedOutcomeIsFinal
<1> DEFINE Final(j) ==
      \/ disk'.jobs[j].status = disk.jobs[j].status
      \/ (thread.clashed \/ thread'.clashed) /\ jobs'[j].status = disk.jobs[j].status
<1>1. GenerationInv /\ GenerationInv' /\ [Next]_vars =>
        [\A j \in Jobs : disk.jobs[j].status \in Settled => Final(j)]_vars
  <2> SUFFICES ASSUME GenerationInv, GenerationInv', Next, NEW j \in Jobs,
                      disk.jobs[j].status \in Settled
               PROVE  Final(j)
    BY DEF vars
  <2>1. DiskInv /\ jobs[j].status = disk.jobs[j].status
    BY DEF GenerationInv, DiskInv, SavedFacts
  <2>2. CASE UNCHANGED disk
    BY <2>2
  <2>3. ASSUME SavesOrRaises \/ SaveRaises, jobs'[j].status = jobs[j].status PROVE Final(j)
    <3>1. PICK new : new = Snapshot(FALSE)'
      OBVIOUS
    <3>2. new.jobs = jobs' /\ (Store!LoopSaves(new) \/ Store!LoopSaveRaises(new))
      BY <2>3, <3>1 DEF SavesOrRaises, Saves, SaveRaises, Snapshot
    <3> QED BY <2>1, <2>3, <3>2, OutcomeSaved
  <2>4. ASSUME NEW k \in Jobs, NEW p \in Products, Create(k, p) PROVE Final(j)
    <3>1. (SavesOrRaises \/ SaveRaises) /\ k # j
      BY <2>1, <2>4 DEF Create, SavesOrRaises, Settled
    <3>2. jobs'[j].status = jobs[j].status
      BY <2>4, <3>1 DEF Create
    <3> QED BY <2>3, <3>1, <3>2
  <2>5. ASSUME NEW k \in Jobs, GenerateRaises(k) PROVE Final(j)
    <3>1. jobs[k].status = "processing" /\ SavesOrRaises
      BY <2>5 DEF GenerateRaises, GenerationInv, JobInv, JobFacts, LoopAt
    <3>2. jobs'[j].status = jobs[j].status
      BY <2>1, <2>5, <3>1 DEF GenerateRaises, Settled
    <3> QED BY <2>3, <3>1, <3>2
  <2>6. ASSUME FinishSave \/ UpdateSave PROVE Final(j)
    BY <2>3, <2>6 DEF FinishSave, UpdateSave
  <2>7. ASSUME ThreadSaves PROVE Final(j)
    <3>1. PICK new : new = Snapshot(loop # None)
      OBVIOUS
    <3>2. new.jobs = jobs' /\ Store!ThreadSaves(new) /\ jobs' = jobs
      BY <2>7, <3>1 DEF ThreadSaves, Snapshot
    <3> QED BY <2>1, <3>2, OutcomeSaved
  <2>8. ASSUME \/ Restart \/ FinishStatus \/ FinishHistory
               \/ \E f \in Formats : UpdateRender(f)
               \/ UpdateRefused \/ UpdateTargetCopy \/ UpdateTargetImages
               \/ UpdateEntryCopy \/ UpdateEntryImages
               \/ \E k \in Jobs, i \in Items, c \in Edits : UpdateBegin(k, i, c)
               \/ \E k \in Jobs : Start(k) \/ Generate(k) \/ FinishResult(k)
        PROVE  UNCHANGED disk
    BY <2>8 DEF Restart, FinishStatus, FinishHistory, UpdateRender, UpdateRefused,
       UpdateTargetCopy, UpdateTargetImages, UpdateEntryCopy, UpdateEntryImages, UpdateBegin,
       Start, Generate, FinishResult, StepUnchanged
  <2> QED BY <2>2, <2>4, <2>5, <2>6, <2>7, <2>8 DEF Next, Run, Continue
<1> QED BY <1>1, GenerationInvariant, PTL DEF Spec, SavedOutcomeIsFinal

=============================================================================
