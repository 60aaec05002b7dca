# Verification of the advertisement studio

TLA+ modules, TLC configurations and TLAPS proofs for the backend of the
advertisement studio: the web application under `src/app/backend/` and the
model server under `src/model_server/`. `PROJECT.json` lists components, runs,
mutants, findings, hazards and theorems, and maps each definition to the lines
it models.

    tlc -config VideoSafety.cfg MCVideoWorkflow     # one run
    tlapm VideoWorkflowProofs.tla                   # one proof module

## 1. The system

| Part | State | Operations | Works with |
|---|---|---|---|
| Shorts workflow (`services/video_workflow.py`, `api/videos.py`) | `store.VIDEO_JOBS`, the index of active jobs per result, queued background tasks, `_state_lock`, `_render_lock`, `_publish_lock` | `create`, `run_render`, `approve`, `reject`, `run_publish`, recovery at start | store, storyboard, renderer, YouTube |
| Files of the shorts (`scene_images.py`, `tts_provider.py`, `video_renderer.py`, `_cleanup_stale_work_dirs`) | a work directory and a final mp4 per job, two indexes of terminal jobs, the time of the next cleanup | write inputs, encode, join, probe, sweep, remove | workflow, restarts |
| Store (`services/store.py`) | dictionaries, `store.json`, `store.tmp` | `save`, `load` | every handler and every workflow thread |
| Advertisement jobs (`api/generations.py`, `generation_service.py`) | `JOBS`, `HISTORY`, background coroutines | `create_generation`, `run_generation`, `update_copy`, recovery at start | store, model server, OpenAI |
| Model server (`model_server/`) | three `TTLCache`s, lazily created engine, session and pipeline, the GPU lock | `/infer`, `/warmup` | web application |
| Publisher (`youtube_publisher.py`) | upload session of one video | resumable upload with retries | YouTube |
| Exposure (`services/exposure.py`, `time_slots.py`) | none | choice of the time slot, result and video | store |
| OpenAI client (`openai_client.py`, `copy_generator.py`) | the usage file and its lock | budget check, call, record | OpenAI, generation |
| Storyboard (`storyboard.py`, `comic_script.py`) | none | scenes, speech and fingerprint of a short | workflow, renderer |
| Timing, captions, overlay, sizes | none | segment timing, line breaking, image presets | renderer, generation, model server |
| Accounts (`auth.py`, `deps.py`) | `CUSTOMERS`, `SESSIONS`, lists of recent failures | issue, login, logout, the administrator's gate | store, every handler with a session |
| Products, history, community, inquiries | dictionaries | create, comment, mark, answer, read one's own | accounts, store |
| Downloads (`api/download.py`) | none | one image, an archive | generation |
| Frontends (`web/`, Streamlit) | page state | polling, buttons | HTTP interface |

How they interact. Route handlers declared `async def` run on one event loop
and exclude each other between two awaits. Handlers declared `def` and
background tasks that are plain functions run on worker threads: `POST /videos`
and everything that `BackgroundTasks` runs for a video. The shorts threads
share the store's dictionaries with the loop; their own locks do not stop the
loop, nor does the loop stop them. All of them call the same `store.save()`.
The process may die anywhere; background tasks are lost with it, and `load()`
and the workflow's constructor settle what was in progress. The model server is
another process, in which every request has a worker thread.

What is hard, and what makes each part correct:

- **Shorts workflow.** Two creations race between storyboard and commit; a
  decision races with another decision, with a render, with an upload; a render
  task survives the rejection of its job; an identical approval queues a second
  upload; an upload's answer is lost. Correct means: one active job per result,
  an index that tells the truth, no status without a task that will settle it,
  final decisions, one upload session per request, no answer thrown away, and a
  life of each job that a reader can state on a page (`VideoLifecycle`).
- **Files.** Sweeps run in parallel with renders, with decisions and with each
  other, remove files one by one without the lock, and may fail or die half
  way. Correct means: no input of a running render disappears, a job that was
  touched keeps its files, what should go is found again, no torn video counts.
- **Store.** Correct means: a restart finds all that was acknowledged, and
  never a torn file. With one writer it is correct; threads of the shorts
  workflow are a second one.
- **Advertisement jobs.** Jobs and history are saved by others in the middle of
  a handler or across its own save; `update_copy` may be refused at any format.
  Correct means: jobs end, jobs and history agree, each image shows the copy
  beside it, what is saved as settled stays so.
- **What is seen.** The shop, the review page and the publishing page read the
  workflow's jobs by rules of their own. Correct means: what a page offers the
  service accepts, and what the shop shows it goes on showing.
- **Budget.** The check is before and the record after a call that may fail, be
  charged without an answer, or be answered without a record. Correct means: no
  charge is lost between threads, and the limit is exceeded by a known amount.
- **Accounts and what customers keep.** Checks of a gate overlap and copy the
  list that others append to; data is older than its owners; a save may raise
  after memory has changed, and a thread may rename an older version of
  everything. Correct means: nobody is refused without cause, parallel failures
  are limited, every record has an account that sees it, and an acknowledged
  change is in the file.
- **Rules without state.** Slots over midnight and borders of windows that
  three files each have their own table or notion of; sizes rounded to a grid
  and compared for equal ratios elsewhere; speeches that just fit; words longer
  than a line. Correct means: what one rule accepts the next can use, no speech
  or character is lost, no text leaves its image (line breaks that a text has
  of its own excepted, section 6), and an equal fingerprint means an equal
  short.
- **Model server.** Waiters of one build, expiry and eviction during it,
  exceptions under locks. Correct means: one build per key, derived pictures of
  the right source, no lock or waiter left behind.

## 2. Modules

| Module | What it is |
|---|---|
| `VideoWorkflow` | the workflow service: threads, locks, tasks, YouTube, restarts |
| `VideoLifecycle` | abstract: the three statuses of a job and nothing else |
| `VideoWorkflowInvariant` | the inductive invariants: `SafetyInv` where no save fails, `FailureInv` where saves may fail, `OneVideoInv` where neither saves nor answers of YouTube are lost |
| `VideoWorkflowProofs` | type correctness; the safety theorems; refinement and finality of decisions; approval of the current copy by one event loop; what is shown and offered |
| `VideoViews` | the shop and both operator pages beside the workflow; what they show and offer |
| `VideoFiles`, `VideoFilesProofs` | work directories, final files and sweeps; that renders keep their inputs and nothing is left behind |
| `StorePersistence` | `save()` and `load()` taken apart: inodes, names, descriptors |
| `AtomicStore` | abstract: a store that is saved in one step |
| `StorePersistenceProofs` | durability and refinement for one writer |
| `SharedStore` | `save()` as the handlers of the loop meet it, beside the `save()` of a thread; used by `GenerationJobs` and `Tenants` |
| `GenerationJobs`, `GenerationJobsProofs` | advertisement jobs, history, copy editing; that they agree |
| `ModelServer`, `ModelServerProofs` | requests, caches, lazily created objects, the GPU; single flight and derived pictures |
| `OpenAIBudget`, `OpenAIBudgetProofs` | the budget of text calls by parallel threads |
| `Accounts` | customers, sessions, and the gates with their lists of failures |
| `Tenants`, `TenantsProofs` | what customers keep, behind `Accounts`: records, save, restart; both gates and what is kept |
| `ExposureRules` | the slot of a minute, the exposed banner and video, the windows of approval |
| `ImageSizes` | presets, their scaling, both ratio checks |
| `SceneTiming` | the lengths of scenes, speeches and silences |
| `TextLayout` | the width of a text, line breaking of captions and of the overlay |
| `Storyboards` | the script, the scenes and the fingerprint of a short |
| `AdCopy` | the length of an advertisement's texts, the line breaks left in them, and their place in the image |
| `Downloads` | the plan of a request and what can be downloaded of it |
| `CreativeRules`, `CreativeRulesProofs` | asks these rules, over bounded inputs in the run and for all inputs in the proofs |
| `MC...` | small instances |

Operators introduced as "mutant" or "mutated form" are the errors that the
properties were tried against: each stands before the definition it could
replace, is used by no specification, and breaks the property that
`PROJECT.json` names under `mutants`.

### VideoWorkflow

One action is one region under `_state_lock`, or one read of shared state
outside it. `CreateBegin` is the validation and the storyboard of `create()`,
`CreateCommit` and `CreateRefused` its locked part. `RenderStart` ...
`RenderCompleted` are `run_render` with its global lock. `ApproveBegin` is the
snapshot and the checks of `approve()`, `ApproveCommit` the comparison of
`updated_at` and the write; on the event loop (`Handlers` has one element)
nothing but the shorts threads comes in between. `PublishTake` ...
`PublishCommit` are `run_publish`; `YouTubeStores` and the `Answer...` actions
are the resumable upload with its retries, and YouTube itself. `Restart` loses
all tasks and applies `RecoverVideoJob` to what `disk` holds.

`updated_at` is a counter: two writes of one job never read the same
microsecond. A fingerprint is the copy it was computed from. `store.save()` is
one step, which `StorePersistence` justifies for one writer and refutes for
two. `SaveCanFail` lets it raise after memory has been changed. The index, and
with it one active job per result, does not survive this fault: with
`SaveCanFail = TRUE` TLC finds two active jobs in a few steps (section 6). The
runs have it off; what does survive is proved (section 5).

### VideoViews

A view changes nothing, so `VideoViews` adds operators and no variables:
`VideoViewKind` and `Offers...` are what the Streamlit review page and the web
publishing page make of a job's statuses, `Shown` is what `pick_video_exposure`
may choose. `OffersAreAccepted` compares each button with what `create()`,
`approve()` and `reject()` would answer at that moment. A page that polls late
shows old data; the service then refuses what is no longer possible, which is
no disagreement. `ExposureIsKept` excepts a retry, which `requeues` counts, and
only that (section 6).

### VideoFiles

The inputs of a render are two groups of files, of which the code writes three
and four; a sweep takes its candidates under the lock and works through them
after it. `SweepTakesExpiredOnly` is what the comparison of `updated_at` in the
sweep is for. `final` is "partial" while ffmpeg writes and stays so if it is
interrupted.

### StorePersistence

A file is an inode, a name refers to one, and a descriptor keeps its inode when
the name moves on. A file has two halves, enough to tell torn from whole.
`Writers` is the set of threads that may be in `save()`; the docstring of
`store.py` thinks of one. Both properties of the run `store_single`, and both
theorems, are about one writer: they say nothing of two, and the run
`store_threads` shows what two do.

### SharedStore

The loop's handlers and the threads of the shorts workflow are two writers.
`StorePersistence` would be too large beside a whole component, so
`SharedStore` says what its steps amount to. The save of a thread is not one
step: `ThreadSerializes` takes a snapshot, any number of handlers may run, and
then `ThreadReplaces` renames it or `ThreadRaises` gives up. While no save of
the loop falls in between, the snapshot is as new as the file. If one does
(`Clash`), both write one `store.tmp` and then nothing is certain: the file may
be the loop's version, the thread's older one, or torn, the loop's `save()` may
return or raise, and the thread, which may by then be writing into `store.json`
itself, may change it again (`ThreadSpoils`). The threads' saves exclude each
other (`_state_lock`), so one thread is enough. Its model is generous: an
overlap may leave any of these whatever the order of the single steps.

### GenerationJobs

`loop` names the coroutine that is between two awaits. `ThreadSaves` is the
save of a shorts thread (`SharedStore`), which may serialise in the middle of a
handler: `disk` may then hold half of its work. `cut` remembers that a restart
has found such data, and the two properties that cannot hold then except it.
`SavedOutcomeIsFinal` excepts steps of saves that overlap, and asks even of
those that memory keeps the outcome.
`unsaved` are the jobs whose creation raised in `save()`. A history entry
shares its result list with its job until a restart separates them.

### ModelServer

A cached value is named by the thread that built it, since a thread builds at
most once in each cache; the token in the keys of canvases and embeddings is
that name. `at` is the place of a thread: which object or cache, and which part
of `_get_loaded` or `get_or_create`. `CheckLoaded`, `LockAndCheck`, `Load` and
`LoadFails` are the double-checked creation of engine, session and pipeline.
`AfterRaise` is the way of an exception through `except` and `finally`.

### OpenAIBudget

One action is one region under the lock of the usage file, or the call between
two of them. `billed` is what OpenAI has charged, `unrecorded` what a named
fault has lost of it (a charge without a usable answer, a record that raises, a
restart); neither steers the model. Prices are whole multiples of one unit. A
model that is not in the price list has the price of `DefaultModel`, or the
fallback's if that is not in the list either, as in the run.

### Accounts and Tenants

A gate is taken apart where threads can come between: the filtered list, its
assignment, the verification, the append to the list that was fetched. Gates
that run on the event loop (`OnLoop`) do not interleave with each other there.
`lost` counts the failures that a check has dropped from a list, `failures`
what has really happened; the gates read neither. `Tenants` joins four modules
of handlers that change one record and save: a record is its kind, its owner and whether it has
been marked (a favourite, a comment, an answer). A later save, of anyone,
stores also what an earlier one failed to store, so `acknowledged` holds only
records whose last change was answered with success. `spoilt` says that
overlapping saves (`SharedStore`) were the last to write the file;
`AcknowledgedIsKept` then only speaks of memory. The lists of failures are in
memory (`auth.py:21`), so a restart begins the count of `FailuresAreLimited`
anew: its bound is for one run of the process. Nobody deactivates a customer,
as in the code.

### CreativeRules and the rules it asks

The rules are operators, and a behaviour of `CreativeRules` asks one question;
the properties say what its answer is for. `ExposureRules` counts minutes:
every border of a slot is a full minute, and the code drops the seconds.
`SceneTiming` counts in 50 ms, of which every constant of the code is a
multiple; the real sums are in floating point, which the 50 ms that the code
leaves on either side of 10 and 15 seconds absorb. A character in `TextLayout`
is a number with a width, the width of a line is the sum of its characters'
(real fonts kern, so a line is a little narrower). A line break in a text
begins a new row, and the text is as wide as its widest row, as
`ImageDraw.textbbox` has it; captions have none, since `str.split` takes them
out. `ImageSizes` keeps all numbers of the code.

A text in `Storyboards` is its template together with what is put into it, so
two scenes are equal when the wording would be; sha256 is taken to be free of
collisions. A text in `AdCopy` is as long as the code's and has its line breaks
where the code's has; each other character is as wide as the font is high, the
widest there is, so wrapping makes no more lines of a real text than of its
model. `build_ad_copy` strips only the ends of an answer (`Stripped`), and
`draw.text` begins a row at each line break that is left (`LowerEnd`), which
the height of the block does not count. `Downloads` names an image by its place in the plan
and its format.

## 3. Runs

| Run | Shows | Bounds | States, time |
|---|---|---|---|
| `video_safety` | every safety property of the workflow, refinement of `VideoLifecycle`, approval of the current copy, what is shown and offered | two jobs of one result with a pronunciation to review, two creating threads, event loop, two copies, times 0..2, one restart, one retry per job, two waiting upload tasks | 384,000, 40 s |
| `video_liveness` | renders and uploads settle; decisions are final when two threads decide in parallel | two jobs, two handler threads, one copy, one caller, times 0..1, one restart, one waiting upload task | 346,000, 2 min 40 s |
| `video_files` | the properties of section 1 | two jobs, two sweeps in parallel, clock to 5, one restart | under a minute |
| `store_single` | durability, refinement of `AtomicStore` | four changes, any number of crashes and failed writes | seconds |
| `generation` | the properties of section 1, settling | two jobs of one product, one item in two formats, one edit, one restart, two saves of threads or overlaps | 735,000, 2 min |
| `model_server` | the properties of section 1, every request ends | three requests, or two and a warm-up; caches of one entry, one expiry | 527,000, 45 s |
| `openai_budget` | charges are accounted, the excess is bounded, copy is made | three threads, costs 2 and 14, a limit of 6, two faults | seconds |
| `tenants` | refusals are justified, failures limited, records reachable, acknowledged changes kept | two requests, two attempts in two ticks, clock to 2, four failures; one old record and two new ones, two faults, two saves of threads or overlaps | 1,740,000, 1 min 30 s |
| `creative_rules` | accepted activation times are exposed, sizes share a ratio, speeches are whole, texts are kept, fingerprints tell shorts apart, copy without line breaks stays in the image, archives are complete | each minute of two days; 12 sizes for each of two references in four formats; 12 lengths for each of four speeches; up to five words of four kinds in six widths and three fonts; 3456 sources of shorts; names of 1 to 60 and answers of 0 to 400 characters with up to three line breaks, at the ends and inside; up to two tones and three slots | 50,000, 1 min 20 s |
| `video_history`, `video_duplicates`, `store_threads` | disagreements of the code with its documents, section 6 | the same instances | seconds |

The type invariants of all modules with a theorem are proved for every value of
the constants and are in no run.

Why the bounds are enough to be interesting. Two jobs of one result are needed
to violate `OneActiveJobPerResult` or to let a rejected job's render meet its
successor's. With one minute of lead and a clock to 2 an activation time can be
valid, missed between check and upload, and out of reach. Two waiting upload
tasks are one more than needed. One restart finds any combination of states; a
second finds states that the first produced, for which the proofs hold for any
number. Inodes for two names and the descriptor of every writer are all that
can be referred to at once. Two formats are the least for an edit to be refused
half way, two jobs of one product for one active job per product not to be
vacuous. Two saves of threads are a clean one and one that overlaps, or one
that overlaps twice. Caches
of one entry evict on every second key; a third request does it between the
steps of two others. A limit of 6 and costs of 2 and 14 let calls pass one by
one, and let one call exceed the limit by more than itself. Two requests at a
gate are the least that can overwrite each other's list; failures at gates and
changes of records share nothing but sessions, so the constraint `OneAtATime`
explores a behaviour until it has done both, and the changes of records beside
one request and before the clock moves. Names and answers lie on both
sides of the lengths 14 and 28 at which copy is cut; three slots are the most
that a request may name, and lists with repetitions are among them. A day is
checked minute by minute, the second one because an activation can be the day
after; the speeches lie on both sides of every threshold, alone and in sum; the
words are shorter than a line, as long, and longer at each of the widths, in
every order.

## 4. Fairness

- `VideoWorkflow`: weak fairness of each thread's own steps. Worker threads are
  scheduled by the operating system; ffmpeg, the model server and YouTube are
  called with timeouts, so a call ends. The locks are held by one task at a
  time over a finite number of tasks, and the bounds make contention finite, so
  weak fairness is enough for a waiting task. Users, restarts, the clock and
  the storing of a video at YouTube are not assumed to happen. In
  `video_liveness` two threads decide in parallel, so that nothing rests on the
  event loop.
- `OpenAIBudget`: weak fairness of each thread's steps: a call ends because the
  SDK has a timeout, and the lock is held over two file operations. Starting to
  write copy, and restarts, are not assumed; faults are bounded.
- `GenerationJobs`: weak fairness of the handler the loop is in, strong
  fairness of each ready coroutine, because other handlers can run in between
  and disable it for a while: asyncio takes ready callbacks in order.
- `ModelServer`: weak fairness of the threads taken together, the least that
  can be asked; loads, downloads and generations return or raise. No thread can
  go round for ever, since each builds at most once per cache.

## 5. Proofs

Proved for every value of the constants (no bound on jobs, results, threads,
requests, times or restarts). The shorts workflow:

- `TypeCorrect`: the type invariant of `VideoWorkflow`, also when saves fail.
- `SafetyInvariant`, under `~SaveCanFail`: `SafetyInv` is inductive. From it
  `OneActiveJob`, `ExactIndex`, `WorkHasOwner`, `OneSession`.
- `FailureInvariant`, whether saves fail or not: `FailureInv` is inductive.
  From it `UploadIsRecorded` and `PublishedIsApproved`; `SavedDecisionStays`, a
  decision is lost by nothing but a restart that no successful save precedes;
  and `SessionsAreCounted`, each restart costs one more upload session at most.
- `NoDuplicates`, under `~SaveCanFail` and `~LostAnswers`: YouTube has at most
  one video of each job. The run `video_duplicates` shows that the second
  assumption is needed.
- `WorkflowImplementsLifecycle` and `DecisionStays`, under `~SaveCanFail`:
  every step of the workflow is a step of `VideoLifecycle` or a stutter;
  decisions are never revoked.
- `ApprovalIsCurrent`, under `OneEventLoop`: what is approved shows the copy its
  result has at that moment, also when saves fail.
- `OffersHold` and `ShownStaysShown`, under `~SaveCanFail`: every button of
  both pages is accepted unless the copy has been edited; a shown video stays
  shown unless its upload is retried.

The files of the shorts, with no assumption on sweeps or their failures:

- `FilesTypeCorrect`, `InputsSurviveSweeps`, `WorkFoundAgain`,
  `CompletedIsWhole`, and the action property `SweepTakesExpired`.

The store, under `SingleWriter`:

- `StoreIsDurable` and `StoreIsAtomic`: no torn file, no acknowledged change
  lost, and refinement of `AtomicStore`.

Advertisement jobs, also when saves fail:

- `GenerationTypeCorrect`, `ActiveJobsServed`, `HistoryAgrees`,
  `ImagesShowCopy`, and the action property `SavedIsFinal`, over any saves of
  threads and any overlaps of them with the loop's.

The model server, for any number of requests and any size of the caches:

- `ServerTypeCorrect`, `OneFlightPerKey`, `DerivedFromItsBuild`.

The budget, for any threads, prices and faults:

- `BudgetTypeCorrect`; `ExcessBound`: the amount in the usage file stays below
  the limit and one call for each thread; `NoChargeIsLost`: what was charged is
  in the file, with a thread, or lost by a named fault.

Accounts and what customers keep, for any requests, limits and old data, and
any saves of threads:

- `TenantsTypeCorrect`, `RefusedWithCause`, `FailuresBounded`,
  `OwnersReachable`, `AcknowledgedStays`.

The rules, for inputs of any number and length:

- `EverySizeFits`: background, composite and export share a ratio for every
  reference size, on the grid and half a step from what was configured.
- `EveryActivationIsExposed` and, for every minute instead of the borders of a
  day, `EveryMinuteIsExposed`.
- `EverySpeechIsWhole`, `EveryImageIsKept`, `EveryShortMatches`.
- `EveryCopyStaysInside`, for names and answers with line breaks anywhere:
  nothing crosses the right border, and nothing the lower one as long as the
  two texts have no line break left inside.
- `EveryTextIsKept`: line breaking loses and moves no character, for any words,
  width, fonts and widths of characters, and a caption is refused only if it is
  empty or no shortened line fits.

What is assumed of the constants is named in the modules that declare them and
evaluated by every run: sets of threads and requests are finite, a model value
like `None` is none of the values it is set beside, limits and bounds are
numbers, and the records a store starts with are products and entries of the
history without an owner (`TenantsAssumption`), the only ones older than
accounts. Of the rules' inputs it is assumed that times, lengths and sizes are
numbers, that tones and slots are in the code's tables (`InputAssumption`), that
stripping a stripped text changes nothing (`SourceAssumption`), that fonts have
positive sizes (`FontAssumption`) and that a glyph and an ellipsis are as wide
as the font is large and neither a glyph nor a caption's character is the line
break (`GlyphAssumption`, `TextAssumption`). Of captions it is assumed
(`TextAssumption`) that the space is not the ellipsis, that widths of characters
are numbers, that words are not empty and have no space in them, as `str.split`
leaves them, and that two lines of the smallest font have room in the caption
area (42 pixels each in 210, `video_renderer.py:148` and `:210`): without it a
text of one line could be refused.

### The invariants

That no job has two active siblings does not follow from itself: `create()`
looks at the index, so the index must be exact (`ActiveIndexIsExact`). That a
pending upload has a task needs the tasks counted against the upload in
progress, and the upload must still see the job it took (`UploadInv`): this is
where the lock protocol is used. `HandlerInv` says what the optimistic check
relies on: if `updated_at` is that of the snapshot the job is the snapshot.
`DiskInv` says the file holds the job or what recovery makes of it, so a
restart re-establishes everything. `SessionInv` counts sessions against
requests, which no status alone shows. `SeesInv` says that the copy an
`approve()` has compared is still the current one, which holds because the one
loop that could edit it is in `approve()`; with two handlers it is false.
`FailureInv` is what of `SafetyInv` is left when the file may be behind: tasks
may be missing (`LooseRenderInv`), and the file is only known not to contradict
the memory (`FileInv`), so that a restart goes back to a state the job was in.
The sessions then cannot be bounded by the requests alone: an approval whose
save raised is in memory, an identical request uploads the video, and a restart
finds the job undecided. A later approval uploads it again, which is the one
session that `LooseSessionInv` grants each restart. `VideoInv` ties the video
YouTube has to the statuses that allow no upload.
`PageInv` says that a result's page shows the one job that can be active, also
after a restart. `ExposureIsKept` needs no invariant of its own: statuses stay
because the lifecycle keeps them, the activation time because only a retry
writes it again.

`FilesInv`: a sweep may hold a directory it chose long ago, so the properties
need what a candidate still is: a job that is completed or failed, which no
later render touches, and that nothing has touched for its lifetime
(`SweepInv`). An index never holds another date than its job's (`IndexInv`),
and a render is where the status says (`RenderInv`). That the work of a job is
found again rests on where its entry can be: in an index, or in the hands of a
sweep.

`StoreInv`: a writer's temporary inode is never the one `store.json` names, and
what has been written so far belongs to the writer's snapshot.

`GenerationInv`: between two awaits of a handler job, history and pictures
disagree, and another thread may save just then. The invariant says for each
step of `loop` what memory may hold (`ContentInv`), that every copy that the
file or a thread may hold was one of these (`DiskInv`), and which coroutine
answers for a job in progress (`JobInv`, `ProductInv`). `CleanInv`, a part of
`DiskInv`, is what makes the rename of an old snapshot harmless while no save
of the loop overlaps it: all that the file says is settled is so in the
snapshot too. It fails at the first overlap, which is why the property has to
except it.

`ServerInv`: single flight follows from the locks only if the pending builds
are exactly the threads on their way through a build (`PendingFacts`), if a key
has an entry or one builder but not two (`CacheFacts`), and if who creates an
object holds its lock (`LoadFacts`). That a derived picture belongs to its
source needs more of each thread: it uses the key of a derived picture only
once it knows the build that the key names, and never changes it
(`ThreadFacts`).

`Headroom` counts what is spent and the dearest end of every call in flight;
the limit alone is not inductive, since a call that has passed the check no
longer looks at it. `Accounted` is about a sum over threads, so the proof first
shows that `Pending` does not depend on the order in which the fold takes them
(`TotalOfAny`, by induction over the size of the set).

`GateInv`: a check holds a filtered copy of a list to which others append, and
puts it in place of theirs. The invariant compares list, copy and the failures
that really happened not only now but at every later time, since a copy that
counts as much today may count less tomorrow: `ListFacts` says that a list
never counts more than has really failed, and less only by what was dropped;
`SeenFacts` that a copy and the list differ only by failures of this tick. Its
lemmas are about the filter: by induction over the list, filtering twice is
filtering once (`RecentOfRecent`), and counts only fall as time goes on
(`CountFalls`). `OwnersInv` and `FileInv` say to whom a record may belong in
memory, in the file and in what a thread has serialised, where the `LEGACY`
account may be missing. `KeptInv` says that the file has what was acknowledged
unless it is spoilt, and that so has what a thread will rename unless its save
has been overlapped.

The attempt to prove `FailuresBounded` showed that an earlier form of the model
was wrong for more than two requests: it counted a dropped failure as kept
again when a slower check put it back, and the bound was false. `lost` now
counts every failure that a check drops. It can grow for ever, since threads
may go on dropping and putting back; the run therefore identifies states whose
`lost` is beyond the number where it still matters (`View` in `MCTenants`).

The rules have no invariant beyond the kinds of questions (`QuestionsAsked`):
what is to be shown is about data. Sizes need that the unit of a preset, the
greatest common divisor of its sides, survives scaling; the hours of the day
that the six slots share them out; copy that it is truncated to what two lines
of the chosen font have room for. That its rows stay within the right border
also where line breaks are among the characters needs the width of a text to be
that of its widest row (`Measured`), which grows by one character at a time
(`WidthIsNatural`, `NoLineIsWider`). Where a rule folds over a sequence, the
definition says that *if* there is a function on sets of places that goes on
from one set to the next, the fold is its value; that there is one is proved by
induction over a set of numbers (`AllNumbers`, `FoldExists`), after which the
fold is followed place by place with an invariant of its own (`Wrapped` for the
copy of an advertisement).

`EveryTextIsKept` is about folds within folds: captions fold over words, a long
word over its characters, and what is read at the end over all of them. Each
fold is a run, the sequence of the values it has after each element (`Runs`);
two runs over the same elements are equal, so one more element does what the
step does (`RunGrows`), and a property of a fold follows by induction over the
texts (`AllSequences`). The invariant of line breaking (`Kept`, `HasText`,
`Shown`) says that closed lines may stand as they are, that only one line is
open, and that the lines together read as the text so far; that a line never
begins with a space is part of it, since only then does shortening leave
something out and a refused line have a character that does not fit.

The attempt to prove `AcceptedActivationIsExposed` showed that its
earlier form used the slot that exposure computes on both sides, so that it
could not notice if the windows of approval covered other minutes; it now names
the windows.

Every proof has one step per action; lemmas state what an action leaves alone,
so that a part of the invariant about one job or request is only looked at for
the one concerned. The bounds on the clock and the counters play no role in
them. The inductive invariants were model-checked on the instances of the runs
before they were proved, those that speak of all later times for the times
within reach.

Only model-checked: liveness (out of the prover's reach), and
`HistoryShowsCompletedVideo` and, with lost answers, `NoDuplicateVideo`, which
are violated.

## 6. Where the code disagrees with what it says

- `video_history`: a rejected job whose render ends after its successor's
  overwrites the video URL of the result in the history.
- `video_duplicates`: an upload that YouTube stored but answered with 5xx and
  then refused is retryable, and the retry uploads again.
- `store_threads`: two threads in `save()` share the temporary file, and one
  may rename what the other has just truncated. For the same reason a thread
  may rename an older version over the one that a handler of the loop has just
  acknowledged. `SavedOutcomeIsFinal` and `AcknowledgedIsKept` except a file
  that was last written by saves that overlap.

`PROJECT.json` quotes the lines that say otherwise. Seen while modelling, and
without a run of their own:

- A `save()` that raises leaves a job in memory that the index does not know;
  the next request creates a second active job (`video_workflow.py:302`).
- An identical approval, which `docs/api_contract.md:64` calls idempotent, is
  refused once less than the lead time is left (`video_workflow.py:692`).
- A retry of an upload moves `activation_at`, so a video that is being shown
  disappears until then, although `docs/api_contract.md:90` and
  `exposure.py:58` have exposure independent of YouTube; `ExposureIsKept`
  excepts it.
- Copy that a user has edited is not shortened, and enough lines leave the
  image, which `overlay.py:163` says they do not; `GeneratedCopyStaysInside` is
  about what the service writes. A line break inside a name or an answer of the
  model has the same effect: `copy_generator.py:54` strips the ends only,
  `overlay.py:169` counts the lines of the wrapping, and `draw.text` draws one
  more row for each break. The property excepts such copy from the lower border.
- Failed logins are counted in memory, and a restart forgets them.
- A request may repeat a tone or a slot; its archive then has one name for two
  images. `ArchiveKeepsEveryImage` is about requests that do not.
- `store.py:118-125` gives results without an id an id of its own in `JOBS` and
  another in `HISTORY`.
- The review page has no way on from a rejected video or a failed upload, and
  `result-card.tsx:207` offers a new short while one is being made.
- The Streamlit wizards send no Authorization header and are answered with 401.
  The wizard asks for a promotion, which `GenerationRequest` has no field for,
  and no route sets pronunciations.
- `toggle_favorite` flips, so a repeated request undoes the first; of two
  answers to one inquiry the later replaces the earlier.

## 7. Not modelled

- Pictures, sound, prompts, wording and drawing; what ffmpeg, diffusion, OpenAI
  and YouTube compute.
- How a page polls, its forms and its rendering: a page keeps no state that
  outlives it, and what a late page asks for is asked of the service by any
  request in the models.
- How a PIN is hashed, prices, pictures of products: no state depends on them.
- The client's timeout of 120 seconds beside the model server's GPU: the client
  gives up and keeps no state, the server's request goes on to its end
  (`EveryRequestEnds`); the later requests only wait longer.
- The deployment's queue position and estimate: an observation that no decision
  reads.
- Dictionaries that change while the loop iterates over them: the models read
  `VIDEO_JOBS` in one step.

## 8. Plan

Done: every component that section 1 names as having behaviour, a theorem for
every safety property that holds, and what of the shorts workflow survives a
save that fails. `FailureInv` and the two properties stated in
`VideoWorkflowInvariant` for that case were checked with TLC on instances of
`MCVideoWorkflow` with `SaveCanFail = TRUE` before they were proved. Next: what
the pages offer when saves fail; a button for a new video is then refused.
