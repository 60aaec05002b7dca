---------------------------- MODULE ModelServer ----------------------------
(***************************************************************************)
(* The model server: POST /infer runs InferenceEngine.run on a worker      *)
(* thread per request, POST /warmup loads the model on another.  The       *)
(* threads share three things that are created on first use (the engine,   *)
(* the segmentation session, the diffusion pipeline), three TTLCaches (the *)
(* segmented products, the canvases derived from them, the quality         *)
(* profile's embeddings) and one GPU lock.                                 *)
(*                                                                         *)
(* TTLCache.get_or_create is single-flight: the first thread that misses a *)
(* key builds the value outside the cache's lock, the others wait for its  *)
(* event and look again, or take over its error.  A thread builds at most  *)
(* once in each cache, so a cached value is named by the thread that built *)
(* it.  Pictures, prompts and timings are left out; every external call    *)
(* (download, segmentation, loading, generation, saving) may raise.        *)
(***************************************************************************)
EXTENDS Naturals, FiniteSets, SequencesExt

CONSTANTS
    Threads,        \* the threads of POST /infer and POST /warmup, one request each
    Products,       \* product_id with product_image_url: _cache_key's inputs
    Canvases,       \* composite sizes of the presets
    Asked,          \* what the threads may be asked for, see AskedIsTyped
    CacheSize,      \* cache_max_entries: products and embeddings
    ArtifactSize,   \* artifact_cache_max_entries
    Ttl,            \* seconds an entry is served after it was built
    MaxTime,        \* bound on the clock
    Quality,        \* the profile is quality_regenerate
    None            \* no thread; no product or canvas: a warm-up asks for none

ASSUME SizesArePositive ==
    CacheSize \in Nat \ {0} /\ ArtifactSize \in Nat \ {0} /\ Ttl \in Nat \ {0}
ASSUME NoneIsApart == None \notin Threads \cup Products \cup Canvases
WarmUp == [product |-> None, canvas |-> None]
ASSUME AskedIsTyped ==
    /\ Asked \subseteq [Threads -> [product : Products, canvas : Canvases] \cup {WarmUp}]
    /\ Asked # {}
ASSUME QualityIsASwitch == Quality \in BOOLEAN
ASSUME ClockIsBounded == MaxTime \in Nat

VARIABLES
    now,        \* the monotonic clock
    thread,     \* where each thread is and what it holds
    entries,    \* per cache: [by, expires] in the order of the OrderedDict
    pending,    \* per cache: the threads that build a value
    outcome,    \* per cache and thread: the event and error of its _Pending
    loadLock,   \* per lazily created object: the thread that holds its lock
    loads,      \* how often each of them was created
    gpu         \* the thread that holds _gpu_lock

vars == <<now, thread, entries, pending, outcome, loadLock, loads, gpu>>
cacheVars == <<entries, pending, outcome>>
loadVars == <<loadLock, loads>>

Lazy == {"engine", "session", "pipeline"}
Caches == {"product", "artifact", "embedding"}
Start == <<"engine", "check">>     \* a thread whose request has not come yet, too
Ended == {<<"end", "done">>, <<"end", "failed">>}
Place ==
    Ended
    \cup Lazy \X {"check", "lock", "load"}
    \cup Caches \X {"lookup", "wait", "download", "finish", "raise"}
    \cup {"gpu"} \X {"wait", "generate", "raise"}
    \cup {<<"output", "save">>}

Thread == [at : Place, product : Products \cup {None}, canvas : Canvases \cup {None},
           value : [Caches -> Threads \cup {None}], awaits : Threads \cup {None}]
Entry == [by : Threads, expires : Nat]
Outcome == {"none", "running", "done", "failed"}

At(t, place) == thread[t].at = place
Go(t, place) == thread' = [thread EXCEPT ![t].at = place]
IsWarmUp(t) == thread[t].product = None
Loaded(x) == loads[x] > 0
MaxEntries(c) == IF c = "artifact" THEN ArtifactSize ELSE CacheSize

\* Mutant: the keys of what is derived from a build do not name the build.
KeyInWithoutToken(c, t) ==
    IF c = "artifact" THEN <<thread[t].product, None, thread[t].canvas>>
                      ELSE <<thread[t].product>>

\* The key under which thread t looks into cache c.  The product's key is the
\* digest of id and URL; the others carry the token of the product build that
\* the canvas or embedding is derived from, a fresh object per build.
KeyIn(c, t) ==
    LET source == thread[t].value["product"]
    IN  CASE c = "product"   -> <<thread[t].product>>
          [] c = "artifact"  -> <<thread[t].product, source, thread[t].canvas>>
          [] c = "embedding" -> <<thread[t].product, source>>

SameKey(c, t, u) == KeyIn(c, t) = KeyIn(c, u)
EntriesFor(c, t) == {i \in DOMAIN entries[c] : SameKey(c, entries[c][i].by, t)}
Without(c, t) ==
    IF EntriesFor(c, t) = {} THEN entries[c]
    ELSE RemoveAt(entries[c], CHOOSE i \in EntriesFor(c, t) : TRUE)
Fresh(c, t) == {i \in EntriesFor(c, t) : entries[c][i].expires > now}

Init ==
    /\ now = 0
    /\ \E ask \in Asked :
          thread = [t \in Threads |->
                      [at |-> Start,
                       product |-> ask[t].product,
                       canvas |-> ask[t].canvas,
                       value |-> [c \in Caches |-> None],
                       awaits |-> None]]
    /\ entries = [c \in Caches |-> <<>>]
    /\ pending = [c \in Caches |-> {}]
    /\ outcome = [c \in Caches |-> [t \in Threads |-> "none"]]
    /\ loadLock = [x \in Lazy |-> None]
    /\ loads = [x \in Lazy |-> 0]
    /\ gpu = None

-----------------------------------------------------------------------------
(* What is created on first use.                                           *)

\* Where a thread goes on with the object in hand.
AfterLoad(t, x) ==
    CASE x = "engine"   -> IF IsWarmUp(t) THEN <<"pipeline", "check">>
                                            ELSE <<"product", "lookup">>
      [] x = "session"  -> <<"product", "finish">>
      [] x = "pipeline" -> IF IsWarmUp(t) THEN <<"end", "done">>
                           ELSE IF Quality THEN <<"embedding", "lookup">>
                                           ELSE <<"gpu", "generate">>

\* Who meets an exception raised in a part of the request: the factory of the
\* cache, the finally that releases the GPU, or the handler.
AfterRaise(t, part) ==
    CASE part = "session" -> <<"product", "raise">>
      [] part = "pipeline" /\ ~IsWarmUp(t) -> <<"gpu", "raise">>
      [] part = "embedding" -> <<"gpu", "raise">>
      [] OTHER -> <<"end", "failed">>

\* The check outside the lock.  get_engine's is the arrival of the request.
CheckLoaded(t, x) ==
    /\ At(t, <<x, "check">>)
    /\ Go(t, IF Loaded(x) THEN AfterLoad(t, x) ELSE <<x, "lock">>)
    /\ UNCHANGED <<now, cacheVars, loadVars, gpu>>

\* What the check under the lock finds
CreatedMeanwhile(x) == Loaded(x)

\* The lock is taken and the check repeated; one who finds the object there
\* releases the lock at once.
LockAndCheck(t, x) ==
    /\ At(t, <<x, "lock">>)
    /\ loadLock[x] = None
    /\ IF CreatedMeanwhile(x)
       THEN /\ Go(t, AfterLoad(t, x))
            /\ UNCHANGED loadLock
       ELSE /\ Go(t, <<x, "load">>)
            /\ loadLock' = [loadLock EXCEPT ![x] = t]
    /\ UNCHANGED <<now, cacheVars, loads, gpu>>

Load(t, x) ==
    /\ At(t, <<x, "load">>)
    /\ loads' = [loads EXCEPT ![x] = @ + 1]
    /\ loadLock' = [loadLock EXCEPT ![x] = None]
    /\ Go(t, AfterLoad(t, x))
    /\ UNCHANGED <<now, cacheVars, gpu>>

LoadFails(t, x) ==
    /\ At(t, <<x, "load">>)
    /\ loadLock' = [loadLock EXCEPT ![x] = None]
    /\ Go(t, AfterRaise(t, x))
    /\ UNCHANGED <<now, cacheVars, loads, gpu>>

-----------------------------------------------------------------------------
(* TTLCache.get_or_create.                                                 *)

\* Where a thread goes with the value of cache c.
AfterValue(c) ==
    CASE c = "product"   -> <<"artifact", "lookup">>
      [] c = "artifact"  -> <<"gpu", "wait">>
      [] c = "embedding" -> <<"gpu", "generate">>

Use(t, c, by) ==
    thread' = [thread EXCEPT ![t].at = AfterValue(c), ![t].value[c] = by]

\* A live entry is moved to the end and served.
Hit(t, c) ==
    /\ At(t, <<c, "lookup">>)
    /\ \E i \in Fresh(c, t) :
          /\ entries' = [entries EXCEPT ![c] = Append(Without(c, t), @[i])]
          /\ Use(t, c, entries[c][i].by)
    /\ UNCHANGED <<now, pending, outcome, loadVars, gpu>>

\* The thread whose _Pending is in the map for the key of t; mutant: the map is
\* not consulted.
NoBuilder(c, t) == {}
Builder(c, t) == {owner \in pending[c] : SameKey(c, owner, t)}

\* Without a live entry a thread waits for the one that builds the key ...
WaitForBuild(t, c) ==
    /\ At(t, <<c, "lookup">>)
    /\ Fresh(c, t) = {}
    /\ entries' = [entries EXCEPT ![c] = Without(c, t)]
    /\ \E owner \in Builder(c, t) :
          thread' = [thread EXCEPT ![t].at = <<c, "wait">>, ![t].awaits = owner]
    /\ UNCHANGED <<now, pending, outcome, loadVars, gpu>>

\* ... or becomes that thread.  Only a product is downloaded and segmented;
\* the factories of the other caches are one step.
StartBuild(t, c) ==
    /\ At(t, <<c, "lookup">>)
    /\ Fresh(c, t) = {}
    /\ Builder(c, t) = {}
    /\ entries' = [entries EXCEPT ![c] = Without(c, t)]
    /\ pending' = [pending EXCEPT ![c] = @ \cup {t}]
    /\ outcome' = [outcome EXCEPT ![c][t] = "running"]
    /\ Go(t, <<c, IF c = "product" THEN "download" ELSE "finish">>)
    /\ UNCHANGED <<now, loadVars, gpu>>

\* The event is set: look again, or raise a copy of the builder's error.
Woken(t, c) ==
    /\ At(t, <<c, "wait">>)
    /\ outcome[c][thread[t].awaits] \in {"done", "failed"}
    /\ thread' = [thread EXCEPT
            ![t].at = IF outcome[c][thread[t].awaits] = "failed"
                      THEN AfterRaise(t, c) ELSE <<c, "lookup">>,
            ![t].awaits = None]
    /\ UNCHANGED <<now, cacheVars, loadVars, gpu>>

\* _build_artifacts has the picture and calls the segmenter for its session.
Download(t) ==
    /\ At(t, <<"product", "download">>)
    /\ Go(t, <<"session", "check">>)
    /\ UNCHANGED <<now, cacheVars, loadVars, gpu>>

\* The oldest entries go when the cache is over its size.
Newest(s, n) == IF Len(s) > n THEN SubSeq(s, Len(s) - n + 1, Len(s)) ELSE s

\* The _Pending leaves the map and its event is set; mutant: not after an error.
SettleAfterSuccess(c, t, result) ==
    /\ pending' = [pending EXCEPT ![c] = @ \ {t}]
    /\ outcome' = [outcome EXCEPT ![c][t] = IF result = "failed" THEN @ ELSE result]

Settle(c, t, result) ==
    /\ pending' = [pending EXCEPT ![c] = @ \ {t}]
    /\ outcome' = [outcome EXCEPT ![c][t] = result]

BuildDone(t, c) ==
    /\ At(t, <<c, "finish">>)
    /\ entries' = [entries EXCEPT ![c] =
            Newest(Append(Without(c, t), [by |-> t, expires |-> now + Ttl]), MaxEntries(c))]
    /\ Settle(c, t, "done")
    /\ Use(t, c, t)
    /\ UNCHANGED <<now, loadVars, gpu>>

BuildFails(t, c) ==
    /\ thread[t].at \in {c} \X {"download", "finish", "raise"}
    /\ Settle(c, t, "failed")
    /\ Go(t, AfterRaise(t, c))
    /\ UNCHANGED <<now, entries, loadVars, gpu>>

-----------------------------------------------------------------------------
(* The GPU, the output file, the clock.                                    *)

AcquireGpu(t) ==
    /\ At(t, <<"gpu", "wait">>)
    /\ gpu = None
    /\ gpu' = t
    /\ Go(t, <<"pipeline", "check">>)
    /\ UNCHANGED <<now, cacheVars, loadVars>>

\* The picture is generated and the lock released, whatever empty_cache does.
Generated(t) ==
    /\ At(t, <<"gpu", "generate">>)
    /\ gpu' = None
    /\ Go(t, <<"output", "save">>)
    /\ UNCHANGED <<now, cacheVars, loadVars>>

GenerateFails(t) ==
    /\ thread[t].at \in {"gpu"} \X {"generate", "raise"}
    /\ gpu' = None
    /\ Go(t, <<"end", "failed">>)
    /\ UNCHANGED <<now, cacheVars, loadVars>>

\* Composite and save; either may raise.
Save(t) ==
    /\ At(t, <<"output", "save">>)
    /\ \E end \in Ended : Go(t, end)
    /\ UNCHANGED <<now, cacheVars, loadVars, gpu>>

Tick ==
    /\ now < MaxTime
    /\ now' = now + 1
    /\ UNCHANGED <<thread, cacheVars, loadVars, gpu>>

CacheStep(t, c) ==
    Hit(t, c) \/ WaitForBuild(t, c) \/ StartBuild(t, c) \/ Woken(t, c)
    \/ BuildDone(t, c) \/ BuildFails(t, c)

LoadStep(t, x) ==
    CheckLoaded(t, x) \/ LockAndCheck(t, x) \/ Load(t, x) \/ LoadFails(t, x)

RequestStep(t) ==
    \/ \E c \in Caches : CacheStep(t, c)
    \/ Download(t) \/ AcquireGpu(t) \/ Generated(t) \/ GenerateFails(t) \/ Save(t)

ThreadStep(t) ==
    \/ \E x \in Lazy : LoadStep(t, x)
    \/ RequestStep(t)

Next ==
    \/ \E t \in Threads : ThreadStep(t)
    \/ Tick

Spec == Init /\ [][Next]_vars

\* The operating system runs some thread that can run; downloads, loads and
\* generations return or raise.  Nobody needs to send a request.
Progress == \E t \in Threads : ~At(t, Start) /\ ThreadStep(t)
FairSpec == Spec /\ WF_vars(Progress)

-----------------------------------------------------------------------------
(* Properties.                                                             *)

TypeOK ==
    /\ now \in 0..MaxTime
    /\ thread \in [Threads -> Thread]
    /\ entries \in [Caches -> Seq(Entry)]
    /\ \A c \in Caches : Len(entries[c]) <= MaxEntries(c)
    /\ pending \in [Caches -> SUBSET Threads]
    /\ outcome \in [Caches -> [Threads -> Outcome]]
    /\ loadLock \in [Lazy -> Threads \cup {None}]
    /\ loads \in [Lazy -> Nat]
    /\ gpu \in Threads \cup {None}

\* Inside generate, where the pipeline is loaded and the embedding is made too
InGenerate(t) ==
    /\ ~IsWarmUp(t)
    /\ \/ thread[t].at[1] \in {"pipeline", "embedding"}
       \/ thread[t].at \in {"gpu"} \X {"generate", "raise"}

\* What is expensive is made once, and by one request at a time.  A key has one
\* value or one builder, never two of them: no two threads build it at once, no
\* entry stands beside a build or beside another entry, and eviction keeps a cache within its limit
\* (TTLCache.get_or_create, cache.py:64-77 and 94-105).  The engine, the session
\* and the pipeline are created once however many requests meet them
\* uncreated, after creations that raised too (get_engine, _get_session,
\* _get_loaded).  The GPU lock is held exactly while a request is inside generate:
\* no two are in there, and one that ended, by whatever exception, left the lock
\* free (run, inference.py:207-226).
SingleFlight ==
    /\ \A c \in Caches :
         /\ \A t, u \in pending[c] : SameKey(c, t, u) => t = u
         /\ \A t \in pending[c] : EntriesFor(c, t) = {}
         /\ \A i, j \in DOMAIN entries[c] :
              SameKey(c, entries[c][i].by, entries[c][j].by) => i = j
         /\ Len(entries[c]) <= MaxEntries(c)
    /\ \A x \in Lazy : loads[x] <= 1
    /\ {t \in Threads : InGenerate(t)} = {gpu} \ {None}

\* The canvas and the embedding that a request is generated from were derived
\* from the very product build it prepared, also when that build was replaced
\* in its cache meanwhile (the token in the keys, inference.py:191-197 and
\* pipelines.py:256), and for its own product and canvas.
ArtifactsMatchSource ==
    \A t \in Threads : \A c \in {"artifact", "embedding"} :
        LET by == thread[t].value[c]
        IN  by # None =>
              /\ thread[by].product = thread[t].product
              /\ thread[by].value["product"] = thread[t].value["product"]
              /\ c = "artifact" => thread[by].canvas = thread[t].canvas

\* Every request and every warm-up ends, whoever it waits for and however that
\* one ends: no wake-up is lost and no lock stays behind, so the server comes to
\* rest again after whatever arrived.
EveryRequestEnds == []<>(\A t \in Threads : thread[t].at \in Ended \cup {Start})
=============================================================================
