-------------------------- MODULE ModelServerProofs -------------------------
(***************************************************************************)
(* What ModelServer promises, for any number of threads, products and      *)
(* cache sizes.  The keys of what is derived from a product build name     *)
(* that build, which a thread knows before it uses such a key and never    *)
(* changes (ThreadFacts); so a key stays what it is while somebody builds  *)
(* it or an entry has it.                                                  *)
(***************************************************************************)
EXTENDS ModelServer, SequenceTheorems, TLAPS

(***************************************************************************)
(* The inductive invariant.                                                *)
(***************************************************************************)
Source(t) == thread[t].value["product"]

\* The places where thread t may be with what it holds.
Fits(t, place) ==
    /\ thread[t].product = None => place[1] \in {"engine", "pipeline", "end"}
    /\ place[1] \in {"engine", "product", "session"} => Source(t) = None
    /\ place[1] \in {"artifact", "embedding", "gpu", "output"} => Source(t) # None
    /\ place[1] = "pipeline" /\ thread[t].product # None => Source(t) # None

ThreadFacts(t) ==
    /\ Fits(t, thread[t].at)
    /\ \A c \in Caches : thread[t].value[c] # None => Source(t) # None

\* The threads in the map of a cache are those that build a value for it.
Building(c) ==
    IF c = "product"
      THEN {"product"} \X {"download", "finish", "raise"}
           \cup {"session"} \X {"check", "lock", "load"}
      ELSE {<<c, "finish">>}

PendingFacts(t) == \A c \in Caches : t \in pending[c] <=> thread[t].at \in Building(c)

ThreadInv == \A t \in Threads : ThreadFacts(t) /\ PendingFacts(t)

\* The key of thread t in cache c is settled.
Keyed(c, t) == c = "product" \/ Source(t) # None

\* In a cache every key has one entry or one builder.
CacheFacts(c) ==
    /\ \A i \in DOMAIN entries[c] : Keyed(c, entries[c][i].by)
    /\ \A t, u \in pending[c] : SameKey(c, t, u) => t = u
    /\ \A t \in pending[c] : EntriesFor(c, t) = {}
    /\ \A i, j \in DOMAIN entries[c] :
         SameKey(c, entries[c][i].by, entries[c][j].by) => i = j
    /\ Len(entries[c]) <= MaxEntries(c)

CacheInv == \A c \in Caches : CacheFacts(c)

\* An object is created under its lock, by the one who found it missing there.
LoadFacts(x) ==
    /\ \A t \in Threads : At(t, <<x, "load">>) => loadLock[x] = t
    /\ loadLock[x] # None => ~Loaded(x)
    /\ loads[x] <= 1

LoadInv == \A x \in Lazy : LoadFacts(x)

\* The places inside generate.
Inside(t, place) ==
    /\ thread[t].product # None
    /\ \/ place[1] \in {"pipeline", "embedding"}
       \/ place \in {"gpu"} \X {"generate", "raise"}

GpuInv == \A t \in Threads : Inside(t, thread[t].at) <=> gpu = t

ServerInv ==
    TypeOK /\ ThreadInv /\ CacheInv /\ LoadInv /\ GpuInv /\ ArtifactsMatchSource

-----------------------------------------------------------------------------

(***************************************************************************)
(* Sequences: what pop, move_to_end and popitem leave of an OrderedDict.   *)
(***************************************************************************)
LEMMA Removed ==
  ASSUME NEW S, NEW s \in Seq(S), NEW i \in 1..Len(s)
  PROVE  /\ RemoveAt(s, i) \in Seq(S) /\ Len(RemoveAt(s, i)) = Len(s) - 1
         /\ \A k \in 1..Len(s) - 1 :
              RemoveAt(s, i)[k] = IF k < i THEN s[k] ELSE s[k + 1]
<1> DEFINE a == SubSeq(s, 1, i - 1)
           b == SubSeq(s, i + 1, Len(s))
<1>0. Len(s) \in Nat /\ i \in Nat
  OBVIOUS
<1>1. a \in Seq(S) /\ Len(a) = i - 1 /\ \A k \in 1..i - 1 : a[k] = s[k]
  OBVIOUS
<1>2. b \in Seq(S) /\ Len(b) = Len(s) - i /\ \A k \in 1..Len(s) - i : b[k] = s[k + i]
  OBVIOUS
<1>3. RemoveAt(s, i) = a \o b
  BY DEF RemoveAt
<1> HIDE DEF a, b
<1>4. a \o b \in Seq(S) /\ Len(a \o b) = Len(s) - 1
  <2>1. a \o b \in Seq(S) /\ Len(a \o b) = Len(a) + Len(b)
    BY <1>1, <1>2, ConcatProperties
  <2> QED BY <2>1, <1>0, <1>1, <1>2
<1>5. ASSUME NEW k \in 1..Len(s) - 1
      PROVE  (a \o b)[k] = IF k < i THEN s[k] ELSE s[k + 1]
  <2>0. k \in Nat /\ k \in 1..Len(a) + Len(b)
    BY <1>0, <1>1, <1>2
  <2>1. CASE k < i
    <3>1. (a \o b)[k] = a[k]
      BY <2>0, <2>1, <1>0, <1>1, <1>2
    <3> QED BY <2>0, <2>1, <3>1, <1>0, <1>1
  <2>2. CASE k >= i
    <3>1. (a \o b)[k] = b[k - (i - 1)]
      BY <2>0, <2>2, <1>0, <1>1, <1>2
    <3>2. k - (i - 1) \in 1..Len(s) - i /\ (k - (i - 1)) + i = k + 1
      BY <2>2, <1>0
    <3>3. b[k - (i - 1)] = s[k + 1]
      BY <3>2, <1>2
    <3> QED BY <2>0, <2>2, <3>1, <3>3, <1>0
  <2> QED BY <2>0, <2>1, <2>2, <1>0
<1> QED BY <1>3, <1>4, <1>5

LEMMA Kept ==
  ASSUME NEW S, NEW s \in Seq(S), NEW n \in Nat \ {0}
  PROVE  /\ Newest(s, n) \in Seq(S) /\ Len(Newest(s, n)) <= n
         /\ \E d \in 0..Len(s) : /\ Len(Newest(s, n)) = Len(s) - d
                                 /\ \A k \in 1..Len(s) - d : Newest(s, n)[k] = s[k + d]
<1>1. CASE Len(s) > n
  <2>1. Newest(s, n) = SubSeq(s, Len(s) - n + 1, Len(s))
    BY <1>1 DEF Newest
  <2>2. Newest(s, n) \in Seq(S) /\ Len(Newest(s, n)) = n
    BY <1>1, <2>1
  <2>3. \A k \in 1..n : Newest(s, n)[k] = s[k + (Len(s) - n)]
    BY <1>1, <2>1
  <2>4. Len(s) - n \in 0..Len(s) /\ Len(s) - (Len(s) - n) = n
    BY <1>1
  <2> DEFINE d == Len(s) - n
  <2>5. Len(Newest(s, n)) = Len(s) - d /\ \A k \in 1..Len(s) - d : Newest(s, n)[k] = s[k + d]
    BY <2>2, <2>3, <2>4
  <2> HIDE DEF d
  <2>6. n <= n
    OBVIOUS
  <2> QED BY <2>2, <2>4, <2>5, <2>6 DEF d
<1>2. CASE Len(s) <= n
  <2>1. Newest(s, n) = s
    BY <1>2 DEF Newest
  <2>2. Len(s) = Len(s) - 0 /\ \A k \in 1..Len(s) - 0 : s[k] = s[k + 0]
    OBVIOUS
  <2>3. 0 \in 0..Len(s)
    OBVIOUS
  <2> QED BY <1>2, <2>1, <2>2, <2>3
<1> QED BY <1>1, <1>2

(***************************************************************************)
(* Keys.                                                                   *)
(***************************************************************************)
\* What a step may do to the threads: nobody's request changes, nor the
\* product build that a thread has taken up.
RequestsStay ==
    \A u \in Threads :
      /\ thread'[u].product = thread[u].product /\ thread'[u].canvas = thread[u].canvas
      /\ Source(u) # None => Source(u)' = Source(u)

LEMMA KeySettled ==
  ASSUME RequestsStay, NEW c \in Caches, NEW u \in Threads, Keyed(c, u)
  PROVE  KeyIn(c, u)' = KeyIn(c, u) /\ Keyed(c, u)'
<1>1. CASE c = "product"
  BY <1>1 DEF RequestsStay, KeyIn, Keyed
<1>2. CASE c # "product"
  BY <1>2 DEF RequestsStay, KeyIn, Keyed, Source, Caches
<1> QED BY <1>1, <1>2

\* The entries and builders of a cache after a step, under the keys of before.
LEMMA CacheBecomes ==
  ASSUME RequestsStay, NEW c \in Caches,
         entries'[c] \in Seq(Entry), Len(entries'[c]) <= MaxEntries(c),
         \A k \in DOMAIN entries'[c] : Keyed(c, entries'[c][k].by),
         \A k, l \in DOMAIN entries'[c] :
           SameKey(c, entries'[c][k].by, entries'[c][l].by) => k = l,
         pending'[c] \subseteq Threads, \A u \in pending'[c] : Keyed(c, u),
         \A u, v \in pending'[c] : SameKey(c, u, v) => u = v,
         \A u \in pending'[c], k \in DOMAIN entries'[c] : ~SameKey(c, entries'[c][k].by, u)
  PROVE  CacheFacts(c)'
<1>1. \A u \in Threads : Keyed(c, u) => KeyIn(c, u)' = KeyIn(c, u) /\ Keyed(c, u)'
  BY KeySettled
<1> DEFINE s == entries'[c]
<1>2. \A k \in DOMAIN s : s[k].by \in Threads
  <2> HIDE DEF s
  <2>1. s \in Seq(Entry)
    BY DEF s
  <2>2. \A k \in DOMAIN s : s[k] \in Entry
    BY <2>1
  <2> QED BY <2>2 DEF Entry
<1>3. ASSUME NEW k \in DOMAIN s
      PROVE  KeyIn(c, entries[c][k].by)' = KeyIn(c, s[k].by) /\ Keyed(c, entries[c][k].by)'
  <2>1. PICK u \in Threads : u = s[k].by /\ Keyed(c, u)
    BY <1>2
  <2>2. KeyIn(c, entries[c][k].by)' = KeyIn(c, u)' /\ Keyed(c, entries[c][k].by)' = Keyed(c, u)'
    BY <2>1 DEF KeyIn, Keyed, Source
  <2> QED BY <1>1, <2>1, <2>2
<1>4. \A u, v \in pending'[c] : SameKey(c, u, v)' => u = v
  BY <1>1 DEF SameKey
<1>5. \A u \in pending'[c] : EntriesFor(c, u)' = {}
  BY <1>1, <1>3 DEF SameKey, EntriesFor
<1>6. \A k, l \in DOMAIN s : SameKey(c, entries[c][k].by, entries[c][l].by)' => k = l
  BY <1>3 DEF SameKey
<1>7. MaxEntries(c)' = MaxEntries(c)
  BY DEF MaxEntries
<1> QED BY <1>3, <1>4, <1>5, <1>6, <1>7 DEF CacheFacts

\* Everybody who builds a value knows the key of it.
LEMMA BuildersAreKeyed ==
  ASSUME TypeOK, ThreadInv, NEW c \in Caches
  PROVE  /\ pending[c] \subseteq Threads
         /\ \A u \in pending[c] : Keyed(c, u)
         /\ \A u \in Threads : thread[u].at[1] = c => Keyed(c, u)
<1>1. pending[c] \subseteq Threads
  BY DEF TypeOK
<1>2. \A u \in Threads : thread[u].at[1] = c => Keyed(c, u)
  BY DEF ThreadInv, ThreadFacts, Fits, Keyed, Caches
<1>3. ASSUME NEW u \in pending[c] PROVE Keyed(c, u)
  <2>1. CASE c = "product"
    BY <2>1 DEF Keyed
  <2>2. CASE c # "product"
    <3>1. thread[u].at = <<c, "finish">>
      BY <1>1, <2>2 DEF ThreadInv, PendingFacts, Building
    <3> QED BY <1>1, <1>2, <3>1
  <2> QED BY <2>1, <2>2
<1> QED BY <1>1, <1>2, <1>3

\* A step that leaves a cache alone leaves it right.
LEMMA CacheStays ==
  ASSUME TypeOK, ThreadInv, CacheInv, RequestsStay, NEW c \in Caches,
         entries'[c] = entries[c], pending'[c] \subseteq pending[c]
  PROVE  CacheFacts(c)'
<1>1. CacheFacts(c) /\ entries[c] \in Seq(Entry)
  BY DEF CacheInv, TypeOK
<1>2. pending[c] \subseteq Threads /\ \A u \in pending[c] : Keyed(c, u)
  BY BuildersAreKeyed
<1>3. \A u \in pending'[c], k \in DOMAIN entries'[c] : ~SameKey(c, entries'[c][k].by, u)
  BY <1>1 DEF CacheFacts, EntriesFor
<1>4. /\ Len(entries'[c]) <= MaxEntries(c)
      /\ \A k \in DOMAIN entries'[c] : Keyed(c, entries'[c][k].by)
      /\ \A k, l \in DOMAIN entries'[c] :
           SameKey(c, entries'[c][k].by, entries'[c][l].by) => k = l
      /\ \A u, v \in pending'[c] : SameKey(c, u, v) => u = v
  BY <1>1 DEF CacheFacts
<1> QED BY <1>1, <1>2, <1>3, <1>4, CacheBecomes

(***************************************************************************)
(* The entries without that of a key.                                      *)
(***************************************************************************)
LEMMA WithoutFacts ==
  ASSUME TypeOK, CacheInv, NEW c \in Caches, NEW t \in Threads
  PROVE  /\ Without(c, t) \in Seq(Entry) /\ Len(Without(c, t)) <= Len(entries[c])
         /\ EntriesFor(c, t) # {} => Len(Without(c, t)) = Len(entries[c]) - 1
         /\ EntriesFor(c, t) = {} => Without(c, t) = entries[c]
         /\ \A k \in DOMAIN Without(c, t) :
              /\ ~SameKey(c, Without(c, t)[k].by, t)
              /\ \E m \in DOMAIN entries[c] : Without(c, t)[k] = entries[c][m]
         /\ \A k, l \in DOMAIN Without(c, t) :
              SameKey(c, Without(c, t)[k].by, Without(c, t)[l].by) => k = l
<1> DEFINE s == entries[c]
           w == Without(c, t)
<1>1. s \in Seq(Entry) /\ Len(s) \in Nat /\ DOMAIN s = 1..Len(s)
      /\ \A i, j \in 1..Len(s) : SameKey(c, s[i].by, s[j].by) => i = j
  BY DEF TypeOK, CacheInv, CacheFacts
<1>2. CASE EntriesFor(c, t) = {}
  <2>1. w = s
    BY <1>2 DEF Without
  <2>2. \A k \in 1..Len(s) : ~SameKey(c, s[k].by, t)
    BY <1>1, <1>2 DEF EntriesFor
  <2> HIDE DEF s, w
  <2>3. w \in Seq(Entry) /\ Len(w) <= Len(s)
    BY <1>1, <2>1
  <2> QED BY <1>1, <1>2, <2>1, <2>2, <2>3 DEF s, w
<1>3. CASE EntriesFor(c, t) # {}
  <2> DEFINE i == CHOOSE k \in EntriesFor(c, t) : TRUE
  <2>1. i \in 1..Len(s) /\ SameKey(c, s[i].by, t)
    <3>1. i \in EntriesFor(c, t)
      BY <1>3
    <3> HIDE DEF i
    <3> QED BY <1>1, <3>1 DEF EntriesFor
  <2>2. w = RemoveAt(s, i)
    BY <1>3 DEF Without
  <2> HIDE DEF s, w, i
  <2>3. /\ w \in Seq(Entry) /\ Len(w) = Len(s) - 1 /\ DOMAIN w = 1..Len(s) - 1
        /\ \A k \in 1..Len(s) - 1 : w[k] = IF k < i THEN s[k] ELSE s[k + 1]
    <3>1. /\ w \in Seq(Entry) /\ Len(w) = Len(s) - 1
          /\ \A k \in 1..Len(s) - 1 : w[k] = IF k < i THEN s[k] ELSE s[k + 1]
      BY <1>1, <2>1, <2>2, Removed
    <3> QED BY <3>1
  <2>4. ASSUME NEW k \in 1..Len(s) - 1
        PROVE  \E m \in 1..Len(s) : m # i /\ w[k] = s[m] /\ m = IF k < i THEN k ELSE k + 1
    BY <1>1, <2>1, <2>3
  <2>5. \A k \in 1..Len(s) - 1 : ~SameKey(c, w[k].by, t)
    <3>1. \A m \in 1..Len(s) : SameKey(c, s[m].by, t) => m = i
      BY <1>1, <2>1 DEF SameKey
    <3> QED BY <2>4, <3>1
  <2>6. \A k, l \in 1..Len(s) - 1 : SameKey(c, w[k].by, w[l].by) => k = l
    <3> SUFFICES ASSUME NEW k \in 1..Len(s) - 1, NEW l \in 1..Len(s) - 1,
                        SameKey(c, w[k].by, w[l].by)
                 PROVE  k = l
      OBVIOUS
    <3>1. PICK m \in 1..Len(s) : w[k] = s[m] /\ m = IF k < i THEN k ELSE k + 1
      BY <2>4
    <3>2. PICK n \in 1..Len(s) : w[l] = s[n] /\ n = IF l < i THEN l ELSE l + 1
      BY <2>4
    <3>3. m = n
      BY <1>1, <3>1, <3>2
    <3> QED BY <1>1, <2>1, <3>1, <3>2, <3>3
  <2>7. Len(w) <= Len(s)
    BY <1>1, <2>3
  <2> QED BY <1>1, <1>3, <2>3, <2>4, <2>5, <2>6, <2>7 DEF s, w
<1> QED BY <1>2, <1>3

(***************************************************************************)
(* A thread that goes on to another place, with what it holds.             *)
(***************************************************************************)
Reaches(t, place) ==
    /\ thread' \in [Threads -> Thread]
    /\ thread'[t].at = place
    /\ thread'[t].product = thread[t].product /\ thread'[t].canvas = thread[t].canvas
    /\ \A u \in Threads \ {t} : thread'[u] = thread[u]

Moves(t, place) == Reaches(t, place) /\ thread'[t].value = thread[t].value

LEMMA GoMoves ==
  ASSUME TypeOK, NEW t \in Threads, NEW place \in Place, Go(t, place)
  PROVE  Moves(t, place)
<1>1. thread \in [Threads -> Thread] /\ thread' = [thread EXCEPT ![t].at = place]
  BY DEF TypeOK, Go
<1> QED BY <1>1 DEF Moves, Reaches, Thread

\* The facts about the threads follow from those about the new place.
LEMMA MoveKeepsThreads ==
  ASSUME ServerInv, NEW t \in Threads, NEW place, Moves(t, place), Fits(t, place),
         \A c \in Caches : t \in pending'[c] <=> place \in Building(c),
         \A c \in Caches, u \in Threads \ {t} : u \in pending'[c] <=> u \in pending[c]
  PROVE  ThreadInv' /\ RequestsStay /\ ArtifactsMatchSource'
<1>0. "product" \in Caches
  BY DEF Caches
<1>1. RequestsStay
  BY DEF Moves, Reaches, RequestsStay, Source
<1>2. ThreadFacts(t)' /\ PendingFacts(t)'
  <2>1. ThreadFacts(t)
    BY DEF ServerInv, ThreadInv
  <2> QED BY <2>1 DEF Moves, Reaches, ThreadFacts, Fits, PendingFacts, Source, Building
<1>3. ASSUME NEW u \in Threads, u # t PROVE ThreadFacts(u)' /\ PendingFacts(u)'
  <2>1. ThreadFacts(u) /\ PendingFacts(u) /\ thread'[u] = thread[u]
    BY <1>3 DEF ServerInv, ThreadInv, Moves, Reaches
  <2> QED BY <1>3, <2>1 DEF ThreadFacts, Fits, PendingFacts, Source, Building
<1>4. ArtifactsMatchSource'
  <2>1. \A u \in Threads : /\ thread'[u].value = thread[u].value
                           /\ thread'[u].product = thread[u].product
                           /\ thread'[u].canvas = thread[u].canvas
    BY DEF Moves, Reaches
  <2>2. \A u \in Threads, c \in Caches : thread[u].value[c] \in Threads \cup {None}
    BY DEF ServerInv, TypeOK, Thread
  <2> QED BY <2>1, <2>2 DEF ServerInv, ArtifactsMatchSource, Caches
<1> QED BY <1>1, <1>2, <1>3, <1>4 DEF ThreadInv

\* Who is inside generate changes with the one who moves.
LEMMA MoveKeepsGpu ==
  ASSUME GpuInv, NEW t \in Threads, NEW place, Reaches(t, place),
         Inside(t, place) <=> gpu' = t,
         \A u \in Threads \ {t} : gpu' = u <=> gpu = u
  PROVE  GpuInv'
<1>1. Inside(t, thread[t].at)' <=> gpu' = t
  BY DEF Reaches, Inside
<1>2. ASSUME NEW u \in Threads, u # t PROVE Inside(u, thread[u].at)' <=> gpu' = u
  BY <1>2 DEF Reaches, Inside, GpuInv
<1> QED BY <1>1, <1>2 DEF GpuInv

LEMMA MoveKeepsLoads ==
  ASSUME LoadInv, NEW t \in Threads, NEW place, Reaches(t, place), UNCHANGED loadVars,
         \A x \in Lazy : place # <<x, "load">>
  PROVE  LoadInv'
<1>1. ASSUME NEW x \in Lazy PROVE LoadFacts(x)'
  <2>1. ASSUME NEW u \in Threads, At(u, <<x, "load">>)' PROVE loadLock[x] = u
    <3>1. u # t
      BY <2>1 DEF At, Reaches
    <3> QED BY <2>1, <3>1 DEF At, Reaches, LoadInv, LoadFacts
  <2> QED BY <2>1 DEF LoadInv, LoadFacts, loadVars, Loaded
<1> QED BY <1>1 DEF LoadInv

\* All of it, for a step that leaves caches and loads alone.
LEMMA MoveKeepsAll ==
  ASSUME ServerInv, NEW t \in Threads, NEW place, Moves(t, place), Fits(t, place),
         \A c \in Caches : place \in Building(c) <=> thread[t].at \in Building(c),
         UNCHANGED <<now, cacheVars>>
  PROVE  ThreadInv' /\ CacheInv' /\ ArtifactsMatchSource'
<1>1. \A c \in Caches : t \in pending[c] <=> thread[t].at \in Building(c)
  BY DEF ServerInv, ThreadInv, PendingFacts
<1>2. ThreadInv' /\ RequestsStay /\ ArtifactsMatchSource'
  BY <1>1, MoveKeepsThreads DEF cacheVars
<1>3. \A c \in Caches : CacheFacts(c)'
  BY <1>2, CacheStays DEF ServerInv, cacheVars
<1> QED BY <1>2, <1>3 DEF CacheInv

(***************************************************************************)
(* The places of a load.                                                   *)
(***************************************************************************)
Loading(x) == {<<x, "check">>, <<x, "lock">>, <<x, "load">>}

LEMMA LoadPlaces ==
  ASSUME NEW t \in Threads, NEW x \in Lazy, ThreadFacts(t), thread[t].at \in Loading(x),
         NEW place \in Loading(x) \cup {AfterLoad(t, x), AfterRaise(t, x)}
  PROVE  /\ place \in Place /\ Fits(t, place)
         /\ \A c \in Caches : place \in Building(c) <=> thread[t].at \in Building(c)
         /\ Inside(t, place) <=> Inside(t, thread[t].at)
         /\ place \notin Loading(x) => \A y \in Lazy : place # <<y, "load">>
<1> USE DEF Loading, Fits, ThreadFacts, Caches, Building, Inside, Place, Ended, Lazy,
            AfterLoad, AfterRaise, IsWarmUp
<1>1. CASE x = "engine"
  <2>1. place \in {<<"engine", "check">>, <<"engine", "lock">>, <<"engine", "load">>,
                   <<"pipeline", "check">>, <<"product", "lookup">>, <<"end", "failed">>}
        /\ (place = <<"pipeline", "check">> => thread[t].product = None)
        /\ (place = <<"product", "lookup">> => thread[t].product # None)
    BY <1>1
  <2> QED BY <1>1, <2>1
<1>2. CASE x = "session"
  <2>1. place \in {<<"session", "check">>, <<"session", "lock">>, <<"session", "load">>,
                   <<"product", "finish">>, <<"product", "raise">>}
    BY <1>2
  <2> QED BY <1>2, <2>1
<1>3. CASE x = "pipeline"
  <2>1. CASE place \in Loading(x)
    BY <1>3, <2>1
  <2>2. CASE place \notin Loading(x) /\ thread[t].product = None
    <3>1. place \in Ended
      <4>1. AfterLoad(t, x) \in Ended /\ AfterRaise(t, x) \in Ended
        BY <1>3, <2>2
      <4> QED BY <2>2, <4>1
    <3> HIDE DEF AfterLoad, AfterRaise
    <3> QED BY <1>3, <2>2, <3>1
  <2>3. CASE place \notin Loading(x) /\ thread[t].product # None
    <3>1. place \in {<<"embedding", "lookup">>, <<"gpu", "generate">>, <<"gpu", "raise">>}
      <4>1. AfterRaise(t, x) = <<"gpu", "raise">>
        BY <1>3, <2>3
      <4>2. AfterLoad(t, x) \in {<<"embedding", "lookup">>, <<"gpu", "generate">>}
        BY <1>3, <2>3
      <4> QED BY <2>3, <4>1, <4>2
    <3>2. thread[t].at[1] = "pipeline"
      BY <1>3
    <3> HIDE DEF AfterLoad, AfterRaise
    <3>3. place \in Place /\ Fits(t, place)
      BY <1>3, <2>3, <3>1, <3>2
    <3>4. \A c \in Caches : place \notin Building(c) /\ thread[t].at \notin Building(c)
      BY <3>1, <3>2
    <3>5. Inside(t, place) /\ Inside(t, thread[t].at)
      BY <2>3, <3>1, <3>2
    <3> QED BY <3>1, <3>3, <3>4, <3>5
  <2> QED BY <2>1, <2>2, <2>3
<1> QED BY <1>1, <1>2, <1>3

(***************************************************************************)
(* The steps of a load.                                                    *)
(***************************************************************************)
LEMMA MoveKeepsTypes ==
  ASSUME TypeOK, NEW t \in Threads, NEW place, Moves(t, place),
         UNCHANGED <<now, cacheVars>>, loadLock' \in [Lazy -> Threads \cup {None}],
         loads' \in [Lazy -> Nat], gpu' \in Threads \cup {None}
  PROVE  TypeOK'
BY DEF TypeOK, Moves, Reaches, cacheVars, MaxEntries

\* A thread that goes on inside a load, or with the object or without it.
LEMMA LoadMoves ==
  ASSUME ServerInv, NEW t \in Threads, NEW x \in Lazy, thread[t].at \in Loading(x),
         NEW place \in Loading(x) \cup {AfterLoad(t, x), AfterRaise(t, x)},
         Go(t, place), UNCHANGED <<now, cacheVars, gpu>>,
         loadLock' \in [Lazy -> Threads \cup {None}], loads' \in [Lazy -> Nat], LoadInv'
  PROVE  ServerInv'
<1>1. TypeOK /\ ThreadFacts(t) /\ GpuInv
  BY DEF ServerInv, ThreadInv
<1>2. /\ place \in Place /\ Fits(t, place)
      /\ \A c \in Caches : place \in Building(c) <=> thread[t].at \in Building(c)
      /\ Inside(t, place) <=> Inside(t, thread[t].at)
  BY <1>1, LoadPlaces
<1>3. Moves(t, place)
  BY <1>1, <1>2, GoMoves
<1>4. TypeOK'
  BY <1>1, <1>3, MoveKeepsTypes DEF TypeOK
<1>5. ThreadInv' /\ CacheInv' /\ ArtifactsMatchSource'
  BY <1>2, <1>3, MoveKeepsAll
<1>6. GpuInv'
  <2>1. Inside(t, place) <=> gpu' = t
    BY <1>1, <1>2 DEF GpuInv
  <2>2. \A u \in Threads \ {t} : gpu' = u <=> gpu = u
    OBVIOUS
  <2> QED BY <1>1, <1>3, <2>1, <2>2, MoveKeepsGpu DEF Moves
<1> QED BY <1>4, <1>5, <1>6 DEF ServerInv

LEMMA CheckKeeps ==
  ASSUME ServerInv, NEW t \in Threads, NEW x \in Lazy, CheckLoaded(t, x)
  PROVE  ServerInv'
<1>1. TypeOK /\ ThreadFacts(t) /\ LoadInv
  BY DEF ServerInv, ThreadInv
<1>2. PICK place \in {<<x, "lock">>, AfterLoad(t, x)} : Go(t, place)
  BY DEF CheckLoaded
<1>3. thread[t].at \in Loading(x) /\ place \in Loading(x) \cup {AfterLoad(t, x), AfterRaise(t, x)}
  BY <1>2 DEF CheckLoaded, At, Loading
<1>4. place \in Place /\ \A y \in Lazy : place # <<y, "load">>
  <2>1. CASE place \in Loading(x)
    <3>1. place \in Place
      BY <1>1, <1>3, LoadPlaces
    <3>2. place = <<x, "lock">> \/ place = AfterLoad(t, x)
      BY <1>2
    <3>3. AfterLoad(t, x) # <<x, "load">>
      BY DEF AfterLoad, Lazy
    <3> QED BY <2>1, <3>1, <3>2, <3>3 DEF Loading
  <2>2. CASE place \notin Loading(x)
    BY <1>1, <1>3, <2>2, LoadPlaces
  <2> QED BY <2>1, <2>2
<1>5. Moves(t, place)
  BY <1>1, <1>2, <1>4, GoMoves
<1>6. LoadInv'
  BY <1>1, <1>4, <1>5, MoveKeepsLoads DEF CheckLoaded, Moves
<1>7. loadLock' \in [Lazy -> Threads \cup {None}] /\ loads' \in [Lazy -> Nat]
  BY <1>1 DEF CheckLoaded, TypeOK, loadVars
<1> QED BY <1>2, <1>3, <1>6, <1>7, LoadMoves DEF CheckLoaded

LEMMA LockKeeps ==
  ASSUME ServerInv, NEW t \in Threads, NEW x \in Lazy, LockAndCheck(t, x)
  PROVE  ServerInv'
<1>1. TypeOK /\ ThreadFacts(t) /\ LoadInv /\ thread[t].at \in Loading(x)
  BY DEF ServerInv, ThreadInv, LockAndCheck, At, Loading
<1>2. CASE Loaded(x)
  <2>1. Go(t, AfterLoad(t, x)) /\ UNCHANGED loadVars
    BY <1>2 DEF LockAndCheck, CreatedMeanwhile, loadVars
  <2>2. AfterLoad(t, x) \notin Loading(x)
    BY DEF AfterLoad, Lazy, Loading
  <2>3. AfterLoad(t, x) \in Place /\ \A y \in Lazy : AfterLoad(t, x) # <<y, "load">>
    BY <1>1, <2>2, LoadPlaces
  <2>4. LoadInv'
    <3>1. Moves(t, AfterLoad(t, x))
      BY <1>1, <2>1, <2>3, GoMoves
    <3> QED BY <1>1, <2>1, <2>3, <3>1, MoveKeepsLoads DEF Moves
  <2>5. loadLock' \in [Lazy -> Threads \cup {None}] /\ loads' \in [Lazy -> Nat]
    BY <1>1, <2>1 DEF TypeOK, loadVars
  <2> QED BY <1>1, <2>1, <2>4, <2>5, LoadMoves DEF LockAndCheck
<1>3. CASE ~Loaded(x)
  <2>1. Go(t, <<x, "load">>) /\ loadLock' = [loadLock EXCEPT ![x] = t] /\ loads' = loads
    BY <1>3 DEF LockAndCheck, CreatedMeanwhile
  <2>2. <<x, "load">> \in Loading(x)
    BY DEF Loading
  <2>3. loadLock' \in [Lazy -> Threads \cup {None}] /\ loads' \in [Lazy -> Nat]
    BY <1>1, <2>1 DEF TypeOK
  <2>4. Moves(t, <<x, "load">>)
    <3>1. <<x, "load">> \in Place
      BY DEF Place, Lazy
    <3> QED BY <1>1, <2>1, <3>1, GoMoves
  <2>5. ASSUME NEW y \in Lazy PROVE LoadFacts(y)'
    <3>1. LoadFacts(y) /\ loadLock[x] = None
      BY <1>1 DEF LoadInv, LockAndCheck
    <3>2. ASSUME NEW u \in Threads, At(u, <<y, "load">>)' PROVE loadLock'[y] = u
      <4>1. CASE y = x
        <5>1. u = t
          <6>1. u # t => At(u, <<x, "load">>)
            BY <2>4, <3>2, <4>1 DEF At, Moves, Reaches
          <6>2. At(u, <<x, "load">>) => u = None
            BY <3>1, <4>1 DEF LoadFacts
          <6> QED BY <6>1, <6>2, NoneIsApart
        <5> QED BY <1>1, <2>1, <4>1, <5>1 DEF TypeOK
      <4>2. CASE y # x
        <5>1. At(u, <<y, "load">>)
          BY <2>4, <3>2, <4>2 DEF At, Moves, Reaches
        <5> QED BY <1>1, <2>1, <3>1, <4>2, <5>1 DEF LoadFacts, TypeOK
      <4> QED BY <4>1, <4>2
    <3>3. loadLock'[y] # None => ~Loaded(y)'
      BY <1>1, <1>3, <2>1, <3>1 DEF LoadFacts, Loaded, TypeOK
    <3>4. loads'[y] <= 1
      BY <2>1, <3>1 DEF LoadFacts
    <3> QED BY <3>2, <3>3, <3>4 DEF LoadFacts
  <2>6. LoadInv'
    BY <2>5 DEF LoadInv
  <2> QED BY <1>1, <2>1, <2>2, <2>3, <2>6, LoadMoves DEF LockAndCheck
<1> QED BY <1>2, <1>3

\* The thread that creates an object holds its lock, and so is alone with it.
LEMMA LoadKeeps ==
  ASSUME ServerInv, NEW t \in Threads, NEW x \in Lazy, Load(t, x) \/ LoadFails(t, x)
  PROVE  ServerInv'
<1>1. TypeOK /\ ThreadFacts(t) /\ LoadInv /\ thread[t].at = <<x, "load">>
  BY DEF ServerInv, ThreadInv, Load, LoadFails, At
<1>2. PICK place \in {AfterLoad(t, x), AfterRaise(t, x)} : Go(t, place)
  BY DEF Load, LoadFails
<1>3. /\ loadLock' = [loadLock EXCEPT ![x] = None]
      /\ loads' = [loads EXCEPT ![x] = @ + 1] \/ loads' = loads
      /\ UNCHANGED <<now, cacheVars, gpu>>
  BY DEF Load, LoadFails
<1>4. loadLock' \in [Lazy -> Threads \cup {None}] /\ loads' \in [Lazy -> Nat]
  BY <1>1, <1>3 DEF TypeOK
<1>5. thread[t].at \in Loading(x)
  BY <1>1 DEF Loading
<1>6. place \notin Loading(x)
  BY <1>2 DEF AfterLoad, AfterRaise, Lazy, Loading
<1>7. place \in Place /\ \A y \in Lazy : place # <<y, "load">>
  BY <1>1, <1>2, <1>5, <1>6, LoadPlaces
<1>8. Moves(t, place)
  BY <1>1, <1>2, <1>7, GoMoves
<1>9. ASSUME NEW y \in Lazy PROVE LoadFacts(y)'
  <2>1. LoadFacts(y) /\ loadLock[x] = t
    BY <1>1 DEF LoadInv, LoadFacts, At
  <2>2. ASSUME NEW u \in Threads, At(u, <<y, "load">>)' PROVE loadLock'[y] = u
    <3>1. u # t /\ At(u, <<y, "load">>)
      BY <1>7, <1>8, <2>2 DEF At, Moves, Reaches
    <3>2. loadLock[y] = u
      BY <2>1, <3>1 DEF LoadFacts
    <3>3. y # x
      BY <2>1, <3>1, <3>2
    <3> QED BY <1>1, <1>3, <3>2, <3>3 DEF TypeOK
  <2>3. CASE y = x
    <3>1. loads[y] = 0
      BY <1>1, <2>1, <2>3, NoneIsApart DEF LoadFacts, Loaded, TypeOK
    <3>2. loads'[y] <= 1
      BY <1>1, <1>3, <2>3, <3>1 DEF TypeOK
    <3>3. loadLock'[y] = None
      BY <1>1, <1>3, <2>3 DEF TypeOK
    <3> QED BY <2>2, <3>2, <3>3 DEF LoadFacts
  <2>4. CASE y # x
    <3>1. loadLock'[y] = loadLock[y] /\ loads'[y] = loads[y]
      BY <1>1, <1>3, <2>4 DEF TypeOK
    <3> QED BY <2>1, <2>2, <3>1 DEF LoadFacts, Loaded
  <2> QED BY <2>3, <2>4
<1>10. LoadInv'
  BY <1>9 DEF LoadInv
<1> QED BY <1>2, <1>3, <1>4, <1>5, <1>10, LoadMoves

(***************************************************************************)
(* The steps of a request that leave caches and loads alone.               *)
(***************************************************************************)
LEMMA MoveKeeps ==
  ASSUME ServerInv, NEW t \in Threads, NEW place, Moves(t, place), Fits(t, place),
         \A c \in Caches : place \in Building(c) <=> thread[t].at \in Building(c),
         \A y \in Lazy : place # <<y, "load">>, UNCHANGED <<now, cacheVars, loadVars>>,
         gpu' \in Threads \cup {None}, Inside(t, place) <=> gpu' = t,
         \A u \in Threads \ {t} : gpu' = u <=> gpu = u
  PROVE  ServerInv'
<1>1. TypeOK /\ LoadInv /\ GpuInv /\ Reaches(t, place)
  BY DEF ServerInv, Moves
<1>2. TypeOK'
  <2>1. loadLock' \in [Lazy -> Threads \cup {None}] /\ loads' \in [Lazy -> Nat]
    BY <1>1 DEF TypeOK, loadVars
  <2> QED BY <1>1, <2>1, MoveKeepsTypes
<1>3. ThreadInv' /\ CacheInv' /\ ArtifactsMatchSource'
  BY MoveKeepsAll
<1>4. LoadInv'
  BY <1>1, MoveKeepsLoads
<1>5. GpuInv'
  BY <1>1, MoveKeepsGpu
<1> QED BY <1>2, <1>3, <1>4, <1>5 DEF ServerInv

LEMMA RequestMoves ==
  ASSUME ServerInv, NEW t \in Threads, NEW place \in Place, Go(t, place), Fits(t, place),
         \A c \in Caches : place \in Building(c) <=> thread[t].at \in Building(c),
         \A y \in Lazy : place # <<y, "load">>, UNCHANGED <<now, cacheVars, loadVars>>,
         gpu' \in Threads \cup {None}, Inside(t, place) <=> gpu' = t,
         \A u \in Threads \ {t} : gpu' = u <=> gpu = u
  PROVE  ServerInv'
<1>1. Moves(t, place)
  BY GoMoves DEF ServerInv
<1> QED BY <1>1, MoveKeeps

LEMMA DownloadKeeps ==
  ASSUME ServerInv, NEW t \in Threads, Download(t)
  PROVE  ServerInv'
<1> DEFINE place == <<"session", "check">>
<1>1. TypeOK /\ ThreadFacts(t) /\ thread[t].at = <<"product", "download">>
  BY DEF ServerInv, ThreadInv, Download, At
<1>2. place \in Place /\ Fits(t, place)
  BY <1>1 DEF Place, Lazy, ThreadFacts, Fits
<1>3. \A c \in Caches : place \in Building(c) <=> thread[t].at \in Building(c)
  BY <1>1 DEF Caches, Building
<1>4. \A y \in Lazy : place # <<y, "load">>
  OBVIOUS
<1>5. gpu' = gpu /\ gpu \in Threads \cup {None}
  BY <1>1 DEF Download, TypeOK
<1>6. Inside(t, place) <=> gpu' = t
  BY <1>1, <1>5 DEF Inside, ServerInv, GpuInv
<1>7. Go(t, place) /\ UNCHANGED <<now, cacheVars, loadVars>>
  BY DEF Download
<1> HIDE DEF place
<1> QED BY <1>2, <1>3, <1>4, <1>5, <1>6, <1>7, RequestMoves

\* Nobody is inside generate when the lock is free, and the one who gets it is.
LEMMA AcquireKeeps ==
  ASSUME ServerInv, NEW t \in Threads, AcquireGpu(t)
  PROVE  ServerInv'
<1> DEFINE place == <<"pipeline", "check">>
<1>1. TypeOK /\ ThreadFacts(t) /\ thread[t].at = <<"gpu", "wait">>
  BY DEF ServerInv, ThreadInv, AcquireGpu, At
<1>2. place \in Place /\ Fits(t, place) /\ thread[t].product # None
  BY <1>1 DEF Place, Lazy, ThreadFacts, Fits
<1>3. \A c \in Caches : place \in Building(c) <=> thread[t].at \in Building(c)
  BY <1>1 DEF Caches, Building
<1>4. \A y \in Lazy : place # <<y, "load">>
  OBVIOUS
<1>5. gpu' = t /\ \A u \in Threads \ {t} : gpu' = u <=> gpu = u
  BY NoneIsApart DEF AcquireGpu
<1>6. Inside(t, place) <=> gpu' = t
  BY <1>2, <1>5 DEF Inside
<1>7. Go(t, place) /\ UNCHANGED <<now, cacheVars, loadVars>>
  BY DEF AcquireGpu
<1>8. gpu' \in Threads \cup {None}
  BY <1>5
<1> HIDE DEF place
<1> QED BY <1>2, <1>3, <1>4, <1>5, <1>6, <1>7, <1>8, RequestMoves

\* The one who leaves generate has the lock, and nobody is inside then.
LEMMA ReleaseKeeps ==
  ASSUME ServerInv, NEW t \in Threads, Generated(t) \/ GenerateFails(t)
  PROVE  ServerInv'
<1>1. PICK place \in {<<"output", "save">>, <<"end", "failed">>} : Go(t, place)
  BY DEF Generated, GenerateFails
<1>2. TypeOK /\ ThreadFacts(t) /\ thread[t].at \in {"gpu"} \X {"generate", "raise"}
  BY DEF ServerInv, ThreadInv, Generated, GenerateFails, At
<1>3. place \in Place /\ Fits(t, place) /\ thread[t].product # None
  BY <1>2 DEF Place, Ended, ThreadFacts, Fits
<1>4. \A c \in Caches : place \in Building(c) <=> thread[t].at \in Building(c)
  BY <1>2 DEF Caches, Building
<1>5. \A y \in Lazy : place # <<y, "load">>
  BY DEF Lazy
<1>6. gpu' = None /\ \A u \in Threads \ {t} : gpu' = u <=> gpu = u
  <2>1. gpu = t
    BY <1>2, <1>3 DEF Inside, ServerInv, GpuInv
  <2> QED BY <2>1, NoneIsApart DEF Generated, GenerateFails
<1>7. Inside(t, place) <=> gpu' = t
  BY <1>6, NoneIsApart DEF Inside
<1>8. UNCHANGED <<now, cacheVars, loadVars>>
  BY DEF Generated, GenerateFails
<1>9. gpu' \in Threads \cup {None}
  BY <1>6
<1> QED BY <1>1, <1>3, <1>4, <1>5, <1>6, <1>7, <1>8, <1>9, RequestMoves

LEMMA SaveKeeps ==
  ASSUME ServerInv, NEW t \in Threads, Save(t)
  PROVE  ServerInv'
<1>1. PICK place \in Ended : Go(t, place)
  BY DEF Save
<1>2. TypeOK /\ ThreadFacts(t) /\ thread[t].at = <<"output", "save">>
  BY DEF ServerInv, ThreadInv, Save, At
<1>3. place \in Place /\ Fits(t, place)
  BY <1>2 DEF Place, Ended, ThreadFacts, Fits
<1>4. \A c \in Caches : place \in Building(c) <=> thread[t].at \in Building(c)
  BY <1>2 DEF Caches, Building, Ended
<1>5. \A y \in Lazy : place # <<y, "load">>
  BY DEF Lazy, Ended
<1>6. gpu' = gpu /\ gpu \in Threads \cup {None}
  BY <1>2 DEF Save, TypeOK
<1>7. Inside(t, place) <=> gpu' = t
  BY <1>2, <1>6 DEF Inside, ServerInv, GpuInv, Ended
<1>8. UNCHANGED <<now, cacheVars, loadVars>>
  BY DEF Save
<1> QED BY <1>1, <1>3, <1>4, <1>5, <1>6, <1>7, <1>8, RequestMoves

LEMMA WokenKeeps ==
  ASSUME ServerInv, NEW t \in Threads, NEW c \in Caches, Woken(t, c)
  PROVE  ServerInv'
<1>1. PICK place \in {<<c, "lookup">>, AfterRaise(t, c)} :
        thread' = [thread EXCEPT ![t].at = place, ![t].awaits = None]
  BY DEF Woken
<1>2. TypeOK /\ ThreadFacts(t) /\ thread[t].at = <<c, "wait">>
  BY DEF ServerInv, ThreadInv, Woken, At
<1>3. /\ place \in {<<c, "lookup">>, <<"gpu", "raise">>, <<"end", "failed">>}
      /\ place = <<"gpu", "raise">> => c = "embedding"
      /\ place = <<"end", "failed">> => c # "embedding"
  BY <1>1 DEF AfterRaise, Caches
<1>4. place \in Place /\ Fits(t, place) /\ thread[t].product # None
  BY <1>2, <1>3 DEF Place, Ended, ThreadFacts, Fits, Caches
<1>5. Moves(t, place)
  BY <1>1, <1>2, <1>4 DEF Moves, Reaches, TypeOK, Thread
<1>6. \A k \in Caches : place \in Building(k) <=> thread[t].at \in Building(k)
  BY <1>2, <1>3 DEF Caches, Building
<1>7. \A y \in Lazy : place # <<y, "load">>
  BY <1>3
<1>8. gpu' = gpu /\ gpu \in Threads \cup {None}
  BY <1>2 DEF Woken, TypeOK
<1>9. Inside(t, place) <=> gpu' = t
  <2>1. Inside(t, place) <=> Inside(t, thread[t].at)
    BY <1>2, <1>3, <1>4 DEF Inside, Caches
  <2> QED BY <1>8, <2>1 DEF ServerInv, GpuInv
<1>10. UNCHANGED <<now, cacheVars, loadVars>>
  BY DEF Woken
<1> QED BY <1>4, <1>5, <1>6, <1>7, <1>8, <1>9, <1>10, MoveKeeps

(***************************************************************************)
(* The steps of the caches.                                                *)
(***************************************************************************)
LEMMA EntryPut ==
  ASSUME TypeOK, CacheInv, NEW c \in Caches, NEW t \in Threads, NEW e \in Entry,
         SameKey(c, e.by, t), Keyed(c, e.by)
  PROVE  /\ Append(Without(c, t), e) \in Seq(Entry)
         /\ Len(Append(Without(c, t), e)) = Len(Without(c, t)) + 1
         /\ \A k \in 1..Len(Without(c, t)) + 1 :
              /\ Keyed(c, Append(Without(c, t), e)[k].by)
              /\ \/ Append(Without(c, t), e)[k] = e
                 \/ \E m \in DOMAIN entries[c] : Append(Without(c, t), e)[k] = entries[c][m]
         /\ \A k, l \in 1..Len(Without(c, t)) + 1 :
              SameKey(c, Append(Without(c, t), e)[k].by, Append(Without(c, t), e)[l].by)
                => k = l
<1> DEFINE w == Without(c, t)
           s == Append(w, e)
<1>1. /\ w \in Seq(Entry) /\ Len(w) \in Nat /\ DOMAIN w = 1..Len(w)
      /\ \A k \in 1..Len(w) : /\ ~SameKey(c, w[k].by, t)
                              /\ \E m \in DOMAIN entries[c] : w[k] = entries[c][m]
      /\ \A k, l \in 1..Len(w) : SameKey(c, w[k].by, w[l].by) => k = l
  BY WithoutFacts
<1> HIDE DEF w
<1>2. /\ s \in Seq(Entry) /\ Len(s) = Len(w) + 1 /\ s[Len(w) + 1] = e
      /\ \A k \in 1..Len(w) : s[k] = w[k]
  BY <1>1
<1> HIDE DEF s
<1>3. \A m \in DOMAIN entries[c] : Keyed(c, entries[c][m].by)
  BY DEF CacheInv, CacheFacts
<1>4. \A k \in 1..Len(w) + 1 : k \in 1..Len(w) \/ k = Len(w) + 1
  BY <1>1
<1>5. ASSUME NEW k \in 1..Len(w) + 1
      PROVE  /\ Keyed(c, s[k].by)
             /\ s[k] = e \/ \E m \in DOMAIN entries[c] : s[k] = entries[c][m]
  BY <1>1, <1>2, <1>3, <1>4
<1>6. \A k \in 1..Len(w) : ~SameKey(c, s[k].by, e.by) /\ ~SameKey(c, e.by, s[k].by)
  BY <1>1, <1>2 DEF SameKey
<1>7. \A k, l \in 1..Len(w) + 1 : SameKey(c, s[k].by, s[l].by) => k = l
  BY <1>1, <1>2, <1>4, <1>6
<1> QED BY <1>2, <1>5, <1>7 DEF s, w

\* A step that changes one cache, of one thread; the others stay right.
LEMMA CacheStepKeeps ==
  ASSUME ServerInv, NEW t \in Threads, NEW c \in Caches, NEW place, Reaches(t, place),
         \A y \in Lazy : place # <<y, "load">>,
         Inside(t, place) <=> Inside(t, thread[t].at),
         ThreadInv', RequestsStay, ArtifactsMatchSource',
         UNCHANGED <<now, loadVars, gpu>>,
         \A k \in Caches \ {c} : entries'[k] = entries[k] /\ pending'[k] = pending[k],
         entries' \in [Caches -> Seq(Entry)], pending' \in [Caches -> SUBSET Threads],
         outcome' \in [Caches -> [Threads -> Outcome]], CacheFacts(c)'
  PROVE  ServerInv'
<1>1. TypeOK /\ ThreadInv /\ CacheInv /\ LoadInv /\ GpuInv
  BY DEF ServerInv
<1>2. ASSUME NEW k \in Caches PROVE CacheFacts(k)'
  <2>1. CASE k = c
    BY <2>1
  <2>2. CASE k # c
    BY <1>1, <2>2, CacheStays
  <2> QED BY <2>1, <2>2
<1>3. CacheInv'
  BY <1>2 DEF CacheInv
<1>4. \A k \in Caches : Len(entries'[k]) <= MaxEntries(k)
  BY <1>2 DEF CacheFacts, MaxEntries
<1>5. /\ now' \in 0..MaxTime /\ thread' \in [Threads -> Thread]
      /\ loadLock' \in [Lazy -> Threads \cup {None}] /\ loads' \in [Lazy -> Nat]
      /\ gpu' \in Threads \cup {None}
  BY <1>1 DEF TypeOK, Reaches, loadVars
<1>6. TypeOK'
  BY <1>4, <1>5 DEF TypeOK, MaxEntries
<1>7. LoadInv'
  BY <1>1, MoveKeepsLoads
<1>8. GpuInv'
  <2>1. Inside(t, place) <=> gpu' = t
    BY <1>1 DEF GpuInv
  <2>2. \A u \in Threads \ {t} : gpu' = u <=> gpu = u
    OBVIOUS
  <2> QED BY <1>1, <2>1, <2>2, MoveKeepsGpu
<1> QED BY <1>3, <1>6, <1>7, <1>8 DEF ServerInv

\* A thread that takes up a value: a product build for the first time, or what
\* was derived from the build it has.
LEMMA UseFacts ==
  ASSUME ServerInv, NEW t \in Threads, NEW c \in Caches, NEW by \in Threads, Use(t, c, by),
         SameKey(c, by, t), thread[t].at[1] = c,
         \A k \in Caches : t \notin pending'[k],
         \A k \in Caches, u \in Threads \ {t} : u \in pending'[k] <=> u \in pending[k]
  PROVE  /\ Reaches(t, AfterValue(c)) /\ RequestsStay /\ ThreadInv' /\ ArtifactsMatchSource'
         /\ Inside(t, AfterValue(c)) <=> Inside(t, thread[t].at)
         /\ \A y \in Lazy : AfterValue(c) # <<y, "load">>
<1> DEFINE place == AfterValue(c)
<1>1. TypeOK /\ ThreadInv /\ ArtifactsMatchSource
  BY DEF ServerInv
<1>2. /\ place \in {<<"artifact", "lookup">>, <<"gpu", "wait">>, <<"gpu", "generate">>}
      /\ c = "product" <=> place = <<"artifact", "lookup">>
      /\ c = "artifact" <=> place = <<"gpu", "wait">>
      /\ c = "embedding" <=> place = <<"gpu", "generate">>
  BY DEF AfterValue, Caches
<1>3. place \in Place
  BY <1>2 DEF Place, Caches
<1>4. thread' = [thread EXCEPT ![t].at = place, ![t].value[c] = by]
  BY DEF Use
<1> HIDE DEF place
<1>5. thread \in [Threads -> Thread] /\ thread[t] \in Thread
  BY <1>1 DEF TypeOK
<1>6. thread'[t] = [[thread[t] EXCEPT !.at = place] EXCEPT !.value[c] = by]
      /\ \A u \in Threads \ {t} : thread'[u] = thread[u]
  BY <1>4, <1>5 DEF Thread
<1>7. thread[t].value \in [Caches -> Threads \cup {None}]
  BY <1>5 DEF Thread
<1>8. /\ thread'[t].at = place /\ thread'[t].product = thread[t].product
      /\ thread'[t].canvas = thread[t].canvas /\ thread'[t].awaits = thread[t].awaits
      /\ thread'[t].value = [thread[t].value EXCEPT ![c] = by]
  BY <1>5, <1>6 DEF Thread
<1>9. thread'[t] \in Thread
  <2>1. [thread[t] EXCEPT !.at = place] \in Thread
    BY <1>3, <1>5 DEF Thread
  <2>2. [thread[t].value EXCEPT ![c] = by] \in [Caches -> Threads \cup {None}]
    BY <1>7
  <2> QED BY <1>6, <2>1, <2>2 DEF Thread
<1>10. thread' \in [Threads -> Thread]
  BY <1>4, <1>5, <1>6, <1>9
<1>11. Reaches(t, place)
  BY <1>6, <1>8, <1>10 DEF Reaches
<1>12. /\ thread[t].product # None
       /\ c = "product" => Source(t) = None
       /\ c # "product" => Source(t) # None
  BY <1>1 DEF ThreadInv, ThreadFacts, Fits, Caches
<1>13. /\ c = "product" => Source(t)' = by
       /\ c # "product" => Source(t)' = Source(t)
       /\ Source(t)' # None
  BY <1>7, <1>8, <1>12, NoneIsApart DEF Source, Caches
<1>14. RequestsStay
  BY <1>6, <1>8, <1>12, <1>13 DEF RequestsStay, Source
<1>15. ThreadInv'
  <2>1. ThreadFacts(t)'
    BY <1>2, <1>8, <1>12, <1>13 DEF ThreadFacts, Fits
  <2>2. PendingFacts(t)'
    BY <1>2, <1>8 DEF PendingFacts, Building, Caches
  <2>3. ASSUME NEW u \in Threads, u # t PROVE ThreadFacts(u)' /\ PendingFacts(u)'
    <3>1. ThreadFacts(u) /\ PendingFacts(u) /\ thread'[u] = thread[u]
      BY <1>1, <1>6, <2>3 DEF ThreadInv
    <3>2. ThreadFacts(u)'
      BY <3>1 DEF ThreadFacts, Fits, Source
    <3>3. PendingFacts(u)'
      BY <2>3, <3>1 DEF PendingFacts, Building
    <3> QED BY <3>2, <3>3
  <2> QED BY <2>1, <2>2, <2>3 DEF ThreadInv
<1>16. ArtifactsMatchSource'
  <2> DEFINE Derived(u, v, k) ==
               /\ thread[v].product = thread[u].product
               /\ thread[v].value["product"] = thread[u].value["product"]
               /\ k = "artifact" => thread[v].canvas = thread[u].canvas
  <2>1. ASSUME NEW u \in Threads, NEW v \in Threads, NEW k \in {"artifact", "embedding"},
               Derived(u, v, k), Source(u) # None
        PROVE  Derived(u, v, k)'
    <3>1. Source(v) # None
      BY <2>1 DEF Source
    <3>2. Source(v)' = Source(v) /\ Source(u)' = Source(u)
      BY <1>14, <2>1, <3>1 DEF RequestsStay
    <3> QED BY <1>14, <2>1, <3>2 DEF RequestsStay, Source
  <2>2. ASSUME NEW u \in Threads, NEW k \in {"artifact", "embedding"}, thread[u].value[k] # None
        PROVE  /\ Source(u) # None /\ thread[u].value[k] \in Threads
               /\ Derived(u, thread[u].value[k], k)
    <3>1. k \in Caches
      BY DEF Caches
    <3>2. thread[u].value[k] \in Threads \cup {None}
      BY <1>1, <3>1 DEF TypeOK, Thread
    <3> QED BY <1>1, <2>2, <3>1, <3>2 DEF ThreadInv, ThreadFacts, ArtifactsMatchSource
  <2>3. ASSUME c \in {"artifact", "embedding"} PROVE Derived(t, by, c) /\ Source(t) # None
    <3>1. CASE c = "artifact"
      BY <1>12, <3>1 DEF SameKey, KeyIn, Source
    <3>2. CASE c = "embedding"
      BY <1>12, <3>2 DEF SameKey, KeyIn, Source
    <3> QED BY <2>3, <3>1, <3>2
  <2> HIDE DEF Derived
  <2>4. ASSUME NEW u \in Threads, NEW k \in {"artifact", "embedding"}, thread'[u].value[k] # None
        PROVE  \E v \in Threads : v = thread'[u].value[k] /\ Derived(u, v, k)'
    <3>1. CASE u = t /\ k = c
      <4>1. thread'[u].value[k] = by
        BY <1>7, <1>8, <3>1
      <4>2. Derived(u, by, k)'
        BY <2>1, <2>3, <3>1
      <4> QED BY <4>1, <4>2
    <3>2. CASE ~(u = t /\ k = c)
      <4>1. thread'[u].value[k] = thread[u].value[k]
        <5>1. k \in Caches
          BY DEF Caches
        <5>2. CASE u = t
          BY <1>7, <1>8, <3>2, <5>1, <5>2
        <5>3. CASE u # t
          BY <1>6, <5>3
        <5> QED BY <5>2, <5>3
      <4>2. PICK v \in Threads : v = thread[u].value[k] /\ Derived(u, v, k) /\ Source(u) # None
        BY <2>2, <2>4, <4>1
      <4>3. Derived(u, v, k)'
        BY <2>1, <4>2
      <4> QED BY <4>1, <4>2, <4>3
    <3> QED BY <3>1, <3>2
  <2> QED BY <2>4 DEF Derived, ArtifactsMatchSource
<1>17. Inside(t, place) <=> Inside(t, thread[t].at)
  BY <1>2, <1>12 DEF Inside, Caches
<1>18. \A y \in Lazy : place # <<y, "load">>
  BY <1>2
<1> QED BY <1>11, <1>14, <1>15, <1>16, <1>17, <1>18 DEF place

LEMMA HitKeeps ==
  ASSUME ServerInv, NEW t \in Threads, NEW c \in Caches, Hit(t, c)
  PROVE  ServerInv'
<1>1. TypeOK /\ ThreadInv /\ CacheInv /\ CacheFacts(c) /\ thread[t].at = <<c, "lookup">>
  BY DEF ServerInv, CacheInv, Hit, At
<1>2. PICK i \in DOMAIN entries[c] :
        /\ i \in EntriesFor(c, t)
        /\ entries' = [entries EXCEPT ![c] = Append(Without(c, t), entries[c][i])]
        /\ Use(t, c, entries[c][i].by)
  BY DEF Hit, Fresh, EntriesFor
<1> DEFINE e == entries[c][i]
           s == Append(Without(c, t), e)
<1>3. /\ entries[c] \in Seq(Entry) /\ e \in Entry /\ e.by \in Threads
      /\ Keyed(c, e.by) /\ SameKey(c, e.by, t)
  <2>1. entries[c] \in Seq(Entry)
    BY <1>1 DEF TypeOK
  <2>2. e \in Entry
    BY <1>2, <2>1
  <2>3. Keyed(c, e.by) /\ SameKey(c, e.by, t)
    BY <1>1, <1>2 DEF CacheFacts, EntriesFor
  <2>4. e.by \in Threads
    BY <2>2 DEF Entry
  <2> QED BY <2>1, <2>2, <2>3, <2>4
<1>4. /\ Len(Without(c, t)) = Len(entries[c]) - 1
      /\ Without(c, t) \in Seq(Entry)
  BY <1>1, <1>2, WithoutFacts
<1>5. /\ s \in Seq(Entry) /\ Len(s) = Len(entries[c]) /\ DOMAIN s = 1..Len(entries[c])
      /\ \A k \in DOMAIN s : /\ Keyed(c, s[k].by)
                             /\ \E m \in DOMAIN entries[c] : s[k] = entries[c][m]
      /\ \A k, l \in DOMAIN s : SameKey(c, s[k].by, s[l].by) => k = l
  <2> HIDE DEF e
  <2>1. /\ s \in Seq(Entry) /\ Len(s) = Len(Without(c, t)) + 1
        /\ \A k \in 1..Len(Without(c, t)) + 1 :
             /\ Keyed(c, s[k].by)
             /\ s[k] = e \/ \E m \in DOMAIN entries[c] : s[k] = entries[c][m]
        /\ \A k, l \in 1..Len(Without(c, t)) + 1 : SameKey(c, s[k].by, s[l].by) => k = l
    BY <1>1, <1>3, EntryPut
  <2>2. Len(Without(c, t)) + 1 = Len(entries[c])
    BY <1>3, <1>4
  <2>3. \E m \in DOMAIN entries[c] : e = entries[c][m]
    BY DEF e
  <2> HIDE DEF s
  <2>4. DOMAIN s = 1..Len(entries[c])
    BY <2>1, <2>2
  <2> QED BY <2>1, <2>2, <2>3, <2>4
<1> HIDE DEF e, s
<1>6. entries'[c] = s /\ \A k \in Caches \ {c} : entries'[k] = entries[k]
  <2>1. entries \in [Caches -> Seq(Entry)]
    BY <1>1 DEF TypeOK
  <2> QED BY <1>2, <2>1 DEF e, s
<1>7. pending' = pending /\ \A k \in Caches : t \notin pending'[k]
  <2>1. \A k \in Caches : thread[t].at \notin Building(k)
    BY <1>1 DEF Building, Caches
  <2> QED BY <1>1, <2>1 DEF Hit, ThreadInv, PendingFacts
<1>8. thread[t].at[1] = c
  BY <1>1
<1>9. /\ Reaches(t, AfterValue(c)) /\ RequestsStay /\ ThreadInv' /\ ArtifactsMatchSource'
      /\ Inside(t, AfterValue(c)) <=> Inside(t, thread[t].at)
      /\ \A y \in Lazy : AfterValue(c) # <<y, "load">>
  <2>1. Use(t, c, e.by)
    BY <1>2 DEF e
  <2> QED BY <1>3, <1>7, <1>8, <2>1, UseFacts
<1>10. CacheFacts(c)'
  <2>1. pending[c] \subseteq Threads /\ \A u \in pending[c] : Keyed(c, u)
    BY <1>1, BuildersAreKeyed
  <2>2. \A u, v \in pending'[c] : SameKey(c, u, v) => u = v
    BY <1>1, <1>7 DEF CacheFacts
  <2>3. \A u \in pending'[c], k \in DOMAIN entries'[c] : ~SameKey(c, entries'[c][k].by, u)
    BY <1>1, <1>5, <1>6, <1>7 DEF CacheFacts, EntriesFor
  <2>4. Len(entries'[c]) <= MaxEntries(c)
    BY <1>1, <1>5, <1>6 DEF CacheFacts
  <2> QED BY <1>5, <1>6, <1>7, <1>9, <2>1, <2>2, <2>3, <2>4, CacheBecomes
<1>11. UNCHANGED <<now, loadVars, gpu>> /\ outcome' \in [Caches -> [Threads -> Outcome]]
       /\ pending' \in [Caches -> SUBSET Threads]
  BY <1>1 DEF Hit, TypeOK
<1>12. entries' \in [Caches -> Seq(Entry)]
  BY <1>1, <1>2, <1>5 DEF TypeOK, e, s
<1> QED BY <1>6, <1>7, <1>8, <1>9, <1>10, <1>11, <1>12, CacheStepKeeps

\* The entries that a lookup leaves, beside the threads that build.
LEMMA LookupKeepsCache ==
  ASSUME ServerInv, RequestsStay, NEW c \in Caches, NEW t \in Threads,
         thread[t].at[1] = c, entries'[c] = Without(c, t),
         \/ pending'[c] = pending[c]
         \/ pending'[c] = pending[c] \cup {t} /\ Builder(c, t) = {}
  PROVE  CacheFacts(c)'
<1>1. TypeOK /\ ThreadInv /\ CacheInv /\ CacheFacts(c)
  BY DEF ServerInv, CacheInv
<1>2. /\ pending[c] \subseteq Threads /\ Keyed(c, t)
      /\ \A u \in pending[c] : Keyed(c, u)
  BY <1>1, BuildersAreKeyed
<1> DEFINE w == Without(c, t)
<1>3. /\ w \in Seq(Entry) /\ Len(w) <= Len(entries[c])
      /\ \A k \in DOMAIN w : /\ ~SameKey(c, w[k].by, t)
                             /\ \E m \in DOMAIN entries[c] : w[k] = entries[c][m]
      /\ \A k, l \in DOMAIN w : SameKey(c, w[k].by, w[l].by) => k = l
  BY <1>1, WithoutFacts
<1> HIDE DEF w
<1>4. entries'[c] = w
  BY DEF w
<1>5. Len(w) <= MaxEntries(c)
  <2>1. Len(w) \in Nat /\ Len(entries[c]) \in Nat /\ MaxEntries(c) \in Nat
    BY <1>1, <1>3, SizesArePositive DEF TypeOK, MaxEntries
  <2> QED BY <1>1, <1>3, <2>1 DEF CacheFacts
<1>6. \A k \in DOMAIN w : Keyed(c, w[k].by)
  BY <1>1, <1>3 DEF CacheFacts
<1>7. pending'[c] \subseteq Threads /\ \A u \in pending'[c] : Keyed(c, u)
  BY <1>2
<1>8. \A u, v \in pending'[c] : SameKey(c, u, v) => u = v
  BY <1>1 DEF CacheFacts, Builder, SameKey
<1>9. \A u \in pending'[c], k \in DOMAIN w : ~SameKey(c, w[k].by, u)
  BY <1>1, <1>3 DEF CacheFacts, EntriesFor
<1> QED BY <1>3, <1>4, <1>5, <1>6, <1>7, <1>8, <1>9, CacheBecomes

LEMMA WaitKeeps ==
  ASSUME ServerInv, NEW t \in Threads, NEW c \in Caches, WaitForBuild(t, c)
  PROVE  ServerInv'
<1> DEFINE place == <<c, "wait">>
<1>1. TypeOK /\ ThreadInv /\ ThreadFacts(t) /\ thread[t].at = <<c, "lookup">>
  BY DEF ServerInv, ThreadInv, WaitForBuild, At
<1>2. PICK owner \in pending[c] :
        thread' = [thread EXCEPT ![t].at = place, ![t].awaits = owner]
  BY DEF WaitForBuild, Builder
<1>3. owner \in Threads
  BY <1>1, <1>2 DEF TypeOK
<1>4. /\ place \in Place /\ Fits(t, place)
      /\ Inside(t, place) <=> Inside(t, thread[t].at)
  BY <1>1 DEF Place, Caches, ThreadFacts, Fits, Inside
<1>5. \A k \in Caches : place \notin Building(k) /\ thread[t].at \notin Building(k)
  BY <1>1 DEF Caches, Building
<1>6. \A y \in Lazy : place # <<y, "load">>
  OBVIOUS
<1> HIDE DEF place
<1>7. Moves(t, place)
  BY <1>1, <1>2, <1>3, <1>4 DEF Moves, Reaches, TypeOK, Thread
<1>8. pending' = pending /\ \A k \in Caches : t \notin pending[k]
  BY <1>1, <1>5 DEF WaitForBuild, ThreadInv, PendingFacts
<1>9. ThreadInv' /\ RequestsStay /\ ArtifactsMatchSource'
  BY <1>4, <1>5, <1>7, <1>8, MoveKeepsThreads
<1>10. entries' \in [Caches -> Seq(Entry)] /\ entries'[c] = Without(c, t)
       /\ \A k \in Caches \ {c} : entries'[k] = entries[k]
  <2>1. Without(c, t) \in Seq(Entry)
    BY WithoutFacts DEF ServerInv
  <2> QED BY <1>1, <2>1 DEF WaitForBuild, TypeOK
<1>11. CacheFacts(c)'
  BY <1>1, <1>8, <1>9, <1>10, LookupKeepsCache
<1>12. UNCHANGED <<now, loadVars, gpu>> /\ outcome' \in [Caches -> [Threads -> Outcome]]
       /\ pending' \in [Caches -> SUBSET Threads]
  BY <1>1 DEF WaitForBuild, TypeOK
<1>13. Reaches(t, place)
  BY <1>7 DEF Moves
<1> QED BY <1>4, <1>6, <1>8, <1>9, <1>10, <1>11, <1>12, <1>13, CacheStepKeeps

LEMMA StartKeeps ==
  ASSUME ServerInv, NEW t \in Threads, NEW c \in Caches, StartBuild(t, c)
  PROVE  ServerInv'
<1> DEFINE place == <<c, IF c = "product" THEN "download" ELSE "finish">>
<1>1. TypeOK /\ ThreadInv /\ ThreadFacts(t) /\ thread[t].at = <<c, "lookup">>
  BY DEF ServerInv, ThreadInv, StartBuild, At
<1>2. Go(t, place)
  BY DEF StartBuild
<1>3. /\ place \in Place /\ Fits(t, place)
      /\ Inside(t, place) <=> Inside(t, thread[t].at)
  BY <1>1 DEF Place, Caches, ThreadFacts, Fits, Inside
<1>4. \A k \in Caches : (place \in Building(k) <=> k = c) /\ thread[t].at \notin Building(k)
  BY <1>1 DEF Caches, Building
<1>5. \A y \in Lazy : place # <<y, "load">>
  OBVIOUS
<1> HIDE DEF place
<1>6. Moves(t, place)
  BY <1>1, <1>2, <1>3, GoMoves
<1>7. /\ pending' = [pending EXCEPT ![c] = @ \cup {t}]
      /\ pending \in [Caches -> SUBSET Threads]
      /\ \A k \in Caches : t \notin pending[k]
  BY <1>1, <1>4 DEF StartBuild, ThreadInv, PendingFacts, TypeOK
<1>8. /\ pending' \in [Caches -> SUBSET Threads] /\ pending'[c] = pending[c] \cup {t}
      /\ \A k \in Caches \ {c} : pending'[k] = pending[k]
  BY <1>7
<1>9. ThreadInv' /\ RequestsStay /\ ArtifactsMatchSource'
  <2>1. \A k \in Caches : t \in pending'[k] <=> place \in Building(k)
    BY <1>4, <1>7, <1>8
  <2>2. \A k \in Caches, u \in Threads \ {t} : u \in pending'[k] <=> u \in pending[k]
    BY <1>8
  <2> QED BY <1>3, <1>6, <2>1, <2>2, MoveKeepsThreads
<1>10. entries' \in [Caches -> Seq(Entry)] /\ entries'[c] = Without(c, t)
       /\ \A k \in Caches \ {c} : entries'[k] = entries[k]
  <2>1. Without(c, t) \in Seq(Entry)
    BY WithoutFacts DEF ServerInv
  <2> QED BY <1>1, <2>1 DEF StartBuild, TypeOK
<1>11. CacheFacts(c)'
  <2>1. Builder(c, t) = {}
    BY DEF StartBuild
  <2> QED BY <1>1, <1>8, <1>9, <1>10, <2>1, LookupKeepsCache
<1>12. UNCHANGED <<now, loadVars, gpu>> /\ outcome' \in [Caches -> [Threads -> Outcome]]
  BY <1>1 DEF StartBuild, TypeOK, Outcome
<1>13. Reaches(t, place)
  BY <1>6 DEF Moves
<1> QED BY <1>3, <1>5, <1>8, <1>9, <1>10, <1>11, <1>12, <1>13, CacheStepKeeps

\* The builder's entry is the only one for its key, because a key has one
\* builder and no entry beside it; eviction takes none of the newest away.
LEMMA BuildDoneKeeps ==
  ASSUME ServerInv, NEW t \in Threads, NEW c \in Caches, BuildDone(t, c)
  PROVE  ServerInv'
<1> DEFINE e == [by |-> t, expires |-> now + Ttl]
           s == Append(Without(c, t), e)
           n == MaxEntries(c)
           kept == Newest(s, n)
<1>1. /\ TypeOK /\ ThreadInv /\ CacheInv /\ CacheFacts(c)
      /\ thread[t].at = <<c, "finish">> /\ thread[t].at[1] = c
  BY DEF ServerInv, CacheInv, BuildDone, At
<1>2. /\ e \in Entry /\ e.by = t /\ n \in Nat \ {0}
      /\ SameKey(c, e.by, t) /\ Keyed(c, e.by)
  <2>1. Keyed(c, t)
    BY <1>1, BuildersAreKeyed
  <2>2. now + Ttl \in Nat
    BY <1>1, SizesArePositive, ClockIsBounded DEF TypeOK
  <2> QED BY <2>1, <2>2, SizesArePositive DEF Entry, SameKey, MaxEntries
<1>3. \A k \in Caches : t \in pending[k] <=> k = c
  <2>1. \A k \in Caches : thread[t].at \in Building(k) <=> k = c
    BY <1>1 DEF Building, Caches
  <2> QED BY <1>1, <2>1 DEF ThreadInv, PendingFacts
<1>4. /\ entries' = [entries EXCEPT ![c] = kept] /\ Use(t, c, t)
      /\ pending' = [pending EXCEPT ![c] = @ \ {t}]
      /\ outcome' = [outcome EXCEPT ![c][t] = "done"]
  BY DEF BuildDone, Settle
<1> HIDE DEF n, e
<1>5. /\ s \in Seq(Entry) /\ DOMAIN s = 1..Len(s)
      /\ \A k \in 1..Len(s) : /\ Keyed(c, s[k].by)
                              /\ s[k] = e \/ \E m \in DOMAIN entries[c] : s[k] = entries[c][m]
      /\ \A k, l \in 1..Len(s) : SameKey(c, s[k].by, s[l].by) => k = l
  <2>1. /\ s \in Seq(Entry) /\ Len(s) = Len(Without(c, t)) + 1
        /\ \A k \in 1..Len(Without(c, t)) + 1 :
             /\ Keyed(c, s[k].by)
             /\ s[k] = e \/ \E m \in DOMAIN entries[c] : s[k] = entries[c][m]
        /\ \A k, l \in 1..Len(Without(c, t)) + 1 : SameKey(c, s[k].by, s[l].by) => k = l
    BY <1>1, <1>2, EntryPut
  <2> HIDE DEF s
  <2> QED BY <2>1
<1> HIDE DEF s
<1>6. /\ kept \in Seq(Entry) /\ Len(kept) <= n /\ DOMAIN kept = 1..Len(kept)
      /\ \E d \in 0..Len(s) : /\ Len(kept) = Len(s) - d
                              /\ \A k \in 1..Len(s) - d : kept[k] = s[k + d]
  <2>1. /\ kept \in Seq(Entry) /\ Len(kept) <= n
        /\ \E d \in 0..Len(s) : /\ Len(kept) = Len(s) - d
                                /\ \A k \in 1..Len(s) - d : kept[k] = s[k + d]
    BY <1>2, <1>5, Kept
  <2> HIDE DEF kept
  <2> QED BY <2>1
<1> HIDE DEF kept
<1>7. PICK d \in 0..Len(s) : /\ Len(kept) = Len(s) - d
                             /\ \A k \in 1..Len(s) - d : kept[k] = s[k + d]
  BY <1>6
<1>8. \A k \in DOMAIN kept : k \in Int /\ k + d \in 1..Len(s) /\ kept[k] = s[k + d]
  BY <1>5, <1>6, <1>7
<1>9. /\ \A k \in DOMAIN kept : Keyed(c, kept[k].by)
      /\ \A k \in DOMAIN kept :
           kept[k] = e \/ \E m \in DOMAIN entries[c] : kept[k] = entries[c][m]
  BY <1>5, <1>8
<1>10. ASSUME NEW k \in DOMAIN kept, NEW l \in DOMAIN kept, SameKey(c, kept[k].by, kept[l].by)
       PROVE  k = l
  <2>1. k + d = l + d
    BY <1>5, <1>8, <1>10
  <2> QED BY <1>7, <1>8, <2>1
<1>11. /\ entries' \in [Caches -> Seq(Entry)] /\ entries'[c] = kept
       /\ \A k \in Caches \ {c} : entries'[k] = entries[k]
  BY <1>1, <1>4, <1>6 DEF TypeOK
<1>12. /\ pending' \in [Caches -> SUBSET Threads] /\ pending'[c] = pending[c] \ {t}
       /\ \A k \in Caches \ {c} : pending'[k] = pending[k]
  BY <1>1, <1>4 DEF TypeOK
<1>13. /\ \A k \in Caches : t \notin pending'[k]
       /\ \A k \in Caches, u \in Threads \ {t} : u \in pending'[k] <=> u \in pending[k]
  BY <1>3, <1>12
<1>14. /\ Reaches(t, AfterValue(c)) /\ RequestsStay /\ ThreadInv' /\ ArtifactsMatchSource'
       /\ Inside(t, AfterValue(c)) <=> Inside(t, thread[t].at)
       /\ \A y \in Lazy : AfterValue(c) # <<y, "load">>
  <2>1. SameKey(c, t, t)
    BY DEF SameKey
  <2> QED BY <1>1, <1>4, <1>13, <2>1, UseFacts
<1>15. CacheFacts(c)'
  <2>1. pending[c] \subseteq Threads /\ \A u \in pending[c] : Keyed(c, u)
    BY <1>1, BuildersAreKeyed
  <2>2. \A u, v \in pending'[c] : SameKey(c, u, v) => u = v
    BY <1>1, <1>12 DEF CacheFacts
  <2>3. ASSUME NEW u \in pending'[c], NEW k \in DOMAIN kept PROVE ~SameKey(c, kept[k].by, u)
    <3>1. u \in pending[c] /\ u # t /\ t \in pending[c]
      BY <1>3, <1>12, <2>3
    <3>2. CASE kept[k] = e
      BY <1>1, <1>2, <3>1, <3>2 DEF CacheFacts
    <3>3. CASE \E m \in DOMAIN entries[c] : kept[k] = entries[c][m]
      BY <1>1, <3>1, <3>3 DEF CacheFacts, EntriesFor
    <3> QED BY <1>9, <3>2, <3>3
  <2>4. Len(kept) <= MaxEntries(c)
    BY <1>6 DEF n
  <2> QED BY <1>6, <1>9, <1>10, <1>11, <1>12, <1>14, <2>1, <2>2, <2>3, <2>4, CacheBecomes
<1>16. UNCHANGED <<now, loadVars, gpu>> /\ outcome' \in [Caches -> [Threads -> Outcome]]
  BY <1>1, <1>4 DEF BuildDone, TypeOK, Outcome
<1> QED BY <1>11, <1>12, <1>14, <1>15, <1>16, CacheStepKeeps

LEMMA BuildFailsKeeps ==
  ASSUME ServerInv, NEW t \in Threads, NEW c \in Caches, BuildFails(t, c)
  PROVE  ServerInv'
<1> DEFINE place == AfterRaise(t, c)
<1>1. /\ TypeOK /\ ThreadInv /\ CacheInv /\ ThreadFacts(t)
      /\ thread[t].at \in {c} \X {"download", "finish", "raise"}
  BY DEF ServerInv, ThreadInv, BuildFails
<1>2. /\ place \in {<<"gpu", "raise">>, <<"end", "failed">>}
      /\ place = <<"gpu", "raise">> <=> c = "embedding"
  BY DEF AfterRaise, Caches
<1>3. Go(t, place)
  BY DEF BuildFails
<1> HIDE DEF place
<1>4. /\ place \in Place /\ Fits(t, place)
      /\ Inside(t, place) <=> Inside(t, thread[t].at)
  <2>1. thread[t].at[1] = c /\ thread[t].product # None
    BY <1>1 DEF Caches, ThreadFacts, Fits
  <2>2. c = "embedding" => Source(t) # None
    BY <1>1, <2>1 DEF ThreadFacts, Fits
  <2>3. place \in Place
    BY <1>2 DEF Place, Ended
  <2>4. Fits(t, place)
    BY <1>2, <2>1, <2>2 DEF Fits
  <2>5. Inside(t, place) <=> c = "embedding"
    BY <1>2, <2>1 DEF Inside
  <2>6. Inside(t, thread[t].at) <=> c = "embedding"
    BY <1>1, <2>1 DEF Inside, Caches
  <2> QED BY <2>3, <2>4, <2>5, <2>6
<1>5. /\ \A k \in Caches : place \notin Building(k)
      /\ \A k \in Caches \ {c} : thread[t].at \notin Building(k)
      /\ \A y \in Lazy : place # <<y, "load">>
  BY <1>1, <1>2 DEF Caches, Building
<1>6. Moves(t, place)
  BY <1>1, <1>3, <1>4, GoMoves
<1>7. /\ pending' \in [Caches -> SUBSET Threads] /\ pending'[c] = pending[c] \ {t}
      /\ \A k \in Caches \ {c} : pending'[k] = pending[k]
  BY <1>1 DEF BuildFails, Settle, TypeOK
<1>8. ThreadInv' /\ RequestsStay /\ ArtifactsMatchSource'
  <2>1. \A k \in Caches : t \notin pending'[k]
    BY <1>1, <1>5, <1>7 DEF ThreadInv, PendingFacts
  <2>2. \A k \in Caches, u \in Threads \ {t} : u \in pending'[k] <=> u \in pending[k]
    BY <1>7
  <2> QED BY <1>4, <1>5, <1>6, <2>1, <2>2, MoveKeepsThreads
<1>9. entries' = entries /\ entries' \in [Caches -> Seq(Entry)]
  BY <1>1 DEF BuildFails, TypeOK
<1>10. CacheFacts(c)'
  BY <1>1, <1>7, <1>8, <1>9, CacheStays
<1>11. UNCHANGED <<now, loadVars, gpu>> /\ outcome' \in [Caches -> [Threads -> Outcome]]
  BY <1>1 DEF BuildFails, Settle, TypeOK, Outcome
<1>12. Reaches(t, place)
  BY <1>6 DEF Moves
<1> QED BY <1>4, <1>5, <1>7, <1>8, <1>9, <1>10, <1>11, <1>12, CacheStepKeeps

(***************************************************************************)
(* The invariant.                                                          *)
(***************************************************************************)
LEMMA ServerInvInit ==
  ASSUME Init
  PROVE  ServerInv
<1>1. PICK ask \in Asked :
        thread = [t \in Threads |->
                   [at |-> Start, product |-> ask[t].product, canvas |-> ask[t].canvas,
                    value |-> [c \in Caches |-> None], awaits |-> None]]
  BY DEF Init
<1>2. ASSUME NEW t \in Threads
      PROVE  /\ thread[t] \in Thread /\ thread[t].at = Start
             /\ \A c \in Caches : thread[t].value[c] = None
  <2>1. ask[t] \in [product : Products, canvas : Canvases] \cup {WarmUp}
    BY AskedIsTyped
  <2>2. ask[t].product \in Products \cup {None} /\ ask[t].canvas \in Canvases \cup {None}
    BY <2>1 DEF WarmUp
  <2>3. Start \in Place
    BY DEF Start, Place, Lazy
  <2> QED BY <1>1, <2>2, <2>3 DEF Thread
<1>3. thread \in [Threads -> Thread]
  BY <1>1, <1>2
<1>4. "product" \in Caches
  BY DEF Caches
<1>5. TypeOK
  <2>1. /\ now \in 0..MaxTime /\ loads \in [Lazy -> Nat]
        /\ loadLock \in [Lazy -> Threads \cup {None}] /\ gpu \in Threads \cup {None}
    BY ClockIsBounded DEF Init
  <2>2. pending \in [Caches -> SUBSET Threads] /\ outcome \in [Caches -> [Threads -> Outcome]]
    BY DEF Init, Outcome
  <2>3. entries \in [Caches -> Seq(Entry)] /\ \A c \in Caches : Len(entries[c]) <= MaxEntries(c)
    BY SizesArePositive DEF Init, MaxEntries
  <2> QED BY <1>3, <2>1, <2>2, <2>3 DEF TypeOK
<1>6. ThreadInv
  <2>1. ASSUME NEW t \in Threads PROVE ThreadFacts(t)
    BY <1>2, <1>4 DEF ThreadFacts, Fits, Source, Start
  <2>2. ASSUME NEW t \in Threads PROVE PendingFacts(t)
    BY <1>2 DEF Init, PendingFacts, Building, Start
  <2> QED BY <2>1, <2>2 DEF ThreadInv
<1>7. CacheInv
  BY SizesArePositive DEF Init, CacheInv, CacheFacts, EntriesFor, MaxEntries
<1>8. LoadInv
  BY <1>2 DEF Init, LoadInv, LoadFacts, At, Start
<1>9. GpuInv
  BY <1>2, NoneIsApart DEF Init, GpuInv, Inside, Start
<1>10. ArtifactsMatchSource
  BY <1>2 DEF ArtifactsMatchSource, Caches
<1> QED BY <1>5, <1>6, <1>7, <1>8, <1>9, <1>10 DEF ServerInv

\* A step that leaves everything but the clock as it is.
LEMMA ClockKeeps ==
  ASSUME ServerInv, Tick \/ UNCHANGED vars
  PROVE  ServerInv'
<1>1. /\ UNCHANGED <<thread, entries, pending, outcome, loadLock, loads, gpu>>
      /\ now' \in 0..MaxTime
  BY ClockIsBounded DEF Tick, vars, cacheVars, loadVars, ServerInv, TypeOK
<1>2. TypeOK'
  BY <1>1 DEF ServerInv, TypeOK, MaxEntries
<1>3. ThreadInv'
  BY <1>1 DEF ServerInv, ThreadInv, ThreadFacts, Fits, PendingFacts, Building, Source
<1>4. CacheInv'
  <2>1. RequestsStay
    BY <1>1 DEF RequestsStay, Source
  <2>2. \A c \in Caches : CacheFacts(c)'
    BY <1>1, <2>1, CacheStays DEF ServerInv
  <2> QED BY <2>2 DEF CacheInv
<1>5. LoadInv'
  BY <1>1 DEF ServerInv, LoadInv, LoadFacts, At, Loaded
<1>6. GpuInv'
  BY <1>1 DEF ServerInv, GpuInv, Inside
<1>7. ArtifactsMatchSource'
  BY <1>1 DEF ServerInv, ArtifactsMatchSource
<1> QED BY <1>2, <1>3, <1>4, <1>5, <1>6, <1>7 DEF ServerInv

LEMMA ServerInvNext ==
  ASSUME ServerInv, [Next]_vars
  PROVE  ServerInv'
<1>1. ASSUME NEW t \in Threads, NEW x \in Lazy, LoadStep(t, x) PROVE ServerInv'
  BY <1>1, CheckKeeps, LockKeeps, LoadKeeps DEF LoadStep
<1>2. ASSUME NEW t \in Threads, NEW c \in Caches, CacheStep(t, c) PROVE ServerInv'
  BY <1>2, HitKeeps, WaitKeeps, StartKeeps, WokenKeeps, BuildDoneKeeps, BuildFailsKeeps
     DEF CacheStep
<1>3. ASSUME NEW t \in Threads,
             Download(t) \/ AcquireGpu(t) \/ Generated(t) \/ GenerateFails(t) \/ Save(t)
      PROVE  ServerInv'
  BY <1>3, DownloadKeeps, AcquireKeeps, ReleaseKeeps, SaveKeeps
<1>4. CASE Tick \/ UNCHANGED vars
  BY <1>4, ClockKeeps
<1> QED BY <1>1, <1>2, <1>3, <1>4 DEF Next, ThreadStep, RequestStep

LEMMA ServerInvHolds == Spec => []ServerInv
<1>1. Init => ServerInv
  BY ServerInvInit
<1>2. ServerInv /\ [Next]_vars => ServerInv'
  BY ServerInvNext
<1> QED BY <1>1, <1>2, PTL DEF Spec

(***************************************************************************)
(* The theorems.                                                           *)
(***************************************************************************)
\* The engine's, the caches' and the locks' state keeps its types, and no cache
\* outgrows its limit (cache.py:94-105).
THEOREM ServerTypeCorrect == Spec => []TypeOK
<1>1. ServerInv => TypeOK
  BY DEF ServerInv
<1> QED BY <1>1, ServerInvHolds, PTL

\* For any number of threads, products and cache sizes a key has one value or
\* one builder, what is loaded on first use is loaded once, and the GPU lock is
\* held exactly by the one request inside generate (cache.py:64-77,
\* inference.py:207-226).
THEOREM OneFlightPerKey == Spec => []SingleFlight
<1>1. ASSUME ServerInv PROVE SingleFlight
  <2>1. ASSUME NEW c \in Caches
        PROVE  /\ \A t, u \in pending[c] : SameKey(c, t, u) => t = u
               /\ \A t \in pending[c] : EntriesFor(c, t) = {}
               /\ \A i, j \in DOMAIN entries[c] :
                    SameKey(c, entries[c][i].by, entries[c][j].by) => i = j
               /\ Len(entries[c]) <= MaxEntries(c)
    BY <1>1 DEF ServerInv, CacheInv, CacheFacts
  <2>2. \A x \in Lazy : loads[x] <= 1
    BY <1>1 DEF ServerInv, LoadInv, LoadFacts
  <2>3. ASSUME NEW t \in Threads PROVE InGenerate(t) <=> gpu = t
    BY <1>1 DEF ServerInv, GpuInv, Inside, InGenerate, IsWarmUp
  <2>4. gpu \in Threads \cup {None}
    BY <1>1 DEF ServerInv, TypeOK
  <2>5. {t \in Threads : InGenerate(t)} = {gpu} \ {None}
    BY <2>3, <2>4, NoneIsApart
  <2> QED BY <2>1, <2>2, <2>5 DEF SingleFlight
<1> QED BY <1>1, ServerInvHolds, PTL

\* What a picture is generated from was derived from the product build that
\* its request prepared, also after that build was evicted and made anew
\* (the token in the keys, inference.py:191-197, pipelines.py:256).
THEOREM DerivedFromItsBuild == Spec => []ArtifactsMatchSource
<1>1. ServerInv => ArtifactsMatchSource
  BY DEF ServerInv
<1> QED BY <1>1, ServerInvHolds, PTL

=============================================================================
