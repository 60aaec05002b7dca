------------------------- MODULE OpenAIBudgetProofs -------------------------
(***************************************************************************)
(* Proofs about OpenAIBudget, for any number of threads, any prices and any *)
(* limit.  That the file stays below the limit and a call per thread is not *)
(* inductive: Headroom says how much room the calls in flight still need,   *)
(* HolderHasRead that the thread in the lock knows what is in the file.     *)
(* That no charge is lost is about a sum over threads, whose laws come      *)
(* before it.                                                               *)
(***************************************************************************)
EXTENDS OpenAIBudget, FiniteSetTheorems, WellFoundedInduction, TLAPS

\* The thread between reading and rewriting the file holds the lock, and what
\* it has read is still there.
HolderHasRead == \A t \in Threads : at[t] = "save" => usageLock = t /\ spent[t] = spentUsd

\* What is spent, and the dearest end of every call in flight
Headroom ==
    spentUsd + Cardinality(InFlight) * MaxCost
        =< HardLimit - 1 + Cardinality(Threads) * MaxCost

-----------------------------------------------------------------------------

\* Any number of calls fits where more calls would fit.
LEMMA MoreCallsCostMore ==
    ASSUME NEW a \in Nat, NEW b \in Nat, NEW c \in Nat, a =< b
    PROVE  a * c =< b * c
<1>1. PICK d \in Nat : b = a + d  BY b - a \in Nat
<1>2. b * c = a * c + d * c  BY <1>1
<1>3. d * c \in Nat /\ a * c \in Nat  OBVIOUS
<1> QED  BY <1>2, <1>3

\* The threads are finitely many, and so are those in flight.
LEMMA CountsAreNumbers ==
    ASSUME NEW S, S \subseteq Threads
    PROVE  /\ IsFiniteSet(S) /\ Cardinality(S) \in Nat
           /\ Cardinality(Threads) \in Nat /\ Cardinality(S) =< Cardinality(Threads)
<1>1. IsFiniteSet(Threads)  BY BudgetAssumption
<1> QED  BY <1>1, FS_Subset, FS_CardinalityType

\* The cost of an answer is within the dearest.
LEMMA CostIsBounded ==
    ASSUME NEW usage \in Usages
    PROVE  EstimateCost(DefaultModel, usage) \in 0..MaxCost
BY BudgetAssumption

\* A step of a thread that is not in flight before it and after it, or is in
\* both, leaves the set as it is.
LEMMA SameInFlight ==
    ASSUME TypeOK, NEW t \in Threads, NEW place, Goto(t, place),
           (at[t] \in {"call", "record", "save"}) <=> (place \in {"call", "record", "save"})
    PROVE  InFlight' = InFlight
BY DEF TypeOK, Goto, InFlight

\* A thread that leaves the flight gives back the room of one call.
LEMMA OneFewer ==
    ASSUME TypeOK, NEW t \in Threads, Goto(t, "idle"), at[t] \in {"call", "record", "save"}
    PROVE  /\ Cardinality(InFlight') \in Nat
           /\ Cardinality(InFlight) = Cardinality(InFlight') + 1
           /\ Cardinality(InFlight) * MaxCost = Cardinality(InFlight') * MaxCost + MaxCost
<1>1. InFlight' = InFlight \ {t}  BY DEF TypeOK, Goto, InFlight
<1>2. t \in InFlight  BY DEF InFlight
<1>3. IsFiniteSet(InFlight) /\ Cardinality(InFlight) \in Nat
  BY CountsAreNumbers DEF InFlight
<1>4. Cardinality(InFlight') = Cardinality(InFlight) - 1
      /\ Cardinality(InFlight) # 0
  BY <1>1, <1>2, <1>3, FS_RemoveElement, FS_EmptySet
<1>5. Cardinality(InFlight') \in Nat /\ Cardinality(InFlight) = Cardinality(InFlight') + 1
  BY <1>3, <1>4
<1>6. MaxCost \in Nat  BY BudgetAssumption
<1>7. ASSUME NEW a \in Nat, NEW c \in Nat  PROVE (a + 1) * c = a * c + c
  OBVIOUS
<1> QED  BY <1>5, <1>6, <1>7

-----------------------------------------------------------------------------

\* Every reachable state of the budget is well typed, for any number of threads
\* and faults: no amount ever leaves the numbers, no thread its places.
THEOREM BudgetTypeCorrect == Spec => []TypeOK
<1>1. Init => TypeOK  BY BudgetAssumption DEF Init, TypeOK
<1>2. TypeOK /\ [Next]_vars => TypeOK'
  <2> SUFFICES ASSUME TypeOK, [Next]_vars  PROVE TypeOK'
    OBVIOUS
  <2> USE BudgetAssumption DEF TypeOK
  <2>1. ASSUME NEW t \in Threads, BuildAdCopy(t)  PROVE TypeOK'
    BY <2>1 DEF BuildAdCopy, Goto
  <2>2. ASSUME NEW t \in Threads, CheckBudget(t)  PROVE TypeOK'
    BY <2>2 DEF CheckBudget, Goto, Return
  <2>3. ASSUME NEW t \in Threads, CallFails(t)  PROVE TypeOK'
    BY <2>3 DEF CallFails, Goto, Return
  <2>4. ASSUME NEW t \in Threads, ChargedUnseen(t)  PROVE TypeOK'
    <3>1. PICK usage \in Usages : billed' = billed + EstimateCost(DefaultModel, usage)
      BY <2>4 DEF ChargedUnseen
    <3> QED  BY <2>4, <3>1, CostIsBounded DEF ChargedUnseen, Goto, Return, Fault
  <2>5. ASSUME NEW t \in Threads, CallAnswered(t)  PROVE TypeOK'
    <3>1. PICK usage \in Usages :
            /\ cost' = [cost EXCEPT ![t] = EstimateCost(DefaultModel, usage)]
            /\ billed' = billed + EstimateCost(DefaultModel, usage)
      BY <2>5 DEF CallAnswered
    <3> QED  BY <2>5, <3>1, CostIsBounded DEF CallAnswered, Goto
  <2>6. ASSUME NEW t \in Threads, RecordLoad(t)  PROVE TypeOK'
    BY <2>6 DEF RecordLoad, TakesLock, Goto
  <2>7. ASSUME NEW t \in Threads, RecordSave(t)  PROVE TypeOK'
    BY <2>7 DEF RecordSave, Goto, Return
  <2>8. ASSUME NEW t \in Threads, RecordFails(t)  PROVE TypeOK'
    BY <2>8 DEF RecordFails, Fault, Goto, Return
  <2>9. ASSUME Restart  PROVE TypeOK'
    BY <2>9 DEF Restart, Fault
  <2>10. CASE UNCHANGED vars
    BY <2>10 DEF vars
  <2> QED
    BY <2>1, <2>2, <2>3, <2>4, <2>5, <2>6, <2>7, <2>8, <2>9, <2>10 DEF Next, Step
<1> QED  BY <1>1, <1>2, PTL DEF Spec

\* Between reading and rewriting the file nobody else touches it, so each
\* thread rewrites what it has read.
LEMMA LockProtectsTheFile ==
    ASSUME TypeOK, TypeOK', HolderHasRead, [Next]_vars
    PROVE  HolderHasRead'
<1> USE DEF TypeOK, HolderHasRead
<1> None \notin Threads  BY BudgetAssumption
<1>1. ASSUME NEW t \in Threads, BuildAdCopy(t)  PROVE HolderHasRead'
  BY <1>1 DEF BuildAdCopy, Goto
<1>2. ASSUME NEW t \in Threads, CheckBudget(t)  PROVE HolderHasRead'
  BY <1>2 DEF CheckBudget, Goto, Return
<1>3. ASSUME NEW t \in Threads, CallFails(t)  PROVE HolderHasRead'
  BY <1>3 DEF CallFails, Goto, Return
<1>4. ASSUME NEW t \in Threads, ChargedUnseen(t)  PROVE HolderHasRead'
  BY <1>4 DEF ChargedUnseen, Goto, Return
<1>5. ASSUME NEW t \in Threads, CallAnswered(t)  PROVE HolderHasRead'
  BY <1>5 DEF CallAnswered, Goto
<1>6. ASSUME NEW t \in Threads, RecordLoad(t)  PROVE HolderHasRead'
  BY <1>6 DEF RecordLoad, TakesLock, Goto
<1>7. ASSUME NEW t \in Threads, RecordSave(t)  PROVE HolderHasRead'
  BY <1>7 DEF RecordSave, Goto, Return
<1>8. ASSUME NEW t \in Threads, RecordFails(t)  PROVE HolderHasRead'
  BY <1>8 DEF RecordFails, Goto, Return
<1>9. ASSUME Restart  PROVE HolderHasRead'
  BY <1>9 DEF Restart
<1>10. CASE UNCHANGED vars
  BY <1>10 DEF vars
<1> QED
  BY <1>1, <1>2, <1>3, <1>4, <1>5, <1>6, <1>7, <1>8, <1>9, <1>10 DEF Next, Step

-----------------------------------------------------------------------------

\* The step that takes room is the check, and it only passes below the limit;
\* every other step keeps the room or gives some back.
LEMMA CheckLeavesRoom ==
    ASSUME TypeOK, TypeOK', Headroom, NEW t \in Threads, CheckBudget(t)
    PROVE  Headroom'
<1> DEFINE m == Cardinality(InFlight')
           n == Cardinality(Threads)
<1>1. m \in Nat /\ n \in Nat /\ m =< n
  <2>1. InFlight' \subseteq Threads  BY DEF InFlight
  <2> QED  BY <2>1, CountsAreNumbers
<1>2. MaxCost \in Nat /\ HardLimit \in Nat  BY BudgetAssumption
<1>3. CASE Goto(t, "call")
  <2>1. spentUsd' = spentUsd /\ spentUsd =< HardLimit - 1 /\ spentUsd \in Nat
    <3>1. CASE WithinBudget(spentUsd)
      BY <3>1, <1>2 DEF CheckBudget, WithinBudget, TypeOK
    <3>2. CASE Return(t)
      BY <1>3, <3>2 DEF Return, Goto, TypeOK
    <3> QED  BY <3>1, <3>2 DEF CheckBudget
  <2>2. m * MaxCost =< n * MaxCost  BY <1>1, <1>2, MoreCallsCostMore
  <2>3. m * MaxCost \in Nat /\ n * MaxCost \in Nat  BY <1>1, <1>2
  <2> HIDE DEF m, n
  <2>4. spentUsd' + m * MaxCost =< HardLimit - 1 + n * MaxCost
    BY <1>2, <2>1, <2>2, <2>3
  <2> QED  BY <2>4 DEF Headroom, m, n
<1>4. CASE Goto(t, "idle")
  <2>1. InFlight' = InFlight  BY <1>4, SameInFlight DEF CheckBudget
  <2> QED  BY <2>1 DEF CheckBudget, Headroom
<1> QED  BY <1>3, <1>4 DEF CheckBudget, Return

\* A step that leaves the flight and the file as they are leaves the room.
LEMMA SameRoom ==
    ASSUME Headroom, InFlight' = InFlight, spentUsd' = spentUsd
    PROVE  Headroom'
BY DEF Headroom

\* A thread that comes out of the flight has spent at most the room it had.
LEMMA RoomIsEnough ==
    ASSUME TypeOK, TypeOK', Headroom, NEW t \in Threads, Goto(t, "idle"),
           at[t] \in {"call", "record", "save"},
           spentUsd' =< spentUsd + MaxCost
    PROVE  Headroom'
<1> DEFINE m == Cardinality(InFlight)
           k == Cardinality(InFlight')
           n == Cardinality(Threads)
<1>1. m * MaxCost = k * MaxCost + MaxCost /\ k \in Nat /\ m \in Nat
  BY OneFewer, CountsAreNumbers DEF InFlight
<1>2. MaxCost \in Nat /\ HardLimit \in Nat /\ n \in Nat
  BY BudgetAssumption, CountsAreNumbers
<1>3. k * MaxCost \in Nat /\ m * MaxCost \in Nat /\ n * MaxCost \in Nat
  BY <1>1, <1>2
<1>4. spentUsd \in Nat /\ spentUsd' \in Nat  BY DEF TypeOK
<1>5. spentUsd + m * MaxCost =< HardLimit - 1 + n * MaxCost  BY DEF Headroom
<1>6. ASSUME NEW u \in Nat, NEW v \in Nat, NEW x \in Nat, NEW y \in Nat, NEW z \in Nat,
             v =< u + MaxCost, x = y + MaxCost, u + x =< HardLimit - 1 + z
      PROVE  v + y =< HardLimit - 1 + z
  BY <1>2, <1>6
<1>7. spentUsd' + k * MaxCost =< HardLimit - 1 + n * MaxCost
  BY <1>1, <1>3, <1>4, <1>5, <1>6
<1> QED  BY <1>7 DEF Headroom

LEMMA RoomIsKept ==
    ASSUME TypeOK, TypeOK', HolderHasRead, Headroom, [Next]_vars
    PROVE  Headroom'
<1>1. ASSUME NEW t \in Threads, BuildAdCopy(t)  PROVE Headroom'
  BY <1>1, SameInFlight, SameRoom DEF BuildAdCopy
<1>2. ASSUME NEW t \in Threads, CheckBudget(t)  PROVE Headroom'
  BY <1>2, CheckLeavesRoom
<1>3. ASSUME NEW t \in Threads, CallFails(t) \/ ChargedUnseen(t) \/ RecordFails(t)
      PROVE  Headroom'
  <2>1. /\ Goto(t, "idle") /\ at[t] \in {"call", "record", "save"}
        /\ spentUsd' = spentUsd
    BY <1>3 DEF CallFails, ChargedUnseen, RecordFails, Return
  <2>2. spentUsd' =< spentUsd + MaxCost  BY <2>1, BudgetAssumption DEF TypeOK
  <2> QED  BY <2>1, <2>2, RoomIsEnough
<1>4. ASSUME NEW t \in Threads, CallAnswered(t) \/ RecordLoad(t)  PROVE Headroom'
  <2>1. InFlight' = InFlight
    BY <1>4, SameInFlight DEF CallAnswered, RecordLoad
  <2> QED  BY <1>4, <2>1, SameRoom DEF CallAnswered, RecordLoad
<1>5. ASSUME NEW t \in Threads, RecordSave(t)  PROVE Headroom'
  <2>1. /\ Goto(t, "idle") /\ at[t] \in {"call", "record", "save"}
        /\ spentUsd' = spent[t] + cost[t]
    BY <1>5 DEF RecordSave, Return
  <2>2. spent[t] = spentUsd  BY <1>5 DEF RecordSave, HolderHasRead
  <2>3. cost[t] \in Nat /\ cost[t] =< MaxCost /\ MaxCost \in Nat
    BY BudgetAssumption DEF TypeOK
  <2>4. spentUsd' =< spentUsd + MaxCost  BY <2>1, <2>2, <2>3 DEF TypeOK
  <2> QED  BY <2>1, <2>4, RoomIsEnough
<1>6. ASSUME Restart  PROVE Headroom'
  <2> DEFINE n == Cardinality(Threads)
             m == Cardinality(InFlight)
  <2>1. InFlight' = {}  BY <1>6 DEF Restart, InFlight
  <2>2. Cardinality(InFlight') = 0  BY <2>1, FS_EmptySet
  <2>3. m \in Nat /\ n \in Nat /\ MaxCost \in Nat /\ HardLimit \in Nat
    BY CountsAreNumbers, BudgetAssumption DEF InFlight
  <2>4. m * MaxCost \in Nat /\ n * MaxCost \in Nat  BY <2>3
  <2>5. spentUsd + m * MaxCost =< HardLimit - 1 + n * MaxCost  BY DEF Headroom
  <2>6. spentUsd' = spentUsd /\ spentUsd \in Nat  BY <1>6 DEF Restart, TypeOK
  <2>7. 0 * MaxCost = 0  BY <2>3
  <2> HIDE DEF m, n
  <2>8. spentUsd' + 0 =< HardLimit - 1 + n * MaxCost
    BY <2>3, <2>4, <2>5, <2>6
  <2> QED  BY <2>2, <2>7, <2>8 DEF Headroom, n
<1>7. CASE UNCHANGED vars
  BY <1>7, SameRoom DEF vars, InFlight
<1> QED
  BY <1>1, <1>2, <1>3, <1>4, <1>5, <1>6, <1>7 DEF Next, Step

\* With any number of threads past the check at the same time, what the file
\* says stays below the limit and one call for each thread, across failed
\* records and restarts: the excess the comment at openai_client.py:18 allows.
THEOREM ExcessBound == Spec => []ExcessIsBounded
<1>1. Init => HolderHasRead /\ Headroom
  <2> SUFFICES ASSUME Init  PROVE HolderHasRead /\ Headroom
    OBVIOUS
  <2>1. InFlight = {} /\ spentUsd = 0  BY DEF Init, InFlight
  <2>2. Cardinality(InFlight) = 0  BY <2>1, FS_EmptySet
  <2>3. /\ Cardinality(Threads) \in Nat /\ MaxCost \in Nat /\ HardLimit \in Nat
        /\ HardLimit >= 1
    BY CountsAreNumbers, BudgetAssumption
  <2>4. Cardinality(Threads) * MaxCost \in Nat /\ 0 * MaxCost = 0  BY <2>3
  <2>5. Headroom  BY <2>1, <2>2, <2>3, <2>4 DEF Headroom
  <2> QED  BY <2>5 DEF Init, HolderHasRead
<1>2. TypeOK /\ TypeOK' /\ HolderHasRead /\ Headroom /\ [Next]_vars
      => HolderHasRead' /\ Headroom'
  BY LockProtectsTheFile, RoomIsKept
<1>3. TypeOK /\ Headroom => ExcessIsBounded
  <2> SUFFICES ASSUME TypeOK, Headroom  PROVE ExcessIsBounded
    OBVIOUS
  <2> DEFINE m == Cardinality(InFlight)
             n == Cardinality(Threads)
  <2>1. m \in Nat /\ n \in Nat /\ MaxCost \in Nat /\ HardLimit \in Nat
    BY CountsAreNumbers, BudgetAssumption DEF InFlight
  <2>2. m * MaxCost \in Nat /\ n * MaxCost \in Nat  BY <2>1
  <2>3. spentUsd + m * MaxCost =< HardLimit - 1 + n * MaxCost /\ spentUsd \in Nat
    BY DEF Headroom, TypeOK
  <2> HIDE DEF m, n
  <2>4. spentUsd < HardLimit + n * MaxCost  BY <2>1, <2>2, <2>3
  <2> QED  BY <2>4 DEF ExcessIsBounded, n
<1> QED  BY <1>1, <1>2, <1>3, BudgetTypeCorrect, PTL DEF Spec

-----------------------------------------------------------------------------

(***************************************************************************)
(* Sums over threads.  Pending folds over a set, picking one element after *)
(* another: by induction over its size, the order does not matter.         *)
(***************************************************************************)
LEMMA AllNumbers ==
    ASSUME NEW T, 0 \in T, \A n \in Nat : n \in T => n + 1 \in T
    PROVE  Nat \subseteq T
<1> SUFFICES ASSUME NEW n \in Nat, n \notin T  PROVE FALSE
  OBVIOUS
<1> DEFINE Missing == Nat \ T
<1>1. PICK m \in Missing : \A k \in 0..m - 1 : k \notin Missing
  <2> DEFINE Less == OpToRel(<, Nat)
  <2>1. Missing \subseteq Nat /\ Missing # {}  OBVIOUS
  <2>2. IsWellFoundedOn(Less, Nat)  BY NatLessThanWellFounded
  <2>3. \A k, m \in Nat : k < m => <<k, m>> \in Less  BY DEF OpToRel
  <2> HIDE DEF Missing, Less
  <2>4. PICK m \in Missing : \A k \in Missing : ~(<<k, m>> \in Less)
    BY <2>1, <2>2, WFMin
  <2>5. ASSUME NEW k \in 0..m - 1, k \in Missing  PROVE FALSE
    <3>1. m \in Nat /\ k \in Nat /\ k < m  BY <2>1
    <3> QED  BY <2>3, <2>4, <2>5, <3>1
  <2> QED  BY <2>5
<1>2. m # 0 /\ m - 1 \in Nat /\ m - 1 \in 0..m - 1 /\ (m - 1) + 1 = m  BY <1>1
<1> QED  BY <1>1, <1>2

\* What holds of the empty set, and of a set if of all smaller ones.
LEMMA AllSets ==
    ASSUME NEW T,
           \A s \in SUBSET Threads :
             (\A u \in SUBSET Threads : Cardinality(u) < Cardinality(s) => u \in T) => s \in T
    PROVE  SUBSET Threads \subseteq T
<1> DEFINE L == {n \in Nat : \A s \in SUBSET Threads : Cardinality(s) < n => s \in T}
<1>1. \A s \in SUBSET Threads : Cardinality(s) \in Nat  BY CountsAreNumbers
<1>2. 0 \in L  BY <1>1
<1>3. ASSUME NEW n \in Nat, n \in L  PROVE n + 1 \in L
  <2>1. ASSUME NEW s \in SUBSET Threads, Cardinality(s) < n + 1  PROVE s \in T
    <3>1. \A u \in SUBSET Threads : Cardinality(u) < Cardinality(s) => Cardinality(u) < n
      BY <1>1, <2>1
    <3>2. \A u \in SUBSET Threads : Cardinality(u) < Cardinality(s) => u \in T
      BY <1>3, <3>1
    <3> QED  BY <3>2
  <2> QED  BY <2>1
<1>4. Nat \subseteq L
  <2> HIDE DEF L
  <2> QED  BY <1>2, <1>3, AllNumbers
<1>5. ASSUME NEW s \in SUBSET Threads  PROVE s \in T
  <2>1. Cardinality(s) + 1 \in L /\ Cardinality(s) < Cardinality(s) + 1  BY <1>1, <1>4
  <2> QED  BY <2>1
<1> QED  BY <1>5

First(s) == CHOOSE x \in s : TRUE

Added(f, g, s) == IF s = {} THEN 0 ELSE f[First(s)] + g[s \ {First(s)}]

Adds(f, S, g) == g = [s \in SUBSET S |-> Added(f, g, s)]

Total(f, S) == MapThenSumSet(LAMBDA t : f[t], S)

LEMMA FirstIsIn ==
    ASSUME NEW s \in SUBSET Threads, s # {}
    PROVE  /\ First(s) \in s
           /\ s \ {First(s)} \in SUBSET Threads
           /\ Cardinality(s \ {First(s)}) < Cardinality(s)
<1>1. First(s) \in s  BY DEF First
<1>2. IsFiniteSet(s) /\ Cardinality(s) \in Nat  BY CountsAreNumbers
<1>3. Cardinality(s \ {First(s)}) = Cardinality(s) - 1  BY <1>1, <1>2, FS_RemoveElement
<1> QED  BY <1>1, <1>2, <1>3

\* The fold is well defined: with each round it is for larger sets.
LEMMA SumExists ==
    ASSUME NEW f, NEW S \in SUBSET Threads
    PROVE  \E g : Adds(f, S, g)
<1> DEFINE Fits(g, n) == \A s \in SUBSET S : Cardinality(s) <= n => g[s] = Added(f, g, s)
           Known(n) == \E g : g = [s \in SUBSET S |-> g[s]] /\ Fits(g, n)
           L == {n \in Nat : Known(n)}
<1>1. \A s \in SUBSET S : s \in SUBSET Threads /\ Cardinality(s) \in Nat
  BY CountsAreNumbers
<1>2. 0 \in L
  <2> DEFINE g == [s \in SUBSET S |-> 0]
  <2>1. \A s \in SUBSET S : Cardinality(s) <= 0 => s = {}
    <3>1. \A s \in SUBSET S : IsFiniteSet(s)  BY <1>1, CountsAreNumbers
    <3> QED  BY <1>1, <3>1, FS_EmptySet
  <2>2. g = [s \in SUBSET S |-> g[s]] /\ Fits(g, 0)  BY <2>1 DEF Added
  <2> HIDE DEF g
  <2> QED  BY <2>2
<1>3. ASSUME NEW n \in Nat, n \in L  PROVE n + 1 \in L
  <2>1. PICK h : h = [s \in SUBSET S |-> h[s]] /\ Fits(h, n)  BY <1>3
  <2> DEFINE g == [s \in SUBSET S |-> Added(f, h, s)]
  <2>2. \A s \in SUBSET S : g[s] = Added(f, h, s)  OBVIOUS
  <2>3. g = [s \in SUBSET S |-> g[s]]  OBVIOUS
  <2> HIDE DEF g
  <2>4. ASSUME NEW s \in SUBSET S, Cardinality(s) <= n + 1  PROVE g[s] = Added(f, g, s)
    <3>1. CASE s = {}
      BY <2>2, <3>1 DEF Added
    <3>2. CASE s # {}
      <4>1. s \ {First(s)} \in SUBSET S /\ Cardinality(s \ {First(s)}) < Cardinality(s)
        BY <1>1, <3>2, FirstIsIn
      <4>2. Cardinality(s \ {First(s)}) <= n  BY <1>1, <2>4, <4>1
      <4>3. h[s \ {First(s)}] = Added(f, h, s \ {First(s)})  BY <2>1, <4>1, <4>2
      <4>4. g[s \ {First(s)}] = Added(f, h, s \ {First(s)})  BY <2>2, <4>1
      <4> QED  BY <2>2, <3>2, <4>3, <4>4 DEF Added
    <3> QED  BY <3>1, <3>2
  <2>5. Fits(g, n + 1)  BY <2>4
  <2>6. Known(n + 1)
    <3> HIDE DEF Fits
    <3> QED  BY <2>3, <2>5
  <2> HIDE DEF Known
  <2> QED  BY <2>6
<1>4. Nat \subseteq L
  <2> HIDE DEF L
  <2> QED  BY <1>2, <1>3, AllNumbers
<1>5. Cardinality(S) \in L  BY <1>1, <1>4
<1>6. PICK g : g = [s \in SUBSET S |-> g[s]] /\ Fits(g, Cardinality(S))  BY <1>5
<1>7. \A s \in SUBSET S : Cardinality(s) <= Cardinality(S)
  <2>1. IsFiniteSet(S)  BY CountsAreNumbers
  <2> QED  BY <2>1, FS_Subset
<1>8. \A s \in SUBSET S : g[s] = Added(f, g, s)  BY <1>6, <1>7
<1>9. g = [s \in SUBSET S |-> Added(f, g, s)]
  <2> HIDE DEF Fits, L
  <2> QED  BY <1>6, <1>8
<1> QED  BY <1>9 DEF Adds

LEMMA TotalIs ==
    ASSUME NEW f, NEW S \in SUBSET Threads
    PROVE  \E g : Adds(f, S, g) /\ Total(f, S) = g[S]
<1> DEFINE g == CHOOSE h : Adds(f, S, h)
<1>1. Total(f, S) = g[S]
  BY DEF Total, MapThenSumSet, MapThenFoldSet, Adds, Added, First
<1>2. Adds(f, S, g)
  <2>1. \E h : Adds(f, S, h)  BY SumExists
  <2> QED  BY <2>1
<1> QED  BY <1>1, <1>2

\* A sum depends on the summands alone, whatever set the fold started with.
LEMMA SumIsUnique ==
    ASSUME NEW e, NEW f, NEW S \in SUBSET Threads, NEW U \in SUBSET Threads, S \subseteq U,
           NEW g, NEW h, Adds(e, S, g), Adds(f, U, h), \A t \in S : e[t] = f[t]
    PROVE  \A s \in SUBSET S : g[s] = h[s]
<1> DEFINE T == {s \in SUBSET Threads : s \subseteq S => g[s] = h[s]}
<1>1. \A s \in SUBSET S : g[s] = Added(e, g, s) /\ h[s] = Added(f, h, s)
  BY DEF Adds
<1>2. ASSUME NEW s \in SUBSET Threads,
             \A u \in SUBSET Threads : Cardinality(u) < Cardinality(s) => u \in T
      PROVE  s \in T
  <2> SUFFICES ASSUME s \subseteq S  PROVE g[s] = h[s]
    OBVIOUS
  <2>1. CASE s = {}
    BY <1>1, <2>1 DEF Added
  <2>2. CASE s # {}
    <3>1. /\ First(s) \in s /\ s \ {First(s)} \in SUBSET Threads
          /\ Cardinality(s \ {First(s)}) < Cardinality(s)
      BY <2>2, FirstIsIn
    <3>2. g[s \ {First(s)}] = h[s \ {First(s)}]  BY <1>2, <3>1
    <3> QED  BY <1>1, <2>2, <3>1, <3>2 DEF Added
  <2> QED  BY <2>1, <2>2
<1>3. SUBSET Threads \subseteq T
  <2> HIDE DEF T
  <2> QED  BY <1>2, AllSets
<1> QED  BY <1>3

LEMMA SameSum ==
    ASSUME NEW f, NEW S \in SUBSET Threads, NEW U \in SUBSET Threads, S \subseteq U,
           NEW g, NEW h, Adds(f, S, g), Adds(f, U, h)
    PROVE  g[S] = h[S]
<1>1. S \in SUBSET S /\ \A t \in S : f[t] = f[t]  OBVIOUS
<1> QED  BY <1>1, SumIsUnique

LEMMA TotalAgrees ==
    ASSUME NEW e, NEW f, NEW S \in SUBSET Threads, \A t \in S : e[t] = f[t]
    PROVE  Total(e, S) = Total(f, S)
<1>1. PICK g : Adds(e, S, g) /\ Total(e, S) = g[S]  BY TotalIs
<1>2. PICK h : Adds(f, S, h) /\ Total(f, S) = h[S]  BY TotalIs
<1> QED  BY <1>1, <1>2, SumIsUnique

LEMMA TotalOfNone ==
    ASSUME NEW f
    PROVE  Total(f, {}) = 0
<1>1. PICK g : Adds(f, {}, g) /\ Total(f, {}) = g[{}]  BY TotalIs
<1> QED  BY <1>1 DEF Adds, Added

LEMMA TotalOfFirst ==
    ASSUME NEW f, NEW S \in SUBSET Threads, S # {}
    PROVE  Total(f, S) = f[First(S)] + Total(f, S \ {First(S)})
<1> DEFINE rest == S \ {First(S)}
<1>1. rest \in SUBSET Threads /\ rest \subseteq S  BY FirstIsIn
<1>2. PICK g : Adds(f, S, g) /\ Total(f, S) = g[S]  BY TotalIs
<1>3. PICK h : Adds(f, rest, h) /\ Total(f, rest) = h[rest]  BY <1>1, TotalIs
<1>4. h[rest] = g[rest]
  <2> HIDE DEF rest
  <2> QED  BY <1>1, <1>2, <1>3, SameSum
<1> QED  BY <1>2, <1>3, <1>4 DEF Adds, Added

LEMMA TotalIsANumber ==
    ASSUME NEW f \in [Threads -> Nat], NEW S \in SUBSET Threads
    PROVE  Total(f, S) \in Nat
<1> DEFINE T == {s \in SUBSET Threads : Total(f, s) \in Nat}
<1>1. ASSUME NEW s \in SUBSET Threads,
             \A u \in SUBSET Threads : Cardinality(u) < Cardinality(s) => u \in T
      PROVE  s \in T
  <2>1. CASE s = {}
    BY <2>1, TotalOfNone
  <2>2. CASE s # {}
    <3>1. /\ First(s) \in s /\ s \ {First(s)} \in SUBSET Threads
          /\ Cardinality(s \ {First(s)}) < Cardinality(s)
      BY <2>2, FirstIsIn
    <3>2. Total(f, s \ {First(s)}) \in Nat /\ f[First(s)] \in Nat  BY <1>1, <3>1
    <3> QED  BY <2>2, <3>2, TotalOfFirst
  <2> QED  BY <2>1, <2>2
<1>2. SUBSET Threads \subseteq T
  <2> HIDE DEF T
  <2> QED  BY <1>1, AllSets
<1> QED  BY <1>2

\* Any element may be added last.
LEMMA TotalOfAny ==
    ASSUME NEW f \in [Threads -> Nat], NEW S \in SUBSET Threads, NEW x \in S
    PROVE  Total(f, S) = f[x] + Total(f, S \ {x})
<1> DEFINE T == {s \in SUBSET Threads :
                   \A y \in s : Total(f, s) = f[y] + Total(f, s \ {y})}
<1>1. ASSUME NEW s \in SUBSET Threads,
             \A u \in SUBSET Threads : Cardinality(u) < Cardinality(s) => u \in T,
             NEW y \in s
      PROVE  Total(f, s) = f[y] + Total(f, s \ {y})
  <2> DEFINE p == First(s)
  <2>1. /\ p \in s /\ s \ {p} \in SUBSET Threads /\ Cardinality(s \ {p}) < Cardinality(s)
        /\ Total(f, s) = f[p] + Total(f, s \ {p})
    BY FirstIsIn, TotalOfFirst
  <2> HIDE DEF p
  <2>2. CASE y = p
    BY <2>1, <2>2
  <2>3. CASE y # p
    <3>1. s \ {y} \in SUBSET Threads /\ Cardinality(s \ {y}) < Cardinality(s)
      <4>1. IsFiniteSet(s) /\ Cardinality(s) \in Nat  BY CountsAreNumbers
      <4>2. Cardinality(s \ {y}) = Cardinality(s) - 1  BY <4>1, FS_RemoveElement
      <4> QED  BY <4>1, <4>2
    <3>2. s \ {p} \in T /\ s \ {y} \in T /\ y \in s \ {p} /\ p \in s \ {y}
      BY <1>1, <2>1, <2>3, <3>1
    <3>3. /\ Total(f, s \ {p}) = f[y] + Total(f, (s \ {p}) \ {y})
          /\ Total(f, s \ {y}) = f[p] + Total(f, (s \ {y}) \ {p})
      BY <3>2
    <3>4. (s \ {p}) \ {y} = (s \ {y}) \ {p} /\ (s \ {y}) \ {p} \in SUBSET Threads
      BY <3>1
    <3>5. Total(f, (s \ {y}) \ {p}) \in Nat /\ f[p] \in Nat /\ f[y] \in Nat
      BY <2>1, <3>4, TotalIsANumber
    <3>6. PICK a, b, c, d :
            /\ a = Total(f, s) /\ b = Total(f, s \ {p}) /\ c = Total(f, s \ {y})
            /\ d = Total(f, (s \ {y}) \ {p})
      OBVIOUS
    <3>7. a = f[p] + b /\ b = f[y] + d /\ c = f[p] + d  BY <2>1, <3>3, <3>4, <3>6
    <3>8. d \in Nat  BY <3>5, <3>6
    <3>9. a = f[y] + c  BY <3>5, <3>7, <3>8
    <3> QED  BY <3>6, <3>9
  <2> QED  BY <2>2, <2>3
<1>2. SUBSET Threads \subseteq T
  <2>1. \A s \in SUBSET Threads :
          (\A u \in SUBSET Threads : Cardinality(u) < Cardinality(s) => u \in T) => s \in T
    BY <1>1
  <2> HIDE DEF T
  <2> QED  BY <2>1, AllSets
<1> QED  BY <1>2

-----------------------------------------------------------------------------

\* Who has been answered and has not recorded it
Waiting == {t \in Threads : at[t] \in {"record", "save"}}

Accounted == unrecorded \in Nat /\ ChargesAreAccounted

LEMMA PendingIs ==
    Pending = Total(cost, Waiting)
BY DEF Pending, Total, Waiting, MapThenSumSet, MapThenFoldSet

LEMMA PendingNext ==
    Pending' = Total(cost', Waiting')
BY DEF Pending, Total, Waiting, MapThenSumSet, MapThenFoldSet

LEMMA PendingIsANumber ==
    ASSUME TypeOK
    PROVE  Pending \in Nat
<1>1. cost \in [Threads -> Nat]  BY BudgetAssumption DEF TypeOK
<1>2. Waiting \in SUBSET Threads  BY DEF Waiting
<1> QED  BY <1>1, <1>2, PendingIs, TotalIsANumber

\* A step of a thread that is not waiting before it and after it, or keeps its
\* cost, leaves what is pending.
LEMMA PendingStays ==
    ASSUME Waiting' = Waiting, \A t \in Waiting : cost'[t] = cost[t]
    PROVE  Pending' = Pending
<1>1. Waiting \in SUBSET Threads  BY DEF Waiting
<1> QED  BY <1>1, PendingIs, PendingNext, TotalAgrees

\* A thread that returns takes its cost with it.
LEMMA PendingFalls ==
    ASSUME TypeOK, NEW t \in Threads, at[t] \in {"record", "save"}, Return(t)
    PROVE  Pending = cost[t] + Pending'
<1>1. Waiting' = Waiting \ {t} /\ t \in Waiting /\ Waiting \in SUBSET Threads
  BY DEF Waiting, Return, Goto, TypeOK
<1>2. cost \in [Threads -> Nat]  BY BudgetAssumption DEF TypeOK
<1>3. \A u \in Waiting \ {t} : cost'[u] = cost[u]  BY <1>1 DEF Return, TypeOK
<1>4. Total(cost, Waiting) = cost[t] + Total(cost, Waiting \ {t})
  BY <1>1, <1>2, TotalOfAny
<1>5. Total(cost', Waiting \ {t}) = Total(cost, Waiting \ {t})
  <2>1. Waiting \ {t} \in SUBSET Threads  BY <1>1
  <2> QED  BY <1>3, <2>1, TotalAgrees
<1> QED  BY <1>1, <1>4, <1>5, PendingIs, PendingNext

\* An answer adds its cost.
LEMMA PendingRises ==
    ASSUME TypeOK, TypeOK', NEW t \in Threads, at[t] = "call", NEW c,
           Goto(t, "record"), cost' = [cost EXCEPT ![t] = c]
    PROVE  Pending' = c + Pending
<1>1. /\ Waiting = Waiting' \ {t} /\ t \in Waiting'
      /\ Waiting' \in SUBSET Threads /\ Waiting \in SUBSET Threads
  BY DEF Waiting, Goto, TypeOK
<1>2. cost' \in [Threads -> Nat]  BY BudgetAssumption DEF TypeOK
<1>3. cost'[t] = c /\ \A u \in Waiting : cost'[u] = cost[u]  BY <1>1 DEF TypeOK
<1>4. Total(cost', Waiting') = cost'[t] + Total(cost', Waiting)
  BY <1>1, <1>2, TotalOfAny
<1>5. Total(cost', Waiting) = Total(cost, Waiting)
  <2>1. Waiting \in SUBSET Threads  BY <1>1
  <2>2. \A u \in Waiting : cost'[u] = cost[u]  BY <1>3
  <2> QED  BY <2>1, <2>2, TotalAgrees
<1> QED  BY <1>3, <1>4, <1>5, PendingIs, PendingNext

LEMMA AccountsAreKept ==
    ASSUME TypeOK, TypeOK', HolderHasRead, Accounted, [Next]_vars
    PROVE  Accounted'
<1>1. /\ billed = spentUsd + Pending + unrecorded
      /\ billed \in Nat /\ spentUsd \in Nat /\ Pending \in Nat /\ unrecorded \in Nat
  BY PendingIsANumber DEF Accounted, ChargesAreAccounted, TypeOK
<1>2. ASSUME NEW t \in Threads,
             BuildAdCopy(t) \/ CheckBudget(t) \/ CallFails(t) \/ RecordLoad(t)
      PROVE  Accounted'
  <2>1. Waiting' = Waiting /\ \A u \in Waiting : cost'[u] = cost[u]
    BY <1>2 DEF Waiting, TypeOK, BuildAdCopy, CheckBudget, CallFails, RecordLoad, Return, Goto
  <2>2. UNCHANGED <<spentUsd, billed, unrecorded>>
    BY <1>2 DEF BuildAdCopy, CheckBudget, CallFails, RecordLoad
  <2> QED  BY <1>1, <2>1, <2>2, PendingStays DEF Accounted, ChargesAreAccounted
<1>3. ASSUME NEW t \in Threads, ChargedUnseen(t)  PROVE Accounted'
  <2>1. PICK usage \in Usages :
          /\ billed' = billed + EstimateCost(DefaultModel, usage)
          /\ unrecorded' = unrecorded + EstimateCost(DefaultModel, usage)
    BY <1>3 DEF ChargedUnseen
  <2>2. EstimateCost(DefaultModel, usage) \in Nat  BY CostIsBounded, BudgetAssumption
  <2>3. Waiting' = Waiting /\ \A u \in Waiting : cost'[u] = cost[u]
    BY <1>3 DEF Waiting, TypeOK, ChargedUnseen, Return, Goto
  <2>4. Pending' = Pending /\ spentUsd' = spentUsd
    BY <1>3, <2>3, PendingStays DEF ChargedUnseen
  <2> QED  BY <1>1, <2>1, <2>2, <2>4 DEF Accounted, ChargesAreAccounted
<1>4. ASSUME NEW t \in Threads, CallAnswered(t)  PROVE Accounted'
  <2>1. PICK usage \in Usages :
          /\ cost' = [cost EXCEPT ![t] = EstimateCost(DefaultModel, usage)]
          /\ billed' = billed + EstimateCost(DefaultModel, usage)
    BY <1>4 DEF CallAnswered
  <2>2. EstimateCost(DefaultModel, usage) \in Nat  BY CostIsBounded, BudgetAssumption
  <2>3. Pending' = EstimateCost(DefaultModel, usage) + Pending
    BY <1>4, <2>1, PendingRises DEF CallAnswered
  <2>4. UNCHANGED <<spentUsd, unrecorded>>  BY <1>4 DEF CallAnswered
  <2> QED  BY <1>1, <2>1, <2>2, <2>3, <2>4 DEF Accounted, ChargesAreAccounted
<1>5. ASSUME NEW t \in Threads, RecordSave(t) \/ RecordFails(t)  PROVE Accounted'
  <2>1. at[t] = "save" /\ Return(t) /\ billed' = billed
    BY <1>5 DEF RecordSave, RecordFails
  <2>2. cost[t] \in Nat  BY BudgetAssumption DEF TypeOK
  <2>3. Pending = cost[t] + Pending' /\ Pending' \in Nat
    <3>1. Pending = cost[t] + Pending'  BY <2>1, PendingFalls
    <3>2. Waiting' \in SUBSET Threads /\ cost' \in [Threads -> Nat]
      BY BudgetAssumption DEF Waiting, TypeOK
    <3> QED  BY <3>1, <3>2, PendingNext, TotalIsANumber
  <2>4. CASE RecordSave(t)
    <3>1. spentUsd' = spentUsd + cost[t] /\ unrecorded' = unrecorded
      BY <2>4 DEF RecordSave, HolderHasRead
    <3> QED  BY <1>1, <2>1, <2>2, <2>3, <3>1 DEF Accounted, ChargesAreAccounted
  <2>5. CASE RecordFails(t)
    <3>1. spentUsd' = spentUsd /\ unrecorded' = unrecorded + cost[t]
      BY <2>5 DEF RecordFails
    <3> QED  BY <1>1, <2>1, <2>2, <2>3, <3>1 DEF Accounted, ChargesAreAccounted
  <2> QED  BY <1>5, <2>4, <2>5
<1>6. ASSUME Restart  PROVE Accounted'
  <2>1. Waiting' = {}  BY <1>6 DEF Restart, Waiting
  <2>2. Pending' = 0  BY <2>1, PendingNext, TotalOfNone
  <2>3. /\ unrecorded' = unrecorded + Pending /\ UNCHANGED <<spentUsd, billed>>
    BY <1>6 DEF Restart
  <2> QED  BY <1>1, <2>2, <2>3 DEF Accounted, ChargesAreAccounted
<1>7. CASE UNCHANGED vars
  <2>1. UNCHANGED <<spentUsd, billed, unrecorded, at, cost>>  BY <1>7 DEF vars
  <2>2. Waiting' = Waiting  BY <2>1 DEF Waiting
  <2>3. Pending' = Pending  BY <2>1, <2>2, PendingStays
  <2> QED  BY <1>1, <2>1, <2>3 DEF Accounted, ChargesAreAccounted
<1> QED
  BY <1>2, <1>3, <1>4, <1>5, <1>6, <1>7 DEF Next, Step

\* What OpenAI has charged is in the file, in the hands of a thread that will
\* record it, or was lost by a named fault: for any number of threads, prices,
\* failed records and restarts.
THEOREM NoChargeIsLost == Spec => []ChargesAreAccounted
<1>1. Init => HolderHasRead /\ Accounted
  <2> SUFFICES ASSUME Init  PROVE HolderHasRead /\ Accounted
    OBVIOUS
  <2>1. Waiting = {} /\ spentUsd = 0 /\ billed = 0 /\ unrecorded = 0
    BY DEF Init, Waiting
  <2>2. Pending = 0  BY <2>1, PendingIs, TotalOfNone
  <2> QED  BY <2>1, <2>2 DEF Init, HolderHasRead, Accounted, ChargesAreAccounted
<1>2. TypeOK /\ TypeOK' /\ HolderHasRead /\ Accounted /\ [Next]_vars
      => HolderHasRead' /\ Accounted'
  BY LockProtectsTheFile, AccountsAreKept
<1>3. Accounted => ChargesAreAccounted  BY DEF Accounted
<1> QED  BY <1>1, <1>2, <1>3, BudgetTypeCorrect, PTL DEF Spec

=============================================================================
