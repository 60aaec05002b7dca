---------------------------- MODULE TenantsProofs ---------------------------
(***************************************************************************)
(* What Tenants and Accounts promise, for any customers, requests, records *)
(* and limits.                                                             *)
(***************************************************************************)
EXTENDS Tenants, SequenceTheorems, FiniteSetTheorems, WellFoundedInduction, TLAPS

(***************************************************************************)
(* Induction over numbers and over sequences, for sets of them.            *)
(***************************************************************************)
LEMMA AllNumbers ==
  ASSUME NEW T, 0 \in T, \A n \in Nat : n \in T => n + 1 \in T
  PROVE  Nat \subseteq T
<1> SUFFICES ASSUME NEW n \in Nat, n \notin T PROVE FALSE
  OBVIOUS
<1> DEFINE Missing == Nat \ T
<1>1. PICK m \in Missing : \A k \in 0..m - 1 : k \notin Missing
  <2> DEFINE Less == OpToRel(<, Nat)
  <2>1. Missing \subseteq Nat /\ Missing # {}
    OBVIOUS
  <2>2. IsWellFoundedOn(Less, Nat)
    BY NatLessThanWellFounded
  <2>3. \A k, m \in Nat : k < m => <<k, m>> \in Less
    BY DEF OpToRel
  <2> HIDE DEF Missing, Less
  <2>4. PICK m \in Missing : \A k \in Missing : ~(<<k, m>> \in Less)
    BY <2>1, <2>2, WFMin
  <2>5. ASSUME NEW k \in 0..m - 1, k \in Missing PROVE FALSE
    <3>1. m \in Nat /\ k \in Nat /\ k < m
      BY <2>1
    <3> QED BY <2>3, <2>4, <2>5, <3>1
  <2> QED BY <2>5
<1>2. m # 0 /\ m - 1 \in Nat /\ m - 1 \in 0..m - 1 /\ (m - 1) + 1 = m
  BY <1>1
<1> QED BY <1>1, <1>2

LEMMA AllSequences ==
  ASSUME NEW S, NEW T, <<>> \in T, \A s \in Seq(S), x \in S : s \in T => Append(s, x) \in T
  PROVE  Seq(S) \subseteq T
<1> DEFINE L == {n \in Nat : \A s \in Seq(S) : Len(s) = n => s \in T}
<1>1. 0 \in L
  BY EmptySeq
<1>2. ASSUME NEW n \in Nat, n \in L PROVE n + 1 \in L
  <2>1. ASSUME NEW s \in Seq(S), Len(s) = n + 1 PROVE s \in T
    <3>1. s # <<>>
      BY <2>1
    <3>2. PICK front \in Seq(S), x \in S : s = Append(front, x)
      BY <3>1, SequenceEmptyOrAppend
    <3>3. Len(front) = n
      BY <2>1, <3>2
    <3> QED BY <1>2, <3>2, <3>3
  <2> QED BY <2>1
<1>3. Nat \subseteq L
  <2> HIDE DEF L
  <2> QED BY <1>1, <1>2, AllNumbers
<1> QED BY <1>3

(***************************************************************************)
(* The filter of a list of times.                                          *)
(***************************************************************************)
Kept(list, time, kept, i) ==
    IF i = 0 THEN <<>>
    ELSE IF time - list[i] < Window THEN Append(kept[i - 1], list[i]) ELSE kept[i - 1]

Filters(list, time, n, kept) == kept = [i \in 0..n |-> Kept(list, time, kept, i)]

LEMMA FilterExists ==
  ASSUME NEW list, NEW time, NEW n \in Nat
  PROVE  \E kept : Filters(list, time, n, kept)
<1> DEFINE T == {m \in Nat : \E kept : Filters(list, time, m, kept)}
<1>1. 0 \in T
  <2>1. Filters(list, time, 0, [i \in 0..0 |-> <<>>])
    BY DEF Filters, Kept
  <2> QED BY <2>1
<1>2. ASSUME NEW m \in Nat, m \in T PROVE m + 1 \in T
  <2>1. PICK kept : Filters(list, time, m, kept)
    BY <1>2
  <2> DEFINE more == [i \in 0..m + 1 |-> IF i = m + 1 THEN Kept(list, time, kept, m + 1)
                                         ELSE kept[i]]
  <2>2. ASSUME NEW i \in 0..m + 1 PROVE more[i] = Kept(list, time, more, i)
    <3>1. \A k \in 0..m : more[k] = kept[k] /\ kept[k] = Kept(list, time, kept, k)
      BY <2>1 DEF Filters
    <3>2. i # 0 => i - 1 \in 0..m
      OBVIOUS
    <3>3. i \in 0..m \/ i = m + 1
      OBVIOUS
    <3>4. more[m + 1] = Kept(list, time, kept, m + 1)
      OBVIOUS
    <3> HIDE DEF more
    <3> QED BY <3>1, <3>2, <3>3, <3>4 DEF Kept
  <2>3. more = [i \in 0..m + 1 |-> Kept(list, time, more, i)]
    <3>1. more = [i \in 0..m + 1 |-> more[i]]
      OBVIOUS
    <3> HIDE DEF more
    <3> QED BY <2>2, <3>1
  <2> HIDE DEF more
  <2> QED BY <2>3 DEF Filters
<1>3. Nat \subseteq T
  <2> HIDE DEF T
  <2> QED BY <1>1, <1>2, AllNumbers
<1> QED BY <1>3

\* What is kept of a list depends on the list up to there.
LEMMA FilterUnique ==
  ASSUME NEW a, NEW b, NEW time, NEW n \in Nat, NEW m \in Nat, n <= m,
         NEW g, NEW h, Filters(a, time, n, g), Filters(b, time, m, h),
         \A i \in 1..n : a[i] = b[i]
  PROVE  \A i \in 0..n : g[i] = h[i]
<1> DEFINE T == {i \in Nat : i <= n => g[i] = h[i]}
<1>1. \A i \in 0..n : g[i] = Kept(a, time, g, i) /\ h[i] = Kept(b, time, h, i)
  BY DEF Filters
<1>2. 0 \in T
  BY <1>1 DEF Kept
<1>3. ASSUME NEW i \in Nat, i \in T PROVE i + 1 \in T
  <2> SUFFICES ASSUME i + 1 <= n PROVE g[i + 1] = h[i + 1]
    OBVIOUS
  <2>1. g[i] = h[i] /\ a[i + 1] = b[i + 1] /\ i + 1 # 0 /\ (i + 1) - 1 = i
    BY <1>3
  <2> QED BY <1>1, <2>1 DEF Kept
<1>4. Nat \subseteq T
  <2> HIDE DEF T
  <2> QED BY <1>2, <1>3, AllNumbers
<1> QED BY <1>4

LEMMA RecentIs ==
  ASSUME NEW list \in Seq(Nat), NEW time
  PROVE  \E kept : Filters(list, time, Len(list), kept) /\ Recent(list, time) = kept[Len(list)]
<1> DEFINE kept == CHOOSE h : Filters(list, time, Len(list), h)
<1>1. Recent(list, time) = kept[Len(list)]
  BY DEF Recent, Filters, Kept
<1>2. Filters(list, time, Len(list), kept)
  <2>1. Len(list) \in Nat
    OBVIOUS
  <2>2. \E h : Filters(list, time, Len(list), h)
    BY <2>1, FilterExists
  <2> QED BY <2>2
<1> QED BY <1>1, <1>2

LEMMA RecentOfNone ==
  ASSUME NEW time
  PROVE  Recent(<<>>, time) = <<>>
<1>1. PICK kept : Filters(<<>>, time, 0, kept) /\ Recent(<<>>, time) = kept[0]
  <2>1. <<>> \in Seq(Nat) /\ Len(<<>>) = 0
    OBVIOUS
  <2> QED BY <2>1, RecentIs
<1>2. kept[0] = Kept(<<>>, time, kept, 0)
  BY <1>1 DEF Filters
<1> QED BY <1>1, <1>2 DEF Kept

LEMMA RecentOfMore ==
  ASSUME NEW list \in Seq(Nat), NEW x \in Nat, NEW time
  PROVE  Recent(Append(list, x), time)
           = IF time - x < Window THEN Append(Recent(list, time), x) ELSE Recent(list, time)
<1> DEFINE more == Append(list, x)
           n == Len(list)
<1>1. more \in Seq(Nat) /\ Len(more) = n + 1 /\ n \in Nat /\ more[n + 1] = x
      /\ \A i \in 1..n : list[i] = more[i]
  OBVIOUS
<1> HIDE DEF more, n
<1>2. PICK g : Filters(list, time, n, g) /\ Recent(list, time) = g[n]
  BY RecentIs DEF n
<1>3. PICK h : Filters(more, time, n + 1, h) /\ Recent(more, time) = h[n + 1]
  BY <1>1, RecentIs
<1>4. g[n] = h[n]
  BY <1>1, <1>2, <1>3, FilterUnique
<1>5. h[n + 1] = Kept(more, time, h, n + 1) /\ n + 1 # 0 /\ (n + 1) - 1 = n
  <2>1. n + 1 \in 0..n + 1
    BY <1>1
  <2>2. h[n + 1] = Kept(more, time, h, n + 1)
    BY <1>3, <2>1 DEF Filters
  <2> QED BY <1>1, <2>2
<1> QED BY <1>1, <1>2, <1>3, <1>4, <1>5 DEF Kept, more

LEMMA RecentIsAList ==
  ASSUME NEW list \in Seq(Nat), NEW time
  PROVE  Recent(list, time) \in Seq(Nat)
<1> DEFINE T == {s \in Seq(Nat) : Recent(s, time) \in Seq(Nat)}
<1>1. <<>> \in T
  <2>1. Recent(<<>>, time) = <<>> /\ <<>> \in Seq(Nat)
    BY RecentOfNone
  <2> QED BY <2>1
<1>2. ASSUME NEW s \in Seq(Nat), NEW x \in Nat, s \in T PROVE Append(s, x) \in T
  <2>1. Recent(s, time) \in Seq(Nat) /\ Append(s, x) \in Seq(Nat)
    BY <1>2
  <2>2. Append(Recent(s, time), x) \in Seq(Nat)
    BY <2>1
  <2> QED BY <2>1, <2>2, RecentOfMore
<1>3. Seq(Nat) \subseteq T
  <2> HIDE DEF T
  <2> QED BY <1>1, <1>2, AllSequences
<1> QED BY <1>3

\* What is recent later is recent before.
LEMMA RecentOfRecent ==
  ASSUME NEW list \in Seq(Nat), NEW a \in Nat, NEW b \in Nat, a <= b
  PROVE  Recent(Recent(list, a), b) = Recent(list, b)
<1> DEFINE T == {s \in Seq(Nat) : Recent(Recent(s, a), b) = Recent(s, b)}
<1>1. <<>> \in T
  <2>1. Recent(<<>>, a) = <<>> /\ Recent(<<>>, b) = <<>>
    BY RecentOfNone
  <2>2. Recent(Recent(<<>>, a), b) = Recent(<<>>, b)
    BY <2>1
  <2> QED BY <2>2
<1>2. ASSUME NEW s \in Seq(Nat), NEW x \in Nat, s \in T PROVE Append(s, x) \in T
  <2>1. Recent(s, a) \in Seq(Nat) /\ Append(s, x) \in Seq(Nat)
        /\ Recent(Recent(s, a), b) = Recent(s, b)
    BY <1>2, RecentIsAList
  <2>2. Recent(Append(s, x), a) = IF a - x < Window THEN Append(Recent(s, a), x) ELSE Recent(s, a)
    BY RecentOfMore
  <2>3. Recent(Append(s, x), b) = IF b - x < Window THEN Append(Recent(s, b), x) ELSE Recent(s, b)
    BY RecentOfMore
  <2>4. Recent(Append(Recent(s, a), x), b)
          = IF b - x < Window THEN Append(Recent(s, b), x) ELSE Recent(s, b)
    BY <2>1, RecentOfMore
  <2>5. b - x < Window => a - x < Window
    BY AccountsAssumption
  <2> QED BY <2>1, <2>2, <2>3, <2>4, <2>5
<1>3. Seq(Nat) \subseteq T
  <2> HIDE DEF T
  <2> QED BY <1>1, <1>2, AllSequences
<1> QED BY <1>3

Count(list, time) == Len(Recent(list, time))

LEMMA CountIsANumber ==
  ASSUME NEW list \in Seq(Nat), NEW time
  PROVE  Count(list, time) \in Nat
BY RecentIsAList DEF Count

LEMMA CountOfMore ==
  ASSUME NEW list \in Seq(Nat), NEW x \in Nat, NEW time
  PROVE  Count(Append(list, x), time)
           = IF time - x < Window THEN Count(list, time) + 1 ELSE Count(list, time)
<1>1. Recent(list, time) \in Seq(Nat)
  BY RecentIsAList
<1>2. Len(Append(Recent(list, time), x)) = Len(Recent(list, time)) + 1
  BY <1>1
<1> QED BY <1>2, RecentOfMore DEF Count

LEMMA CountFalls ==
  ASSUME NEW list \in Seq(Nat), NEW a \in Nat, NEW b \in Nat, a <= b
  PROVE  Count(list, b) <= Count(list, a)
<1> DEFINE T == {s \in Seq(Nat) : Count(s, b) <= Count(s, a)}
<1>1. <<>> \in T
  BY RecentOfNone DEF Count
<1>2. ASSUME NEW s \in Seq(Nat), NEW x \in Nat, s \in T PROVE Append(s, x) \in T
  <2>1. Append(s, x) \in Seq(Nat) /\ Count(s, b) <= Count(s, a)
        /\ Count(s, a) \in Nat /\ Count(s, b) \in Nat
    BY <1>2, CountIsANumber
  <2>2. /\ Count(Append(s, x), a) = IF a - x < Window THEN Count(s, a) + 1 ELSE Count(s, a)
        /\ Count(Append(s, x), b) = IF b - x < Window THEN Count(s, b) + 1 ELSE Count(s, b)
    BY CountOfMore
  <2>3. b - x < Window => a - x < Window
    BY AccountsAssumption
  <2> QED BY <2>1, <2>2, <2>3
<1>3. Seq(Nat) \subseteq T
  <2> HIDE DEF T
  <2> QED BY <1>1, <1>2, AllSequences
<1> QED BY <1>3

(***************************************************************************)
(* The gates.  Whatever the window is going to be, a list holds no more    *)
(* than the real failures in it, and no fewer but for those dropped.  The  *)
(* copies that checks hold differ from the list by what was recorded or    *)
(* dropped in this tick, all of it as old as now.                          *)
(***************************************************************************)
\* The requests that may still fail with key k.
MayFail(k) ==
    {r \in Requests : /\ requests[r].key = k
                      /\ requests[r].at \in {"verify", "append", "orphan"}}

ListFacts(k) ==
    /\ Count(failures[k], now) = Len(failures[k])
    /\ \A time \in Nat : time >= now =>
         /\ Count(attempts[k], time) <= Count(failures[k], time)
         /\ Count(failures[k], time) <= Count(attempts[k], time) + lost[k]
    /\ \A time \in Nat : time >= now + Window => Count(failures[k], time) = 0
    /\ Len(failures[k]) + Cardinality(MayFail(k))
         <= MaxAttempts - 1 + Cardinality(Requests) + lost[k]

SeenFacts(k, seen) ==
    /\ Count(seen, now) = Len(seen)
    /\ \A time \in Nat : time >= now => Count(seen, time) <= Count(failures[k], time)
    /\ \A time \in Nat : now <= time /\ time < now + Window =>
         Count(attempts[k], time) + Len(seen) = Count(attempts[k], now) + Count(seen, time)

ListInv == \A k \in Keys : ListFacts(k)
SeenInv ==
    \A r \in Requests :
      requests[r].at = "replace" => SeenFacts(requests[r].key, requests[r].seen)

GateInv == AccountsTypeOK /\ ListInv /\ SeenInv

LEMMA MayFailIsFinite ==
  ASSUME NEW k
  PROVE  /\ IsFiniteSet(MayFail(k)) /\ Cardinality(MayFail(k)) \in Nat
         /\ Cardinality(Requests) \in Nat /\ Cardinality(MayFail(k)) <= Cardinality(Requests)
<1>1. MayFail(k) \subseteq Requests /\ IsFiniteSet(Requests)
  BY AccountsAssumption DEF MayFail
<1> QED BY <1>1, FS_Subset, FS_CardinalityType

\* A step that leaves the lists alone: nobody may fail who could not before,
\* and a check that looks sees the list as it is.
LEMMA ListsStay ==
  ASSUME GateInv, AccountsTypeOK', UNCHANGED <<now, attempts, failures, lost>>,
         \A q \in Requests :
           \/ requests'[q].at \notin {"replace", "verify", "append", "orphan"}
           \/ requests'[q] = requests[q]
           \/ /\ requests'[q].at = "append" /\ requests[q].at = "verify"
              /\ requests'[q].key = requests[q].key
           \/ /\ requests'[q].at = "replace"
              /\ requests'[q].seen = Recent(attempts[requests'[q].key], now)
  PROVE  GateInv'
<1>1. AccountsTypeOK /\ ListInv /\ SeenInv
  BY DEF GateInv
<1>2. ASSUME NEW k \in Keys PROVE ListFacts(k)'
  <2>1. MayFail(k)' \subseteq MayFail(k)
    BY DEF MayFail
  <2>2. Cardinality(MayFail(k)') <= Cardinality(MayFail(k)) /\ Cardinality(MayFail(k)') \in Nat
    BY <2>1, MayFailIsFinite, FS_Subset, FS_CardinalityType
  <2>3. ListFacts(k) /\ Len(failures[k]) \in Nat /\ lost[k] \in Nat
    BY <1>1 DEF ListInv, AccountsTypeOK
  <2>4. Len(failures[k]) + Cardinality(MayFail(k)')
          <= MaxAttempts - 1 + Cardinality(Requests) + lost[k]
    BY <2>2, <2>3, MayFailIsFinite, AccountsAssumption DEF ListFacts
  <2> QED BY <2>3, <2>4 DEF ListFacts, Count
<1>3. ASSUME NEW q \in Requests, requests'[q].at = "replace"
      PROVE  SeenFacts(requests'[q].key, requests'[q].seen)
  <2> DEFINE k == requests'[q].key
             seen == requests'[q].seen
  <2>1. k \in Keys
    BY DEF AccountsTypeOK
  <2>2. CASE requests'[q] = requests[q]
    BY <1>1, <1>3, <2>2 DEF SeenInv
  <2>3. CASE seen = Recent(attempts[k], now)
    <3>1. /\ attempts[k] \in Seq(Nat) /\ failures[k] \in Seq(Nat) /\ now \in Nat
          /\ ListFacts(k)
      BY <1>1, <2>1, AccountsAssumption DEF AccountsTypeOK, ListInv
    <3> HIDE DEF k, seen
    <3>2. \A time \in Nat : time >= now => Recent(seen, time) = Recent(attempts[k], time)
      BY <2>3, <3>1, RecentOfRecent
    <3>3. \A time \in Nat : time >= now => Count(seen, time) = Count(attempts[k], time)
      BY <3>2 DEF Count
    <3>4. Len(seen) = Count(attempts[k], now) /\ Count(seen, now) = Count(attempts[k], now)
      BY <2>3, <3>1, <3>3 DEF Count
    <3>5. \A time \in Nat : Count(attempts[k], time) \in Nat
      BY <3>1, CountIsANumber
    <3>6. SeenFacts(k, seen)
      BY <3>1, <3>3, <3>4, <3>5, SMTT(60) DEF SeenFacts, ListFacts
    <3> QED BY <3>6 DEF k, seen
  <2> QED BY <1>3, <2>2, <2>3
<1>4. ListInv'
  BY <1>2 DEF ListInv
<1>5. SeenInv'
  <2>1. ASSUME NEW q \in Requests, (requests[q].at = "replace")'
        PROVE  SeenFacts(requests[q].key, requests[q].seen)'
    BY <1>3, <2>1 DEF SeenFacts, Count
  <2> QED BY <2>1 DEF SeenInv
<1> QED BY <1>4, <1>5 DEF GateInv

\* A step of one request that leaves the lists alone.
LEMMA GateMoves ==
  ASSUME GateInv, UNCHANGED <<now, attempts, failures, lost>>,
         NEW r \in Requests, NEW next,
         requests' = [requests EXCEPT ![r] = next],
         next \in [at : Places, gate : Gates, key : Keys, seen : Seq(Nat)],
         \/ next.at \notin {"replace", "verify", "append", "orphan"}
         \/ next.at = "append" /\ requests[r].at = "verify" /\ next.key = requests[r].key
         \/ next.at = "replace" /\ next.seen = Recent(attempts[next.key], now),
         customers' \subseteq Customers, sessions' \subseteq customers'
  PROVE  GateInv'
<1>1. AccountsTypeOK'
  BY DEF GateInv, AccountsTypeOK
<1>2. requests'[r] = next /\ \A q \in Requests \ {r} : requests'[q] = requests[q]
  BY DEF GateInv, AccountsTypeOK
<1> QED BY <1>1, <1>2, ListsStay

LEMMA LookKeeps ==
  ASSUME GateInv, NEW r \in Requests, NEW gate \in Gates, NEW key \in Keys, Look(r, gate, key)
  PROVE  GateInv'
<1> DEFINE next == [at |-> "replace", gate |-> gate, key |-> key,
                    seen |-> Recent(attempts[key], now)]
<1>1. requests' = [requests EXCEPT ![r] = next]
      /\ UNCHANGED <<now, customers, sessions, attempts, failures, lost>>
  BY DEF Look, SeenNow
<1>2. Recent(attempts[key], now) \in Seq(Nat)
  BY RecentIsAList DEF GateInv, AccountsTypeOK
<1>3. /\ next \in [at : Places, gate : Gates, key : Keys, seen : Seq(Nat)]
      /\ next.at = "replace" /\ next.seen = Recent(attempts[next.key], now)
  BY <1>2 DEF Places
<1>4. customers' \subseteq Customers /\ sessions' \subseteq customers'
  BY <1>1 DEF GateInv, AccountsTypeOK
<1> HIDE DEF next
<1> QED BY <1>1, <1>3, <1>4, GateMoves

\* The other steps of a request that leave the lists alone.
LEMMA AskKeeps ==
  ASSUME GateInv, NEW r \in Requests,
         Ask(r) \/ AskAgain(r) \/ Wrong(r) \/ LoggedIn(r) \/ Admitted(r)
  PROVE  GateInv'
<1>1. Source \in Keys /\ AccountsTypeOK
  BY AccountsAssumption DEF GateInv
<1>2. CASE Ask(r) \/ AskAgain(r)
  <2>1. \E gate \in Gates, key \in Keys : Look(r, gate, key)
    BY <1>1, <1>2 DEF Ask, AskAgain, Gates
  <2> QED BY <2>1, LookKeeps
<1>3. requests[r] \in [at : Places, gate : Gates, key : Keys, seen : Seq(Nat)]
  BY <1>1 DEF AccountsTypeOK
<1>4. CASE Wrong(r) \/ Admitted(r)
  <2>1. PICK place \in {"append", "again", "handler"} :
          /\ requests' = [requests EXCEPT ![r].at = place]
          /\ place = "append" => requests[r].at = "verify"
    BY <1>4 DEF Wrong, Admitted
  <2> DEFINE next == [requests[r] EXCEPT !.at = place]
  <2>2. next \in [at : Places, gate : Gates, key : Keys, seen : Seq(Nat)]
        /\ next.at = place /\ next.key = requests[r].key
    BY <1>3 DEF Places
  <2>3. requests' = [requests EXCEPT ![r] = next]
    BY <2>1
  <2>4. /\ UNCHANGED <<now, attempts, failures, lost>>
        /\ customers' \subseteq Customers /\ sessions' \subseteq customers'
    BY <1>1, <1>4 DEF Wrong, Admitted, AccountsTypeOK
  <2> HIDE DEF next
  <2> QED BY <2>1, <2>2, <2>3, <2>4, GateMoves
<1>5. CASE LoggedIn(r)
  <2>1. NoRequest \in [at : Places, gate : Gates, key : Keys, seen : Seq(Nat)]
        /\ NoRequest.at = "idle"
    BY <1>1 DEF NoRequest, Places, Gates
  <2>2. /\ requests' = [requests EXCEPT ![r] = NoRequest]
        /\ UNCHANGED <<now, attempts, failures, lost>>
        /\ customers' \subseteq Customers /\ sessions' \subseteq customers'
    BY <1>1, <1>5 DEF LoggedIn, AccountsTypeOK
  <2> QED BY <2>1, <2>2, GateMoves
<1> QED BY <1>2, <1>4, <1>5

\* A check puts the copy in place that it has looked through.
LEMMA ReplaceKeeps ==
  ASSUME GateInv, NEW r \in Requests, Replace(r)
  PROVE  GateInv'
<1>1. AccountsTypeOK /\ ListInv /\ SeenInv
  BY DEF GateInv
<1>k. PICK k, seen, dropped :
        /\ k = requests[r].key /\ seen = requests[r].seen
        /\ dropped = Count(attempts[k], now) - Len(seen)
  OBVIOUS
<1>2. /\ k \in Keys /\ seen \in Seq(Nat) /\ requests[r].at = "replace" /\ now \in Nat
      /\ attempts[k] \in Seq(Nat) /\ failures[k] \in Seq(Nat) /\ lost[k] \in Nat
  <2>1. requests[r] \in [at : Places, gate : Gates, key : Keys, seen : Seq(Nat)]
    BY <1>1 DEF AccountsTypeOK
  <2>2. k \in Keys /\ seen \in Seq(Nat) /\ requests[r].at = "replace"
    BY <1>k, <2>1 DEF Replace
  <2>3. now \in Nat /\ attempts[k] \in Seq(Nat) /\ failures[k] \in Seq(Nat) /\ lost[k] \in Nat
    BY <1>1, <2>2, AccountsAssumption DEF AccountsTypeOK
  <2> QED BY <2>2, <2>3
<1>3. /\ attempts' = [attempts EXCEPT ![k] = seen]
      /\ lost' = IF dropped > 0 THEN [lost EXCEPT ![k] = @ + dropped] ELSE lost
      /\ UNCHANGED <<now, customers, sessions, failures>>
  BY <1>k DEF Replace, Count
<1>4. \A q \in Requests :
        requests'[q] = CASE q = r /\ Refuses(seen) -> NoRequest
          [] q = r /\ ~ Refuses(seen) -> [requests[q] EXCEPT !.at = "verify", !.seen = <<>>]
          [] q # r /\ requests[q].at = "append" /\ requests[q].key = k ->
               [requests[q] EXCEPT !.at = "orphan"]
          [] OTHER -> requests[q]
  BY <1>k DEF Replace
<1>own. /\ Refuses(seen) => requests'[r] = NoRequest
        /\ ~ Refuses(seen) => requests'[r] = [requests[r] EXCEPT !.at = "verify", !.seen = <<>>]
  BY <1>4
<1>5. ListFacts(k) /\ SeenFacts(k, seen)
  BY <1>1, <1>2, <1>k DEF ListInv, SeenInv
<1>6. /\ \A time : Count(attempts[k], time) \in Nat /\ Count(seen, time) \in Nat
      /\ \A time : Count(failures[k], time) \in Nat
      /\ Len(seen) \in Nat /\ Len(failures[k]) \in Nat /\ dropped \in Int
  BY <1>2, <1>k, CountIsANumber
<1>7. requests' \in [Requests -> [at : Places, gate : Gates, key : Keys, seen : Seq(Nat)]]
  <2>1. ASSUME NEW q \in Requests
        PROVE  requests'[q] \in [at : Places, gate : Gates, key : Keys, seen : Seq(Nat)]
    <3> DEFINE was == requests[q]
    <3>1. was \in [at : Places, gate : Gates, key : Keys, seen : Seq(Nat)]
      BY <1>1 DEF AccountsTypeOK
    <3>2. NoRequest \in [at : Places, gate : Gates, key : Keys, seen : Seq(Nat)]
      BY AccountsAssumption DEF NoRequest, Places, Gates
    <3>3. \A place \in Places :
            [was EXCEPT !.at = place] \in [at : Places, gate : Gates, key : Keys, seen : Seq(Nat)]
      BY <3>1
    <3>4. [was EXCEPT !.at = "verify", !.seen = <<>>]
            \in [at : Places, gate : Gates, key : Keys, seen : Seq(Nat)]
      <4>1. <<>> \in Seq(Nat) /\ "verify" \in Places
        BY DEF Places
      <4> QED BY <3>1, <4>1
    <3>5. "orphan" \in Places
      BY DEF Places
    <3>6. requests'[q] \in {was, NoRequest, [was EXCEPT !.at = "orphan"],
                            [was EXCEPT !.at = "verify", !.seen = <<>>]}
      BY <1>4
    <3> HIDE DEF was
    <3> QED BY <3>1, <3>2, <3>3, <3>4, <3>5, <3>6
  <2>2. requests' = [q \in Requests |-> requests'[q]]
    BY DEF Replace
  <2> QED BY <2>1, <2>2
<1>8. \A q \in Requests :
        requests'[q].at = "replace" => q # r /\ requests'[q] = requests[q]
  <2>1. ASSUME NEW q \in Requests PROVE requests'[q].at = "replace" => q # r /\ requests'[q] = requests[q]
    <3>1. requests[q] \in [at : Places, gate : Gates, key : Keys, seen : Seq(Nat)]
      BY <1>1 DEF AccountsTypeOK
    <3>2. CASE q = r
      <4>1. requests'[r].at # "replace"
        <5>1. Refuses(seen) => requests'[r].at = "idle"
          BY <1>own DEF NoRequest
        <5>2. ~ Refuses(seen) => requests'[r].at = "verify"
          BY <1>own, <3>1, <3>2
        <5> QED BY <5>1, <5>2
      <4> QED BY <3>2, <4>1
    <3>3. CASE q # r
      BY <1>4, <3>1, <3>3
    <3> QED BY <3>2, <3>3
  <2> QED BY <2>1
<1>9. /\ \A i \in Keys \ {k} : MayFail(i)' = MayFail(i)
      /\ MayFail(k)' \subseteq MayFail(k) \cup {r} /\ r \notin MayFail(k)
      /\ Refuses(seen) => MayFail(k)' \subseteq MayFail(k)
  <2>1. \A q \in Requests \ {r} :
          /\ requests'[q].key = requests[q].key
          /\ requests'[q].at \in {"verify", "append", "orphan"}
               <=> requests[q].at \in {"verify", "append", "orphan"}
    <3>1. ASSUME NEW q \in Requests \ {r}
          PROVE  /\ requests'[q].key = requests[q].key
                 /\ requests'[q].at \in {"verify", "append", "orphan"}
                      <=> requests[q].at \in {"verify", "append", "orphan"}
      <4>1. requests[q] \in [at : Places, gate : Gates, key : Keys, seen : Seq(Nat)]
        BY <1>1 DEF AccountsTypeOK
      <4> QED BY <1>4, <4>1
    <3> QED BY <3>1
  <2>2. /\ Refuses(seen) => requests'[r].at = "idle"
        /\ ~ Refuses(seen) => requests'[r].key = k
    <3>1. requests[r] \in [at : Places, gate : Gates, key : Keys, seen : Seq(Nat)]
      BY <1>1 DEF AccountsTypeOK
    <3>2. Refuses(seen) => requests'[r].at = "idle"
      BY <1>own DEF NoRequest
    <3>3. ~ Refuses(seen) => requests'[r].key = k
      BY <1>own, <1>k, <3>1
    <3> QED BY <3>2, <3>3
  <2>3. r \notin MayFail(k)
    BY <1>2 DEF MayFail
  <2>4. ASSUME NEW i \in Keys, NEW q \in Requests, q # r
        PROVE  (q \in MayFail(i)') <=> q \in MayFail(i)
    BY <2>1, <2>4 DEF MayFail
  <2>5. ASSUME NEW i \in Keys \ {k} PROVE r \notin MayFail(i) /\ ~ (r \in MayFail(i)')
    BY <1>2, <2>2 DEF MayFail
  <2>6. Refuses(seen) => ~ (r \in MayFail(k)')
    BY <2>2 DEF MayFail
  <2>7. \A i \in Keys : MayFail(i) \subseteq Requests /\ MayFail(i)' \subseteq Requests
    BY DEF MayFail
  <2>8. ASSUME NEW i \in Keys \ {k} PROVE MayFail(i)' = MayFail(i)
    BY <2>4, <2>5, <2>7
  <2> QED BY <1>2, <2>3, <2>4, <2>6, <2>7, <2>8
<1>10. attempts'[k] = seen /\ \A i \in Keys \ {k} : attempts'[i] = attempts[i]
  BY <1>1, <1>2, <1>3 DEF AccountsTypeOK
<1>11. /\ dropped > 0 => lost'[k] = lost[k] + dropped
       /\ ~ (dropped > 0) => lost'[k] = lost[k]
       /\ \A i \in Keys \ {k} : lost'[i] = lost[i]
  BY <1>1, <1>2, <1>3 DEF AccountsTypeOK
<1>12. lost'[k] \in Nat /\ lost'[k] >= lost[k] /\ lost'[k] >= lost[k] + dropped
  BY <1>2, <1>6, <1>11
<1>13. AccountsTypeOK'
  <2>1. attempts' \in [Keys -> Seq(Nat)] /\ lost' \in [Keys -> Nat]
    BY <1>1, <1>2, <1>3, <1>6, <1>11, <1>12 DEF AccountsTypeOK
  <2> QED BY <1>1, <1>3, <1>7, <2>1 DEF AccountsTypeOK
<1>14. ListFacts(k)'
  <2>1. ASSUME NEW time \in Nat, time >= now
        PROVE  /\ Count(seen, time) <= Count(failures[k], time)
               /\ Count(failures[k], time) <= Count(seen, time) + lost'[k]
    <3>1. Count(seen, time) <= Count(failures[k], time)
      BY <1>5, <2>1 DEF SeenFacts
    <3>2. CASE time < now + Window
      <4>1. /\ Count(failures[k], time) <= Count(attempts[k], time) + lost[k]
            /\ Count(attempts[k], time) + Len(seen) = Count(attempts[k], now) + Count(seen, time)
        BY <1>5, <2>1, <3>2 DEF ListFacts, SeenFacts
      <4>2. lost'[k] >= lost[k] + (Count(attempts[k], now) - Len(seen))
        BY <1>12, <1>k
      <4> QED BY <1>2, <1>6, <1>12, <3>1, <4>1, <4>2
    <3>3. CASE time >= now + Window
      <4>1. Count(failures[k], time) = 0
        BY <1>5, <2>1, <3>3 DEF ListFacts
      <4> QED BY <1>6, <1>12, <3>1, <4>1
    <3> QED BY <1>2, <2>1, <3>2, <3>3, AccountsAssumption
  <2>2. Len(failures[k]) + Cardinality(MayFail(k)')
          <= MaxAttempts - 1 + Cardinality(Requests) + lost'[k]
    <3>1. CASE Refuses(seen)
      <4>1. Cardinality(MayFail(k)') <= Cardinality(MayFail(k)) /\ Cardinality(MayFail(k)') \in Nat
        BY <1>9, <3>1, MayFailIsFinite, FS_Subset, FS_CardinalityType
      <4>2. Len(failures[k]) + Cardinality(MayFail(k))
              <= MaxAttempts - 1 + Cardinality(Requests) + lost[k]
        BY <1>5 DEF ListFacts
      <4>3. Cardinality(MayFail(k)) \in Nat /\ Cardinality(Requests) \in Nat
        BY MayFailIsFinite
      <4> QED BY <1>2, <1>6, <1>12, <4>1, <4>2, <4>3, AccountsAssumption
    <3>2. CASE ~ Refuses(seen)
      <4>1. Len(seen) <= MaxAttempts - 1
        BY <1>6, <3>2, AccountsAssumption DEF Refuses
      <4>2. Cardinality(MayFail(k)') <= Cardinality(Requests) /\ Cardinality(MayFail(k)') \in Nat
        <5>1. MayFail(k)' \subseteq Requests /\ IsFiniteSet(Requests)
          BY AccountsAssumption DEF MayFail
        <5> QED BY <5>1, FS_Subset, FS_CardinalityType
      <4>3. Len(failures[k]) <= Len(seen) + lost'[k]
        <5>1. /\ Count(failures[k], now) = Len(failures[k]) /\ Count(seen, now) = Len(seen)
              /\ now >= now
          BY <1>2, <1>5 DEF ListFacts, SeenFacts
        <5> QED BY <1>2, <2>1, <5>1
      <4>4. Cardinality(Requests) \in Nat
        BY MayFailIsFinite
      <4> QED BY <1>6, <1>12, <4>1, <4>2, <4>3, <4>4, AccountsAssumption
    <3> QED BY <3>1, <3>2
  <2>3. /\ Count(failures[k], now) = Len(failures[k])
        /\ \A time \in Nat : time >= now + Window => Count(failures[k], time) = 0
    BY <1>5 DEF ListFacts
  <2> QED BY <1>3, <1>10, <2>1, <2>2, <2>3 DEF ListFacts, Count
<1>15. ASSUME NEW i \in Keys, i # k PROVE ListFacts(i)'
  <2>1. ListFacts(i)
    BY <1>1 DEF ListInv
  <2>2. MayFail(i)' = MayFail(i) /\ attempts'[i] = attempts[i] /\ lost'[i] = lost[i]
    BY <1>9, <1>10, <1>11, <1>15
  <2> QED BY <1>3, <2>1, <2>2 DEF ListFacts, Count
<1>16. ASSUME NEW q \in Requests, requests'[q].at = "replace"
       PROVE  SeenFacts(requests[q].key, requests[q].seen)'
  <2>p. PICK j, other : j = requests[q].key /\ other = requests[q].seen
    OBVIOUS
  <2>1. /\ requests'[q] = requests[q] /\ requests[q].at = "replace"
        /\ j \in Keys /\ other \in Seq(Nat)
    <3>1. requests[q] \in [at : Places, gate : Gates, key : Keys, seen : Seq(Nat)]
      BY <1>1 DEF AccountsTypeOK
    <3> QED BY <1>8, <1>16, <2>p, <3>1
  <2>2. SeenFacts(j, other)
    BY <1>1, <2>1, <2>p DEF SeenInv
  <2>3. requests'[q].key = j /\ requests'[q].seen = other
    BY <2>1, <2>p
  <2>4. ASSUME NEW time \in Nat, now <= time, time < now + Window
        PROVE  Count(attempts'[j], time) + Len(other) = Count(attempts'[j], now) + Count(other, time)
    <3>1. Count(attempts[j], time) + Len(other) = Count(attempts[j], now) + Count(other, time)
      BY <2>2, <2>4 DEF SeenFacts
    <3>2. CASE j # k
      BY <1>10, <2>1, <3>1, <3>2
    <3>3. CASE j = k
      <4>1. Count(attempts[k], time) + Len(seen) = Count(attempts[k], now) + Count(seen, time)
            /\ Count(seen, now) = Len(seen)
        BY <1>5, <2>4 DEF SeenFacts
      <4>2. Count(other, time) \in Nat /\ Len(other) \in Nat
        BY <2>1, CountIsANumber
      <4> QED BY <1>6, <1>10, <3>1, <3>3, <4>1, <4>2
    <3> QED BY <3>2, <3>3
  <2>5. SeenFacts(j, other)'
    <3>1. /\ Count(other, now) = Len(other)
          /\ \A time \in Nat : time >= now => Count(other, time) <= Count(failures[j], time)
      BY <2>2 DEF SeenFacts
    <3> QED BY <1>3, <2>4, <3>1 DEF SeenFacts, Count
  <2> QED BY <2>3, <2>5
<1>17. ListInv'
  BY <1>14, <1>15 DEF ListInv
<1>18. SeenInv'
  BY <1>16 DEF SeenInv
<1> QED BY <1>13, <1>17, <1>18 DEF GateInv

\* A failure is recorded, in the list or in one that has been replaced.
LEMMA RecordKeeps ==
  ASSUME GateInv, NEW r \in Requests, Record(r)
  PROVE  GateInv'
<1>1. AccountsTypeOK /\ ListInv /\ SeenInv
  BY DEF GateInv
<1>k. PICK k, kept : k = requests[r].key /\ kept = (requests[r].at = "append")
  OBVIOUS
<1>2. /\ k \in Keys /\ now \in Nat /\ r \in MayFail(k)
      /\ attempts[k] \in Seq(Nat) /\ failures[k] \in Seq(Nat) /\ lost[k] \in Nat
  <2>1. requests[r] \in [at : Places, gate : Gates, key : Keys, seen : Seq(Nat)]
    BY <1>1 DEF AccountsTypeOK
  <2>2. k \in Keys /\ r \in MayFail(k)
    BY <1>k, <2>1 DEF Record, MayFail
  <2>3. now \in Nat /\ attempts[k] \in Seq(Nat) /\ failures[k] \in Seq(Nat) /\ lost[k] \in Nat
    BY <1>1, <2>2, AccountsAssumption DEF AccountsTypeOK
  <2> QED BY <2>2, <2>3
<1>3. /\ attempts' = IF kept THEN [attempts EXCEPT ![k] = Append(@, now)] ELSE attempts
      /\ lost' = IF kept THEN lost ELSE [lost EXCEPT ![k] = @ + 1]
      /\ failures' = [failures EXCEPT ![k] = Append(@, now)]
      /\ requests' = [requests EXCEPT ![r] = NoRequest]
      /\ UNCHANGED <<now, customers, sessions>>
  BY <1>k DEF Record
<1>4. requests'[r] = NoRequest /\ \A q \in Requests \ {r} : requests'[q] = requests[q]
  BY <1>1, <1>3 DEF AccountsTypeOK
<1>5. /\ attempts'[k] = IF kept THEN Append(attempts[k], now) ELSE attempts[k]
      /\ lost'[k] = IF kept THEN lost[k] ELSE lost[k] + 1
      /\ failures'[k] = Append(failures[k], now)
      /\ \A i \in Keys \ {k} : attempts'[i] = attempts[i] /\ lost'[i] = lost[i]
                               /\ failures'[i] = failures[i]
  BY <1>1, <1>2, <1>3 DEF AccountsTypeOK
<1>6. AccountsTypeOK'
  <2>1. Append(attempts[k], now) \in Seq(Nat) /\ Append(failures[k], now) \in Seq(Nat)
        /\ lost[k] + 1 \in Nat
    BY <1>2
  <2>2. attempts' \in [Keys -> Seq(Nat)] /\ failures' \in [Keys -> Seq(Nat)]
        /\ lost' \in [Keys -> Nat]
    BY <1>1, <1>2, <1>3, <2>1 DEF AccountsTypeOK
  <2>3. NoRequest \in [at : Places, gate : Gates, key : Keys, seen : Seq(Nat)]
    BY AccountsAssumption DEF NoRequest, Places, Gates
  <2>4. requests' \in [Requests -> [at : Places, gate : Gates, key : Keys, seen : Seq(Nat)]]
    BY <1>1, <1>3, <2>3 DEF AccountsTypeOK
  <2> QED BY <1>1, <1>3, <2>2, <2>4 DEF AccountsTypeOK
<1>7. ASSUME NEW time \in Nat, time >= now
      PROVE  /\ Count(failures'[k], time)
                  = IF time < now + Window THEN Count(failures[k], time) + 1
                    ELSE Count(failures[k], time)
             /\ kept => Count(attempts'[k], time)
                  = IF time < now + Window THEN Count(attempts[k], time) + 1
                    ELSE Count(attempts[k], time)
             /\ ~ kept => Count(attempts'[k], time) = Count(attempts[k], time)
             /\ Count(failures[k], time) \in Nat /\ Count(attempts[k], time) \in Nat
  <2>1. time - now < Window <=> time < now + Window
    BY <1>2, AccountsAssumption
  <2>2. Count(Append(failures[k], now), time)
          = IF time - now < Window THEN Count(failures[k], time) + 1 ELSE Count(failures[k], time)
    BY <1>2, CountOfMore
  <2>3. Count(Append(attempts[k], now), time)
          = IF time - now < Window THEN Count(attempts[k], time) + 1 ELSE Count(attempts[k], time)
    BY <1>2, CountOfMore
  <2>4. Count(failures[k], time) \in Nat /\ Count(attempts[k], time) \in Nat
    BY <1>2, CountIsANumber
  <2> QED BY <1>5, <2>1, <2>2, <2>3, <2>4
<1>8. ListFacts(k)'
  <2>1. ListFacts(k)
    BY <1>1, <1>2 DEF ListInv
  <2>2. Len(failures'[k]) = Len(failures[k]) + 1 /\ Len(failures[k]) \in Nat
    BY <1>2, <1>5
  <2>3. Count(failures'[k], now) = Len(failures'[k])
    BY <1>2, <1>7, <2>1, <2>2, AccountsAssumption DEF ListFacts
  <2>4. ASSUME NEW time \in Nat, time >= now
        PROVE  /\ Count(attempts'[k], time) <= Count(failures'[k], time)
               /\ Count(failures'[k], time) <= Count(attempts'[k], time) + lost'[k]
    <3>1. /\ Count(attempts[k], time) <= Count(failures[k], time)
          /\ Count(failures[k], time) <= Count(attempts[k], time) + lost[k]
      BY <2>1, <2>4 DEF ListFacts
    <3>2. /\ Count(failures[k], time) \in Nat /\ Count(attempts[k], time) \in Nat
          /\ Count(failures'[k], time) = IF time < now + Window THEN Count(failures[k], time) + 1
                                         ELSE Count(failures[k], time)
      BY <1>7, <2>4
    <3>3. CASE kept
      <4>1. /\ lost'[k] = lost[k]
            /\ Count(attempts'[k], time) = IF time < now + Window THEN Count(attempts[k], time) + 1
                                           ELSE Count(attempts[k], time)
        BY <1>5, <1>7, <2>4, <3>3
      <4> QED BY <1>2, <3>1, <3>2, <4>1
    <3>4. CASE ~ kept
      <4>1. lost'[k] = lost[k] + 1 /\ Count(attempts'[k], time) = Count(attempts[k], time)
        BY <1>5, <1>7, <2>4, <3>4
      <4> QED BY <1>2, <3>1, <3>2, <4>1
    <3> QED BY <3>3, <3>4
  <2>5. ASSUME NEW time \in Nat, time >= now + Window PROVE Count(failures'[k], time) = 0
    <3>1. Count(failures[k], time) = 0 /\ time >= now /\ ~ (time < now + Window)
      BY <1>2, <2>1, <2>5, AccountsAssumption DEF ListFacts
    <3> QED BY <1>7, <3>1
  <2>6. Cardinality(MayFail(k)') = Cardinality(MayFail(k)) - 1
        /\ Cardinality(MayFail(k)) \in Nat /\ Cardinality(Requests) \in Nat
    <3>1. MayFail(k)' = MayFail(k) \ {r}
      <4>1. ~ (r \in MayFail(k)')
        BY <1>4 DEF MayFail, NoRequest
      <4> QED BY <1>4, <4>1 DEF MayFail
    <3>2. Cardinality(MayFail(k) \ {r}) = Cardinality(MayFail(k)) - 1
      BY <1>2, MayFailIsFinite, FS_RemoveElement
    <3> QED BY <3>1, <3>2, MayFailIsFinite
  <2>7. Len(failures[k]) + Cardinality(MayFail(k))
          <= MaxAttempts - 1 + Cardinality(Requests) + lost[k]
    BY <2>1 DEF ListFacts
  <2>8. lost'[k] >= lost[k] /\ lost'[k] \in Nat
    BY <1>2, <1>5
  <2>9. Len(failures'[k]) + Cardinality(MayFail(k)')
          <= MaxAttempts - 1 + Cardinality(Requests) + lost'[k]
    BY <1>2, <2>2, <2>6, <2>7, <2>8, AccountsAssumption
  <2> QED BY <1>3, <2>3, <2>4, <2>5, <2>9 DEF ListFacts, Count
<1>9. ASSUME NEW i \in Keys, i # k PROVE ListFacts(i)'
  <2>1. ListFacts(i)
    BY <1>1 DEF ListInv
  <2>2. MayFail(i)' = MayFail(i)
    <3>1. ~ (r \in MayFail(i)') /\ r \notin MayFail(i)
      BY <1>4, <1>9, <1>k DEF MayFail, NoRequest
    <3> QED BY <1>4, <3>1 DEF MayFail
  <2>3. attempts'[i] = attempts[i] /\ lost'[i] = lost[i] /\ failures'[i] = failures[i]
    BY <1>5, <1>9
  <2> QED BY <1>3, <2>1, <2>2, <2>3 DEF ListFacts, Count
<1>10. ASSUME NEW q \in Requests, requests'[q].at = "replace"
       PROVE  SeenFacts(requests[q].key, requests[q].seen)'
  <2>p. PICK j, other : j = requests[q].key /\ other = requests[q].seen
    OBVIOUS
  <2>1. requests'[q] = requests[q] /\ requests[q].at = "replace"
    BY <1>4, <1>10 DEF NoRequest
  <2>2. j \in Keys /\ other \in Seq(Nat)
    <3>1. requests[q] \in [at : Places, gate : Gates, key : Keys, seen : Seq(Nat)]
      BY <1>1 DEF AccountsTypeOK
    <3> QED BY <2>p, <3>1
  <2>3. /\ Count(other, now) = Len(other)
        /\ \A time \in Nat : time >= now => Count(other, time) <= Count(failures[j], time)
        /\ \A time \in Nat : now <= time /\ time < now + Window =>
             Count(attempts[j], time) + Len(other) = Count(attempts[j], now) + Count(other, time)
    BY <1>1, <2>1, <2>p DEF SeenInv, SeenFacts
  <2>4. CASE j # k
    <3>1. attempts'[j] = attempts[j] /\ failures'[j] = failures[j]
      BY <1>5, <2>2, <2>4
    <3>2. SeenFacts(j, other)'
      BY <1>3, <2>3, <3>1 DEF SeenFacts, Count
    <3> QED BY <2>1, <2>p, <3>2
  <2>5. CASE j = k
    <3>1. \A time : Count(other, time) \in Nat /\ Len(other) \in Nat
      BY <2>2, CountIsANumber
    <3>2. ASSUME NEW time \in Nat, time >= now PROVE Count(other, time) <= Count(failures'[k], time)
      BY <1>7, <2>3, <2>5, <3>1, <3>2
    <3>3. ASSUME NEW time \in Nat, now <= time, time < now + Window
          PROVE  Count(attempts'[k], time) + Len(other) = Count(attempts'[k], now) + Count(other, time)
      <4>1. Count(attempts[k], time) + Len(other) = Count(attempts[k], now) + Count(other, time)
        BY <2>3, <2>5, <3>3
      <4>2. CASE kept
        <5>1. Count(attempts'[k], time) = Count(attempts[k], time) + 1
              /\ Count(attempts[k], time) \in Nat
          BY <1>7, <3>3, <4>2
        <5>2. Count(attempts'[k], now) = Count(attempts[k], now) + 1
              /\ Count(attempts[k], now) \in Nat
          BY <1>2, <1>7, <4>2, AccountsAssumption
        <5> QED BY <3>1, <4>1, <5>1, <5>2
      <4>3. CASE ~ kept
        BY <1>5, <4>1, <4>3
      <4> QED BY <4>2, <4>3
    <3>4. SeenFacts(k, other)'
      BY <1>3, <2>3, <3>2, <3>3 DEF SeenFacts, Count
    <3> QED BY <2>1, <2>5, <2>p, <3>4
  <2> QED BY <2>4, <2>5
<1>11. ListInv'
  BY <1>8, <1>9 DEF ListInv
<1>12. SeenInv'
  BY <1>10 DEF SeenInv
<1> QED BY <1>6, <1>11, <1>12 DEF GateInv

\* Time goes on: failures leave the window, those in lists with them.
LEMMA TickKeeps ==
  ASSUME GateInv, Tick
  PROVE  GateInv'
<1>1. AccountsTypeOK /\ ListInv
  BY DEF GateInv
<1>2. /\ now \in Nat /\ now' = now + 1 /\ now' \in 0..MaxTime
      /\ failures' = [k \in Keys |-> Recent(failures[k], now + 1)]
      /\ UNCHANGED <<customers, sessions, attempts, requests, lost>>
  BY <1>1, AccountsAssumption DEF AccountsTypeOK, Tick
<1>3. AccountsTypeOK'
  <2>1. failures' \in [Keys -> Seq(Nat)]
    BY <1>1, <1>2, RecentIsAList DEF AccountsTypeOK
  <2> QED BY <1>1, <1>2, <2>1 DEF AccountsTypeOK
<1>4. ASSUME NEW k \in Keys PROVE ListFacts(k)'
  <2>1. failures[k] \in Seq(Nat) /\ lost[k] \in Nat /\ failures'[k] = Recent(failures[k], now + 1)
    BY <1>1, <1>2 DEF AccountsTypeOK
  <2>2. ListFacts(k)
    BY <1>1 DEF ListInv
  <2>3. ASSUME NEW time \in Nat, time >= now + 1
        PROVE  Count(failures'[k], time) = Count(failures[k], time)
    BY <1>2, <2>1, <2>3, RecentOfRecent DEF Count
  <2>4. Len(failures'[k]) = Count(failures[k], now + 1)
    BY <2>1 DEF Count
  <2>5. Count(failures[k], now + 1) <= Count(failures[k], now)
        /\ Count(failures[k], now + 1) \in Nat
    BY <1>2, <2>1, CountFalls, CountIsANumber
  <2>6. Count(failures'[k], now + 1) = Len(failures'[k])
    BY <1>2, <2>3, <2>4
  <2>7. ASSUME NEW time \in Nat, time >= now + 1
        PROVE  /\ Count(attempts[k], time) <= Count(failures'[k], time)
               /\ Count(failures'[k], time) <= Count(attempts[k], time) + lost[k]
    <3>1. time >= now
      BY <1>2, <2>7
    <3> QED BY <2>2, <2>3, <2>7, <3>1 DEF ListFacts
  <2>8. ASSUME NEW time \in Nat, time >= (now + 1) + Window PROVE Count(failures'[k], time) = 0
    <3>1. time >= now + Window /\ time >= now + 1
      BY <1>2, <2>8, AccountsAssumption
    <3> QED BY <2>2, <2>3, <3>1 DEF ListFacts
  <2>9. MayFail(k)' = MayFail(k)
    BY <1>2 DEF MayFail
  <2>10. Len(failures'[k]) + Cardinality(MayFail(k))
           <= MaxAttempts - 1 + Cardinality(Requests) + lost[k]
    <3>1. Count(failures[k], now) + Cardinality(MayFail(k))
            <= MaxAttempts - 1 + Cardinality(Requests) + lost[k]
      BY <2>2 DEF ListFacts
    <3>2. Count(failures[k], now) \in Nat /\ Cardinality(MayFail(k)) \in Nat
          /\ Cardinality(Requests) \in Nat
      BY <2>1, CountIsANumber, MayFailIsFinite
    <3> QED BY <2>1, <2>4, <2>5, <3>1, <3>2, AccountsAssumption
  <2> QED BY <1>2, <2>6, <2>7, <2>8, <2>9, <2>10 DEF ListFacts, Count
<1>5. ListInv'
  BY <1>4 DEF ListInv
<1>6. SeenInv'
  BY <1>2 DEF SeenInv, Tick
<1> QED BY <1>3, <1>5, <1>6 DEF GateInv

\* Nothing has been tried: the state of a process that starts.
GateStarts ==
    /\ now \in 0..MaxTime /\ customers \subseteq Customers /\ sessions = {}
    /\ attempts = NoAttempts /\ failures = NoAttempts /\ lost = NoLosses
    /\ requests = NoRequests

LEMMA StartHolds == GateStarts => GateInv
<1> SUFFICES ASSUME GateStarts PROVE GateInv
  OBVIOUS
<1> USE DEF GateStarts
<1>1. AccountsTypeOK
  <2>1. NoRequest \in [at : Places, gate : Gates, key : Keys, seen : Seq(Nat)]
    BY AccountsAssumption DEF NoRequest, Places, Gates
  <2>2. NoAttempts \in [Keys -> Seq(Nat)] /\ NoLosses \in [Keys -> Nat]
    BY DEF NoAttempts, NoLosses
  <2> QED BY <2>1, <2>2 DEF AccountsTypeOK, NoRequests
<1>2. ASSUME NEW k \in Keys PROVE ListFacts(k)
  <2>1. attempts[k] = <<>> /\ failures[k] = <<>> /\ lost[k] = 0
    BY DEF NoAttempts, NoLosses
  <2>2. \A time : Count(<<>>, time) = 0
    BY RecentOfNone DEF Count
  <2>3. MayFail(k) = {}
    BY DEF MayFail, NoRequests, NoRequest
  <2>4. Cardinality(MayFail(k)) = 0
    BY <2>3, FS_EmptySet
  <2>5. Cardinality(Requests) \in Nat
    BY MayFailIsFinite
  <2> QED BY <2>1, <2>2, <2>4, <2>5, AccountsAssumption DEF ListFacts
<1>3. SeenInv
  BY DEF SeenInv, NoRequests, NoRequest
<1> QED BY <1>1, <1>2, <1>3 DEF GateInv, ListInv

LEMMA RestartHolds == GateStarts' => GateInv'
BY StartHolds, PTL

(***************************************************************************)
(* What the two gates promise.                                             *)
(***************************************************************************)
LEMMA GateInvGives ==
  ASSUME GateInv
  PROVE  RefusalIsJustified /\ FailuresAreLimited
<1>1. AccountsTypeOK /\ ListInv /\ SeenInv
  BY DEF GateInv
<1>2. ASSUME NEW r \in Requests, requests[r].at = "replace", Refuses(requests[r].seen)
      PROVE  Len(failures[requests[r].key]) >= MaxAttempts
  <2>p. PICK k, seen : k = requests[r].key /\ seen = requests[r].seen
    OBVIOUS
  <2>1. k \in Keys /\ seen \in Seq(Nat) /\ failures[k] \in Seq(Nat) /\ now \in Nat
    <3>1. requests[r] \in [at : Places, gate : Gates, key : Keys, seen : Seq(Nat)]
      BY <1>1 DEF AccountsTypeOK
    <3> QED BY <1>1, <2>p, <3>1, AccountsAssumption DEF AccountsTypeOK
  <2>2. SeenFacts(k, seen) /\ ListFacts(k)
    BY <1>1, <1>2, <2>1, <2>p DEF SeenInv, ListInv
  <2>3. /\ Count(seen, now) = Len(seen) /\ Count(failures[k], now) = Len(failures[k])
        /\ Count(seen, now) <= Count(failures[k], now)
    BY <2>1, <2>2 DEF SeenFacts, ListFacts
  <2>4. Len(seen) >= MaxAttempts
    BY <1>2, <2>p DEF Refuses
  <2> QED BY <2>1, <2>3, <2>4, <2>p, AccountsAssumption
<1>3. ASSUME NEW k \in Keys
      PROVE  Len(failures[k]) =< MaxAttempts - 1 + Cardinality(Requests) + lost[k]
  <2>1. Len(failures[k]) + Cardinality(MayFail(k))
          <= MaxAttempts - 1 + Cardinality(Requests) + lost[k]
    BY <1>1 DEF ListInv, ListFacts
  <2>2. failures[k] \in Seq(Nat) /\ lost[k] \in Nat
    BY <1>1 DEF AccountsTypeOK
  <2> QED BY <2>1, <2>2, MayFailIsFinite, AccountsAssumption
<1> QED BY <1>2, <1>3 DEF RefusalIsJustified, FailuresAreLimited

(***************************************************************************)
(* What is kept.  Records in memory belong to accounts that are there; in  *)
(* the file, and in every version that a thread may rename to it, an owner *)
(* is one of its customers, or LEGACY, whose account need not be in it, or *)
(* missing where Loaded puts LEGACY in.  As long as no save of a thread    *)
(* and of the loop overlap, a thread renames nothing that is older than    *)
(* what was acknowledged.                                                  *)
(***************************************************************************)
OwnersInv ==
    /\ Legacy \in customers
    /\ \A i \in DOMAIN records : records[i].owner \in customers

SavedFacts(data) ==
    /\ Len(data.records) <= MaxRecords
    /\ \A i \in DOMAIN data.records :
         \/ data.records[i].owner \in data.customers \cup {Legacy}
         \/ data.records[i].owner = None /\ data.records[i].kind \in {"product", "history"}

FileInv == SavedFacts(file) /\ \A data \in thread.versions : SavedFacts(data)

KeptInv ==
    /\ \A key \in acknowledged : key \in customers \cup DOMAIN records
    /\ thread.clashed => spoilt
    /\ ~spoilt => \A key \in acknowledged : KeptIn(file, key)
    /\ thread.saving /\ ~thread.clashed =>
         \A data \in thread.versions : \A key \in acknowledged : KeptIn(data, key)

TenantsInv == GateInv /\ TypeOK /\ OwnersInv /\ FileInv /\ KeptInv

LEMMA OwnedStays ==
  ASSUME NEW x, x.owner \in Customers
  PROVE  WithOwner(x) = x
BY TenantsAssumption DEF WithOwner

\* A save() leaves in the file, and with a thread, what was there, what is
\* saved, or nothing.
LEMMA StoreMoves ==
  ASSUME StoreTypeOK, NEW new \in SavedData, spoilt' \in BOOLEAN, FileInv, SavedFacts(new),
         Store!LoopSaves(new) \/ Store!LoopSaveRaises(new) \/ Store!ThreadSaves(new)
  PROVE  StoreTypeOK' /\ FileInv'
<1> DEFINE nothing == Snapshot({}, <<>>)
           known == {file, nothing, new} \cup thread.versions
           clashed == [saving |-> TRUE, clashed |-> TRUE,
                       versions |-> thread.versions \cup {new}, count |-> thread.count + 1]
           begun == [saving |-> TRUE, clashed |-> FALSE,
                     versions |-> {new}, count |-> thread.count + 1]
           ended == [saving |-> FALSE, clashed |-> FALSE,
                     versions |-> {}, count |-> thread.count]
           type == [saving : BOOLEAN, clashed : BOOLEAN,
                    versions : SUBSET SavedData, count : 0..MaxThreadSaves]
<1>1. /\ thread \in type /\ thread.count \in 0..MaxThreadSaves
      /\ thread.versions \subseteq SavedData /\ (~thread.saving => thread = ended)
  BY DEF StoreTypeOK, Store!ThreadTypeOK, Store!NoThread
<1>2. nothing \in SavedData /\ SavedFacts(nothing)
  <2>1. nothing.records = <<>> /\ nothing.customers = {}
    BY DEF Snapshot
  <2>2. nothing \in SavedData
    BY DEF Snapshot, SavedData
  <2>3. Len(nothing.records) = 0 /\ DOMAIN nothing.records = {}
    BY <2>1
  <2> QED BY <2>2, <2>3, TenantsAssumption DEF SavedFacts
<1>3. \A data \in known : data \in SavedData /\ SavedFacts(data)
  <2> HIDE DEF nothing
  <2> QED BY <1>1, <1>2 DEF FileInv, StoreTypeOK
<1>4. \/ thread' = thread \/ thread' = ended
      \/ thread.count < MaxThreadSaves /\ thread' \in {clashed, begun}
  BY DEF Store!LoopSaves, Store!LoopSaveRaises, Store!Clash, Store!ThreadSaves,
     Store!ThreadSerializes, Store!ThreadReplaces, Store!ThreadRaises, Store!ThreadSpoils,
     Store!ThreadEnds, Store!NoThread
<1>5. file' \in known
  <2> HIDE DEF nothing
  <2>1. Snapshot({}, <<>>) = nothing
    BY DEF nothing
  <2> QED BY <2>1 DEF Store!LoopSaves, Store!LoopSaveRaises, Store!ThreadSaves,
     Store!ThreadSerializes, Store!ThreadReplaces, Store!ThreadRaises, Store!ThreadSpoils
<1> HIDE DEF nothing
<1>6. thread'.versions \subseteq known
  BY <1>4
<1>7. FileInv'
  BY <1>3, <1>5, <1>6 DEF FileInv
<1>8. Store!ThreadTypeOK(SavedData)'
  <2>1. ended \in type
    BY <1>1
  <2>2. ASSUME thread.count < MaxThreadSaves PROVE clashed \in type /\ begun \in type
    <3>1. thread.count + 1 \in 0..MaxThreadSaves
      BY <1>1, <2>2, TenantsAssumption
    <3>2. thread.versions \cup {new} \in SUBSET SavedData /\ {new} \in SUBSET SavedData
      BY <1>1
    <3> QED BY <3>1, <3>2
  <2>3. CASE thread' = thread
    BY <1>1, <2>3 DEF Store!ThreadTypeOK, Store!NoThread
  <2>4. CASE thread' = ended
    BY <2>1, <2>4 DEF Store!ThreadTypeOK, Store!NoThread
  <2>5. CASE thread.count < MaxThreadSaves /\ thread' \in {clashed, begun}
    <3>1. thread' \in type
      BY <2>2, <2>5
    <3>2. thread'.saving
      BY <2>5
    <3> QED BY <3>1, <3>2 DEF Store!ThreadTypeOK
  <2> QED BY <1>4, <2>3, <2>4, <2>5
<1> QED BY <1>3, <1>5, <1>7, <1>8 DEF StoreTypeOK

\* What is saved is what is in memory: it can be loaded, and keeps everything.
LEMMA SnapshotKeeps ==
  ASSUME NEW who, who \subseteq Customers, NEW what \in Seq(Stored), Len(what) <= MaxRecords,
         \A i \in DOMAIN what : what[i].owner \in who,
         NEW new, new = Snapshot(who, what)
  PROVE  /\ new \in SavedData /\ SavedFacts(new)
         /\ new.customers = who /\ new.records = what
         /\ \A i \in DOMAIN what : WithOwner(what[i]) = what[i] /\ i \notin Customers
<1>1. new.customers = who /\ new.records = what /\ new \in SavedData
  BY DEF Snapshot, SavedData
<1>2. ASSUME NEW i \in DOMAIN what PROVE WithOwner(what[i]) = what[i]
  <2>1. what[i].owner \in Customers
    BY <1>2
  <2> QED BY <2>1, OwnedStays
<1>3. ASSUME NEW i \in DOMAIN what PROVE i \notin Customers
  <2>1. i \in 1..MaxRecords
    BY TenantsAssumption
  <2> QED BY <2>1, TenantsAssumption
<1> QED BY <1>1, <1>2, <1>3 DEF SavedFacts

\* save() at the end of a handler.  If it returns without an overlap, the file
\* is what is in memory; if it raises without one, the file and what a thread
\* has serialised keep what they had, and nothing that was answered with
\* success has changed in memory.
LEMMA SaveKeeps ==
  ASSUME TenantsInv, customers \subseteq customers', customers' \subseteq Customers,
         records' \in Seq(Stored), Len(records') <= MaxRecords, Len(records) <= Len(records'),
         OwnersInv',
         \/ /\ Saves
            /\ \A key \in acknowledged' :
                 key \in acknowledged \/ key \in customers' \cup DOMAIN records'
         \/ /\ SaveRaises
            /\ acknowledged' \subseteq acknowledged
            /\ \A i \in DOMAIN records : i \in acknowledged' => records'[i] = records[i]
  PROVE  StoreTypeOK' /\ FileInv' /\ KeptInv' /\ faults' \in 0..MaxFaults
<1>1. PICK new : new = Snapshot(customers', records')
  OBVIOUS
<1>2. /\ new \in SavedData /\ SavedFacts(new)
      /\ new.customers = customers' /\ new.records = records'
      /\ \A i \in DOMAIN records' : WithOwner(records'[i]) = records'[i] /\ i \notin Customers
  <2>1. \A i \in DOMAIN records' : records'[i].owner \in customers'
    BY DEF OwnersInv
  <2> QED BY <1>1, <2>1, SnapshotKeeps
<1>3. /\ Store!LoopSaves(new) \/ Store!LoopSaveRaises(new)
      /\ spoilt' \in BOOLEAN /\ faults' \in 0..MaxFaults /\ StoreTypeOK /\ FileInv /\ KeptInv
  <2>1. StoreTypeOK /\ FileInv /\ KeptInv /\ faults \in 0..MaxFaults /\ spoilt \in BOOLEAN
    BY DEF TenantsInv, TypeOK, StoreTypeOK
  <2>2. CASE Saves
    <3>1. thread'.clashed \in BOOLEAN
      <4>1. thread' = thread \/ thread'.clashed = TRUE
        BY <2>2 DEF Saves, Store!LoopSaves, Store!Clash
      <4>2. thread.clashed \in BOOLEAN
        BY <2>1 DEF StoreTypeOK, Store!ThreadTypeOK
      <4> QED BY <4>1, <4>2
    <3> QED BY <1>1, <2>1, <2>2, <3>1 DEF Saves
  <2>3. CASE SaveRaises
    <3>1. faults' \in 0..MaxFaults
      BY <2>1, <2>3, TenantsAssumption DEF SaveRaises, Fault
    <3> QED BY <1>1, <2>1, <2>3, <3>1 DEF SaveRaises
  <2> QED BY <2>1, <2>2, <2>3
<1>4. StoreTypeOK' /\ FileInv'
  BY <1>2, <1>3, StoreMoves
<1>5. DOMAIN records \subseteq DOMAIN records'
  BY DEF TenantsInv, TypeOK
<1>6. ASSUME NEW key \in acknowledged' PROVE key \in customers' \cup DOMAIN records'
  <2>1. key \in acknowledged => key \in customers \cup DOMAIN records
    BY <1>3 DEF KeptInv
  <2> QED BY <1>5, <1>6, <2>1
<1>7. CASE Saves
  <2>1. \/ thread' = thread /\ file' = new /\ ~thread.saving
        \/ thread'.clashed
    BY <1>1, <1>7 DEF Saves, Store!LoopSaves, Store!Clash
  <2>2. ASSUME ~spoilt', NEW key \in acknowledged' PROVE KeptIn(file, key)'
    <3>1. file' = new
      BY <1>7, <2>1, <2>2 DEF Saves
    <3>2. \/ key \in DOMAIN records'
          \/ key \in customers' /\ key \in Customers
      BY <1>6, <2>2
    <3> QED BY <1>2, <3>1, <3>2 DEF KeptIn, WithOwner
  <2>3. thread'.clashed => spoilt'
    BY <1>7 DEF Saves
  <2> QED BY <1>3, <1>4, <1>6, <2>1, <2>2, <2>3 DEF KeptInv
<1>8. CASE SaveRaises /\ acknowledged' \subseteq acknowledged
           /\ \A i \in DOMAIN records : i \in acknowledged' => records'[i] = records[i]
  <2>1. UNCHANGED <<file, thread>> \/ thread'.clashed
    BY <1>1, <1>8 DEF SaveRaises, Store!LoopSaveRaises, Store!Clash
  <2>2. ASSUME NEW data, NEW key \in acknowledged', KeptIn(data, key) PROVE KeptIn(data, key)'
    <3>1. key \in customers \cup DOMAIN records /\ customers \subseteq Customers
      BY <1>3, <1>8 DEF KeptInv
    <3> QED BY <1>8, <2>2, <3>1 DEF KeptIn, WithOwner
  <2>3. (thread'.clashed => spoilt') /\ (~spoilt' => ~spoilt)
    BY <1>8 DEF SaveRaises
  <2>4. ASSUME ~spoilt', NEW key \in acknowledged' PROVE KeptIn(file, key)'
    <3>1. file' = file /\ KeptIn(file, key)
      BY <1>3, <1>8, <2>1, <2>3, <2>4 DEF KeptInv
    <3>2. \A data : data = file => KeptIn(data, key)'
      BY <2>2, <3>1
    <3> QED BY <3>1, <3>2 DEF KeptIn, WithOwner
  <2>5. ASSUME thread'.saving, ~thread'.clashed, NEW data \in thread'.versions,
               NEW key \in acknowledged'
        PROVE  KeptIn(data, key)'
    BY <1>3, <1>8, <2>1, <2>2, <2>5 DEF KeptInv
  <2> QED BY <1>3, <1>4, <1>6, <2>3, <2>4, <2>5 DEF KeptInv
<1> QED BY <1>3, <1>4, <1>7, <1>8

LEMMA AnswerKeeps ==
  ASSUME TenantsInv, GateInv', customers \subseteq customers',
         records' \in Seq(Stored), Len(records') <= MaxRecords, Len(records) <= Len(records'),
         OwnersInv', NEW key,
         key \in customers' \/ (key \in 1..Len(records') /\ key \notin Customers),
         \A i \in DOMAIN records : i # key => records'[i] = records[i],
         Answer(key)
  PROVE  TenantsInv'
<1>1. customers' \subseteq Customers /\ AccountsTypeOK'
  <2>1. AccountsTypeOK'
    BY DEF GateInv
  <2> QED BY <2>1 DEF AccountsTypeOK
<1>2. acknowledged \subseteq Customers \cup 1..MaxRecords
  BY DEF TenantsInv, TypeOK
<1>3. key \in Customers \cup 1..MaxRecords /\ key \in customers' \cup DOMAIN records'
  <2>1. Len(records') \in Nat /\ MaxRecords \in Nat /\ DOMAIN records' = 1..Len(records')
    BY TenantsAssumption
  <2> QED BY <1>1, <2>1
<1>4. StoreTypeOK' /\ FileInv' /\ KeptInv' /\ faults' \in 0..MaxFaults
  <2>1. CASE Saves /\ acknowledged' = acknowledged \cup {key}
    BY <1>1, <1>3, <2>1, SaveKeeps
  <2>2. CASE SaveRaises /\ acknowledged' = acknowledged \ {key}
    BY <1>1, <2>2, SaveKeeps
  <2> QED BY <2>1, <2>2 DEF Answer
<1>5. acknowledged' \subseteq Customers \cup 1..MaxRecords
  BY <1>2, <1>3 DEF Answer
<1>6. TypeOK'
  BY <1>1, <1>4, <1>5 DEF TypeOK
<1> QED BY <1>4, <1>6 DEF TenantsInv

\* What the gates are about is left alone.
LEMMA GateStays ==
  ASSUME GateInv, UNCHANGED accountVars
  PROVE  GateInv'
<1>1. UNCHANGED <<now, customers, sessions, attempts, requests, failures, lost>>
  BY DEF accountVars
<1>2. AccountsTypeOK'
  BY <1>1 DEF GateInv, AccountsTypeOK
<1> QED BY <1>1, <1>2, ListsStay

LEMMA InsertKeeps ==
  ASSUME TenantsInv, NEW kind \in Kinds, NEW owner \in customers, Insert(kind, owner),
         UNCHANGED accountVars
  PROVE  /\ records' \in Seq(Stored) /\ Len(records') = Len(records) + 1
         /\ Len(records') <= MaxRecords /\ OwnersInv' /\ GateInv'
         /\ \A i \in DOMAIN records : records'[i] = records[i]
<1> DEFINE new == Record0(kind, owner)
<1>1. records \in Seq(Stored) /\ customers \subseteq Customers
  BY DEF TenantsInv, TypeOK, AccountsTypeOK
<1>2. new \in Stored /\ new.owner = owner
  BY <1>1 DEF Stored, Record0
<1>3. records' = Append(records, new) /\ Len(records) < MaxRecords /\ MaxRecords \in Nat
  BY TenantsAssumption DEF Insert
<1> HIDE DEF new
<1>4. /\ records' \in Seq(Stored) /\ Len(records') = Len(records) + 1 /\ Len(records) \in Nat
      /\ \A i \in DOMAIN records : records'[i] = records[i]
      /\ records'[Len(records) + 1] = new
      /\ DOMAIN records' = DOMAIN records \cup {Len(records) + 1}
  BY <1>1, <1>2, <1>3
<1>5. customers' = customers
  BY DEF accountVars
<1>6. OwnersInv'
  BY <1>2, <1>4, <1>5 DEF TenantsInv, OwnersInv
<1>7. GateInv'
  BY GateStays DEF TenantsInv
<1> QED BY <1>3, <1>4, <1>6, <1>7

LEMMA MarkKeeps ==
  ASSUME TenantsInv, NEW i \in DOMAIN records, NEW marked \in BOOLEAN, Mark(i, marked),
         customers' = customers
  PROVE  /\ records' \in Seq(Stored) /\ Len(records') = Len(records)
         /\ Len(records') <= MaxRecords /\ OwnersInv'
         /\ i \in 1..Len(records') /\ i \notin Customers
         /\ \A j \in DOMAIN records : j # i => records'[j] = records[j]
<1>1. records \in Seq(Stored) /\ Len(records) <= MaxRecords /\ MaxRecords \in Nat
  BY TenantsAssumption DEF TenantsInv, TypeOK
<1> DEFINE new == [records[i] EXCEPT !.marked = marked]
<1>2. records[i] \in Stored
  BY <1>1
<1>3. new \in Stored /\ new.owner = records[i].owner
  BY <1>2 DEF Stored
<1>4. records' = [records EXCEPT ![i] = new]
  BY DEF Mark
<1> HIDE DEF new
<1>5. /\ records' \in Seq(Stored) /\ Len(records') = Len(records)
      /\ DOMAIN records' = DOMAIN records /\ records'[i] = new
      /\ \A j \in DOMAIN records : j # i => records'[j] = records[j]
  BY <1>1, <1>3, <1>4
<1>6. OwnersInv'
  BY <1>3, <1>5 DEF TenantsInv, OwnersInv
<1>7. i \in 1..Len(records) /\ i \in 1..MaxRecords
  BY <1>1
<1> QED BY <1>1, <1>5, <1>6, <1>7, TenantsAssumption

LEMMA CreateKeeps ==
  ASSUME TenantsInv, NEW c \in Customers, NEW kind \in Kinds, Create(c, kind)
  PROVE  TenantsInv'
<1>1. /\ Insert(kind, c) /\ UNCHANGED accountVars /\ Answer(Len(records) + 1)
      /\ c \in customers
  BY DEF Create, ResolveSession
<1>2. /\ records' \in Seq(Stored) /\ Len(records') = Len(records) + 1
      /\ Len(records') <= MaxRecords /\ OwnersInv' /\ GateInv'
      /\ \A i \in DOMAIN records : records'[i] = records[i]
  BY <1>1, InsertKeeps
<1>3. Len(records) \in Nat /\ MaxRecords \in Nat
  BY TenantsAssumption DEF TenantsInv, TypeOK
<1>4. PICK key : key = Len(records) + 1
  OBVIOUS
<1>5. key \in 1..Len(records') /\ key \in 1..MaxRecords /\ key \notin Customers
  BY <1>2, <1>3, <1>4, TenantsAssumption
<1>6. customers' = customers /\ Len(records) <= Len(records') /\ Answer(key)
  BY <1>1, <1>2, <1>3, <1>4 DEF accountVars
<1> QED BY <1>2, <1>5, <1>6, AnswerKeeps

LEMMA GenerationEndsKeeps ==
  ASSUME TenantsInv, NEW i \in DOMAIN records, GenerationEnds(i)
  PROVE  TenantsInv'
<1>1. /\ Insert("history", records[i].owner) /\ UNCHANGED <<accountVars, acknowledged>>
      /\ Saves \/ SaveRaises
      /\ records[i].owner \in customers /\ "history" \in Kinds
  BY DEF GenerationEnds, TenantsInv, OwnersInv, Kinds
<1>2. /\ records' \in Seq(Stored) /\ Len(records') = Len(records) + 1
      /\ Len(records') <= MaxRecords /\ OwnersInv' /\ GateInv'
      /\ \A j \in DOMAIN records : records'[j] = records[j]
  BY <1>1, InsertKeeps
<1>3. Len(records) <= Len(records') /\ customers' = customers /\ acknowledged' = acknowledged
  BY <1>1, <1>2 DEF TenantsInv, TypeOK, accountVars
<1>4. AccountsTypeOK' /\ customers \subseteq Customers
      /\ acknowledged \subseteq Customers \cup 1..MaxRecords
  BY <1>2 DEF GateInv, TenantsInv, TypeOK, AccountsTypeOK
<1>5. StoreTypeOK' /\ FileInv' /\ KeptInv' /\ faults' \in 0..MaxFaults
  BY <1>1, <1>2, <1>3, <1>4, SaveKeeps
<1>6. TypeOK'
  BY <1>2, <1>3, <1>4, <1>5 DEF TypeOK
<1> QED BY <1>2, <1>5, <1>6 DEF TenantsInv

\* A step of the gates, a tick or the end of a session.
LEMMA NothingKept ==
  ASSUME TenantsInv, GateInv', customers' = customers,
         UNCHANGED <<records, store, acknowledged, faults>>
  PROVE  TenantsInv'
BY DEF TenantsInv, TypeOK, GateInv, OwnersInv, FileInv, KeptInv, KeptIn, WithOwner, store,
       StoreTypeOK, Store!ThreadTypeOK, Store!NoThread

\* The answer of a handler behind a gate.
LEMMA HandlerLeaves ==
  ASSUME GateInv, NEW r \in Requests, requests' = [requests EXCEPT ![r] = NoRequest],
         UNCHANGED <<now, sessions, attempts, failures, lost>>,
         customers \subseteq customers', customers' \subseteq Customers
  PROVE  GateInv'
<1>1. NoRequest \in [at : Places, gate : Gates, key : Keys, seen : Seq(Nat)]
      /\ NoRequest.at = "idle"
  BY AccountsAssumption DEF NoRequest, Places, Gates
<1>2. sessions' \subseteq customers'
  BY DEF GateInv, AccountsTypeOK
<1> QED BY <1>1, <1>2, GateMoves

LEMMA CreateCustomerKeeps ==
  ASSUME TenantsInv, NEW r \in Requests, CreateCustomer(r)
  PROVE  TenantsInv'
<1>1. /\ requests' = [requests EXCEPT ![r] = NoRequest]
      /\ UNCHANGED <<now, sessions, attempts, failures, lost, records>>
  BY DEF CreateCustomer
<1>2. PICK id \in Ids :
         \/ id \in customers /\ UNCHANGED <<customers, store, acknowledged, faults>>
         \/ Issue(id) /\ Answer(id)
  BY DEF CreateCustomer
<1>3. id \in Customers /\ customers \subseteq Customers /\ GateInv
  BY DEF Customers, TenantsInv, GateInv, AccountsTypeOK
<1>4. CASE UNCHANGED <<customers, store, acknowledged, faults>>
  <2>1. GateInv'
    BY <1>1, <1>3, <1>4, HandlerLeaves
  <2> QED BY <1>1, <1>4, <2>1, NothingKept
<1>5. CASE Issue(id) /\ Answer(id)
  <2>1. customers \subseteq customers' /\ customers' \subseteq Customers /\ id \in customers'
    BY <1>3, <1>5 DEF Issue
  <2>2. GateInv'
    BY <1>1, <1>3, <2>1, HandlerLeaves
  <2>3. /\ records' \in Seq(Stored) /\ Len(records') <= MaxRecords
        /\ Len(records) <= Len(records')
    BY <1>1 DEF TenantsInv, TypeOK
  <2>4. OwnersInv'
    BY <1>1, <2>1 DEF TenantsInv, OwnersInv
  <2> QED BY <1>1, <1>5, <2>1, <2>2, <2>3, <2>4, AnswerKeeps
<1> QED BY <1>2, <1>4, <1>5

LEMMA AnswerInquiryKeeps ==
  ASSUME TenantsInv, NEW r \in Requests, AnswerInquiry(r)
  PROVE  TenantsInv'
<1>1. /\ requests' = [requests EXCEPT ![r] = NoRequest]
      /\ UNCHANGED <<now, customers, sessions, attempts, failures, lost>>
  BY DEF AnswerInquiry
<1>2. GateInv'
  <2>1. GateInv /\ customers \subseteq Customers
    BY DEF TenantsInv, GateInv, AccountsTypeOK
  <2> QED BY <1>1, <2>1, HandlerLeaves
<1>3. CASE \E i \in DOMAIN records :
             records[i].kind = "inquiry" /\ Mark(i, TRUE) /\ Answer(i)
  <2>1. PICK i \in DOMAIN records : Mark(i, TRUE) /\ Answer(i)
    BY <1>3
  <2>2. /\ records' \in Seq(Stored) /\ Len(records') = Len(records)
        /\ Len(records') <= MaxRecords /\ OwnersInv'
        /\ i \in 1..Len(records') /\ i \notin Customers
        /\ \A j \in DOMAIN records : j # i => records'[j] = records[j]
    BY <1>1, <2>1, MarkKeeps
  <2>3. Len(records) <= Len(records')
    BY <2>2
  <2> QED BY <1>1, <1>2, <2>1, <2>2, <2>3, AnswerKeeps
<1>4. CASE UNCHANGED <<records, store, acknowledged, faults>>
  BY <1>1, <1>2, <1>4, NothingKept
<1> QED BY <1>3, <1>4 DEF AnswerInquiry

LEMMA MarkedKeeps ==
  ASSUME TenantsInv, NEW c \in Customers, NEW i \in DOMAIN records,
         ToggleFavorite(c, i) \/ CreateComment(c, i)
  PROVE  TenantsInv'
<1>1. PICK marked \in BOOLEAN : Mark(i, marked) /\ UNCHANGED accountVars /\ Answer(i)
  <2>1. records[i] \in Stored
    BY DEF TenantsInv, TypeOK
  <2>2. (~ records[i].marked) \in BOOLEAN /\ TRUE \in BOOLEAN
    OBVIOUS
  <2> QED BY <2>2 DEF ToggleFavorite, CreateComment
<1>2. customers' = customers /\ GateInv'
  BY <1>1, GateStays DEF accountVars, TenantsInv
<1>3. /\ records' \in Seq(Stored) /\ Len(records') = Len(records)
      /\ Len(records') <= MaxRecords /\ OwnersInv'
      /\ i \in 1..Len(records') /\ i \notin Customers
      /\ \A j \in DOMAIN records : j # i => records'[j] = records[j]
  BY <1>1, <1>2, MarkKeeps
<1>4. Len(records) <= Len(records') /\ customers \subseteq customers'
  BY <1>2, <1>3
<1> QED BY <1>1, <1>2, <1>3, <1>4, AnswerKeeps

LEMMA ThreadSavesKeeps ==
  ASSUME TenantsInv, ThreadSaves
  PROVE  TenantsInv'
<1>1. PICK new : new = Snapshot(customers, records)
  OBVIOUS
<1>2. /\ Store!ThreadSaves(new) /\ spoilt' = (spoilt /\ (Store!ThreadReplaces => thread.clashed))
      /\ UNCHANGED <<accountVars, records, acknowledged, faults>> /\ customers' = customers
  BY <1>1 DEF ThreadSaves, accountVars
<1>3. GateInv' /\ AccountsTypeOK' /\ OwnersInv'
  <2>1. GateInv'
    BY <1>2, GateStays DEF TenantsInv
  <2> QED BY <1>2, <2>1 DEF TenantsInv, OwnersInv, GateInv
<1>4. /\ new \in SavedData /\ SavedFacts(new)
      /\ \A key \in customers \cup DOMAIN records : KeptIn(new, key)
  <2>1. /\ customers \subseteq Customers /\ records \in Seq(Stored) /\ Len(records) <= MaxRecords
        /\ \A i \in DOMAIN records : records[i].owner \in customers
    BY DEF TenantsInv, TypeOK, AccountsTypeOK, OwnersInv
  <2>2. /\ new \in SavedData /\ SavedFacts(new)
        /\ new.customers = customers /\ new.records = records
        /\ \A i \in DOMAIN records : WithOwner(records[i]) = records[i] /\ i \notin Customers
    BY <1>1, <2>1, SnapshotKeeps
  <2> QED BY <2>1, <2>2 DEF KeptIn
<1>5. /\ StoreTypeOK /\ FileInv /\ KeptInv /\ spoilt' \in BOOLEAN
      /\ (thread.clashed => thread.saving)
  BY <1>2 DEF TenantsInv, TypeOK, StoreTypeOK, Store!ThreadTypeOK, Store!NoThread
<1>6. StoreTypeOK' /\ FileInv'
  BY <1>2, <1>4, <1>5, StoreMoves
<1>7. \A data : \A key : KeptIn(data, key) => KeptIn(data, key)'
  BY <1>2 DEF KeptIn, WithOwner
<1>8. KeptInv'
  <2>1. thread'.clashed => (thread.clashed /\ spoilt')
    <3>1. ASSUME thread'.clashed PROVE thread' = thread /\ ~Store!ThreadReplaces
      <4>1. ~Store!ThreadEnds
        BY <3>1 DEF Store!ThreadEnds, Store!NoThread
      <4>2. ~Store!ThreadSerializes(new)
        BY <3>1 DEF Store!ThreadSerializes
      <4> QED BY <1>2, <4>1, <4>2 DEF Store!ThreadSaves, Store!ThreadReplaces,
            Store!ThreadRaises, Store!ThreadSpoils
    <3>2. thread.clashed => spoilt
      BY <1>5 DEF KeptInv
    <3> QED BY <1>2, <3>1, <3>2
  <2>2. ASSUME ~spoilt', NEW key \in acknowledged PROVE KeptIn(file, key)'
    <3>1. ~thread.clashed /\ (spoilt => Store!ThreadReplaces)
      BY <1>2, <1>5, <2>2 DEF KeptInv
    <3>2. \/ file' = file /\ ~spoilt
          \/ thread.saving /\ file' \in thread.versions
      BY <1>2, <3>1 DEF Store!ThreadSaves, Store!ThreadSerializes, Store!ThreadReplaces,
         Store!ThreadRaises, Store!ThreadSpoils
    <3>3. \A data : data = file' => KeptIn(data, key)
      BY <1>5, <3>1, <3>2 DEF KeptInv
    <3>4. \A data : data = file' => KeptIn(data, key)'
      BY <1>7, <3>3
    <3> QED BY <3>4 DEF KeptIn, WithOwner
  <2>3. ASSUME thread'.saving, ~thread'.clashed, NEW data \in thread'.versions,
               NEW key \in acknowledged
        PROVE  KeptIn(data, key)'
    <3>1. \/ data = new
          \/ thread.saving /\ ~thread.clashed /\ data \in thread.versions
      BY <1>2, <2>3 DEF Store!ThreadSaves, Store!ThreadSerializes, Store!ThreadReplaces,
         Store!ThreadRaises, Store!ThreadSpoils, Store!ThreadEnds, Store!NoThread
    <3>2. KeptIn(data, key)
      BY <1>4, <1>5, <3>1 DEF KeptInv
    <3> QED BY <1>7, <3>2
  <2> QED BY <1>2, <1>5, <2>1, <2>2, <2>3 DEF KeptInv
<1>9. TypeOK'
  BY <1>2, <1>3, <1>6 DEF TenantsInv, TypeOK
<1> QED BY <1>3, <1>6, <1>8, <1>9 DEF TenantsInv

\* What is loaded belongs to a customer of the file or to LEGACY.
LEMMA LoadedIsOwned ==
  ASSUME file \in SavedData, SavedFacts(file)
  PROVE  /\ Loaded \in Seq(Stored) /\ Len(Loaded) = Len(file.records)
         /\ DOMAIN Loaded = DOMAIN file.records
         /\ \A i \in DOMAIN Loaded : /\ Loaded[i] = WithOwner(file.records[i])
                                     /\ Loaded[i].owner \in file.customers \cup {Legacy}
<1>1. file.records \in Seq(Stored) /\ file.customers \subseteq Customers /\ Legacy \in Customers
  BY DEF Customers, SavedData
<1>2. ASSUME NEW i \in DOMAIN file.records
      PROVE  /\ WithOwner(file.records[i]) \in Stored
             /\ WithOwner(file.records[i]).owner \in file.customers \cup {Legacy}
  <2>1. file.records[i] \in Stored
    BY <1>1
  <2>2. \/ file.records[i].owner \in file.customers \cup {Legacy}
        \/ file.records[i].owner = None /\ file.records[i].kind \in {"product", "history"}
    BY DEF SavedFacts
  <2> QED BY <1>1, <2>1, <2>2 DEF WithOwner, Stored
<1>3. Loaded = [i \in 1..Len(file.records) |-> WithOwner(file.records[i])]
      /\ DOMAIN file.records = 1..Len(file.records) /\ Len(file.records) \in Nat
  BY <1>1 DEF Loaded
<1>4. Loaded \in Seq(Stored) /\ Len(Loaded) = Len(file.records)
  BY <1>2, <1>3
<1> QED BY <1>2, <1>3, <1>4

LEMMA RestartKeeps ==
  ASSUME TenantsInv, Restart
  PROVE  TenantsInv'
<1>1. /\ Fault /\ customers' = file.customers \cup {Legacy} /\ records' = Loaded
      /\ sessions' = {} /\ attempts' = NoAttempts /\ failures' = NoAttempts /\ lost' = NoLosses
      /\ requests' = NoRequests /\ UNCHANGED <<now, file>> /\ spoilt' = FALSE
      /\ thread' = Store!NoThread(thread.count)
      /\ acknowledged' = IF spoilt THEN {} ELSE acknowledged
  BY DEF Restart, AccountsAfter, Store!ThreadEnds
<1>2. /\ file \in SavedData /\ SavedFacts(file) /\ StoreTypeOK
      /\ acknowledged \subseteq Customers \cup 1..MaxRecords /\ faults \in 0..MaxFaults
      /\ now \in 0..MaxTime /\ KeptInv
  BY DEF TenantsInv, TypeOK, AccountsTypeOK, FileInv, StoreTypeOK
<1>3. /\ Loaded \in Seq(Stored) /\ Len(Loaded) = Len(file.records)
      /\ DOMAIN Loaded = DOMAIN file.records
      /\ \A i \in DOMAIN Loaded : /\ Loaded[i] = WithOwner(file.records[i])
                                  /\ Loaded[i].owner \in file.customers \cup {Legacy}
  BY <1>2, LoadedIsOwned
<1>4. customers' \subseteq Customers
  BY <1>1, <1>2 DEF Customers, SavedData
<1>5. GateInv'
  <2>1. now' \in 0..MaxTime
    BY <1>1, <1>2
  <2> QED BY <1>1, <1>4, <2>1, RestartHolds DEF GateStarts
<1>6. OwnersInv'
  BY <1>1, <1>3 DEF OwnersInv
<1>7. FileInv' /\ KeptInv'
  <2>1. FileInv'
    BY <1>1, <1>2 DEF FileInv, SavedFacts, Store!NoThread
  <2>2. ASSUME ~spoilt, NEW key \in acknowledged
        PROVE  key \in customers' \cup DOMAIN records' /\ KeptIn(file, key)'
    <3>1. KeptIn(file, key)
      BY <1>2, <2>2 DEF KeptInv
    <3> QED BY <1>1, <1>3, <3>1 DEF KeptIn, WithOwner
  <2> QED BY <1>1, <2>1, <2>2 DEF KeptInv, Store!NoThread
<1>8. TypeOK'
  <2>1. faults' \in 0..MaxFaults
    BY <1>1, <1>2, TenantsAssumption DEF Fault
  <2>2. AccountsTypeOK'
    BY <1>5 DEF GateInv
  <2>3. Len(records') <= MaxRecords
    BY <1>1, <1>2, <1>3 DEF SavedFacts
  <2>4. StoreTypeOK'
    BY <1>1, <1>2 DEF StoreTypeOK, Store!ThreadTypeOK, Store!NoThread
  <2> QED BY <1>1, <1>2, <1>3, <2>1, <2>2, <2>3, <2>4 DEF TypeOK
<1> QED BY <1>5, <1>6, <1>7, <1>8 DEF TenantsInv

LEMMA TenantsStart ==
  ASSUME Init
  PROVE  TenantsInv
<1>1. /\ now = 0 /\ customers = {Legacy} /\ sessions = {}
      /\ attempts = NoAttempts /\ failures = NoAttempts /\ lost = NoLosses
      /\ requests = NoRequests /\ file = Snapshot({}, OldRecords)
      /\ records = Loaded /\ acknowledged = {} /\ faults = 0
      /\ thread = Store!NoThread(0) /\ spoilt = FALSE
  BY DEF Init
<1>2. GateInv
  BY <1>1, StartHolds, AccountsAssumption DEF Customers, GateStarts
<1>3. file.customers = {} /\ file.records = OldRecords
  BY <1>1 DEF Snapshot
<1>4. OldRecords \in Seq(Stored)
  <2>1. [kind : {"product", "history"}, owner : {None}, marked : BOOLEAN] \subseteq Stored
    BY DEF Stored, Kinds
  <2> DEFINE Old == [kind : {"product", "history"}, owner : {None}, marked : BOOLEAN]
  <2>2. OldRecords \in Seq(Old)
    BY TenantsAssumption
  <2>3. Old \subseteq Stored
    BY <2>1
  <2> HIDE DEF Old
  <2>4. \A i \in 1..Len(OldRecords) : OldRecords[i] \in Stored
    BY <2>2, <2>3
  <2> QED BY <2>2, <2>4
<1>5. file \in SavedData /\ StoreTypeOK
  <2>1. file \in SavedData
    BY <1>1, <1>4 DEF Snapshot, SavedData
  <2> DEFINE ended == [saving |-> FALSE, clashed |-> FALSE, versions |-> {}, count |-> 0]
  <2>2. thread = ended
    BY <1>1 DEF Store!NoThread
  <2>3. ended \in [saving : BOOLEAN, clashed : BOOLEAN,
                   versions : SUBSET SavedData, count : 0..MaxThreadSaves]
    <3>1. 0 \in 0..MaxThreadSaves /\ {} \in SUBSET SavedData
      BY TenantsAssumption
    <3> QED BY <3>1
  <2>4. Store!ThreadTypeOK(SavedData)
    BY <2>2, <2>3 DEF Store!ThreadTypeOK, Store!NoThread
  <2> QED BY <1>1, <2>1, <2>4 DEF StoreTypeOK
<1>6. SavedFacts(file) /\ FileInv
  <2>1. ASSUME NEW i \in DOMAIN OldRecords
        PROVE  OldRecords[i].owner = None /\ OldRecords[i].kind \in {"product", "history"}
    <3> DEFINE Old == [kind : {"product", "history"}, owner : {None}, marked : BOOLEAN]
    <3>1. OldRecords \in Seq(Old)
      BY TenantsAssumption
    <3>2. OldRecords[i] \in Old
      <4> HIDE DEF Old
      <4> QED BY <3>1
    <3> QED BY <3>2
  <2>2. Len(OldRecords) <= MaxRecords
    BY TenantsAssumption
  <2>3. SavedFacts(file)
    BY <1>3, <2>1, <2>2 DEF SavedFacts
  <2> QED BY <1>1, <2>3 DEF FileInv, Store!NoThread
<1>7. /\ Loaded \in Seq(Stored) /\ Len(Loaded) = Len(file.records)
      /\ \A i \in DOMAIN Loaded : Loaded[i].owner \in file.customers \cup {Legacy}
  BY <1>5, <1>6, LoadedIsOwned
<1>8. OwnersInv
  BY <1>1, <1>3, <1>7 DEF OwnersInv
<1>9. TypeOK
  <2>1. AccountsTypeOK
    BY <1>2 DEF GateInv
  <2>2. Len(records) <= MaxRecords
    BY <1>1, <1>3, <1>7, TenantsAssumption
  <2> QED BY <1>1, <1>5, <1>7, <2>1, <2>2, TenantsAssumption DEF TypeOK
<1>10. KeptInv
  BY <1>1 DEF KeptInv, Store!NoThread
<1> QED BY <1>2, <1>6, <1>8, <1>9, <1>10 DEF TenantsInv

LEMMA TenantsStep ==
  ASSUME TenantsInv, [Next]_vars
  PROVE  TenantsInv'
<1> USE DEF Kinds
<1>1. ASSUME NEW r \in Requests, AtTheGate(r) /\ UNCHANGED <<records, store, acknowledged, faults>>
      PROVE  TenantsInv'
  <2>1. GateInv
    BY DEF TenantsInv
  <2>2. GateInv'
    BY <1>1, <2>1, AskKeeps, ReplaceKeeps, RecordKeeps DEF AtTheGate
  <2>3. customers' = customers
    BY <1>1 DEF AtTheGate, Ask, AskAgain, Look, Replace, Wrong, Record, LoggedIn, Admitted
  <2> QED BY <1>1, <2>2, <2>3, NothingKept
<1>2. CASE Tick /\ UNCHANGED <<records, store, acknowledged, faults>>
  <2>1. GateInv' /\ customers' = customers
    BY <1>2, TickKeeps DEF TenantsInv, Tick
  <2> QED BY <1>2, <2>1, NothingKept
<1>3. ASSUME NEW c \in Customers, Logout(c) /\ UNCHANGED <<records, store, acknowledged, faults>>
      PROVE  TenantsInv'
  <2>1. UNCHANGED <<now, customers, attempts, requests, failures, lost>> /\ sessions' \subseteq sessions
    BY <1>3 DEF Logout
  <2>2. AccountsTypeOK'
    BY <2>1 DEF TenantsInv, GateInv, AccountsTypeOK
  <2>3. GateInv'
    BY <2>1, <2>2, ListsStay DEF TenantsInv
  <2> QED BY <1>3, <2>1, <2>3, NothingKept
<1>4. ASSUME NEW c \in Customers, CreateProduct(c) \/ CreatePost(c) \/ CreateInquiry(c)
      PROVE  TenantsInv'
  BY <1>4, CreateKeeps DEF CreateProduct, CreatePost, CreateInquiry
<1>5. CASE UNCHANGED vars
  <2>1. GateInv' /\ customers' = customers /\ UNCHANGED <<records, store, acknowledged, faults>>
    BY <1>5, GateStays DEF vars, TenantsInv, accountVars, store
  <2> QED BY <2>1, NothingKept
<1> QED BY <1>1, <1>2, <1>3, <1>4, <1>5, CreateCustomerKeeps, AnswerInquiryKeeps, MarkedKeeps,
           GenerationEndsKeeps, ThreadSavesKeeps, RestartKeeps DEF Next

LEMMA TenantsInvGives ==
  ASSUME TenantsInv
  PROVE  ReachableByOwner
<1>1. ASSUME NEW i \in DOMAIN records PROVE \E c \in customers : i \in Visible(c)
  <2>1. records[i] \in Stored /\ records[i].owner \in customers
    BY DEF TenantsInv, TypeOK, OwnersInv
  <2>2. records[i].kind \in Kinds
    BY <2>1 DEF Stored
  <2>3. i \in Visible(records[i].owner)
    BY <2>2 DEF Kinds, Visible, OwnHistory, OwnInquiries, OwnProducts, Posts
  <2> QED BY <2>1, <2>3
<1> QED BY <1>1 DEF ReachableByOwner

LEMMA TenantsInvariant == Spec => []TenantsInv
<1>1. Init => TenantsInv
  BY TenantsStart
<1>2. TenantsInv /\ [Next]_vars => TenantsInv'
  BY TenantsStep
<1> QED BY <1>1, <1>2, PTL DEF Spec

\* Customers, sessions, requests at the gates, records and the file keep their
\* types, for any customers, requests, limits and old data.
THEOREM TenantsTypeCorrect == Spec => []TypeOK
<1>1. TenantsInv => TypeOK
  BY DEF TenantsInv
<1> QED BY <1>1, TenantsInvariant, PTL

\* However many checks of is_rate_limited() and is_admin_rate_limited() overlap:
\* who is refused comes after MaxAttempts real failures within the window.
THEOREM RefusedWithCause == Spec => []RefusalIsJustified
<1>1. TenantsInv => RefusalIsJustified
  BY GateInvGives DEF TenantsInv
<1> QED BY <1>1, TenantsInvariant, PTL

\* However many requests pass a gate together: within a window, no more failures
\* than the limit, one for each request beyond it, and those a check has dropped.
THEOREM FailuresBounded == Spec => []FailuresAreLimited
<1>1. TenantsInv => FailuresAreLimited
  BY GateInvGives DEF TenantsInv
<1> QED BY <1>1, TenantsInvariant, PTL

\* Every record, also one from before there were accounts, has an account that
\* is shown it, after any failed saves and restarts.
THEOREM OwnersReachable == Spec => []ReachableByOwner
<1>1. TenantsInv => ReachableByOwner
  BY TenantsInvGives
<1> QED BY <1>1, TenantsInvariant, PTL

\* What a handler has answered with success is in memory, and in the file as it
\* is in memory, whichever later saves fail, whatever threads save meanwhile,
\* and however often the process restarts: but for a file that overlapping
\* saves have written last.
THEOREM AcknowledgedStays == Spec => []AcknowledgedIsKept
<1>1. TenantsInv => AcknowledgedIsKept
  BY DEF TenantsInv, KeptInv, AcknowledgedIsKept
<1> QED BY <1>1, TenantsInvariant, PTL

=============================================================================
