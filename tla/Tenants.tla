------------------------------ MODULE Tenants -------------------------------
(***************************************************************************)
(* What customers keep: products, entries of the history, posts of the      *)
(* community and inquiries (api/products.py, history.py, community.py,      *)
(* inquiries.py), each a few assignments on the event loop and a save() of  *)
(* everything, behind the sessions and gates of Accounts.  A thread of the  *)
(* shorts workflow may be in a save() of its own (SharedStore).  A restart  *)
(* reads the file, gives data from before there were accounts to LEGACY and *)
(* makes that account (store.py, main.py).                                  *)
(***************************************************************************)
EXTENDS Accounts

CONSTANTS
    OldRecords,     \* what the file holds at first: records without an owner
    MaxRecords,     \* bound on all records together
    MaxFaults,      \* bound on failed saves and restarts
    MaxThreadSaves, \* bound on the saves of threads, see SharedStore
    None

VARIABLES
    records,        \* PRODUCTS, HISTORY, COMMUNITY_POSTS, INQUIRIES
    file,           \* store.json
    thread,         \* the save() of a thread of the shorts workflow
    spoilt,         \* store.json was last written by saves that overlap
    acknowledged,   \* customers and numbers of records whose last change was
                    \* answered with success
    faults

store == <<file, thread, spoilt>>
vars == <<accountVars, records, store, acknowledged, faults>>

Kinds == {"product", "history", "post", "inquiry"}

\* A favourite, a post with comments, an inquiry with an answer
Record0(kind, owner) == [kind |-> kind, owner |-> owner, marked |-> FALSE]

\* Only products and the history are older than accounts.
ASSUME TenantsAssumption ==
    /\ MaxRecords \in Nat /\ MaxFaults \in Nat /\ MaxThreadSaves \in Nat
    /\ None \notin Customers /\ \A i \in 1..MaxRecords : i \notin Customers
    /\ OldRecords \in Seq([kind : {"product", "history"}, owner : {None}, marked : BOOLEAN])
    /\ Len(OldRecords) <= MaxRecords

Stored == [kind : Kinds, owner : Customers \cup {None}, marked : BOOLEAN]

-----------------------------------------------------------------------------

\* A mutated form: a collection is missing in the dictionary that is dumped
SnapshotWithoutInquiries(who, what) ==
    [customers |-> who, records |-> SelectSeq(what, LAMBDA x : x.kind # "inquiry")]
Snapshot(who, what) == [customers |-> who, records |-> what]

Store == INSTANCE SharedStore WITH disk <- file, Nothing <- Snapshot({}, <<>>)

\* Products, jobs and the history are older than accounts; posts and inquiries
\* always had an owner.
WithOwner(x) ==
    IF x.kind \in {"product", "history"} /\ x.owner = None
    THEN [x EXCEPT !.owner = Legacy] ELSE x

Loaded == [i \in DOMAIN file.records |-> WithOwner(file.records[i])]

Fault == faults < MaxFaults /\ faults' = faults + 1

SavedData == [customers : SUBSET Customers, records : Seq(Stored)]
StoreTypeOK == file \in SavedData /\ Store!ThreadTypeOK(SavedData) /\ spoilt \in BOOLEAN

TypeOK ==
    /\ AccountsTypeOK
    /\ records \in Seq(Stored) /\ Len(records) <= MaxRecords
    /\ StoreTypeOK
    /\ acknowledged \subseteq Customers \cup 1..MaxRecords
    /\ faults \in 0..MaxFaults

\* save() of a handler returns or raises
Saves ==
    /\ Store!LoopSaves(Snapshot(customers', records'))
    /\ spoilt' = thread'.clashed
    /\ UNCHANGED faults

SaveRaises ==
    /\ Fault
    /\ Store!LoopSaveRaises(Snapshot(customers', records'))
    /\ spoilt' = (spoilt \/ thread'.clashed)

\* The answer to a handler's change of key
Answer(key) ==
    \/ Saves /\ acknowledged' = acknowledged \cup {key}
    \/ SaveRaises /\ acknowledged' = acknowledged \ {key}

Insert(kind, owner) ==
    /\ Len(records) < MaxRecords
    /\ records' = Append(records, Record0(kind, owner))

Mark(i, marked) == records' = [records EXCEPT ![i].marked = marked]

\* What a customer is shown: the own entries of the history and inquiries, the
\* jobs behind products of the own, and every post
OwnHistory(c) == {i \in DOMAIN records : records[i].kind = "history" /\ records[i].owner = c}
OwnInquiries(c) == {i \in DOMAIN records : records[i].kind = "inquiry" /\ records[i].owner = c}
OwnProducts(c) == {i \in DOMAIN records : records[i].kind = "product" /\ records[i].owner = c}
Posts == {i \in DOMAIN records : records[i].kind = "post"}

Visible(c) == OwnHistory(c) \cup OwnInquiries(c) \cup OwnProducts(c) \cup Posts

-----------------------------------------------------------------------------

Init ==
    /\ now = 0 /\ customers = {Legacy} /\ sessions = {}
    /\ attempts = NoAttempts /\ failures = NoAttempts /\ lost = NoLosses
    /\ requests = NoRequests
    /\ file = Snapshot({}, OldRecords)
    /\ records = Loaded
    /\ thread = Store!NoThread(0) /\ spoilt = FALSE
    /\ acknowledged = {} /\ faults = 0

CreateCustomer(r) ==
    /\ requests[r].at = "handler" /\ requests[r].gate = "create"
    /\ requests' = [requests EXCEPT ![r] = NoRequest]
    /\ UNCHANGED <<now, sessions, attempts, failures, lost, records>>
    /\ \E id \in Ids :
         \/ id \in customers /\ UNCHANGED <<customers, store, acknowledged, faults>>
         \/ Issue(id) /\ Answer(id)

Create(c, kind) ==
    /\ ResolveSession(c)
    /\ Insert(kind, c)
    /\ UNCHANGED accountVars
    /\ Answer(Len(records) + 1)

\* An upload of the wrong type or size changes nothing
CreateProduct(c) == Create(c, "product")
CreatePost(c) == Create(c, "post")
CreateInquiry(c) == Create(c, "inquiry")

\* The end of run_generation(): an entry for the owner of the product
GenerationEnds(i) ==
    /\ records[i].kind = "product"
    /\ Insert("history", records[i].owner)
    /\ UNCHANGED <<accountVars, acknowledged>>
    /\ Saves \/ SaveRaises

\* toggle_favorite() on an entry of one's own
ToggleFavorite(c, i) ==
    /\ ResolveSession(c)
    /\ i \in OwnHistory(c)
    /\ Mark(i, ~ records[i].marked)
    /\ UNCHANGED accountVars
    /\ Answer(i)

\* create_comment() on anybody's post
CreateComment(c, i) ==
    /\ ResolveSession(c)
    /\ i \in Posts
    /\ Mark(i, TRUE)
    /\ UNCHANGED accountVars
    /\ Answer(i)

\* answer_inquiry(): a second answer replaces the first
AnswerInquiry(r) ==
    /\ requests[r].at = "handler" /\ requests[r].gate = "answer"
    /\ requests' = [requests EXCEPT ![r] = NoRequest]
    /\ UNCHANGED <<now, customers, sessions, attempts, failures, lost>>
    /\ \/ \E i \in DOMAIN records :
            /\ records[i].kind = "inquiry"
            /\ Mark(i, TRUE)
            /\ Answer(i)
       \/ UNCHANGED <<records, store, acknowledged, faults>>

\* A thread of the shorts workflow saves: everything, whoever changed it
ThreadSaves ==
    /\ Store!ThreadSaves(Snapshot(customers, records))
    /\ spoilt' = (spoilt /\ (Store!ThreadReplaces => thread.clashed))
    /\ UNCHANGED <<accountVars, records, acknowledged, faults>>

\* A mutated form: nobody can log in for the data from before
AccountsAfterNoLegacy(loaded) == loaded
\* lifespan() makes the account if the file has none; it is in the file from
\* the next save() on.
AccountsAfter(loaded) == loaded \cup {Legacy}

Restart ==
    /\ Fault
    /\ customers' = AccountsAfter(file.customers)
    /\ records' = Loaded
    /\ sessions' = {}
    /\ attempts' = NoAttempts /\ failures' = NoAttempts /\ lost' = NoLosses
    /\ requests' = NoRequests
    /\ Store!ThreadEnds /\ spoilt' = FALSE
    /\ acknowledged' = IF spoilt THEN {} ELSE acknowledged
    /\ UNCHANGED <<now, file>>

Next ==
    \/ \E r \in Requests :
         \/ AtTheGate(r) /\ UNCHANGED <<records, store, acknowledged, faults>>
         \/ CreateCustomer(r) \/ AnswerInquiry(r)
    \/ (Tick \/ \E c \in Customers : Logout(c))
         /\ UNCHANGED <<records, store, acknowledged, faults>>
    \/ \E c \in Customers :
         \/ CreateProduct(c) \/ CreatePost(c) \/ CreateInquiry(c)
         \/ \E i \in DOMAIN records : ToggleFavorite(c, i) \/ CreateComment(c, i)
    \/ \E i \in DOMAIN records : GenerationEnds(i)
    \/ ThreadSaves \/ Restart

Spec == Init /\ [][Next]_vars

(***************************************************************************)
(* Properties.                                                             *)
(***************************************************************************)

\* Whatever was stored by whom, before or after accounts existed, and however
\* often saves have failed and the process has restarted: there is an account
\* that sees it (the comment at store.py:80 says why LEGACY exists).
ReachableByOwner ==
    \A i \in DOMAIN records : \E c \in customers : i \in Visible(c)

KeptIn(data, key) ==
    IF key \in Customers THEN key \in data.customers
    ELSE key \in DOMAIN data.records /\ records[key] = WithOwner(data.records[key])

\* A change that was answered with success is in memory, and in the file as it
\* is in memory, so that no restart takes it back; no later change that failed
\* half way, of the same record or of another, takes it out, and no older
\* version of a thread.  The exception is a file that was last written while
\* a save of a thread and one of the loop overlapped: it may have any of the
\* two or be torn, until the next save that is not overlapped.
AcknowledgedIsKept ==
    \A key \in acknowledged :
      /\ key \in customers \cup DOMAIN records
      /\ spoilt \/ KeptIn(file, key)

=============================================================================
