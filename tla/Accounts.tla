------------------------------ MODULE Accounts ------------------------------
(***************************************************************************)
(* Accounts, sessions and the two gates in front of them: a login           *)
(* (api/auth.py, services/auth.py) and the administrator's key (api/deps.py *)
(* and the copy of require_admin in api/inquiries.py).  A gate counts the   *)
(* failures of the last seconds in a list that every check replaces by a    *)
(* filtered copy, while other threads append to the list they have found.   *)
(***************************************************************************)
EXTENDS Integers, Sequences, FiniteSets, FiniteSetsExt

CONSTANTS
    Ids,            \* customer ids that an administrator issues
    Legacy,         \* the account of data from before there were accounts
    Source,         \* the address that administrator requests come from
    Keys,           \* customers that log in, and Source
    Requests,       \* requests at a gate at the same time
    MaxAttempts,    \* RATE_LIMIT_MAX_ATTEMPTS, ADMIN_RATE_LIMIT_MAX_ATTEMPTS
    Window,         \* RATE_LIMIT_WINDOW_SECONDS, in ticks
    MaxTime,        \* bound on the clock
    MaxFailures     \* bound on the failures of a window, of all keys together

Customers == Ids \cup {Legacy}

ASSUME AccountsAssumption ==
    /\ Legacy \notin Ids /\ Source \notin Customers
    /\ Source \in Keys /\ Keys \subseteq Customers \cup {Source}
    /\ MaxAttempts \in Nat \ {0} /\ Window \in Nat \ {0} /\ MaxTime \in Nat
    /\ MaxFailures \in Nat /\ IsFiniteSet(Requests)

VARIABLES
    now,
    customers,      \* CUSTOMERS: nobody ever leaves it or is made inactive
    sessions,       \* whose tokens are in SESSIONS; a customer's are one
    attempts,       \* FAILED_LOGIN_ATTEMPTS and ADMIN_FAILED_ATTEMPTS
    requests,       \* where each request is
    failures,       \* what has really failed within the window
    lost            \* how many failures were dropped from a list

accountVars == <<now, customers, sessions, attempts, requests, failures, lost>>

\* Who checks: login(); require_admin() of deps.py before POST
\* /admin/customers, and that handler itself; require_admin() of inquiries.py,
\* which is no coroutine and so runs in a thread of its own.
Gates == {"login", "depends", "create", "answer"}
OnLoop(gate) == gate # "answer"

Places == {"idle", "again", "replace", "verify", "append", "orphan", "handler"}

NoRequest == [at |-> "idle", gate |-> "login", key |-> Source, seen |-> <<>>]

\* All of it is in memory only
NoAttempts == [k \in Keys |-> <<>>]
NoLosses == [k \in Keys |-> 0]
NoRequests == [r \in Requests |-> NoRequest]

AccountsTypeOK ==
    /\ now \in 0..MaxTime
    /\ customers \subseteq Customers /\ sessions \subseteq customers
    /\ attempts \in [Keys -> Seq(Nat)] /\ failures \in [Keys -> Seq(Nat)]
    /\ lost \in [Keys -> Nat]
    /\ requests \in [Requests -> [at : Places, gate : Gates, key : Keys, seen : Seq(Nat)]]

-----------------------------------------------------------------------------

\* The failures of the list that are within the window at a time
Recent(list, time) ==
    LET kept[i \in 0..Len(list)] ==
          IF i = 0 THEN <<>>
          ELSE IF time - list[i] < Window THEN Append(kept[i - 1], list[i])
               ELSE kept[i - 1]
    IN  kept[Len(list)]

\* A mutated form: a failure counts for ever
SeenAlways(list) == list
SeenNow(list) == Recent(list, now)

\* is_rate_limited() reads the list and filters it.  The event loop does
\* nothing else before the filtered list is in place; threads do.
Look(r, gate, key) ==
    /\ ~ \E q \in Requests :
           requests[q].at = "replace" /\ OnLoop(requests[q].gate) /\ OnLoop(gate)
    /\ requests' = [requests EXCEPT ![r] =
         [at |-> "replace", gate |-> gate, key |-> key,
          seen |-> SeenNow(attempts[key])]]
    /\ UNCHANGED <<now, customers, sessions, attempts, failures, lost>>

Ask(r) ==
    /\ requests[r].at = "idle"
    /\ \/ \E id \in Keys \ {Source} : Look(r, "login", id)
       \/ \E gate \in {"depends", "answer"} : Look(r, gate, Source)

\* create_customer() checks what its dependency has checked before it
AskAgain(r) == requests[r].at = "again" /\ Look(r, "create", Source)

\* A mutated form: the failure that reaches the limit is still let through
RefusesLate(list) == Len(list) > MaxAttempts
Refuses(list) == Len(list) >= MaxAttempts

\* The filtered list replaces the one in the dictionary: what was appended to
\* that one since is dropped, and so is what will be by a thread that holds it.
\* A slower check may put it back; it has been dropped all the same.
Replace(r) ==
    LET key == requests[r].key
        seen == requests[r].seen
        dropped == Len(Recent(attempts[key], now)) - Len(seen)
    IN  /\ requests[r].at = "replace"
        /\ attempts' = [attempts EXCEPT ![key] = seen]
        /\ lost' = IF dropped > 0 THEN [lost EXCEPT ![key] = @ + dropped] ELSE lost
        /\ requests' = [q \in Requests |->
             CASE q = r /\ Refuses(seen) -> NoRequest
               [] q = r /\ ~ Refuses(seen) ->
                    [requests[q] EXCEPT !.at = "verify", !.seen = <<>>]
               [] q # r /\ requests[q].at = "append" /\ requests[q].key = key ->
                    [requests[q] EXCEPT !.at = "orphan"]
               [] OTHER -> requests[q]]
        /\ UNCHANGED <<now, customers, sessions, failures>>

\* A wrong PIN or key, an unknown customer, no key configured: the list to
\* append to is fetched
Wrong(r) ==
    /\ requests[r].at = "verify"
    /\ Cardinality({q \in Requests : requests[q].at \in {"append", "orphan"}})
         + MapThenSumSet(LAMBDA k : Len(failures[k]), Keys) < MaxFailures
    /\ requests' = [requests EXCEPT ![r].at = "append"]
    /\ UNCHANGED <<now, customers, sessions, attempts, failures, lost>>

Record(r) ==
    LET key == requests[r].key
        kept == requests[r].at = "append"
    IN  /\ requests[r].at \in {"append", "orphan"}
        /\ attempts' = IF kept THEN [attempts EXCEPT ![key] = Append(@, now)] ELSE attempts
        /\ lost' = IF kept THEN lost ELSE [lost EXCEPT ![key] = @ + 1]
        /\ failures' = [failures EXCEPT ![key] = Append(@, now)]
        /\ requests' = [requests EXCEPT ![r] = NoRequest]
        /\ UNCHANGED <<now, customers, sessions>>

\* verify_login() in a thread: the session is made
LoggedIn(r) ==
    /\ requests[r].at = "verify" /\ requests[r].gate = "login"
    /\ requests[r].key \in customers
    /\ sessions' = sessions \cup {requests[r].key}
    /\ requests' = [requests EXCEPT ![r] = NoRequest]
    /\ UNCHANGED <<now, customers, attempts, failures, lost>>

\* The right key: on to the handler, which for a new customer is a gate again
Admitted(r) ==
    /\ requests[r].at = "verify" /\ requests[r].gate # "login"
    /\ requests' = [requests EXCEPT ![r].at =
         IF requests[r].gate = "depends" THEN "again" ELSE "handler"]
    /\ UNCHANGED <<now, customers, sessions, attempts, failures, lost>>

\* A token gives its customer for as long as there is the account
ResolveSession(c) == c \in sessions /\ c \in customers

\* An id is issued once
Issue(id) == id \notin customers /\ customers' = customers \cup {id}

Logout(c) ==
    /\ c \in sessions
    /\ sessions' = sessions \ {c}
    /\ UNCHANGED <<now, customers, attempts, requests, failures, lost>>

\* A tick is long against the few instructions of a check; hashing a PIN, or a
\* thread that waits for its turn, may take longer.
Tick ==
    /\ now < MaxTime
    /\ \A r \in Requests : requests[r].at # "replace"
    /\ now' = now + 1
    /\ failures' = [k \in Keys |-> Recent(failures[k], now + 1)]
    /\ UNCHANGED <<customers, sessions, attempts, requests, lost>>

AtTheGate(r) == Ask(r) \/ AskAgain(r) \/ Replace(r) \/ Wrong(r) \/ Record(r)
                \/ LoggedIn(r) \/ Admitted(r)

(***************************************************************************)
(* Properties.                                                             *)
(***************************************************************************)

\* Nobody is turned away without cause: a request that is refused for too many
\* failures comes after that many real failures within the window, although
\* checks and records of parallel requests overlap and lists are copied
\* (is_rate_limited(), is_admin_rate_limited()).
RefusalIsJustified ==
    \A r \in Requests :
      requests[r].at = "replace" /\ Refuses(requests[r].seen)
        => Len(failures[requests[r].key]) >= MaxAttempts

\* The check is before and the record after the verification, so parallel
\* requests pass together; but within a window no more than one for each of
\* them can fail beyond the limit, the failures apart that a check has dropped.
\* The lists are in memory only, so that a restart begins the count anew: the
\* bound is for one run of the process.
FailuresAreLimited ==
    \A k \in Keys :
      Len(failures[k]) =< MaxAttempts - 1 + Cardinality(Requests) + lost[k]

=============================================================================
