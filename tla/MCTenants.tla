----------------------------- MODULE MCTenants ------------------------------
(***************************************************************************)
(* A small instance of Tenants for TLC: one customer beside LEGACY, two     *)
(* requests at the gates, an old entry of the history and two new records.  *)
(***************************************************************************)
EXTENDS Tenants, TLC

CONSTANTS r1, r2, c1

TwoRequests == {r1, r2}
OneCustomer == {c1}
TwoKeys == {c1, Source}
OldHistory == <<[kind |-> "history", owner |-> None, marked |-> FALSE]>>

\* Failures at the gates and changes of records share only the sessions; they
\* are explored one at a time, and beside the latter one request and no clock,
\* which nothing but the gates reads.
NoFailures == \A k \in Keys : attempts[k] = <<>> /\ lost[k] = 0
NoChanges == Len(records) = Len(OldRecords) /\ ~ records[1].marked /\ faults = 0 /\ thread.count = 0
OneRequest == \E r \in Requests : \A q \in Requests \ {r} : requests[q] = NoRequest
OneAtATime == (NoFailures /\ OneRequest /\ now = 0) \/ NoChanges

\* Threads that put back what others have dropped may go on for ever.  No state
\* has more than MaxFailures failures, so that beyond this number of dropped
\* ones FailuresAreLimited holds and nothing else depends on how many they are.
Slack == MaxFailures - (MaxAttempts - 1 + Cardinality(Requests))
Dropped == [k \in Keys |-> IF lost[k] > Slack THEN Slack ELSE lost[k]]
View == <<now, customers, sessions, attempts, requests, failures, Dropped,
          records, store, acknowledged, faults>>

Symmetry == Permutations(TwoRequests)

=============================================================================
