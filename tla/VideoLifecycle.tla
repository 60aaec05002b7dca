--------------------------- MODULE VideoLifecycle ---------------------------
(***************************************************************************)
(* What the shorts workflow promises of a job, without threads, locks,     *)
(* queues or files: the life of its three statuses.  A result has at most  *)
(* one job that is neither failed nor rejected; a person decides once, and *)
(* only on a finished render to approve; an upload follows an approval and *)
(* is tried again only after a definite failure; a crash settles whatever  *)
(* was in progress, and settles it to the safe side.                       *)
(***************************************************************************)
CONSTANTS Jobs, Results, None

VARIABLES result, renderStatus, approvalStatus, publishStatus

vars == <<result, renderStatus, approvalStatus, publishStatus>>

Outcomes == {"scheduled", "failed", "auth_required", "needs_review",
             "schedule_expired"}
DefiniteFailures == {"failed", "auth_required", "schedule_expired"}

Active(j) ==
    /\ renderStatus[j] \in {"queued", "processing", "completed"}
    /\ approvalStatus[j] # "rejected"

Init ==
    /\ result = [j \in Jobs |-> None]
    /\ renderStatus = [j \in Jobs |-> "absent"]
    /\ approvalStatus = [j \in Jobs |-> "pending"]
    /\ publishStatus = [j \in Jobs |-> "not_requested"]

Create(j, r) ==
    /\ renderStatus[j] = "absent"
    /\ ~\E k \in Jobs : result[k] = r /\ Active(k)
    /\ result' = [result EXCEPT ![j] = r]
    /\ renderStatus' = [renderStatus EXCEPT ![j] = "queued"]
    /\ UNCHANGED <<approvalStatus, publishStatus>>

Render(j, from, to) ==
    /\ renderStatus[j] = from
    /\ renderStatus' = [renderStatus EXCEPT ![j] = to]
    /\ UNCHANGED <<result, approvalStatus, publishStatus>>

Reject(j) ==
    /\ renderStatus[j] # "absent"
    /\ approvalStatus[j] = "pending"
    /\ approvalStatus' = [approvalStatus EXCEPT ![j] = "rejected"]
    /\ UNCHANGED <<result, renderStatus, publishStatus>>

Approve(j, status) ==
    /\ renderStatus[j] = "completed"
    /\ approvalStatus[j] = "pending"
    /\ approvalStatus' = [approvalStatus EXCEPT ![j] = "approved"]
    /\ publishStatus' = [publishStatus EXCEPT ![j] = status]
    /\ UNCHANGED <<result, renderStatus>>

Publish(j, outcome) ==
    /\ publishStatus[j] = "pending"
    /\ publishStatus' = [publishStatus EXCEPT ![j] = outcome]
    /\ UNCHANGED <<result, renderStatus, approvalStatus>>

Retry(j) ==
    /\ publishStatus[j] \in DefiniteFailures
    /\ publishStatus' = [publishStatus EXCEPT ![j] = "pending"]
    /\ UNCHANGED <<result, renderStatus, approvalStatus>>

Crash ==
    /\ renderStatus' = [j \in Jobs |->
         IF renderStatus[j] \in {"queued", "processing"} THEN "failed"
                                                         ELSE renderStatus[j]]
    /\ publishStatus' = [j \in Jobs |->
         IF publishStatus[j] = "pending" THEN "needs_review"
                                         ELSE publishStatus[j]]
    /\ UNCHANGED <<result, approvalStatus>>

JobNext(j) ==
    \/ \E r \in Results : Create(j, r)
    \/ Render(j, "queued", "processing")
    \/ \E to \in {"completed", "failed"} : Render(j, "processing", to)
    \/ Reject(j)
    \/ \E status \in {"not_requested", "pending"} : Approve(j, status)
    \/ \E outcome \in Outcomes : Publish(j, outcome)
    \/ Retry(j)

Next == (\E j \in Jobs : JobNext(j)) \/ Crash

Spec == Init /\ [][Next]_vars
=============================================================================
