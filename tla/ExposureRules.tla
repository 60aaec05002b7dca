--------------------------- MODULE ExposureRules ---------------------------
(***************************************************************************)
(* Which banner and which video a customer sees at a given minute          *)
(* (services/exposure.py), and which activation times the workflow and the *)
(* review page think of (video_workflow.py, video_view_state.py).  Times   *)
(* are minutes since a midnight of Asia/Seoul; seconds and zones are left  *)
(* out, since every border of a slot is a full minute.                     *)
(***************************************************************************)
EXTENDS Integers, Sequences, FiniteSetsExt

MinutesPerDay == 24 * 60
At(hour, minute) == 60 * hour + minute
MinuteOfDay(t) == t % MinutesPerDay

\* TIME_SLOT_TEMPLATES, in the order in which it is searched
TimeSlots == <<"morning", "commute_am", "afternoon", "commute_pm", "evening",
               "late_night">>

HourRange ==
    [morning    |-> [start |-> At(6, 0),   end |-> At(8, 0)],
     commute_am |-> [start |-> At(8, 0),   end |-> At(9, 30)],
     afternoon  |-> [start |-> At(9, 30),  end |-> At(18, 0)],
     commute_pm |-> [start |-> At(18, 0),  end |-> At(19, 30)],
     evening    |-> [start |-> At(19, 30), end |-> At(22, 0)],
     late_night |-> [start |-> At(22, 0),  end |-> At(6, 0)]]

RushHourSlots == {"commute_am", "commute_pm"}

\* A range that ends before it starts goes over midnight.
Covers(range, minute) ==
    IF range.start < range.end
      THEN range.start <= minute /\ minute < range.end
      ELSE range.start <= minute \/ minute < range.end

\* get_current_time_slot; "none" is its RuntimeError.
CurrentTimeSlot(t) ==
    LET covering == {i \in DOMAIN TimeSlots :
                       Covers(HourRange[TimeSlots[i]], MinuteOfDay(t))}
    IN  IF covering = {} THEN "none" ELSE TimeSlots[Min(covering)]

(***************************************************************************)
(* pick_video_exposure.  video_jobs is a sequence in the order of the      *)
(* dictionary; the answer is a position in it, or 0 for no video.  A        *)
(* completed job has a video_url and an approved one an activation time.   *)
(***************************************************************************)
\* Mutated form: a video is shown from the minute after its activation.
EligibleLate(job, product, slot, t) ==
    /\ job.product = product /\ job.slot = slot
    /\ job.render = "completed" /\ job.approval = "approved"
    /\ job.activation < t

Eligible(job, product, slot, t) ==
    /\ job.product = product /\ job.slot = slot
    /\ job.render = "completed" /\ job.approval = "approved"
    /\ job.activation <= t

\* (approved_at, updated_at) in the order of tuples
Older(job, other) ==
    \/ job.approvedAt < other.approvedAt
    \/ job.approvedAt = other.approvedAt /\ job.updatedAt < other.updatedAt

PickVideoExposure(product, slot, videoJobs, t) ==
    LET candidates == {i \in DOMAIN videoJobs :
                         Eligible(videoJobs[i], product, slot, t)}
        newest == {i \in candidates :
                     \A k \in candidates : ~Older(videoJobs[i], videoJobs[k])}
    IN  IF slot \notin RushHourSlots \/ candidates = {} THEN 0 ELSE Min(newest)

\* The newest entry of HISTORY with a result of the product for the slot.
PickBanner(product, slot, history) ==
    LET matching == {i \in DOMAIN history :
                       history[i].product = product /\ slot \in history[i].slots}
    IN  IF matching = {} THEN 0 ELSE Max(matching)

PickExposure(product, history, videoJobs, t) ==
    LET slot == CurrentTimeSlot(t)
    IN  [slot |-> slot, banner |-> PickBanner(product, slot, history),
         video |-> PickVideoExposure(product, slot, videoJobs, t)]

(***************************************************************************)
(* Activation times.                                                       *)
(***************************************************************************)
MinimumLeadTime == 10

\* SLOT_WINDOWS, a table of its own beside TIME_SLOT_TEMPLATES
SlotWindows ==
    [commute_am |-> [start |-> At(8, 0),  end |-> At(9, 30)],
     commute_pm |-> [start |-> At(18, 0), end |-> At(19, 30)]]

\* _validate_schedule
ScheduleAccepted(slot, activation, t) ==
    /\ activation >= t + MinimumLeadTime
    /\ SlotWindows[slot].start <= MinuteOfDay(activation)
    /\ MinuteOfDay(activation) < SlotWindows[slot].end

\* default_activation_at of the review page
DefaultActivationAt(slot, t) ==
    LET today == t - MinuteOfDay(t)
        target == IF slot = "commute_am" THEN At(8, 0) ELSE At(18, 0)
        candidate == today + target
    IN  IF candidate < t + 10 THEN candidate + MinutesPerDay ELSE candidate

=============================================================================
