---------------------------- MODULE SceneTiming ----------------------------
(***************************************************************************)
(* How long a short is: the scenes of its script (comic_script.py,         *)
(* storyboard.py), the silence around each speech and the range in which   *)
(* the length must be (video_renderer.py).  Times are multiples of 50 ms,  *)
(* which all constants of the code are.                                    *)
(***************************************************************************)
EXTENDS Integers, SequencesExt

BaseSilence == 2            \* BASE_SILENCE_SEC = 0.1
DeadpanSilence == 10        \* DEADPAN_SILENCE_SEC = 0.5
MinVideoDuration == 199     \* 9.95
MaxVideoDuration == 301     \* 15.05

\* build_comic_script: the four lines of every script, by their kind
ComicScript == <<"intro", "self_aware", "benefit", "cta">>

\* build_storyboard: durations
SceneDuration ==
    [intro |-> 50, self_aware |-> 50, benefit |-> 60, cta |-> 60]

SceneSilence(kind) ==
    IF kind = "self_aware" THEN DeadpanSilence ELSE BaseSilence

\* Mutated form: the silence is counted once.
SegmentTimingOneSilence(kind, speech) ==
    LET pre == SceneSilence(kind)
        segment == Max({SceneDuration[kind], speech + pre})
    IN  [segment |-> segment, pre |-> pre, post |-> segment - speech - pre]

SegmentTiming(kind, speech) ==
    LET pre == SceneSilence(kind)
        segment == Max({SceneDuration[kind], speech + 2 * pre})
    IN  [segment |-> segment, pre |-> pre, post |-> segment - speech - pre]

\* One speech per scene, in the order of the script
SegmentTimings(speeches) ==
    [i \in DOMAIN ComicScript |-> SegmentTiming(ComicScript[i], speeches[i])]

EstimatedDuration(speeches) ==
    FoldLeft(LAMBDA sum, timing : sum + timing.segment, 0,
             SegmentTimings(speeches))

\* _validate_speech_audio and _validate_estimated_duration
SpeechAccepted(speeches) ==
    /\ Len(speeches) = 4
    /\ \A i \in DOMAIN speeches : speeches[i] > 0
    /\ MinVideoDuration <= EstimatedDuration(speeches)
    /\ EstimatedDuration(speeches) <= MaxVideoDuration

=============================================================================
