----------------------------- MODULE Downloads -----------------------------
(***************************************************************************)
(* From a generation request to the files a customer takes away: which     *)
(* requests are accepted (schemas/generation.py), the plan of results that *)
(* is made from one (api/generations.py), and the two downloads of a       *)
(* completed job (api/download.py).  An image is named by its place in the *)
(* plan and its format; "stored" are the images whose files exist.         *)
(***************************************************************************)
EXTENDS Integers, SequencesExt

CONSTANT NoSlot     \* None: the parameter of a download is not given

MaxTimeSlotsPerRequest == 3

\* What create_generation accepts.  Only formats are checked for repetitions.
RequestAccepted(request) ==
    /\ Len(request.slots) \in 1..MaxTimeSlotsPerRequest
    /\ Len(request.formats) \in 1..2
    /\ IsInjective(request.formats)

\* build_generation_plan: every slot with every tone
Plan(request) ==
    LET tones == Len(request.tones)
    IN  [i \in 1..Len(request.slots) * tones |->
           [slot |-> request.slots[((i - 1) \div tones) + 1],
            tone |-> request.tones[((i - 1) % tones) + 1]]]

Images(request) == (DOMAIN Plan(request)) \X Range(request.formats)

\* Mutated form: the name leaves out the slot.
ArchiveNameWithoutSlot(item, format) == <<item.tone, format>>

\* arcname of download_all
ArchiveName(item, format) == <<item.slot, item.tone, format>>

\* What is in the archive of a job, by name.  A name that comes twice hides
\* all but one of its images.
Archive(plan, stored) ==
    {[name |-> ArchiveName(plan[image[1]], image[2]), image |-> image] :
       image \in stored}

Unpacked(archive, name) ==
    CHOOSE image \in {entry.image : entry \in archive} :
      [name |-> name, image |-> image] \in archive

\* download_one: the first result that matches; without its file the answer is
\* 404, NotFound, whether or not another result would match.
NotFound == <<0, "none">>

DownloadOne(plan, formats, stored, tone, format, slot) ==
    LET matching == {i \in DOMAIN plan : /\ plan[i].tone = tone
                                         /\ slot \in {NoSlot, plan[i].slot}}
        first == <<Min(matching), format>>
    IN  IF format \notin Range(formats) \/ matching = {} THEN NotFound
        ELSE IF first \in stored THEN first ELSE NotFound

=============================================================================
