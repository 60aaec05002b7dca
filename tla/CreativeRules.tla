--------------------------- MODULE CreativeRules ---------------------------
(***************************************************************************)
(* The pure rules of the studio, asked over bounded inputs: a behaviour    *)
(* asks one question, and the properties compare what the code answers     *)
(* with what the answer is for.  The rules of different modules meet here, *)
(* in the order in which a request passes through them.                    *)
(***************************************************************************)
EXTENDS Storyboards, AdCopy, Downloads

CONSTANTS
    Times,          \* minutes at which activation times are asked for
    References,     \* values of IMAGE_SIZE and FAST_BACKGROUND_SIZE
    SpeechLengths,  \* lengths of a speech
    Words,          \* what the texts of captions are made of
    MaxWords,       \* bound on their number
    Widths,         \* widths of a text area
    Height,         \* height of the caption area
    Sources,        \* what storyboards are built from
    Names,          \* product names
    Promotions,     \* promotions of a request, and NoPromotion
    AnswerTexts,    \* what the text model writes
    Tones,          \* tones and
    Slots           \* slots that requests ask for

ASSUME InputAssumption ==
    /\ Times \subseteq Nat
    /\ References \subseteq Nat \ {0}
    /\ SpeechLengths \subseteq Nat
    /\ Widths \subseteq Nat \ {0}
    /\ MaxWords \in Nat /\ Height \in Nat
    /\ Names \cup AnswerTexts \subseteq Seq({Glyph, LineBreak})
    /\ Tones \subseteq DOMAIN ToneLabelLength
    /\ Slots \subseteq DOMAIN CopyAngleLength /\ NoSlot \notin Slots
    /\ \A p \in Promotions \ {NoPromotion} : p.discount \in Nat /\ p.end \in Nat

\* The selling points of a product are a sequence, and who strips a text that
\* has been stripped changes nothing.
ASSUME SourceAssumption ==
    \A source \in Sources :
      LET points == source.product.points
      IN  /\ points \in Seq(Range(points))
          /\ \A text \in Range(points) : Strip(Strip(text)) = Strip(text)

\* What the texts of captions can consist of
Characters == {Space, Ellipsis} \cup UNION {Range(word) : word \in Words}

\* str.split leaves no word empty and no space in it, and two lines of the
\* smallest font have room in the caption area: 42 pixels each in 210.
ASSUME TextAssumption ==
    /\ Space # Ellipsis
    /\ \A c \in Characters : c # LineBreak /\ Wide(c) \in Nat
    /\ \A word \in Words :
         word \in Seq(Range(word)) /\ word # <<>> /\ Space \notin Range(word)
    /\ LET size == Last(FontSizes)
       IN  2 * size + Spacing(size) + Stroke <= Height

VARIABLE question

NoQuestion == [kind |-> "none"]

Init == question = NoQuestion

\* When shall the video of a slot be shown, asked at a minute?
AskSchedule ==
    /\ question = NoQuestion
    /\ \E slot \in RushHourSlots, t \in Times :
         question' = [kind |-> "schedule", slot |-> slot, at |-> t]

\* Which sizes does a format have on a server with these references?
AskSizes ==
    /\ question = NoQuestion
    /\ \E key \in DOMAIN ImagePresets, fast, full \in References :
         question' = [kind |-> "sizes", key |-> key, fast |-> fast, full |-> full]

\* How are four speeches placed?
AskTiming ==
    /\ question = NoQuestion
    /\ \E speeches \in [1..4 -> SpeechLengths] :
         question' = [kind |-> "timing", speeches |-> speeches]

\* How are these words broken into lines?
AskText ==
    /\ question = NoQuestion
    /\ \E n \in 0..MaxWords, width \in Widths : \E words \in [1..n -> Words] :
         question' = [kind |-> "text", words |-> words, width |-> width]

\* Which short is made from this source?
AskShort ==
    /\ question = NoQuestion
    /\ \E source \in Sources : question' = [kind |-> "short", source |-> source]

Answers ==
    {NoAnswer} \cup [headline : AnswerTexts, subcopy : AnswerTexts]

\* Which text does an advertisement carry, if this is what the model answers?
AskCopy ==
    /\ question = NoQuestion
    /\ \E answer \in Answers, tone \in Tones, slot \in Slots, name \in Names,
         promotion \in Promotions :
         question' = [kind |-> "copy", answer |-> answer,
                      request |-> [tone |-> tone, slot |-> slot, name |-> name,
                                   promotion |-> promotion]]

\* What can be downloaded of a job whose image "missing" has lost its file?
AskArchive ==
    /\ question = NoQuestion
    /\ \E tones \in BoundedSeq(Tones, 2), slots \in BoundedSeq(Slots, 3),
         formats \in BoundedSeq({"thumbnail", "story_vertical"}, 2) :
         LET request == [tones |-> tones, slots |-> slots, formats |-> formats]
         IN  /\ RequestAccepted(request)
             /\ \E missing \in Images(request) \cup {NotFound} :
                  question' = [kind |-> "archive", request |-> request,
                               missing |-> missing]

Next ==
    \/ AskSchedule
    \/ AskSizes
    \/ AskShort
    \/ AskArchive
    \/ AskTiming
    \/ AskText
    \/ AskCopy

Spec == Init /\ [][Next]_question

(***************************************************************************)
(* Properties.                                                             *)
(***************************************************************************)

\* The exposure at t of a video that is to be shown from an activation time,
\* beside one of the same product and slot that was approved a day before.
Exposed(slot, activation, t) ==
    LET video(at) == [product |-> "p", slot |-> slot, render |-> "completed",
                      approval |-> "approved", activation |-> at,
                      approvedAt |-> at, updatedAt |-> at]
    IN  PickExposure("p", <<>>, <<video(activation - MinutesPerDay),
                                  video(activation)>>, t)

\* The moments around the borders of a day at which an answer could change
Borders(slot, t) ==
    LET day == t - MinuteOfDay(t)
    IN  UNION {{border - 1, border} :
                 border \in {t, day, day + SlotWindows[slot].start,
                             day + SlotWindows[slot].end,
                             day + MinutesPerDay}}

\* The tables of slots and of approval windows are kept apart and agree: an
\* activation time that approve() accepts lies in the slot that exposure
\* computes, so the video is shown from that minute on, whenever its slot
\* comes, and its predecessor until then.  The page proposes such a time.
AcceptedActivationIsExposed ==
    question.kind = "schedule" =>
      LET slot == question.slot
          at == question.at
          proposed == DefaultActivationAt(slot, at)
          inSlot(t) == Covers(SlotWindows[slot], MinuteOfDay(t))
      IN  /\ ScheduleAccepted(slot, proposed, at)
          /\ ~\E earlier \in at .. proposed - 1 :
               /\ ScheduleAccepted(slot, earlier, at)
               /\ MinuteOfDay(earlier) = SlotWindows[slot].start
          /\ ScheduleAccepted(slot, at, at - MinimumLeadTime) =>
               \A t \in Borders(slot, at) :
                 Exposed(slot, at, t).video =
                   (IF ~inSlot(t) THEN 0 ELSE IF t >= at THEN 2 ELSE 1)

\* A picture that the model server makes is one that the backend accepts: for
\* all sizes that the configuration allows, background, composite and export
\* share a ratio, so that neither generate() nor the overlay refuses, sides
\* are multiples of 8, and rounding takes no side further than half a step of
\* the grid from what was configured.
SizesShareRatio ==
    question.kind = "sizes" /\ SizesAccepted(question.fast, question.full) =>
      LET preset == ImagePresets[question.key]
          sizes == ResolveRuntimeImagePreset(question.key, question.fast,
                                             question.full)
          onGrid(size) == size.width % 8 = 0 /\ size.height % 8 = 0
          close(size, default, asked, reference) ==
            LET unit == Gcd(default.width, default.height)
                scaled == (size.width * unit) \div default.width
            IN  \/ Distance(scaled * reference, unit * asked) <= 4 * reference
                \/ scaled = 8 /\ unit * asked < 8 * reference
      IN  /\ SameRatio(sizes.background, sizes.composite)
          /\ WithinOnePixel(sizes.composite, sizes.export)
          /\ onGrid(sizes.background) /\ onGrid(sizes.composite)
          /\ close(sizes.background, preset.background, question.fast,
                   DefaultBackgroundReference)
          /\ close(sizes.composite, preset.composite, question.full,
                   DefaultCompositeReference)

\* No speech is cut and none follows another without its silence; a short is
\* refused only when its speeches are too long for it, never because it would
\* be too short, and not at all when each speech fits its scene.
SpeechIsWhole ==
    question.kind = "timing" /\ (\A i \in 1..4 : question.speeches[i] > 0) =>
      LET speeches == question.speeches
          timings == SegmentTimings(speeches)
          fits(i) == speeches[i] + 2 * SceneSilence(ComicScript[i])
                       <= SceneDuration[ComicScript[i]]
          Placed(i) ==
            /\ timings[i].pre >= SceneSilence(ComicScript[i])
            /\ timings[i].post >= SceneSilence(ComicScript[i])
            /\ timings[i].segment = timings[i].pre + speeches[i] + timings[i].post
      IN  /\ \A i \in 1..4 : Placed(i)
          /\ (\A i \in 1..4 : fits(i)) => SpeechAccepted(speeches)
          /\ ~SpeechAccepted(speeches) =>
               EstimatedDuration(speeches) > MaxVideoDuration

\* A text without its spaces
Letters(text) ==
    FoldLeft(LAMBDA letters, c : IF c = Space THEN letters
                                 ELSE Append(letters, c), <<>>, text)

CaptionIsKept(all, width, caption) ==
    LET shown == Letters(FlattenSeq(caption.lines))
    IN  /\ Len(caption.lines) \in 1..2
        /\ \A i \in DOMAIN caption.lines :
             LineWidth(caption.lines[i], caption.size) <= width
               \/ Len(caption.lines[i]) = 1
        /\ \/ shown = all
           \/ Last(shown) = Ellipsis /\ IsStrictPrefix(Front(shown), all)

OverlayIsKept(text, size, width, lines) ==
    /\ FlattenSeq(lines) = text
    /\ \A i \in DOMAIN lines :
         LineWidth(lines[i], size) <= width \/ Len(lines[i]) = 1

JustifiedRefusal(all, size, width) ==
    \/ all = <<>>
    \/ \E c \in Range(all) : LineWidth(<<c, Ellipsis>>, size) + Stroke > width

Joined(words) ==
    FoldLeft(LAMBDA text, word : IF text = <<>> THEN word
                                 ELSE Append(text, Space) \o word, <<>>, words)

CaptionRule(all, width, caption) ==
    IF caption = Refused
      THEN JustifiedRefusal(all, Last(FontSizes), width)
      ELSE CaptionIsKept(all, width, caption)

OverlayRule(text, size, width) ==
    OverlayIsKept(text, size, width, WrapCharacters(text, size, width))

\* No character of a text is lost or moved by line breaking.  A caption has
\* at most two lines within the width; if it does not show its whole text it
\* says so by an ellipsis after a beginning of it, and it is refused only if
\* it is empty or not even a shortened line fits.  The overlay keeps every
\* character, spaces included, and leaves the width only for a single one.
TextIsKept ==
    question.kind = "text" =>
      /\ CaptionRule(FlattenSeq(question.words), question.width,
                     FontAndLines(question.words, question.width, Height))
      /\ OverlayRule(Joined(question.words), Last(FontSizes), question.width)

\* All storyboards, by their source
Boards == [source \in {s \in Sources : CanBuild(s)} |-> BuildStoryboard(source)]

\* Renders, approvals and uploads compare fingerprints and trust that an equal
\* one means the same short: the same image, scenes, accents, speech and need
\* of a review, whatever has been edited, replaced or reformatted between.  An
\* approval without a review trusts that every text of the user that is spoken
\* is Hangul or has a known pronunciation.  And no short that can be made is
\* kept from the user by the page, which looks at the URL alone.
ShortsMatchTheirSource ==
    question.kind = "short" /\ CanBuild(question.source) =>
      LET source == question.source
          board == Boards[source]
          points == SellingPoints(source.product)
          known == HangulTexts \cup DOMAIN Lexicon(source.product.pronunciations)
      IN  /\ \A other \in DOMAIN Boards :
               Boards[other].fingerprint = board.fingerprint =>
                 Boards[other] = board
          /\ ~board.review =>
               /\ Strip(ProductName(source.product)) \in known
               /\ points # <<>> => points[1] \in known
          /\ CanCreateRushHourShort(source.result)

\* Every text that the service writes stays inside the image, in all four
\* formats: neither a long name, nor what a text model answers, nor a promotion
\* pushes a row over the right border; nor over the lower one, as long as no
\* line break is left in headline and subcopy.  A name or an answer with line
\* breaks inside may be drawn lower, over the subcopy or out of the image,
\* since only the lines of the wrapping are counted.
GeneratedCopyStaysInside ==
    question.kind = "copy" =>
      LET copy == BuildAdCopy(question.request, question.answer)
          inOneRow == Breaks(copy.headline) = {} /\ Breaks(copy.subcopy) = {}
          Inside(format) ==
            LET size == ImagePresets[format].export
                block == CopyBlock(format, copy)
                within(lines, at, font) ==
                  \A i \in DOMAIN lines :
                    /\ TextMargin + LineWidth(lines[i], font) <= size.width
                    /\ inOneRow => LowerEnd(lines, i, at, font) <= size.height
            IN  /\ within(block.headline, block.headlineAt, HeadlineSize(size.width))
                /\ within(block.subcopy, block.subcopyAt, SubcopySize(size.width))
      IN  \A format \in DOMAIN ImagePresets : Inside(format)

\* If a request repeats no tone and no slot, every image of its job whose file
\* exists can be taken away: the archive has it under a name of its own, and
\* download_one finds it when slot, tone and format are given.
ArchiveKeepsEveryImage ==
    question.kind = "archive" =>
      LET request == question.request
          plan == Plan(request)
          stored == Images(request) \ {question.missing}
          archive == Archive(plan, stored)
          Kept(image) ==
            LET item == plan[image[1]]
            IN  /\ Unpacked(archive, ArchiveName(item, image[2])) = image
                /\ DownloadOne(plan, request.formats, stored, item.tone,
                               image[2], item.slot) = image
      IN  IsInjective(request.tones) /\ IsInjective(request.slots) =>
            \A image \in stored : Kept(image)

=============================================================================
