------------------------------- MODULE AdCopy -------------------------------
(***************************************************************************)
(* The text on an advertisement: how headline and subcopy come about       *)
(* (prompt/builder.py, services/copy_generator.py) and where overlay_copy  *)
(* (services/overlay.py) puts them.  A text is a sequence of characters,   *)
(* of which only the line breaks are told from the others; a character     *)
(* that is not one is at most as wide as its font is high, which           *)
(* Wide(c) = 1 stands for.                                                 *)
(***************************************************************************)
EXTENDS TextLayout, ImageSizes

CONSTANTS
    Glyph,          \* a character of a text
    NoPromotion,    \* promotion is None
    NoAnswer        \* the text model fails or answers something unusable

ASSUME GlyphAssumption ==
    Wide(Glyph) = 1 /\ Wide(Ellipsis) = 1 /\ Glyph # LineBreak

Phrase(n) == [i \in 1..n |-> Glyph]

Breaks(text) == {i \in DOMAIN text : text[i] = LineBreak}

(***************************************************************************)
(* prompt/builder.py.  A promotion is the pair of the lengths of its two   *)
(* parts, 0 for a part that was not given.                                 *)
(***************************************************************************)
HeadlineMaxLen == 14
SubcopyMaxLen == 28

ToneLabelLength == [emotional |-> 2, modern |-> 2, practical |-> 2, premium |-> 4]

\* Length of the copy_angle of each slot; only late_night sells by urgency.
CopyAngleLength ==
    [morning |-> 16, commute_am |-> 11, afternoon |-> 19, commute_pm |-> 10,
     evening |-> 19, late_night |-> 13]
RequiresPromotionData == {"late_night"}

\* Mutated form: a text that is too long is left as it is.
TruncateNever(text, maxLen) == text

\* _truncate: the last character that fits makes way for an ellipsis.
Truncate(text, maxLen) ==
    IF Len(text) <= maxLen THEN text
      ELSE Append(SubSeq(text, 1, maxLen - 1), Ellipsis)

Copy(headline, subcopy) ==
    [headline |-> Truncate(headline, HeadlineMaxLen),
     subcopy |-> Truncate(subcopy, SubcopyMaxLen)]

\* "20% 할인", "2026-08-10까지", or both with a dot between them
PromotionText(promotion) ==
    LET discount == IF promotion.discount = 0 THEN 0 ELSE promotion.discount + 4
        end == IF promotion.end = 0 THEN 0 ELSE promotion.end + 2
    IN  Phrase(discount + end + IF discount > 0 /\ end > 0 THEN 3 ELSE 0)

\* builder.build_ad_copy
RuleCopy(request) ==
    LET label == ToneLabelLength[request.tone]
        promotional == request.slot \in RequiresPromotionData
        offer == PromotionText(request.promotion)
    IN  CASE promotional /\ request.promotion = NoPromotion ->
               Copy(request.name \o Phrase(7), Phrase(18))
          [] promotional /\ request.promotion # NoPromotion ->
               Copy(IF offer = <<>> THEN Phrase(label + 6) ELSE offer,
                    request.name \o Phrase(9))
          [] OTHER ->
               Copy(Phrase(label + 3) \o request.name,
                    Phrase(CopyAngleLength[request.slot]))

\* str.strip() takes the line breaks off both ends and leaves those inside.
Stripped(text) ==
    LET kept == DOMAIN text \ Breaks(text)
    IN  IF kept = {} THEN <<>> ELSE SubSeq(text, Min(kept), Max(kept))

\* copy_generator.build_ad_copy: without data for an urgent slot the model is
\* not asked at all, and whatever goes wrong with it leads back to the rules.
BuildAdCopy(request, answer) ==
    LET asked == ~(request.slot \in RequiresPromotionData
                     /\ request.promotion = NoPromotion)
        copy == Copy(Stripped(answer.headline), Stripped(answer.subcopy))
    IN  IF asked /\ answer # NoAnswer /\ copy.headline # <<>> /\ copy.subcopy # <<>>
          THEN copy
          ELSE RuleCopy(request)

(***************************************************************************)
(* overlay_copy.                                                           *)
(***************************************************************************)
TextMargin == 40
LineGap == 8

\* TEXT_AREA_RATIO = 0.85
MaxTextWidth(width) == (width * 85) \div 100

HeadlineSize(width) == Max({28, width \div 22})
SubcopySize(width) == Max({20, width \div 32})

\* The copy is stacked upwards from the lower margin, but begins no higher
\* than the upper one.  It is counted as one row for each line that wrapping
\* has made.
CopyBlock(format, copy) ==
    LET size == ImagePresets[format].export
        width == MaxTextWidth(size.width)
        headline == WrapCharacters(copy.headline, HeadlineSize(size.width), width)
        subcopy == WrapCharacters(copy.subcopy, SubcopySize(size.width), width)
        headlineHeight == Len(headline) * (HeadlineSize(size.width) + LineGap)
        height == headlineHeight + Len(subcopy) * (SubcopySize(size.width) + LineGap)
        top == Max({TextMargin, size.height - TextMargin - height})
    IN  [headline |-> headline, headlineAt |-> top,
         subcopy |-> subcopy, subcopyAt |-> top + headlineHeight]

\* Where draw.text comes to an end with a line: every line break in it begins
\* one more row, which is at most as far below the last as lines are apart.
LowerEnd(lines, i, at, font) ==
    at + (i + Cardinality(Breaks(lines[i]))) * (font + LineGap)

=============================================================================
