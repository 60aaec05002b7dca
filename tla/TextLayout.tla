----------------------------- MODULE TextLayout -----------------------------
(***************************************************************************)
(* Line breaking: captions of a short, word by word, in at most two lines  *)
(* (video_renderer.py), and the copy on an advertisement, character by     *)
(* character (overlay.py).  A character is a number, so that the place it  *)
(* ends up in can be told; its width in a font grows with the size of the  *)
(* font.  Wide(c) is the width of a character at size 1.  Captions have no *)
(* line breaks, as str.split takes them for spaces; copy may have some.    *)
(***************************************************************************)
EXTENDS Integers, SequencesExt

CONSTANTS
    Space, Ellipsis,    \* the two characters the code itself puts in
    LineBreak,          \* "\n" in a text
    Wide(_),            \* width of a character
    FontSizes,          \* range(78, 41, -2) as a sequence
    Stroke,             \* what CAPTION_STROKE_WIDTH adds to a line
    MinSpacing          \* the least distance of two lines: 10

ASSUME FontAssumption ==
    /\ FontSizes \in Seq(Nat \ {0}) /\ FontSizes # <<>>
    /\ Stroke \in Nat /\ MinSpacing \in Nat
    /\ LineBreak \notin {Space, Ellipsis}

\* textbbox: a line is as wide as the widest of the rows that the line breaks
\* in it make.
NothingMeasured == [row |-> 0, widest |-> 0]

Measure(at, c, size) ==
    IF c = LineBreak THEN [at EXCEPT !.row = 0]
    ELSE LET row == at.row + size * Wide(c)
         IN  [row |-> row, widest |-> IF row > at.widest THEN row ELSE at.widest]

Measured(line, size) ==
    FoldLeft(LAMBDA at, c : Measure(at, c, size), NothingMeasured, line)

LineWidth(line, size) == Measured(line, size).widest

(***************************************************************************)
(* _wrap_text of the renderer.  A text is a sequence of words.             *)
(***************************************************************************)
\* split_oversized_word: pieces as long as the line allows.
PutCharacter(acc, c, size, width) ==
    IF acc.current # <<>> /\ LineWidth(Append(acc.current, c), size) > width
      THEN [lines |-> Append(acc.lines, acc.current), current |-> <<c>>]
      ELSE [acc EXCEPT !.current = Append(@, c)]

NoLines == [lines |-> <<>>, current |-> <<>>]

Closed(acc) == IF acc.current = <<>> THEN acc.lines
                 ELSE Append(acc.lines, acc.current)

SplitOversizedWord(word, size, width) ==
    Closed(FoldLeft(LAMBDA acc, c : PutCharacter(acc, c, size, width),
                    NoLines, word))

\* Mutated form: only the last piece of a long word is kept.
WithPiecesLastOnly(done, chunks) ==
    [lines |-> done, current |-> Last(chunks)]

\* After the lines that are done come the pieces of a word, one if it fits.
WithPieces(done, chunks) ==
    [lines |-> done \o Front(chunks), current |-> Last(chunks)]

PlaceWord(acc, word, size, width) ==
    LET candidate == IF acc.current = <<>> THEN word
                       ELSE Append(acc.current, Space) \o word
    IN  IF LineWidth(candidate, size) <= width
          THEN [acc EXCEPT !.current = candidate]
          ELSE WithPieces(Closed(acc), SplitOversizedWord(word, size, width))

WrapWords(words, size, width) ==
    Closed(FoldLeft(LAMBDA acc, word : PlaceWord(acc, word, size, width),
                    NoLines, words))

(***************************************************************************)
(* _font_and_lines.                                                        *)
(***************************************************************************)
Spacing(size) == Max({MinSpacing, size \div 5})

BlockHeight(lines, size) ==
    IF lines = <<>> THEN 0
      ELSE Len(lines) * size + (Len(lines) - 1) * Spacing(size) + Stroke

FitsBox(lines, size, height) ==
    BlockHeight(lines, size) <= height /\ Len(lines) \in 1..2

\* The words of a line: it is split at its spaces.
PrefixesAtWords(line) ==
    {Len(line)} \cup {n \in 1..Len(line) : n < Len(line) /\ line[n + 1] = Space}

\* The second line with an ellipsis: as many whole words as fit, or as many
\* characters; <<>> when not even one character fits.
Shorten(line, size, width) ==
    LET cut(n) == Append(SubSeq(line, 1, n), Ellipsis)
        fitting == {n \in 1..Len(line) :
                      LineWidth(cut(n), size) + Stroke <= width}
        atWords == fitting \cap PrefixesAtWords(line)
    IN  IF atWords # {} THEN cut(Max(atWords))
        ELSE IF fitting # {} THEN cut(Max(fitting))
        ELSE <<>>

Refused == [size |-> 0, lines |-> <<>>]

ShortenedCaption(lines, size, shortened) ==
    IF Len(lines) > 2 /\ shortened # <<>>
      THEN [size |-> size, lines |-> <<lines[1], shortened>>]
      ELSE Refused

\* The largest font in which the text takes one or two lines; in the smallest
\* one the text is shortened.  Refused is the ValueError.
ChooseFont(wrapped, width, height) ==
    LET fitting == {i \in DOMAIN FontSizes :
                      FitsBox(wrapped[i], FontSizes[i], height)}
        i == IF fitting # {} THEN Min(fitting) ELSE Len(FontSizes)
    IN  IF fitting # {}
          THEN [size |-> FontSizes[i], lines |-> wrapped[i]]
          ELSE ShortenedCaption(wrapped[i], FontSizes[i],
                                Shorten(wrapped[i][2], FontSizes[i], width))

FontAndLines(words, width, height) ==
    ChooseFont([i \in DOMAIN FontSizes |-> WrapWords(words, FontSizes[i], width)],
               width, height)

(***************************************************************************)
(* _wrap_text of the overlay: a line ends before the first character that  *)
(* does not fit.                                                           *)
(***************************************************************************)
WrapCharacters(text, size, width) ==
    IF text = <<>> THEN << <<>> >> ELSE SplitOversizedWord(text, size, width)

=============================================================================
