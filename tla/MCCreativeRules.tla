-------------------------- MODULE MCCreativeRules --------------------------
(***************************************************************************)
(* Inputs of CreativeRules for TLC: two days minute by minute, the sizes a *)
(* server is configured with, speeches around every threshold, texts of    *)
(* short and oversized words, products with known, unknown and badly       *)
(* written names, long names and answers, some with line breaks, and       *)
(* requests with repetitions.                                              *)
(***************************************************************************)
EXTENDS CreativeRules

\* From the second day on, so that a predecessor has a day before it
TwoDays == MinutesPerDay .. 3 * MinutesPerDay - 1

\* Multiples of 8 and others, below, at and above the defaults
SomeReferences == {8, 100, 256, 384, 512, 520, 768, 776, 1000, 1024, 1032, 1536}

\* The fit and the refusal of each kind of scene, one step to either side
SomeSpeeches == {0, 1, 30, 31, 46, 47, 56, 57, 66, 71, 72, 100}

\* A space is 0, an ellipsis 1; even characters are wide, odd ones narrow.
SomeWords == {<<3>>, <<2, 4>>, <<3, 5, 7>>, <<2, 4, 6, 8, 3>>}
SomeWidths == {6, 9, 12, 14, 20, 30}
ThreeSizes == <<4, 3, 2>>
GlyphWidth(c) == IF c > 1 /\ c % 2 = 0 THEN 2 ELSE 1

\* Texts: one in Hangul, one foreign, and that one with a space around it
StripText(t) == CASE t = " kr7 " -> "kr7" [] t = " " -> "" [] OTHER -> t
Template(name, slot) == IF name = "kr7" THEN 1 ELSE 2

Products ==
    [name : {"", "kettle", "kr7", " kr7 "},
     points : {<<>>, <<" ", "kr7">>, <<"light">>},
     pronunciations : {<<>>, [t \in {" kr7 "} |-> "kay"],
                       [t \in {"kr7"} |-> "seven"], [t \in {"kr7"} |-> " "]}]
ToneResults ==
    [slot : {"commute_am", "commute_pm", "evening"}, headline : {"one", "two"},
     subcopy : {"sub"}, tone : {"modern"},
     url : {"none", "upload", "first", "second", "escaping", "lost"}]
\* The contents of the files: one may be replaced under the same URL.
Files == {[u \in {"upload", "first", "second", "escaping"} |-> 1],
          [u \in {"upload", "first", "second", "escaping"} |->
             IF u = "first" THEN 2 ELSE 1]}

SomeSources == [product : Products, result : ToneResults, files : Files]

\* A text of n characters, with line breaks at some of its places
Text(n, breaks) == [i \in 1..n |-> IF i \in breaks THEN LineBreak ELSE Glyph]

SomeNames == {Text(1, {}), Text(60, {}), Text(9, {4})}
SomeAnswers ==
    {<<>>, Text(14, {}), Text(400, {}), Text(3, 1..3), Text(16, {1, 8, 16}),
     Text(60, {5, 25}), Text(30, {30})}
SomePromotions ==
    {NoPromotion, [discount |-> 2, end |-> 0], [discount |-> 0, end |-> 25],
     [discount |-> 2, end |-> 25], [discount |-> 0, end |-> 0]}

=============================================================================
