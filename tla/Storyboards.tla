----------------------------- MODULE Storyboards -----------------------------
(***************************************************************************)
(* What a short shows and how the code knows that it is out of date: the   *)
(* script (comic_script.py), the storyboard and its fingerprint            *)
(* (storyboard.py).  A storyboard is built again at every step of the      *)
(* workflow from a tone result, its product and its image file; the render *)
(* and the approval go on only if the fingerprint is the same, and trust   *)
(* that then everything is.  A text of the script is its template and what *)
(* is put into it; sha256 is taken to be free of collisions.               *)
(***************************************************************************)
EXTENDS ExposureRules, SceneTiming

CONSTANTS
    EmptyText,          \* ""
    Strip(_),           \* str.strip
    DefaultName,        \* the name of a product that has none
    HangulTexts,        \* what _HANGUL_TEXT matches
    TemplateOf(_, _),   \* which template a name and a slot select
    OutputUrls,         \* URLs that begin with /files/outputs/
    EscapingUrls        \* those of them that lead out of data/outputs

(***************************************************************************)
(* comic_script.py.                                                        *)
(***************************************************************************)
\* PronunciationLexicon: blank entries are dropped.
Lexicon(entries) ==
    LET kept == {t \in DOMAIN entries : Strip(t) # EmptyText
                                          /\ Strip(entries[t]) # EmptyText}
    IN  [t \in {Strip(u) : u \in kept} |->
           Strip(entries[CHOOSE u \in kept : Strip(u) = t])]

\* resolve(): a text that is neither Hangul nor in the lexicon is spoken as it
\* stands, and a person has to listen to it.
Resolve(text, lexicon) ==
    LET display == Strip(text)
        known == display \in DOMAIN lexicon
    IN  [display |-> display,
         spoken |-> IF known THEN lexicon[display] ELSE display,
         review |-> ~known /\ display \notin HangulTexts]

Line(kind, template, text) ==
    [kind |-> kind, display |-> <<template, text.display>>,
     spoken |-> <<template, text.spoken>>, review |-> text.review]

Fixed == [display |-> EmptyText, spoken |-> EmptyText, review |-> FALSE]

\* build_comic_script
BuildComicScript(name, points, slot, lexicon) ==
    LET product == Resolve(name, lexicon)
        template == <<slot, TemplateOf(product.display, slot)>>
    IN  << Line("intro", template, product),
           Line("self_aware", template, Fixed),
           IF points = <<>> THEN Line("benefit", "pictures", Fixed)
             ELSE Line("benefit", "point", Resolve(points[1], lexicon)),
           Line("cta", template, Fixed) >>

ReviewRequired(script) == \E i \in DOMAIN script : script[i].review

(***************************************************************************)
(* storyboard.py.  A source is what the storyboard is built from: a tone   *)
(* result, its product, and the contents of the image files there are.     *)
(***************************************************************************)
ProductName(product) ==
    IF product.name = EmptyText THEN DefaultName ELSE product.name

SellingPoints(product) ==
    FoldLeft(LAMBDA kept, point : IF Strip(point) = EmptyText THEN kept
                                  ELSE Append(kept, Strip(point)),
             <<>>, product.points)

\* _select_source_image_url and _resolve_image_path
ImageAllowed(url, files) ==
    /\ url \in OutputUrls \ EscapingUrls
    /\ url \in DOMAIN files

CanBuild(source) ==
    /\ source.result.slot \in RushHourSlots
    /\ ImageAllowed(source.result.url, source.files)
    /\ Strip(ProductName(source.product)) # EmptyText

Purpose(kind) == IF kind = "intro" THEN "hero" ELSE kind

Scene(line, points) ==
    [display |-> line.display, spoken |-> line.spoken, kind |-> line.kind,
     purpose |-> Purpose(line.kind), duration |-> SceneDuration[line.kind],
     accent |-> IF line.kind = "benefit" /\ points # <<>>
                  THEN <<points[1]>> ELSE <<>>]

\* Mutated form: what is spoken is left out.
ScriptLinesSilent(script) ==
    [i \in DOMAIN script |-> <<script[i].display, script[i].kind>>]

\* The lines of the script as _fingerprint gets them
ScriptLines(script) ==
    [i \in DOMAIN script |->
       <<script[i].display, script[i].spoken, script[i].kind>>]

Fingerprint(source, script) ==
    [name |-> ProductName(source.product), headline |-> source.result.headline,
     subcopy |-> source.result.subcopy, points |-> SellingPoints(source.product),
     tone |-> source.result.tone, slot |-> source.result.slot,
     url |-> source.result.url, sha256 |-> source.files[source.result.url],
     lines |-> ScriptLines(script), review |-> ReviewRequired(script)]

BuildStoryboard(source) ==
    LET points == SellingPoints(source.product)
        script == BuildComicScript(ProductName(source.product), points,
                                   source.result.slot,
                                   Lexicon(source.product.pronunciations))
    IN  [name |-> ProductName(source.product), tone |-> source.result.tone,
         slot |-> source.result.slot, image |-> source.files[source.result.url],
         scenes |-> [i \in DOMAIN script |-> Scene(script[i], points)],
         review |-> ReviewRequired(script),
         fingerprint |-> Fingerprint(source, script)]

\* rush_hour_short_eligibility: whether the page offers to make a short
CanCreateRushHourShort(result) ==
    result.slot \in RushHourSlots /\ result.url \in OutputUrls

=============================================================================
