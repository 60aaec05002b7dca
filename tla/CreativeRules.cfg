\* A behaviour ends when its question has been asked.
CONSTANTS
    Space = 0
    Ellipsis = 1
    LineBreak = 10
    Wide <- GlyphWidth
    FontSizes <- ThreeSizes
    Stroke = 1
    MinSpacing = 1
    Times <- TwoDays
    References <- SomeReferences
    SpeechLengths <- SomeSpeeches
    Words <- SomeWords
    MaxWords = 5
    Widths <- SomeWidths
    Height = 10
    EmptyText = ""
    Strip <- StripText
    DefaultName = "jepum"
    HangulTexts = {"jepum", "kettle", "light"}
    TemplateOf <- Template
    OutputUrls = {"first", "second", "escaping", "lost"}
    EscapingUrls = {"escaping"}
    Sources <- SomeSources
    Glyph = 3
    NoPromotion = NoPromotion
    NoAnswer = NoAnswer
    NoSlot = "no slot"
    Names <- SomeNames
    AnswerTexts <- SomeAnswers
    Promotions <- SomePromotions
    Tones = {"modern", "premium"}
    Slots = {"commute_am", "afternoon", "late_night"}
SPECIFICATION Spec
CHECK_DEADLOCK FALSE
INVARIANTS
    AcceptedActivationIsExposed
    SizesShareRatio
    SpeechIsWhole
    TextIsKept
    ShortsMatchTheirSource
    GeneratedCopyStaysInside
    ArchiveKeepsEveryImage
