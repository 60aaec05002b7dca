------------------------ MODULE CreativeRulesProofs ------------------------
(***************************************************************************)
(* What the pure rules promise, for every input of the types in            *)
(* InputAssumption: sizes, times, speeches, texts, plans, sources and copy *)
(* of any number and length, where the runs try a few.  Each property is   *)
(* about the answer to the question that was asked, whose kinds            *)
(* QuestionsAsked establishes.  The rules fold over sequences; a fold is   *)
(* unfolded by a function on sets of places whose existence is proved      *)
(* first, by induction over a set of numbers.                              *)
(***************************************************************************)
EXTENDS CreativeRules, SequenceTheorems, FiniteSetTheorems, WellFoundedInduction, TLAPS

\* The inputs of a request for images and of one for copy
Requests == [tones : Seq(Tones), slots : Seq(Slots),
             formats : Seq({"thumbnail", "story_vertical"})]

Requested == [tone : Tones, slot : Slots, name : Names,
              promotion : Promotions]

QuestionOK ==
    \/ question.kind = "none"
    \/ \E n \in 0..MaxWords, width \in Widths : \E words \in [1..n -> Words] :
         question = [kind |-> "text", words |-> words, width |-> width]
    \/ \E slot \in RushHourSlots, t \in Times :
         question = [kind |-> "schedule", slot |-> slot, at |-> t]
    \/ \E key \in DOMAIN ImagePresets, fast, full \in References :
         question = [kind |-> "sizes", key |-> key, fast |-> fast, full |-> full]
    \/ \E speeches \in [1..4 -> SpeechLengths] :
         question = [kind |-> "timing", speeches |-> speeches]
    \/ \E source \in Sources : question = [kind |-> "short", source |-> source]
    \/ \E request \in Requests : \E missing \in Images(request) \cup {NotFound} :
         question = [kind |-> "archive", request |-> request, missing |-> missing]
    \/ \E request \in Requested, answer \in Answers :
         question = [kind |-> "copy", answer |-> answer, request |-> request]

\* A bounded sequence is a sequence.
LEMMA BoundedIsSeq ==
  ASSUME NEW S, NEW n \in Nat
  PROVE  BoundedSeq(S, n) \subseteq Seq(S)
BY DEF BoundedSeq, SeqOf

\* The question is one of the seven kinds, about the inputs of the model.
LEMMA QuestionsAsked == Spec => []QuestionOK
<1>1. Init => QuestionOK
  BY DEF Init, QuestionOK, NoQuestion
<1>2. QuestionOK /\ [Next]_question => QuestionOK'
  <2> SUFFICES ASSUME QuestionOK, [Next]_question PROVE QuestionOK'
    OBVIOUS
  <2>1. CASE AskSchedule
    BY <2>1 DEF AskSchedule, QuestionOK
  <2>2. CASE AskSizes
    BY <2>2 DEF AskSizes, QuestionOK
  <2>3. CASE AskTiming
    BY <2>3 DEF AskTiming, QuestionOK
  <2>4. CASE AskText
    BY <2>4 DEF AskText, QuestionOK
  <2>6. CASE AskShort
    BY <2>6 DEF AskShort, QuestionOK
  <2>7. CASE AskCopy
    BY <2>7 DEF AskCopy, QuestionOK, Requested
  <2>8. CASE AskArchive
    <3>1. PICK tones \in BoundedSeq(Tones, 2), slots \in BoundedSeq(Slots, 3),
               formats \in BoundedSeq({"thumbnail", "story_vertical"}, 2) :
            LET request == [tones |-> tones, slots |-> slots, formats |-> formats]
            IN  \E missing \in Images(request) \cup {NotFound} :
                  question' = [kind |-> "archive", request |-> request, missing |-> missing]
      BY <2>8 DEF AskArchive
    <3>2. [tones |-> tones, slots |-> slots, formats |-> formats] \in Requests
      BY BoundedIsSeq DEF Requests
    <3> QED BY <3>1, <3>2 DEF QuestionOK
  <2>5. CASE UNCHANGED question
    BY <2>5 DEF QuestionOK
  <2> QED BY <2>1, <2>2, <2>3, <2>4, <2>5, <2>6, <2>7, <2>8 DEF Next
<1> QED BY <1>1, <1>2, PTL DEF Spec

(***************************************************************************)
(* Sizes.                                                                  *)
(***************************************************************************)
\* The greater of two numbers
LEMMA MaxOfTwo ==
  ASSUME NEW a \in Int, NEW b \in Int
  PROVE  Max({a, b}) = IF a < b THEN b ELSE a
BY DEF Max

\* The smaller of two numbers
LEMMA MinOfTwo ==
  ASSUME NEW a \in Int, NEW b \in Int
  PROVE  Min({a, b}) = IF a < b THEN a ELSE b
BY DEF Min

\* What divides two numbers divides their sums.
LEMMA DividesSums ==
  ASSUME NEW a \in Nat, NEW b \in Nat, NEW d \in Nat \ {0}, a % d = 0, b % d = 0,
         NEW u \in Int, NEW v \in Int, NEW g \in Nat \ {0}, g = u * a + v * b
  PROVE  d <= g
<1>1. a = d * (a \div d) /\ b = d * (b \div d) /\ a \div d \in Int /\ b \div d \in Int
  OBVIOUS
<1>2. PICK k, m \in Int : a = d * k /\ b = d * m
  BY <1>1
<1>3. PICK q \in Int : q = u * k + v * m
  OBVIOUS
<1>4. g = d * q
  <2>1. u * (d * k) = d * (u * k) /\ v * (d * m) = d * (v * m)
    OBVIOUS
  <2>2. d * (u * k + v * m) = d * (u * k) + d * (v * m)
    OBVIOUS
  <2> QED BY <1>2, <1>3, <2>1, <2>2
<1>5. q >= 1
  <2>1. ~ (q <= 0)
    <3> SUFFICES ASSUME q <= 0 PROVE FALSE
      OBVIOUS
    <3>1. d * q <= 0
      OBVIOUS
    <3> QED BY <1>4, <3>1
  <2> QED BY <2>1
<1>6. d * q >= d
  BY <1>5
<1> QED BY <1>4, <1>6

\* A common divisor that is a sum of multiples of both is the greatest one.
LEMMA GcdIs ==
  ASSUME NEW a \in Nat \ {0}, NEW b \in Nat \ {0}, NEW g \in Nat \ {0}, g <= a, g <= b,
         a % g = 0, b % g = 0, NEW u \in Int, NEW v \in Int, g = u * a + v * b
  PROVE  Gcd(a, b) = g
<1> DEFINE D == {d \in 1..Min({a, b}) : a % d = 0 /\ b % d = 0}
<1>1. Min({a, b}) \in Nat /\ g <= Min({a, b})
  BY MinOfTwo
<1>2. g \in D
  BY <1>1
<1>3. ASSUME NEW d \in D PROVE d \in Nat /\ d <= g
  <2>1. d \in 1..Min({a, b}) /\ a % d = 0 /\ b % d = 0
    OBVIOUS
  <2>2. d \in Nat \ {0}
    BY <1>1, <2>1
  <2> HIDE DEF D
  <2> QED BY <2>1, <2>2, DividesSums
<1>4. Max(D) = g
  <2> HIDE DEF D
  <2>1. \A d \in D : (\A e \in D : d >= e) <=> d = g
    BY <1>2, <1>3
  <2> QED BY <1>2, <2>1 DEF Max
<1> QED BY <1>4 DEF Gcd

\* The unit of every preset: the greatest common divisor of its sides
LEMMA PresetUnits ==
  /\ Gcd(768, 768) = 768 /\ Gcd(1024, 1024) = 1024
  /\ Gcd(672, 840) = 168 /\ Gcd(896, 1120) = 224
  /\ Gcd(576, 1024) = 64 /\ Gcd(720, 1280) = 80
  /\ Gcd(1024, 576) = 64 /\ Gcd(1280, 720) = 80
<1>1. Gcd(768, 768) = 768
  <2>1. 768 = 1 * 768 + 0 * 768 /\ 768 % 768 = 0
    OBVIOUS
  <2> QED BY <2>1, GcdIs
<1>2. Gcd(1024, 1024) = 1024
  <2>1. 1024 = 1 * 1024 + 0 * 1024 /\ 1024 % 1024 = 0
    OBVIOUS
  <2> QED BY <2>1, GcdIs
<1>3. Gcd(672, 840) = 168
  <2>1. 168 = (-1) * 672 + 1 * 840 /\ 672 % 168 = 0 /\ 840 % 168 = 0
    OBVIOUS
  <2> QED BY <2>1, GcdIs
<1>4. Gcd(896, 1120) = 224
  <2>1. 224 = (-1) * 896 + 1 * 1120 /\ 896 % 224 = 0 /\ 1120 % 224 = 0
    OBVIOUS
  <2> QED BY <2>1, GcdIs
<1>5. Gcd(576, 1024) = 64
  <2>1. 64 = (-7) * 576 + 4 * 1024 /\ 576 % 64 = 0 /\ 1024 % 64 = 0
    OBVIOUS
  <2> QED BY <2>1, GcdIs
<1>6. Gcd(720, 1280) = 80
  <2>1. 80 = (-7) * 720 + 4 * 1280 /\ 720 % 80 = 0 /\ 1280 % 80 = 0
    OBVIOUS
  <2> QED BY <2>1, GcdIs
<1>7. Gcd(1024, 576) = 64
  <2>1. 64 = 4 * 1024 + (-7) * 576 /\ 576 % 64 = 0 /\ 1024 % 64 = 0
    OBVIOUS
  <2> QED BY <2>1, GcdIs
<1>8. Gcd(1280, 720) = 80
  <2>1. 80 = 4 * 1280 + (-7) * 720 /\ 720 % 80 = 0 /\ 1280 % 80 = 0
    OBVIOUS
  <2> QED BY <2>1, GcdIs
<1> QED BY <1>1, <1>2, <1>3, <1>4, <1>5, <1>6, <1>7, <1>8

\* What the rounding of the common unit of a size of p units by q does: the
\* scaled unit is on the grid, and it is near to what was asked for.
Near(scaled, unit, configured, default) ==
    \/ Distance(scaled * default, unit * configured) <= 4 * default
    \/ scaled = 8 /\ unit * configured < 8 * default

Rounded(X, D) == Max({8, ((X + D * 4) \div (D * 8)) * 8})

RoundedWell(scaled, X, D) ==
    /\ \E k \in Nat \ {0} : scaled = 8 * k
    /\ \/ Distance(scaled * D, X) <= 4 * D
       \/ scaled = 8 /\ X < 8 * D

\* Rounding gives a multiple of eight that is near.
LEMMA RoundsToGrid ==
  ASSUME NEW D \in {768, 1024}, NEW X \in Nat
  PROVE  RoundedWell(Rounded(X, D), X, D)
<1> DEFINE steps == (X + D * 4) \div (D * 8)
<1>1. steps \in Nat /\ D * 8 * steps <= X + D * 4 /\ X + D * 4 < D * 8 * steps + D * 8
  <2>1. CASE D = 768
    BY <2>1
  <2>2. CASE D = 1024
    BY <2>2
  <2> QED BY <2>1, <2>2
<1>2. PICK n \in Nat : steps = n
  BY <1>1
<1>6. PICK scaled : scaled = Rounded(X, D) /\ scaled = Max({8, n * 8})
  BY <1>2 DEF Rounded
<1> HIDE DEF steps
<1>3. scaled = IF n = 0 THEN 8 ELSE n * 8
  <2>1. 8 \in Int /\ n * 8 \in Int
    OBVIOUS
  <2>2. Max({8, n * 8}) = IF 8 < n * 8 THEN n * 8 ELSE 8
    BY <2>1, MaxOfTwo
  <2> QED BY <1>6, <2>2
<1>4. CASE n = 0
  <2>1. scaled = 8 /\ 8 = 8 * 1
    BY <1>3, <1>4
  <2>2. X < 8 * D
    BY <1>1, <1>2, <1>4
  <2> QED BY <2>1, <2>2, <1>6 DEF RoundedWell
<1>5. CASE n # 0
  <2>1. scaled = n * 8 /\ n * 8 = 8 * n /\ n \in Nat \ {0}
    BY <1>3, <1>5
  <2>2. Distance(n * 8 * D, X) <= 4 * D
    <3>1. CASE D = 768
      BY <1>1, <1>2, <3>1 DEF Distance
    <3>2. CASE D = 1024
      BY <1>1, <1>2, <3>2 DEF Distance
    <3> QED BY <3>1, <3>2
  <2> QED BY <2>1, <2>2, <1>6 DEF RoundedWell
<1> QED BY <1>4, <1>5

\* A size of p units by q
Units(w, h, p, q, unit) ==
    /\ w = p * unit /\ h = q * unit
    /\ w \div unit = p /\ h \div unit = q
    /\ Gcd(w, h) = unit

\* Model sizes are multiples of eight.
OnGrid(unit) == \E m \in Nat \ {0} : unit = 8 * m

\* A size of p by q units that are on the grid and near to what was asked for
InUnits(size, p, q, unit, c, D) ==
    \E k \in Nat \ {0} : /\ size = Size(p * (8 * k), q * (8 * k))
                         /\ Near(8 * k, unit, c, D)

\* Scaling keeps the ratio of a size: calculate_ratio_size().
LEMMA ScaledSize ==
  ASSUME NEW D \in {768, 1024}, NEW c \in Nat, NEW p \in Nat \ {0}, NEW q \in Nat \ {0},
         NEW unit \in Nat, NEW w \in Nat, NEW h \in Nat,
         OnGrid(unit), Units(w, h, p, q, unit)
  PROVE  InUnits(ScaleRatioSize(Size(w, h), c, D), p, q, unit, c, D)
<1>5. PICK m \in Nat \ {0} : unit = 8 * m
  BY DEF OnGrid
<1>1. unit * c \in Nat /\ unit * D \in Int
  <2>1. D \in Nat
    OBVIOUS
  <2> QED BY <2>1
<1>6. Gcd(w, h) = unit /\ w \div unit = p /\ h \div unit = q /\ w = p * unit /\ h = q * unit
  BY DEF Units
<1>7. Size(w, h).width = w /\ Size(w, h).height = h
  BY DEF Size
<1>2. PICK X \in Nat : X = unit * c
  BY <1>1
<1>3. CASE c = D
  <2>1. ScaleRatioSize(Size(w, h), c, D) = Size(p * (8 * m), q * (8 * m))
    BY <1>3, <1>5, <1>6 DEF ScaleRatioSize
  <2>2. Near(8 * m, unit, c, D)
    BY <1>1, <1>3, <1>5 DEF Near, Distance
  <2> QED BY <2>1, <2>2 DEF InUnits
<1>4. CASE c # D
  <2>5. PICK scaled : scaled = Rounded(X, D)
    OBVIOUS
  <2>6. RoundedWell(scaled, X, D)
    BY <2>5, RoundsToGrid
  <2>1. /\ \E k \in Nat \ {0} : scaled = 8 * k
        /\ \/ Distance(scaled * D, X) <= 4 * D
           \/ scaled = 8 /\ X < 8 * D
    BY <2>6 DEF RoundedWell
  <2>2. ScaleRatioSize(Size(w, h), c, D) = Size(p * scaled, q * scaled)
    BY <1>2, <1>4, <1>6, <1>7, <2>5 DEF ScaleRatioSize, Rounded
  <2>3. PICK k \in Nat \ {0} : scaled = 8 * k
    BY <2>1
  <2>4. Near(8 * k, unit, c, D)
    BY <1>2, <2>1, <2>3 DEF Near
  <2> QED BY <2>2, <2>3, <2>4 DEF InUnits
<1> QED BY <1>3, <1>4

\* The background and the composite of every format, in units of their ratio
Ratio(key, p, q, m, n) ==
    /\ ImagePresets[key].background = Size(p * (8 * m), q * (8 * m))
    /\ ImagePresets[key].composite = Size(p * (8 * n), q * (8 * n))
    /\ Gcd(p * (8 * m), q * (8 * m)) = 8 * m
    /\ Gcd(p * (8 * n), q * (8 * n)) = 8 * n
    /\ ImagePresets[key].export.width * q = ImagePresets[key].export.height * p

\* Every format has its ratio, with no common divisor left.
LEMMA Ratios ==
  /\ Ratio("thumbnail", 1, 1, 96, 128)
  /\ Ratio("sns_card", 4, 5, 21, 28)
  /\ Ratio("story_vertical", 9, 16, 8, 10)
  /\ Ratio("wide_banner", 16, 9, 8, 10)
<1>1. Ratio("thumbnail", 1, 1, 96, 128)
  BY PresetUnits DEF Ratio, ImagePresets, Size
<1>2. Ratio("sns_card", 4, 5, 21, 28)
  BY PresetUnits DEF Ratio, ImagePresets, Size
<1>3. Ratio("story_vertical", 9, 16, 8, 10)
  BY PresetUnits DEF Ratio, ImagePresets, Size
<1>4. Ratio("wide_banner", 16, 9, 8, 10)
  BY PresetUnits DEF Ratio, ImagePresets, Size
<1> QED BY <1>1, <1>2, <1>3, <1>4

\* Dividing a product by one of its factors
LEMMA DivideOut ==
  ASSUME NEW a \in Nat \ {0}, NEW b \in Nat
  PROVE  (a * b) \div a = b
<1>1. PICK c \in Nat : c = a * b
  OBVIOUS
<1>2. PICK d \in Int : d = c \div a
  BY <1>1
<1>3. a * d <= c /\ c < a * d + a
  BY <1>2
<1>4. a * d <= a * b /\ a * b < a * (d + 1)
  BY <1>1, <1>3
<1>5. d <= b /\ b < d + 1
  <2>1. ~ (d >= b + 1)
    <3> SUFFICES ASSUME d >= b + 1 PROVE FALSE
      OBVIOUS
    <3>1. PICK e \in Nat : d = b + 1 + e
      <4>1. d - (b + 1) \in Nat /\ d = b + 1 + (d - (b + 1))
        OBVIOUS
      <4> QED BY <4>1
    <3>2. a * d = a * b + a + a * e /\ a * e >= 0
      BY <3>1
    <3> QED BY <1>4, <3>2
  <2>2. ~ (b >= d + 1)
    <3> SUFFICES ASSUME b >= d + 1 PROVE FALSE
      OBVIOUS
    <3>1. PICK e \in Nat : b = d + 1 + e
      <4>1. b - (d + 1) \in Nat /\ b = d + 1 + (b - (d + 1))
        OBVIOUS
      <4> QED BY <4>1
    <3>2. a * b = a * (d + 1) + a * e /\ a * e >= 0
      BY <3>1
    <3> QED BY <1>4, <3>2
  <2> QED BY <2>1, <2>2
<1> QED BY <1>1, <1>2, <1>5

\* One size of a format, scaled to a reference D.
Default(size, p, q, m) ==
    /\ size = Size(p * (8 * m), q * (8 * m))
    /\ Gcd(p * (8 * m), q * (8 * m)) = 8 * m

Scaled(size, default, p, q, c, D) ==
    \E k \in Nat \ {0} :
      /\ size = Size(p * (8 * k), q * (8 * k))
      /\ Near((size.width * Gcd(default.width, default.height)) \div default.width,
              Gcd(default.width, default.height), c, D)

\* The unit of a scaled size can be read off the size.
LEMMA ScaledPreset ==
  ASSUME NEW D \in {768, 1024}, NEW c \in Nat, NEW p \in Nat \ {0}, NEW q \in Nat \ {0},
         NEW m \in Nat \ {0}, NEW default, Default(default, p, q, m)
  PROVE  Scaled(ScaleRatioSize(default, c, D), default, p, q, c, D)
<1>7. PICK size : size = ScaleRatioSize(default, c, D)
  OBVIOUS
<1>1. PICK u \in Nat \ {0} : u = 8 * m
  OBVIOUS
<1>2. PICK w \in Nat \ {0}, h \in Nat \ {0} : w = p * u /\ h = q * u
  <2>1. p * u \in Nat \ {0} /\ q * u \in Nat \ {0}
    OBVIOUS
  <2> QED BY <2>1
<1>3. w \div u = p /\ h \div u = q
  <2>1. w = u * p /\ h = u * q
    BY <1>2
  <2> QED BY <2>1, DivideOut
<1>4. default.width = w /\ default.height = h /\ default = Size(w, h) /\ Gcd(w, h) = u
  BY <1>1, <1>2 DEF Size, Default
<1>5. PICK k \in Nat \ {0} : size = Size(p * (8 * k), q * (8 * k)) /\ Near(8 * k, u, c, D)
  <2>1. Units(w, h, p, q, u)
    BY <1>2, <1>3, <1>4 DEF Units
  <2>3. OnGrid(u) /\ u \in Nat /\ w \in Nat /\ h \in Nat
    BY <1>1, <1>2 DEF OnGrid
  <2>2. InUnits(ScaleRatioSize(Size(w, h), c, D), p, q, u, c, D)
    BY <2>1, <2>3, ScaledSize, ZenonT(60)
  <2> QED BY <1>4, <1>7, <2>2 DEF InUnits
<1>6. (size.width * u) \div w = 8 * k
  <2>1. PICK s \in Nat : s = 8 * k
    OBVIOUS
  <2>2. size.width = p * s
    BY <1>5, <2>1 DEF Size
  <2>3. (p * s) * u = w * s
    BY <1>2
  <2>4. (w * s) \div w = s
    BY DivideOut
  <2> QED BY <2>1, <2>2, <2>3, <2>4
<1>8. Near((size.width * Gcd(default.width, default.height)) \div default.width,
           Gcd(default.width, default.height), c, D)
  BY <1>4, <1>5, <1>6
<1> QED BY <1>5, <1>7, <1>8 DEF Scaled

\* The answer to a question about the sizes of one format
LEMMA SizesHold ==
  ASSUME NEW key \in DOMAIN ImagePresets, NEW fast \in Nat, NEW full \in Nat,
         question = [kind |-> "sizes", key |-> key, fast |-> fast, full |-> full],
         NEW p \in Nat \ {0}, NEW q \in Nat \ {0}, NEW m \in Nat \ {0}, NEW n \in Nat \ {0},
         Ratio(key, p, q, m, n)
  PROVE  SizesShareRatio
<1>1. PICK preset : preset = ImagePresets[key]
  OBVIOUS
<1>2. PICK sizes : sizes = ResolveRuntimeImagePreset(key, fast, full)
  OBVIOUS
<1>3. /\ sizes.background = ScaleRatioSize(preset.background, fast, 768)
      /\ sizes.composite = ScaleRatioSize(preset.composite, full, 1024)
      /\ sizes.export = preset.export
  BY <1>1, <1>2 DEF ResolveRuntimeImagePreset, DefaultBackgroundReference,
                    DefaultCompositeReference, ImagePresets
<1>4. PICK k \in Nat \ {0} :
        /\ sizes.background = Size(p * (8 * k), q * (8 * k))
        /\ Near((sizes.background.width * Gcd(preset.background.width, preset.background.height))
                  \div preset.background.width,
                Gcd(preset.background.width, preset.background.height), fast, 768)
  <2>1. Default(preset.background, p, q, m)
    BY <1>1 DEF Ratio, Default
  <2>2. Scaled(sizes.background, preset.background, p, q, fast, 768)
    BY <1>3, <2>1, ScaledPreset
  <2> QED BY <2>2 DEF Scaled
<1>5. PICK l \in Nat \ {0} :
        /\ sizes.composite = Size(p * (8 * l), q * (8 * l))
        /\ Near((sizes.composite.width * Gcd(preset.composite.width, preset.composite.height))
                  \div preset.composite.width,
                Gcd(preset.composite.width, preset.composite.height), full, 1024)
  <2>1. Default(preset.composite, p, q, n)
    BY <1>1 DEF Ratio, Default
  <2>2. Scaled(sizes.composite, preset.composite, p, q, full, 1024)
    BY <1>3, <2>1, ScaledPreset
  <2> QED BY <2>2 DEF Scaled
<1>6. PICK s, t \in Nat : s = 8 * k /\ t = 8 * l /\ s % 8 = 0 /\ t % 8 = 0
  <2>1. 8 * k \in Nat /\ 8 * l \in Nat /\ (8 * k) % 8 = 0 /\ (8 * l) % 8 = 0
    OBVIOUS
  <2> QED BY <2>1
<1>7. /\ sizes.background.width = p * s /\ sizes.background.height = q * s
      /\ sizes.composite.width = p * t /\ sizes.composite.height = q * t
  BY <1>4, <1>5, <1>6 DEF Size
<1>8. SameRatio(sizes.background, sizes.composite)
  <2>1. (p * s) * (q * t) = (q * s) * (p * t)
    OBVIOUS
  <2> QED BY <1>7, <2>1 DEF SameRatio
<1>9. WithinOnePixel(sizes.composite, sizes.export)
  <2>1. PICK x, y \in Nat : x = sizes.export.width /\ y = sizes.export.height
    BY <1>1, <1>3 DEF ImagePresets, Size
  <2>2. x * q = y * p
    BY <1>1, <1>3, <2>1 DEF Ratio
  <2>3. (p * t) * y = (q * t) * x
    <3>1. (p * t) * y = t * (y * p) /\ (q * t) * x = t * (x * q)
      OBVIOUS
    <3> QED BY <2>2, <3>1
  <2>4. PICK a \in Int : a = (p * t) * y /\ a = (q * t) * x
    BY <2>3
  <2> QED BY <1>7, <2>1, <2>4 DEF WithinOnePixel, Distance
<1>10. ASSUME NEW a \in Nat, NEW i \in Nat  PROVE (a * (8 * i)) % 8 = 0
  <2>1. PICK b \in Nat : b = a * i
    OBVIOUS
  <2>2. a * (8 * i) = 8 * b
    BY <2>1
  <2> QED BY <2>2
<1>11. /\ sizes.background.width % 8 = 0 /\ sizes.background.height % 8 = 0
       /\ sizes.composite.width % 8 = 0 /\ sizes.composite.height % 8 = 0
  BY <1>4, <1>5, <1>10 DEF Size
<1>12. question.key = key /\ question.fast = fast /\ question.full = full
  OBVIOUS
<1> QED
  BY <1>1, <1>2, <1>4, <1>5, <1>8, <1>9, <1>11, <1>12
  DEF SizesShareRatio, Near, DefaultBackgroundReference, DefaultCompositeReference

\* The property SizesShareRatio, for every configuration of the model server:
\* the pictures of a format share their ratio and nobody refuses them.
THEOREM EverySizeFits == Spec => []SizesShareRatio
<1>1. QuestionOK => SizesShareRatio
  <2> SUFFICES ASSUME QuestionOK, question.kind = "sizes" PROVE SizesShareRatio
    BY DEF SizesShareRatio
  <2>1. PICK key \in DOMAIN ImagePresets, fast \in References, full \in References :
          question = [kind |-> "sizes", key |-> key, fast |-> fast, full |-> full]
    BY DEF QuestionOK
  <2>2. fast \in Nat /\ full \in Nat
    BY InputAssumption
  <2>3. key \in {"thumbnail", "sns_card", "story_vertical", "wide_banner"}
    BY DEF ImagePresets
  <2>4. \E p, q, m, n \in Nat \ {0} : Ratio(key, p, q, m, n)
    BY <2>3, Ratios
  <2> QED BY <2>1, <2>2, <2>4, SizesHold
<1> QED BY <1>1, QuestionsAsked, PTL

(***************************************************************************)
(* Exposure.                                                               *)
(***************************************************************************)
\* The smallest of one number
LEMMA MinOfOne ==
  ASSUME NEW i \in Int
  PROVE  Min({i}) = i
BY DEF Min

\* The minutes of the day that a slot covers, in numbers
InHours(i, m) ==
    \/ i = 1 /\ 360 <= m /\ m < 480
    \/ i = 2 /\ 480 <= m /\ m < 570
    \/ i = 3 /\ 570 <= m /\ m < 1080
    \/ i = 4 /\ 1080 <= m /\ m < 1170
    \/ i = 5 /\ 1170 <= m /\ m < 1320
    \/ i = 6 /\ (1320 <= m \/ m < 360)

\* The hours of a slot cover a minute of the day.
LEMMA HoursOfSlots ==
  ASSUME NEW m \in Int, NEW i \in 1..6
  PROVE  Covers(HourRange[TimeSlots[i]], m) <=> InHours(i, m)
<1>1. CASE i = 1
  BY <1>1 DEF Covers, HourRange, TimeSlots, InHours, At
<1>2. CASE i = 2
  BY <1>2 DEF Covers, HourRange, TimeSlots, InHours, At
<1>3. CASE i = 3
  BY <1>3 DEF Covers, HourRange, TimeSlots, InHours, At
<1>4. CASE i = 4
  BY <1>4 DEF Covers, HourRange, TimeSlots, InHours, At
<1>5. CASE i = 5
  BY <1>5 DEF Covers, HourRange, TimeSlots, InHours, At
<1>6. CASE i = 6
  BY <1>6 DEF Covers, HourRange, TimeSlots, InHours, At
<1> QED BY <1>1, <1>2, <1>3, <1>4, <1>5, <1>6

\* The slots share out the day: one of them covers a minute.
LEMMA SlotOfMinute ==
  ASSUME NEW t \in Int, NEW i \in 1..6, InHours(i, MinuteOfDay(t))
  PROVE  CurrentTimeSlot(t) = TimeSlots[i]
<1>1. PICK m \in 0..1439 : m = MinuteOfDay(t)
  BY DEF MinuteOfDay, MinutesPerDay
<1>2. \A k \in 1..6 : InHours(k, m) <=> k = i
  BY <1>1 DEF InHours
<1>3. DOMAIN TimeSlots = 1..6
  BY DEF TimeSlots
<1>4. {k \in DOMAIN TimeSlots : Covers(HourRange[TimeSlots[k]], MinuteOfDay(t))} = {i}
  BY <1>1, <1>2, <1>3, HoursOfSlots
<1>5. Min({i}) = i
  BY MinOfOne
<1> QED BY <1>4, <1>5 DEF CurrentTimeSlot

\* The window in which approve() accepts an activation time is the slot in
\* which exposure looks for a video.
LEMMA WindowsAgree ==
  ASSUME NEW t \in Int, NEW slot \in RushHourSlots
  PROVE  CurrentTimeSlot(t) = slot <=> Covers(SlotWindows[slot], MinuteOfDay(t))
<1>1. PICK m \in 0..1439 : m = MinuteOfDay(t)
  BY DEF MinuteOfDay, MinutesPerDay
<1>2. PICK i \in 1..6 : InHours(i, m)
  BY DEF InHours
<1>3. CurrentTimeSlot(t) = TimeSlots[i]
  BY <1>1, <1>2, SlotOfMinute
<1>4. slot \in {"commute_am", "commute_pm"}
  BY DEF RushHourSlots
<1>5. CASE slot = "commute_am"
  <2>1. TimeSlots[i] = slot <=> i = 2
    BY <1>5 DEF TimeSlots
  <2>2. Covers(SlotWindows[slot], m) <=> 480 <= m /\ m < 570
    BY <1>5 DEF Covers, SlotWindows, At
  <2>3. i = 2 <=> 480 <= m /\ m < 570
    BY <1>2 DEF InHours
  <2> QED BY <1>1, <1>3, <2>1, <2>2, <2>3
<1>6. CASE slot = "commute_pm"
  <2>1. TimeSlots[i] = slot <=> i = 4
    BY <1>6 DEF TimeSlots
  <2>2. Covers(SlotWindows[slot], m) <=> 1080 <= m /\ m < 1170
    BY <1>6 DEF Covers, SlotWindows, At
  <2>3. i = 4 <=> 1080 <= m /\ m < 1170
    BY <1>2 DEF InHours
  <2> QED BY <1>1, <1>3, <2>1, <2>2, <2>3
<1> QED BY <1>4, <1>5, <1>6

\* Which of two approved videos is shown
LEMMA NewestIsShown ==
  ASSUME NEW a \in Int, NEW t \in Int, a - MinutesPerDay <= t, NEW slot \in RushHourSlots
  PROVE  Exposed(slot, a, t).video =
           (IF ~Covers(SlotWindows[slot], MinuteOfDay(t)) THEN 0 ELSE IF t >= a THEN 2 ELSE 1)
<1> DEFINE video(at) == [product |-> "p", slot |-> slot, render |-> "completed",
                         approval |-> "approved", activation |-> at,
                         approvedAt |-> at, updatedAt |-> at]
           jobs == <<video(a - MinutesPerDay), video(a)>>
           now == CurrentTimeSlot(t)
           candidates == {i \in DOMAIN jobs : Eligible(jobs[i], "p", now, t)}
           newest == {i \in candidates : \A k \in candidates : ~Older(jobs[i], jobs[k])}
<1>1. Exposed(slot, a, t).video = PickVideoExposure("p", now, jobs, t)
  BY DEF Exposed, PickExposure
<1>2. MinutesPerDay = 1440
  BY DEF MinutesPerDay
<1>3. /\ DOMAIN jobs = 1..2
      /\ Eligible(jobs[1], "p", now, t) <=> slot = now
      /\ Eligible(jobs[2], "p", now, t) <=> slot = now /\ a <= t
  BY <1>2 DEF Eligible
<1>4. ~Older(jobs[1], jobs[1]) /\ ~Older(jobs[2], jobs[2]) /\ Older(jobs[1], jobs[2])
      /\ ~Older(jobs[2], jobs[1])
  BY <1>2 DEF Older
<1> HIDE DEF jobs
<1>5. CASE slot # now
  <2>1. candidates = {}
    BY <1>3, <1>5
  <2>2. PickVideoExposure("p", now, jobs, t) = 0
    BY <2>1 DEF PickVideoExposure
  <2> QED BY <1>1, <1>5, <2>2, WindowsAgree
<1>6. CASE slot = now /\ a <= t
  <2>1. candidates = {1, 2}
    BY <1>3, <1>6
  <2>2. newest = {2}
    BY <1>4, <2>1
  <2>3. PickVideoExposure("p", now, jobs, t) = Min({2})
    BY <1>6, <2>1, <2>2 DEF PickVideoExposure
  <2> QED BY <1>1, <1>6, <2>3, WindowsAgree, MinOfOne
<1>7. CASE slot = now /\ ~(a <= t)
  <2>1. candidates = {1}
    BY <1>3, <1>7
  <2>2. newest = {1}
    BY <1>4, <2>1
  <2>3. PickVideoExposure("p", now, jobs, t) = Min({1})
    BY <1>7, <2>1, <2>2 DEF PickVideoExposure
  <2> QED BY <1>1, <1>7, <2>3, WindowsAgree, MinOfOne
<1> QED BY <1>5, <1>6, <1>7

\* A time is a minute of a day.
OnSomeDay(t) ==
    \E day \in Nat, m \in 0..1439 : t = 1440 * day + m /\ MinuteOfDay(t) = m

LEMMA DayAndMinute ==
  ASSUME NEW t \in Nat
  PROVE  OnSomeDay(t)
<1>1. PICK d \in Int : d = t \div 1440
  OBVIOUS
<1>2. PICK r \in 0..1439 : r = t % 1440
  OBVIOUS
<1>3. t = 1440 * d + r
  BY <1>1, <1>2
<1>4. d \in Nat
  BY <1>3
<1>5. MinuteOfDay(t) = r
  BY <1>2 DEF MinuteOfDay, MinutesPerDay
<1> QED BY <1>3, <1>4, <1>5 DEF OnSomeDay

\* The time that the page proposes is one that approve() accepts, and the
\* beginning of the first window that can still be reached.
LEMMA ProposedTime ==
  ASSUME NEW slot \in RushHourSlots, NEW at \in Nat
  PROVE  LET proposed == DefaultActivationAt(slot, at)
         IN  /\ ScheduleAccepted(slot, proposed, at)
             /\ ~\E earlier \in at .. proposed - 1 :
                  /\ ScheduleAccepted(slot, earlier, at)
                  /\ MinuteOfDay(earlier) = SlotWindows[slot].start
<1>1. PICK day \in Nat, m \in 0..1439 : at = 1440 * day + m /\ MinuteOfDay(at) = m
  <2>1. OnSomeDay(at)
    BY DayAndMinute
  <2> QED BY <2>1 DEF OnSomeDay
<1>2. PICK start \in {480, 1080} :
        /\ SlotWindows[slot].start = start /\ SlotWindows[slot].end = start + 90
        /\ start = IF slot = "commute_am" THEN At(8, 0) ELSE At(18, 0)
  BY DEF RushHourSlots, SlotWindows, At
<1>3. PICK proposed \in Int :
        /\ proposed = DefaultActivationAt(slot, at)
        /\ proposed = IF 1440 * day + start < at + 10 THEN 1440 * (day + 1) + start
                        ELSE 1440 * day + start
  BY <1>1, <1>2 DEF DefaultActivationAt, MinutesPerDay
<1>4. MinuteOfDay(proposed) = start
  <2>1. (1440 * day + start) % 1440 = start /\ (1440 * (day + 1) + start) % 1440 = start
    BY <1>2
  <2> QED BY <1>3, <2>1 DEF MinuteOfDay, MinutesPerDay
<1>5. ScheduleAccepted(slot, proposed, at)
  BY <1>1, <1>2, <1>3, <1>4 DEF ScheduleAccepted, MinimumLeadTime
<1>6. ASSUME NEW earlier \in at .. proposed - 1, ScheduleAccepted(slot, earlier, at),
             MinuteOfDay(earlier) = start
      PROVE  FALSE
  <2>1. earlier \in Nat /\ earlier >= at + 10 /\ earlier < proposed
    BY <1>6 DEF ScheduleAccepted, MinimumLeadTime
  <2>2. PICK e \in Nat, n \in 0..1439 : earlier = 1440 * e + n /\ MinuteOfDay(earlier) = n
    <3>1. OnSomeDay(earlier)
      BY <2>1, DayAndMinute
    <3> QED BY <3>1 DEF OnSomeDay
  <2>3. n = start
    BY <1>6, <2>2
  <2> QED BY <1>1, <1>2, <1>3, <2>1, <2>2, <2>3
<1> QED BY <1>2, <1>3, <1>5, <1>6

\* Exposure at every minute since the predecessor's activation, where the
\* property below looks at the borders of a day: a video is shown in its slot
\* from its activation on, and its predecessor until then.
THEOREM EveryMinuteIsExposed ==
  Spec => [](question.kind = "schedule" =>
               \A t \in Int : question.at - MinutesPerDay <= t =>
                 Exposed(question.slot, question.at, t).video =
                   (IF ~Covers(SlotWindows[question.slot], MinuteOfDay(t)) THEN 0
                      ELSE IF t >= question.at THEN 2 ELSE 1))
<1>1. ASSUME QuestionOK, question.kind = "schedule", NEW t \in Int,
             question.at - MinutesPerDay <= t
      PROVE  Exposed(question.slot, question.at, t).video =
               (IF ~Covers(SlotWindows[question.slot], MinuteOfDay(t)) THEN 0
                  ELSE IF t >= question.at THEN 2 ELSE 1)
  <2>1. PICK slot \in RushHourSlots, at \in Times :
          question = [kind |-> "schedule", slot |-> slot, at |-> at]
    BY <1>1 DEF QuestionOK
  <2>2. at \in Int /\ question.slot = slot /\ question.at = at
    BY <2>1, InputAssumption
  <2> QED BY <1>1, <2>2, NewestIsShown
<1>2. QuestionOK => (question.kind = "schedule" =>
               \A t \in Int : question.at - MinutesPerDay <= t =>
                 Exposed(question.slot, question.at, t).video =
                   (IF ~Covers(SlotWindows[question.slot], MinuteOfDay(t)) THEN 0
                      ELSE IF t >= question.at THEN 2 ELSE 1))
  BY <1>1
<1> QED BY <1>2, QuestionsAsked, PTL

\* The property AcceptedActivationIsExposed: an activation time that is accepted
\* is honoured at the borders of its day, and the page proposes the first one.
THEOREM EveryActivationIsExposed == Spec => []AcceptedActivationIsExposed
<1>1. QuestionOK => AcceptedActivationIsExposed
  <2> SUFFICES ASSUME QuestionOK, question.kind = "schedule"
               PROVE  AcceptedActivationIsExposed
    BY DEF AcceptedActivationIsExposed
  <2>1. PICK slot \in RushHourSlots, at \in Times :
          question = [kind |-> "schedule", slot |-> slot, at |-> at]
    BY DEF QuestionOK
  <2>2. at \in Nat /\ question.slot = slot /\ question.at = at
    BY <2>1, InputAssumption
  <2>3. /\ ScheduleAccepted(slot, DefaultActivationAt(slot, at), at)
        /\ ~\E earlier \in at .. DefaultActivationAt(slot, at) - 1 :
             /\ ScheduleAccepted(slot, earlier, at)
             /\ MinuteOfDay(earlier) = SlotWindows[slot].start
    BY <2>2, ProposedTime
  <2>4. ASSUME NEW t \in Borders(slot, at)
        PROVE  t \in Int /\ at - MinutesPerDay <= t
    <3>1. PICK start \in {480, 1080} :
            SlotWindows[slot].start = start /\ SlotWindows[slot].end = start + 90
      BY DEF RushHourSlots, SlotWindows, At
    <3>2. PICK day \in Int : day = at - MinuteOfDay(at) /\ day <= at /\ at < day + 1440
      <4>1. at % 1440 \in 0..1439
        BY <2>2
      <4> QED BY <2>2, <4>1 DEF MinuteOfDay, MinutesPerDay
    <3>3. t \in UNION {{border - 1, border} :
                         border \in {at, day, day + start, day + (start + 90), day + 1440}}
      BY <3>1, <3>2 DEF Borders, MinutesPerDay
    <3>4. PICK border \in {at, day, day + start, day + (start + 90), day + 1440} :
            t = border - 1 \/ t = border
      BY <3>3
    <3>5. border \in Int /\ border >= day
      BY <2>2, <3>1, <3>2, <3>4
    <3> QED BY <2>2, <3>2, <3>4, <3>5 DEF MinutesPerDay
  <2>5. \A t \in Borders(slot, at) :
          Exposed(slot, at, t).video =
            (IF ~Covers(SlotWindows[slot], MinuteOfDay(t)) THEN 0
               ELSE IF t >= at THEN 2 ELSE 1)
    BY <2>2, <2>4, NewestIsShown
  <2> QED BY <2>2, <2>3, <2>5 DEF AcceptedActivationIsExposed
<1> QED BY <1>1, QuestionsAsked, PTL

(***************************************************************************)
(* Speeches.                                                               *)
(***************************************************************************)
\* How the fold over four timings goes on: the greatest place comes last.
Step(f, g, s) ==
    IF s = {} THEN 0 ELSE g[s \ {Max(s)}] + f[Max(s)].segment

Folds4(f, g) == g = [s \in SUBSET (1..4) |-> Step(f, g, s)]

Counted(f, s, i) == IF i \in s THEN f[i].segment ELSE 0

\* The total length of four scenes
LEMMA FoldOfFour ==
  ASSUME NEW f, DOMAIN f = 1..4, \A i \in 1..4 : f[i].segment \in Int
  PROVE  FoldLeft(LAMBDA sum, timing : sum + timing.segment, 0, f)
           = f[1].segment + f[2].segment + f[3].segment + f[4].segment
<1> DEFINE g == CHOOSE h : Folds4(f, h)
           total(s) == Counted(f, s, 1) + Counted(f, s, 2) + Counted(f, s, 3) + Counted(f, s, 4)
           w == [s \in SUBSET (1..4) |-> total(s)]
<1>1. FoldLeft(LAMBDA sum, timing : sum + timing.segment, 0, f) = g[1..4]
  BY DEF FoldLeft, MapThenFoldSet, Folds4, Step
<1>2. ASSUME NEW s \in SUBSET (1..4), s # {}
      PROVE  Max(s) \in s /\ \A i \in s : i <= Max(s)
  <2>1. \E i \in s : \A k \in s : i >= k
    <3>1. CASE 4 \in s
      BY <3>1
    <3>2. CASE 4 \notin s /\ 3 \in s
      BY <3>2
    <3>3. CASE 4 \notin s /\ 3 \notin s /\ 2 \in s
      BY <3>3
    <3>4. CASE 4 \notin s /\ 3 \notin s /\ 2 \notin s
      <4>1. \A i \in s : i = 1
        BY <3>4
      <4>2. 1 \in s
        BY <1>2, <4>1
      <4> QED BY <4>1, <4>2
    <3> QED BY <3>1, <3>2, <3>3, <3>4
  <2> QED BY <2>1 DEF Max
<1>3. ASSUME NEW s \in SUBSET (1..4)  PROVE w[s] = Step(f, w, s)
  <2>1. \A i \in 1..4 : Counted(f, s, i) \in Int
    BY DEF Counted
  <2>2. CASE s = {}
    BY <2>2 DEF Step, Counted
  <2>3. CASE s # {}
    <3>1. PICK m \in 1..4 : m = Max(s) /\ m \in s
      BY <1>2, <2>3
    <3>2. \A i \in 1..4 : i # m => Counted(f, s \ {m}, i) = Counted(f, s, i)
      BY DEF Counted
    <3>3. Counted(f, s \ {m}, m) = 0 /\ Counted(f, s, m) = f[m].segment
      BY <3>1 DEF Counted
    <3>4. w[s] = total(s) /\ w[s \ {m}] = total(s \ {m})
      OBVIOUS
    <3>5. total(s \ {m}) + f[m].segment = total(s)
      <4>1. m = 1 \/ m = 2 \/ m = 3 \/ m = 4
        BY <3>1
      <4>2. f[m].segment \in Int
        OBVIOUS
      <4> QED BY <2>1, <3>2, <3>3, <4>1, <4>2
    <3> HIDE DEF w, total
    <3> QED BY <2>3, <3>1, <3>4, <3>5 DEF Step
  <2> QED BY <2>2, <2>3
<1>4. Folds4(f, w)
  <2>1. w = [s \in SUBSET (1..4) |-> w[s]]
    OBVIOUS
  <2> HIDE DEF w
  <2> QED BY <1>3, <2>1 DEF Folds4
<1>5. Folds4(f, g)
  <2> HIDE DEF w
  <2> QED BY <1>4
<1> HIDE DEF g
<1>6. \A s \in SUBSET (1..4) : g[s] = Step(f, g, s)
  BY <1>5 DEF Folds4
<1>7. g[{}] = 0
  BY <1>6 DEF Step
<1>8. ASSUME NEW i \in 1..4  PROVE g[1..i] = g[1..i - 1] + f[i].segment
  <2>1. 1..i \in SUBSET (1..4) /\ 1..i # {} /\ i \in 1..i
    OBVIOUS
  <2>2. Max(1..i) \in 1..i /\ i <= Max(1..i)
    BY <1>2, <2>1
  <2>3. Max(1..i) = i
    BY <2>2
  <2>4. (1..i) \ {i} = 1..i - 1
    OBVIOUS
  <2> QED BY <1>6, <2>1, <2>3, <2>4 DEF Step
<1>9. /\ g[1..4] = g[1..3] + f[4].segment /\ g[1..3] = g[1..2] + f[3].segment
      /\ g[1..2] = g[1..1] + f[2].segment /\ g[1..1] = g[1..0] + f[1].segment
  <2>1. \A i \in 1..4 : g[1..i] = g[1..i - 1] + f[i].segment
    BY <1>8
  <2>2. 4 - 1 = 3 /\ 3 - 1 = 2 /\ 2 - 1 = 1 /\ 1 - 1 = 0
    OBVIOUS
  <2> QED BY <2>1, <2>2
<1>10. 1..0 = {}
  OBVIOUS
<1>11. PICK a, b, c, d \in Int :
          a = f[1].segment /\ b = f[2].segment /\ c = f[3].segment /\ d = f[4].segment
  <2>1. f[1].segment \in Int /\ f[2].segment \in Int
        /\ f[3].segment \in Int /\ f[4].segment \in Int
    OBVIOUS
  <2> QED BY <2>1
<1>12. g[1..4] = a + b + c + d
  BY <1>7, <1>9, <1>10, <1>11
<1> QED BY <1>1, <1>11, <1>12

\* Every script has the same kinds of scenes.
LEMMA Scenes ==
  /\ DOMAIN ComicScript = 1..4
  /\ \A i \in 1..4 : SceneDuration[ComicScript[i]] =
                       (IF i <= 2 THEN 50 ELSE 60)
  /\ \A i \in 1..4 : SceneSilence(ComicScript[i]) = (IF i = 2 THEN 10 ELSE 2)
<1>1. DOMAIN ComicScript = 1..4 /\ ComicScript[1] = "intro" /\ ComicScript[2] = "self_aware"
      /\ ComicScript[3] = "benefit" /\ ComicScript[4] = "cta"
  BY DEF ComicScript
<1>2. ASSUME NEW i \in 1..4
      PROVE  SceneDuration[ComicScript[i]] = (IF i <= 2 THEN 50 ELSE 60)
  BY <1>1 DEF SceneDuration
<1>3. ASSUME NEW i \in 1..4
      PROVE  SceneSilence(ComicScript[i]) = (IF i = 2 THEN 10 ELSE 2)
  BY <1>1 DEF SceneSilence, DeadpanSilence, BaseSilence
<1> QED BY <1>1, <1>2, <1>3

\* The answer to a question about four speeches
LEMMA SpeechHolds ==
  ASSUME NEW speeches \in [1..4 -> Nat], question.speeches = speeches
  PROVE  SpeechIsWhole
<1> SUFFICES ASSUME \A i \in 1..4 : speeches[i] > 0  PROVE SpeechIsWhole
  BY DEF SpeechIsWhole
<1>1. PICK timings : timings = SegmentTimings(speeches)
  OBVIOUS
<1> DEFINE d(i) == IF i <= 2 THEN 50 ELSE 60
           q(i) == IF i = 2 THEN 10 ELSE 2
<1>2. ASSUME NEW i \in 1..4
      PROVE  /\ timings[i].pre = q(i)
             /\ timings[i].segment = (IF d(i) < speeches[i] + 2 * q(i)
                                        THEN speeches[i] + 2 * q(i) ELSE d(i))
             /\ timings[i].post = timings[i].segment - speeches[i] - timings[i].pre
  <2>1. timings[i] = SegmentTiming(ComicScript[i], speeches[i])
    BY <1>1, Scenes DEF SegmentTimings
  <2>2. Max({d(i), speeches[i] + 2 * q(i)}) =
          (IF d(i) < speeches[i] + 2 * q(i) THEN speeches[i] + 2 * q(i) ELSE d(i))
    BY MaxOfTwo
  <2>3. SceneDuration[ComicScript[i]] = d(i) /\ SceneSilence(ComicScript[i]) = q(i)
    BY Scenes
  <2> HIDE DEF d, q
  <2> QED BY <2>1, <2>2, <2>3 DEF SegmentTiming
<1>3. EstimatedDuration(speeches) = timings[1].segment + timings[2].segment
                                      + timings[3].segment + timings[4].segment
  <2>1. DOMAIN timings = 1..4
    BY <1>1, Scenes DEF SegmentTimings
  <2>2. \A i \in 1..4 : timings[i].segment \in Int
    BY <1>2
  <2>3. EstimatedDuration(speeches)
          = FoldLeft(LAMBDA sum, timing : sum + timing.segment, 0, timings)
    BY <1>1 DEF EstimatedDuration
  <2> QED BY <2>1, <2>2, <2>3, FoldOfFour
<1>4. PICK a, b, c, e \in Nat : /\ a = timings[1].segment /\ b = timings[2].segment
                                /\ c = timings[3].segment /\ e = timings[4].segment
  <2>1. \A i \in 1..4 : timings[i].segment \in Nat
    BY <1>2
  <2>2. /\ timings[1].segment \in Nat /\ timings[2].segment \in Nat
        /\ timings[3].segment \in Nat /\ timings[4].segment \in Nat
    BY <2>1
  <2> QED BY <2>2
<1>5. EstimatedDuration(speeches) = a + b + c + e /\ a + b + c + e >= 220
  <2>1. \A i \in 1..4 : timings[i].segment >= d(i)
    BY <1>2
  <2>2. a >= 50 /\ b >= 50 /\ c >= 60 /\ e >= 60
    BY <1>4, <2>1
  <2> QED BY <1>3, <1>4, <2>2
<1>6. SpeechAccepted(speeches) <=> a + b + c + e <= 301
  <2>1. Len(speeches) = 4 /\ DOMAIN speeches = 1..4
    OBVIOUS
  <2> QED BY <1>5, <2>1 DEF SpeechAccepted, MinVideoDuration, MaxVideoDuration
<1>7. ASSUME NEW i \in 1..4
      PROVE  /\ timings[i].pre >= SceneSilence(ComicScript[i])
             /\ timings[i].post >= SceneSilence(ComicScript[i])
             /\ timings[i].segment = timings[i].pre + speeches[i] + timings[i].post
  <2>1. SceneSilence(ComicScript[i]) = q(i)
    BY Scenes
  <2> QED BY <1>2, <2>1
<1>8. ASSUME \A i \in 1..4 : speeches[i] + 2 * SceneSilence(ComicScript[i])
                               <= SceneDuration[ComicScript[i]]
      PROVE  SpeechAccepted(speeches)
  <2>1. \A i \in 1..4 : timings[i].segment = d(i)
    BY <1>2, <1>8, Scenes
  <2>2. a = 50 /\ b = 50 /\ c = 60 /\ e = 60
    BY <1>4, <2>1
  <2> QED BY <1>6, <2>2
<1>9. ~SpeechAccepted(speeches) => EstimatedDuration(speeches) > MaxVideoDuration
  BY <1>5, <1>6 DEF MaxVideoDuration
<1> QED BY <1>1, <1>7, <1>8, <1>9 DEF SpeechIsWhole

\* The property SpeechIsWhole, for speeches of every length: no speech is cut,
\* and a short is refused only because its speeches are too long.
THEOREM EverySpeechIsWhole == Spec => []SpeechIsWhole
<1>1. QuestionOK => SpeechIsWhole
  <2> SUFFICES ASSUME QuestionOK, question.kind = "timing"  PROVE SpeechIsWhole
    BY DEF SpeechIsWhole
  <2>1. PICK speeches \in [1..4 -> SpeechLengths] :
          question = [kind |-> "timing", speeches |-> speeches]
    BY DEF QuestionOK
  <2>2. speeches \in [1..4 -> Nat] /\ question.speeches = speeches
    BY <2>1, InputAssumption
  <2> QED BY <2>2, SpeechHolds
<1> QED BY <1>1, QuestionsAsked, PTL

(***************************************************************************)
(* Downloads.                                                              *)
(***************************************************************************)
\* A place in a table of L rows and T columns
LEMMA DivModRange ==
  ASSUME NEW T \in Nat \ {0}, NEW L \in Nat, NEW n \in Nat, n < L * T
  PROVE  \E d \in 0..L - 1, r \in 0..T - 1 : d = n \div T /\ r = n % T /\ n = T * d + r
<1>1. PICK d \in Int : d = n \div T
  OBVIOUS
<1>2. PICK r \in Int : r = n % T
  OBVIOUS
<1>3. r \in 0..T - 1 /\ n = T * d + r
  BY <1>1, <1>2
<1>4. d >= 0
  <2> SUFFICES ASSUME d < 0 PROVE FALSE
    OBVIOUS
  <2>1. PICK e \in Nat : d = -1 - e
    <3>1. -1 - d \in Nat /\ d = -1 - (-1 - d)
      OBVIOUS
    <3> QED BY <3>1
  <2>2. T * d = -T - T * e /\ T * e >= 0
    BY <2>1
  <2> QED BY <1>3, <2>2
<1>5. d < L
  <2> SUFFICES ASSUME d >= L PROVE FALSE
    OBVIOUS
  <2>1. PICK e \in Nat : d = L + e
    <3>1. d - L \in Nat /\ d = L + (d - L)
      OBVIOUS
    <3> QED BY <3>1
  <2>2. T * d = L * T + T * e /\ T * e >= 0
    BY <2>1
  <2> QED BY <1>3, <2>2
<1>6. d \in 0..L - 1
  BY <1>4, <1>5
<1> QED BY <1>1, <1>2, <1>3, <1>6

\* A plan without repetitions has each pair of a slot and a tone in one place.
LEMMA PlanIsInjective ==
  ASSUME NEW request, NEW X, NEW Y, request.tones \in Seq(X), request.slots \in Seq(Y),
         IsInjective(request.tones), IsInjective(request.slots)
  PROVE  /\ \A i \in DOMAIN Plan(request) : i \in Nat /\ Plan(request)[i].slot \in Y
         /\ \A i, k \in DOMAIN Plan(request) :
              /\ Plan(request)[i].slot = Plan(request)[k].slot
              /\ Plan(request)[i].tone = Plan(request)[k].tone
              => i = k
<1>1. PICK T \in Nat : T = Len(request.tones) /\ DOMAIN request.tones = 1..T
  OBVIOUS
<1>2. PICK L \in Nat : L = Len(request.slots) /\ DOMAIN request.slots = 1..L
  OBVIOUS
<1>3. L * T \in Nat
  OBVIOUS
<1>4. /\ DOMAIN Plan(request) = 1..L * T
      /\ \A i \in 1..L * T :
           Plan(request)[i] = [slot |-> request.slots[((i - 1) \div T) + 1],
                               tone |-> request.tones[((i - 1) % T) + 1]]
  BY <1>1, <1>2 DEF Plan
<1>5. ASSUME NEW i \in 1..L * T
      PROVE  \E d \in 0..L - 1, r \in 0..T - 1 :
               d = (i - 1) \div T /\ r = (i - 1) % T /\ i - 1 = T * d + r
  <2>1. i - 1 \in Nat /\ i - 1 < L * T
    BY <1>3
  <2>2. T # 0
    <3> SUFFICES ASSUME T = 0 PROVE FALSE
      OBVIOUS
    <3>1. L * T = 0
      OBVIOUS
    <3> QED BY <2>1, <3>1
  <2> QED BY <2>1, <2>2, DivModRange
<1>6. ASSUME NEW i \in 1..L * T, NEW k \in 1..L * T,
             Plan(request)[i].slot = Plan(request)[k].slot,
             Plan(request)[i].tone = Plan(request)[k].tone
      PROVE  i = k
  <2>1. PICK d \in 0..L - 1, r \in 0..T - 1 :
          d = (i - 1) \div T /\ r = (i - 1) % T /\ i - 1 = T * d + r
    BY <1>5
  <2>2. PICK e \in 0..L - 1, s \in 0..T - 1 :
          e = (k - 1) \div T /\ s = (k - 1) % T /\ k - 1 = T * e + s
    BY <1>5
  <2>3. request.slots[d + 1] = request.slots[e + 1]
        /\ request.tones[r + 1] = request.tones[s + 1]
    <3>1. /\ Plan(request)[i].slot = request.slots[d + 1]
          /\ Plan(request)[i].tone = request.tones[r + 1]
      BY <1>4, <2>1
    <3>2. /\ Plan(request)[k].slot = request.slots[e + 1]
          /\ Plan(request)[k].tone = request.tones[s + 1]
      BY <1>4, <2>2
    <3> QED BY <1>6, <3>1, <3>2
  <2>4. d + 1 \in 1..L /\ e + 1 \in 1..L /\ r + 1 \in 1..T /\ s + 1 \in 1..T
    OBVIOUS
  <2>5. d + 1 = e + 1 /\ r + 1 = s + 1
    BY <1>1, <1>2, <2>3, <2>4 DEF IsInjective
  <2>6. d = e /\ r = s
    BY <2>5
  <2>7. i \in Int /\ k \in Int
    BY <1>3
  <2>8. i - 1 = k - 1
    BY <2>1, <2>2, <2>6
  <2> QED BY <2>7, <2>8
<1>7. ASSUME NEW i \in 1..L * T  PROVE i \in Nat /\ Plan(request)[i].slot \in Y
  <2>1. PICK d \in 0..L - 1, r \in 0..T - 1 : d = (i - 1) \div T /\ r = (i - 1) % T
    BY <1>5
  <2>2. d + 1 \in 1..L
    OBVIOUS
  <2>3. request.slots[d + 1] \in Y
    BY <1>2, <2>2
  <2>4. Plan(request)[i].slot = request.slots[d + 1]
    BY <1>4, <2>1
  <2> QED BY <1>3, <2>3, <2>4
<1> QED BY <1>4, <1>6, <1>7

\* The answer to a question about an archive
LEMMA ArchiveHolds ==
  ASSUME NEW request, NEW missing, NEW X, request.tones \in Seq(X), request.slots \in Seq(Slots),
         question = [kind |-> "archive", request |-> request, missing |-> missing]
  PROVE  ArchiveKeepsEveryImage
<1> DEFINE plan == Plan(request)
           stored == Images(request) \ {missing}
           archive == Archive(plan, stored)
<1> SUFFICES ASSUME IsInjective(request.tones), IsInjective(request.slots),
                    NEW image \in stored
             PROVE  LET item == plan[image[1]]
                    IN  /\ Unpacked(archive, ArchiveName(item, image[2])) = image
                        /\ DownloadOne(plan, request.formats, stored, item.tone, image[2],
                                       item.slot) = image
  <2>1. question.request = request /\ question.missing = missing
    OBVIOUS
  <2> QED BY <2>1 DEF ArchiveKeepsEveryImage
<1>1. /\ \A i \in DOMAIN plan : i \in Nat /\ plan[i].slot \in Slots
      /\ \A i, k \in DOMAIN plan :
           plan[i].slot = plan[k].slot /\ plan[i].tone = plan[k].tone => i = k
  BY PlanIsInjective
<1> HIDE DEF plan
<1>2. \A im \in stored : /\ im = <<im[1], im[2]>> /\ im[1] \in DOMAIN plan
                         /\ im[2] \in Range(request.formats)
  BY DEF Images, plan
<1> HIDE DEF stored
<1>3. PICK i \in DOMAIN plan, f \in Range(request.formats) : image = <<i, f>>
  BY <1>2
<1>4. Unpacked(archive, ArchiveName(plan[i], f)) = image
  <2>1. [name |-> ArchiveName(plan[i], f), image |-> image] \in archive
    <3>1. image[1] = i /\ image[2] = f
      BY <1>3
    <3> QED BY <3>1 DEF Archive
  <2>2. image \in {entry.image : entry \in archive}
    BY <2>1
  <2>3. ASSUME NEW im, [name |-> ArchiveName(plan[i], f), image |-> im] \in archive
        PROVE  im = image
    <3>1. PICK other \in stored :
            [name |-> ArchiveName(plan[i], f), image |-> im]
              = [name |-> ArchiveName(plan[other[1]], other[2]), image |-> other]
      BY <2>3 DEF Archive
    <3>2. im = other /\ ArchiveName(plan[i], f) = ArchiveName(plan[other[1]], other[2])
      BY <3>1
    <3>3. plan[i].slot = plan[other[1]].slot /\ plan[i].tone = plan[other[1]].tone
          /\ f = other[2]
      BY <3>2 DEF ArchiveName
    <3>4. other[1] \in DOMAIN plan /\ other = <<other[1], other[2]>>
      BY <1>2
    <3>5. other[1] = i
      BY <1>1, <3>3, <3>4
    <3> QED BY <1>3, <3>2, <3>3, <3>4, <3>5
  <2> HIDE DEF archive
  <2> QED BY <2>1, <2>2, <2>3 DEF Unpacked
<1>5. DownloadOne(plan, request.formats, stored, plan[i].tone, f, plan[i].slot) = image
  <2> DEFINE matching == {k \in DOMAIN plan : /\ plan[k].tone = plan[i].tone
                                              /\ plan[i].slot \in {NoSlot, plan[k].slot}}
  <2>1. plan[i].slot # NoSlot
    BY <1>1, InputAssumption
  <2>2. matching = {i}
    BY <1>1, <2>1
  <2>3. Min(matching) = i
    BY <1>1, <2>2, MinOfOne
  <2>4. <<Min(matching), f>> = image
    BY <1>3, <2>3
  <2> QED BY <2>2, <2>4 DEF DownloadOne
<1> QED BY <1>3, <1>4, <1>5

\* The property ArchiveKeepsEveryImage, for all requests that repeat no tone
\* and no slot: no image hides another in the archive or in a download.
THEOREM EveryImageIsKept == Spec => []ArchiveKeepsEveryImage
<1>1. QuestionOK => ArchiveKeepsEveryImage
  <2> SUFFICES ASSUME QuestionOK, question.kind = "archive"  PROVE ArchiveKeepsEveryImage
    BY DEF ArchiveKeepsEveryImage
  <2>1. PICK request \in Requests : \E missing \in Images(request) \cup {NotFound} :
          question = [kind |-> "archive", request |-> request, missing |-> missing]
    BY DEF QuestionOK
  <2>2. request.tones \in Seq(Tones) /\ request.slots \in Seq(Slots)
    BY DEF Requests
  <2> QED BY <2>1, <2>2, ArchiveHolds
<1> QED BY <1>1, QuestionsAsked, PTL

(***************************************************************************)
(* Shorts and their sources.                                               *)
(***************************************************************************)
\* Induction over the numbers, for a set of numbers
LEMMA AllNumbers ==
  ASSUME NEW T, 0 \in T, \A n \in Nat : n \in T => n + 1 \in T
  PROVE  Nat \subseteq T
<1> SUFFICES ASSUME NEW n \in Nat, n \notin T  PROVE FALSE
  OBVIOUS
<1> DEFINE Missing == Nat \ T
<1>1. PICK m \in Missing : \A k \in 0..m - 1 : k \notin Missing
  <2> DEFINE Less == OpToRel(<, Nat)
  <2>1. Missing \subseteq Nat /\ Missing # {}
    OBVIOUS
  <2>2. IsWellFoundedOn(Less, Nat)
    BY NatLessThanWellFounded
  <2>3. \A k, i \in Nat : k < i => <<k, i>> \in Less
    BY DEF OpToRel
  <2> HIDE DEF Missing, Less
  <2>4. PICK m \in Missing : \A k \in Missing : ~(<<k, m>> \in Less)
    BY <2>1, <2>2, WFMin
  <2>5. ASSUME NEW k \in 0..m - 1, k \in Missing  PROVE FALSE
    <3>1. m \in Nat /\ k \in Nat /\ k < m
      BY <2>1
    <3> QED BY <2>3, <2>4, <2>5, <3>1
  <2> QED BY <2>5
<1>2. m # 0 /\ m - 1 \in Nat /\ m - 1 \in 0..m - 1 /\ (m - 1) + 1 = m
  BY <1>1
<1> QED BY <1>1, <1>2

\* A set of places has a greatest one.
LEMMA MaxIsIn ==
  ASSUME NEW n \in Nat, NEW s \in SUBSET (1..n), s # {}
  PROVE  Max(s) \in s /\ \A i \in s : i <= Max(s)
<1> DEFINE HasMax(t) == \E i \in t : \A k \in t : i >= k
           T == {m \in Nat : \A t \in SUBSET (1..m) : t # {} => HasMax(t)}
<1>1. 0 \in T
  <2>1. \A t \in SUBSET (1..0) : t = {}
    OBVIOUS
  <2> QED BY <2>1
<1>2. ASSUME NEW m \in Nat, m \in T  PROVE m + 1 \in T
  <2> SUFFICES ASSUME NEW t \in SUBSET (1..m + 1), t # {}  PROVE HasMax(t)
    OBVIOUS
  <2>1. CASE m + 1 \in t
    BY <2>1
  <2>2. CASE m + 1 \notin t
    <3>1. t \in SUBSET (1..m)
      BY <2>2
    <3> QED BY <1>2, <3>1
  <2> QED BY <2>1, <2>2
<1>3. n \in T
  <2> HIDE DEF T
  <2> QED BY <1>1, <1>2, AllNumbers
<1>4. HasMax(s)
  BY <1>3
<1> QED BY <1>4 DEF Max

\* The greatest of the first places
LEMMA UpTo ==
  ASSUME NEW k \in Nat
  PROVE  Max(1..k + 1) = k + 1 /\ (1..k + 1) \ {k + 1} = 1..k
<1>1. k + 1 \in 1..k + 1 /\ k + 1 \in Nat
  OBVIOUS
<1>2. 1..k + 1 \in SUBSET (1..k + 1) /\ 1..k + 1 # {}
  BY <1>1
<1>3. Max(1..k + 1) \in 1..k + 1 /\ \A i \in 1..k + 1 : i <= Max(1..k + 1)
  BY <1>1, <1>2, MaxIsIn
<1>4. Max(1..k + 1) = k + 1
  BY <1>1, <1>3
<1>5. (1..k + 1) \ {k + 1} = 1..k
  OBVIOUS
<1> QED BY <1>4, <1>5

\* A fold from left to right is a function over sets of places, and takes the
\* greatest place last; F is what it does at a place, made a function.
Folded(base, F, g, s) ==
    IF s = {} THEN base ELSE F[<<g[s \ {Max(s)}], Max(s)>>]

CanFold(A, base, F, n) ==
    \E g \in [SUBSET (1..n) -> A] :
      \A s \in SUBSET (1..n) : g[s] = Folded(base, F, g, s)

\* A fold over n places is defined: there is a function that goes on from a set
\* without its greatest place to the set with it.
LEMMA FoldExists ==
  ASSUME NEW A, NEW base \in A, NEW n \in Nat, NEW F \in [A \X (1..n) -> A]
  PROVE  CanFold(A, base, F, n)
<1> DEFINE T == {m \in Nat : m <= n => CanFold(A, base, F, m)}
<1>1. 0 \in T
  <2> DEFINE g == [s \in SUBSET (1..0) |-> base]
  <2>1. \A s \in SUBSET (1..0) : s = {} /\ g[s] = base
    OBVIOUS
  <2>2. g \in [SUBSET (1..0) -> A]
    OBVIOUS
  <2> HIDE DEF g
  <2>3. \A s \in SUBSET (1..0) : g[s] = Folded(base, F, g, s)
    BY <2>1 DEF Folded
  <2> QED BY <2>2, <2>3 DEF CanFold
<1>2. ASSUME NEW m \in Nat, m \in T  PROVE m + 1 \in T
  <2> SUFFICES ASSUME m + 1 <= n  PROVE CanFold(A, base, F, m + 1)
    OBVIOUS
  <2>1. PICK h \in [SUBSET (1..m) -> A] :
          \A s \in SUBSET (1..m) : h[s] = Folded(base, F, h, s)
    <3>1. CanFold(A, base, F, m)
      BY <1>2
    <3> QED BY <3>1 DEF CanFold
  <2> DEFINE rest(s) == s \ {m + 1}
             g == [s \in SUBSET (1..m + 1) |->
                     IF m + 1 \in s THEN F[<<h[rest(s)], m + 1>>] ELSE h[s]]
  <2>2. ASSUME NEW s \in SUBSET (1..m + 1)
        PROVE  g[s] = Folded(base, F, g, s) /\ g[s] \in A
    <3>1. rest(s) \in SUBSET (1..m) /\ rest(s) \in SUBSET (1..m + 1) /\ m + 1 \notin rest(s)
      OBVIOUS
    <3>2. g[rest(s)] = h[rest(s)] /\ h[rest(s)] \in A
      BY <2>1, <3>1
    <3>3. CASE m + 1 \in s
      <4>1. Max(s) = m + 1
        <5>1. m + 1 \in Nat /\ s # {}
          BY <3>3
        <5>2. Max(s) \in s /\ m + 1 <= Max(s)
          BY <3>3, <5>1, MaxIsIn
        <5>3. Max(s) \in 1..m + 1
          BY <5>2
        <5> QED BY <5>2, <5>3
      <4>2. g[s] = F[<<g[rest(s)], m + 1>>]
        BY <3>2, <3>3
      <4>3. m + 1 \in 1..n
        OBVIOUS
      <4>4. F[<<g[rest(s)], m + 1>>] \in A
        BY <3>2, <4>3
      <4> HIDE DEF g
      <4> QED BY <3>3, <4>1, <4>2, <4>4 DEF Folded
    <3>4. CASE m + 1 \notin s
      <4>1. s \in SUBSET (1..m) /\ rest(s) = s
        BY <3>4
      <4>2. h[s] = Folded(base, F, h, s)
        BY <2>1, <4>1
      <4>3. g[s] = h[s] /\ h[s] \in A
        BY <2>1, <3>4, <4>1
      <4>4. g[s \ {Max(s)}] = h[s \ {Max(s)}]
        <5>1. s \ {Max(s)} \in SUBSET (1..m + 1) /\ m + 1 \notin s \ {Max(s)}
          BY <3>4
        <5> QED BY <5>1
      <4> HIDE DEF g
      <4> QED BY <4>2, <4>3, <4>4 DEF Folded
    <3> QED BY <3>3, <3>4
  <2>3. g \in [SUBSET (1..m + 1) -> A]
    <3>1. g = [s \in SUBSET (1..m + 1) |-> g[s]]
      OBVIOUS
    <3> HIDE DEF g
    <3> QED BY <2>2, <3>1
  <2> HIDE DEF g
  <2> QED BY <2>2, <2>3 DEF CanFold
<1>3. n \in T
  <2> HIDE DEF T
  <2> QED BY <1>1, <1>2, AllNumbers
<1> QED BY <1>3

\* How SellingPoints goes over the points of a product
Gathered(points, g, s) ==
    IF s = {} THEN <<>>
    ELSE IF Strip(points[Max(s)]) = EmptyText THEN g[s \ {Max(s)}]
    ELSE Append(g[s \ {Max(s)}], Strip(points[Max(s)]))

Gathers(points, n, g) == g = [s \in SUBSET (1..n) |-> Gathered(points, g, s)]

\* The fold that gathers the selling points is defined.
LEMMA GatheringExists ==
  ASSUME NEW points, NEW n \in Nat
  PROVE  \E g : Gathers(points, n, g)
<1> DEFINE A == Seq({Strip(points[i]) : i \in 1..n})
           F == [at \in A \X (1..n) |->
                   IF Strip(points[at[2]]) = EmptyText THEN at[1]
                   ELSE Append(at[1], Strip(points[at[2]]))]
<1>1. <<>> \in A
  OBVIOUS
<1>2. F \in [A \X (1..n) -> A]
  <2>1. ASSUME NEW a \in A, NEW i \in 1..n  PROVE Append(a, Strip(points[i])) \in A
    <3>1. Strip(points[i]) \in {Strip(points[k]) : k \in 1..n}
      OBVIOUS
    <3> QED BY <3>1
  <2> HIDE DEF A
  <2> QED BY <2>1
<1>3. \A a \in A, i \in 1..n :
        F[<<a, i>>] = IF Strip(points[i]) = EmptyText THEN a ELSE Append(a, Strip(points[i]))
  <2> HIDE DEF A
  <2> QED OBVIOUS
<1> HIDE DEF A, F
<1>4. PICK g \in [SUBSET (1..n) -> A] :
        \A s \in SUBSET (1..n) : g[s] = Folded(<<>>, F, g, s)
  <2>1. CanFold(A, <<>>, F, n)
    BY <1>1, <1>2, FoldExists
  <2> QED BY <2>1 DEF CanFold
<1>5. ASSUME NEW s \in SUBSET (1..n)  PROVE g[s] = Gathered(points, g, s)
  <2>1. CASE s = {}
    BY <1>4, <2>1 DEF Folded, Gathered
  <2>2. CASE s # {}
    <3>1. Max(s) \in 1..n /\ s \ {Max(s)} \in SUBSET (1..n)
      BY <2>2, MaxIsIn
    <3>2. g[s \ {Max(s)}] \in A
      BY <3>1
    <3> QED BY <1>3, <1>4, <2>2, <3>1, <3>2 DEF Folded, Gathered
  <2> QED BY <2>1, <2>2
<1> QED BY <1>5 DEF Gathers

\* A selling point is a stripped text of the product, or there is none.
LEMMA SellingPointsAreStripped ==
  ASSUME NEW product, product.points \in Seq(Range(product.points))
  PROVE  SellingPoints(product) \in Seq({Strip(text) : text \in Range(product.points)})
<1> DEFINE points == product.points
           S == {Strip(text) : text \in Range(points)}
           g == CHOOSE h : Gathers(points, Len(points), h)
<1>1. PICK n \in Nat : n = Len(points) /\ DOMAIN points = 1..n
  OBVIOUS
<1>2. SellingPoints(product) = (CHOOSE h : Gathers(points, n, h))[1..n]
  <2>1. SellingPoints(product) =
          (CHOOSE h : h = [s \in SUBSET DOMAIN points |-> Gathered(points, h, s)])
            [DOMAIN points]
    BY DEF SellingPoints, FoldLeft, MapThenFoldSet, Gathered
  <2> QED BY <1>1, <2>1 DEF Gathers
<1>3. PICK f : Gathers(points, n, f) /\ SellingPoints(product) = f[1..n]
  BY <1>2, GatheringExists
<1>4. \A i \in 1..n : Strip(points[i]) \in S
  BY <1>1 DEF Range
<1> HIDE DEF points, S
<1> DEFINE T == {k \in Nat : k <= n => f[1..k] \in Seq(S)}
<1>5. 0 \in T
  <2>1. 1..0 = {} /\ {} \in SUBSET (1..n)
    OBVIOUS
  <2>2. f[{}] = <<>>
    BY <1>3, <2>1 DEF Gathers, Gathered
  <2>3. <<>> \in Seq(S)
    OBVIOUS
  <2> QED BY <2>1, <2>2, <2>3
<1>6. ASSUME NEW k \in Nat, k \in T  PROVE k + 1 \in T
  <2> SUFFICES ASSUME k + 1 <= n  PROVE f[1..k + 1] \in Seq(S)
    OBVIOUS
  <2>8. k + 1 \in 1..k + 1 /\ k + 1 \in 1..n
    OBVIOUS
  <2>9. \A i \in 1..k + 1 : i \in 1..n
    OBVIOUS
  <2>1. 1..k + 1 \in SUBSET (1..n) /\ 1..k + 1 # {} /\ k + 1 \in 1..n
    BY <2>8, <2>9
  <2>3. Max(1..k + 1) = k + 1 /\ (1..k + 1) \ {k + 1} = 1..k
    BY UpTo
  <2>4. f[1..k] \in Seq(S)
    BY <1>6
  <2>5. f[1..k + 1] = Gathered(points, f, 1..k + 1)
    BY <1>3, <2>1 DEF Gathers
  <2>6. f[1..k + 1] = IF Strip(points[k + 1]) = EmptyText THEN f[1..k]
                      ELSE Append(f[1..k], Strip(points[k + 1]))
    BY <2>1, <2>3, <2>5 DEF Gathered
  <2>7. Strip(points[k + 1]) \in S
    BY <1>4, <2>1
  <2> QED BY <2>4, <2>6, <2>7
<1>7. n \in T
  <2> HIDE DEF T
  <2> QED BY <1>5, <1>6, AllNumbers
<1> QED BY <1>3, <1>7 DEF points, S

Script(source) ==
    BuildComicScript(ProductName(source.product), SellingPoints(source.product),
                     source.result.slot, Lexicon(source.product.pronunciations))

\* The parts of a storyboard
LEMMA BoardIs ==
  ASSUME NEW a
  PROVE  /\ BuildStoryboard(a).name = ProductName(a.product)
         /\ BuildStoryboard(a).tone = a.result.tone
         /\ BuildStoryboard(a).slot = a.result.slot
         /\ BuildStoryboard(a).image = a.files[a.result.url]
         /\ BuildStoryboard(a).scenes =
              [i \in DOMAIN Script(a) |-> Scene(Script(a)[i], SellingPoints(a.product))]
         /\ BuildStoryboard(a).review = ReviewRequired(Script(a))
         /\ BuildStoryboard(a).fingerprint = Fingerprint(a, Script(a))
         /\ BuildStoryboard(a) =
              [name |-> BuildStoryboard(a).name, tone |-> BuildStoryboard(a).tone,
               slot |-> BuildStoryboard(a).slot, image |-> BuildStoryboard(a).image,
               scenes |-> BuildStoryboard(a).scenes, review |-> BuildStoryboard(a).review,
               fingerprint |-> BuildStoryboard(a).fingerprint]
BY DEF BuildStoryboard, Script

\* Every script has four lines.
LEMMA ScriptsHaveFourLines ==
  ASSUME NEW a
  PROVE  DOMAIN Script(a) = 1..4
BY DEF Script, BuildComicScript

\* Everything that a short shows is in its fingerprint.
LEMMA SameBoard ==
  ASSUME NEW a, NEW b, BuildStoryboard(a).fingerprint = BuildStoryboard(b).fingerprint
  PROVE  BuildStoryboard(a) = BuildStoryboard(b)
<1>1. Fingerprint(a, Script(a)) = Fingerprint(b, Script(b))
  BY BoardIs
<1>2. /\ ProductName(a.product) = ProductName(b.product)
      /\ SellingPoints(a.product) = SellingPoints(b.product)
      /\ a.result.tone = b.result.tone /\ a.result.slot = b.result.slot
      /\ a.files[a.result.url] = b.files[b.result.url]
      /\ ScriptLines(Script(a)) = ScriptLines(Script(b))
      /\ ReviewRequired(Script(a)) = ReviewRequired(Script(b))
  BY <1>1 DEF Fingerprint
<1>3. ASSUME NEW i \in 1..4
      PROVE  Scene(Script(a)[i], SellingPoints(a.product))
               = Scene(Script(b)[i], SellingPoints(b.product))
  <2>1. ScriptLines(Script(a))[i] = ScriptLines(Script(b))[i]
    BY <1>2
  <2>2. ASSUME NEW c
        PROVE  /\ ScriptLines(Script(c))[i][1] = Script(c)[i].display
               /\ ScriptLines(Script(c))[i][2] = Script(c)[i].spoken
               /\ ScriptLines(Script(c))[i][3] = Script(c)[i].kind
    BY ScriptsHaveFourLines DEF ScriptLines
  <2>3. /\ Script(a)[i].display = Script(b)[i].display
        /\ Script(a)[i].spoken = Script(b)[i].spoken
        /\ Script(a)[i].kind = Script(b)[i].kind
    BY <2>1, <2>2
  <2> QED BY <1>2, <2>3 DEF Scene
<1>4. BuildStoryboard(a).scenes = BuildStoryboard(b).scenes
  <2>1. /\ BuildStoryboard(a).scenes =
             [i \in 1..4 |-> Scene(Script(a)[i], SellingPoints(a.product))]
        /\ BuildStoryboard(b).scenes =
             [i \in 1..4 |-> Scene(Script(b)[i], SellingPoints(b.product))]
    BY BoardIs, ScriptsHaveFourLines
  <2> QED BY <1>3, <2>1
<1>5. /\ BuildStoryboard(a).name = BuildStoryboard(b).name
      /\ BuildStoryboard(a).tone = BuildStoryboard(b).tone
      /\ BuildStoryboard(a).slot = BuildStoryboard(b).slot
      /\ BuildStoryboard(a).image = BuildStoryboard(b).image
      /\ BuildStoryboard(a).review = BuildStoryboard(b).review
  <2>1. /\ BuildStoryboard(a).name = ProductName(a.product)
        /\ BuildStoryboard(a).tone = a.result.tone
        /\ BuildStoryboard(a).slot = a.result.slot
        /\ BuildStoryboard(a).image = a.files[a.result.url]
        /\ BuildStoryboard(a).review = ReviewRequired(Script(a))
    BY BoardIs
  <2>2. /\ BuildStoryboard(b).name = ProductName(b.product)
        /\ BuildStoryboard(b).tone = b.result.tone
        /\ BuildStoryboard(b).slot = b.result.slot
        /\ BuildStoryboard(b).image = b.files[b.result.url]
        /\ BuildStoryboard(b).review = ReviewRequired(Script(b))
    BY BoardIs
  <2> QED BY <1>2, <2>1, <2>2
<1>6. BuildStoryboard(a).fingerprint = BuildStoryboard(b).fingerprint
  OBVIOUS
<1> QED BY <1>4, <1>5, <1>6, BoardIs

\* A text that needs no review is one that can be spoken.
LEMMA KnownText ==
  ASSUME NEW text, NEW lexicon, ~Resolve(text, lexicon).review
  PROVE  Strip(text) \in HangulTexts \cup DOMAIN lexicon
BY DEF Resolve

\* If nothing needs a review, the name and the first selling point can be spoken.
LEMMA SpokenTextsAreKnown ==
  ASSUME NEW source \in Sources, ~BuildStoryboard(source).review
  PROVE  LET points == SellingPoints(source.product)
             known == HangulTexts \cup DOMAIN Lexicon(source.product.pronunciations)
         IN  /\ Strip(ProductName(source.product)) \in known
             /\ points # <<>> => points[1] \in known
<1> DEFINE points == SellingPoints(source.product)
           lexicon == Lexicon(source.product.pronunciations)
<1>1. \A i \in 1..4 : ~Script(source)[i].review
  BY BoardIs, ScriptsHaveFourLines DEF ReviewRequired
<1>2. Script(source)[1].review = Resolve(ProductName(source.product), lexicon).review
  BY DEF Script, BuildComicScript, Line
<1>3. Strip(ProductName(source.product)) \in HangulTexts \cup DOMAIN lexicon
  BY <1>1, <1>2, KnownText
<1>4. ASSUME points # <<>>  PROVE points[1] \in HangulTexts \cup DOMAIN lexicon
  <2>1. Script(source)[3].review = Resolve(points[1], lexicon).review
    BY <1>4 DEF Script, BuildComicScript, Line
  <2>2. Strip(points[1]) \in HangulTexts \cup DOMAIN lexicon
    BY <1>1, <2>1, KnownText
  <2>3. points \in Seq({Strip(text) : text \in Range(source.product.points)})
    BY SourceAssumption, SellingPointsAreStripped
  <2>4. points[1] \in {Strip(text) : text \in Range(source.product.points)}
    <3> HIDE DEF points
    <3> QED BY <1>4, <2>3
  <2>5. Strip(points[1]) = points[1]
    BY <2>4, SourceAssumption
  <2> QED BY <2>2, <2>5
<1> QED BY <1>3, <1>4

\* The property ShortsMatchTheirSource, for all sources: an equal fingerprint
\* means the same short, only texts that can be spoken go without a review,
\* and the page offers every short that can be made.
THEOREM EveryShortMatches == Spec => []ShortsMatchTheirSource
<1>1. QuestionOK => ShortsMatchTheirSource
  <2> SUFFICES ASSUME QuestionOK, question.kind = "short", CanBuild(question.source)
               PROVE  ShortsMatchTheirSource
    BY DEF ShortsMatchTheirSource
  <2>1. PICK source \in Sources : question = [kind |-> "short", source |-> source]
    BY DEF QuestionOK
  <2>2. question.source = source /\ source \in DOMAIN Boards
        /\ \A other \in DOMAIN Boards : Boards[other] = BuildStoryboard(other)
    BY <2>1 DEF Boards
  <2>3. \A other \in DOMAIN Boards :
          Boards[other].fingerprint = Boards[source].fingerprint =>
            Boards[other] = Boards[source]
    BY <2>2, SameBoard
  <2>4. CanCreateRushHourShort(source.result)
    BY <2>2 DEF CanBuild, ImageAllowed, CanCreateRushHourShort
  <2>5. ~Boards[source].review =>
          /\ Strip(ProductName(source.product))
               \in HangulTexts \cup DOMAIN Lexicon(source.product.pronunciations)
          /\ SellingPoints(source.product) # <<>> =>
               SellingPoints(source.product)[1]
                 \in HangulTexts \cup DOMAIN Lexicon(source.product.pronunciations)
    BY <2>2, SpokenTextsAreKnown
  <2> QED BY <2>2, <2>3, <2>4, <2>5 DEF ShortsMatchTheirSource
<1> QED BY <1>1, QuestionsAsked, PTL

(***************************************************************************)
(* Texts and lines.  A fold over a sequence runs through the values it has *)
(* after each element; two runs over the same elements are the same, so    *)
(* the value of a fold is known when it is known what one more element     *)
(* does.                                                                   *)
(***************************************************************************)
LEMMA AllSequences ==
  ASSUME NEW S, NEW T, <<>> \in T, \A s \in Seq(S), x \in S : s \in T => Append(s, x) \in T
  PROVE  Seq(S) \subseteq T
<1> DEFINE L == {n \in Nat : \A s \in Seq(S) : Len(s) = n => s \in T}
<1>1. 0 \in L
  BY EmptySeq
<1>2. ASSUME NEW n \in Nat, n \in L PROVE n + 1 \in L
  <2>1. ASSUME NEW s \in Seq(S), Len(s) = n + 1 PROVE s \in T
    <3>1. s # <<>>
      BY <2>1
    <3>2. PICK front \in Seq(S), x \in S : s = Append(front, x)
      BY <3>1, SequenceEmptyOrAppend
    <3>3. Len(front) = n
      BY <2>1, <3>2
    <3> QED BY <1>2, <3>2, <3>3
  <2> QED BY <2>1
<1>3. Nat \subseteq L
  <2> HIDE DEF L
  <2> QED BY <1>1, <1>2, AllNumbers
<1> QED BY <1>3

\* What appending does
LEMMA AppendAt ==
  ASSUME NEW S, NEW l \in Seq(S), NEW x \in S, NEW n \in Nat, n = Len(l)
  PROVE  /\ Len(Append(l, x)) = n + 1 /\ DOMAIN Append(l, x) = 1..n + 1
         /\ Append(l, x)[n + 1] = x /\ \A i \in 1..n : Append(l, x)[i] = l[i] /\ l[i] \in S
<1>1. Len(Append(l, x)) = n + 1
  OBVIOUS
<1>2. \A i \in 1..n : Append(l, x)[i] = l[i]
  OBVIOUS
<1>3. Append(l, x)[n + 1] = x
  OBVIOUS
<1>6. DOMAIN l = 1..n
  OBVIOUS
<1>4. \A i \in 1..n : l[i] \in S
  BY <1>6
<1>5. DOMAIN Append(l, x) = 1..n+1
  OBVIOUS
<1> QED BY <1>1, <1>2, <1>3, <1>4, <1>5

\* What appending to a single line does
LEMMA AppendToOne ==
  ASSUME NEW S, NEW l \in Seq(S), NEW x \in S, Len(l) = 1
  PROVE  /\ Len(Append(l, x)) = 2 /\ DOMAIN Append(l, x) = 1..2
         /\ Append(l, x)[1] = l[1] /\ Append(l, x)[2] = x /\ l[1] \in S
<1>1. PICK n \in Nat : n = Len(l) /\ n = 1
  OBVIOUS
<1>2. /\ Len(Append(l, x)) = n + 1 /\ DOMAIN Append(l, x) = 1..n + 1
         /\ Append(l, x)[n + 1] = x /\ \A i \in 1..n : Append(l, x)[i] = l[i] /\ l[i] \in S
  BY <1>1, AppendAt
<1>3. n + 1 = 2 /\ n \in 1..n
  BY <1>1
<1> QED BY <1>1, <1>2, <1>3

\* One step of a fold that takes the greatest place of a set last; F is what it
\* does with an element, made a function.
FoldStep(base, F, text, g, s) ==
    IF s = {} THEN base ELSE F[<<g[s \ {Max(s)}], text[Max(s)]>>]

Folding(A, base, F, text) ==
    {g \in [SUBSET (1..Len(text)) -> A] :
       \A s \in SUBSET (1..Len(text)) : g[s] = FoldStep(base, F, text, g, s)}

\* A fold over a sequence is defined if its steps stay in a set.
LEMMA FoldingExists ==
  ASSUME NEW A, NEW E, NEW base \in A, NEW F \in [A \X E -> A], NEW text \in Seq(E)
  PROVE  \E g : g \in Folding(A, base, F, text)
<1>1. PICK n \in Nat : n = Len(text) /\ \A i \in 1..n : text[i] \in E
  OBVIOUS
<1> DEFINE G == [at \in A \X (1..n) |-> F[<<at[1], text[at[2]]>>]]
<1>2. G \in [A \X (1..n) -> A]
  BY <1>1
<1>3. \A a \in A, i \in 1..n : G[<<a, i>>] = F[<<a, text[i]>>]
  OBVIOUS
<1> HIDE DEF G
<1>4. PICK g \in [SUBSET (1..n) -> A] :
        \A s \in SUBSET (1..n) : g[s] = Folded(base, G, g, s)
  <2>1. CanFold(A, base, G, n)
    BY <1>2, FoldExists
  <2> QED BY <2>1 DEF CanFold
<1>5. ASSUME NEW s \in SUBSET (1..n)  PROVE g[s] = FoldStep(base, F, text, g, s)
  <2>1. CASE s = {}
    BY <1>4, <2>1 DEF Folded, FoldStep
  <2>2. CASE s # {}
    <3>1. Max(s) \in 1..n /\ s \ {Max(s)} \in SUBSET (1..n)
      BY <2>2, MaxIsIn
    <3>2. g[s \ {Max(s)}] \in A
      BY <3>1
    <3> QED BY <1>3, <1>4, <2>2, <3>1, <3>2 DEF Folded, FoldStep
  <2> QED BY <2>1, <2>2
<1> QED BY <1>1, <1>4, <1>5 DEF Folding

\* What is needed of the values at the sets that a step looks at
LEMMA FoldingFacts ==
  ASSUME NEW A, NEW E, NEW base \in A, NEW F \in [A \X E -> A], NEW text \in Seq(E),
         NEW g \in Folding(A, base, F, text), NEW s \in SUBSET (1..Len(text)), s # {}
  PROVE  g[s \ {Max(s)}] \in A /\ text[Max(s)] \in E /\ Max(s) \in 1..Len(text)
<1>1. PICK n \in Nat : n = Len(text) /\ \A i \in 1..n : text[i] \in E
  OBVIOUS
<1>2. Max(s) \in 1..n /\ s \ {Max(s)} \in SUBSET (1..n)
  BY <1>1, MaxIsIn
<1> QED BY <1>1, <1>2 DEF Folding

\* The values of a fold after each element
Run(base, F, text, n, h) ==
    h[0] = base /\ \A k \in 0..n - 1 : h[k + 1] = F[<<h[k], text[k + 1]>>]

Runs(base, F, text, value) ==
    \E h : Run(base, F, text, Len(text), h) /\ h[Len(text)] = value

\* A function on sets of places that does what the fold does gives a run.
LEMMA RunOfFunction ==
  ASSUME NEW A, NEW E, NEW base \in A, NEW F \in [A \X E -> A], NEW text \in Seq(E),
         NEW f, f[{}] = base,
         \A k \in 0..Len(text) - 1 :
           f[1..k] \in A => f[1..k + 1] = F[<<f[1..k], text[k + 1]>>]
  PROVE  Runs(base, F, text, f[1..Len(text)])
<1>1. PICK n \in Nat : n = Len(text) /\ \A i \in 1..n : text[i] \in E
  OBVIOUS
<1> DEFINE T == {k \in Nat : k <= n => f[1..k] \in A}
           h == [k \in 0..n |-> f[1..k]]
<1>2. 0 \in T
  <2>1. 1..0 = {}
    OBVIOUS
  <2> QED BY <2>1
<1>3. ASSUME NEW k \in Nat, k \in T  PROVE k + 1 \in T
  <2> SUFFICES ASSUME k + 1 <= n  PROVE f[1..k + 1] \in A
    OBVIOUS
  <2>1. f[1..k] \in A /\ k \in 0..n - 1 /\ text[k + 1] \in E
    BY <1>1, <1>3
  <2>2. f[1..k + 1] = F[<<f[1..k], text[k + 1]>>]
    BY <1>1, <2>1
  <2> QED BY <2>1, <2>2
<1>4. \A k \in 0..n : f[1..k] \in A
  <2>1. Nat \subseteq T
    <3> HIDE DEF T
    <3> QED BY <1>2, <1>3, AllNumbers
  <2> QED BY <2>1
<1>5. h[0] = base
  <2>1. 1..0 = {} /\ 0 \in 0..n
    OBVIOUS
  <2> QED BY <2>1
<1>6. ASSUME NEW k \in 0..n - 1  PROVE h[k + 1] = F[<<h[k], text[k + 1]>>]
  <2>1. k \in 0..n /\ k + 1 \in 0..n
    OBVIOUS
  <2>2. f[1..k + 1] = F[<<f[1..k], text[k + 1]>>]
    BY <1>1, <1>4, <2>1
  <2> QED BY <2>1, <2>2
<1>7. h[n] = f[1..n]
  OBVIOUS
<1> HIDE DEF h
<1> QED BY <1>1, <1>5, <1>6, <1>7 DEF Runs, Run

\* The value of a run over nothing, and what one more element does
LEMMA RunOfNothing ==
  ASSUME NEW base, NEW F, NEW value, Runs(base, F, <<>>, value)
  PROVE  value = base
<1>1. Len(<<>>) = 0
  OBVIOUS
<1> QED BY <1>1 DEF Runs, Run

LEMMA RunIsTyped ==
  ASSUME NEW A, NEW E, NEW base \in A, NEW F \in [A \X E -> A], NEW text \in Seq(E),
         NEW n \in 0..Len(text), NEW h, Run(base, F, text, n, h)
  PROVE  \A k \in 0..n : h[k] \in A
<1>1. PICK m \in Nat : m = Len(text) /\ \A i \in 1..m : text[i] \in E
  OBVIOUS
<1>2. n \in Nat /\ n <= m
  BY <1>1
<1> DEFINE T == {k \in Nat : k <= n => h[k] \in A}
<1>3. 0 \in T
  BY DEF Run
<1>4. ASSUME NEW k \in Nat, k \in T  PROVE k + 1 \in T
  <2> SUFFICES ASSUME k + 1 <= n  PROVE h[k + 1] \in A
    OBVIOUS
  <2>1. h[k] \in A /\ k \in 0..n - 1 /\ text[k + 1] \in E
    BY <1>1, <1>2, <1>4
  <2>2. h[k + 1] = F[<<h[k], text[k + 1]>>]
    BY <2>1 DEF Run
  <2> QED BY <2>1, <2>2
<1>5. Nat \subseteq T
  <2> HIDE DEF T
  <2> QED BY <1>3, <1>4, AllNumbers
<1> QED BY <1>2, <1>5

\* What a run needs, and what it takes to make one longer
Typed(A, E, base, F) == base \in A /\ F \in [A \X E -> A]

Longer(base, F, text, c, v, w) ==
    Runs(base, F, text, v) /\ Runs(base, F, Append(text, c), w)

LEMMA RunGrows ==
  ASSUME NEW A, NEW E, NEW base, NEW F, NEW text \in Seq(E), NEW c \in E, NEW v, NEW w,
         Typed(A, E, base, F), Longer(base, F, text, c, v, w)
  PROVE  v \in A /\ w = F[<<v, c>>]
<1>0. base \in A /\ F \in [A \X E -> A]
  BY DEF Typed
<1>1. PICK n \in Nat : n = Len(text) /\ Len(Append(text, c)) = n + 1
  OBVIOUS
<1>2. PICK g : Run(base, F, text, n, g) /\ g[n] = v
  BY <1>1 DEF Runs, Longer
<1>3. PICK h : Run(base, F, Append(text, c), n + 1, h) /\ h[n + 1] = w
  BY <1>1 DEF Runs, Longer
<1>4. Append(text, c)[n + 1] = c /\ \A i \in 1..n : Append(text, c)[i] = text[i]
  BY <1>1
<1> DEFINE T == {k \in Nat : k <= n => h[k] = g[k]}
<1>5. 0 \in T
  BY <1>2, <1>3 DEF Run
<1>6. ASSUME NEW k \in Nat, k \in T  PROVE k + 1 \in T
  <2> SUFFICES ASSUME k + 1 <= n  PROVE h[k + 1] = g[k + 1]
    OBVIOUS
  <2>1. k \in 0..n - 1 /\ k \in 0..(n + 1) - 1 /\ k + 1 \in 1..n
    OBVIOUS
  <2>2. h[k + 1] = F[<<h[k], Append(text, c)[k + 1]>>]
    BY <1>3, <2>1 DEF Run
  <2>3. g[k + 1] = F[<<g[k], text[k + 1]>>]
    BY <1>2, <2>1 DEF Run
  <2>4. h[k] = g[k]
    BY <1>6
  <2>5. Append(text, c)[k + 1] = text[k + 1]
    BY <1>4, <2>1
  <2> QED BY <2>2, <2>3, <2>4, <2>5
<1>7. n \in T
  <2> HIDE DEF T
  <2> QED BY <1>5, <1>6, AllNumbers
<1>8. h[n + 1] = F[<<h[n], Append(text, c)[n + 1]>>]
  <2>1. n \in 0..(n + 1) - 1
    OBVIOUS
  <2> QED BY <1>3, <2>1 DEF Run
<1>9. v \in A
  <2>1. n \in 0..Len(text) /\ n \in 0..n
    BY <1>1
  <2> QED BY <1>0, <1>2, <2>1, RunIsTyped
<1> QED BY <1>2, <1>3, <1>4, <1>7, <1>8, <1>9

(***************************************************************************)
(* The folds of the rules on texts, each as a run.                         *)
(***************************************************************************)
\* Texts whose characters can be measured
Measurable(E) == \A c \in E : c = LineBreak \/ Wide(c) \in Nat

RowWidths == [row : Nat, widest : Nat]

Measures(E, size) == [at \in RowWidths \X E |-> Measure(at[1], at[2], size)]

MeasureStep(line, size, g, s) ==
    IF s = {} THEN NothingMeasured ELSE Measure(g[s \ {Max(s)}], line[Max(s)], size)

TakesWidths(line, size, n, g) ==
    g = [s \in SUBSET (1..n) |-> MeasureStep(line, size, g, s)]

LEMMA CharactersCanBeMeasured == Measurable(Characters)
BY TextAssumption DEF Measurable

\* One more character leaves numbers.
LEMMA MeasureIsTyped ==
  ASSUME NEW E, Measurable(E), NEW at \in RowWidths, NEW c \in E, NEW size \in Nat
  PROVE  Measure(at, c, size) \in RowWidths
<1>1. at.row \in Nat /\ at.widest \in Nat
  BY DEF RowWidths
<1>2. CASE c = LineBreak
  BY <1>1, <1>2 DEF Measure, RowWidths
<1>3. CASE c # LineBreak
  <2>1. Wide(c) \in Nat
    BY <1>3 DEF Measurable
  <2>2. PICK row \in Nat : row = at.row + size * Wide(c)
    BY <1>1, <2>1
  <2> QED BY <1>1, <1>3, <2>2 DEF Measure, RowWidths
<1> QED BY <1>2, <1>3

LEMMA MeasuresAreTyped ==
  ASSUME NEW E, Measurable(E), NEW size \in Nat
  PROVE  /\ Measures(E, size) \in [RowWidths \X E -> RowWidths]
         /\ NothingMeasured \in RowWidths
<1>1. NothingMeasured \in RowWidths
  BY DEF NothingMeasured, RowWidths
<1> QED BY <1>1, MeasureIsTyped DEF Measures

\* A text is measured one character after another.
LEMMA MeasuringRuns ==
  ASSUME NEW S, Measurable(S), NEW text \in Seq(S), NEW size \in Nat
  PROVE  Runs(NothingMeasured, Measures(S, size), text, Measured(text, size))
<1>1. PICK n \in Nat : n = Len(text) /\ DOMAIN text = 1..n
  OBVIOUS
<1>2. Measures(S, size) \in [RowWidths \X S -> RowWidths] /\ NothingMeasured \in RowWidths
  BY MeasuresAreTyped
<1>3. PICK g \in Folding(RowWidths, NothingMeasured, Measures(S, size), text) : TRUE
  BY <1>2, FoldingExists
<1>4. ASSUME NEW s \in SUBSET (1..n)  PROVE g[s] = MeasureStep(text, size, g, s)
  <2>1. g[s] = FoldStep(NothingMeasured, Measures(S, size), text, g, s)
    BY <1>1, <1>3 DEF Folding
  <2>2. CASE s = {}
    BY <2>1, <2>2 DEF FoldStep, MeasureStep
  <2>3. CASE s # {}
    <3>1. g[s \ {Max(s)}] \in RowWidths /\ text[Max(s)] \in S
      BY <1>1, <1>2, <1>3, <2>3, FoldingFacts
    <3>2. Measures(S, size)[<<g[s \ {Max(s)}], text[Max(s)]>>] =
            Measure(g[s \ {Max(s)}], text[Max(s)], size)
      BY <3>1 DEF Measures
    <3> QED BY <2>1, <2>3, <3>2 DEF FoldStep, MeasureStep
  <2> QED BY <2>2, <2>3
<1>5. g = [s \in SUBSET (1..n) |-> MeasureStep(text, size, g, s)]
  <2>1. g = [s \in SUBSET (1..n) |-> g[s]]
    BY <1>1, <1>3 DEF Folding
  <2> QED BY <1>4, <2>1
<1>6. Measured(text, size) = (CHOOSE h : TakesWidths(text, size, n, h))[1..n]
  <2>1. Measured(text, size) =
          (CHOOSE h : h = [s \in SUBSET DOMAIN text |-> MeasureStep(text, size, h, s)])
            [DOMAIN text]
    BY DEF Measured, FoldLeft, MapThenFoldSet, MeasureStep
  <2> QED BY <1>1, <2>1 DEF TakesWidths
<1>7. PICK f : TakesWidths(text, size, n, f) /\ Measured(text, size) = f[1..n]
  BY <1>5, <1>6 DEF TakesWidths
<1>8. f[{}] = NothingMeasured
  BY <1>7 DEF TakesWidths, MeasureStep
<1>9. ASSUME NEW k \in 0..n - 1, f[1..k] \in RowWidths
      PROVE  f[1..k + 1] = Measures(S, size)[<<f[1..k], text[k + 1]>>]
  <2>1. k \in Nat /\ k + 1 \in 1..n /\ 1..k + 1 \in SUBSET (1..n)
    <3>1. k \in Nat /\ k + 1 \in 1..n
      BY <1>1
    <3>2. \A i \in 1..k + 1 : i \in 1..n
      BY <1>1, <3>1
    <3> QED BY <3>1, <3>2
  <2>2. 1..k + 1 # {}
    <3>1. k + 1 \in 1..k + 1
      BY <2>1
    <3> QED BY <3>1
  <2>3. Max(1..k + 1) = k + 1 /\ (1..k + 1) \ {k + 1} = 1..k
    BY <2>1, UpTo
  <2>4. f[1..k + 1] = MeasureStep(text, size, f, 1..k + 1)
    BY <1>7, <2>1 DEF TakesWidths
  <2>5. text[k + 1] \in S
    BY <1>1, <2>1
  <2>6. Measures(S, size)[<<f[1..k], text[k + 1]>>] =
            Measure(f[1..k], text[k + 1], size)
    BY <1>9, <2>5 DEF Measures
  <2> QED BY <2>2, <2>3, <2>4, <2>6 DEF MeasureStep
<1>10. \A k \in 0..Len(text) - 1 :
         f[1..k] \in RowWidths => f[1..k + 1] = Measures(S, size)[<<f[1..k], text[k + 1]>>]
  BY <1>1, <1>9
<1>11. text \in Seq(S)
  OBVIOUS
<1>12. Runs(NothingMeasured, Measures(S, size), text, f[1..Len(text)])
  BY <1>2, <1>8, <1>10, <1>11, RunOfFunction
<1> QED BY <1>1, <1>7, <1>12

\* The letters of a text
LettersStep(text, g, s) ==
    IF s = {} THEN <<>>
    ELSE IF text[Max(s)] = Space THEN g[s \ {Max(s)}]
    ELSE Append(g[s \ {Max(s)}], text[Max(s)])

TakesLetters(text, n, g) == g = [s \in SUBSET (1..n) |-> LettersStep(text, g, s)]

AddLetter(S) ==
    [at \in Seq(S) \X S |-> IF at[2] = Space THEN at[1] ELSE Append(at[1], at[2])]

\* The letters of a text are gathered one by one.
LEMMA LettersRun ==
  ASSUME NEW S, NEW text \in Seq(S)
  PROVE  Runs(<<>>, AddLetter(S), text, Letters(text))
<1>1. PICK n \in Nat : n = Len(text) /\ DOMAIN text = 1..n
  OBVIOUS
<1>2. AddLetter(S) \in [Seq(S) \X S -> Seq(S)] /\ <<>> \in Seq(S)
  <2>1. \A a \in Seq(S), c \in S : Append(a, c) \in Seq(S)
    OBVIOUS
  <2> QED BY <2>1 DEF AddLetter
<1>3. PICK g \in Folding(Seq(S), <<>>, AddLetter(S), text) : TRUE
  BY <1>2, FoldingExists
<1>4. ASSUME NEW s \in SUBSET (1..n)  PROVE g[s] = LettersStep(text, g, s)
  <2>1. g[s] = FoldStep(<<>>, AddLetter(S), text, g, s)
    BY <1>1, <1>3 DEF Folding
  <2>2. CASE s = {}
    BY <2>1, <2>2 DEF FoldStep, LettersStep
  <2>3. CASE s # {}
    <3>1. g[s \ {Max(s)}] \in Seq(S) /\ text[Max(s)] \in S
      BY <1>1, <1>2, <1>3, <2>3, FoldingFacts
    <3>2. AddLetter(S)[<<g[s \ {Max(s)}], text[Max(s)]>>] =
            IF text[Max(s)] = Space THEN g[s \ {Max(s)}]
            ELSE Append(g[s \ {Max(s)}], text[Max(s)])
      BY <3>1 DEF AddLetter
    <3> QED BY <2>1, <2>3, <3>2 DEF FoldStep, LettersStep
  <2> QED BY <2>2, <2>3
<1>5. g = [s \in SUBSET (1..n) |-> LettersStep(text, g, s)]
  <2>1. g = [s \in SUBSET (1..n) |-> g[s]]
    BY <1>1, <1>3 DEF Folding
  <2> QED BY <1>4, <2>1
<1>6. Letters(text) = (CHOOSE h : TakesLetters(text, n, h))[1..n]
  <2>1. Letters(text) =
          (CHOOSE h : h = [s \in SUBSET DOMAIN text |-> LettersStep(text, h, s)])
            [DOMAIN text]
    BY DEF Letters, FoldLeft, MapThenFoldSet, LettersStep
  <2> QED BY <1>1, <2>1 DEF TakesLetters
<1>7. PICK f : TakesLetters(text, n, f) /\ Letters(text) = f[1..n]
  BY <1>5, <1>6 DEF TakesLetters
<1>8. f[{}] = <<>>
  BY <1>7 DEF TakesLetters, LettersStep
<1>9. ASSUME NEW k \in 0..n - 1, f[1..k] \in Seq(S)
      PROVE  f[1..k + 1] = AddLetter(S)[<<f[1..k], text[k + 1]>>]
  <2>1. k \in Nat /\ k + 1 \in 1..n /\ 1..k + 1 \in SUBSET (1..n)
    <3>1. k \in Nat /\ k + 1 \in 1..n
      BY <1>1
    <3>2. \A i \in 1..k + 1 : i \in 1..n
      BY <1>1, <3>1
    <3> QED BY <3>1, <3>2
  <2>2. 1..k + 1 # {}
    <3>1. k + 1 \in 1..k + 1
      BY <2>1
    <3> QED BY <3>1
  <2>3. Max(1..k + 1) = k + 1 /\ (1..k + 1) \ {k + 1} = 1..k
    BY <2>1, UpTo
  <2>4. f[1..k + 1] = LettersStep(text, f, 1..k + 1)
    BY <1>7, <2>1 DEF TakesLetters
  <2>5. text[k + 1] \in S
    BY <1>1, <2>1
  <2>6. AddLetter(S)[<<f[1..k], text[k + 1]>>] =
            IF text[k + 1] = Space THEN f[1..k]
            ELSE Append(f[1..k], text[k + 1])
    BY <1>9, <2>5 DEF AddLetter
  <2> QED BY <2>2, <2>3, <2>4, <2>6 DEF LettersStep
<1>10. \A k \in 0..Len(text) - 1 :
         f[1..k] \in Seq(S) => f[1..k + 1] = AddLetter(S)[<<f[1..k], text[k + 1]>>]
  BY <1>1, <1>9
<1>11. text \in Seq(S)
  OBVIOUS
<1>12. Runs(<<>>, AddLetter(S), text, f[1..Len(text)])
  BY <1>2, <1>8, <1>10, <1>11, RunOfFunction
<1> QED BY <1>1, <1>7, <1>12

\* The lines into which SplitOversizedWord has broken a text, and the last one,
\* which is not closed
Splitting(text, size, width) ==
    FoldLeft(LAMBDA acc, c : PutCharacter(acc, c, size, width), NoLines, text)

Broken(S) == [lines : Seq(Seq(S)), current : Seq(S)]

Put(S, size, width) ==
    [at \in Broken(S) \X S |-> PutCharacter(at[1], at[2], size, width)]

SplitStep(text, size, width, g, s) ==
    IF s = {} THEN NoLines
    ELSE PutCharacter(g[s \ {Max(s)}], text[Max(s)], size, width)

Splits(text, size, width, n, g) ==
    g = [s \in SUBSET (1..n) |-> SplitStep(text, size, width, g, s)]

\* Placing a character leaves a line and the lines before it.
LEMMA PutIsBroken ==
  ASSUME NEW S, NEW acc \in Broken(S), NEW c \in S, NEW size, NEW width
  PROVE  PutCharacter(acc, c, size, width) \in Broken(S)
<1>1. acc.lines \in Seq(Seq(S)) /\ acc.current \in Seq(S)
  BY DEF Broken
<1>2. Append(acc.lines, acc.current) \in Seq(Seq(S))
  <2> DEFINE Z == Seq(S)
  <2>1. acc.lines \in Seq(Z) /\ acc.current \in Z
    BY <1>1
  <2> HIDE DEF Z
  <2>2. Append(acc.lines, acc.current) \in Seq(Z)
    BY <2>1
  <2> QED BY <2>2 DEF Z
<1>3. <<c>> \in Seq(S) /\ Append(acc.current, c) \in Seq(S)
  BY <1>1
<1> QED BY <1>1, <1>2, <1>3 DEF PutCharacter, Broken

\* Breaking a text places one character after another.
LEMMA SplittingRuns ==
  ASSUME NEW S, NEW text \in Seq(S), NEW size, NEW width
  PROVE  Runs(NoLines, Put(S, size, width), text, Splitting(text, size, width))
<1>1. PICK n \in Nat : n = Len(text) /\ DOMAIN text = 1..n
  OBVIOUS
<1>2. Put(S, size, width) \in [Broken(S) \X S -> Broken(S)] /\ NoLines \in Broken(S)
  <2>1. NoLines \in Broken(S)
    BY DEF NoLines, Broken
  <2> QED BY <2>1, PutIsBroken DEF Put
<1>3. PICK g \in Folding(Broken(S), NoLines, Put(S, size, width), text) : TRUE
  BY <1>2, FoldingExists
<1>4. ASSUME NEW s \in SUBSET (1..n)  PROVE g[s] = SplitStep(text, size, width, g, s)
  <2>1. g[s] = FoldStep(NoLines, Put(S, size, width), text, g, s)
    BY <1>1, <1>3 DEF Folding
  <2>2. CASE s = {}
    BY <2>1, <2>2 DEF FoldStep, SplitStep
  <2>3. CASE s # {}
    <3>1. g[s \ {Max(s)}] \in Broken(S) /\ text[Max(s)] \in S
      BY <1>1, <1>2, <1>3, <2>3, FoldingFacts
    <3>2. Put(S, size, width)[<<g[s \ {Max(s)}], text[Max(s)]>>] =
            PutCharacter(g[s \ {Max(s)}], text[Max(s)], size, width)
      BY <3>1 DEF Put
    <3> QED BY <2>1, <2>3, <3>2 DEF FoldStep, SplitStep
  <2> QED BY <2>2, <2>3
<1>5. g = [s \in SUBSET (1..n) |-> SplitStep(text, size, width, g, s)]
  <2>1. g = [s \in SUBSET (1..n) |-> g[s]]
    BY <1>1, <1>3 DEF Folding
  <2> QED BY <1>4, <2>1
<1>6. Splitting(text, size, width) = (CHOOSE h : Splits(text, size, width, n, h))[1..n]
  <2>1. Splitting(text, size, width) =
          (CHOOSE h : h = [s \in SUBSET DOMAIN text |-> SplitStep(text, size, width, h, s)])
            [DOMAIN text]
    BY DEF Splitting, FoldLeft, MapThenFoldSet, SplitStep
  <2> QED BY <1>1, <2>1 DEF Splits
<1>7. PICK f : Splits(text, size, width, n, f) /\ Splitting(text, size, width) = f[1..n]
  BY <1>5, <1>6 DEF Splits
<1>8. f[{}] = NoLines
  BY <1>7 DEF Splits, SplitStep
<1>9. ASSUME NEW k \in 0..n - 1, f[1..k] \in Broken(S)
      PROVE  f[1..k + 1] = Put(S, size, width)[<<f[1..k], text[k + 1]>>]
  <2>1. k \in Nat /\ k + 1 \in 1..n /\ 1..k + 1 \in SUBSET (1..n)
    <3>1. k \in Nat /\ k + 1 \in 1..n
      BY <1>1
    <3>2. \A i \in 1..k + 1 : i \in 1..n
      BY <1>1, <3>1
    <3> QED BY <3>1, <3>2
  <2>2. 1..k + 1 # {}
    <3>1. k + 1 \in 1..k + 1
      BY <2>1
    <3> QED BY <3>1
  <2>3. Max(1..k + 1) = k + 1 /\ (1..k + 1) \ {k + 1} = 1..k
    BY <2>1, UpTo
  <2>4. f[1..k + 1] = SplitStep(text, size, width, f, 1..k + 1)
    BY <1>7, <2>1 DEF Splits
  <2>5. text[k + 1] \in S
    BY <1>1, <2>1
  <2>6. Put(S, size, width)[<<f[1..k], text[k + 1]>>] =
            PutCharacter(f[1..k], text[k + 1], size, width)
    BY <1>9, <2>5 DEF Put
  <2> QED BY <2>2, <2>3, <2>4, <2>6 DEF SplitStep
<1>10. \A k \in 0..Len(text) - 1 :
         f[1..k] \in Broken(S) => f[1..k + 1] = Put(S, size, width)[<<f[1..k], text[k + 1]>>]
  BY <1>1, <1>9
<1>11. text \in Seq(S)
  OBVIOUS
<1>12. Runs(NoLines, Put(S, size, width), text, f[1..Len(text)])
  BY <1>2, <1>8, <1>10, <1>11, RunOfFunction
<1> QED BY <1>1, <1>7, <1>12

\* Every run ends in a value of the right type, and there is one.
LEMMA RunValue ==
  ASSUME NEW A, NEW E, NEW base \in A, NEW F \in [A \X E -> A], NEW text \in Seq(E),
         NEW v, Runs(base, F, text, v)
  PROVE  v \in A
<1>1. PICK h : Run(base, F, text, Len(text), h) /\ h[Len(text)] = v
  BY DEF Runs
<1>2. Len(text) \in 0..Len(text)
  OBVIOUS
<1> QED BY <1>1, <1>2, RunIsTyped

LEMMA RunExists ==
  ASSUME NEW A, NEW E, NEW base \in A, NEW F \in [A \X E -> A], NEW text \in Seq(E)
  PROVE  \E v : Runs(base, F, text, v)
<1>1. PICK n \in Nat : n = Len(text)
  OBVIOUS
<1>2. PICK g \in Folding(A, base, F, text) : TRUE
  BY FoldingExists
<1>3. \A s \in SUBSET (1..n) : g[s] = FoldStep(base, F, text, g, s)
  BY <1>1, <1>2 DEF Folding
<1>4. g[{}] = base
  <2>1. {} \in SUBSET (1..n)
    OBVIOUS
  <2> QED BY <1>3, <2>1 DEF FoldStep
<1>5. ASSUME NEW k \in 0..n - 1
      PROVE  g[1..k + 1] = F[<<g[1..k], text[k + 1]>>]
  <2>1. k \in Nat /\ k + 1 \in 1..n
    BY <1>1
  <2>2. 1..k + 1 \in SUBSET (1..n)
    <3>1. \A i \in 1..k + 1 : i \in 1..n
      BY <1>1, <2>1
    <3> QED BY <3>1
  <2>3. 1..k + 1 # {}
    <3>1. k + 1 \in 1..k + 1
      BY <2>1
    <3> QED BY <3>1
  <2>4. Max(1..k + 1) = k + 1 /\ (1..k + 1) \ {k + 1} = 1..k
    BY <2>1, UpTo
  <2> QED BY <1>3, <2>2, <2>3, <2>4 DEF FoldStep
<1>6. \A k \in 0..Len(text) - 1 :
        g[1..k] \in A => g[1..k + 1] = F[<<g[1..k], text[k + 1]>>]
  BY <1>1, <1>5
<1>7. Runs(base, F, text, g[1..Len(text)])
  BY <1>4, <1>6, RunOfFunction
<1> QED BY <1>7

(***************************************************************************)
(* What one more character, or one more line, does.                        *)
(***************************************************************************)
LEMMA WidthIsNatural ==
  ASSUME NEW E, Measurable(E), NEW line \in Seq(E), NEW size \in Nat
  PROVE  LineWidth(line, size) \in Nat
<1>1. Measures(E, size) \in [RowWidths \X E -> RowWidths] /\ NothingMeasured \in RowWidths
  BY MeasuresAreTyped
<1>2. Runs(NothingMeasured, Measures(E, size), line, Measured(line, size))
  BY MeasuringRuns
<1>3. Measured(line, size) \in RowWidths
  BY <1>1, <1>2, RunValue
<1> QED BY <1>3 DEF LineWidth, RowWidths

LEMMA MeasuringStart ==
  ASSUME NEW size \in Nat  PROVE Measured(<<>>, size) = NothingMeasured
<1>1. <<>> \in Seq({}) /\ Measurable({})
  BY DEF Measurable
<1>2. Runs(NothingMeasured, Measures({}, size), <<>>, Measured(<<>>, size))
  BY <1>1, MeasuringRuns
<1> QED BY <1>2, RunOfNothing

LEMMA NoWidth ==
  ASSUME NEW size \in Nat  PROVE LineWidth(<<>>, size) = 0
BY MeasuringStart DEF LineWidth, NothingMeasured

LEMMA MeasuringGrows ==
  ASSUME NEW E, Measurable(E), NEW text \in Seq(E), NEW c \in E, NEW size \in Nat
  PROVE  /\ Measured(text, size) \in RowWidths
         /\ Measured(Append(text, c), size) = Measure(Measured(text, size), c, size)
<1> DEFINE A == RowWidths
           F == Measures(E, size)
           base == NothingMeasured
           v == Measured(text, size)
           w == Measured(Append(text, c), size)
<1>1. Typed(A, E, base, F)
  BY MeasuresAreTyped DEF Typed
<1>2. Longer(base, F, text, c, v, w)
  <2>1. Append(text, c) \in Seq(E)
    OBVIOUS
  <2>2. Runs(base, F, text, v)
    BY MeasuringRuns
  <2>3. Runs(base, F, Append(text, c), w)
    BY <2>1, MeasuringRuns
  <2> QED BY <2>2, <2>3 DEF Longer
<1>3. v \in A /\ w = F[<<v, c>>]
  <2> HIDE DEF A, F, base, v, w
  <2> QED BY <1>1, <1>2, RunGrows
<1> QED BY <1>3 DEF Measures

LEMMA AddLetterIsTyped ==
  ASSUME NEW S  PROVE AddLetter(S) \in [Seq(S) \X S -> Seq(S)]
<1>1. \A a \in Seq(S), c \in S : Append(a, c) \in Seq(S)
  OBVIOUS
<1> QED BY <1>1 DEF AddLetter

LEMMA LettersStart ==
  Letters(<<>>) = <<>>
<1>1. <<>> \in Seq({})
  OBVIOUS
<1>2. Runs(<<>>, AddLetter({}), <<>>, Letters(<<>>))
  BY <1>1, LettersRun
<1> QED BY <1>2, RunOfNothing

LEMMA LettersGrow ==
  ASSUME NEW S, NEW text \in Seq(S), NEW c \in S
  PROVE  /\ Letters(text) \in Seq(S)
         /\ c = Space => Letters(Append(text, c)) = Letters(text)
         /\ c # Space => Letters(Append(text, c)) = Append(Letters(text), c)
<1>1. AddLetter(S) \in [Seq(S) \X S -> Seq(S)]
  BY AddLetterIsTyped
<1>6. <<>> \in Seq(S)
  OBVIOUS
<1>2. Append(text, c) \in Seq(S)
  OBVIOUS
<1>3. Runs(<<>>, AddLetter(S), text, Letters(text))
  BY LettersRun
<1>4. Runs(<<>>, AddLetter(S), Append(text, c), Letters(Append(text, c)))
  BY <1>2, LettersRun
<1>5. /\ Letters(text) \in Seq(S)
      /\ Letters(Append(text, c)) = AddLetter(S)[<<Letters(text), c>>]
  <2> DEFINE A == Seq(S)
             F == AddLetter(S)
             base == <<>>
             v == Letters(text)
             w == Letters(Append(text, c))
  <2>1. Typed(A, S, base, F) /\ Longer(base, F, text, c, v, w)
    BY <1>1, <1>3, <1>4, <1>6 DEF Typed, Longer
  <2> HIDE DEF A, F, base, v, w
  <2>2. v \in A /\ w = F[<<v, c>>]
    BY <2>1, RunGrows
  <2> QED BY <2>2 DEF A, F, v, w
<1> QED BY <1>5 DEF AddLetter

LEMMA LettersOfWord ==
  ASSUME NEW S, Space \notin S
  PROVE  \A text \in Seq(S) : Letters(text) = text
<1> DEFINE T == {text \in Seq(S) : Letters(text) = text}
<1>1. <<>> \in T
  BY LettersStart
<1>2. ASSUME NEW text \in Seq(S), NEW c \in S, text \in T  PROVE Append(text, c) \in T
  BY <1>2, LettersGrow
<1>3. Seq(S) \subseteq T
  <2> HIDE DEF T
  <2> QED BY <1>1, <1>2, AllSequences
<1> QED BY <1>3

\* A text that is longer by one character after another is longer by that one.
LEMMA AppendLast ==
  ASSUME NEW S, NEW s \in Seq(S), NEW t \in Seq(S), NEW c \in S
  PROVE  s \o Append(t, c) = Append(s \o t, c)
OBVIOUS

LEMMA LettersTyped ==
  ASSUME NEW S
  PROVE  \A text \in Seq(S) : Letters(text) \in Seq(S)
<1>1. ASSUME NEW text \in Seq(S)  PROVE Letters(text) \in Seq(S)
  <2>1. Runs(<<>>, AddLetter(S), text, Letters(text))
    BY LettersRun
  <2>2. <<>> \in Seq(S)
    OBVIOUS
  <2> QED BY <2>1, <2>2, AddLetterIsTyped, RunValue
<1> QED BY <1>1

LEMMA LettersOfBoth ==
  ASSUME NEW S, NEW s \in Seq(S)
  PROVE  \A t \in Seq(S) : Letters(s \o t) = Letters(s) \o Letters(t)
<1> DEFINE T == {t \in Seq(S) : Letters(s \o t) = Letters(s) \o Letters(t)}
<1>1. <<>> \in T
  <2>1. Letters(s) \in Seq(S)
    BY LettersTyped
  <2>2. s \o <<>> = s /\ Letters(s) \o <<>> = Letters(s)
    BY <2>1
  <2>3. Letters(s \o <<>>) = Letters(s) \o Letters(<<>>)
    BY <2>2, LettersStart
  <2>4. <<>> \in Seq(S)
    OBVIOUS
  <2> QED BY <2>3, <2>4
<1>2. ASSUME NEW t \in Seq(S), NEW c \in S, t \in T  PROVE Append(t, c) \in T
  <2>1. s \o t \in Seq(S) /\ Append(t, c) \in Seq(S)
    OBVIOUS
  <2>2. s \o Append(t, c) = Append(s \o t, c)
    BY AppendLast
  <2>3. Letters(s) \in Seq(S) /\ Letters(t) \in Seq(S)
    BY LettersTyped
  <2>4. Letters(s \o t) = Letters(s) \o Letters(t)
    BY <1>2
  <2>5. CASE c = Space
    <3>1. Letters(Append(s \o t, c)) = Letters(s \o t)
      BY <2>1, <2>5, LettersGrow
    <3>2. Letters(Append(t, c)) = Letters(t)
      BY <2>5, LettersGrow
    <3> QED BY <2>1, <2>2, <2>4, <3>1, <3>2
  <2>6. CASE c # Space
    <3>1. Letters(Append(s \o t, c)) = Append(Letters(s \o t), c)
      BY <2>1, <2>6, LettersGrow
    <3>2. Letters(Append(t, c)) = Append(Letters(t), c)
      BY <2>6, LettersGrow
    <3>3. Letters(s) \o Append(Letters(t), c) = Append(Letters(s) \o Letters(t), c)
      BY <2>3, AppendLast
    <3> QED BY <2>1, <2>2, <2>4, <3>1, <3>2, <3>3
  <2> QED BY <2>5, <2>6
<1>3. Seq(S) \subseteq T
  <2> HIDE DEF T
  <2> QED BY <1>1, <1>2, AllSequences
<1> QED BY <1>3

\* Lines after lines
Joins(S) == [at \in Seq(S) \X Seq(S) |-> at[1] \o at[2]]

Flattened(seqs, n, f) ==
    f = [i \in 1..n |-> IF i = 1 THEN seqs[i] ELSE f[i - 1] \o seqs[i]]

LEMMA JoinsIsTyped ==
  ASSUME NEW S  PROVE Joins(S) \in [Seq(S) \X Seq(S) -> Seq(S)] /\ <<>> \in Seq(S)
<1>1. \A s \in Seq(S), t \in Seq(S) : s \o t \in Seq(S)
  OBVIOUS
<1> QED BY <1>1 DEF Joins

LEMMA FlattenRun ==
  ASSUME NEW S, NEW seqs \in Seq(Seq(S))
  PROVE  Runs(<<>>, Joins(S), seqs, FlattenSeq(seqs))
<1>1. PICK n \in Nat : n = Len(seqs) /\ \A i \in 1..n : seqs[i] \in Seq(S)
  <2> DEFINE Z == Seq(S)
  <2>1. seqs \in Seq(Z)
    OBVIOUS
  <2> HIDE DEF Z
  <2>2. \E n \in Nat : n = Len(seqs) /\ \A i \in 1..n : seqs[i] \in Z
    BY <2>1
  <2> QED BY <2>2 DEF Z
<1>2. PICK v : Runs(<<>>, Joins(S), seqs, v)
  BY JoinsIsTyped, RunExists
<1>3. PICK h : Run(<<>>, Joins(S), seqs, n, h) /\ h[n] = v
  BY <1>1, <1>2 DEF Runs
<1>4. \A k \in 0..n : h[k] \in Seq(S)
  <2>1. n \in 0..Len(seqs)
    BY <1>1
  <2> QED BY <1>3, <2>1, JoinsIsTyped, RunIsTyped
<1>5. \A k \in 0..n - 1 : h[k + 1] = h[k] \o seqs[k + 1]
  <2>1. ASSUME NEW k \in 0..n - 1  PROVE h[k + 1] = h[k] \o seqs[k + 1]
    <3>1. k \in 0..n /\ k + 1 \in 1..n
      BY <1>1
    <3>2. h[k] \in Seq(S) /\ seqs[k + 1] \in Seq(S)
      BY <1>1, <1>4, <3>1
    <3>3. h[k + 1] = Joins(S)[<<h[k], seqs[k + 1]>>]
      BY <1>3 DEF Run
    <3> QED BY <3>2, <3>3 DEF Joins
  <2> QED BY <2>1
<1>6. h[0] = <<>>
  BY <1>3 DEF Run
<1>7. CASE n = 0
  <2>1. seqs = <<>>
    <3> DEFINE Z == Seq(S)
    <3>1. seqs \in Seq(Z) /\ Len(seqs) = 0
      BY <1>1, <1>7
    <3> HIDE DEF Z
    <3> QED BY <3>1, EmptySeq
  <2>2. FlattenSeq(seqs) = seqs
    BY <1>1, <1>7 DEF FlattenSeq
  <2> QED BY <1>2, <1>3, <1>6, <1>7, <2>1, <2>2
<1>8. CASE n # 0
  <2>1. FlattenSeq(seqs) = (CHOOSE f : Flattened(seqs, n, f))[n]
    BY <1>1, <1>8 DEF FlattenSeq, Flattened
  <2>2. \E f : Flattened(seqs, n, f)
    <3> DEFINE g == [i \in 1..n |-> h[i]]
    <3>1. ASSUME NEW i \in 1..n
          PROVE  g[i] = IF i = 1 THEN seqs[i] ELSE g[i - 1] \o seqs[i]
      <4>1. CASE i = 1
        <5>1. h[1] = h[0] \o seqs[1]
          <6>1. 0 \in 0..n - 1 /\ 0 + 1 = 1
            BY <1>8
          <6>2. h[0 + 1] = h[0] \o seqs[0 + 1]
            BY <1>5, <6>1
          <6> QED BY <6>1, <6>2
        <5>2. seqs[1] \in Seq(S)
          BY <1>1, <4>1
        <5>3. <<>> \o seqs[1] = seqs[1]
          BY <5>2
        <5> QED BY <1>6, <4>1, <5>1, <5>3
      <4>2. CASE i # 1
        <5>1. i - 1 \in 0..n - 1 /\ i - 1 \in 1..n /\ (i - 1) + 1 = i
          BY <4>2
        <5>2. h[i] = h[i - 1] \o seqs[i]
          BY <1>5, <5>1
        <5>3. g[i - 1] = h[i - 1] /\ g[i] = h[i]
          BY <5>1
        <5> QED BY <4>2, <5>2, <5>3
      <4> QED BY <4>1, <4>2
    <3>2. g = [i \in 1..n |-> g[i]]
      OBVIOUS
    <3>3. Flattened(seqs, n, g)
      <4> HIDE DEF g
      <4> QED BY <3>1, <3>2 DEF Flattened
    <3> QED BY <3>3
  <2>3. PICK f : Flattened(seqs, n, f) /\ FlattenSeq(seqs) = f[n]
    BY <2>1, <2>2
  <2> DEFINE T == {k \in Nat : k + 1 <= n => f[k + 1] = h[k + 1]}
  <2>4. 0 \in T
    <3>1. h[1] = h[0] \o seqs[1] /\ 1 \in 1..n
      <4>1. 0 \in 0..n - 1 /\ 0 + 1 = 1 /\ 1 \in 1..n
        BY <1>8
      <4>2. h[0 + 1] = h[0] \o seqs[0 + 1]
        BY <1>5, <4>1
      <4> QED BY <4>1, <4>2
    <3>2. <<>> \o seqs[1] = seqs[1]
      BY <1>1, <3>1
    <3>3. f[1] = seqs[1]
      BY <2>3, <3>1 DEF Flattened
    <3> QED BY <1>6, <3>1, <3>2, <3>3
  <2>5. ASSUME NEW k \in Nat, k \in T  PROVE k + 1 \in T
    <3> SUFFICES ASSUME (k + 1) + 1 <= n  PROVE f[(k + 1) + 1] = h[(k + 1) + 1]
      OBVIOUS
    <3>1. f[k + 1] = h[k + 1]
      BY <2>5
    <3>2. k + 1 \in 0..n - 1 /\ (k + 1) + 1 \in 1..n /\ (k + 1) + 1 # 1
      OBVIOUS
    <3>3. ((k + 1) + 1) - 1 = k + 1
      OBVIOUS
    <3>4. f[(k + 1) + 1] = f[((k + 1) + 1) - 1] \o seqs[(k + 1) + 1]
      BY <2>3, <3>2 DEF Flattened
    <3> QED BY <1>5, <3>1, <3>2, <3>3, <3>4
  <2>6. n - 1 \in T
    <3>1. Nat \subseteq T
      <4> HIDE DEF T
      <4> QED BY <2>4, <2>5, AllNumbers
    <3>2. n - 1 \in Nat
      BY <1>8
    <3> QED BY <3>1, <3>2
  <2>7. (n - 1) + 1 = n
    OBVIOUS
  <2>8. f[n] = h[n]
    BY <2>6, <2>7
  <2> QED BY <1>2, <1>3, <2>3, <2>8
<1> QED BY <1>7, <1>8

LEMMA FlatStart ==
  FlattenSeq(<<>>) = <<>>
BY DEF FlattenSeq

LEMMA FlatTyped ==
  ASSUME NEW S, NEW seqs \in Seq(Seq(S))  PROVE FlattenSeq(seqs) \in Seq(S)
BY FlattenRun, JoinsIsTyped, RunValue

LEMMA FlatGrows ==
  ASSUME NEW S, NEW seqs \in Seq(Seq(S)), NEW line \in Seq(S)
  PROVE  FlattenSeq(Append(seqs, line)) = FlattenSeq(seqs) \o line
<1> DEFINE Z == Seq(S)
<1>1. Append(seqs, line) \in Seq(Seq(S))
  <2>1. seqs \in Seq(Z) /\ line \in Z
    OBVIOUS
  <2> HIDE DEF Z
  <2>2. Append(seqs, line) \in Seq(Z)
    BY <2>1
  <2> QED BY <2>2 DEF Z
<1>2. Runs(<<>>, Joins(S), seqs, FlattenSeq(seqs))
  BY FlattenRun
<1>3. Runs(<<>>, Joins(S), Append(seqs, line), FlattenSeq(Append(seqs, line)))
  BY <1>1, FlattenRun
<1>4. /\ FlattenSeq(seqs) \in Seq(S)
      /\ FlattenSeq(Append(seqs, line)) = Joins(S)[<<FlattenSeq(seqs), line>>]
  <2> DEFINE F == Joins(S)
             base == <<>>
             v == FlattenSeq(seqs)
             w == FlattenSeq(Append(seqs, line))
  <2>1. /\ Typed(Z, Z, base, F) /\ Longer(base, F, seqs, line, v, w)
        /\ seqs \in Seq(Z) /\ line \in Z
    BY <1>2, <1>3, JoinsIsTyped DEF Typed, Longer
  <2> HIDE DEF Z, F, base, v, w
  <2>2. v \in Z /\ w = F[<<v, line>>]
    BY <2>1, RunGrows
  <2> QED BY <2>2 DEF Z, F, v, w
<1> QED BY <1>4 DEF Joins

LEMMA FlatOfBoth ==
  ASSUME NEW S, NEW some \in Seq(Seq(S))
  PROVE  \A more \in Seq(Seq(S)) :
           FlattenSeq(some \o more) = FlattenSeq(some) \o FlattenSeq(more)
<1> DEFINE Z == Seq(S)
           T == {more \in Seq(Z) :
                   FlattenSeq(some \o more) = FlattenSeq(some) \o FlattenSeq(more)}
<1>1. <<>> \in T
  <2>1. FlattenSeq(some) \in Seq(S)
    BY FlatTyped
  <2>2. some \o <<>> = some /\ FlattenSeq(some) \o <<>> = FlattenSeq(some)
    BY <2>1
  <2>3. FlattenSeq(some \o <<>>) = FlattenSeq(some) \o FlattenSeq(<<>>)
    BY <2>2, FlatStart
  <2>4. <<>> \in Seq(Z)
    OBVIOUS
  <2> QED BY <2>3, <2>4
<1>2. ASSUME NEW more \in Seq(Z), NEW line \in Z, more \in T
      PROVE  Append(more, line) \in T
  <2>1. some \o more \in Seq(Z) /\ Append(more, line) \in Seq(Z) /\ some \in Seq(Z)
    <3>1. some \in Seq(Z)
      OBVIOUS
    <3> HIDE DEF Z
    <3> QED BY <3>1
  <2>2. some \o Append(more, line) = Append(some \o more, line)
    <3> HIDE DEF Z
    <3> QED BY <2>1, AppendLast
  <2>3. FlattenSeq(Append(some \o more, line)) = FlattenSeq(some \o more) \o line
    BY <2>1, FlatGrows
  <2>4. FlattenSeq(Append(more, line)) = FlattenSeq(more) \o line
    BY FlatGrows
  <2>5. FlattenSeq(some \o more) = FlattenSeq(some) \o FlattenSeq(more)
    BY <1>2
  <2>6. FlattenSeq(some) \in Seq(S) /\ FlattenSeq(more) \in Seq(S)
    BY FlatTyped
  <2>7. (FlattenSeq(some) \o FlattenSeq(more)) \o line
          = FlattenSeq(some) \o (FlattenSeq(more) \o line)
    BY <2>6, ConcatAssociative
  <2>8. FlattenSeq(some \o Append(more, line))
          = FlattenSeq(some) \o FlattenSeq(Append(more, line))
    BY <2>2, <2>3, <2>4, <2>5, <2>7
  <2> QED BY <2>1, <2>8
<1>3. Seq(Z) \subseteq T
  <2> HIDE DEF T, Z
  <2> QED BY <1>1, <1>2, AllSequences
<1> QED BY <1>3

(***************************************************************************)
(* Breaking a text by its characters.  Lines(S, size, width) are the lines *)
(* over S that line breaking may make, and Kept says that what has been    *)
(* broken so far is such lines and one that is not closed.                 *)
(***************************************************************************)
Within(line, size, width) == LineWidth(line, size) <= width \/ Len(line) = 1

Lines(S, size, width) == {line \in Seq(S) : line # <<>> /\ Within(line, size, width)}

Kept(G, acc) ==
    /\ acc.lines \in Seq(G)
    /\ \/ acc.current \in G
       \/ acc.current = <<>> /\ acc.lines = <<>>

HasText(S, size, width, text, acc) ==
    /\ acc \in Broken(S)
    /\ Kept(Lines(S, size, width), acc)
    /\ FlattenSeq(acc.lines) \o acc.current = text

\* Closing the last line keeps the lines and the text.
LEMMA ClosingKeeps ==
  ASSUME NEW S, NEW G, G \subseteq Seq(S), NEW acc, Kept(G, acc)
  PROVE  /\ Closed(acc) \in Seq(G)
         /\ FlattenSeq(Closed(acc)) = FlattenSeq(acc.lines) \o acc.current
         /\ acc.lines \in Seq(Seq(S)) /\ acc.current \in Seq(S)
<1>1. acc.lines \in Seq(G)
  BY DEF Kept
<1>2. acc.lines \in Seq(Seq(S))
  BY <1>1, SeqMonotonic
<1>3. acc.current \in Seq(S)
  <2>1. <<>> \in Seq(S)
    OBVIOUS
  <2> QED BY <2>1 DEF Kept
<1>4. FlattenSeq(acc.lines) \in Seq(S)
  BY <1>2, FlatTyped
<1>5. CASE acc.current = <<>>
  <2>1. Closed(acc) = acc.lines
    BY <1>5 DEF Closed
  <2>2. FlattenSeq(acc.lines) \o <<>> = FlattenSeq(acc.lines)
    BY <1>4
  <2> QED BY <1>1, <1>2, <1>3, <1>5, <2>1, <2>2
<1>6. CASE acc.current # <<>>
  <2>1. Closed(acc) = Append(acc.lines, acc.current)
    BY <1>6 DEF Closed
  <2>2. acc.current \in G
    BY <1>6 DEF Kept
  <2>3. Append(acc.lines, acc.current) \in Seq(G)
    BY <1>1, <2>2
  <2>4. FlattenSeq(Append(acc.lines, acc.current)) = FlattenSeq(acc.lines) \o acc.current
    BY <1>2, <1>3, FlatGrows
  <2> QED BY <1>2, <1>3, <2>1, <2>3, <2>4
<1> QED BY <1>5, <1>6

LEMMA SplittingStart ==
  ASSUME NEW size, NEW width
  PROVE  Splitting(<<>>, size, width) = NoLines
<1>1. <<>> \in Seq({})
  OBVIOUS
<1>2. Runs(NoLines, Put({}, size, width), <<>>, Splitting(<<>>, size, width))
  BY <1>1, SplittingRuns
<1> QED BY <1>2, RunOfNothing

LEMMA SplittingGrows ==
  ASSUME NEW S, NEW text \in Seq(S), NEW c \in S, NEW size, NEW width
  PROVE  /\ Splitting(text, size, width) \in Broken(S)
         /\ Splitting(Append(text, c), size, width)
              = PutCharacter(Splitting(text, size, width), c, size, width)
<1> DEFINE A == Broken(S)
           F == Put(S, size, width)
           base == NoLines
           v == Splitting(text, size, width)
           w == Splitting(Append(text, c), size, width)
<1>1. Typed(A, S, base, F)
  <2>1. NoLines \in Broken(S)
    BY DEF NoLines, Broken
  <2>2. Put(S, size, width) \in [Broken(S) \X S -> Broken(S)]
    BY PutIsBroken DEF Put
  <2> QED BY <2>1, <2>2 DEF Typed
<1>2. Longer(base, F, text, c, v, w)
  <2>1. Append(text, c) \in Seq(S)
    OBVIOUS
  <2>2. Runs(base, F, text, v)
    BY SplittingRuns
  <2>3. Runs(base, F, Append(text, c), w)
    BY <2>1, SplittingRuns
  <2> QED BY <2>2, <2>3 DEF Longer
<1>3. v \in A /\ w = F[<<v, c>>]
  <2> HIDE DEF A, F, base, v, w
  <2> QED BY <1>1, <1>2, RunGrows
<1> QED BY <1>3 DEF Put

\* Every character stays, in its place.
LEMMA PutKeeps ==
  ASSUME NEW S, Measurable(S), NEW size \in Nat, NEW width \in Nat,
         NEW text \in Seq(S), NEW c \in S,
         NEW acc, HasText(S, size, width, text, acc)
  PROVE  HasText(S, size, width, Append(text, c), PutCharacter(acc, c, size, width))
<1> DEFINE G == Lines(S, size, width)
<1>0. PICK next : next = PutCharacter(acc, c, size, width)
  OBVIOUS
<1>8. /\ acc \in Broken(S) /\ Kept(G, acc)
      /\ FlattenSeq(acc.lines) \o acc.current = text
  BY DEF HasText
<1>9. next \in Broken(S)
  BY <1>0, <1>8, PutIsBroken
<1>1. acc.lines \in Seq(G) /\ acc.current \in Seq(S) /\ acc.lines \in Seq(Seq(S))
  BY <1>8 DEF Kept, Broken
<1>2. Append(acc.current, c) \in Seq(S) /\ <<c>> \in Seq(S)
  BY <1>1
<1>3. LineWidth(Append(acc.current, c), size) \in Nat
  BY <1>2, WidthIsNatural
<1>4. FlattenSeq(acc.lines) \in Seq(S)
  BY <1>1, FlatTyped
<1>5. CASE acc.current # <<>> /\ LineWidth(Append(acc.current, c), size) > width
  <2>1. next.lines = Append(acc.lines, acc.current) /\ next.current = <<c>>
    BY <1>0, <1>5 DEF PutCharacter
  <2>2. acc.current \in G
    BY <1>5, <1>8 DEF Kept
  <2>3. Append(acc.lines, acc.current) \in Seq(G)
    <3> HIDE DEF G
    <3> QED BY <1>1, <2>2
  <2>4. <<c>> \in G
    <3>1. Len(<<c>>) = 1 /\ <<c>> # <<>>
      OBVIOUS
    <3> QED BY <1>2, <3>1 DEF Lines, Within
  <2>5. FlattenSeq(next.lines) = text
    BY <1>1, <1>8, <2>1, FlatGrows
  <2>6. text \o <<c>> = Append(text, c)
    BY AppendIsConcat
  <2> QED BY <1>0, <1>9, <2>1, <2>3, <2>4, <2>5, <2>6 DEF Kept, HasText
<1>6. CASE ~(acc.current # <<>> /\ LineWidth(Append(acc.current, c), size) > width)
  <2>1. next.lines = acc.lines /\ next.current = Append(acc.current, c)
    BY <1>0, <1>6, <1>8 DEF PutCharacter, Broken
  <2>2. Append(acc.current, c) \in G
    <3>1. Append(acc.current, c) # <<>>
      <4>1. \A line \in Seq(S) : Append(line, c) # <<>>
        BY AppendProperties
      <4> QED BY <1>1, <4>1
    <3>2. Within(Append(acc.current, c), size, width)
      <4>1. CASE acc.current = <<>>
        <5>1. Len(Append(<<>>, c)) = 1
          OBVIOUS
        <5> QED BY <4>1, <5>1 DEF Within
      <4>2. CASE LineWidth(Append(acc.current, c), size) <= width
        BY <4>2 DEF Within
      <4> QED BY <1>3, <1>6, <4>1, <4>2
    <3> QED BY <1>2, <3>1, <3>2 DEF Lines
  <2>3. FlattenSeq(acc.lines) \o Append(acc.current, c)
          = Append(FlattenSeq(acc.lines) \o acc.current, c)
    <3>1. PICK s \in Seq(S), t \in Seq(S) : s = FlattenSeq(acc.lines) /\ t = acc.current
      BY <1>1, <1>4
    <3>2. s \o Append(t, c) = Append(s \o t, c)
      BY AppendLast
    <3> QED BY <3>1, <3>2
  <2> QED BY <1>0, <1>1, <1>8, <1>9, <2>1, <2>2, <2>3 DEF Kept, HasText
<1> QED BY <1>5, <1>6

LEMMA SplittingKeeps ==
  ASSUME NEW S, Measurable(S), NEW size \in Nat, NEW width \in Nat
  PROVE  \A text \in Seq(S) : HasText(S, size, width, text, Splitting(text, size, width))
<1> DEFINE T == {text \in Seq(S) :
                   HasText(S, size, width, text, Splitting(text, size, width))}
<1>1. <<>> \in T
  <2>1. NoLines \in Broken(S)
    BY DEF NoLines, Broken
  <2>2. Kept(Lines(S, size, width), NoLines)
    BY DEF Kept, NoLines
  <2>3. FlattenSeq(NoLines.lines) \o NoLines.current = <<>>
    BY FlatStart DEF NoLines
  <2>4. HasText(S, size, width, <<>>, NoLines)
    BY <2>1, <2>2, <2>3 DEF HasText
  <2>5. Splitting(<<>>, size, width) = NoLines
    BY SplittingStart
  <2>6. <<>> \in Seq(S)
    OBVIOUS
  <2> QED BY <2>4, <2>5, <2>6
<1>2. ASSUME NEW text \in Seq(S), NEW c \in S, text \in T  PROVE Append(text, c) \in T
  <2>1. PICK acc : acc = Splitting(text, size, width)
    OBVIOUS
  <2>2. HasText(S, size, width, text, acc)
    BY <1>2, <2>1
  <2>3. HasText(S, size, width, Append(text, c), PutCharacter(acc, c, size, width))
    BY <2>2, PutKeeps
  <2>4. Splitting(Append(text, c), size, width) = PutCharacter(acc, c, size, width)
    BY <2>1, SplittingGrows
  <2>5. Append(text, c) \in Seq(S)
    OBVIOUS
  <2> QED BY <2>3, <2>4, <2>5
<1>3. Seq(S) \subseteq T
  <2> HIDE DEF T
  <2> QED BY <1>1, <1>2, AllSequences
<1> QED BY <1>3

\* A text in pieces is the same text, and each piece is a line that may be made.
LEMMA PiecesKeep ==
  ASSUME NEW S, Measurable(S), NEW size \in Nat, NEW width \in Nat,
         NEW text \in Seq(S)
  PROVE  /\ SplitOversizedWord(text, size, width) \in Seq(Lines(S, size, width))
         /\ FlattenSeq(SplitOversizedWord(text, size, width)) = text
<1>1. PICK acc : acc = Splitting(text, size, width)
  OBVIOUS
<1>2. /\ Kept(Lines(S, size, width), acc)
      /\ FlattenSeq(acc.lines) \o acc.current = text
  <2>1. HasText(S, size, width, text, acc)
    BY <1>1, SplittingKeeps
  <2> QED BY <2>1 DEF HasText
<1>3. SplitOversizedWord(text, size, width) = Closed(acc)
  BY <1>1 DEF SplitOversizedWord, Splitting
<1>4. Lines(S, size, width) \subseteq Seq(S)
  BY DEF Lines
<1>5. /\ Closed(acc) \in Seq(Lines(S, size, width))
      /\ FlattenSeq(Closed(acc)) = text
  BY <1>2, <1>4, ClosingKeeps
<1> QED BY <1>3, <1>5

\* The overlay: nothing is lost, and only a single character leaves the width.
LEMMA OverlayHolds ==
  ASSUME NEW text \in Seq(Characters), NEW size \in Nat, NEW width \in Nat
  PROVE  OverlayRule(text, size, width)
<1>1. PICK lines : lines = WrapCharacters(text, size, width)
  OBVIOUS
<1>2. CASE text = <<>>
  <2>1. lines = << <<>> >>
    BY <1>1, <1>2 DEF WrapCharacters
  <2>2. FlattenSeq(lines) = <<>>
    <3>1. <<>> \in Seq(Seq({})) /\ <<>> \in Seq({})
      OBVIOUS
    <3>2. FlattenSeq(Append(<<>>, <<>>)) = FlattenSeq(<<>>) \o <<>>
      BY <3>1, FlatGrows
    <3>3. Append(<<>>, <<>>) = << <<>> >>
      OBVIOUS
    <3> QED BY <2>1, <3>2, <3>3, FlatStart
  <2>3. LineWidth(<<>>, size) <= width
    BY NoWidth
  <2>4. \A i \in DOMAIN lines : LineWidth(lines[i], size) <= width
    BY <2>1, <2>3
  <2> QED BY <1>1, <1>2, <2>2, <2>4 DEF OverlayRule, OverlayIsKept
<1>3. CASE text # <<>>
  <2>1. lines = SplitOversizedWord(text, size, width)
    BY <1>1, <1>3 DEF WrapCharacters
  <2>2. lines \in Seq(Lines(Characters, size, width)) /\ FlattenSeq(lines) = text
    BY <2>1, PiecesKeep, CharactersCanBeMeasured
  <2>3. ASSUME NEW i \in DOMAIN lines
        PROVE  LineWidth(lines[i], size) <= width \/ Len(lines[i]) = 1
    <3>1. lines[i] \in Lines(Characters, size, width)
      BY <2>2
    <3> QED BY <3>1 DEF Lines, Within
  <2> QED BY <1>1, <2>2, <2>3 DEF OverlayRule, OverlayIsKept
<1> QED BY <1>2, <1>3

(***************************************************************************)
(* Breaking a text at its words.  A line of words does not begin with a    *)
(* space; Shown is what can be read of the lines so far.                   *)
(***************************************************************************)
WordLines(size, width) == {line \in Lines(Characters, size, width) : line[1] # Space}

Wraps(size, width) == {acc \in Broken(Characters) : Kept(WordLines(size, width), acc)}

Shown(acc) == Letters(FlattenSeq(acc.lines) \o acc.current)

LEMMA WordsAreTexts ==
  ASSUME NEW word \in Words
  PROVE  /\ word \in Seq(Characters) /\ word \in Seq(Characters \ {Space})
         /\ word # <<>> /\ Letters(word) = word
<1>1. word \in Seq(Range(word)) /\ word # <<>> /\ Space \notin Range(word)
  BY TextAssumption
<1>2. Range(word) \subseteq Characters
  BY DEF Characters
<1>3. word \in Seq(Characters)
  BY <1>1, <1>2, SeqMonotonic
<1>4. Range(word) \subseteq Characters \ {Space}
  BY <1>1, <1>2
<1>5. word \in Seq(Characters \ {Space})
  BY <1>1, <1>4, SeqMonotonic
<1>6. Letters(word) = word
  BY <1>1, LettersOfWord
<1> QED BY <1>1, <1>3, <1>5, <1>6

LEMMA FrontAndLast ==
  ASSUME NEW S, NEW s \in Seq(S), NEW x \in S
  PROVE  Front(Append(s, x)) = s /\ Last(Append(s, x)) = x
<1>1. PICK n \in Nat : n = Len(s)
  OBVIOUS
<1>2. Len(Append(s, x)) = n + 1
  BY <1>1
<1>3. Append(s, x)[n + 1] = x
  BY <1>1
<1>4. SubSeq(Append(s, x), 1, n) = s
  <2>1. Append(s, x) = s \o <<x>> /\ <<x>> \in Seq(S)
    BY AppendIsConcat
  <2>2. CASE n = 0
    <3>1. s = <<>>
      BY <1>1, <2>2, EmptySeq
    <3>2. SubSeq(Append(s, x), 1, 0) = <<>>
      BY SubSeqEmpty
    <3> QED BY <2>2, <3>1, <3>2
  <2>3. CASE n # 0
    <3>1. 1 \in 1..Len(s) /\ n \in 1..Len(s)
      BY <1>1, <2>3
    <3>2. SubSeq(s \o <<x>>, 1, n) = SubSeq(s, 1, n)
      BY <2>1, <3>1, SubSeqOfConcat1
    <3>3. SubSeq(s, 1, n) = s
      BY <1>1, SubSeqFull
    <3> QED BY <2>1, <3>2, <3>3
  <2> QED BY <2>2, <2>3
<1>5. (n + 1) - 1 = n
  OBVIOUS
<1> QED BY <1>2, <1>3, <1>4, <1>5 DEF Front, Last

LEMMA Associates ==
  ASSUME NEW S
  PROVE  \A x, y, z \in Seq(S) : (x \o y) \o z = x \o (y \o z)
BY ConcatAssociative

LEMMA TextsAssociate ==
  \A x, y, z \in Seq(Characters) : (x \o y) \o z = x \o (y \o z)
BY Associates

\* A word in pieces: the last one stays open.
LEMMA PiecesOfWord ==
  ASSUME NEW word \in Words, NEW size \in Nat, NEW width \in Nat
  PROVE  \E front \in Seq(WordLines(size, width)), last \in WordLines(size, width) :
           /\ Front(SplitOversizedWord(word, size, width)) = front
           /\ Last(SplitOversizedWord(word, size, width)) = last
           /\ FlattenSeq(front) \o last = word
<1> DEFINE S == Characters \ {Space}
           G == Lines(S, size, width)
<1>1. PICK pieces : pieces = SplitOversizedWord(word, size, width)
  OBVIOUS
<1>2. S \subseteq Characters /\ word \in Seq(S) /\ word # <<>>
  BY WordsAreTexts
<1>3. pieces \in Seq(G) /\ FlattenSeq(pieces) = word
  <2>1. Measurable(S)
    BY CharactersCanBeMeasured DEF Measurable
  <2> HIDE DEF S
  <2> QED BY <1>1, <1>2, <2>1, PiecesKeep
<1>4. pieces # <<>>
  BY <1>2, <1>3, FlatStart
<1>5. PICK front \in Seq(G), last \in G : pieces = Append(front, last)
  <2> HIDE DEF G
  <2> QED BY <1>3, <1>4, SequenceEmptyOrAppend
<1>6. Front(pieces) = front /\ Last(pieces) = last
  <2> HIDE DEF G
  <2> QED BY <1>5, FrontAndLast
<1>7. G \subseteq WordLines(size, width)
  <2>1. ASSUME NEW line \in G  PROVE line \in WordLines(size, width)
    <3>1. line \in Seq(S) /\ line # <<>> /\ Within(line, size, width)
      BY DEF Lines
    <3>2. line \in Seq(Characters)
      BY <3>1, SeqMonotonic
    <3>3. line[1] \in S
      BY <3>1
    <3> QED BY <3>1, <3>2, <3>3 DEF WordLines, Lines
  <2> QED BY <2>1
<1>8. front \in Seq(WordLines(size, width)) /\ last \in WordLines(size, width)
  <2> HIDE DEF G
  <2> QED BY <1>7, SeqMonotonic
<1>9. FlattenSeq(front) \o last = word
  <2>1. G \subseteq Seq(S)
    BY DEF Lines
  <2>2. front \in Seq(Seq(S)) /\ last \in Seq(S)
    <3> HIDE DEF G, S
    <3> QED BY <2>1, SeqMonotonic
  <2> QED BY <1>3, <1>5, <2>2, FlatGrows
<1> QED BY <1>1, <1>6, <1>8, <1>9

\* What a word is put behind
LEMMA BehindASpace ==
  ASSUME NEW word \in Words, NEW line \in Seq(Characters)
  PROVE  /\ Append(line, Space) \o word \in Seq(Characters)
         /\ Append(line, Space) \o word # <<>>
         /\ line # <<>> => (Append(line, Space) \o word)[1] = line[1]
         /\ Letters(Append(line, Space) \o word) = Letters(line) \o word
<1>1. Space \in Characters
  BY DEF Characters
<1>2. word \in Seq(Characters) /\ Letters(word) = word
  BY WordsAreTexts
<1>3. PICK before \in Seq(Characters) : before = Append(line, Space)
  BY <1>1, AppendProperties
<1>4. Letters(before) = Letters(line)
  BY <1>1, <1>3, LettersGrow
<1>5. Letters(before \o word) = Letters(before) \o Letters(word)
  BY <1>2, LettersOfBoth
<1>6. before # <<>>
  BY <1>1, <1>3, AppendProperties
<1>7. before \o word \in Seq(Characters) /\ before \o word # <<>>
  <2>1. before \o word \in Seq(Characters)
    BY <1>2
  <2>2. before \o word # <<>>
    BY <1>2, <1>6, ConcatEqualIffEmpty
  <2> QED BY <2>1, <2>2
<1>8. ASSUME line # <<>>  PROVE (before \o word)[1] = line[1]
  <2>1. PICK n \in Nat \ {0} : n = Len(line)
    BY <1>8, EmptySeq
  <2>2. before[1] = line[1] /\ Len(before) = n + 1
    BY <1>1, <1>3, <2>1
  <2>3. (before \o word)[1] = before[1]
    BY <1>2, <2>1, <2>2
  <2> QED BY <2>2, <2>3
<1> QED BY <1>2, <1>3, <1>4, <1>5, <1>7, <1>8

\* Placing a word adds it to what is shown.
LEMMA PlaceKeeps ==
  ASSUME NEW size \in Nat, NEW width \in Nat, NEW acc \in Wraps(size, width),
         NEW word \in Words
  PROVE  /\ PlaceWord(acc, word, size, width) \in Wraps(size, width)
         /\ Shown(PlaceWord(acc, word, size, width)) = Shown(acc) \o word
<1> DEFINE W == WordLines(size, width)
           T == Seq(Characters)
<1>1. PICK next : next = PlaceWord(acc, word, size, width)
  OBVIOUS
<1>2. acc \in Broken(Characters) /\ Kept(W, acc)
  BY DEF Wraps
<1>3. W \subseteq Seq(Characters)
  BY DEF WordLines, Lines
<1>4. PICK lines \in Seq(Seq(Characters)), current \in Seq(Characters) :
        /\ lines = acc.lines /\ current = acc.current
        /\ Closed(acc) \in Seq(W)
        /\ FlattenSeq(Closed(acc)) = FlattenSeq(lines) \o current
  BY <1>2, <1>3, ClosingKeeps
<1>5. word \in Seq(Characters) /\ word # <<>> /\ Letters(word) = word
      /\ word \in Seq(Characters \ {Space})
  BY WordsAreTexts
<1>6. PICK flat \in Seq(Characters) : flat = FlattenSeq(lines)
  BY FlatTyped
<1>7. PICK l \in Seq(Characters), k \in Seq(Characters) :
        l = Letters(flat) /\ k = Letters(current)
  BY LettersTyped
<1>8. Shown(acc) = l \o k
  BY <1>4, <1>6, <1>7, LettersOfBoth DEF Shown
<1>9. (l \o k) \o word = l \o (k \o word)
  <2>1. word \in Seq(Characters)
    BY <1>5
  <2>2. \A x, y, z \in Seq(Characters) : (x \o y) \o z = x \o (y \o z)
    BY TextsAssociate
  <2> QED BY <2>1, <2>2
<1>10. PICK candidate :
         candidate = IF acc.current = <<>> THEN word
                       ELSE Append(acc.current, Space) \o word
  OBVIOUS
<1>11. /\ candidate \in Seq(Characters) /\ candidate # <<>>
       /\ candidate[1] # Space /\ Letters(candidate) = k \o word
  <2>1. CASE current = <<>>
    <3>1. candidate = word
      BY <1>4, <1>10, <2>1
    <3>2. k = <<>>
      BY <1>7, <2>1, LettersStart
    <3>3. <<>> \o word = word
      BY <1>5
    <3>4. word[1] # Space
      BY <1>5
    <3> QED BY <1>5, <3>1, <3>2, <3>3, <3>4
  <2>2. CASE current # <<>>
    <3>1. candidate = Append(current, Space) \o word
      BY <1>4, <1>10, <2>2
    <3>2. current[1] # Space
      <4>1. current \in W
        BY <1>2, <1>4, <2>2 DEF Kept
      <4> QED BY <4>1 DEF WordLines
    <3>3. /\ Append(current, Space) \o word \in Seq(Characters)
          /\ Append(current, Space) \o word # <<>>
          /\ (Append(current, Space) \o word)[1] = current[1]
          /\ Letters(Append(current, Space) \o word) = Letters(current) \o word
      BY <2>2, BehindASpace
    <3> QED BY <1>7, <3>1, <3>2, <3>3
  <2> QED BY <2>1, <2>2
<1>12. CASE LineWidth(candidate, size) <= width
  <2>1. next.lines = acc.lines /\ next.current = candidate
        /\ next \in Broken(Characters)
    BY <1>1, <1>2, <1>10, <1>11, <1>12 DEF PlaceWord, Broken
  <2>2. candidate \in W
    BY <1>11, <1>12 DEF WordLines, Lines, Within
  <2>3. next \in Wraps(size, width)
    BY <1>2, <2>1, <2>2 DEF Wraps, Kept
  <2>4. Shown(next) = Letters(flat \o candidate)
    BY <1>4, <1>6, <2>1 DEF Shown
  <2>5. Letters(flat \o candidate) = Letters(flat) \o Letters(candidate)
    BY <1>11, LettersOfBoth
  <2> QED BY <1>1, <1>7, <1>8, <1>9, <1>11, <2>3, <2>4, <2>5
<1>13. CASE ~(LineWidth(candidate, size) <= width)
  <2>1. next = WithPieces(Closed(acc), SplitOversizedWord(word, size, width))
    BY <1>1, <1>10, <1>13 DEF PlaceWord
  <2>2. PICK front \in Seq(W), last \in W :
          /\ Front(SplitOversizedWord(word, size, width)) = front
          /\ Last(SplitOversizedWord(word, size, width)) = last
          /\ FlattenSeq(front) \o last = word
    BY PiecesOfWord
  <2>3. next = [lines |-> Closed(acc) \o front, current |-> last]
    BY <2>1, <2>2 DEF WithPieces
  <2>4. Closed(acc) \o front \in Seq(W)
    <3>1. \A a \in Seq(W), b \in Seq(W) : a \o b \in Seq(W)
      BY ConcatProperties
    <3> QED BY <1>4, <3>1
  <2>5. /\ Closed(acc) \in Seq(T) /\ front \in Seq(T) /\ last \in T
        /\ Closed(acc) \o front \in Seq(T)
    <3> HIDE DEF W, T
    <3>1. W \subseteq T
      BY <1>3 DEF T
    <3> QED BY <1>4, <2>4, <3>1, SeqMonotonic
  <2>6. next \in Wraps(size, width)
    <3>1. next.lines = Closed(acc) \o front /\ next.current = last
      BY <2>3
    <3>2. next \in Broken(Characters)
      BY <2>3, <2>5 DEF Broken
    <3> QED BY <2>4, <3>1, <3>2 DEF Wraps, Kept
  <2>7. FlattenSeq(Closed(acc) \o front)
          = FlattenSeq(Closed(acc)) \o FlattenSeq(front)
    BY <2>5, FlatOfBoth
  <2>8. PICK a \in Seq(Characters), b \in Seq(Characters) :
          a = flat \o current /\ b = FlattenSeq(front)
    <3>1. flat \o current \in Seq(Characters)
      BY <1>4, <1>6, ConcatProperties
    <3>2. FlattenSeq(front) \in Seq(Characters)
      BY <2>5, FlatTyped
    <3> QED BY <3>1, <3>2
  <2>9. (a \o b) \o last = a \o (b \o last)
    <3>1. last \in Seq(Characters)
      BY <2>5
    <3>2. \A x, y, z \in Seq(Characters) : (x \o y) \o z = x \o (y \o z)
      BY TextsAssociate
    <3> QED BY <3>1, <3>2
  <2>10. Shown(next) = Letters((a \o b) \o last)
    BY <1>4, <1>6, <2>3, <2>7, <2>8 DEF Shown
  <2>11. Letters(a \o word) = Letters(a) \o Letters(word)
    BY <1>5, LettersOfBoth
  <2>12. Shown(acc) = Letters(a)
    BY <1>4, <1>6, <2>8 DEF Shown
  <2> QED BY <1>1, <1>5, <2>2, <2>6, <2>8, <2>9, <2>10, <2>11, <2>12
<1> QED BY <1>12, <1>13

\* The lines into which WrapWords has broken a text, and the last one
Wrapping(words, size, width) ==
    FoldLeft(LAMBDA acc, word : PlaceWord(acc, word, size, width), NoLines, words)

Place(size, width) ==
    [at \in Wraps(size, width) \X Words |-> PlaceWord(at[1], at[2], size, width)]

WrapStep(words, size, width, g, s) ==
    IF s = {} THEN NoLines
    ELSE PlaceWord(g[s \ {Max(s)}], words[Max(s)], size, width)

TakesWords(words, size, width, n, g) ==
    g = [s \in SUBSET (1..n) |-> WrapStep(words, size, width, g, s)]

LEMMA PlaceIsTyped ==
  ASSUME NEW size \in Nat, NEW width \in Nat
  PROVE  /\ Place(size, width) \in [Wraps(size, width) \X Words -> Wraps(size, width)]
         /\ NoLines \in Wraps(size, width)
<1>1. NoLines \in Wraps(size, width)
  <2>1. NoLines \in Broken(Characters)
    BY DEF NoLines, Broken
  <2>2. Kept(WordLines(size, width), NoLines)
    BY DEF NoLines, Kept
  <2> QED BY <2>1, <2>2 DEF Wraps
<1> QED BY <1>1, PlaceKeeps DEF Place

\* Wrapping a text places one word after another.
LEMMA WrappingRuns ==
  ASSUME NEW words \in Seq(Words), NEW size \in Nat, NEW width \in Nat
  PROVE  Runs(NoLines, Place(size, width), words, Wrapping(words, size, width))
<1>1. PICK n \in Nat : n = Len(words) /\ DOMAIN words = 1..n
  OBVIOUS
<1>2. Place(size, width) \in [Wraps(size, width) \X Words -> Wraps(size, width)] /\ NoLines \in Wraps(size, width)
  BY PlaceIsTyped
<1>3. PICK g \in Folding(Wraps(size, width), NoLines, Place(size, width), words) : TRUE
  BY <1>2, FoldingExists
<1>4. ASSUME NEW s \in SUBSET (1..n)  PROVE g[s] = WrapStep(words, size, width, g, s)
  <2>1. g[s] = FoldStep(NoLines, Place(size, width), words, g, s)
    BY <1>1, <1>3 DEF Folding
  <2>2. CASE s = {}
    BY <2>1, <2>2 DEF FoldStep, WrapStep
  <2>3. CASE s # {}
    <3>1. g[s \ {Max(s)}] \in Wraps(size, width) /\ words[Max(s)] \in Words
      BY <1>1, <1>2, <1>3, <2>3, FoldingFacts
    <3>2. Place(size, width)[<<g[s \ {Max(s)}], words[Max(s)]>>] =
            PlaceWord(g[s \ {Max(s)}], words[Max(s)], size, width)
      BY <3>1 DEF Place
    <3> QED BY <2>1, <2>3, <3>2 DEF FoldStep, WrapStep
  <2> QED BY <2>2, <2>3
<1>5. g = [s \in SUBSET (1..n) |-> WrapStep(words, size, width, g, s)]
  <2>1. g = [s \in SUBSET (1..n) |-> g[s]]
    BY <1>1, <1>3 DEF Folding
  <2> QED BY <1>4, <2>1
<1>6. Wrapping(words, size, width) = (CHOOSE h : TakesWords(words, size, width, n, h))[1..n]
  <2>1. Wrapping(words, size, width) =
          (CHOOSE h : h = [s \in SUBSET DOMAIN words |-> WrapStep(words, size, width, h, s)])
            [DOMAIN words]
    BY DEF Wrapping, FoldLeft, MapThenFoldSet, WrapStep
  <2> QED BY <1>1, <2>1 DEF TakesWords
<1>7. PICK f : TakesWords(words, size, width, n, f) /\ Wrapping(words, size, width) = f[1..n]
  BY <1>5, <1>6 DEF TakesWords
<1>8. f[{}] = NoLines
  BY <1>7 DEF TakesWords, WrapStep
<1>9. ASSUME NEW k \in 0..n - 1, f[1..k] \in Wraps(size, width)
      PROVE  f[1..k + 1] = Place(size, width)[<<f[1..k], words[k + 1]>>]
  <2>1. k \in Nat /\ k + 1 \in 1..n /\ 1..k + 1 \in SUBSET (1..n)
    <3>1. k \in Nat /\ k + 1 \in 1..n
      BY <1>1
    <3>2. \A i \in 1..k + 1 : i \in 1..n
      BY <1>1, <3>1
    <3> QED BY <3>1, <3>2
  <2>2. 1..k + 1 # {}
    <3>1. k + 1 \in 1..k + 1
      BY <2>1
    <3> QED BY <3>1
  <2>3. Max(1..k + 1) = k + 1 /\ (1..k + 1) \ {k + 1} = 1..k
    BY <2>1, UpTo
  <2>4. f[1..k + 1] = WrapStep(words, size, width, f, 1..k + 1)
    BY <1>7, <2>1 DEF TakesWords
  <2>5. words[k + 1] \in Words
    BY <1>1, <2>1
  <2>6. Place(size, width)[<<f[1..k], words[k + 1]>>] =
            PlaceWord(f[1..k], words[k + 1], size, width)
    BY <1>9, <2>5 DEF Place
  <2> QED BY <2>2, <2>3, <2>4, <2>6 DEF WrapStep
<1>10. \A k \in 0..Len(words) - 1 :
         f[1..k] \in Wraps(size, width) => f[1..k + 1] = Place(size, width)[<<f[1..k], words[k + 1]>>]
  BY <1>1, <1>9
<1>11. words \in Seq(Words)
  OBVIOUS
<1>12. Runs(NoLines, Place(size, width), words, f[1..Len(words)])
  BY <1>2, <1>8, <1>10, <1>11, RunOfFunction
<1> QED BY <1>1, <1>7, <1>12

\* A text of words, with spaces between them
Joining ==
    [at \in Seq(Characters) \X Words |->
       IF at[1] = <<>> THEN at[2] ELSE Append(at[1], Space) \o at[2]]

JoinStep(words, g, s) ==
    IF s = {} THEN <<>>
    ELSE IF g[s \ {Max(s)}] = <<>> THEN words[Max(s)]
    ELSE Append(g[s \ {Max(s)}], Space) \o words[Max(s)]

JoinsWords(words, n, g) == g = [s \in SUBSET (1..n) |-> JoinStep(words, g, s)]

LEMMA JoiningIsTyped ==
  Joining \in [Seq(Characters) \X Words -> Seq(Characters)] /\ <<>> \in Seq(Characters)
<1>1. ASSUME NEW text \in Seq(Characters), NEW word \in Words
      PROVE  /\ word \in Seq(Characters)
             /\ Append(text, Space) \o word \in Seq(Characters)
  BY WordsAreTexts, BehindASpace
<1>2. <<>> \in Seq(Characters)
  OBVIOUS
<1> QED BY <1>1, <1>2 DEF Joining

\* Joining words puts one after another.
LEMMA JoinedRuns ==
  ASSUME NEW words \in Seq(Words)
  PROVE  Runs(<<>>, Joining, words, Joined(words))
<1>1. PICK n \in Nat : n = Len(words) /\ DOMAIN words = 1..n
  OBVIOUS
<1>2. Joining \in [Seq(Characters) \X Words -> Seq(Characters)] /\ <<>> \in Seq(Characters)
  BY JoiningIsTyped
<1>3. PICK g \in Folding(Seq(Characters), <<>>, Joining, words) : TRUE
  BY <1>2, FoldingExists
<1>4. ASSUME NEW s \in SUBSET (1..n)  PROVE g[s] = JoinStep(words, g, s)
  <2>1. g[s] = FoldStep(<<>>, Joining, words, g, s)
    BY <1>1, <1>3 DEF Folding
  <2>2. CASE s = {}
    BY <2>1, <2>2 DEF FoldStep, JoinStep
  <2>3. CASE s # {}
    <3>1. g[s \ {Max(s)}] \in Seq(Characters) /\ words[Max(s)] \in Words
      BY <1>1, <1>2, <1>3, <2>3, FoldingFacts
    <3>2. Joining[<<g[s \ {Max(s)}], words[Max(s)]>>] =
            IF g[s \ {Max(s)}] = <<>> THEN words[Max(s)]
            ELSE Append(g[s \ {Max(s)}], Space) \o words[Max(s)]
      BY <3>1 DEF Joining
    <3> QED BY <2>1, <2>3, <3>2 DEF FoldStep, JoinStep
  <2> QED BY <2>2, <2>3
<1>5. g = [s \in SUBSET (1..n) |-> JoinStep(words, g, s)]
  <2>1. g = [s \in SUBSET (1..n) |-> g[s]]
    BY <1>1, <1>3 DEF Folding
  <2> QED BY <1>4, <2>1
<1>6. Joined(words) = (CHOOSE h : JoinsWords(words, n, h))[1..n]
  <2>1. Joined(words) =
          (CHOOSE h : h = [s \in SUBSET DOMAIN words |-> JoinStep(words, h, s)])
            [DOMAIN words]
    BY DEF Joined, FoldLeft, MapThenFoldSet, JoinStep
  <2> QED BY <1>1, <2>1 DEF JoinsWords
<1>7. PICK f : JoinsWords(words, n, f) /\ Joined(words) = f[1..n]
  BY <1>5, <1>6 DEF JoinsWords
<1>8. f[{}] = <<>>
  BY <1>7 DEF JoinsWords, JoinStep
<1>9. ASSUME NEW k \in 0..n - 1, f[1..k] \in Seq(Characters)
      PROVE  f[1..k + 1] = Joining[<<f[1..k], words[k + 1]>>]
  <2>1. k \in Nat /\ k + 1 \in 1..n /\ 1..k + 1 \in SUBSET (1..n)
    <3>1. k \in Nat /\ k + 1 \in 1..n
      BY <1>1
    <3>2. \A i \in 1..k + 1 : i \in 1..n
      BY <1>1, <3>1
    <3> QED BY <3>1, <3>2
  <2>2. 1..k + 1 # {}
    <3>1. k + 1 \in 1..k + 1
      BY <2>1
    <3> QED BY <3>1
  <2>3. Max(1..k + 1) = k + 1 /\ (1..k + 1) \ {k + 1} = 1..k
    BY <2>1, UpTo
  <2>4. f[1..k + 1] = JoinStep(words, f, 1..k + 1)
    BY <1>7, <2>1 DEF JoinsWords
  <2>5. words[k + 1] \in Words
    BY <1>1, <2>1
  <2>6. Joining[<<f[1..k], words[k + 1]>>] =
            IF f[1..k] = <<>> THEN words[k + 1]
            ELSE Append(f[1..k], Space) \o words[k + 1]
    BY <1>9, <2>5 DEF Joining
  <2> QED BY <2>2, <2>3, <2>4, <2>6 DEF JoinStep
<1>10. \A k \in 0..Len(words) - 1 :
         f[1..k] \in Seq(Characters) => f[1..k + 1] = Joining[<<f[1..k], words[k + 1]>>]
  BY <1>1, <1>9
<1>11. words \in Seq(Words)
  OBVIOUS
<1>12. Runs(<<>>, Joining, words, f[1..Len(words)])
  BY <1>2, <1>8, <1>10, <1>11, RunOfFunction
<1> QED BY <1>1, <1>7, <1>12

LEMMA JoinedIsText ==
  ASSUME NEW words \in Seq(Words)  PROVE Joined(words) \in Seq(Characters)
BY JoinedRuns, JoiningIsTyped, RunValue

LEMMA WrappingStart ==
  ASSUME NEW size \in Nat, NEW width \in Nat
  PROVE  Wrapping(<<>>, size, width) = NoLines
<1>1. <<>> \in Seq(Words)
  OBVIOUS
<1>2. Runs(NoLines, Place(size, width), <<>>, Wrapping(<<>>, size, width))
  BY <1>1, WrappingRuns
<1> QED BY <1>2, RunOfNothing

LEMMA WrappingGrows ==
  ASSUME NEW words \in Seq(Words), NEW word \in Words, NEW size \in Nat, NEW width \in Nat
  PROVE  /\ Wrapping(words, size, width) \in Wraps(size, width)
         /\ Wrapping(Append(words, word), size, width)
              = PlaceWord(Wrapping(words, size, width), word, size, width)
<1> DEFINE A == Wraps(size, width)
           F == Place(size, width)
           base == NoLines
           v == Wrapping(words, size, width)
           w == Wrapping(Append(words, word), size, width)
<1>1. Typed(A, Words, base, F)
  BY PlaceIsTyped DEF Typed
<1>2. Longer(base, F, words, word, v, w)
  <2>1. Append(words, word) \in Seq(Words)
    OBVIOUS
  <2>2. Runs(base, F, words, v)
    BY WrappingRuns
  <2>3. Runs(base, F, Append(words, word), w)
    BY <2>1, WrappingRuns
  <2> QED BY <2>2, <2>3 DEF Longer
<1>3. v \in A /\ w = F[<<v, word>>]
  <2> HIDE DEF A, F, base, v, w
  <2> QED BY <1>1, <1>2, RunGrows
<1> QED BY <1>3 DEF Place

\* What is shown of the lines is what the words say.
LEMMA WrappingKeeps ==
  ASSUME NEW size \in Nat, NEW width \in Nat
  PROVE  \A words \in Seq(Words) :
           /\ Wrapping(words, size, width) \in Wraps(size, width)
           /\ Shown(Wrapping(words, size, width)) = FlattenSeq(words)
<1> DEFINE T == {words \in Seq(Words) :
                   /\ Wrapping(words, size, width) \in Wraps(size, width)
                   /\ Shown(Wrapping(words, size, width)) = FlattenSeq(words)}
<1>0. Words \subseteq Seq(Characters)
  BY WordsAreTexts
<1>1. <<>> \in T
  <2>1. NoLines \in Wraps(size, width)
    BY PlaceIsTyped
  <2>2. Shown(NoLines) = <<>>
    <3>1. FlattenSeq(NoLines.lines) \o NoLines.current = <<>>
      BY FlatStart DEF NoLines
    <3> QED BY <3>1, LettersStart DEF Shown
  <2>3. <<>> \in Seq(Words)
    OBVIOUS
  <2> QED BY <2>1, <2>2, <2>3, WrappingStart, FlatStart
<1>2. ASSUME NEW words \in Seq(Words), NEW word \in Words, words \in T
      PROVE  Append(words, word) \in T
  <2>1. PICK acc \in Wraps(size, width) : acc = Wrapping(words, size, width)
    BY <1>2
  <2>2. PICK next : next = PlaceWord(acc, word, size, width)
    OBVIOUS
  <2>3. Wrapping(Append(words, word), size, width) = next
    BY <2>1, <2>2, WrappingGrows
  <2>4. next \in Wraps(size, width) /\ Shown(next) = Shown(acc) \o word
    BY <2>2, PlaceKeeps
  <2>5. FlattenSeq(Append(words, word)) = FlattenSeq(words) \o word
    <3>1. words \in Seq(Seq(Characters)) /\ word \in Seq(Characters)
      BY <1>0, SeqMonotonic
    <3> QED BY <3>1, FlatGrows
  <2>6. Shown(acc) = FlattenSeq(words)
    BY <1>2, <2>1
  <2>7. Append(words, word) \in Seq(Words)
    OBVIOUS
  <2> QED BY <2>3, <2>4, <2>5, <2>6, <2>7
<1>3. Seq(Words) \subseteq T
  <2> HIDE DEF T
  <2> QED BY <1>1, <1>2, AllSequences
<1> QED BY <1>3

LEMMA WrapKeeps ==
  ASSUME NEW words \in Seq(Words), NEW size \in Nat, NEW width \in Nat
  PROVE  /\ WrapWords(words, size, width) \in Seq(WordLines(size, width))
         /\ Letters(FlattenSeq(WrapWords(words, size, width))) = FlattenSeq(words)
<1>1. PICK acc : acc = Wrapping(words, size, width)
  OBVIOUS
<1>2. Kept(WordLines(size, width), acc) /\ Shown(acc) = FlattenSeq(words)
  BY <1>1, WrappingKeeps DEF Wraps
<1>3. WrapWords(words, size, width) = Closed(acc)
  BY <1>1 DEF WrapWords, Wrapping
<1>4. WordLines(size, width) \subseteq Seq(Characters)
  BY DEF WordLines, Lines
<1>5. /\ Closed(acc) \in Seq(WordLines(size, width))
      /\ FlattenSeq(Closed(acc)) = FlattenSeq(acc.lines) \o acc.current
  BY <1>2, <1>4, ClosingKeeps
<1> QED BY <1>2, <1>3, <1>5 DEF Shown

(***************************************************************************)
(* Which caption is made of the lines.                                     *)
(***************************************************************************)
\* A set of places has a smallest one.
LEMMA MinIsIn ==
  ASSUME NEW n \in Nat, NEW s \in SUBSET (1..n), s # {}
  PROVE  Min(s) \in s
<1> DEFINE HasMin(t) == \E i \in t : \A k \in t : i <= k
           T == {m \in Nat : \A t \in SUBSET (1..m) : t # {} => HasMin(t)}
<1>1. 0 \in T
  <2>1. \A t \in SUBSET (1..0) : t = {}
    OBVIOUS
  <2> QED BY <2>1
<1>2. ASSUME NEW m \in Nat, m \in T  PROVE m + 1 \in T
  <2> SUFFICES ASSUME NEW t \in SUBSET (1..m + 1), t # {}  PROVE HasMin(t)
    OBVIOUS
  <2>1. t \ {m + 1} \in SUBSET (1..m)
    OBVIOUS
  <2>2. CASE t \ {m + 1} = {}
    <3>1. t = {m + 1}
      BY <2>2
    <3> QED BY <3>1
  <2>3. CASE t \ {m + 1} # {}
    <3>1. PICK i \in t \ {m + 1} : \A k \in t \ {m + 1} : i <= k
      BY <1>2, <2>1, <2>3
    <3>2. \A k \in t : i <= k
      BY <3>1
    <3> QED BY <3>2
  <2> QED BY <2>2, <2>3
<1>3. n \in T
  <2> HIDE DEF T
  <2> QED BY <1>1, <1>2, AllNumbers
<1>4. HasMin(s)
  BY <1>3
<1> QED BY <1>4 DEF Min

\* Every letter of a text is among its letters.
LEMMA EveryLetter ==
  ASSUME NEW S
  PROVE  \A text \in Seq(S) : \A c \in Range(text) :
           c # Space => c \in Range(Letters(text))
<1> DEFINE All(text) == \A c \in Range(text) : c # Space => c \in Range(Letters(text))
           T == {text \in Seq(S) : All(text)}
<1>1. <<>> \in T
  <2>1. Range(<<>>) = {}
    BY DEF Range
  <2> QED BY <2>1
<1>2. ASSUME NEW text \in Seq(S), NEW x \in S, text \in T  PROVE Append(text, x) \in T
  <2>1. Append(text, x) \in Seq(S)
    OBVIOUS
  <2>2. \A s \in Seq(S) : Range(Append(s, x)) = Range(s) \cup {x}
    <3>1. ASSUME NEW s \in Seq(S)  PROVE Range(Append(s, x)) = Range(s) \cup {x}
      <4>1. Append(s, x) = s \o <<x>> /\ <<x>> \in Seq(S)
        BY AppendIsConcat
      <4>2. Range(s \o <<x>>) = Range(s) \cup Range(<<x>>)
        BY <4>1, RangeConcatenation
      <4>3. Range(<<x>>) = {x}
        BY DEF Range
      <4> QED BY <4>1, <4>2, <4>3
    <3> QED BY <3>1
  <2>3. Letters(text) \in Seq(S)
    BY LettersTyped
  <2>4. All(text)
    BY <1>2
  <2>5. CASE x = Space
    <3>1. Letters(Append(text, x)) = Letters(text)
      BY <2>5, LettersGrow
    <3> QED BY <2>1, <2>2, <2>4, <2>5, <3>1
  <2>6. CASE x # Space
    <3>1. Letters(Append(text, x)) = Append(Letters(text), x)
      BY <2>6, LettersGrow
    <3>2. Range(Letters(Append(text, x))) = Range(Letters(text)) \cup {x}
      BY <2>2, <2>3, <3>1
    <3> QED BY <2>1, <2>2, <2>4, <3>2
  <2> QED BY <2>5, <2>6
<1>3. Seq(S) \subseteq T
  <2> HIDE DEF T
  <2> QED BY <1>1, <1>2, AllSequences
<1> QED BY <1>3

\* What follows a beginning makes it a strict one.
LEMMA StrictBeginning ==
  ASSUME NEW S, NEW s \in Seq(S), NEW t \in Seq(S), t # <<>>
  PROVE  IsStrictPrefix(s, s \o t)
<1>0. PICK m \in Nat : m = Len(t)
  BY LenProperties
<1>1. PICK n \in Nat : n = Len(s)
  BY LenProperties
<1>2. Len(s \o t) = n + m
  BY <1>0, <1>1
<1>3. s # s \o t
  BY ConcatEqualIffEmpty
<1>4. SubSeq(s, 1, n) = SubSeq(s \o t, 1, n)
  <2>1. CASE n = 0
    <3>1. SubSeq(s, 1, 0) = <<>> /\ SubSeq(s \o t, 1, 0) = <<>>
      BY SubSeqEmpty
    <3> QED BY <2>1, <3>1
  <2>2. CASE n # 0
    <3>1. 1 \in 1..Len(s) /\ n \in 1..Len(s)
      BY <1>1, <2>2
    <3> QED BY <3>1, SubSeqOfConcat1
  <2> QED BY <2>1, <2>2
<1>5. n <= n + m
  OBVIOUS
<1> QED BY <1>1, <1>2, <1>3, <1>4, <1>5 DEF IsStrictPrefix, IsPrefix

LEMMA OneAndTwo ==
  ASSUME NEW x, NEW y
  PROVE  Append(<<>>, x) = <<x>> /\ Append(<<x>>, y) = <<x, y>>
<1>1. Append(<<>>, x) = <<x>>
  OBVIOUS
<1> DEFINE S == {x, y}
<1>2. PICK one \in Seq(S) : one = <<x>> /\ Len(one) = 1 /\ one[1] = x
  <2>1. <<x>> \in Seq(S)
    OBVIOUS
  <2>2. Len(<<x>>) = 1 /\ <<x>>[1] = x
    OBVIOUS
  <2> QED BY <2>1, <2>2
<1>3. PICK two \in Seq(S) : two = <<x, y>> /\ Len(two) = 2 /\ two[1] = x /\ two[2] = y
  <2>1. <<x, y>> \in Seq(S)
    OBVIOUS
  <2>2. Len(<<x, y>>) = 2 /\ <<x, y>>[1] = x /\ <<x, y>>[2] = y
    OBVIOUS
  <2> QED BY <2>1, <2>2
<1>4. /\ Len(Append(one, y)) = 2 /\ Append(one, y)[1] = one[1] /\ Append(one, y)[2] = y
      /\ Append(one, y) \in Seq(S)
  <2>1. y \in S
    OBVIOUS
  <2> HIDE DEF S
  <2> QED BY <1>2, <2>1, AppendToOne, AppendProperties
<1>5. \A i \in 1..2 : Append(one, y)[i] = two[i]
  BY <1>2, <1>3, <1>4
<1>6. Append(one, y) = two
  <2> HIDE DEF S
  <2> QED BY <1>3, <1>4, <1>5, SeqEqual
<1> QED BY <1>1, <1>2, <1>3, <1>6

\* Two lines, and more than two
LEMMA FlatOfTwo ==
  ASSUME NEW S, NEW s \in Seq(S), NEW t \in Seq(S)
  PROVE  FlattenSeq(<<s, t>>) = s \o t
<1> DEFINE Z == Seq(S)
<1>1. <<>> \in Seq(Z) /\ <<s>> \in Seq(Z)
  OBVIOUS
<1>2. Append(<<>>, s) = <<s>> /\ Append(<<s>>, t) = <<s, t>>
  BY OneAndTwo
<1>3. FlattenSeq(Append(<<>>, s)) = FlattenSeq(<<>>) \o s
  BY <1>1, FlatGrows
<1>4. FlattenSeq(Append(<<s>>, t)) = FlattenSeq(<<s>>) \o t
  BY <1>1, FlatGrows
<1>5. <<>> \o s = s
  OBVIOUS
<1> QED BY <1>2, <1>3, <1>4, <1>5, FlatStart

LongText(G, S, lines) == G \subseteq Seq(S) /\ lines \in Seq(G) /\ Len(lines) > 2

TakenApart(G, S, lines, first, second, middle, last) ==
    /\ first \in G /\ second \in G /\ middle \in Seq(S) /\ last \in G
    /\ lines[1] = first /\ lines[2] = second
    /\ FlattenSeq(lines) = (first \o second) \o (middle \o last)

LEMMA FlatOfMore ==
  ASSUME NEW S, NEW G, NEW lines, LongText(G, S, lines)
  PROVE  \E first, second, middle, last :
           TakenApart(G, S, lines, first, second, middle, last)
<1>0. G \subseteq Seq(S) /\ lines \in Seq(G)
  BY DEF LongText
<1>1. PICK n \in Nat : n = Len(lines) /\ n > 2
  BY DEF LongText
<1>2. PICK first \in G, second \in G : first = lines[1] /\ second = lines[2]
  BY <1>0, <1>1
<1>3. PICK two \in Seq(G), rest \in Seq(G) :
        /\ two = SubSeq(lines, 1, 2) /\ rest = SubSeq(lines, 3, n)
        /\ Len(rest) = n - 2
  <2>1. \A i \in 1..2 : lines[i] \in G
    BY <1>0, <1>1
  <2>2. \A i \in 3..n : lines[i] \in G
    BY <1>0, <1>1
  <2>3. SubSeq(lines, 1, 2) \in Seq(G)
    BY <2>1, SubSeqProperties
  <2>4. SubSeq(lines, 3, n) \in Seq(G) /\ Len(SubSeq(lines, 3, n)) = n - 3 + 1
    BY <1>1, <2>2, SubSeqProperties
  <2>5. n - 3 + 1 = n - 2
    OBVIOUS
  <2> QED BY <2>3, <2>4, <2>5
<1>4. lines = two \o rest
  <2>1. 1 \in 1..Len(lines) + 1 /\ 2 \in 1 - 1..Len(lines) /\ n \in 2..Len(lines)
    BY <1>1
  <2>2. SubSeq(lines, 1, 2) \o SubSeq(lines, 2 + 1, n) = SubSeq(lines, 1, n)
    BY <1>0, <2>1, ConcatAdjacentSubSeq
  <2>3. SubSeq(lines, 1, n) = lines
    BY <1>0, <1>1, SubSeqFull
  <2> QED BY <1>3, <2>2, <2>3
<1>5. two = <<first, second>>
  <2>1. 1 \in 1..Len(lines) /\ 2 \in 1..Len(lines) /\ 2 \in 1..Len(lines)
    BY <1>1
  <2>2. SubSeq(lines, 1, 2) = <<lines[1], lines[2]>>
    <3>1. SubSeq(lines, 1, 2) = SubSeq(lines, 1, 2 - 1) \o <<lines[2]>>
      <4>1. 2 \in 1..Len(lines)
        BY <1>1
      <4> QED BY <1>0, <2>1, <4>1, SubSeqRecursiveSecond
    <3>2. SubSeq(lines, 1, 1) = SubSeq(lines, 1, 1 - 1) \o <<lines[1]>>
      <4>1. 1 \in 1..Len(lines)
        BY <1>1
      <4> QED BY <1>0, <2>1, <4>1, SubSeqRecursiveSecond
    <3>3. SubSeq(lines, 1, 0) = <<>>
      BY SubSeqEmpty
    <3>4. <<>> \o <<lines[1]>> = <<lines[1]>>
      OBVIOUS
    <3>5. <<lines[1]>> \o <<lines[2]>> = <<lines[1], lines[2]>>
      <4>1. <<first>> \in Seq(G) /\ Append(<<first>>, second) = <<first, second>>
        BY OneAndTwo
      <4>2. Append(<<first>>, second) = <<first>> \o <<second>>
        BY <4>1, AppendIsConcat
      <4> QED BY <1>2, <4>1, <4>2
    <3>6. 2 - 1 = 1 /\ 1 - 1 = 0
      OBVIOUS
    <3> QED BY <3>1, <3>2, <3>3, <3>4, <3>5, <3>6
  <2> QED BY <1>2, <1>3, <2>2
<1>6. rest # <<>>
  <2>1. n - 2 # 0
    <3>1. n > 2
      BY <1>1
    <3> QED BY <3>1
  <2>2. Len(<<>>) = 0
    OBVIOUS
  <2> QED BY <1>3, <2>1, <2>2
<1>7. PICK more \in Seq(G), last \in G : rest = Append(more, last)
  BY <1>6, SequenceEmptyOrAppend
<1>8. /\ two \in Seq(Seq(S)) /\ rest \in Seq(Seq(S)) /\ more \in Seq(Seq(S))
      /\ first \in Seq(S) /\ second \in Seq(S) /\ last \in Seq(S)
  BY <1>0, SeqMonotonic
<1>9. FlattenSeq(two \o rest) = FlattenSeq(two) \o FlattenSeq(rest)
  BY <1>8, FlatOfBoth
<1>10. FlattenSeq(two) = first \o second
  BY <1>5, <1>8, FlatOfTwo
<1>11. FlattenSeq(rest) = FlattenSeq(more) \o last
  BY <1>7, <1>8, FlatGrows
<1>12. PICK middle \in Seq(S) : middle = FlattenSeq(more)
  BY <1>8, FlatTyped
<1>13. TakenApart(G, S, lines, first, second, middle, last)
  BY <1>2, <1>4, <1>9, <1>10, <1>11, <1>12 DEF TakenApart
<1> QED BY <1>13

\* A line that does not begin with a space can be read.
LEMMA CanBeRead ==
  ASSUME NEW S
  PROVE  \A text \in Seq(S) : text # <<>> /\ text[1] # Space => Letters(text) # <<>>
<1>1. ASSUME NEW text \in Seq(S), text # <<>>, text[1] # Space
      PROVE  Letters(text) # <<>>
  <2>1. Len(text) \in Nat \ {0}
    BY <1>1, EmptySeq
  <2>2. 1 \in DOMAIN text
    BY <2>1
  <2>3. text[1] \in Range(text)
    BY <2>2 DEF Range
  <2>4. text[1] \in Range(Letters(text))
    BY <1>1, <2>3, EveryLetter
  <2>5. Range(<<>>) = {}
    BY DEF Range
  <2> QED BY <2>4, <2>5
<1> QED BY <1>1

\* Shortening a line leaves a beginning of it and an ellipsis that fit, or
\* nothing if not even one character fits.
LEMMA ShortenIs ==
  ASSUME NEW line \in Seq(Characters), line # <<>>, NEW size \in Nat, NEW width \in Nat
  PROVE  \/ \E m \in 1..Len(line) :
              LET cut == Append(SubSeq(line, 1, m), Ellipsis)
              IN  Shorten(line, size, width) = cut /\ LineWidth(cut, size) + Stroke <= width
         \/ /\ Shorten(line, size, width) = <<>>
            /\ ~(LineWidth(<<line[1], Ellipsis>>, size) + Stroke <= width)
<1>1. PICK n \in Nat \ {0} : n = Len(line)
  BY EmptySeq
<1> DEFINE cut(m) == Append(SubSeq(line, 1, m), Ellipsis)
           fitting == {m \in 1..n : LineWidth(cut(m), size) + Stroke <= width}
           atWords == fitting \cap PrefixesAtWords(line)
<1>2. Shorten(line, size, width) = IF atWords # {} THEN cut(Max(atWords))
                                   ELSE IF fitting # {} THEN cut(Max(fitting))
                                   ELSE <<>>
  BY <1>1 DEF Shorten
<1>3. fitting \in SUBSET (1..n) /\ atWords \in SUBSET (1..n) /\ atWords \subseteq fitting
  OBVIOUS
<1>4. CASE atWords # {}
  <2>1. Max(atWords) \in atWords
    <3> HIDE DEF atWords
    <3> QED BY <1>3, <1>4, MaxIsIn
  <2>2. PICK m \in fitting : m = Max(atWords)
    BY <1>3, <2>1
  <2>3. Shorten(line, size, width) = cut(m)
    BY <1>2, <1>4, <2>2
  <2>4. m \in 1..Len(line) /\ LineWidth(cut(m), size) + Stroke <= width
    BY <1>1, <2>2
  <2> QED BY <2>3, <2>4
<1>5. CASE atWords = {} /\ fitting # {}
  <2>1. Max(fitting) \in fitting
    <3> HIDE DEF fitting
    <3> QED BY <1>3, <1>5, MaxIsIn
  <2>2. PICK m \in fitting : m = Max(fitting)
    BY <2>1
  <2>3. Shorten(line, size, width) = cut(m)
    BY <1>2, <1>5, <2>2
  <2>4. m \in 1..Len(line) /\ LineWidth(cut(m), size) + Stroke <= width
    BY <1>1, <2>2
  <2> QED BY <2>3, <2>4
<1>6. CASE atWords = {} /\ fitting = {}
  <2>1. Shorten(line, size, width) = <<>>
    BY <1>2, <1>6
  <2>2. cut(1) = <<line[1], Ellipsis>>
    <3>1. 1 \in 1..Len(line) /\ 1 - 1 = 0
      BY <1>1
    <3>2. SubSeq(line, 1, 1) = SubSeq(line, 1, 1 - 1) \o <<line[1]>>
      BY <3>1, SubSeqRecursiveSecond
    <3>3. SubSeq(line, 1, 0) = <<>>
      BY SubSeqEmpty
    <3>4. <<>> \o <<line[1]>> = <<line[1]>>
      OBVIOUS
    <3>5. SubSeq(line, 1, 1) = <<line[1]>>
      BY <3>1, <3>2, <3>3, <3>4
    <3>6. Append(<<line[1]>>, Ellipsis) = <<line[1], Ellipsis>>
      BY OneAndTwo
    <3> QED BY <3>5, <3>6
  <2>3. 1 \in 1..n /\ 1 \notin fitting
    BY <1>6
  <2>4. ~(LineWidth(cut(1), size) + Stroke <= width)
    BY <2>3
  <2> QED BY <2>1, <2>2, <2>4
<1> QED BY <1>4, <1>5, <1>6

\* The second of more than two lines is cut.
Cuts(lines, m, size, width, cut) ==
    /\ lines \in Seq(WordLines(size, width)) /\ Len(lines) > 2
    /\ m \in 1..Len(lines[2]) /\ cut = Append(SubSeq(lines[2], 1, m), Ellipsis)
    /\ LineWidth(cut, size) + Stroke <= width

\* A caption that is shortened keeps a beginning of its text.
LEMMA ShortenedIsKept ==
  ASSUME NEW width \in Nat, NEW size \in Nat, NEW lines, NEW m, NEW cut,
         Cuts(lines, m, size, width, cut)
  PROVE  CaptionIsKept(Letters(FlattenSeq(lines)), width,
                       [size |-> size, lines |-> <<lines[1], cut>>])
<1> DEFINE G == WordLines(size, width)
<1>0. lines \in Seq(G) /\ Len(lines) > 2
  BY DEF Cuts
<1>1. G \subseteq Seq(Characters)
  BY DEF WordLines, Lines
<1>25. \A line \in G : /\ line # <<>> /\ line[1] # Space
                       /\ LineWidth(line, size) <= width \/ Len(line) = 1
  BY DEF WordLines, Lines, Within
<1> HIDE DEF G
<1>2. PICK l1 \in G, l2 \in G, tail \in Seq(Characters), last \in G :
        /\ lines[1] = l1 /\ lines[2] = l2
        /\ FlattenSeq(lines) = (l1 \o l2) \o (tail \o last)
  <2>1. LongText(G, Characters, lines)
    BY <1>0, <1>1 DEF LongText
  <2>2. PICK first, second, middle, end :
          TakenApart(G, Characters, lines, first, second, middle, end)
    BY <2>1, FlatOfMore
  <2> QED BY <2>2 DEF TakenApart
<1>3. l1 \in Seq(Characters) /\ l2 \in Seq(Characters) /\ last \in Seq(Characters)
  BY <1>1
<1>26. /\ m \in 1..Len(l2) /\ cut = Append(SubSeq(l2, 1, m), Ellipsis)
       /\ LineWidth(cut, size) + Stroke <= width
  BY <1>2 DEF Cuts
<1>4. PICK n \in Nat : n = Len(l2) /\ m \in 1..n
  BY <1>3, <1>26
<1>5. PICK p \in Seq(Characters), q \in Seq(Characters) :
        /\ p = SubSeq(l2, 1, m) /\ q = SubSeq(l2, m + 1, n) /\ l2 = p \o q
  <2>1. \A i \in 1..n : l2[i] \in Characters
    BY <1>3, <1>4
  <2>2. \A i \in 1..m : l2[i] \in Characters
    BY <1>4, <2>1
  <2>3. \A i \in m + 1..n : l2[i] \in Characters
    BY <1>4, <2>1
  <2>4. SubSeq(l2, 1, m) \in Seq(Characters)
    BY <1>4, <2>2, SubSeqProperties
  <2>5. SubSeq(l2, m + 1, n) \in Seq(Characters)
    BY <1>4, <2>3, SubSeqProperties
  <2>6. 1 \in 1..Len(l2) + 1 /\ m \in 1 - 1..Len(l2) /\ n \in m..Len(l2)
    BY <1>4
  <2>7. SubSeq(l2, 1, m) \o SubSeq(l2, m + 1, n) = SubSeq(l2, 1, n)
    BY <1>3, <2>6, ConcatAdjacentSubSeq
  <2>8. SubSeq(l2, 1, n) = l2
    BY <1>3, <1>4, SubSeqFull
  <2> QED BY <2>4, <2>5, <2>7, <2>8
<1>6. Ellipsis \in Characters /\ Ellipsis # Space
  BY TextAssumption DEF Characters
<1>7. cut = Append(p, Ellipsis) /\ cut \in Seq(Characters)
  <2>1. Append(p, Ellipsis) \in Seq(Characters)
    BY <1>6, AppendProperties
  <2> QED BY <1>5, <1>26, <2>1
<1>9. PICK x \in Seq(Characters) : x = l1 \o p
  BY <1>3, ConcatProperties
<1>10. PICK y \in Seq(Characters) : y = (q \o tail) \o last
  <2>1. q \o tail \in Seq(Characters)
    BY ConcatProperties
  <2> QED BY <1>3, <2>1, ConcatProperties
<1>11. FlattenSeq(lines) = x \o y
  <2>1. \A a, b, c \in Seq(Characters) : (a \o b) \o c = a \o (b \o c)
    BY TextsAssociate
  <2>2. l1 \o (p \o q) = x \o q
    <3>1. l1 \in Seq(Characters)
      BY <1>3
    <3>2. (l1 \o p) \o q = l1 \o (p \o q)
      BY <3>1, TextsAssociate
    <3> QED BY <1>9, <3>2
  <2>3. tail \o last \in Seq(Characters)
    BY <1>3, ConcatProperties
  <2>4. (x \o q) \o (tail \o last) = x \o (q \o (tail \o last))
    BY <2>1, <2>3
  <2>5. q \o (tail \o last) = y
    <3>1. (q \o tail) \o last = q \o (tail \o last)
      BY <1>3, <2>1
    <3> QED BY <1>10, <3>1
  <2> QED BY <1>2, <1>5, <2>2, <2>4, <2>5
<1>12. PICK front \in Seq(Characters) : front = Letters(x)
  BY LettersTyped
<1>13. PICK rest \in Seq(Characters) : rest = Letters(y)
  BY LettersTyped
<1>14. Letters(FlattenSeq(lines)) = front \o rest
  BY <1>11, <1>12, <1>13, LettersOfBoth
<1>15. rest # <<>>
  <2>1. Letters(last) # <<>>
    <3>1. last # <<>> /\ last[1] # Space
      BY <1>25
    <3> QED BY <1>3, <3>1, CanBeRead
  <2>2. q \o tail \in Seq(Characters)
    BY ConcatProperties
  <2>3. rest = Letters(q \o tail) \o Letters(last)
    BY <1>3, <1>10, <1>13, <2>2, LettersOfBoth
  <2>4. PICK a \in Seq(Characters), b \in Seq(Characters) : a = Letters(q \o tail) /\ b = Letters(last)
    BY <1>3, <2>2, LettersTyped
  <2> QED BY <2>1, <2>3, <2>4, ConcatEqualIffEmpty
<1>16. Letters(FlattenSeq(<<l1, cut>>)) = Append(front, Ellipsis)
  <2>1. FlattenSeq(<<l1, cut>>) = l1 \o cut
    BY <1>3, <1>7, FlatOfTwo
  <2>2. l1 \o Append(p, Ellipsis) = Append(x, Ellipsis)
    <3>1. l1 \o Append(p, Ellipsis) = Append(l1 \o p, Ellipsis)
      BY <1>3, <1>6, AppendLast
    <3> QED BY <1>9, <3>1
  <2>3. Letters(Append(x, Ellipsis)) = Append(Letters(x), Ellipsis)
    BY <1>6, LettersGrow
  <2> QED BY <1>7, <1>12, <2>1, <2>2, <2>3
<1>17. /\ Front(Append(front, Ellipsis)) = front
       /\ Last(Append(front, Ellipsis)) = Ellipsis
  BY <1>6, FrontAndLast
<1>18. IsStrictPrefix(front, front \o rest)
  BY <1>15, StrictBeginning
<1>19. PICK caption : caption = [size |-> size, lines |-> <<l1, cut>>]
  OBVIOUS
<1>20. Len(caption.lines) = 2 /\ DOMAIN caption.lines = 1..2
       /\ caption.lines[1] = l1 /\ caption.lines[2] = cut
       /\ caption.size = size /\ caption.lines = <<l1, cut>>
  BY <1>19
<1>21. LineWidth(l1, size) <= width \/ Len(l1) = 1
  BY <1>25
<1>22. LineWidth(cut, size) <= width
  <2>1. LineWidth(cut, size) \in Nat
    BY <1>7, WidthIsNatural, CharactersCanBeMeasured
  <2>2. Stroke \in Nat
    BY FontAssumption
  <2> QED BY <1>26, <2>1, <2>2
<1>23. \A i \in DOMAIN caption.lines :
         LineWidth(caption.lines[i], caption.size) <= width \/ Len(caption.lines[i]) = 1
  <2>1. ASSUME NEW i \in DOMAIN caption.lines
        PROVE  LineWidth(caption.lines[i], caption.size) <= width
                 \/ Len(caption.lines[i]) = 1
    <3>1. i = 1 \/ i = 2
      BY <1>20
    <3>2. CASE i = 1
      BY <1>20, <1>21, <3>2
    <3>3. CASE i = 2
      BY <1>20, <1>22, <3>3
    <3> QED BY <3>1, <3>2, <3>3
  <2> QED BY <2>1
<1>24. CaptionIsKept(front \o rest, width, caption)
  <2>1. Len(caption.lines) \in 1..2
    BY <1>20
  <2>2. Letters(FlattenSeq(caption.lines)) = Append(front, Ellipsis)
    BY <1>16, <1>20
  <2> QED BY <1>17, <1>18, <1>23, <2>1, <2>2 DEF CaptionIsKept
<1> QED BY <1>2, <1>14, <1>19, <1>24

\* Two lines of the smallest font have room.
LEMMA TwoLinesHaveRoom ==
  ASSUME NEW size, size = Last(FontSizes), NEW lines, Len(lines) \in 1..2
  PROVE  size \in Nat \ {0} /\ FitsBox(lines, size, Height)
<1>1. FontSizes \in Seq(Nat \ {0}) /\ FontSizes # <<>> /\ Stroke \in Nat /\ MinSpacing \in Nat
  BY FontAssumption
<1>2. size \in Nat \ {0}
  <2>1. Len(FontSizes) \in Nat \ {0}
    BY <1>1, EmptySeq
  <2>2. Len(FontSizes) \in 1..Len(FontSizes)
    BY <2>1
  <2> QED BY <1>1, <2>2, ElementOfSeq DEF Last
<1>3. Spacing(size) \in Nat
  <2>1. size \div 5 \in Nat
    BY <1>2
  <2>2. Max({MinSpacing, size \div 5}) \in Nat
    BY <1>1, <2>1, MaxOfTwo
  <2> QED BY <2>2 DEF Spacing
<1>4. 2 * size + Spacing(size) + Stroke <= Height /\ Height \in Nat
  BY TextAssumption, InputAssumption
<1>5. lines # <<>>
  <2>1. Len(<<>>) = 0
    OBVIOUS
  <2> QED BY <2>1
<1>6. PICK n, spacing : n = Len(lines) /\ spacing = Spacing(size)
  OBVIOUS
<1>7. BlockHeight(lines, size) = n * size + (n - 1) * spacing + Stroke
  BY <1>5, <1>6 DEF BlockHeight
<1>8. n * size + (n - 1) * spacing + Stroke <= Height
  <2>1. n \in {1, 2}
    BY <1>6
  <2>2. spacing \in Nat
    BY <1>3, <1>6
  <2>3. 2 * size + spacing + Stroke <= Height
    BY <1>4, <1>6
  <2>4. CASE n = 1
    BY <1>1, <1>2, <1>4, <2>2, <2>3, <2>4
  <2>5. CASE n = 2
    BY <1>1, <1>2, <1>4, <2>2, <2>3, <2>5
  <2> QED BY <2>1, <2>4, <2>5
<1> QED BY <1>2, <1>7, <1>8 DEF FitsBox

\* A caption that fits shows its whole text.
LEMMA WholeIsKept ==
  ASSUME NEW width \in Nat, NEW size \in Nat, NEW lines \in Seq(WordLines(size, width)),
         FitsBox(lines, size, Height)
  PROVE  CaptionIsKept(Letters(FlattenSeq(lines)), width, [size |-> size, lines |-> lines])
<1>1. Len(lines) \in 1..2
  BY DEF FitsBox
<1>2. \A i \in DOMAIN lines : LineWidth(lines[i], size) <= width \/ Len(lines[i]) = 1
  <2>1. ASSUME NEW i \in DOMAIN lines
        PROVE  LineWidth(lines[i], size) <= width \/ Len(lines[i]) = 1
    <3>1. lines[i] \in WordLines(size, width)
      OBVIOUS
    <3> QED BY <3>1 DEF WordLines, Lines, Within
  <2> QED BY <2>1
<1>3. PICK caption : caption = [size |-> size, lines |-> lines]
  OBVIOUS
<1>4. caption.size = size /\ caption.lines = lines
  BY <1>3
<1> QED BY <1>1, <1>2, <1>3, <1>4 DEF CaptionIsKept

\* The first character of the second line stands in the text.
LEMMA SecondLineIsRead ==
  ASSUME NEW size, NEW width, NEW lines \in Seq(WordLines(size, width)), Len(lines) > 2
  PROVE  /\ lines[2] \in Seq(Characters) /\ lines[2] # <<>>
         /\ lines[2][1] \in Range(Letters(FlattenSeq(lines)))
<1> DEFINE G == WordLines(size, width)
<1>1. G \subseteq Seq(Characters)
  BY DEF WordLines, Lines
<1>2. LongText(G, Characters, lines)
  BY <1>1 DEF LongText
<1>3. PICK first, second, middle, end :
        TakenApart(G, Characters, lines, first, second, middle, end)
  <2> HIDE DEF G
  <2> QED BY <1>2, FlatOfMore
<1>4. /\ second \in G /\ first \in Seq(Characters) /\ second \in Seq(Characters)
      /\ middle \in Seq(Characters) /\ end \in Seq(Characters) /\ lines[2] = second
      /\ FlattenSeq(lines) = (first \o second) \o (middle \o end)
  <2> HIDE DEF G
  <2> QED BY <1>1, <1>3 DEF TakenApart
<1>5. second # <<>> /\ second[1] # Space
  BY <1>4 DEF WordLines, Lines
<1>6. second[1] \in Range(second)
  <2>1. Len(second) \in Nat \ {0}
    BY <1>4, <1>5, EmptySeq
  <2>2. 1 \in DOMAIN second
    BY <1>4, <2>1
  <2> QED BY <2>2 DEF Range
<1>7. PICK before \in Seq(Characters), after \in Seq(Characters) :
        before = first \o second /\ after = middle \o end
  BY <1>4, ConcatProperties
<1>8. Range(before) = Range(first) \cup Range(second)
  BY <1>4, <1>7, RangeConcatenation
<1>9. Range(before \o after) = Range(before) \cup Range(after)
  BY RangeConcatenation
<1>10. before \o after \in Seq(Characters)
  BY ConcatProperties
<1>11. second[1] \in Range(before \o after)
  BY <1>6, <1>8, <1>9
<1>12. second[1] \in Range(Letters(before \o after))
  BY <1>5, <1>10, <1>11, EveryLetter
<1> QED BY <1>4, <1>5, <1>7, <1>12

\* The caption of a text keeps it, or is refused for a reason.
LEMMA CaptionHolds ==
  ASSUME NEW words \in Seq(Words), NEW width \in Nat
  PROVE  CaptionRule(FlattenSeq(words), width, FontAndLines(words, width, Height))
<1>1. FontSizes \in Seq(Nat \ {0}) /\ FontSizes # <<>>
  BY FontAssumption
<1>2. PICK n \in Nat \ {0} : n = Len(FontSizes)
  BY <1>1, EmptySeq
<1>3. DOMAIN FontSizes = 1..n /\ \A i \in 1..n : FontSizes[i] \in Nat \ {0}
  BY <1>1, <1>2
<1> DEFINE wrapped == [i \in DOMAIN FontSizes |-> WrapWords(words, FontSizes[i], width)]
           fitting == {i \in DOMAIN FontSizes :
                         FitsBox(wrapped[i], FontSizes[i], Height)}
<1>4. PICK caption : caption = FontAndLines(words, width, Height)
  OBVIOUS
<1>5. caption = ChooseFont(wrapped, width, Height)
  BY <1>4 DEF FontAndLines
<1>6. ASSUME NEW i \in 1..n
      PROVE  /\ wrapped[i] \in Seq(WordLines(FontSizes[i], width))
             /\ Letters(FlattenSeq(wrapped[i])) = FlattenSeq(words)
  <2>1. wrapped[i] = WrapWords(words, FontSizes[i], width)
    BY <1>3
  <2>2. FontSizes[i] \in Nat
    BY <1>3
  <2> QED BY <2>1, <2>2, WrapKeeps
<1>7. CASE fitting # {}
  <2>1. Min(fitting) \in fitting
    <3>1. fitting \in SUBSET (1..n)
      BY <1>3
    <3> HIDE DEF fitting
    <3> QED BY <1>7, <3>1, MinIsIn
  <2>2. PICK i \in 1..n : i = Min(fitting) /\ FitsBox(wrapped[i], FontSizes[i], Height)
    BY <1>3, <2>1
  <2>8. PICK lines : lines = wrapped[i]
    OBVIOUS
  <2>9. PICK size \in Nat \ {0} : size = FontSizes[i]
    BY <1>3
  <2>3. size = FontSizes[i] /\ lines = wrapped[i]
    BY <2>8, <2>9
  <2>4. caption = [size |-> size, lines |-> lines]
    <3> HIDE DEF wrapped
    <3> QED BY <1>5, <1>7, <2>2, <2>3 DEF ChooseFont
  <2>5. /\ lines \in Seq(WordLines(size, width))
        /\ Letters(FlattenSeq(lines)) = FlattenSeq(words)
        /\ FitsBox(lines, size, Height)
    <3> HIDE DEF wrapped
    <3> QED BY <1>6, <2>2, <2>3
  <2>6. CaptionIsKept(FlattenSeq(words), width, caption)
    <3>1. CaptionIsKept(Letters(FlattenSeq(lines)), width,
                        [size |-> size, lines |-> lines])
      BY <2>5, WholeIsKept
    <3> QED BY <2>4, <2>5, <3>1
  <2>7. caption # Refused
    BY <2>4 DEF Refused
  <2> QED BY <1>4, <2>6, <2>7 DEF CaptionRule
<1>8. CASE fitting = {}
  <2>1. n \in 1..n /\ n = Len(FontSizes)
    BY <1>2
  <2>10. PICK lines : lines = wrapped[n]
    OBVIOUS
  <2>11. PICK size \in Nat \ {0} : size = FontSizes[n]
    BY <1>3, <2>1
  <2>2. size = FontSizes[n] /\ lines = wrapped[n]
    BY <2>10, <2>11
  <2>3. size = Last(FontSizes)
    BY <2>1, <2>2 DEF Last
  <2>4. caption = ShortenedCaption(lines, size, Shorten(lines[2], size, width))
    <3> HIDE DEF wrapped
    <3> QED BY <1>5, <1>8, <2>1, <2>2 DEF ChooseFont
  <2>5. /\ lines \in Seq(WordLines(size, width))
        /\ Letters(FlattenSeq(lines)) = FlattenSeq(words)
    <3> HIDE DEF wrapped
    <3> QED BY <1>6, <2>1, <2>2
  <2>6. ~FitsBox(lines, size, Height)
    <3>1. n \in DOMAIN FontSizes /\ n \notin fitting
      BY <1>3, <1>8, <2>1
    <3> HIDE DEF wrapped
    <3> QED BY <2>2, <3>1
  <2> HIDE DEF wrapped, fitting
  <2>7. Len(lines) \in Nat /\ Len(lines) \notin 1..2
    <3>1. Len(lines) \in Nat
      BY <2>5, LenProperties
    <3>2. Len(lines) \notin 1..2
      BY <2>3, <2>6, TwoLinesHaveRoom
    <3> QED BY <3>1, <3>2
  <2>8. CASE ~(Len(lines) > 2)
    <3>1. Len(lines) = 0
      <4>1. PICK k : k = Len(lines)
        OBVIOUS
      <4>2. k \in Nat /\ k \notin 1..2 /\ ~(k > 2)
        BY <2>7, <2>8, <4>1
      <4>3. k = 0
        BY <4>2
      <4> QED BY <4>1, <4>3
    <3>2. lines = <<>>
      BY <2>5, <3>1, EmptySeq
    <3>3. FlattenSeq(words) = <<>>
      BY <2>5, <3>2, FlatStart, LettersStart
    <3>4. caption = Refused
      BY <2>4, <2>8 DEF ShortenedCaption
    <3> QED BY <1>4, <3>3, <3>4 DEF CaptionRule, JustifiedRefusal
  <2>9. CASE Len(lines) > 2
    <3>1. /\ lines[2] \in Seq(Characters) /\ lines[2] # <<>>
          /\ lines[2][1] \in Range(FlattenSeq(words))
      BY <2>5, <2>9, SecondLineIsRead
    <3>2. PICK shortened : shortened = Shorten(lines[2], size, width)
      OBVIOUS
    <3>3. CASE \E m \in 1..Len(lines[2]) :
                 LET cut == Append(SubSeq(lines[2], 1, m), Ellipsis)
                 IN  shortened = cut /\ LineWidth(cut, size) + Stroke <= width
      <4>1. PICK m : Cuts(lines, m, size, width, shortened)
        BY <2>5, <2>9, <3>3 DEF Cuts
      <4>2. shortened # <<>>
        <5>1. PICK k \in 1..Len(lines[2]) :
                shortened = Append(SubSeq(lines[2], 1, k), Ellipsis)
          BY <3>3
        <5>2. \A i \in 1..k : lines[2][i] \in Characters
          BY <3>1, <5>1
        <5>3. SubSeq(lines[2], 1, k) \in Seq(Characters)
          BY <3>1, <5>2, SubSeqProperties
        <5>4. Ellipsis \in Characters
          BY DEF Characters
        <5> QED BY <5>1, <5>3, <5>4, AppendProperties
      <4>3. caption = [size |-> size, lines |-> <<lines[1], shortened>>]
        BY <2>4, <2>9, <3>2, <4>2 DEF ShortenedCaption
      <4>4. CaptionIsKept(Letters(FlattenSeq(lines)), width,
                          [size |-> size, lines |-> <<lines[1], shortened>>])
        BY <4>1, ShortenedIsKept
      <4>5. caption # Refused
        BY <4>3 DEF Refused
      <4> QED BY <1>4, <2>5, <4>3, <4>4, <4>5 DEF CaptionRule
    <3>4. CASE /\ shortened = <<>>
               /\ ~(LineWidth(<<lines[2][1], Ellipsis>>, size) + Stroke <= width)
      <4>1. caption = Refused
        BY <2>4, <3>2, <3>4 DEF ShortenedCaption
      <4>2. PICK c \in Characters : c = lines[2][1] /\ c \in Range(FlattenSeq(words))
        <5>1. Len(lines[2]) \in Nat \ {0}
          BY <3>1, EmptySeq
        <5>2. 1 \in 1..Len(lines[2])
          BY <5>1
        <5>3. lines[2][1] \in Characters
          BY <3>1, <5>2, ElementOfSeq
        <5> QED BY <3>1, <5>3
      <4>3. LineWidth(<<c, Ellipsis>>, size) + Stroke > width
        <5>1. Ellipsis \in Characters
          BY DEF Characters
        <5>2. <<c, Ellipsis>> \in Seq(Characters)
          BY <5>1
        <5>3. LineWidth(<<c, Ellipsis>>, size) \in Nat /\ Stroke \in Nat
          BY <5>2, WidthIsNatural, CharactersCanBeMeasured, FontAssumption
        <5> QED BY <3>4, <4>2, <5>3
      <4> QED BY <1>4, <2>3, <4>1, <4>2, <4>3 DEF CaptionRule, JustifiedRefusal
    <3> QED BY <3>1, <3>2, <3>3, <3>4, ShortenIs
  <2> QED BY <2>8, <2>9
<1> QED BY <1>7, <1>8

\* No text is lost or moved by line breaking, whatever the words, the width, the
\* fonts and the widths of the characters: a caption shows its whole text in at
\* most two lines within the width, or a beginning of it and an ellipsis, and is
\* refused only if it is empty or no shortened line fits (_wrap_text and
\* _font_and_lines of video_renderer.py); the overlay keeps every character
\* (_wrap_text of overlay.py).
THEOREM EveryTextIsKept == Spec => []TextIsKept
<1>1. QuestionOK => TextIsKept
  <2> SUFFICES ASSUME QuestionOK, question.kind = "text"  PROVE TextIsKept
    BY DEF TextIsKept
  <2>1. PICK n \in 0..MaxWords, width \in Widths : \E words \in [1..n -> Words] :
          question = [kind |-> "text", words |-> words, width |-> width]
    BY DEF QuestionOK
  <2>2. PICK words \in [1..n -> Words] :
          question = [kind |-> "text", words |-> words, width |-> width]
    BY <2>1
  <2>3. width \in Nat /\ n \in Nat
    BY InputAssumption
  <2>4. words \in Seq(Words)
    BY <2>3
  <2>5. Last(FontSizes) \in Nat
    <3>1. FontSizes \in Seq(Nat \ {0}) /\ FontSizes # <<>>
      BY FontAssumption
    <3>2. Len(FontSizes) \in Nat \ {0}
      BY <3>1, EmptySeq
    <3>3. Len(FontSizes) \in 1..Len(FontSizes)
      BY <3>2
    <3>4. FontSizes[Len(FontSizes)] \in Nat \ {0}
      BY <3>1, <3>3, ElementOfSeq
    <3> QED BY <3>4 DEF Last
  <2>6. CaptionRule(FlattenSeq(words), width, FontAndLines(words, width, Height))
    BY <2>3, <2>4, CaptionHolds
  <2>7. OverlayRule(Joined(words), Last(FontSizes), width)
    <3>1. Joined(words) \in Seq(Characters)
      BY <2>4, JoinedIsText
    <3> QED BY <2>3, <2>5, <3>1, OverlayHolds
  <2>8. question.words = words /\ question.width = width
    BY <2>2
  <2> QED BY <2>6, <2>7, <2>8 DEF TextIsKept
<1> QED BY <1>1, QuestionsAsked, PTL

(***************************************************************************)
(* The copy on an advertisement.                                           *)
(***************************************************************************)
\* What the service writes is made of glyphs, ellipses and line breaks; without
\* the last a line is as wide as it is long.
Glyphs == {Glyph, Ellipsis}
CopyCharacters == Glyphs \cup {LineBreak}

LEMMA CopyCanBeMeasured ==
  /\ Measurable(Glyphs) /\ Measurable(CopyCharacters)
  /\ \A c \in Glyphs : c # LineBreak /\ Wide(c) = 1
BY GlyphAssumption, TextAssumption DEF Measurable, Glyphs, CopyCharacters, Characters

LEMMA WidthOfGlyphs ==
  ASSUME NEW line \in Seq(Glyphs), NEW size \in Nat
  PROVE  LineWidth(line, size) = size * Len(line)
<1> DEFINE Both(n) == [row |-> n, widest |-> n]
           T == {text \in Seq(Glyphs) : Measured(text, size) = Both(size * Len(text))}
<1>1. <<>> \in T
  <2>1. Len(<<>>) = 0 /\ size * 0 = 0 /\ <<>> \in Seq(Glyphs)
    OBVIOUS
  <2> QED BY <2>1, MeasuringStart DEF NothingMeasured
<1>2. ASSUME NEW text \in Seq(Glyphs), NEW c \in Glyphs, text \in T
      PROVE  Append(text, c) \in T
  <2>1. PICK n \in Nat : n = Len(text)
    OBVIOUS
  <2>2. /\ Append(text, c) \in Seq(Glyphs) /\ Len(Append(text, c)) = n + 1
        /\ Measured(text, size) = Both(size * n)
    BY <1>2, <2>1
  <2>3. Measured(Append(text, c), size) = Measure(Both(size * n), c, size)
    BY <2>2, CopyCanBeMeasured, MeasuringGrows
  <2>4. c # LineBreak /\ Wide(c) = 1
    BY CopyCanBeMeasured
  <2>5. PICK a \in Nat, b \in Nat :
          a = size * n /\ b = size * (n + 1) /\ b = a + size * Wide(c) /\ a <= b
    <3>1. size * n \in Nat /\ size * (n + 1) \in Nat /\ size * (n + 1) = size * n + size * 1
      OBVIOUS
    <3> QED BY <2>4, <3>1
  <2>6. Measure(Both(a), c, size) = Both(b)
    BY <2>4, <2>5 DEF Measure
  <2> QED BY <2>2, <2>3, <2>5, <2>6
<1>3. line \in T
  <2>1. Seq(Glyphs) \subseteq T
    <3> HIDE DEF T
    <3> QED BY <1>1, <1>2, AllSequences
  <2> QED BY <2>1
<1> QED BY <1>3 DEF LineWidth

\* Whatever the line breaks, no line of the overlay is wider than it may be.
LEMMA NoLineIsWider ==
  ASSUME NEW S \in {Glyphs, CopyCharacters}, NEW text \in Seq(S),
         NEW size \in Nat, NEW width \in Nat, size <= width
  PROVE  /\ WrapCharacters(text, size, width) \in Seq(Seq(S))
         /\ \A i \in DOMAIN WrapCharacters(text, size, width) :
              LET line == WrapCharacters(text, size, width)[i]
              IN  line \in Seq(S) /\ LineWidth(line, size) \in 0..width
<1>1. PICK lines : lines = WrapCharacters(text, size, width)
  OBVIOUS
<1>2. Measurable(S)
  BY CopyCanBeMeasured
<1>3. CASE text = <<>>
  <2>1. lines = << <<>> >>
    BY <1>1, <1>3 DEF WrapCharacters
  <2>2. LineWidth(<<>>, size) = 0 /\ 0 \in 0..width /\ <<>> \in Seq(S)
    BY NoWidth
  <2> DEFINE Z == Seq(S)
  <2>3. lines \in Seq(Z) /\ DOMAIN lines = {1} /\ lines[1] = <<>>
    <3>1. <<>> \in Z
      BY <2>2
    <3> HIDE DEF Z
    <3> QED BY <2>1, <3>1
  <2> QED BY <1>1, <2>2, <2>3
<1>4. CASE text # <<>>
  <2> DEFINE G == Lines(S, size, width)
  <2>1. lines \in Seq(G)
    BY <1>1, <1>2, <1>4, PiecesKeep DEF WrapCharacters
  <2>2. ASSUME NEW line \in G  PROVE line \in Seq(S) /\ LineWidth(line, size) \in 0..width
    <3>1. line \in Seq(S) /\ (LineWidth(line, size) <= width \/ Len(line) = 1)
      BY DEF Lines, Within
    <3>2. LineWidth(line, size) \in Nat
      BY <1>2, <3>1, WidthIsNatural
    <3>3. CASE Len(line) = 1
      <4>1. line[1] \in S /\ line = Append(<<>>, line[1]) /\ <<>> \in Seq(S)
        BY <3>1, <3>3
      <4>2. Measured(line, size) = Measure(NothingMeasured, line[1], size)
        BY <1>2, <4>1, MeasuringStart, MeasuringGrows
      <4>3. LineWidth(line, size) \in {0, size}
        <5>1. CASE line[1] = LineBreak
          BY <4>2, <5>1 DEF LineWidth, Measure, NothingMeasured
        <5>2. CASE line[1] # LineBreak
          <6>1. Wide(line[1]) = 1
            BY <4>1, <5>2, CopyCanBeMeasured DEF CopyCharacters
          <6>2. 0 + size * Wide(line[1]) = size
            BY <6>1
          <6> QED BY <4>2, <5>2, <6>2 DEF LineWidth, Measure, NothingMeasured
        <5> QED BY <5>1, <5>2
      <4> QED BY <3>1, <4>3
    <3> QED BY <3>1, <3>2, <3>3
  <2>3. G \subseteq Seq(S)
    BY <2>2
  <2>4. lines \in Seq(Seq(S))
    <3> HIDE DEF G
    <3> QED BY <2>1, <2>3, SeqMonotonic
  <2>5. \A i \in DOMAIN lines : lines[i] \in G
    <3> HIDE DEF G
    <3> QED BY <2>1
  <2> QED BY <1>1, <2>2, <2>4, <2>5
<1> QED BY <1>3, <1>4

\* What the fold has made of the first k characters, where a line has room for
\* cap of them and two lines for all.
Wrapped(acc, k, cap) ==
    /\ acc \in Broken(Glyphs)
    /\ \/ acc.lines = <<>> /\ Len(acc.current) = k /\ k <= cap
       \/ /\ Len(acc.lines) = 1 /\ Len(acc.lines[1]) = cap
          /\ Len(acc.current) = k - cap /\ cap < k /\ k <= 2 * cap

\* The next character goes to the line, or to a second line when the first is full.
LEMMA PutWraps ==
  ASSUME NEW acc, NEW k \in Nat, NEW cap \in Nat \ {0}, NEW c \in Glyphs,
         NEW size \in Nat, NEW width \in Nat, size * cap <= width, width < size * (cap + 1),
         Wrapped(acc, k, cap), k < 2 * cap
  PROVE  Wrapped(PutCharacter(acc, c, size, width), k + 1, cap)
<1>1. acc.lines \in Seq(Seq(Glyphs)) /\ acc.current \in Seq(Glyphs) /\ acc \in Broken(Glyphs)
  BY DEF Wrapped, Broken
<1>2. PICK longer \in Seq(Glyphs) :
        longer = Append(acc.current, c) /\ Len(longer) = Len(acc.current) + 1
  <2>1. PICK current \in Seq(Glyphs) : current = acc.current
    BY <1>1
  <2>2. Append(current, c) \in Seq(Glyphs) /\ Len(Append(current, c)) = Len(current) + 1
    OBVIOUS
  <2> QED BY <2>1, <2>2
<1>3. PICK m \in Nat : m = Len(acc.current) /\ m <= cap
  BY <1>1 DEF Wrapped
<1>4. LineWidth(longer, size) = size * (m + 1)
  BY <1>2, <1>3, WidthOfGlyphs
<1>5. LineWidth(longer, size) > width <=> m = cap
  <2>1. CASE m = cap
    <3>1. size * (m + 1) > width
      BY <2>1
    <3> QED BY <1>4, <2>1, <3>1
  <2>2. CASE m < cap
    <3>1. PICK e \in Nat : cap = m + 1 + e
      <4>1. cap - (m + 1) \in Nat /\ cap = m + 1 + (cap - (m + 1))
        BY <2>2
      <4> QED BY <4>1
    <3>2. size * cap = size * (m + 1) + size * e /\ size * e >= 0 /\ size * (m + 1) \in Nat
      BY <3>1
    <3>3. size * (m + 1) <= width
      BY <3>2
    <3> QED BY <1>4, <2>2, <3>3
  <2> QED BY <1>3, <2>1, <2>2
<1>6. PutCharacter(acc, c, size, width) \in Broken(Glyphs)
  BY <1>1, PutIsBroken
<1>7. CASE m = cap
  <2>1. acc.current # <<>>
    BY <1>3, <1>7
  <2>2. PutCharacter(acc, c, size, width)
          = [lines |-> Append(acc.lines, acc.current), current |-> <<c>>]
    BY <1>2, <1>5, <1>7, <2>1 DEF PutCharacter
  <2>3. acc.lines = <<>> /\ k = cap
    BY <1>3, <1>7 DEF Wrapped
  <2>4. Len(<<c>>) = 1 /\ Len(Append(acc.lines, acc.current)) = 1
        /\ Append(acc.lines, acc.current)[1] = acc.current
    BY <2>3
  <2>5. /\ Len(PutCharacter(acc, c, size, width).lines) = 1
        /\ PutCharacter(acc, c, size, width).lines[1] = acc.current
        /\ Len(PutCharacter(acc, c, size, width).current) = 1
    BY <2>2, <2>4
  <2>6. k + 1 - cap = 1 /\ cap < k + 1 /\ k + 1 <= 2 * cap
    BY <2>3
  <2>7. /\ Len(PutCharacter(acc, c, size, width).lines[1]) = cap
        /\ Len(PutCharacter(acc, c, size, width).current) = (k + 1) - cap
    <3>1. Len(acc.current) = cap
      BY <1>3, <1>7
    <3>2. (k + 1) - cap = 1
      BY <2>6
    <3> QED BY <2>5, <3>1, <3>2
  <2> QED BY <1>6, <2>5, <2>6, <2>7 DEF Wrapped
<1>8. CASE m # cap
  <2>1. /\ PutCharacter(acc, c, size, width).lines = acc.lines
        /\ PutCharacter(acc, c, size, width).current = longer
    BY <1>1, <1>2, <1>5, <1>8 DEF PutCharacter, Broken
  <2>2. PICK put : put = PutCharacter(acc, c, size, width)
    OBVIOUS
  <2>3. put \in Broken(Glyphs) /\ put.lines = acc.lines /\ Len(put.current) = m + 1
    BY <1>2, <1>3, <1>6, <2>1, <2>2
  <2>4. \/ acc.lines = <<>> /\ m = k /\ k <= cap
        \/ Len(acc.lines) = 1 /\ Len(acc.lines[1]) = cap /\ m = k - cap /\ cap < k
    BY <1>3 DEF Wrapped
  <2>5. Wrapped(put, k + 1, cap)
    <3>1. CASE acc.lines = <<>> /\ m = k /\ k <= cap
      <4>1. put.lines = <<>> /\ Len(put.current) = k + 1 /\ k + 1 <= cap
        BY <1>8, <2>3, <3>1
      <4> QED BY <2>3, <4>1 DEF Wrapped
    <3>2. CASE Len(acc.lines) = 1 /\ Len(acc.lines[1]) = cap /\ m = k - cap /\ cap < k
      <4>1. m + 1 = k + 1 - cap /\ cap < k + 1 /\ k + 1 <= 2 * cap
        BY <3>2
      <4>2. Len(put.lines) = 1 /\ Len(put.lines[1]) = cap /\ Len(put.current) = k + 1 - cap
        BY <2>3, <3>2, <4>1
      <4> QED BY <2>3, <4>1, <4>2 DEF Wrapped
    <3> QED BY <2>4, <3>1, <3>2
  <2> QED BY <2>2, <2>5
<1> QED BY <1>7, <1>8

\* A text of glyphs that has room in two lines takes two at most, and one if it
\* has room in one.
Room(cap, size, width) == size * cap <= width /\ width < size * (cap + 1)

LEMMA WrapsIntoTwoLines ==
  ASSUME NEW text \in Seq(Glyphs), NEW cap \in Nat \ {0}, Len(text) <= 2 * cap,
         NEW size \in Nat, NEW width \in Nat, Room(cap, size, width)
  PROVE  Len(WrapCharacters(text, size, width)) = IF Len(text) <= cap THEN 1 ELSE 2
<1> DEFINE T == {s \in Seq(Glyphs) :
                   Len(s) <= 2 * cap => Wrapped(Splitting(s, size, width), Len(s), cap)}
<1>1. <<>> \in T
  <2>1. Wrapped(NoLines, 0, cap)
    BY DEF Wrapped, NoLines, Broken
  <2>2. Len(<<>>) = 0 /\ <<>> \in Seq(Glyphs) /\ Splitting(<<>>, size, width) = NoLines
    BY SplittingStart
  <2> QED BY <2>1, <2>2
<1>2. ASSUME NEW s \in Seq(Glyphs), NEW c \in Glyphs, s \in T  PROVE Append(s, c) \in T
  <2>1. PICK k \in Nat : k = Len(s) /\ Len(Append(s, c)) = k + 1 /\ Append(s, c) \in Seq(Glyphs)
    OBVIOUS
  <2> SUFFICES ASSUME k + 1 <= 2 * cap
               PROVE  Wrapped(Splitting(Append(s, c), size, width), k + 1, cap)
    BY <2>1
  <2>2. PICK acc : acc = Splitting(s, size, width)
    OBVIOUS
  <2>3. Wrapped(acc, k, cap) /\ k < 2 * cap
    BY <1>2, <2>1, <2>2
  <2>4. Splitting(Append(s, c), size, width) = PutCharacter(acc, c, size, width)
    BY <2>2, SplittingGrows
  <2> HIDE DEF T
  <2> QED BY <2>3, <2>4, PutWraps DEF Room
<1>3. Wrapped(Splitting(text, size, width), Len(text), cap)
  <2>1. Seq(Glyphs) \subseteq T
    <3> HIDE DEF T
    <3> QED BY <1>1, <1>2, AllSequences
  <2> QED BY <2>1
<1>4. CASE text = <<>>
  <2>1. WrapCharacters(text, size, width) = << <<>> >> /\ Len(text) = 0
    BY <1>4 DEF WrapCharacters
  <2> QED BY <2>1
<1>5. CASE text # <<>>
  <2>1. PICK acc : acc = Splitting(text, size, width) /\ Wrapped(acc, Len(text), cap)
    BY <1>3
  <2>2. WrapCharacters(text, size, width) = Closed(acc)
    BY <1>5, <2>1 DEF WrapCharacters, SplitOversizedWord, Splitting
  <2>3. acc.lines \in Seq(Seq(Glyphs)) /\ acc.current \in Seq(Glyphs)
    BY <2>1 DEF Wrapped, Broken
  <2>4. PICK n \in Nat : n = Len(text) /\ n > 0
    BY <1>5
  <2>5. acc.current # <<>>
    BY <2>1, <2>3, <2>4 DEF Wrapped
  <2>6. WrapCharacters(text, size, width) = Append(acc.lines, acc.current)
    BY <2>2, <2>5 DEF Closed
  <2> DEFINE Z == Seq(Glyphs)
  <2>7. PICK m \in Nat : m = Len(acc.lines) /\ Len(Append(acc.lines, acc.current)) = m + 1
    <3>1. acc.lines \in Seq(Z) /\ acc.current \in Z
      BY <2>3
    <3> HIDE DEF Z
    <3>2. PICK lines \in Seq(Z) : lines = acc.lines
      BY <3>1
    <3>3. Len(lines) \in Nat /\ Len(Append(lines, acc.current)) = Len(lines) + 1
      BY <3>1
    <3> QED BY <3>2, <3>3
  <2>8. m = IF n <= cap THEN 0 ELSE 1
    <3>1. CASE acc.lines = <<>> /\ Len(acc.current) = n /\ n <= cap
      BY <2>7, <3>1
    <3>2. CASE Len(acc.lines) = 1 /\ cap < n
      BY <2>7, <3>2
    <3> QED BY <2>1, <2>4, <3>1, <3>2 DEF Wrapped
  <2> QED BY <2>4, <2>6, <2>7, <2>8
<1> QED BY <1>4, <1>5

\* What is truncated keeps to its bound.
LEMMA TruncateBounds ==
  ASSUME NEW text \in Seq(CopyCharacters), NEW maxLen \in Nat \ {0}
  PROVE  Truncate(text, maxLen) \in Seq(CopyCharacters) /\ Len(Truncate(text, maxLen)) <= maxLen
<1>1. CASE Len(text) <= maxLen
  BY <1>1 DEF Truncate
<1>2. CASE ~(Len(text) <= maxLen)
  <2>1. Truncate(text, maxLen) = Append(SubSeq(text, 1, maxLen - 1), Ellipsis)
    BY <1>2 DEF Truncate
  <2>2. PICK head : head = SubSeq(text, 1, maxLen - 1)
    OBVIOUS
  <2>3. head \in Seq(CopyCharacters) /\ Len(head) = maxLen - 1
    <3>1. PICK n \in Nat : n = Len(text) /\ DOMAIN text = 1..n /\ n > maxLen
      BY <1>2
    <3>2. PICK m \in Nat : m = maxLen - 1
      OBVIOUS
    <3>3. head = [i \in 1..m |-> text[i]]
      <4>1. (maxLen - 1) - 1 + 1 = m
        BY <3>2
      <4>2. \A i \in 1..m : (i + 1) - 1 = i
        OBVIOUS
      <4> QED BY <2>2, <3>1, <3>2, <4>1, <4>2
    <3>4. \A i \in 1..m : text[i] \in CopyCharacters
      BY <3>1, <3>2
    <3> QED BY <3>2, <3>3, <3>4
  <2>4. Ellipsis \in CopyCharacters
    BY DEF CopyCharacters, Glyphs
  <2>5. PICK n \in Nat : n = Len(head) /\ n = maxLen - 1
    BY <2>3
  <2>6. Append(head, Ellipsis) \in Seq(CopyCharacters) /\ Len(Append(head, Ellipsis)) = n + 1
    BY <2>3, <2>4, <2>5, AppendAt
  <2> QED BY <2>1, <2>2, <2>5, <2>6
<1> QED BY <1>1, <1>2

GoodCopy(copy) ==
    /\ copy.headline \in Seq(CopyCharacters) /\ Len(copy.headline) <= HeadlineMaxLen
    /\ copy.subcopy \in Seq(CopyCharacters) /\ Len(copy.subcopy) <= SubcopyMaxLen

\* Copy() truncates both texts to what the block has room for.
LEMMA CopyIsGood ==
  ASSUME NEW headline \in Seq(CopyCharacters), NEW subcopy \in Seq(CopyCharacters)
  PROVE  GoodCopy(Copy(headline, subcopy))
<1>1. HeadlineMaxLen \in Nat \ {0} /\ SubcopyMaxLen \in Nat \ {0}
  BY DEF HeadlineMaxLen, SubcopyMaxLen
<1>2. /\ Truncate(headline, HeadlineMaxLen) \in Seq(CopyCharacters)
      /\ Len(Truncate(headline, HeadlineMaxLen)) <= HeadlineMaxLen
  BY <1>1, TruncateBounds
<1>3. /\ Truncate(subcopy, SubcopyMaxLen) \in Seq(CopyCharacters)
      /\ Len(Truncate(subcopy, SubcopyMaxLen)) <= SubcopyMaxLen
  BY <1>1, TruncateBounds
<1> QED BY <1>2, <1>3 DEF GoodCopy, Copy

\* A phrase is a text.
LEMMA PhraseIsText ==
  ASSUME NEW n \in Nat
  PROVE  Phrase(n) \in Seq(CopyCharacters)
BY DEF Phrase, CopyCharacters, Glyphs

\* So is the copy written by rule, whatever slot, tone and promotion it is for.
LEMMA RuleCopyIsGood ==
  ASSUME NEW request, request.name \in Seq(CopyCharacters), request.tone \in DOMAIN ToneLabelLength,
         request.slot \in DOMAIN CopyAngleLength,
         \/ request.promotion = NoPromotion
         \/ request.promotion.discount \in Nat /\ request.promotion.end \in Nat
  PROVE  GoodCopy(RuleCopy(request))
<1> DEFINE label == ToneLabelLength[request.tone]
           angle == CopyAngleLength[request.slot]
<1>1. label \in Nat /\ angle \in Nat
  BY DEF ToneLabelLength, CopyAngleLength
<1>2. /\ Phrase(label + 6) \in Seq(CopyCharacters) /\ Phrase(label + 3) \in Seq(CopyCharacters)
      /\ Phrase(angle) \in Seq(CopyCharacters)
  <2>1. label + 6 \in Nat /\ label + 3 \in Nat /\ angle \in Nat
    BY <1>1
  <2> HIDE DEF label, angle
  <2> QED BY <2>1, PhraseIsText
<1>3. /\ Phrase(7) \in Seq(CopyCharacters) /\ Phrase(18) \in Seq(CopyCharacters)
      /\ Phrase(9) \in Seq(CopyCharacters)
  BY PhraseIsText
<1>4. ASSUME NEW a \in Seq(CopyCharacters), NEW b \in Seq(CopyCharacters)
      PROVE  a \o b \in Seq(CopyCharacters)
  OBVIOUS
<1> HIDE DEF label, angle
<1>5. CASE request.slot \in RequiresPromotionData /\ request.promotion = NoPromotion
  <2>1. RuleCopy(request) = Copy(request.name \o Phrase(7), Phrase(18))
    BY <1>5 DEF RuleCopy
  <2>2. request.name \o Phrase(7) \in Seq(CopyCharacters)
    BY <1>3, <1>4
  <2> QED BY <1>3, <2>1, <2>2, CopyIsGood
<1>6. CASE request.slot \in RequiresPromotionData /\ request.promotion # NoPromotion
  <2>1. PICK offer : offer = PromotionText(request.promotion)
    OBVIOUS
  <2>2. offer \in Seq(CopyCharacters)
    <3>1. PICK d \in Nat, e \in Nat :
            d = request.promotion.discount /\ e = request.promotion.end
      BY <1>6
    <3>2. PICK x \in Nat : x = IF d = 0 THEN 0 ELSE d + 4
      OBVIOUS
    <3>3. PICK y \in Nat : y = IF e = 0 THEN 0 ELSE e + 2
      OBVIOUS
    <3>4. PICK z \in Nat : z = IF x > 0 /\ y > 0 THEN 3 ELSE 0
      OBVIOUS
    <3>5. offer = Phrase(x + y + z)
      BY <2>1, <3>1, <3>2, <3>3, <3>4 DEF PromotionText
    <3>6. x + y + z \in Nat
      OBVIOUS
    <3> QED BY <3>5, <3>6, PhraseIsText
  <2>3. RuleCopy(request) = Copy(IF offer = <<>> THEN Phrase(label + 6) ELSE offer,
                                 request.name \o Phrase(9))
    BY <1>6, <2>1 DEF RuleCopy, label
  <2>4. request.name \o Phrase(9) \in Seq(CopyCharacters)
    BY <1>3, <1>4
  <2>5. (IF offer = <<>> THEN Phrase(label + 6) ELSE offer) \in Seq(CopyCharacters)
    BY <1>2, <2>2
  <2> QED BY <2>3, <2>4, <2>5, CopyIsGood
<1>7. CASE request.slot \notin RequiresPromotionData
  <2>1. RuleCopy(request) = Copy(Phrase(label + 3) \o request.name, Phrase(angle))
    BY <1>7 DEF RuleCopy, label, angle
  <2>2. Phrase(label + 3) \o request.name \in Seq(CopyCharacters)
    BY <1>2, <1>4
  <2> QED BY <1>2, <2>1, <2>2, CopyIsGood
<1> QED BY <1>5, <1>6, <1>7

\* The four formats, as overlay_copy sees them: room for 14 characters of the
\* headline in a line and for 28 of the subcopy in two.
Roomy(format, w, h, text, big, small) ==
    /\ w = ImagePresets[format].export.width /\ h = ImagePresets[format].export.height
    /\ text = MaxTextWidth(w) /\ big = HeadlineSize(w) /\ small = SubcopySize(w)
    /\ TextMargin + text <= w
    /\ big * 18 <= text /\ text < big * (18 + 1)
    /\ small * 27 <= text /\ text < small * (27 + 1)
    /\ TextMargin + (big + LineGap) + 2 * (small + LineGap) <= h

\* The font sizes of every format leave room for the truncated texts.
LEMMA Fonts ==
  ASSUME NEW format \in DOMAIN ImagePresets
  PROVE  \E w, h, text, big, small \in Nat : Roomy(format, w, h, text, big, small)
<1>1. PICK w \in {1080, 1280}, h \in {720, 1080, 1350, 1920} :
         /\ w = ImagePresets[format].export.width /\ h = ImagePresets[format].export.height
  BY DEF ImagePresets, Size
<1>2. CASE w = 1080
  <2>1. MaxTextWidth(w) = 918
    BY <1>2 DEF MaxTextWidth
  <2>2. Max({28, w \div 22}) = 49 /\ Max({20, w \div 32}) = 33
    <3>1. w \div 22 = 49 /\ w \div 32 = 33
      BY <1>2
    <3> QED BY <3>1, MaxOfTwo
  <2>3. HeadlineSize(w) = 49 /\ SubcopySize(w) = 33
    BY <2>2 DEF HeadlineSize, SubcopySize
  <2>4. Roomy(format, w, h, 918, 49, 33)
    BY <1>1, <1>2, <2>1, <2>3 DEF Roomy, TextMargin, LineGap
  <2>5. w \in Nat /\ h \in Nat /\ 918 \in Nat /\ 49 \in Nat /\ 33 \in Nat
    OBVIOUS
  <2> QED BY <2>4, <2>5
<1>3. CASE w = 1280
  <2>1. MaxTextWidth(w) = 1088
    BY <1>3 DEF MaxTextWidth
  <2>2. Max({28, w \div 22}) = 58 /\ Max({20, w \div 32}) = 40
    <3>1. w \div 22 = 58 /\ w \div 32 = 40
      BY <1>3
    <3> QED BY <3>1, MaxOfTwo
  <2>3. HeadlineSize(w) = 58 /\ SubcopySize(w) = 40
    BY <2>2 DEF HeadlineSize, SubcopySize
  <2>4. Roomy(format, w, h, 1088, 58, 40)
    BY <1>1, <1>3, <2>1, <2>3 DEF Roomy, TextMargin, LineGap
  <2>5. w \in Nat /\ h \in Nat /\ 1088 \in Nat /\ 58 \in Nat /\ 40 \in Nat
    OBVIOUS
  <2> QED BY <2>4, <2>5
<1>4. w = 1080 \/ w = 1280
  OBVIOUS
<1> QED BY <1>2, <1>3, <1>4

\* Without line breaks such a text is made of glyphs.
LEMMA InOneRow ==
  ASSUME NEW text \in Seq(CopyCharacters), Breaks(text) = {}
  PROVE  text \in Seq(Glyphs)
<1>1. PICK n \in Nat : n = Len(text) /\ DOMAIN text = 1..n /\ text = [i \in 1..n |-> text[i]]
  OBVIOUS
<1>2. \A i \in 1..n : text[i] \in Glyphs
  BY <1>1 DEF Breaks, CopyCharacters
<1>3. [i \in 1..n |-> text[i]] \in Seq(Glyphs)
  BY <1>2
<1> QED BY <1>1, <1>3

\* And nothing in a text of glyphs breaks a line.
LEMMA NoBreaks ==
  ASSUME NEW line \in Seq(Glyphs)
  PROVE  Cardinality(Breaks(line)) = 0
<1>1. \A i \in DOMAIN line : line[i] # LineBreak
  BY CopyCanBeMeasured
<1>2. Breaks(line) = {}
  BY <1>1 DEF Breaks
<1> QED BY <1>2, FS_EmptySet

\* What is left of a text when its ends have been stripped
LEMMA StrippedIsText ==
  ASSUME NEW text \in Seq(CopyCharacters)
  PROVE  Stripped(text) \in Seq(CopyCharacters)
<1>1. PICK n \in Nat : n = Len(text) /\ DOMAIN text = 1..n
  OBVIOUS
<1>2. PICK kept : kept = DOMAIN text \ Breaks(text)
  OBVIOUS
<1>3. CASE kept = {}
  BY <1>2, <1>3 DEF Stripped
<1>4. CASE kept # {}
  <2>1. kept \in SUBSET (1..n)
    BY <1>1, <1>2
  <2>2. Min(kept) \in 1..n /\ Max(kept) \in 1..n
    BY <1>4, <2>1, MinIsIn, MaxIsIn
  <2>3. Stripped(text) = SubSeq(text, Min(kept), Max(kept))
    BY <1>2, <1>4 DEF Stripped
  <2>4. PICK a \in 1..n, b \in 1..n : a = Min(kept) /\ b = Max(kept)
    BY <2>2
  <2>5. SubSeq(text, a, b) \in Seq(CopyCharacters)
    <3>1. SubSeq(text, a, b) = [i \in 1..(b - a + 1) |-> text[i + a - 1]]
      OBVIOUS
    <3>2. \A i \in 1..(b - a + 1) : text[i + a - 1] \in CopyCharacters
      <4>1. ASSUME NEW i \in 1..(b - a + 1)  PROVE i + a - 1 \in 1..n
        OBVIOUS
      <4> QED BY <1>1, <4>1
    <3>3. CASE b - a + 1 \in Nat
      BY <3>1, <3>2, <3>3
    <3>4. CASE b - a + 1 \notin Nat
      <4>1. 1..(b - a + 1) = {} /\ b < a
        BY <3>4
      <4>2. SubSeq(text, a, b) = <<>>
        BY <4>1
      <4> QED BY <4>2
    <3> QED BY <3>3, <3>4
  <2> QED BY <2>3, <2>4, <2>5
<1> QED BY <1>3, <1>4

\* Good copy stays inside the image.
LEMMA GoodCopyFits ==
  ASSUME NEW copy, GoodCopy(copy), NEW format \in DOMAIN ImagePresets,
         NEW inOneRow, inOneRow = (Breaks(copy.headline) = {} /\ Breaks(copy.subcopy) = {})
  PROVE  LET size == ImagePresets[format].export
             block == CopyBlock(format, copy)
             within(lines, at, font) ==
               \A i \in DOMAIN lines :
                 /\ TextMargin + LineWidth(lines[i], font) <= size.width
                 /\ inOneRow => LowerEnd(lines, i, at, font) <= size.height
         IN  /\ within(block.headline, block.headlineAt, HeadlineSize(size.width))
             /\ within(block.subcopy, block.subcopyAt, SubcopySize(size.width))
<1>1. PICK w, h, text, big, small \in Nat : Roomy(format, w, h, text, big, small)
  BY Fonts
<1>2. /\ w = ImagePresets[format].export.width /\ h = ImagePresets[format].export.height
      /\ text = MaxTextWidth(w) /\ big = HeadlineSize(w) /\ small = SubcopySize(w)
      /\ 40 + text <= w
      /\ big * 18 <= text /\ text < big * (18 + 1) /\ big <= text
      /\ small * 27 <= text /\ text < small * (27 + 1) /\ small <= text
      /\ 40 + (big + 8) + 2 * (small + 8) <= h
  BY <1>1 DEF Roomy, TextMargin, LineGap
<1>3. PICK headline, subcopy : /\ headline = WrapCharacters(copy.headline, big, text)
                               /\ subcopy = WrapCharacters(copy.subcopy, small, text)
  OBVIOUS
<1>4. /\ copy.headline \in Seq(CopyCharacters) /\ Len(copy.headline) <= 14
      /\ copy.subcopy \in Seq(CopyCharacters) /\ Len(copy.subcopy) <= 28
  BY DEF GoodCopy, HeadlineMaxLen, SubcopyMaxLen
<1>5. PICK block : block = CopyBlock(format, copy)
  OBVIOUS
<1>6. /\ block.headline = headline /\ block.subcopy = subcopy
      /\ block.headlineAt =
           Max({40, h - 40 - (Len(headline) * (big + 8) + Len(subcopy) * (small + 8))})
      /\ block.subcopyAt = block.headlineAt + Len(headline) * (big + 8)
  BY <1>2, <1>3, <1>5 DEF CopyBlock, TextMargin, LineGap
<1>7. /\ \A i \in DOMAIN headline : 40 + LineWidth(headline[i], big) <= w
      /\ \A i \in DOMAIN subcopy : 40 + LineWidth(subcopy[i], small) <= w
  <2>1. \A i \in DOMAIN headline : LineWidth(headline[i], big) \in 0..text
    BY <1>2, <1>3, <1>4, NoLineIsWider
  <2>2. \A i \in DOMAIN subcopy : LineWidth(subcopy[i], small) \in 0..text
    BY <1>2, <1>3, <1>4, NoLineIsWider
  <2> QED BY <1>2, <2>1, <2>2
<1>8. ASSUME inOneRow
      PROVE  /\ \A i \in DOMAIN headline :
                  LowerEnd(headline, i, block.headlineAt, big) <= h
             /\ \A i \in DOMAIN subcopy :
                  LowerEnd(subcopy, i, block.subcopyAt, small) <= h
  <2>1. copy.headline \in Seq(Glyphs) /\ copy.subcopy \in Seq(Glyphs)
    BY <1>4, <1>8, InOneRow
  <2>2. Len(headline) = 1
    <3>1. PICK cap \in Nat \ {0} : cap = 18
      OBVIOUS
    <3>2. Len(copy.headline) <= cap /\ Len(copy.headline) <= 2 * cap
      <4>1. Len(copy.headline) \in Nat /\ Len(copy.headline) <= 14
        BY <1>4, <2>1
      <4> QED BY <3>1, <4>1
    <3>3. Room(cap, big, text)
      BY <1>2, <3>1 DEF Room
    <3> QED BY <1>3, <2>1, <3>2, <3>3, WrapsIntoTwoLines
  <2>3. PICK n \in 1..2 : n = Len(subcopy)
    <3>1. PICK cap \in Nat \ {0} : cap = 27
      OBVIOUS
    <3>2. Len(copy.subcopy) <= 2 * cap
      <4>1. Len(copy.subcopy) \in Nat /\ Len(copy.subcopy) <= 28
        BY <1>4, <2>1
      <4> QED BY <3>1, <4>1
    <3>4. Room(cap, small, text)
      BY <1>2, <3>1 DEF Room
    <3>3. Len(subcopy) = IF Len(copy.subcopy) <= cap THEN 1 ELSE 2
      BY <1>3, <2>1, <3>2, <3>4, WrapsIntoTwoLines
    <3> QED BY <3>3
  <2>4. /\ headline \in Seq(Seq(Glyphs)) /\ subcopy \in Seq(Seq(Glyphs))
        /\ \A i \in DOMAIN headline : headline[i] \in Seq(Glyphs)
        /\ \A i \in DOMAIN subcopy : subcopy[i] \in Seq(Glyphs)
    BY <1>2, <1>3, <2>1, NoLineIsWider
  <2>5. DOMAIN headline = 1..1 /\ DOMAIN subcopy = 1..n
    <3> DEFINE Z == Seq(Glyphs)
    <3>1. headline \in Seq(Z) /\ subcopy \in Seq(Z)
      BY <2>4
    <3> HIDE DEF Z
    <3> QED BY <2>2, <2>3, <3>1
  <2>6. PICK height \in Nat : /\ height = 1 * (big + 8) + n * (small + 8)
                              /\ height <= (big + 8) + 2 * (small + 8)
    OBVIOUS
  <2>7. PICK top \in Int : top = block.headlineAt /\ top + height <= h
    <3>1. Max({40, h - 40 - height}) = IF 40 < h - 40 - height THEN h - 40 - height ELSE 40
      BY MaxOfTwo
    <3>2. block.headlineAt = Max({40, h - 40 - height})
      BY <1>6, <2>2, <2>3, <2>6
    <3> QED BY <1>2, <2>6, <3>1, <3>2
  <2>8. ASSUME NEW i \in DOMAIN headline
        PROVE  LowerEnd(headline, i, block.headlineAt, big) <= h
    <3>1. i = 1 /\ Cardinality(Breaks(headline[i])) = 0
      BY <2>4, <2>5, <2>8, NoBreaks
    <3>2. LowerEnd(headline, i, block.headlineAt, big) = top + (1 + 0) * (big + 8)
      BY <2>7, <3>1 DEF LowerEnd, LineGap
    <3>3. n * (small + 8) \in Nat
      BY <2>3
    <3> QED BY <2>6, <2>7, <3>2, <3>3
  <2>9. ASSUME NEW i \in DOMAIN subcopy
        PROVE  LowerEnd(subcopy, i, block.subcopyAt, small) <= h
    <3>1. i \in 1..n /\ Cardinality(Breaks(subcopy[i])) = 0
      BY <2>4, <2>5, <2>9, NoBreaks
    <3>2. block.subcopyAt = top + 1 * (big + 8)
      BY <1>6, <2>2, <2>7
    <3>3. LowerEnd(subcopy, i, block.subcopyAt, small) = top + 1 * (big + 8) + (i + 0) * (small + 8)
      BY <3>1, <3>2 DEF LowerEnd, LineGap
    <3>4. i * (small + 8) <= n * (small + 8)
      <4>1. CASE i = n
        BY <4>1
      <4>2. CASE i = 1 /\ n = 2
        BY <4>2
      <4> QED BY <2>3, <3>1, <4>1, <4>2
    <3> QED BY <2>6, <2>7, <3>1, <3>3, <3>4
  <2> QED BY <2>8, <2>9
<1> QED BY <1>2, <1>5, <1>6, <1>7, <1>8 DEF TextMargin

\* The property GeneratedCopyStaysInside, for names and answers of every length
\* with line breaks anywhere and for all promotions: no row of the text leaves
\* the image on the right, and none at the bottom unless headline or subcopy
\* has a line break, in all four formats.
THEOREM EveryCopyStaysInside == Spec => []GeneratedCopyStaysInside
<1>1. QuestionOK => GeneratedCopyStaysInside
  <2> SUFFICES ASSUME QuestionOK, question.kind = "copy"  PROVE GeneratedCopyStaysInside
    BY DEF GeneratedCopyStaysInside
  <2>1. PICK request \in Requested, answer \in Answers :
          question = [kind |-> "copy", answer |-> answer, request |-> request]
    BY DEF QuestionOK
  <2>2. ASSUME NEW given \in Names \cup AnswerTexts  PROVE given \in Seq(CopyCharacters)
    <3>1. {Glyph, LineBreak} \subseteq CopyCharacters
      BY DEF CopyCharacters, Glyphs
    <3>2. given \in Seq({Glyph, LineBreak})
      BY InputAssumption
    <3> QED BY <3>1, <3>2, SeqMonotonic
  <2>3. /\ request.name \in Seq(CopyCharacters) /\ request.tone \in DOMAIN ToneLabelLength
        /\ request.slot \in DOMAIN CopyAngleLength
        /\ \/ request.promotion = NoPromotion
           \/ request.promotion.discount \in Nat /\ request.promotion.end \in Nat
    <3>1. /\ request.name \in Names /\ request.tone \in Tones
          /\ request.slot \in Slots /\ request.promotion \in Promotions
      BY DEF Requested
    <3> QED BY <2>2, <3>1, InputAssumption
  <2>4. GoodCopy(RuleCopy(request))
    BY <2>3, RuleCopyIsGood
  <2>5. GoodCopy(BuildAdCopy(request, answer))
    <3>1. CASE answer # NoAnswer
      <4>1. answer.headline \in AnswerTexts /\ answer.subcopy \in AnswerTexts
        BY <3>1 DEF Answers
      <4>2. PICK headline, subcopy \in Seq(CopyCharacters) :
              headline = Stripped(answer.headline) /\ subcopy = Stripped(answer.subcopy)
        BY <2>2, <4>1, StrippedIsText
      <4>3. GoodCopy(Copy(headline, subcopy))
        BY CopyIsGood
      <4> QED BY <2>4, <4>2, <4>3 DEF BuildAdCopy
    <3>2. CASE answer = NoAnswer
      BY <2>4, <3>2 DEF BuildAdCopy
    <3> QED BY <3>1, <3>2
  <2>6. PICK copy : copy = BuildAdCopy(question.request, question.answer) /\ GoodCopy(copy)
    BY <2>1, <2>5
  <2>7. PICK inOneRow : inOneRow = (Breaks(copy.headline) = {} /\ Breaks(copy.subcopy) = {})
    OBVIOUS
  <2>8. \A format \in DOMAIN ImagePresets :
          LET size == ImagePresets[format].export
              block == CopyBlock(format, copy)
              within(lines, at, font) ==
                \A i \in DOMAIN lines :
                  /\ TextMargin + LineWidth(lines[i], font) <= size.width
                  /\ inOneRow => LowerEnd(lines, i, at, font) <= size.height
          IN  /\ within(block.headline, block.headlineAt, HeadlineSize(size.width))
              /\ within(block.subcopy, block.subcopyAt, SubcopySize(size.width))
    BY <2>6, <2>7, GoodCopyFits
  <2> QED BY <2>6, <2>7, <2>8 DEF GeneratedCopyStaysInside
<1> QED BY <1>1, QuestionsAsked, PTL

=============================================================================
