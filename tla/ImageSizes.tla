----------------------------- MODULE ImageSizes -----------------------------
(***************************************************************************)
(* The sizes of an advertisement (app/image_presets.py) and the two checks *)
(* on its way that refuse a wrong aspect ratio: generate() of the model    *)
(* server (pipelines.py) and overlay_copy() of the backend (overlay.py).   *)
(***************************************************************************)
EXTENDS Integers, FiniteSetsExt

Size(width, height) == [width |-> width, height |-> height]

ImagePresets ==
    [thumbnail |->
       [background |-> Size(768, 768), composite |-> Size(1024, 1024),
        export |-> Size(1080, 1080)],
     sns_card |->
       [background |-> Size(672, 840), composite |-> Size(896, 1120),
        export |-> Size(1080, 1350)],
     story_vertical |->
       [background |-> Size(576, 1024), composite |-> Size(720, 1280),
        export |-> Size(1080, 1920)],
     wide_banner |->
       [background |-> Size(1024, 576), composite |-> Size(1280, 720),
        export |-> Size(1280, 720)]]

DefaultBackgroundReference == 768
DefaultCompositeReference == 1024

Gcd(a, b) == Max({d \in 1..Min({a, b}) : a % d = 0 /\ b % d = 0})

\* Mutated form: width and height are put on the grid one by one.
ScaleRatioSizeEach(size, configured, default) ==
    LET scaled(length) ==
          Max({8, ((length * configured + default * 4) \div (default * 8)) * 8})
    IN  IF configured = default THEN size
          ELSE Size(scaled(size.width), scaled(size.height))

\* The common unit of both sides is put on the grid of 8 pixels.
ScaleRatioSize(size, configured, default) ==
    LET unit == Gcd(size.width, size.height)
        steps == (unit * configured + default * 4) \div (default * 8)
        scaled == Max({8, steps * 8})
    IN  IF configured = default THEN size
          ELSE Size((size.width \div unit) * scaled,
                    (size.height \div unit) * scaled)

\* resolve_runtime_image_preset
ResolveRuntimeImagePreset(key, fastBackgroundSize, imageSize) ==
    [ImagePresets[key] EXCEPT
       !.background = ScaleRatioSize(@, fastBackgroundSize,
                                     DefaultBackgroundReference),
       !.composite = ScaleRatioSize(@, imageSize, DefaultCompositeReference)]

\* What ModelServerConfig accepts for IMAGE_SIZE and FAST_BACKGROUND_SIZE
SizesAccepted(fastBackgroundSize, imageSize) ==
    /\ imageSize > 0 /\ imageSize % 8 = 0
    /\ fastBackgroundSize > 0 /\ fastBackgroundSize % 8 = 0
    /\ fastBackgroundSize <= imageSize

\* The check of generate()
SameRatio(size, other) ==
    size.width * other.height = size.height * other.width

Distance(a, b) == IF a < b THEN b - a ELSE a - b

\* The check of _resize_same_aspect_ratio: one side is within a pixel.
WithinOnePixel(image, target) ==
    \/ Distance(image.width * target.height, image.height * target.width)
         <= target.height
    \/ Distance(image.height * target.width, image.width * target.height)
         <= target.width

=============================================================================
