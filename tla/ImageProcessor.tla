---------------------------- MODULE ImageProcessor ----------------------------
(***************************************************************************)
(* app/services/processing/image_processor.py: process_image, the          *)
(* transforms an image job runs in one call ("process" in MediaJobs).      *)
(*                                                                         *)
(* An image is its size and whether it has an alpha channel; the pixels,   *)
(* the quality of the encoder and the drawing of the watermark are left    *)
(* out.  A side of a resize that is not given is 0, which the code treats  *)
(* alike; the default box of a thumbnail is one of the boxes, and the      *)
(* default position of a watermark one of the positions.                   *)
(***************************************************************************)
EXTENDS Integers, Sequences

CONSTANTS
    Sources,   \* source images: [w, h, alpha, format]
    Sides,     \* the sides operations ask for
    Requests,  \* the formats compress asks for, "" for none
    MaxOps     \* bound: operations of a job

Saveable == {"JPEG", "PNG", "WEBP", "BMP", "GIF"}   \* FORMAT_INFO

\* Pillow opens more formats than the code saves.
Source == [w : Nat \ {0}, h : Nat \ {0}, alpha : BOOLEAN, format : Saveable \union {"TIFF"}]

ASSUME ImageAssumption ==
    /\ Sources \subseteq Source
    /\ Sides \subseteq Int
    /\ MaxOps \in Nat

Operation ==
    [op : {"resize"}, width : Sides, height : Sides, allow_upscale : BOOLEAN]
    \union [op : {"thumbnail"}, width : Sides, height : Sides]
    \union [op : {"compress"}, format : Requests]
    \union [op : {"watermark"}, text : BOOLEAN, position : BOOLEAN]   \* given; a known one
    \union {[op |-> "transcode"]}

VARIABLES
    source,  \* the image that was opened
    ops,     \* the operations of the job, in order
    next,    \* the index of the next one
    img,     \* the image so far: [w, h, alpha]
    format,  \* save_format
    stage    \* "new", "running", "saved" or "failed"

imageVars == <<source, ops, next, img, format, stage>>

ImageInit ==
    /\ source \in Sources
    /\ ops \in UNION {[1..n -> Operation] : n \in 0..MaxOps}
    /\ next = 1
    /\ img = [w |-> source.w, h |-> source.h, alpha |-> source.alpha]
    /\ format = source.format
    /\ stage = "new"

-----------------------------------------------------------------------------
IsCompress(o) == o.op = "compress" /\ o.format # ""

\* Mutant: a format that a later operation replaces is not validated.
TargetFormatLastOnly(s, f) ==
    LET asked == {i \in DOMAIN s : IsCompress(s[i])}
        last == {i \in asked : \A k \in asked : k <= i}
    IN  IF \E i \in last : s[i].format \notin Saveable THEN "unsupported"
        ELSE IF last # {} THEN s[CHOOSE i \in last : TRUE].format
        ELSE IF f \in Saveable THEN f ELSE "PNG"

\* The last format asked for, and every one asked for has to be saveable.
TargetFormat(s, f) ==
    LET asked == {i \in DOMAIN s : IsCompress(s[i])}
        last == {i \in asked : \A k \in asked : k <= i}
    IN  IF \E i \in asked : s[i].format \notin Saveable THEN "unsupported"
        ELSE IF last # {} THEN s[CHOOSE i \in last : TRUE].format
        ELSE IF f \in Saveable THEN f ELSE "PNG"

Fail ==
    /\ stage' = "failed"
    /\ UNCHANGED <<source, ops, next, img, format>>

\* Open and choose the format, before any operation is looked at.
Open ==
    /\ stage = "new"
    /\ \/ /\ format' = TargetFormat(ops, source.format)
          /\ stage' = IF format' = "unsupported" THEN "failed" ELSE "running"
          /\ UNCHANGED <<source, ops, next, img>>
       \/ Fail   \* an unreadable file

Operand(name) == stage = "running" /\ next <= Len(ops) /\ ops[next].op = name

Continue(image) ==
    /\ img' = image
    /\ next' = next + 1
    /\ UNCHANGED <<source, ops, format, stage>>

AtLeastOne(n) == IF n < 1 THEN 1 ELSE n

\* Python's round(a / b), which takes a half to the even neighbour.
RoundedQuotient(a, b) ==
    LET q == a \div b
        r == a % b
    IN  IF 2 * r < b \/ (2 * r = b /\ q % 2 = 0) THEN q ELSE q + 1

\* Mutant: the other side is scaled by the wrong ratio.
ResizedSizeInverted(o) ==
    IF o.width # 0 /\ o.height # 0 THEN <<o.width, o.height>>
    ELSE IF o.width # 0
         THEN <<o.width, AtLeastOne(RoundedQuotient(img.w * o.width, img.h))>>
         ELSE <<AtLeastOne(RoundedQuotient(img.h * o.height, img.w)), o.height>>

ResizedSize(o) ==
    IF o.width # 0 /\ o.height # 0 THEN <<o.width, o.height>>
    ELSE IF o.width # 0
         THEN <<o.width, AtLeastOne(RoundedQuotient(img.h * o.width, img.w))>>
         ELSE <<AtLeastOne(RoundedQuotient(img.w * o.height, img.h)), o.height>>

\* Mutant: the guard asks for a result that is larger on both sides.
UpscalesStrictly(o) ==
    LET size == ResizedSize(o)
    IN  ~o.allow_upscale /\ size[1] > img.w /\ size[2] > img.h

\* The image is returned as it is if neither side would become smaller.
Upscales(o) ==
    LET size == ResizedSize(o)
    IN  ~o.allow_upscale /\ size[1] >= img.w /\ size[2] >= img.h

\* Pillow refuses sides that are not positive.
Resize ==
    /\ Operand("resize")
    /\ LET o == ops[next]
           size == ResizedSize(o)
       IN  IF o.width = 0 /\ o.height = 0 THEN Fail
           ELSE IF Upscales(o) THEN Continue(img)
           ELSE IF size[1] <= 0 \/ size[2] <= 0 THEN Fail
           ELSE Continue([img EXCEPT !.w = size[1], !.h = size[2]])

\* Pillow's thumbnail: the sides of the box, one of them lowered to keep the
\* aspect ratio and rounded either way.
FittedSizes(w, h) ==
    IF w >= img.w /\ h >= img.h THEN {<<img.w, img.h>>}
    ELSE IF w * img.h >= h * img.w
         THEN {<<AtLeastOne((h * img.w + up) \div img.h), h>> : up \in {0, img.h - 1}}
         ELSE {<<w, AtLeastOne((w * img.h + up) \div img.w)>> : up \in {0, img.w - 1}}

Thumbnail ==
    /\ Operand("thumbnail")
    /\ LET o == ops[next]
       IN  IF o.width <= 0 \/ o.height <= 0 THEN Fail
           ELSE \E size \in FittedSizes(o.width, o.height) :
                  Continue([img EXCEPT !.w = size[1], !.h = size[2]])

\* The watermark is composed in RGBA, and needs a text and a place.
Watermark ==
    /\ Operand("watermark")
    /\ IF ops[next].text /\ ops[next].position
       THEN Continue([img EXCEPT !.alpha = TRUE]) ELSE Fail

\* The format is known already.
Compress ==
    /\ Operand("compress")
    /\ Continue(img)

Transcode ==
    /\ Operand("transcode")
    /\ Fail

\* Any error of Pillow, or of a parameter that is not a number.
OperationFails ==
    /\ stage = "running" /\ next <= Len(ops)
    /\ Fail

\* Mutant: an image is not flattened for JPEG.
SaveUnflattened ==
    /\ stage = "running" /\ next > Len(ops)
    /\ stage' = "saved"
    /\ UNCHANGED <<source, ops, next, img, format>>

\* JPEG has no alpha channel: the image is flattened.
Save ==
    /\ stage = "running" /\ next > Len(ops)
    /\ \/ /\ img' = IF format = "JPEG" THEN [img EXCEPT !.alpha = FALSE] ELSE img
          /\ stage' = "saved"
          /\ UNCHANGED <<source, ops, next, format>>
       \/ Fail   \* an error of the write

ImageNext ==
    \/ Open \/ Resize \/ Thumbnail \/ Watermark \/ Compress \/ Transcode
    \/ OperationFails \/ Save

ImageSpec == ImageInit /\ [][ImageNext]_imageVars

-----------------------------------------------------------------------------
(***************************************************************************)
(* What is saved can be written and read: it has a size, a format Pillow   *)
(* writes, and no alpha channel in a JPEG, whatever operations are chained.*)
(***************************************************************************)
SavedImageIsValid ==
    stage = "saved" =>
        /\ img.w >= 1 /\ img.h >= 1
        /\ format \in Saveable
        /\ format = "JPEG" => ~img.alpha

\* What _target_format, _resize, _thumbnail, _watermark and process_image
\* check of an operation, and Pillow of the sides of a resize.
Valid(o) ==
    /\ o.op # "transcode"
    /\ IsCompress(o) => o.format \in Saveable
    /\ o.op = "resize" =>
         o.width >= 0 /\ o.height >= 0 /\ (o.width # 0 \/ o.height # 0)
    /\ o.op = "thumbnail" => o.width > 0 /\ o.height > 0
    /\ o.op = "watermark" => o.text /\ o.position

(***************************************************************************)
(* A job with any invalid operation fails, also when a later operation     *)
(* would have made up for it or an image that may not be enlarged is to    *)
(* stay as it is: nothing is saved half-processed.                         *)
(***************************************************************************)
SavedMeansAllValid ==
    stage = "saved" => \A i \in DOMAIN ops : Valid(ops[i])

OneSide(o) == o.op = "resize" /\ (o.width = 0) # (o.height = 0)

Distance(a, b) == IF a < b THEN b - a ELSE a - b

(***************************************************************************)
(* README.md: "single dimension preserves aspect ratio".  The other side   *)
(* is the nearest whole number, or 1 when that would be 0.                 *)
(***************************************************************************)
OneSideKeepsAspect ==
    [][Resize /\ OneSide(ops[next]) /\ stage' # "failed" =>
         LET skew == Distance(img'.w * img.h, img.w * img'.h)
         IN  IF ops[next].width # 0
             THEN 2 * skew <= img.w \/ img'.h = 1
             ELSE 2 * skew <= img.h \/ img'.w = 1]_imageVars

(***************************************************************************)
(* With one side given, an image that may not be enlarged is not, on       *)
(* either side, in spite of the rounding.                                  *)
(***************************************************************************)
OneSideNeverUpscales ==
    [][Resize /\ OneSide(ops[next]) /\ ~ops[next].allow_upscale =>
         img'.w <= img.w /\ img'.h <= img.h]_imageVars

=============================================================================
