--------------------------- MODULE TransformsProofs ---------------------------
(***************************************************************************)
(* Proofs about Transforms, for any sources, operations and numbers of     *)
(* operations: what the two processors write, and how it is stored.        *)
(***************************************************************************)
EXTENDS Transforms, SequenceTheorems, FiniteSetTheorems, TLAPS

-----------------------------------------------------------------------------
(***************************************************************************)
(* The arithmetic of sizes.                                                *)
(***************************************************************************)

(***************************************************************************)
(* Division with a remainder.                                              *)
(***************************************************************************)
LEMMA Divided ==
    ASSUME NEW a \in Int, NEW b \in Nat \ {0},
           NEW q \in Int, q = a \div b, NEW r \in Int, r = a % b
    PROVE  /\ a = b * q + r
           /\ 0 <= r /\ r < b
  BY Z3

(***************************************************************************)
(* round(a / b) is a whole number not further than half of one from a / b, *)
(* and on the same side of any whole number c as a / b.                    *)
(***************************************************************************)
LEMMA RoundedIsNear ==
    ASSUME NEW a \in Int, NEW b \in Nat \ {0}, NEW c \in Int
    PROVE  /\ RoundedQuotient(a, b) \in Int
           /\ 2 * (a - b * RoundedQuotient(a, b)) <= b
           /\ 2 * (b * RoundedQuotient(a, b) - a) <= b
           /\ a < b * c => RoundedQuotient(a, b) <= c
           /\ a >= b * c => RoundedQuotient(a, b) >= c
<1>1. PICK q \in Int : q = a \div b
  OBVIOUS
<1>2. PICK r \in Int : r = a % b
  OBVIOUS
<1>3. a = b * q + r /\ 0 <= r /\ r < b
  BY <1>1, <1>2, Divided
<1>4. PICK n \in Int : /\ RoundedQuotient(a, b) = n
                       /\ \/ n = q /\ 2 * r <= b
                          \/ n = q + 1 /\ 2 * r >= b
  <2> SUFFICES \/ RoundedQuotient(a, b) = q /\ 2 * r <= b
               \/ RoundedQuotient(a, b) = q + 1 /\ 2 * r >= b
    OBVIOUS
  <2> DEFINE down == 2 * r < b \/ (2 * r = b /\ q % 2 = 0)
  <2>1. RoundedQuotient(a, b) = IF down THEN q ELSE q + 1
    BY <1>1, <1>2, Zenon DEF RoundedQuotient
  <2>2. down => 2 * r <= b
    OBVIOUS
  <2>3. ~down => 2 * r >= b
    OBVIOUS
  <2> HIDE DEF down
  <2> QED BY <2>1, <2>2, <2>3
<1>5. a < b * c => q < c
  BY <1>3
<1>6. a >= b * c => q >= c
  BY <1>3
<1>7. b * (q + 1) = b * q + b
  OBVIOUS
<1>8. 2 * (a - b * n) <= b /\ 2 * (b * n - a) <= b
  BY <1>3, <1>4, <1>7
<1>9. (a < b * c => n <= c) /\ (a >= b * c => n >= c)
  BY <1>4, <1>5, <1>6
<1> QED
  BY <1>4, <1>8, <1>9

\* max(1, n) of a whole number.
LEMMA AtLeastOneIsPositive ==
    ASSUME NEW n \in Int
    PROVE  AtLeastOne(n) \in Nat \ {0} /\ AtLeastOne(n) >= n
  BY DEF AtLeastOne

-----------------------------------------------------------------------------
(***************************************************************************)
(* The image processor.  What holds between two operations: the image has  *)
(* a size, and the format that was chosen and the operations that were     *)
(* passed are valid.                                                       *)
(***************************************************************************)
Picture == [w : Nat \ {0}, h : Nat \ {0}, alpha : BOOLEAN]

ImageTyped ==
    /\ source \in Source
    /\ ops \in Seq(Operation)
    /\ next \in Nat \ {0}
    /\ img \in Picture

FormatSettled ==
    stage \in {"running", "saved"} =>
        /\ format \in Saveable
        /\ \A i \in DOMAIN ops : IsCompress(ops[i]) => ops[i].format \in Saveable

PassedAreValid ==
    stage \in {"running", "saved"} => \A i \in DOMAIN ops : i < next => Valid(ops[i])

SavedIsAll ==
    stage = "saved" => next > Len(ops) /\ (format = "JPEG" => ~img.alpha)

FreshStart == stage = "new" => next = 1

ImageInv == ImageTyped /\ FormatSettled /\ PassedAreValid /\ SavedIsAll /\ FreshStart

(***************************************************************************)
(* What the schemas let through: the operations an image job can hold.     *)
(***************************************************************************)
LEMMA ImageOperations ==
    ASSUME NEW o \in Operation
    PROVE  /\ o.op \in {"resize", "thumbnail", "compress", "watermark", "transcode"}
           /\ o.op \in {"resize", "thumbnail"} => o.width \in Int /\ o.height \in Int
           /\ o.op = "resize" => o.allow_upscale \in BOOLEAN
<1>1. Sides \subseteq Int
  BY ImageAssumption
<1>2. CASE o \in [op : {"resize"}, width : Sides, height : Sides, allow_upscale : BOOLEAN]
  BY <1>1, <1>2
<1>3. CASE o \in [op : {"thumbnail"}, width : Sides, height : Sides]
  BY <1>1, <1>3
<1>4. CASE o \in [op : {"compress"}, format : Requests]
  BY <1>4
<1>5. CASE o \in [op : {"watermark"}, text : BOOLEAN, position : BOOLEAN]
  BY <1>5
<1>6. CASE o = [op |-> "transcode"]
  BY <1>6
<1> QED
  BY <1>2, <1>3, <1>4, <1>5, <1>6 DEF Operation

(***************************************************************************)
(* _target_format: a format that is chosen can be saved, and so can every  *)
(* one that was asked for.                                                 *)
(***************************************************************************)
LEMMA ChosenFormatIsSaveable ==
    ASSUME NEW s, NEW f, TargetFormat(s, f) # "unsupported"
    PROVE  /\ TargetFormat(s, f) \in Saveable
           /\ \A i \in DOMAIN s : IsCompress(s[i]) => s[i].format \in Saveable
<1> DEFINE asked == {i \in DOMAIN s : IsCompress(s[i])}
           last == {i \in asked : \A k \in asked : k <= i}
<1>1. \A i \in asked : s[i].format \in Saveable
  BY DEF TargetFormat
<1>2. last # {} => s[CHOOSE i \in last : TRUE].format \in Saveable
  BY <1>1
<1>3. TargetFormat(s, f) = IF last # {} THEN s[CHOOSE i \in last : TRUE].format
                           ELSE IF f \in Saveable THEN f ELSE "PNG"
  BY <1>1 DEF TargetFormat
<1> QED
  BY <1>1, <1>2, <1>3 DEF Saveable

(***************************************************************************)
(* _resize: the size a valid resize makes, in whole numbers.               *)
(***************************************************************************)
LEMMA ResizedSizeIsWhole ==
    ASSUME ImageTyped, NEW o, o.width \in Int, o.height \in Int,
           o.width # 0 \/ o.height # 0
    PROVE  /\ ResizedSize(o)[1] \in Int
           /\ ResizedSize(o)[2] \in Int
<1>1. img.w \in Nat \ {0} /\ img.h \in Nat \ {0}
  BY DEF ImageTyped, Picture
<1>2. RoundedQuotient(img.h * o.width, img.w) \in Int
  BY <1>1, RoundedIsNear, img.h * o.width \in Int
<1>3. RoundedQuotient(img.w * o.height, img.h) \in Int
  BY <1>1, RoundedIsNear, img.w * o.height \in Int
<1> DEFINE h == AtLeastOne(RoundedQuotient(img.h * o.width, img.w))
           w == AtLeastOne(RoundedQuotient(img.w * o.height, img.h))
<1>4. h \in Int /\ w \in Int
  BY <1>2, <1>3, AtLeastOneIsPositive
<1>5. ResizedSize(o) \in {<<o.width, o.height>>, <<o.width, h>>, <<w, o.height>>}
  BY DEF ResizedSize
<1> HIDE DEF h, w
<1> QED
  BY <1>4, <1>5

\* Only of sides that are not negative it makes a size with sides.
LEMMA NegativeSideIsNoSize ==
    ASSUME NEW o, o.width \in Int, o.height \in Int,
           ResizedSize(o)[1] >= 1, ResizedSize(o)[2] >= 1
    PROVE  o.width >= 0 /\ o.height >= 0
<1> DEFINE h == AtLeastOne(RoundedQuotient(img.h * o.width, img.w))
           w == AtLeastOne(RoundedQuotient(img.w * o.height, img.h))
<1>1. ResizedSize(o) = IF o.width # 0 /\ o.height # 0 THEN <<o.width, o.height>>
                       ELSE IF o.width # 0 THEN <<o.width, h>> ELSE <<w, o.height>>
  BY DEF ResizedSize
<1> HIDE DEF h, w
<1> QED
  BY <1>1

(***************************************************************************)
(* Image.thumbnail: every size it may choose is one an image can have.     *)
(***************************************************************************)
LEMMA FittedSizesArePositive ==
    ASSUME ImageTyped, NEW w \in Nat \ {0}, NEW h \in Nat \ {0},
           NEW size \in FittedSizes(w, h)
    PROVE  size[1] \in Nat \ {0} /\ size[2] \in Nat \ {0}
<1>1. img.w \in Nat \ {0} /\ img.h \in Nat \ {0}
  BY DEF ImageTyped, Picture
<1>2. \A up \in Int : (h * img.w + up) \div img.h \in Int
  BY <1>1
<1>3. \A up \in Int : (w * img.h + up) \div img.w \in Int
  BY <1>1
<1>4. \A up \in Int : /\ AtLeastOne((h * img.w + up) \div img.h) \in Nat \ {0}
                      /\ AtLeastOne((w * img.h + up) \div img.w) \in Nat \ {0}
  BY <1>2, <1>3, AtLeastOneIsPositive
<1>5. {0, img.h - 1} \subseteq Int /\ {0, img.w - 1} \subseteq Int
  BY <1>1
<1>6. \/ size = <<img.w, img.h>>
      \/ \E up \in Int : size = <<AtLeastOne((h * img.w + up) \div img.h), h>>
      \/ \E up \in Int : size = <<w, AtLeastOne((w * img.h + up) \div img.w)>>
  BY <1>5, Zenon DEF FittedSizes
<1> QED
  BY <1>1, <1>4, <1>6

-----------------------------------------------------------------------------
(***************************************************************************)
(* The steps of the image processor.                                       *)
(***************************************************************************)
\* An operation that is passed: the image changes and nothing else.
LEMMA ContinueKeeps ==
    ASSUME ImageInv, stage = "running", NEW image \in Picture, Continue(image),
           next \in DOMAIN ops => Valid(ops[next])
    PROVE  ImageInv'
<1> USE DEF ImageInv, Continue
<1>1. ImageTyped'
  BY DEF ImageTyped
<1>2. FormatSettled'
  BY DEF FormatSettled, IsCompress
<1>3. PassedAreValid'
  <2>1. \A i \in DOMAIN ops : i < next' => i < next \/ i = next
    BY DEF ImageTyped
  <2> QED
    BY <2>1 DEF PassedAreValid, Valid, IsCompress
<1>4. SavedIsAll' /\ FreshStart'
  BY DEF SavedIsAll, FreshStart
<1> QED
  BY <1>1, <1>2, <1>3, <1>4

\* A job that fails has nothing to keep but its types.
LEMMA FailKeeps ==
    ASSUME ImageInv, Fail
    PROVE  ImageInv'
  BY DEF ImageInv, ImageTyped, FormatSettled, PassedAreValid, SavedIsAll, FreshStart, Fail

\* A picture of another size is a picture.
LEMMA SizedIsPicture ==
    ASSUME ImageTyped, NEW w \in Nat \ {0}, NEW h \in Nat \ {0}
    PROVE  [img EXCEPT !.w = w, !.h = h] \in Picture
  BY DEF ImageTyped, Picture

\* The operation in hand is one the schemas let through.
LEMMA OperandTyped ==
    ASSUME ImageTyped, NEW name, Operand(name)
    PROVE  ops[next] \in Operation /\ next \in DOMAIN ops
  BY DEF ImageTyped, Operand

(***************************************************************************)
(* Every step of process_image keeps the invariant.                        *)
(***************************************************************************)
LEMMA ImageStep ==
    ASSUME ImageInv, ImageNext
    PROVE  ImageInv'
<1> USE DEF ImageInv
<1>1. CASE Open /\ ~Fail
  <2>1. ImageTyped'
    BY <1>1 DEF Open, ImageTyped
  <2>2. FormatSettled'
    <3> SUFFICES ASSUME stage' = "running"
                 PROVE  FormatSettled'
      BY <1>1 DEF Open, FormatSettled
    <3>1. TargetFormat(ops, source.format) # "unsupported"
      BY <1>1 DEF Open
    <3>2. /\ format' \in Saveable
          /\ \A i \in DOMAIN ops : IsCompress(ops[i]) => ops[i].format \in Saveable
      BY <1>1, <3>1, ChosenFormatIsSaveable DEF Open
    <3> QED
      BY <1>1, <3>2 DEF Open, FormatSettled, IsCompress
  <2>3. PassedAreValid'
    BY <1>1 DEF Open, PassedAreValid, ImageTyped, FreshStart
  <2>4. SavedIsAll' /\ FreshStart'
    BY <1>1 DEF Open, SavedIsAll, FreshStart
  <2> QED
    BY <2>1, <2>2, <2>3, <2>4
<1>2. CASE Resize
  <2> DEFINE o == ops[next]
             size == ResizedSize(o)
  <2>1. stage = "running" /\ o.op = "resize" /\ o \in Operation /\ next \in DOMAIN ops
    BY <1>2, OperandTyped DEF Resize, Operand
  <2>2. o.width \in Int /\ o.height \in Int
    BY <2>1, ImageOperations
  <2>3. CASE Fail
    BY <2>3, FailKeeps
  <2>4. CASE ~Fail
    <3>1. o.width # 0 \/ o.height # 0
      BY <1>2, <2>2, <2>4 DEF Resize
    <3>2. size[1] \in Int /\ size[2] \in Int
      BY <2>2, <3>1, ResizedSizeIsWhole
    <3>3. \/ size[1] >= img.w /\ size[2] >= img.h /\ Continue(img)
          \/ /\ ~(size[1] <= 0 \/ size[2] <= 0)
             /\ Continue([img EXCEPT !.w = size[1], !.h = size[2]])
      BY <1>2, <2>4, <3>1, Zenon DEF Resize, Upscales
    <3>4. size[1] >= 1 /\ size[2] >= 1
      BY <3>2, <3>3 DEF ImageTyped, Picture
    <3>5. o.width >= 0 /\ o.height >= 0
      BY <2>2, <3>4, NegativeSideIsNoSize
    <3> HIDE DEF o, size
    <3>6. \/ Continue(img)
          \/ \E w, h \in Nat \ {0} : Continue([img EXCEPT !.w = w, !.h = h])
      <4>1. ~(size[1] <= 0 \/ size[2] <= 0) => size[1] \in Nat \ {0} /\ size[2] \in Nat \ {0}
        BY <3>2
      <4> QED
        BY <3>3, <4>1, Zenon
    <3>7. \E image \in Picture : Continue(image)
      BY <3>6, SizedIsPicture, Zenon DEF ImageTyped
    <3> QED
      BY <2>1, <3>1, <3>5, <3>7, ContinueKeeps DEF o, Valid, IsCompress
  <2> QED
    BY <2>3, <2>4
<1>3. CASE Thumbnail
  <2> DEFINE o == ops[next]
  <2>1. stage = "running" /\ o.op = "thumbnail" /\ o \in Operation
    BY <1>3, OperandTyped DEF Thumbnail, Operand
  <2>2. o.width \in Int /\ o.height \in Int
    BY <2>1, ImageOperations
  <2>3. CASE Fail
    BY <2>3, FailKeeps
  <2>4. CASE ~Fail
    <3>1. /\ ~(o.width <= 0 \/ o.height <= 0)
          /\ \E size \in FittedSizes(o.width, o.height) :
               Continue([img EXCEPT !.w = size[1], !.h = size[2]])
      BY <1>3, <2>4, Zenon DEF Thumbnail
    <3>2. o.width \in Nat \ {0} /\ o.height \in Nat \ {0}
      BY <2>2, <3>1
    <3> HIDE DEF o
    <3>3. \E image \in Picture : Continue(image)
      BY <3>1, <3>2, FittedSizesArePositive, SizedIsPicture
    <3> QED
      BY <2>1, <3>2, <3>3, ContinueKeeps DEF o, Valid, IsCompress
  <2> QED
    BY <2>3, <2>4
<1>4. CASE Watermark
  <2>1. CASE Fail
    BY <2>1, FailKeeps
  <2>2. CASE /\ ops[next].text /\ ops[next].position
             /\ Continue([img EXCEPT !.alpha = TRUE])
    <3>1. [img EXCEPT !.alpha = TRUE] \in Picture
      BY DEF ImageTyped, Picture
    <3>2. stage = "running" /\ Valid(ops[next])
      BY <1>4, <2>2 DEF Watermark, Operand, Valid, IsCompress
    <3> QED
      BY <2>2, <3>1, <3>2, ContinueKeeps
  <2> QED
    BY <1>4, <2>1, <2>2 DEF Watermark
<1>5. CASE Compress
  BY <1>5, ContinueKeeps DEF Compress, Operand, ImageTyped, FormatSettled, Valid
<1>6. CASE Transcode \/ OperationFails
  BY <1>6, FailKeeps DEF Transcode, OperationFails
<1>7. CASE Save /\ ~Fail
  <2>1. img' \in Picture /\ (format = "JPEG" => ~img'.alpha)
    BY <1>7 DEF Save, ImageTyped, Picture
  <2>2. ImageTyped'
    BY <1>7, <2>1 DEF Save, ImageTyped
  <2>3. FormatSettled' /\ PassedAreValid' /\ FreshStart'
    BY <1>7 DEF Save, FormatSettled, PassedAreValid, FreshStart, IsCompress, Valid
  <2>4. SavedIsAll'
    BY <1>7, <2>1 DEF Save, SavedIsAll
  <2> QED
    BY <2>2, <2>3, <2>4
<1>8. CASE Fail
  BY <1>8, FailKeeps
<1> QED
  BY <1>1, <1>2, <1>3, <1>4, <1>5, <1>6, <1>7, <1>8 DEF ImageNext

(***************************************************************************)
(* What the API admits: a job has a sequence of valid requests.            *)
(***************************************************************************)
LEMMA ImageInitially ==
    ASSUME TransformsInit
    PROVE  ImageInv
<1>1. CASE ImageInit
  <2>1. ops \in Seq(Operation)
    <3>1. PICK n \in 0..MaxOps : ops \in [1..n -> Operation]
      BY <1>1 DEF ImageInit
    <3>2. n \in Nat
      BY <3>1, ImageAssumption
    <3> QED
      BY <3>1, <3>2, SeqDef
  <2>2. source \in Source /\ img \in Picture
    BY <1>1, ImageAssumption DEF ImageInit, ImageAssumption, Source, Picture
  <2> QED
    BY <1>1, <2>1, <2>2 DEF ImageInit, ImageInv, ImageTyped, FormatSettled,
         PassedAreValid, SavedIsAll, FreshStart
<1>2. CASE NoImage
  <2>1. source \in Source /\ img \in Picture /\ ops \in Seq(Operation)
    BY <1>2 DEF NoImage, Source, Saveable, Picture
  <2> QED
    BY <1>2, <2>1 DEF NoImage, ImageInv, ImageTyped, FormatSettled,
         PassedAreValid, SavedIsAll, FreshStart
<1> QED
  BY <1>1, <1>2 DEF TransformsInit

\* No step of the video processor or of the upload disturbs the image.
LEMMA ImageInvariant == TransformsSpec => []ImageInv
<1>1. ASSUME ImageInv, [TransformsNext]_transformsVars
      PROVE  ImageInv'
  <2>1. CASE ImageNext
    BY <1>1, <2>1, ImageStep
  <2>2. CASE UNCHANGED imageVars
    BY <1>1, <2>2 DEF ImageInv, ImageTyped, FormatSettled, PassedAreValid,
         SavedIsAll, FreshStart, imageVars, IsCompress
  <2> QED
    BY <1>1, <2>1, <2>2 DEF TransformsNext, transformsVars, StoreImage, StoreVideo
<1> QED
  BY <1>1, ImageInitially, PTL DEF TransformsSpec

(***************************************************************************)
(* What is saved can be written and read.                                  *)
(***************************************************************************)
THEOREM SavedIsValid == TransformsSpec => []SavedImageIsValid
<1>1. ImageInv => SavedImageIsValid
  BY DEF ImageInv, ImageTyped, Picture, FormatSettled, SavedIsAll, SavedImageIsValid
<1> QED
  BY <1>1, ImageInvariant, PTL

(***************************************************************************)
(* An image job with an invalid operation saves nothing, wherever in its   *)
(* list that stands and whatever follows it.                               *)
(***************************************************************************)
THEOREM SavedIsAllValid == TransformsSpec => []SavedMeansAllValid
<1>1. ImageInv => SavedMeansAllValid
  BY DEF ImageInv, ImageTyped, PassedAreValid, SavedIsAll, SavedMeansAllValid
<1> QED
  BY <1>1, ImageInvariant, PTL

(***************************************************************************)
(* The side that is not given: a is what it was, b and side are what the   *)
(* other one was and is to be.                                             *)
(***************************************************************************)
Scaled(a, side, b) == AtLeastOne(RoundedQuotient(a * side, b))

InProportion(a, b, side, scaled) ==
    /\ scaled \in Nat \ {0}
    /\ \/ scaled = 1
       \/ 2 * (a * side - b * scaled) <= b /\ 2 * (b * scaled - a * side) <= b
    /\ side < b => scaled <= a
    /\ side >= b => scaled >= a

\* Rounding keeps the proportion as well as whole numbers can.
LEMMA ScaledSide ==
    ASSUME NEW a \in Nat \ {0}, NEW b \in Nat \ {0}, NEW side \in Int
    PROVE  InProportion(a, b, side, Scaled(a, side, b))
<1> DEFINE scaled == Scaled(a, side, b)
<1>1. PICK n \in Int : n = a * side
  OBVIOUS
<1>2. PICK q \in Int : q = RoundedQuotient(n, b)
  BY RoundedIsNear
<1>3. /\ 2 * (n - b * q) <= b /\ 2 * (b * q - n) <= b
      /\ n < b * a => q <= a
      /\ n >= b * a => q >= a
  <2>1. a \in Int
    OBVIOUS
  <2>2. /\ 2 * (n - b * RoundedQuotient(n, b)) <= b
        /\ 2 * (b * RoundedQuotient(n, b) - n) <= b
        /\ n < b * a => RoundedQuotient(n, b) <= a
        /\ n >= b * a => RoundedQuotient(n, b) >= a
    BY <2>1, RoundedIsNear, Zenon
  <2> QED
    BY <1>2, <2>2, Zenon
<1>4. (side < b => n < b * a) /\ (side >= b => n >= b * a)
  <2>1. a \in Int /\ b \in Int /\ a > 0
    OBVIOUS
  <2>2. side < b => a * side < a * b
    BY <2>1, Z3
  <2>3. side >= b => a * side >= a * b
    BY <2>1, Z3
  <2>4. a * b = b * a
    BY <2>1
  <2> QED
    BY <1>1, <2>2, <2>3, <2>4
<1>5. scaled = IF q < 1 THEN 1 ELSE q
  BY <1>1, <1>2 DEF AtLeastOne, Scaled
<1>6. scaled \in Nat \ {0} /\ (scaled = 1 \/ scaled = q)
  BY <1>5
<1>7. (side < b => scaled <= a) /\ (side >= b => scaled >= a)
  BY <1>3, <1>4, <1>5
<1> HIDE DEF scaled
<1>8. InProportion(a, b, side, scaled)
  BY <1>1, <1>3, <1>6, <1>7 DEF InProportion
<1> QED
  BY <1>8 DEF scaled

(***************************************************************************)
(* A resize with one side given either leaves the image or gives it that   *)
(* side and the scaled one.                                                *)
(***************************************************************************)
LEMMA OneSideResize ==
    ASSUME ImageTyped, Resize, OneSide(ops[next]), stage' # "failed"
    PROVE  LET o == ops[next] IN
           \/ img' = img
           \/ /\ o.width # 0 /\ o.height = 0
              /\ ~(~o.allow_upscale /\ img'.w >= img.w /\ img'.h >= img.h)
              /\ img'.w = o.width
              /\ img'.h = Scaled(img.h, o.width, img.w)
           \/ /\ o.height # 0 /\ o.width = 0
              /\ ~(~o.allow_upscale /\ img'.w >= img.w /\ img'.h >= img.h)
              /\ img'.h = o.height
              /\ img'.w = Scaled(img.w, o.height, img.h)
<1> DEFINE o == ops[next]
           size == ResizedSize(o)
           h == Scaled(img.h, o.width, img.w)
           w == Scaled(img.w, o.height, img.h)
<1>1. ~Fail
  BY DEF Fail
<1>2. \/ img' = img
      \/ ~Upscales(o) /\ img' = [img EXCEPT !.w = size[1], !.h = size[2]]
  BY <1>1, Zenon DEF Resize, Continue
<1>3. \/ o.width # 0 /\ o.height = 0 /\ size = <<o.width, h>>
      \/ o.height # 0 /\ o.width = 0 /\ size = <<w, o.height>>
  BY DEF OneSide, ResizedSize, Scaled
<1>4. ~Upscales(o) <=> ~(~o.allow_upscale /\ size[1] >= img.w /\ size[2] >= img.h)
  BY DEF Upscales
<1> HIDE DEF o, size, h, w
<1>5. img' = [img EXCEPT !.w = size[1], !.h = size[2]] => img'.w = size[1] /\ img'.h = size[2]
  BY DEF ImageTyped, Picture
<1>6. \/ img' = img
      \/ /\ o.width # 0 /\ o.height = 0
         /\ ~(~o.allow_upscale /\ img'.w >= img.w /\ img'.h >= img.h)
         /\ img'.w = o.width /\ img'.h = h
      \/ /\ o.height # 0 /\ o.width = 0
         /\ ~(~o.allow_upscale /\ img'.w >= img.w /\ img'.h >= img.h)
         /\ img'.h = o.height /\ img'.w = w
  BY <1>2, <1>3, <1>4, <1>5
<1> QED
  BY <1>6, Zenon DEF o, h, w

(***************************************************************************)
(* Neither side of an image is enlarged that was to be resized by one side *)
(* and not enlarged.                                                       *)
(***************************************************************************)
THEOREM OneSideNeverEnlarges == TransformsSpec => OneSideNeverUpscales
<1>1. ASSUME ImageInv, Resize, OneSide(ops[next]), ~ops[next].allow_upscale
      PROVE  img'.w <= img.w /\ img'.h <= img.h
  <2> DEFINE o == ops[next]
  <2>1. img.w \in Nat \ {0} /\ img.h \in Nat \ {0} /\ ImageTyped
    BY <1>1 DEF ImageInv, ImageTyped, Picture
  <2>2. o.width \in Int /\ o.height \in Int
    BY <1>1, <2>1, OperandTyped, ImageOperations DEF Resize, Operand
  <2>3. CASE img' = img
    BY <2>1, <2>3
  <2>4. CASE img' # img
    <3>1. stage' # "failed"
      BY <1>1, <2>4 DEF Resize, Fail, Continue, Operand
    <3>2. \/ /\ ~(img'.w >= img.w /\ img'.h >= img.h)
             /\ img'.w = o.width
             /\ img'.h = Scaled(img.h, o.width, img.w)
          \/ /\ ~(img'.w >= img.w /\ img'.h >= img.h)
             /\ img'.h = o.height
             /\ img'.w = Scaled(img.w, o.height, img.h)
      BY <1>1, <2>1, <2>4, <3>1, OneSideResize
    <3> HIDE DEF o
    <3>3. CASE /\ img'.w = o.width
               /\ img'.h = Scaled(img.h, o.width, img.w)
      <4>1. /\ img'.h \in Nat \ {0}
            /\ o.width < img.w => img'.h <= img.h
            /\ o.width >= img.w => img'.h >= img.h
        <5>1. InProportion(img.h, img.w, o.width, img'.h)
          BY <2>1, <2>2, <3>3, ScaledSide
        <5> QED
          BY <5>1 DEF InProportion
      <4> QED
        BY <2>1, <2>2, <3>2, <3>3, <4>1
    <3>4. CASE /\ img'.h = o.height
               /\ img'.w = Scaled(img.w, o.height, img.h)
      <4>1. /\ img'.w \in Nat \ {0}
            /\ o.height < img.h => img'.w <= img.w
            /\ o.height >= img.h => img'.w >= img.w
        <5>1. InProportion(img.w, img.h, o.height, img'.w)
          BY <2>1, <2>2, <3>4, ScaledSide
        <5> QED
          BY <5>1 DEF InProportion
      <4> QED
        BY <2>1, <2>2, <3>2, <3>4, <4>1
    <3> QED
      BY <3>2, <3>3, <3>4
  <2> QED
    BY <2>3, <2>4
<1>2. ImageInv /\ [TransformsNext]_transformsVars =>
        [Resize /\ OneSide(ops[next]) /\ ~ops[next].allow_upscale =>
           img'.w <= img.w /\ img'.h <= img.h]_imageVars
  BY <1>1
<1> QED
  BY <1>2, ImageInvariant, PTL DEF TransformsSpec, OneSideNeverUpscales

(***************************************************************************)
(* Of an image resized by one side, the other one is as near to the old    *)
(* ratio as a whole number can be, or 1 where that would be nothing.       *)
(***************************************************************************)
THEOREM OneSideIsProportional == TransformsSpec => OneSideKeepsAspect
<1> DEFINE skew == Distance(img'.w * img.h, img.w * img'.h)
           Near == IF ops[next].width # 0
                   THEN 2 * skew <= img.w \/ img'.h = 1
                   ELSE 2 * skew <= img.h \/ img'.w = 1
<1>1. ASSUME ImageInv, Resize, OneSide(ops[next]), stage' # "failed"
      PROVE  Near
  <2> DEFINE o == ops[next]
  <2>1. img.w \in Nat \ {0} /\ img.h \in Nat \ {0} /\ ImageTyped
    BY <1>1 DEF ImageInv, ImageTyped, Picture
  <2>2. o.width \in Int /\ o.height \in Int
    BY <1>1, <2>1, OperandTyped, ImageOperations DEF Resize, Operand
  <2>3. CASE img' = img
    <3>1. skew = 0
      BY <2>1, <2>3 DEF Distance
    <3> QED
      BY <2>1, <3>1
  <2>4. CASE /\ o.width # 0 /\ img'.w = o.width
             /\ img'.h = Scaled(img.h, o.width, img.w)
    <3>1. /\ img'.h \in Nat \ {0}
          /\ \/ img'.h = 1
             \/ /\ 2 * (img.h * o.width - img.w * img'.h) <= img.w
                /\ 2 * (img.w * img'.h - img.h * o.width) <= img.w
      <4>1. InProportion(img.h, img.w, o.width, img'.h)
        BY <2>1, <2>2, <2>4, ScaledSide
      <4> QED
        BY <4>1 DEF InProportion
    <3>2. img.h * o.width = img'.w * img.h
      BY <2>1, <2>2, <2>4
    <3>3. img'.h = 1 \/ 2 * skew <= img.w
      <4>1. PICK x \in Int : x = img.h * o.width /\ x = img'.w * img.h
        BY <2>1, <2>2, <3>2
      <4>2. PICK y \in Int : y = img.w * img'.h
        BY <2>1, <3>1
      <4>3. skew = IF x < y THEN y - x ELSE x - y
        BY <4>1, <4>2 DEF Distance
      <4>4. \/ img'.h = 1
            \/ 2 * (x - y) <= img.w /\ 2 * (y - x) <= img.w
        BY <2>1, <2>2, <3>1, <4>1, <4>2
      <4> HIDE DEF skew
      <4> QED
        BY <4>3, <4>4
    <3> QED
      BY <2>4, <3>3
  <2>5. CASE /\ o.height # 0 /\ o.width = 0 /\ img'.h = o.height
             /\ img'.w = Scaled(img.w, o.height, img.h)
    <3>1. /\ img'.w \in Nat \ {0}
          /\ \/ img'.w = 1
             \/ /\ 2 * (img.w * o.height - img.h * img'.w) <= img.h
                /\ 2 * (img.h * img'.w - img.w * o.height) <= img.h
      <4>1. InProportion(img.w, img.h, o.height, img'.w)
        BY <2>1, <2>2, <2>5, ScaledSide
      <4> QED
        BY <4>1 DEF InProportion
    <3>2. img.h * img'.w = img'.w * img.h /\ img.w * img'.h = img.w * o.height
      BY <2>1, <2>5, <3>1
    <3>3. img'.w = 1 \/ 2 * skew <= img.h
      <4>1. PICK x \in Int : x = img.h * img'.w /\ x = img'.w * img.h
        BY <2>1, <3>1, <3>2
      <4>2. PICK y \in Int : y = img.w * o.height /\ y = img.w * img'.h
        BY <2>1, <2>2, <3>2
      <4>3. skew = IF x < y THEN y - x ELSE x - y
        BY <4>1, <4>2 DEF Distance
      <4>4. \/ img'.w = 1
            \/ 2 * (x - y) <= img.h /\ 2 * (y - x) <= img.h
        BY <2>1, <2>2, <3>1, <4>1, <4>2
      <4> HIDE DEF skew
      <4> QED
        BY <4>3, <4>4
    <3> QED
      BY <2>5, <3>3
  <2> QED
    BY <1>1, <2>1, <2>3, <2>4, <2>5, OneSideResize
<1>2. ImageInv /\ [TransformsNext]_transformsVars =>
        [Resize /\ OneSide(ops[next]) /\ stage' # "failed" => Near]_imageVars
  BY <1>1
<1> QED
  BY <1>2, ImageInvariant, PTL DEF TransformsSpec, OneSideKeepsAspect

-----------------------------------------------------------------------------
(***************************************************************************)
(* The video processor.  What holds between two steps: the plan is what    *)
(* the operations read so far ask for, and the pictures taken and still to *)
(* be taken are those of the thumbnail operations read so far, in order.   *)
(***************************************************************************)
Shot == [at : Int, size : Int \X Int]

Plan == [scale : Int \X Int, reencode : BOOLEAN, format : Containers,
         crf : Int \union {NoCrf}]

VideoTyped ==
    /\ duration \in Int
    /\ videoOps \in Seq(VideoOperation)
    /\ position \in 1..(Len(videoOps) + 1)
    /\ plan \in Plan
    /\ specs \in Seq(Shot)
    /\ thumbs \in Seq(Shot)

ValidVideoOperation(o) ==
    /\ o.op # "watermark"
    /\ o.op = "resize" => o.size # SourceSize
    /\ o.op = "transcode" => o.format \in Containers
    /\ o.op \in {"compress", "transcode"} => o.crf \in CrfRange \union {NoCrf}

ReadAreValid ==
    \A i \in DOMAIN videoOps : i < position => ValidVideoOperation(videoOps[i])

\* Those of the operations read so far that have one of the names.
Read(names) == {i \in Asking(names) : i < position}

Rated == {i \in Read({"compress", "transcode"}) : videoOps[i].crf # NoCrf}

PlannedAsRead ==
    /\ \A i \in Newest(Read({"transcode"})) : plan.format = videoOps[i].format
    /\ Read({"transcode"}) = {} => plan.format = "mp4"
    /\ \A i \in Newest(Read({"resize"})) : plan.scale = videoOps[i].size
    /\ plan.scale = SourceSize <=> Read({"resize"}) = {}
    /\ \A i \in Newest(Rated) : plan.crf = videoOps[i].crf
    /\ Rated = {} => plan.crf = NoCrf
    /\ ~plan.reencode <=> Read({"compress", "transcode"}) = {}

EncodedAsPlanned ==
    encoded # NoFile \/ videoStage \in {"encoded", "done"} =>
        /\ position = Len(videoOps) + 1
        /\ encoded = [codec |-> IF plan.reencode \/ plan.scale # SourceSize
                                THEN Codec(plan.format) ELSE "copy",
                      format |-> plan.format, scale |-> plan.scale, crf |-> plan.crf]

PicturesAsRead ==
    /\ Len(thumbs) + Len(specs) = ThumbnailsIn(position - 1)
    /\ \A i \in Read({"thumbnail"}) :
         LET k == ThumbnailsIn(i)
             o == videoOps[i]
         IN  IF k <= Len(thumbs)
             THEN thumbs[k] = [at |-> Seek(o.at), size |-> o.size] /\ Seek(o.at) < duration
             ELSE specs[k - Len(thumbs)] = [at |-> o.at, size |-> o.size]

DoneIsAll == videoStage = "done" => specs = <<>>

VideoInv ==
    /\ VideoTyped /\ ReadAreValid /\ PlannedAsRead
    /\ EncodedAsPlanned /\ PicturesAsRead /\ DoneIsAll

(***************************************************************************)
(* What the schemas let through: the operations a video job can hold.      *)
(***************************************************************************)
LEMMA VideoOperations ==
    ASSUME NEW o \in VideoOperation
    PROVE  /\ o.op \in {"resize", "thumbnail", "compress", "transcode", "watermark"}
           /\ o.op \in {"resize", "thumbnail"} => o.size \in Int \X Int
           /\ o.op = "thumbnail" => o.at \in Int
           /\ o.op \in {"compress", "transcode"} => o.crf \in Int \union {NoCrf}
<1>1. VideoSides \subseteq Int /\ Crfs \subseteq Int /\ Instants \subseteq Int
  BY VideoAssumption
<1>2. Size \subseteq Int \X Int
  BY <1>1 DEF Size
<1>3. CASE o \in [op : {"resize"}, size : Size]
  BY <1>2, <1>3
<1>4. CASE o \in [op : {"compress"}, crf : Crfs \union {NoCrf}]
  BY <1>1, <1>4
<1>5. CASE o \in [op : {"transcode"}, format : VideoFormats, crf : Crfs \union {NoCrf}]
  BY <1>1, <1>5
<1>6. CASE o \in [op : {"thumbnail"}, at : Instants, size : Size]
  BY <1>1, <1>2, <1>6
<1>7. CASE o = [op |-> "watermark"]
  BY <1>7
<1> QED
  BY <1>3, <1>4, <1>5, <1>6, <1>7 DEF VideoOperation

(***************************************************************************)
(* An operation that stands behind all others is the newest.               *)
(***************************************************************************)
LEMMA NewestIsAdded ==
    ASSUME NEW S \in SUBSET Int, NEW p \in Int, \A i \in S : i < p
    PROVE  Newest(S \union {p}) = {p}
<1>1. \A i \in S : ~(p <= i)
  OBVIOUS
<1>2. \A k \in S \union {p} : k <= p
  OBVIOUS
<1> QED
  BY <1>1, <1>2 DEF Newest

(***************************************************************************)
(* Reading one more operation adds its index where its name is asked for.  *)
(***************************************************************************)
LEMMA ReadGrows ==
    ASSUME VideoTyped, position \in DOMAIN videoOps, position' = position + 1,
           videoOps' = videoOps, NEW names
    PROVE  Read(names)' = IF videoOps[position].op \in names
                          THEN Read(names) \union {position} ELSE Read(names)
<1>1. \A i \in DOMAIN videoOps : i < position + 1 <=> i < position \/ i = position
  BY DEF VideoTyped
<1> QED
  BY <1>1 DEF Read, Asking

\* What has been read stands before the position.
LEMMA ReadIsBefore ==
    ASSUME VideoTyped, NEW names
    PROVE  /\ Read(names) \in SUBSET Int
           /\ \A i \in Read(names) : i < position
  BY DEF Read, Asking, VideoTyped

(***************************************************************************)
(* Counting the thumbnails asked for.                                      *)
(***************************************************************************)
LEMMA ThumbnailsCounted ==
    ASSUME NEW n \in Nat
    PROVE  /\ ThumbnailsIn(0) = 0
           /\ ThumbnailsIn(n) \in Nat
           /\ ThumbnailsIn(n + 1) = ThumbnailsIn(n)
                + (IF videoOps[n + 1].op = "thumbnail" THEN 1 ELSE 0)
<1> DEFINE T(m) == {i \in 1..m : videoOps[i].op = "thumbnail"}
<1>1. IsFiniteSet(T(n))
  <2>1. T(n) \in SUBSET (1..n)
    OBVIOUS
  <2>2. IsFiniteSet(1..n)
    BY 1 \in Int, n \in Int, FS_Interval, Zenon
  <2> QED
    BY <2>1, <2>2, FS_Subset, Zenon
<1>2. T(0) = {}
  OBVIOUS
<1>3. T(n + 1) = IF videoOps[n + 1].op = "thumbnail" THEN T(n) \union {n + 1} ELSE T(n)
  OBVIOUS
<1>4. n + 1 \notin T(n)
  OBVIOUS
<1> HIDE DEF T
<1>5. Cardinality(T(n)) \in Nat
  BY <1>1, FS_CardinalityType
<1>6. Cardinality(T(n) \union {n + 1}) = Cardinality(T(n)) + 1
  BY <1>1, <1>4, FS_AddElement
<1>7. Cardinality(T(0)) = 0
  BY <1>2, FS_EmptySet
<1>8. Cardinality(T(n + 1)) = Cardinality(T(n))
        + (IF videoOps[n + 1].op = "thumbnail" THEN 1 ELSE 0)
  BY <1>3, <1>5, <1>6
<1>9. \A m : ThumbnailsIn(m) = Cardinality(T(m))
  BY DEF ThumbnailsIn, T
<1> QED
  BY <1>5, <1>7, <1>8, <1>9

\* Of more operations no fewer are thumbnails.
LEMMA ThumbnailsMonotone ==
    ASSUME NEW n \in Nat, NEW m \in Nat, m <= n
    PROVE  ThumbnailsIn(m) <= ThumbnailsIn(n)
<1> DEFINE S == {i \in 1..m : videoOps[i].op = "thumbnail"}
           T == {i \in 1..n : videoOps[i].op = "thumbnail"}
<1>1. IsFiniteSet(T)
  <2>1. T \in SUBSET (1..n)
    OBVIOUS
  <2>2. IsFiniteSet(1..n)
    BY 1 \in Int, n \in Int, FS_Interval, Zenon
  <2> QED
    BY <2>1, <2>2, FS_Subset, Zenon
<1>2. S \subseteq T
  OBVIOUS
<1> QED
  BY <1>1, <1>2, FS_Subset, Zenon DEF ThumbnailsIn

(***************************************************************************)
(* The number of a thumbnail among the first n operations.                 *)
(***************************************************************************)
LEMMA ThumbnailNumber ==
    ASSUME VideoTyped, NEW n \in Nat, NEW i \in Asking({"thumbnail"}), i <= n
    PROVE  ThumbnailsIn(i) \in 1..ThumbnailsIn(n)
<1>1. i \in Nat /\ i - 1 \in Nat /\ videoOps[i].op = "thumbnail"
  BY DEF Asking, VideoTyped
<1>2. ThumbnailsIn((i - 1) + 1) = ThumbnailsIn(i - 1) + 1 /\ ThumbnailsIn(i - 1) \in Nat
  <2>1. (i - 1) + 1 = i
    BY <1>1
  <2> QED
    BY <1>1, <2>1, ThumbnailsCounted
<1>3. ThumbnailsIn(i) <= ThumbnailsIn(n) /\ ThumbnailsIn(n) \in Nat /\ ThumbnailsIn(i) \in Nat
  BY <1>1, ThumbnailsMonotone, ThumbnailsCounted
<1>4. (i - 1) + 1 = i
  BY <1>1
<1> QED
  BY <1>2, <1>3, <1>4

-----------------------------------------------------------------------------
(***************************************************************************)
(* The steps of the video processor.                                       *)
(***************************************************************************)

\* What is counted and read depends on the operations and the position only.
LEMMA ReadingUnchanged ==
    ASSUME videoOps' = videoOps
    PROVE  /\ \A n : ThumbnailsIn(n)' = ThumbnailsIn(n)
           /\ \A names : Asking(names)' = Asking(names)
           /\ position' = position => \A names : Read(names)' = Read(names)
           /\ position' = position => Rated' = Rated
  BY DEF ThumbnailsIn, Asking, Read, Rated

\* A step that changes the stage alone.
LEMMA StageKeeps ==
    ASSUME VideoInv,
           UNCHANGED <<duration, videoOps, position, plan, specs, encoded, thumbs>>,
           videoStage' \in {"encoded", "done"} => videoStage \in {"encoded", "done"},
           videoStage' = "done" => specs = <<>>
    PROVE  VideoInv'
<1>1. VideoTyped'
  BY DEF VideoInv, VideoTyped
<1>2. ReadAreValid' /\ EncodedAsPlanned' /\ DoneIsAll'
  BY DEF VideoInv, ReadAreValid, ValidVideoOperation, EncodedAsPlanned, DoneIsAll
<1>3. PlannedAsRead'
  BY ReadingUnchanged DEF VideoInv, PlannedAsRead
<1>4. PicturesAsRead'
  BY ReadingUnchanged DEF VideoInv, PicturesAsRead
<1> QED
  BY <1>1, <1>2, <1>3, <1>4 DEF VideoInv

\* A valid operation that is read, as far as the types and the order go.
LEMMA FoldKeeps ==
    ASSUME VideoInv, videoStage = "folding", position <= Len(videoOps),
           NEW p \in Plan, NEW s \in Seq(Shot), Fold(p, s),
           ValidVideoOperation(videoOps[position]),
           PlannedAsRead', PicturesAsRead'
    PROVE  VideoInv'
<1> USE DEF VideoInv, Fold
<1>1. VideoTyped'
  BY DEF VideoTyped
<1>2. ReadAreValid'
  <2>1. \A i \in DOMAIN videoOps : i < position' => i < position \/ i = position
    BY DEF VideoTyped
  <2> QED
    BY <2>1 DEF ReadAreValid, ValidVideoOperation
<1>3. position # Len(videoOps) + 1
  BY DEF VideoTyped
<1>4. EncodedAsPlanned' /\ DoneIsAll'
  BY <1>3 DEF EncodedAsPlanned, DoneIsAll
<1> QED
  BY <1>1, <1>2, <1>4

\* What one more valid operation makes of the plan.
LEMMA PlanGrows ==
    ASSUME VideoInv, position <= Len(videoOps), NEW p \in Plan, NEW s, Fold(p, s),
           NEW o, o = videoOps[position], ValidVideoOperation(o),
           p.format = (IF o.op = "transcode" THEN o.format ELSE plan.format),
           p.scale = (IF o.op = "resize" THEN o.size ELSE plan.scale),
           p.crf = (IF o.op \in {"compress", "transcode"} THEN LaterCrf(o) ELSE plan.crf),
           p.reencode = (IF o.op \in {"compress", "transcode"} THEN TRUE ELSE plan.reencode)
    PROVE  PlannedAsRead'
<1>1. /\ VideoTyped /\ PlannedAsRead /\ position \in DOMAIN videoOps /\ position \in Int
      /\ position' = position + 1 /\ videoOps' = videoOps /\ plan' = p
  BY DEF VideoInv, VideoTyped, Fold
<1>2. \A names : Read(names)' = IF o.op \in names THEN Read(names) \union {position}
                                ELSE Read(names)
  BY <1>1, ReadGrows
<1>3. \A names : Newest(Read(names) \union {position}) = {position}
  BY <1>1, ReadIsBefore, NewestIsAdded
<1>4. /\ \A i \in Newest(Read({"transcode"})') : p.format = videoOps[i].format
      /\ Read({"transcode"})' = {} => p.format = "mp4"
  <2> DEFINE S == Read({"transcode"})
  <2>1. S' = IF o.op = "transcode" THEN S \union {position} ELSE S
    BY <1>2
  <2>2. Newest(S \union {position}) = {position}
    BY <1>3
  <2>3. (\A i \in Newest(S) : plan.format = videoOps[i].format) /\ (S = {} => plan.format = "mp4")
    BY <1>1 DEF PlannedAsRead
  <2> HIDE DEF S
  <2> QED
    BY <2>1, <2>2, <2>3 DEF S
<1>5. /\ \A i \in Newest(Read({"resize"})') : p.scale = videoOps[i].size
      /\ p.scale = SourceSize <=> Read({"resize"})' = {}
  <2> DEFINE S == Read({"resize"})
  <2>1. S' = IF o.op = "resize" THEN S \union {position} ELSE S
    BY <1>2
  <2>2. Newest(S \union {position}) = {position}
    BY <1>3
  <2>3. (\A i \in Newest(S) : plan.scale = videoOps[i].size) /\ (plan.scale = SourceSize <=> S = {})
    BY <1>1 DEF PlannedAsRead
  <2>4. o.op = "resize" => p.scale # SourceSize
    BY DEF ValidVideoOperation
  <2> HIDE DEF S
  <2> QED
    BY <2>1, <2>2, <2>3, <2>4 DEF S
<1>6. ~p.reencode <=> Read({"compress", "transcode"})' = {}
  <2> DEFINE S == Read({"compress", "transcode"})
  <2>1. S' = IF o.op \in {"compress", "transcode"} THEN S \union {position} ELSE S
    BY <1>2
  <2>2. ~plan.reencode <=> S = {}
    BY <1>1 DEF PlannedAsRead
  <2> HIDE DEF S
  <2> QED
    BY <2>1, <2>2 DEF S
<1>7. /\ \A i \in Newest(Rated') : p.crf = videoOps[i].crf
      /\ Rated' = {} => p.crf = NoCrf
  <2> DEFINE rates == o.op \in {"compress", "transcode"} /\ o.crf # NoCrf
  <2>1. Rated' = IF rates THEN Rated \union {position} ELSE Rated
    BY <1>1, <1>2 DEF Rated
  <2>2. Newest(Rated \union {position}) = {position}
    <3>1. Rated \in SUBSET Int /\ \A i \in Rated : i < position
      BY <1>1, ReadIsBefore DEF Rated
    <3> QED
      BY <1>1, <3>1, NewestIsAdded
  <2>3. (\A i \in Newest(Rated) : plan.crf = videoOps[i].crf) /\ (Rated = {} => plan.crf = NoCrf)
    BY <1>1 DEF PlannedAsRead
  <2>4. p.crf = IF rates THEN o.crf ELSE plan.crf
    BY DEF LaterCrf
  <2> HIDE DEF rates
  <2> QED
    BY <2>1, <2>2, <2>3, <2>4
<1> QED
  BY <1>1, <1>4, <1>5, <1>6, <1>7 DEF PlannedAsRead

\* An operation that asks for no thumbnail leaves the pictures.
LEMMA PicturesStay ==
    ASSUME VideoInv, position <= Len(videoOps), NEW p, Fold(p, specs),
           videoOps[position].op # "thumbnail"
    PROVE  PicturesAsRead'
<1>1. /\ VideoTyped /\ PicturesAsRead /\ position \in DOMAIN videoOps
      /\ position - 1 \in Nat /\ (position - 1) + 1 = position
      /\ position' = position + 1 /\ position' - 1 = position
      /\ UNCHANGED <<videoOps, specs, thumbs, duration>>
  BY DEF VideoInv, VideoTyped, Fold
<1>2. ThumbnailsIn(position) = ThumbnailsIn(position - 1)
  <2>1. /\ ThumbnailsIn(position - 1) \in Nat
        /\ ThumbnailsIn(position) = ThumbnailsIn(position - 1)
             + (IF videoOps[position].op = "thumbnail" THEN 1 ELSE 0)
    BY <1>1, ThumbnailsCounted, Zenon
  <2> QED
    BY <2>1
<1>3. Read({"thumbnail"})' = Read({"thumbnail"})
  BY <1>1, ReadGrows
<1> QED
  BY <1>1, <1>2, <1>3, ReadingUnchanged DEF PicturesAsRead

\* One that asks for a thumbnail adds the last picture to be taken.
LEMMA PicturesGrow ==
    ASSUME VideoInv, position <= Len(videoOps), NEW p,
           NEW o, o = videoOps[position], o.op = "thumbnail",
           Fold(p, Append(specs, [at |-> o.at, size |-> o.size]))
    PROVE  PicturesAsRead'
<1>1. /\ VideoTyped /\ PicturesAsRead /\ position \in DOMAIN videoOps
      /\ position - 1 \in Nat /\ (position - 1) + 1 = position
      /\ position' = position + 1 /\ position' - 1 = position
      /\ UNCHANGED <<videoOps, thumbs, duration>>
      /\ specs' = Append(specs, [at |-> o.at, size |-> o.size])
  BY DEF VideoInv, VideoTyped, Fold
<1>2. /\ ThumbnailsIn(position) = ThumbnailsIn(position - 1) + 1
      /\ ThumbnailsIn(position - 1) \in Nat
  BY <1>1, ThumbnailsCounted
<1>3. Read({"thumbnail"})' = Read({"thumbnail"}) \union {position}
  BY <1>1, ReadGrows
<1>4. Len(thumbs) \in Nat /\ Len(specs) \in Nat /\ Len(specs') = Len(specs) + 1
  BY <1>1 DEF VideoTyped
<1>5. Len(thumbs) + Len(specs) = ThumbnailsIn(position - 1)
  BY <1>1 DEF PicturesAsRead
<1>6. \A n : ThumbnailsIn(n)' = ThumbnailsIn(n)
  BY <1>1, ReadingUnchanged
<1>7. Len(thumbs)' + Len(specs)' = ThumbnailsIn(position)
  BY <1>1, <1>2, <1>4, <1>5
<1>8. ASSUME NEW i \in Read({"thumbnail"})
      PROVE  LET k == ThumbnailsIn(i)
                 a == videoOps[i]
             IN  IF k <= Len(thumbs)
                 THEN thumbs[k] = [at |-> Seek(a.at), size |-> a.size] /\ Seek(a.at) < duration
                 ELSE specs'[k - Len(thumbs)] = [at |-> a.at, size |-> a.size]
  <2> DEFINE k == ThumbnailsIn(i)
  <2>1. i \in Asking({"thumbnail"}) /\ i <= position - 1
    BY <1>1 DEF Read, Asking, VideoTyped
  <2>2. k \in 1..ThumbnailsIn(position - 1)
    BY <1>1, <2>1, ThumbnailNumber
  <2>3. k > Len(thumbs) => k - Len(thumbs) \in 1..Len(specs)
    BY <1>2, <1>4, <1>5, <2>2
  <2>4. k > Len(thumbs) => specs'[k - Len(thumbs)] = specs[k - Len(thumbs)]
    BY <1>1, <1>4, <2>2, <2>3 DEF VideoTyped
  <2> QED
    BY <1>1, <1>2, <1>4, <2>2, <2>4 DEF PicturesAsRead
<1>9. /\ ~(ThumbnailsIn(position) <= Len(thumbs))
      /\ specs'[ThumbnailsIn(position) - Len(thumbs)] = [at |-> o.at, size |-> o.size]
  <2>1. ThumbnailsIn(position) - Len(thumbs) = Len(specs) + 1
    BY <1>2, <1>4, <1>5
  <2>2. specs'[Len(specs) + 1] = [at |-> o.at, size |-> o.size]
    BY <1>1 DEF VideoTyped
  <2> QED
    BY <1>2, <1>4, <1>5, <2>1, <2>2
<1> QED
  BY <1>1, <1>3, <1>6, <1>7, <1>8, <1>9 DEF PicturesAsRead

\* A thumbnail that is taken moves from those to be taken to those taken.
LEMMA ExtractKeeps ==
    ASSUME VideoInv, Extract, ~FailVideo
    PROVE  VideoInv'
<1> DEFINE shot == Head(specs)
           taken == [shot EXCEPT !.at = Seek(shot.at)]
<1>1. /\ VideoTyped /\ PicturesAsRead /\ EncodedAsPlanned
      /\ videoStage = "encoded" /\ specs # <<>>
      /\ Seek(shot.at) < duration
      /\ thumbs' = Append(thumbs, taken) /\ specs' = Tail(specs)
      /\ UNCHANGED <<duration, videoOps, position, plan, encoded, videoStage>>
  BY Zenon DEF VideoInv, Extract
<1>2. shot \in Shot /\ shot = specs[1] /\ Len(specs) \in Nat /\ Len(specs) > 0
  BY <1>1 DEF VideoTyped
<1>3. taken = [at |-> Seek(shot.at), size |-> shot.size] /\ taken \in Shot
  BY <1>2 DEF Shot, Seek
<1> HIDE DEF shot, taken
<1>4. /\ thumbs' \in Seq(Shot) /\ Len(thumbs') = Len(thumbs) + 1 /\ Len(thumbs) \in Nat
      /\ thumbs'[Len(thumbs) + 1] = taken
      /\ \A k \in 1..Len(thumbs) : thumbs'[k] = thumbs[k]
  BY <1>1, <1>3 DEF VideoTyped
<1>5. /\ specs' \in Seq(Shot) /\ Len(specs') = Len(specs) - 1
      /\ \A k \in 1..(Len(specs) - 1) : specs'[k] = specs[k + 1]
  BY <1>1, <1>2 DEF VideoTyped
<1>6. VideoTyped'
  BY <1>1, <1>4, <1>5 DEF VideoTyped
<1>7. ReadAreValid' /\ EncodedAsPlanned' /\ DoneIsAll'
  BY <1>1 DEF VideoInv, ReadAreValid, ValidVideoOperation, EncodedAsPlanned, DoneIsAll
<1>8. PlannedAsRead'
  BY <1>1, ReadingUnchanged DEF VideoInv, PlannedAsRead
<1>9. Len(thumbs) + Len(specs) = ThumbnailsIn(position - 1)
  BY <1>1 DEF PicturesAsRead
<1>10. Len(thumbs') + Len(specs') = ThumbnailsIn(position - 1)
  BY <1>2, <1>4, <1>5, <1>9
<1>11. ASSUME NEW i \in Read({"thumbnail"}), NEW a, a = videoOps[i],
              NEW k, k = ThumbnailsIn(i)
       PROVE  IF k <= Len(thumbs')
              THEN thumbs'[k] = [at |-> Seek(a.at), size |-> a.size] /\ Seek(a.at) < duration
              ELSE specs'[k - Len(thumbs')] = [at |-> a.at, size |-> a.size]
  <2>1. i \in Asking({"thumbnail"}) /\ i <= position - 1 /\ position - 1 \in Nat
    BY <1>1 DEF Read, Asking, VideoTyped
  <2>2. k \in 1..(Len(thumbs) + Len(specs))
    BY <1>1, <1>9, <1>11, <2>1, ThumbnailNumber
  <2>3. IF k <= Len(thumbs)
        THEN thumbs[k] = [at |-> Seek(a.at), size |-> a.size] /\ Seek(a.at) < duration
        ELSE specs[k - Len(thumbs)] = [at |-> a.at, size |-> a.size]
    BY <1>1, <1>11 DEF PicturesAsRead
  <2>4. CASE k <= Len(thumbs)
    BY <1>4, <2>2, <2>3, <2>4
  <2>5. CASE k = Len(thumbs) + 1
    <3>1. k - Len(thumbs) = 1 /\ ~(k <= Len(thumbs)) /\ k <= Len(thumbs')
      BY <1>4, <2>5
    <3>2. shot = [at |-> a.at, size |-> a.size]
      BY <1>2, <2>3, <3>1
    <3>3. taken = [at |-> Seek(a.at), size |-> a.size] /\ Seek(a.at) < duration
      BY <1>1, <1>3, <3>2 DEF shot
    <3> QED
      BY <1>4, <2>5, <3>1, <3>3
  <2>6. CASE k > Len(thumbs) + 1
    <3>1. k - Len(thumbs') \in 1..(Len(specs) - 1) /\ ~(k <= Len(thumbs)) /\ ~(k <= Len(thumbs'))
      BY <1>2, <1>4, <2>2, <2>6
    <3>2. specs'[k - Len(thumbs')] = specs[k - Len(thumbs') + 1]
      BY <1>5, <3>1
    <3>3. k - Len(thumbs') + 1 = k - Len(thumbs)
      BY <1>4, <2>2
    <3> QED
      BY <2>3, <3>1, <3>2, <3>3
  <2> QED
    BY <1>4, <2>2, <2>4, <2>5, <2>6
<1>12. PicturesAsRead'
  <2>1. /\ \A n : ThumbnailsIn(n)' = ThumbnailsIn(n)
        /\ Read({"thumbnail"})' = Read({"thumbnail"})
    BY <1>1, ReadingUnchanged
  <2>2. \A i \in Read({"thumbnail"}) :
          IF ThumbnailsIn(i) <= Len(thumbs')
          THEN /\ thumbs'[ThumbnailsIn(i)] =
                    [at |-> Seek(videoOps[i].at), size |-> videoOps[i].size]
               /\ Seek(videoOps[i].at) < duration
          ELSE specs'[ThumbnailsIn(i) - Len(thumbs')] =
                 [at |-> videoOps[i].at, size |-> videoOps[i].size]
    BY <1>11, Zenon
  <2> QED
    BY <1>1, <1>10, <2>1, <2>2, Zenon DEF PicturesAsRead
<1> QED
  BY <1>6, <1>7, <1>8, <1>12 DEF VideoInv

(***************************************************************************)
(* Every step of process_video keeps the invariant.                        *)
(***************************************************************************)
LEMMA VideoStep ==
    ASSUME VideoInv, VideoNext
    PROVE  VideoInv'
<1>1. CASE FailVideo
  BY <1>1, StageKeeps DEF FailVideo
<1>2. CASE RequireFFmpeg
  BY <1>2, StageKeeps DEF RequireFFmpeg, FailVideo
<1>3. CASE FoldResize /\ ~FailVideo
  <2> DEFINE o == videoOps[position]
             p == [plan EXCEPT !.scale = o.size]
  <2>1. /\ videoStage = "folding" /\ position <= Len(videoOps) /\ o.op = "resize"
        /\ o.size # SourceSize /\ Fold(p, specs)
    BY <1>3, Zenon DEF FoldResize, OperandIn
  <2>2. plan \in Plan /\ specs \in Seq(Shot) /\ o \in VideoOperation
    BY <2>1 DEF VideoInv, VideoTyped
  <2>3. p \in Plan
    BY <2>1, <2>2, VideoOperations DEF Plan
  <2>4. /\ p.format = plan.format /\ p.scale = o.size
        /\ p.crf = plan.crf /\ p.reencode = plan.reencode
    BY <2>2 DEF Plan
  <2>5. ValidVideoOperation(o)
    BY <2>1 DEF ValidVideoOperation
  <2> HIDE DEF o, p
  <2>6. PlannedAsRead'
    BY <2>1, <2>3, <2>4, <2>5, PlanGrows DEF o
  <2>7. PicturesAsRead'
    BY <2>1, PicturesStay DEF o
  <2> QED
    BY <2>1, <2>2, <2>3, <2>5, <2>6, <2>7, FoldKeeps DEF o
<1>4. CASE FoldEncoding /\ ~FailVideo
  <2> DEFINE o == videoOps[position]
             format_ == IF o.op = "transcode" THEN o.format ELSE plan.format
             p == [plan EXCEPT !.reencode = TRUE, !.format = format_, !.crf = LaterCrf(o)]
  <2>1. /\ videoStage = "folding" /\ position <= Len(videoOps)
        /\ o.op \in {"compress", "transcode"}
        /\ format_ \in Containers /\ InCrfRange(o) /\ Fold(p, specs)
    BY <1>4, Zenon DEF FoldEncoding, OperandIn
  <2>2. plan \in Plan /\ specs \in Seq(Shot) /\ o \in VideoOperation
    BY <2>1 DEF VideoInv, VideoTyped
  <2>3. LaterCrf(o) \in Int \union {NoCrf}
    BY <2>1, <2>2, VideoOperations DEF LaterCrf, Plan
  <2>4. ValidVideoOperation(o)
    BY <2>1 DEF ValidVideoOperation, InCrfRange
  <2>5. o.op # "resize" /\ o.op # "thumbnail"
    BY <2>1
  <2>6. format_ = IF o.op = "transcode" THEN o.format ELSE plan.format
    OBVIOUS
  <2> HIDE DEF o, format_
  <2>7. p \in Plan
    BY <2>1, <2>2, <2>3 DEF Plan
  <2>8. /\ p.format = format_ /\ p.scale = plan.scale
        /\ p.crf = LaterCrf(o) /\ p.reencode = TRUE
    BY <2>2 DEF Plan
  <2> HIDE DEF p
  <2>9. PlannedAsRead'
    BY <2>1, <2>4, <2>5, <2>6, <2>7, <2>8, PlanGrows DEF o
  <2>10. PicturesAsRead'
    BY <2>1, <2>5, PicturesStay DEF o
  <2> QED
    BY <2>1, <2>2, <2>4, <2>7, <2>9, <2>10, FoldKeeps DEF o
<1>5. CASE FoldThumbnail
  <2> DEFINE o == videoOps[position]
             s == Append(specs, [at |-> o.at, size |-> o.size])
  <2>1. /\ videoStage = "folding" /\ position <= Len(videoOps) /\ o.op = "thumbnail"
        /\ Fold(plan, s)
    BY <1>5, Zenon DEF FoldThumbnail, OperandIn
  <2>2. plan \in Plan /\ specs \in Seq(Shot) /\ o \in VideoOperation
    BY <2>1 DEF VideoInv, VideoTyped
  <2>3. s \in Seq(Shot)
    BY <2>1, <2>2, VideoOperations DEF Shot
  <2>4. ValidVideoOperation(o)
    BY <2>1 DEF ValidVideoOperation
  <2>5. PicturesAsRead'
    BY <2>1, PicturesGrow
  <2> HIDE DEF o, s
  <2>6. PlannedAsRead'
    BY <2>1, <2>2, <2>4, PlanGrows DEF o
  <2> QED
    BY <2>1, <2>2, <2>3, <2>4, <2>5, <2>6, FoldKeeps DEF o
<1>6. CASE FoldWatermark
  BY <1>1, <1>6 DEF FoldWatermark
<1>7. CASE Encode /\ ~FailVideo
  <2>1. /\ position > Len(videoOps) /\ videoStage' = "encoded"
        /\ encoded' = [codec |-> IF plan.reencode \/ plan.scale # SourceSize
                                 THEN Codec(plan.format) ELSE "copy",
                       format |-> plan.format, scale |-> plan.scale, crf |-> plan.crf]
        /\ UNCHANGED <<duration, videoOps, position, plan, specs, thumbs>>
    BY <1>7, Zenon DEF Encode
  <2>2. VideoTyped'
    BY <2>1 DEF VideoInv, VideoTyped
  <2>3. ReadAreValid' /\ DoneIsAll'
    BY <2>1 DEF VideoInv, ReadAreValid, ValidVideoOperation, DoneIsAll
  <2>4. PlannedAsRead'
    BY <2>1, ReadingUnchanged DEF VideoInv, PlannedAsRead
  <2>5. PicturesAsRead'
    BY <2>1, ReadingUnchanged DEF VideoInv, PicturesAsRead
  <2>6. position = Len(videoOps) + 1
    BY <2>1 DEF VideoInv, VideoTyped
  <2>7. EncodedAsPlanned'
    BY <2>1, <2>6 DEF EncodedAsPlanned
  <2> QED
    BY <2>2, <2>3, <2>4, <2>5, <2>7 DEF VideoInv
<1>8. CASE Extract /\ ~FailVideo
  BY <1>8, ExtractKeeps
<1>9. CASE FinishVideo
  BY <1>9, StageKeeps DEF FinishVideo
<1> QED
  BY <1>1, <1>2, <1>3, <1>4, <1>5, <1>6, <1>7, <1>8, <1>9 DEF VideoNext

(***************************************************************************)
(* What the API admits: a job has a sequence of valid requests.            *)
(***************************************************************************)
LEMMA VideoInitially ==
    ASSUME TransformsInit
    PROVE  VideoInv
<1>1. /\ position = 1 /\ plan = EmptyPlan /\ specs = <<>> /\ encoded = NoFile /\ thumbs = <<>>
      /\ videoStage \in {"new", "unused"}
  BY DEF TransformsInit, VideoInit, NoVideo
<1>2. videoOps \in Seq(VideoOperation)
  <2>1. CASE VideoInit
    <3>1. PICK n \in 0..MaxVideoOps : videoOps \in [1..n -> VideoOperation]
      BY <2>1 DEF VideoInit
    <3>2. n \in Nat
      BY <3>1, VideoAssumption
    <3> QED
      BY <3>1, <3>2, SeqDef
  <2>2. CASE NoVideo
    BY <2>2 DEF NoVideo
  <2> QED
    BY <2>1, <2>2 DEF TransformsInit
<1>3. duration \in Int
  <2>1. duration \in Durations \/ duration = 1
    BY Zenon DEF TransformsInit, VideoInit, NoVideo
  <2>2. \A d \in Durations : d \in Int
    BY VideoAssumption
  <2> QED
    BY <2>1, <2>2
<1>4. plan \in Plan
  BY <1>1 DEF EmptyPlan, Plan, SourceSize, Containers
<1>5. VideoTyped
  BY <1>1, <1>2, <1>3, <1>4 DEF VideoTyped
<1>6. \A names : Read(names) = {}
  BY <1>1, <1>2 DEF Read, Asking
<1>7. ReadAreValid /\ EncodedAsPlanned /\ DoneIsAll
  BY <1>1, <1>2 DEF ReadAreValid, EncodedAsPlanned, DoneIsAll
<1>8. PlannedAsRead
  <2>1. Rated = {} /\ Newest({}) = {}
    BY <1>6 DEF Rated, Newest
  <2> QED
    BY <1>1, <1>6, <2>1 DEF PlannedAsRead, EmptyPlan, SourceSize
<1>9. PicturesAsRead
  <2>1. Len(thumbs) = 0 /\ Len(specs) = 0 /\ position - 1 = 0
    BY <1>1
  <2>2. ThumbnailsIn(0) = 0
    BY ThumbnailsCounted, 0 \in Nat, Zenon
  <2> QED
    BY <1>6, <2>1, <2>2 DEF PicturesAsRead
<1> QED
  BY <1>5, <1>7, <1>8, <1>9 DEF VideoInv

\* No step of the image processor or of the upload disturbs the video.
LEMMA VideoInvariant == TransformsSpec => []VideoInv
<1>1. ASSUME VideoInv, [TransformsNext]_transformsVars
      PROVE  VideoInv'
  <2>1. CASE VideoNext
    BY <1>1, <2>1, VideoStep
  <2>2. CASE UNCHANGED videoVars
    BY <1>1, <2>2, StageKeeps DEF videoVars, VideoInv, DoneIsAll
  <2> QED
    BY <1>1, <2>1, <2>2 DEF TransformsNext, transformsVars
<1> QED
  BY <1>1, VideoInitially, PTL DEF TransformsSpec

(***************************************************************************)
(* A file is written only for a list of operations that are all valid.     *)
(***************************************************************************)
THEOREM InvalidEncodesNothing == TransformsSpec => []InvalidOperationEncodesNothing
<1>1. VideoInv => InvalidOperationEncodesNothing
  BY DEF VideoInv, VideoTyped, EncodedAsPlanned, ReadAreValid, ValidVideoOperation,
         InvalidOperationEncodesNothing
<1> QED
  BY <1>1, VideoInvariant, PTL

(***************************************************************************)
(* The one call of FFmpeg has the effect of the list of operations.        *)
(***************************************************************************)
THEOREM EncodesWhatIsAsked == TransformsSpec => []EncodedAsAsked
<1>1. ASSUME VideoInv, encoded # NoFile
      PROVE  EncodedAsAsked
  <2>1. /\ position = Len(videoOps) + 1
        /\ encoded.format = plan.format /\ encoded.scale = plan.scale
        /\ encoded.crf = plan.crf
        /\ encoded.codec = IF plan.reencode \/ plan.scale # SourceSize
                           THEN Codec(plan.format) ELSE "copy"
    BY <1>1 DEF VideoInv, EncodedAsPlanned
  <2>2. \A names : Read(names) = Asking(names)
    BY <1>1, <2>1 DEF VideoInv, VideoTyped, Read, Asking
  <2>3. encoded.codec = "copy" <=> ~plan.reencode /\ plan.scale = SourceSize
    BY <2>1 DEF Codec
  <2>4. Rated = {i \in Asking({"compress", "transcode"}) : videoOps[i].crf # NoCrf}
    BY <2>2 DEF Rated
  <2> QED
    BY <1>1, <2>1, <2>2, <2>3, <2>4 DEF VideoInv, PlannedAsRead, EncodedAsAsked
<1>2. VideoInv => EncodedAsAsked
  BY <1>1 DEF EncodedAsAsked
<1> QED
  BY <1>2, VideoInvariant, PTL

(***************************************************************************)
(* A finished job has the picture of every thumbnail operation.            *)
(***************************************************************************)
THEOREM ThumbnailsAreTaken == TransformsSpec => []OneThumbnailPerOperation
<1>1. ASSUME VideoInv, videoStage = "done"
      PROVE  OneThumbnailPerOperation
  <2>1. /\ specs = <<>> /\ position = Len(videoOps) + 1 /\ VideoTyped /\ PicturesAsRead
        /\ Len(videoOps) \in Nat /\ position - 1 = Len(videoOps)
    BY <1>1 DEF VideoInv, EncodedAsPlanned, DoneIsAll, VideoTyped
  <2>2. Len(thumbs) = ThumbnailsIn(Len(videoOps))
    <3>1. Len(thumbs) + 0 = ThumbnailsIn(Len(videoOps)) /\ Len(thumbs) \in Nat
      BY <2>1 DEF PicturesAsRead, VideoTyped
    <3> QED
      BY <3>1
  <2>3. ASSUME NEW i \in Asking({"thumbnail"})
        PROVE  /\ thumbs[ThumbnailsIn(i)].at = Seek(videoOps[i].at)
               /\ thumbs[ThumbnailsIn(i)].at < duration
               /\ thumbs[ThumbnailsIn(i)].size = videoOps[i].size
    <3>1. i <= Len(videoOps) /\ i \in Read({"thumbnail"})
      BY <2>1 DEF Read, Asking, VideoTyped
    <3>2. ThumbnailsIn(i) <= Len(thumbs)
      BY <2>1, <2>2, <3>1, ThumbnailNumber
    <3>3. /\ thumbs[ThumbnailsIn(i)] =
               [at |-> Seek(videoOps[i].at), size |-> videoOps[i].size]
          /\ Seek(videoOps[i].at) < duration
      BY <2>1, <3>1, <3>2 DEF PicturesAsRead
    <3> QED
      BY <3>3
  <2> QED
    BY <2>2, <2>3, Zenon DEF OneThumbnailPerOperation
<1>2. VideoInv => OneThumbnailPerOperation
  BY <1>1 DEF OneThumbnailPerOperation
<1> QED
  BY <1>2, VideoInvariant, PTL

-----------------------------------------------------------------------------
(***************************************************************************)
(* The upload.                                                             *)
(***************************************************************************)

(***************************************************************************)
(* Of every file a processor writes the three tables know the extension    *)
(* and the type, and agree.                                                *)
(***************************************************************************)
LEMMA TablesAgree ==
    /\ \A f \in Saveable : /\ FormatExtension(Lowered[f]) = ImageExtension[f]
                           /\ ContentType(ImageExtension[f]) # "application/octet-stream"
    /\ \A f \in Containers : /\ FormatExtension(f) = f
                             /\ ContentType(f) # "application/octet-stream"
    /\ ContentType("jpg") = "image/jpeg"
<1>1. /\ \A f \in Saveable : FormatExtension(Lowered[f]) = ImageExtension[f]
      /\ \A f \in Containers : FormatExtension(f) = f
  BY DEF Saveable, Containers, FormatExtension, Lowered, ImageExtension, Named
<1>2. \A e \in {"jpg", "png", "webp", "bmp", "gif", "mp4", "webm", "avi", "mov"} :
        ContentType(e) # "application/octet-stream"
  BY DEF ContentType, ContentTypes
<1>3. \A f \in Saveable : ImageExtension[f] \in {"jpg", "png", "webp", "bmp", "gif"}
  BY DEF Saveable, ImageExtension
<1>4. ContentType("jpg") = "image/jpeg"
  BY DEF ContentType, ContentTypes
<1> QED
  BY <1>1, <1>2, <1>3, <1>4 DEF Containers

(***************************************************************************)
(* Every object of a job is stored as what its file is, and a generated    *)
(* key ends as the name of the file does.                                  *)
(***************************************************************************)
THEOREM UploadsAreLabelled == TransformsSpec => []StoredAsWritten
<1> DEFINE Labelled(o) ==
               /\ o.generated => o.extension = o.file
               /\ o.type = ContentType(o.file)
               /\ o.type # "application/octet-stream"
<1>1. \A name, file : FormatExtension(name) = file /\ ContentType(file) # "application/octet-stream"
        => \A o \in ResultObjects(name, file) : Labelled(o)
  BY DEF ResultObjects
<1>2. Labelled(ThumbnailObject)
  BY TablesAgree DEF ThumbnailObject
<1>3. ASSUME ImageInv, StoreImage
      PROVE  StoredAsWritten'
  <2>1. format \in Saveable
    BY <1>3 DEF ImageInv, FormatSettled, StoreImage
  <2>2. PICK o \in ResultObjects(Lowered[format], ImageExtension[format]) : uploaded' = <<o>>
    BY <1>3 DEF StoreImage
  <2>3. Labelled(o)
    BY <1>1, <2>1, <2>2, TablesAgree
  <2> QED
    BY <2>2, <2>3 DEF StoredAsWritten
<1>4. ASSUME VideoInv, StoreVideo
      PROVE  StoredAsWritten'
  <2>1. encoded.format = plan.format /\ plan \in Plan /\ thumbs \in Seq(Shot)
    BY <1>4 DEF VideoInv, VideoTyped, EncodedAsPlanned, StoreVideo
  <2>2. encoded.format \in Containers
    BY <2>1 DEF Plan
  <2>3. PICK o \in ResultObjects(encoded.format, encoded.format) :
          uploaded' = <<o>> \o [i \in DOMAIN thumbs |-> ThumbnailObject]
    BY <1>4 DEF StoreVideo
  <2>4. Labelled(o)
    BY <1>1, <2>2, <2>3, TablesAgree
  <2> DEFINE pictures == [i \in DOMAIN thumbs |-> ThumbnailObject]
  <2>5. /\ pictures \in Seq({ThumbnailObject})
        /\ <<o>> \in Seq({o, ThumbnailObject})
    <3>1. DOMAIN thumbs = 1..Len(thumbs) /\ Len(thumbs) \in Nat
      BY <2>1
    <3> QED
      BY <3>1
  <2>6. pictures \in Seq({o, ThumbnailObject})
    BY <2>5
  <2> HIDE DEF pictures
  <2>7. uploaded' \in Seq({o, ThumbnailObject})
    BY <2>3, <2>5, <2>6 DEF pictures
  <2>8. \A i \in DOMAIN uploaded' : uploaded'[i] \in {o, ThumbnailObject}
    BY <2>7
  <2> QED
    BY <1>2, <2>4, <2>8 DEF StoredAsWritten
<1>5. ASSUME ImageInv, VideoInv, StoredAsWritten, [TransformsNext]_transformsVars
      PROVE  StoredAsWritten'
  <2>1. CASE UNCHANGED uploaded
    BY <1>5, <2>1 DEF StoredAsWritten
  <2> QED
    BY <1>3, <1>4, <1>5, <2>1 DEF TransformsNext, transformsVars
<1>6. TransformsInit => StoredAsWritten
  BY DEF TransformsInit, StoredAsWritten
<1> QED
  BY <1>5, <1>6, ImageInvariant, VideoInvariant, PTL DEF TransformsSpec

=============================================================================
