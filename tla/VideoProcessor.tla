---------------------------- MODULE VideoProcessor ----------------------------
(***************************************************************************)
(* app/services/processing/video_processor.py: process_video, which folds  *)
(* the operations of a video job into one FFmpeg call and then takes the   *)
(* thumbnails.                                                             *)
(*                                                                         *)
(* A video is its duration.  A side that is not given is 0; a picture with *)
(* neither side given is as large as that of the source.  Presets and bit  *)
(* rates, carried along like crf, and the metadata are left out.           *)
(***************************************************************************)
EXTENDS Integers, Sequences, FiniteSets

CONSTANTS
    Durations,     \* the durations of the source videos
    VideoSides,    \* the sides operations ask for, 0 for none
    VideoFormats,  \* the containers transcode asks for
    Crfs,          \* the constant rate factors operations ask for
    Instants,      \* the timestamps thumbnails ask for
    NoCrf,         \* the crf of an operation that gives none
    MaxVideoOps    \* bound: operations of a job

Containers == {"mp4", "webm", "avi", "mov"}   \* _VIDEO_FORMATS

CrfRange == 0..51

ASSUME VideoAssumption ==
    /\ Durations \subseteq Nat \ {0}
    /\ VideoSides \subseteq Int
    /\ Crfs \subseteq Int
    /\ NoCrf \notin Int
    /\ Instants \subseteq Int
    /\ MaxVideoOps \in Nat

Size == VideoSides \X VideoSides

SourceSize == <<0, 0>>

VideoOperation ==
    [op : {"resize"}, size : Size]
    \union [op : {"compress"}, crf : Crfs \union {NoCrf}]
    \union [op : {"transcode"}, format : VideoFormats, crf : Crfs \union {NoCrf}]
    \union [op : {"thumbnail"}, at : Instants, size : Size]
    \union {[op |-> "watermark"]}

VARIABLES
    duration,    \* of the source
    videoOps,    \* the operations of the job, in order
    position,    \* the index of the next one
    plan,        \* scale, needs_reencode, output_format and the crf so far
    specs,       \* thumbnail_specs
    encoded,     \* the file FFmpeg wrote, NoFile before
    thumbs,      \* the thumbnails taken: [at, size]
    videoStage   \* "new", "folding", "encoded", "done" or "failed"

videoVars == <<duration, videoOps, position, plan, specs, encoded, thumbs, videoStage>>

NoFile == [codec |-> "none"]

EmptyPlan == [scale |-> SourceSize, reencode |-> FALSE, format |-> "mp4", crf |-> NoCrf]

VideoInit ==
    /\ duration \in Durations
    /\ videoOps \in UNION {[1..n -> VideoOperation] : n \in 0..MaxVideoOps}
    /\ position = 1
    /\ plan = EmptyPlan
    /\ specs = <<>>
    /\ encoded = NoFile
    /\ thumbs = <<>>
    /\ videoStage = "new"

-----------------------------------------------------------------------------
FailVideo ==
    /\ videoStage' = "failed"
    /\ UNCHANGED <<duration, videoOps, position, plan, specs, encoded, thumbs>>

\* Without the FFmpeg binary the job fails before its operations are read.
RequireFFmpeg ==
    /\ videoStage = "new"
    /\ \/ /\ videoStage' = "folding"
          /\ UNCHANGED <<duration, videoOps, position, plan, specs, encoded, thumbs>>
       \/ FailVideo

OperandIn(names) ==
    videoStage = "folding" /\ position <= Len(videoOps) /\ videoOps[position].op \in names

Fold(newPlan, newSpecs) ==
    /\ plan' = newPlan
    /\ specs' = newSpecs
    /\ position' = position + 1
    /\ UNCHANGED <<duration, videoOps, encoded, thumbs, videoStage>>

\* Only remembered: the picture is scaled by the one call at the end.
FoldResize ==
    /\ OperandIn({"resize"})
    /\ LET o == videoOps[position]
       IN  IF o.size = SourceSize THEN FailVideo
           ELSE Fold([plan EXCEPT !.scale = o.size], specs)

\* Mutant: a crf that is not given takes back an earlier one.
LaterCrfOrNone(o) == o.crf

LaterCrf(o) == IF o.crf = NoCrf THEN plan.crf ELSE o.crf

\* Mutant: the range is checked for transcode only.
InCrfRangeOfTranscode(o) == o.op = "compress" \/ o.crf \in CrfRange \union {NoCrf}

InCrfRange(o) == o.crf \in CrfRange \union {NoCrf}

FoldEncoding ==
    /\ OperandIn({"compress", "transcode"})
    /\ LET o == videoOps[position]
           format == IF o.op = "transcode" THEN o.format ELSE plan.format
       IN  IF format \notin Containers \/ ~InCrfRange(o) THEN FailVideo
           ELSE Fold([plan EXCEPT !.reencode = TRUE, !.format = format,
                                  !.crf = LaterCrf(o)], specs)

FoldThumbnail ==
    /\ OperandIn({"thumbnail"})
    /\ LET o == videoOps[position]
       IN  Fold(plan, Append(specs, [at |-> o.at, size |-> o.size]))

FoldWatermark ==
    /\ OperandIn({"watermark"})
    /\ FailVideo

Codec(format) ==   \* _ENCODE_DEFAULTS
    CASE format = "webm" -> "libvpx-vp9"
      [] format = "avi" -> "mpeg4"
      [] OTHER -> "libx264"

\* One call of FFmpeg.  With nothing to change the streams are copied.
Encode ==
    /\ videoStage = "folding" /\ position > Len(videoOps)
    /\ \/ /\ encoded' =
               [codec |-> IF plan.reencode \/ plan.scale # SourceSize
                          THEN Codec(plan.format) ELSE "copy",
                format |-> plan.format, scale |-> plan.scale, crf |-> plan.crf]
          /\ videoStage' = "encoded"
          /\ UNCHANGED <<duration, videoOps, position, plan, specs, thumbs>>
       \/ FailVideo

Seek(at) == IF at < 0 THEN 0 ELSE at

\* Mutant: an instant without a frame is left out.
ExtractIfAny ==
    /\ videoStage = "encoded" /\ specs # <<>>
    /\ thumbs' = IF Seek(Head(specs).at) >= duration THEN thumbs
                 ELSE Append(thumbs, [Head(specs) EXCEPT !.at = Seek(@)])
    /\ specs' = Tail(specs)
    /\ UNCHANGED <<duration, videoOps, position, plan, encoded, videoStage>>

\* A frame of the source, not of what was encoded; none at or after its end.
Extract ==
    /\ videoStage = "encoded" /\ specs # <<>>
    /\ \/ /\ Seek(Head(specs).at) < duration
          /\ thumbs' = Append(thumbs, [Head(specs) EXCEPT !.at = Seek(@)])
          /\ specs' = Tail(specs)
          /\ UNCHANGED <<duration, videoOps, position, plan, encoded, videoStage>>
       \/ FailVideo

FinishVideo ==
    /\ videoStage = "encoded" /\ specs = <<>>
    /\ videoStage' = "done"
    /\ UNCHANGED <<duration, videoOps, position, plan, specs, encoded, thumbs>>

VideoNext ==
    \/ RequireFFmpeg \/ FoldResize \/ FoldEncoding \/ FoldThumbnail \/ FoldWatermark
    \/ Encode \/ Extract \/ FinishVideo

-----------------------------------------------------------------------------
Asking(names) == {i \in DOMAIN videoOps : videoOps[i].op \in names}

(***************************************************************************)
(* A job with an invalid operation anywhere in its list fails before       *)
(* FFmpeg has written a file, also if a later operation would override it. *)
(***************************************************************************)
InvalidOperationEncodesNothing ==
    encoded # NoFile => \A i \in DOMAIN videoOps : LET o == videoOps[i] IN
        /\ o.op # "watermark"
        /\ o.op = "resize" => o.size # SourceSize
        /\ o.op = "transcode" => o.format \in Containers
        /\ o.op \in {"compress", "transcode"} => o.crf \in CrfRange \union {NoCrf}

\* The last of some operations, by its index, if there is one.
Newest(indices) == {i \in indices : \A k \in indices : k <= i}

(***************************************************************************)
(* The one call has what the list asks for last: the container, size and   *)
(* rate factor asked for, each whatever stands between, and a copy of the  *)
(* streams exactly if nothing of a picture or its encoding was asked for.  *)
(***************************************************************************)
EncodedAsAsked ==
    encoded # NoFile =>
        LET transcodes == Asking({"transcode"})
            resizes == Asking({"resize"})
            encodings == Asking({"compress", "transcode"})
            rated == {i \in encodings : videoOps[i].crf # NoCrf}
        IN  /\ \A i \in Newest(transcodes) : encoded.format = videoOps[i].format
            /\ transcodes = {} => encoded.format = "mp4"
            /\ \A i \in Newest(resizes) : encoded.scale = videoOps[i].size
            /\ resizes = {} => encoded.scale = SourceSize
            /\ \A i \in Newest(rated) : encoded.crf = videoOps[i].crf
            /\ rated = {} => encoded.crf = NoCrf
            /\ encoded.codec = "copy" <=> resizes \union encodings = {}

\* How many thumbnails the first n operations ask for.
ThumbnailsIn(n) == Cardinality({i \in 1..n : videoOps[i].op = "thumbnail"})

(***************************************************************************)
(* README.md: a thumbnail is "extracted as JPEG and uploaded".  A finished *)
(* job has one picture for each thumbnail operation, in their order, taken *)
(* within the video at the instant asked for; if one cannot be taken the   *)
(* job fails.  It is as large as the operation asks for, and where nothing *)
(* is asked for and no resize stands before it as large as the source.     *)
(***************************************************************************)
OneThumbnailPerOperation ==
    videoStage = "done" =>
        /\ Len(thumbs) = ThumbnailsIn(Len(videoOps))
        /\ \A i \in Asking({"thumbnail"}) :
             LET picture == thumbs[ThumbnailsIn(i)]
             IN  /\ picture.at = Seek(videoOps[i].at)
                 /\ picture.at < duration
                 /\ (videoOps[i].size # SourceSize \/ \A k \in Asking({"resize"}) : i < k)
                        => picture.size = videoOps[i].size

(***************************************************************************)
(* models/media.py: "Operations are executed in the order they are         *)
(* listed."  A thumbnail that asks for no size of its own shows the video  *)
(* as the last resize before it has left it.  Refuted by a run of its own. *)
(***************************************************************************)
ThumbnailFollowsResize ==
    videoStage = "done" =>
        \A i \in Asking({"thumbnail"}) :
            videoOps[i].size = SourceSize =>
                \A k \in Newest({r \in Asking({"resize"}) : r < i}) :
                    thumbs[ThumbnailsIn(i)].size = videoOps[k].size

=============================================================================
