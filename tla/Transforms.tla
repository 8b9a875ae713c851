------------------------------ MODULE Transforms ------------------------------
(***************************************************************************)
(* The steps of a task that "process" and "upload" of MediaJobs stand for: *)
(* _run_job_pipeline_inner (app/workers/celery_worker.py) routes the       *)
(* source to one of the two processors, and names and labels what that has *)
(* written for the bucket.                                                 *)
(*                                                                         *)
(* The API admits no media type but these two.  Formats are named in lower *)
(* case in the names of files and in upper case by Pillow.                 *)
(***************************************************************************)
EXTENDS ImageProcessor, VideoProcessor

CONSTANT ChosenKeys   \* result keys clients ask for, by their extension

VARIABLES
    media,     \* the media type of the job
    uploaded   \* what the task stores, in order: [extension, generated, type, file]

transformsVars == <<imageVars, videoVars, media, uploaded>>

\* The processor the job is not routed to.
NoImage ==
    /\ source = [w |-> 1, h |-> 1, alpha |-> FALSE, format |-> "PNG"]
    /\ ops = <<>> /\ next = 1 /\ img = [w |-> 1, h |-> 1, alpha |-> FALSE]
    /\ format = "PNG" /\ stage = "unused"

NoVideo ==
    /\ duration = 1 /\ videoOps = <<>> /\ position = 1 /\ plan = EmptyPlan
    /\ specs = <<>> /\ encoded = NoFile /\ thumbs = <<>> /\ videoStage = "unused"

TransformsInit ==
    /\ \/ media = "image" /\ ImageInit /\ NoVideo
       \/ media = "video" /\ VideoInit /\ NoImage
    /\ uploaded = <<>>

-----------------------------------------------------------------------------
\* FORMAT_INFO: the extension of the file Pillow writes.
ImageExtension == [JPEG |-> "jpg", PNG |-> "png", WEBP |-> "webp", BMP |-> "bmp", GIF |-> "gif"]

\* str.lower of the format Pillow was given.
Lowered == [JPEG |-> "jpeg", PNG |-> "png", WEBP |-> "webp", BMP |-> "bmp", GIF |-> "gif"]

Named == {"jpeg", "jpg", "png", "webp", "bmp", "gif", "mp4", "webm", "avi", "mov"}

\* Mutant: the name Pillow has for JPEG is missing from the table.
FormatExtensionNoJpeg(name) == IF name \in Named \ {"jpeg"} THEN name ELSE "bin"

\* FORMAT_EXTENSIONS.
FormatExtension(name) ==
    IF name = "jpeg" THEN "jpg" ELSE IF name \in Named THEN name ELSE "bin"

\* infer_content_type, and what the upload makes of a file it does not know.
ContentTypes ==
    [jpg |-> "image/jpeg", jpeg |-> "image/jpeg", png |-> "image/png",
     gif |-> "image/gif", webp |-> "image/webp", bmp |-> "image/bmp",
     svg |-> "image/svg+xml", mp4 |-> "video/mp4", mov |-> "video/quicktime",
     avi |-> "video/x-msvideo", webm |-> "video/webm", mkv |-> "video/x-matroska"]

ContentType(extension) ==
    IF extension \in DOMAIN ContentTypes THEN ContentTypes[extension]
    ELSE "application/octet-stream"

\* The key is the client's or made from the format reported, the type comes
\* from the name of the file.
ResultObjects(name, file) ==
    [extension : {FormatExtension(name)}, generated : {TRUE},
     type : {ContentType(file)}, file : {file}]
    \union [extension : ChosenKeys, generated : {FALSE},
            type : {ContentType(file)}, file : {file}]

ThumbnailObject ==
    [extension |-> "jpg", generated |-> TRUE, type |-> "image/jpeg", file |-> "jpg"]

StoreImage ==
    /\ stage = "saved" /\ uploaded = <<>>
    /\ \E o \in ResultObjects(Lowered[format], ImageExtension[format]) : uploaded' = <<o>>

StoreVideo ==
    /\ videoStage = "done" /\ uploaded = <<>>
    /\ \E o \in ResultObjects(encoded.format, encoded.format) :
         uploaded' = <<o>> \o [i \in DOMAIN thumbs |-> ThumbnailObject]

TransformsNext ==
    \/ ImageNext /\ UNCHANGED <<videoVars, media, uploaded>>
    \/ VideoNext /\ UNCHANGED <<imageVars, media, uploaded>>
    \/ (StoreImage \/ StoreVideo) /\ UNCHANGED <<imageVars, videoVars, media>>

TransformsSpec == TransformsInit /\ [][TransformsNext]_transformsVars

-----------------------------------------------------------------------------
(***************************************************************************)
(* celery_worker.py: the result key is "Auto-generated with an extension   *)
(* matching the output format when omitted", through three tables that     *)
(* have to agree.  And every object is stored with the type of its file,   *)
(* whatever key was asked for, and never as unknown bytes.                 *)
(***************************************************************************)
StoredAsWritten ==
    \A i \in DOMAIN uploaded :
        /\ uploaded[i].generated => uploaded[i].extension = uploaded[i].file
        /\ uploaded[i].type = ContentType(uploaded[i].file)
        /\ uploaded[i].type # "application/octet-stream"

=============================================================================
