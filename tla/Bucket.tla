------------------------------- MODULE Bucket -------------------------------
(***************************************************************************)
(* app/services/s3_service.py: the bucket.                                 *)
(*                                                                         *)
(* A job has one source object, put by the client.  The objects written    *)
(* for a job have generated keys that are never reused, so the objects of  *)
(* a job are numbered: objects[j] of them exist, and the next key is       *)
(* objects[j] + 1.  Processed objects are never deleted by the service.    *)
(***************************************************************************)
EXTENDS Naturals, Failures

CONSTANT
    Outputs   \* how many objects a run uploads: the result and the thumbnails

ASSUME OutputsAssumption == Outputs \in [Jobs -> Nat \ {0}]

VARIABLES
    source,   \* the jobs whose source object is in the bucket
    objects   \* how many processed objects of a job are in the bucket

bucketVars == <<source, objects>>

BucketInit ==
    /\ source = {}
    /\ objects = [j \in Jobs |-> 0]

S3Attempt(applied, replied) ==
    IF replied THEN applied ELSE "s3" \in Faults

\* The client's PUT to the pre-signed URL of GET /upload-url.
PutSource(j) ==
    /\ j \notin source
    /\ source' = source \union {j}
    /\ UNCHANGED objects

DeleteSource(j) ==
    /\ "source_deleted" \in Faults
    /\ j \in source
    /\ source' = source \ {j}
    /\ UNCHANGED objects

FileExists(j) == j \in source

\* generate_object_key: a key no object has.
FreshKey(j) == objects[j] + 1

UploadFile(j, applied) ==
    /\ objects' = IF applied THEN [objects EXCEPT ![j] = FreshKey(j)] ELSE objects
    /\ UNCHANGED source

=============================================================================
