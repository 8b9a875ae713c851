# Verification of the media processing service

TLA+ modules, TLC configurations and TLAPS proofs for the service in `src/`: a
FastAPI front end that accepts media jobs, a RabbitMQ queue driven by Celery,
workers that transform images and videos, job records in Redis and objects in
S3.

The questions are those of a distributed job system. Can an accepted job be lost?
Can a client be shown a job as completed that has no result? What does a
redelivered or retried task do to a job that has already ended? Does every job
end? A job crosses four independent systems, each call to each of them may fail
before or after its effect, and several runs of one job may overlap; the unit
tests of the repository replace all of those systems by fakes that run one call
after another.

## 1. The system

### Components, their state and their operations

| Component | Source (`src/app/…`) | State | Operations |
|---|---|---|---|
| Job API | `routers/job.py` | none of its own; the position of each request in its handler | `POST /jobs` (`create_job`), `GET /jobs/{id}` (`get_job`), `GET /jobs/{id}/download-url` |
| Upload URLs | `routers/upload.py` | none | `GET /upload-url` signs a PUT for a generated key |
| Worker task | `workers/celery_worker.py` | the position of each worker process in its task, the outputs uploaded so far | `process_media` → `run_job_pipeline`; `on_failure` |
| Queue and task policy | `services/celery_service.py` | messages ready, deliveries not yet acknowledged | `dispatch_task`, autoretry, late acknowledgement, rejection on worker loss, time limits |
| Retry loop | `services/retries.py` | the number of the attempt | `retry_with_backoff` around each Redis command and each dispatch |
| Job records | `services/redis_service.py` | per job: status, error, result, payload, creation and update time, each with a TTL; a lazily created client | `create_job`, `update_status`, `set_error`, `set_result`, the getters |
| Bucket | `services/s3_service.py`, `utils/helpers.py` | objects by key | `file_exists`, `download_file`, `upload_file`, signing, key generation |
| Image processor | `services/processing/image_processor.py` | the image during one call | resize, thumbnail, compress, watermark |
| Video processor | `services/processing/video_processor.py` | the FFmpeg arguments and the thumbnails still to take, during one call | resize, compress, transcode, thumbnail |
| Metrics | `services/metrics.py` | counters, histograms, a gauge, in the registry of each process | increments along the path of a job |
| Start, health, configuration, schemas | `main.py`, `routers/health.py`, `config.py`, `models/` | none that changes | — |

### How they interact

1. The client PUTs the source to S3 with a signed URL.
2. `POST /jobs` looks the source up in S3, writes the record (`pending`) to
   Redis, publishes the task, and answers 202. If the publish fails for good it
   writes `failed` and an error message and answers 503. If Redis fails, nothing
   catches the error and the answer is 500.
3. A worker receives the message but does not acknowledge it. It writes
   `processing`, downloads, transforms, uploads the result and any thumbnails,
   writes the result key, writes `completed`, reads the creation time for a
   latency metric, and acknowledges.
4. A transient error publishes the task again with its retry count raised, then
   acknowledges the old delivery. A permanent error, or a transient one with no
   retry left, goes to `on_failure`, which writes `failed` and the message.
5. The client polls, and each poll is several GETs of Redis.

Everything shared is in Redis, S3 and RabbitMQ; the API and the workers never
talk to each other directly. There are no callbacks to the client.

### What is hard about it

- *Repeated calls.* An attempt that raises may have taken effect. Redis commands
  and dispatches are repeated, so one submission can publish several messages.
- *Redelivery.* With late acknowledgement a worker that dies gives its delivery
  back; the job is run again from the start, even if it had already ended. A lost
  connection gives the delivery back while the worker still runs.
- *Retry before acknowledgement.* The retry of a task is in the queue before the
  retried one has ended.
- *Several writes for one fact.* Uploads, result and status; status and error.
- *Reads key by key.* A poll sees keys from different moments.
- *Swallowed errors.* `on_failure` gives up if Redis does not answer, and the
  delivery is acknowledged all the same.
- *Parts of a record expire one by one.* Each SET renews the life of its own key.
- *An order that is given up.* The operations on a video are folded into one call
  of FFmpeg, and the thumbnails are taken afterwards from the input.
- *One event, two places that count it.* A failure passes both `run_job_pipeline`
  and `on_failure`; a retry passes only the first.
- *Numeric edges.* The retry bounds; the rounding and the guard of a resize; a
  thumbnail at the end of the video.

`PROJECT.json` lists these hazards at their lines, with the properties that are
about them, or the reason why there is none.

### What makes each component correct

- Job API: no dispatch without a record; a refused job never runs; a job the
  client was told about ends and stays ended; an answer to a poll is consistent.
- Worker task: `completed` only with the whole result; failure explained;
  exhausted retries end the job.
- Queue and policy: no accepted job is lost; no job runs twice at a time unless a
  delivery was given back or a publish repeated; retries are bounded.
- Job records: a pending job has its payload, a running one its status, a
  completed one its result, although keys expire one by one; nothing stays for ever.
- Image processor: only valid images are saved; an invalid operation saves
  nothing; a one-sided resize keeps the aspect ratio and never enlarges.
- Video processor: the one call has the last size, container and rate factor of the list; an invalid operation
  encodes nothing; one thumbnail for each that was asked for.
- Between the processors and the bucket: an object is named and labelled as what
  it is, for every format.
- Metrics: the counters add up to what became of the jobs, the gauge to the
  workers that are busy.

## 2. The modules

```
Failures ───── Retries ────────────┐            ┌── Polling ── MCPolling
     ├──────── JobStore (Redis) ───┤            ├── JobMetrics ── MCJobMetrics
     ├──────── Bucket (S3) ────────┼─ MediaJobs ┼── MCMediaJobs
     └──────── TaskQueue (RabbitMQ)┘      │     └── (proofs, below)
               JobContract <── refines ───┘

ImageProcessor ──┬── Transforms ──┬── MCTransforms  (the steps "process" and "upload")
VideoProcessor ──┘                └── TransformsProofs

RecordExpiry ── RecordExpiryProofs                  (the life of one record)

MediaJobs ── MediaJobsProofs ──┬── PollingProofs (with Polling)
                               └── OrderlyProofs ── ContractProofs ── JobMetricsProofs
                                                                      (with JobMetrics)
```

| Module | Models | State | Actions and operators |
|---|---|---|---|
| `Failures` | the kinds of failure a run may allow, by the part that fails | – | `FaultKinds` and its four groups |
| `Retries` | `retry_with_backoff` | – (the caller keeps the count) | `AfterAttempt`, `TriesAfter` |
| `JobStore` | the record of a job | `status`, `error`, `result` | `CreateJob`, `UpdateStatus`, `SetError`, `SetResult` |
| `Bucket` | the objects | `source`, `objects` | `FileExists`, `FreshKey`, `UploadFile`; client and owner |
| `TaskQueue` | RabbitMQ as Celery uses it | `ready` | `Publish`, `Enqueue`, `Deliver`, and which publishes may fail |
| `MediaJobs` | `POST /jobs` and the worker task over the four above | `request`, `apiTries`, `pc`, `msg`, `held`, `tries`, `outputs`, `redeliveries` | one action per call over the network |
| `Polling` | `GET /jobs/{id}` and `/download-url` beside it | `poll` | one action per key read |
| `JobMetrics` | the counters and the gauge beside it | `submitted`, `completed`, `failed`, `gauge` | the steps of `MediaJobs`, each with what it counts |
| `JobContract` | what a client is promised (abstract) | `phase`, `promised` | `Register`, `Start`, `Complete`, `Fail`, `Promise` |
| `ImageProcessor` | `process_image` | `source`, `ops`, `next`, `img`, `format`, `stage` | one action per operation, `Open`, `Save` |
| `VideoProcessor` | `process_video` | `duration`, `videoOps`, `position`, `plan`, `specs`, `encoded`, `thumbs`, `videoStage` | one action per kind of operation folded, `Encode`, `Extract` |
| `Transforms` | the routing to the two, and the objects uploaded | `media`, `uploaded` | `StoreImage`, `StoreVideo`, the tables of names and types |
| `RecordExpiry` | the six keys of one record, its writers, and time | `left`, `value`, `at`, `elapsed` | one action per command, `Stop`, `Tick` |
| `FaultSets`, `MC*` | instances for TLC | – | failure sets, outputs, small images and videos, symmetry |
| `*Proofs` | theorems and proofs about the module of that name; `OrderlyProofs` and `ContractProofs` about `MediaJobs` | – | the inductive invariants |

### Grain of atomicity

A handler and a task are straight-line Python between calls over the network, and
nothing but those calls is shared. So one attempt of one call, with the code up to
the next call, is one step, and every other process may run between two steps.
`request[j]` and `pc[w]` name the call that comes next. A Redis command and a
dispatch run in `retry_with_backoff`; each attempt is a step of its own, with the
count in `apiTries` or `tries`, and an attempt is described by two choices: did it
take effect, and did it reply. An S3 call has no such loop in the code, and its
error goes to the task's retry.

### Decisions of the abstraction

- *Record.* The payload and the creation time are written once, in one
  transaction with the first status; the update time follows each status. None of
  them can tell two states apart here. `update_status` is two SETs: a failure of
  the second is, for `MediaJobs`, a first one without a reply. Expiry, payload and
  times are in `RecordExpiry`, where the two SETs are two steps.
- *Error.* Only whether a message is set; nothing ever clears it.
- *Objects.* Generated keys contain a random part and never collide, so the
  outputs of a job are numbered. The result of a job is the set of its keys. A
  result key chosen by the client is not modelled.
- *Queue.* A bag: several consumers, redelivery and countdowns leave no order to
  rely on. A message is a job and a retry count. Delays are left out.
- *Celery and RabbitMQ* are external and modelled from how the service configures
  them: `task_acks_late` and `task_reject_on_worker_lost` (`Receive`,
  `Acknowledge`, `WorkerCrash`); `Task.retry` publishes before the old delivery
  is acknowledged, and rejects without requeueing if that publish fails
  (`ScheduleRetry`, failure `worker_broker`); no publisher confirms
  (`broker_loss`); a hard time limit acknowledges and skips `on_failure`
  (`HardTimeLimit`); a connection loss gives the delivery back while the task
  goes on (`Disconnect`).
- *Soft time limit.* Armed from the start of a task to its end. At any call of the
  pipeline `SoftTimeLimitExceeded` fails the task, as it is not in `autoretry_for`
  (`LimitInPipeline`, failure `soft_limit`). What follows the pipeline is cut short as
  well (failure `late_soft_limit`): in `Task.retry` the delivery is rejected or the task
  fails, with or without the retry sent (`LimitInRetry`), and `on_failure`, which
  catches errors of Redis only, is left without the writes still to come, with the
  delivery acknowledged (`LimitInOnFailure`). The signal is sent once per run; the
  model lets it come again, which allows more than the code does.
- *Transforms.* One step of `MediaJobs` that succeeds or fails (`Process`); what
  it computes is in `ImageProcessor` and `VideoProcessor`, and how the outputs are
  named and labelled for the bucket in `Transforms`.
- *Metrics.* In `MediaJobs` only the read of the creation time (`ObserveEndToEnd`),
  which is a call to Redis that can fail the task. `JobMetrics` adds the counters to
  the steps of `MediaJobs`, which it leaves as they are: a counter is kept per job, so
  that it can be compared with the job's record, and the gauge per worker, since each
  process has a registry of its own. Where two outcomes of `on_failure` are one step of
  `MediaJobs`, stored with the last repetition or given up, both counts are allowed.
- *Images.* A size, an alpha channel and a format. Python's `round` takes halves to
  the even neighbour, and is modelled so. Pillow's `thumbnail` rounds the free
  side up or down, whichever is closer in aspect ratio; the model allows both. A watermark
  has a text or none, and a valid position or not. Whatever else an operation may raise, of
  Pillow or for a parameter that is not a number, ends the chain in `OperationFails`; an
  unreadable file fails in `Open`, an error of the write in `Save`.
- *Videos.* A duration in whole seconds. What matters of a list of operations is the
  arguments of the one call and the list of thumbnails: size, container, rate factor,
  and whether anything is to be encoded. Presets and bit rates are carried along like the
  rate factor and left out. FFmpeg succeeds or fails; a frame at or after the end does not
  exist, and its absence is the error the code checks for.
- *Expiry.* One record, in ticks. A writer (the request, or one run of the task) stops at
  any point: that is a crash, a time limit, or an error nobody handles. `Limit` is the
  longest a writer may take, `task_time_limit`, 900 s; `TTL` is 86400 s. How long a task waits
  in the queue has no bound, so a record may have expired when its run begins.

## 3. The runs

| Run | Module, instance and failures | Properties | What it shows |
|---|---|---|---|
| `faults` | `MediaJobs`: one job of two outputs, two workers, every failure but a dispatch repeated after it was sent | `TypeOK`, `CompletedIsReported`, `WorkIsRegistered` | whatever fails, `completed` stands for a whole result, and workers only see registered jobs |
| `polling` | `Polling`: the same with a client that polls | `CompletedPollHasResult`, `LinkLeadsSomewhere` | answers put together key by key are never completed without a result |
| `survivable` | `MediaJobs`: one job, two workers, the failures the service is built to survive | `NoJobForgotten`, `FailureExplained`, `CompletedIsReported`, `Settles` | no accepted job is lost, failures carry their message, accepted jobs end and stay ended |
| `orderly` | `JobMetrics`: two jobs, two workers, no failure that makes a task run twice | `SingleRun`, `ObjectBudget`, `RefusedNeverRuns`, `CountsMatchOutcome`, `InProgressIsExact`, `KeepsContract` | retries do not overlap and are bounded; counters and gauge tell what became of the jobs; `MediaJobs` implements `JobContract` |
| `transforms` | `Transforms`: images of four shapes with up to two operations, videos with up to three | `SavedImageIsValid`, `SavedMeansAllValid`, `OneSideKeepsAspect`, `OneSideNeverUpscales`, `InvalidOperationEncodesNothing`, `EncodedAsAsked`, `OneThumbnailPerOperation`, `StoredAsWritten` | chains of operations save a valid image or nothing; the one call for a video has the last size, container and rate factor of the list; objects are stored as what they are |
| `expiry` | `RecordExpiry`: the request and two runs that may overlap | `PendingHasPayload`, `RunningIsVisible`, `ResultLastsWithStatus`, `Collected` | what a status promises is there although keys expire one by one, and nothing stays for ever |

Six more runs each refute one statement of a document, docstring, comment or metric:

| Run | Statement | What happens |
|---|---|---|
| `missing_source` | missing objects "are not retried" (`celery_worker.py`) | the 404 of the download is an `S3Error`, which is retried |
| `redelivery` | "Poll until terminal status" (`load_test.py`) takes the first ending for the last | a worker dies between `completed` and the acknowledgement; the job goes back to `processing` |
| `stuck` | no job is left "stuck as processing" (`MediaProcessingTask`) | `on_failure` gives up because Redis stays away, or is cut short by the soft time limit, which its `except` does not catch; the delivery is acknowledged |
| `latency_metric` | "metrics must never break the job" (`celery_worker.py`) | a Redis error while the latency is read sends a completed job into a retry |
| `failure_counts` | permanent failures are counted in the task, exhausted retries in `on_failure` (`celery_worker.py`) | `on_failure` runs for both, so that a permanent failure counts twice |
| `thumbnail_order` | "Operations are executed in the order they are listed" (`models/media.py`) | a thumbnail listed after a resize has the size of the source, from which it is taken |

In `redelivery` a job that has ended leaves its end for a while, from which the service
recovers (`Settles`); in `stuck` it never reaches one.

Three more such statements fail in a way one sees from a line or two of the code, and have
no run: a poll that says failed has "a stored error message" (README of the service), which
is not so between the two writes of `on_failure`, and stays so if a time limit strikes there;
the error field is an "Error message if the job failed" (`models/job.py`), but is also set
after a dispatch that was reported as failed although its message was sent; and "Upscaling
is disabled unless allow_upscale is true" (`_resize`), while with both sides given the guard
of line 112 lets one of them grow: 1x4 becomes 2x1.

### Bounds, and why they are enough

- *Jobs.* Jobs share nothing but the workers and the queue: keys, messages and
  records of one job are never touched on behalf of another. One job shows every
  interleaving of its own runs; `orderly` has two to check that sharing the
  workers keeps this so.
- *Workers.* Two overlapping runs of a job are the smallest number in which one
  can disturb the other. The theorems of section 4 hold for any number.
- *Outputs.* Two, to have an upload fail half-way. `survivable` has one output: an upload
  is all or nothing there.
- `CallRetries` 1 and `MaxRetries` 1: a call and a task that is repeated and then
  gives up. In `polling` `MaxRetries` is 0, and a job is run twice by redelivery: a poll
  only reads, and the runs it reads of are those of `faults`.
- *Repeated dispatches.* A dispatch that is repeated after it was sent doubles every run of
  a job, on top of redelivery and retries. It is left out of `faults` and `polling`, and
  is in `survivable`, which checks `CompletedIsReported` with it; together with the
  failures of `faults` it is covered by the proofs.
- `MaxRedeliveries` 1: crashes and disconnections in a behaviour. It is a bound of
  the model, not of the code; the liveness properties need that there are
  finitely many.
- *Images.* A column, a wide, a square and an elongated image, with sides below, at and above
  theirs, none and negative ones: all branches of `_resize`, quotients that end in
  a half, and quotients that round to zero. Two operations are enough for one to
  undo or precede another.
- *Videos.* A size or none, every container and an unknown one, a rate factor at the end
  of the range, beyond either end and none, and thumbnails before the start, within and at
  the end of videos of one and two seconds. Three operations are enough for two of
  one kind with another between them.
- *Expiry.* `TTL` 4 and `Limit` 2: a run may take half the life of a key, where it is a
  hundredth in the service, so that keys set at its start and at its end expire far
  apart. Two runs that may overlap, after one another or both after the record has
  expired. `ASSUME` asks only that `Limit < TTL`.
- *Symmetry* of the workers is used where only invariants are checked.
- *Deadlock* is checked in all runs of `MediaJobs`, `Polling` and `JobMetrics`: the only
  state without another step is one where all requests are answered and all messages
  worked off, and there `Rest` says so. The transforms of one job end, and so does the
  life of one record, so `Transforms` and `RecordExpiry` do not check it.

### Fairness

`Spec` asks for weak fairness of the steps of a request and of a worker: a handler
that has been entered goes on to its end, and a worker process that can take its
next step or the next message does so (a pool of processes under a supervisor,
calls with timeouts). Nothing is asked of clients, of failures, or of the
order in which messages are delivered. No fairness says that a call eventually succeeds:
the retry bounds end every series of errors.

`ExpirySpec` asks that time passes, and that a writer which has begun makes its next step or
stops, as the time limits see to. Nothing asks that a run begins.

### Which failures a property survives

Each of the main properties needs some failures to be away, and that is a result
in itself.

- `CompletedIsReported`, `WorkIsRegistered`, `CompletedPollHasResult` and
  `LinkLeadsSomewhere` hold under every failure.
- `NoJobForgotten`, `FailureExplained` and `Settles` leave out Redis errors (a
  job may then be left `processing`: run `stuck`), the hard time limit (the task is
  killed, its delivery acknowledged), a soft time limit reached in the retry or in
  `on_failure` (it leaves the job `processing`: run `stuck`; or failed without its message;
  one reached in the pipeline is survived), and a connection loss; `NoJobForgotten` and
  `Settles` also a publish that is lost silently or fails in a retry. With a connection loss two runs overlap
  and the one that no longer holds its delivery may write last: if it then dies
  after writing `processing`, nobody ends the job.
- `SingleRun` and `ObjectBudget` leave out what makes a task run twice (crashes,
  connection losses, a dispatch repeated after it was sent, and a soft time limit that
  sends a task which has retried to `on_failure`), and nothing else; `RefusedNeverRuns` only the dispatch that was sent and is reported as failed.
- The refinement of `JobContract` leaves out what makes a task run twice, Redis errors
  and the soft time limit, which can fail a job just marked completed, or one whose
  retry is already in the queue. With a
  crash the contract's `Complete` and `Fail` are not final: run `redelivery`.
- `CountsMatchOutcome` leaves out the same and the hard time limit, which kills a task
  between the writes of its failure and the counting: a redelivered job is counted by
  each run. `InProgressIsExact` survives crashes and kills, which end the registry with the
  worker, but not an error or a soft time limit at the first write of the status, which
  is outside the `try` that brings the gauge down.
- The properties of `RecordExpiry` hold for writers that stop anywhere. What does not
  hold, and nobody claims, is that the whole record lives as long as its status: payload
  and creation time are written once and expire first, and a run that begins after the
  record has expired revives it without them. The result is older than the status by what
  one run may take, and so expires that much earlier: in that window, at the end of
  its day, `/download-url` answers that there is no result.
- A record that stays `pending` because the API died between registration and
  dispatch belongs to a client that never learned the job's id; the contract
  promises nothing about it (`Promise` comes with the answer 202).

## 4. The proofs

Every safety property and action property that a passing run checks is also a theorem,
for every number of jobs, workers, outputs, retries and operations, every size of an image
and every time to live. A theorem that needs some failures to be away names them in a
definition (`NothingLost`, `RunsOnce`, …) and assumes nothing else of `Faults`. No set is
larger than what the run of the property leaves out; section 3 tells why its members
have to be away.

| Theorem | States | Failures assumed away |
|---|---|---|
| `MediaJobsProofs!TypeCorrect` | `TypeOK` | none |
| `MediaJobsProofs!CompletedHasResult` | `CompletedIsReported` | none |
| `MediaJobsProofs!RegisteredFirst` | `WorkIsRegistered` | none |
| `MediaJobsProofs!LateAcknowledgement` | `NoJobForgotten` | `redis`, `broker_loss`, `worker_broker`, `late_soft_limit`, `hard_limit`, `disconnect` |
| `OrderlyProofs!RefusedIsOver` | `RefusedNeverRuns` | `api_broker_dup` |
| `OrderlyProofs!OneRunAtATime` | `SingleRun` | `api_broker_dup`, `late_soft_limit`, `crash`, `disconnect` |
| `OrderlyProofs!ObjectsAreBounded` | `ObjectBudget` | the same |
| `OrderlyProofs!FailureIsExplained` | `FailureExplained` | `redis`, `late_soft_limit`, `hard_limit`, `disconnect` |
| `ContractProofs!LifecycleIsKept` | the safety part of `KeepsContract` | those of `OneRunAtATime`, `redis`, `soft_limit` |
| `PollingProofs!CompletedPollIsWhole` | `CompletedPollHasResult` | none |
| `PollingProofs!LinkIsGood` | `LinkLeadsSomewhere` | none |
| `JobMetricsProofs!GaugeIsExact` | `InProgressIsExact` | `redis`, `soft_limit` |
| `JobMetricsProofs!CountersTellTheOutcome` | `CountsMatchOutcome` | those of `LifecycleIsKept`, `hard_limit` |
| `RecordExpiryProofs!PendingIsAnswerable` | `PendingHasPayload` | – |
| `RecordExpiryProofs!RunsAreVisible` | `RunningIsVisible` | – |
| `RecordExpiryProofs!ResultOutlastsPolls` | `ResultLastsWithStatus` | – |
| `TransformsProofs!SavedIsValid` | `SavedImageIsValid` | – |
| `TransformsProofs!SavedIsAllValid` | `SavedMeansAllValid` | – |
| `TransformsProofs!OneSideNeverEnlarges` | `OneSideNeverUpscales` | – |
| `TransformsProofs!OneSideIsProportional` | `OneSideKeepsAspect` | – |
| `TransformsProofs!InvalidEncodesNothing` | `InvalidOperationEncodesNothing` | – |
| `TransformsProofs!EncodesWhatIsAsked` | `EncodedAsAsked` | – |
| `TransformsProofs!ThumbnailsAreTaken` | `OneThumbnailPerOperation` | – |
| `TransformsProofs!UploadsAreLabelled` | `StoredAsWritten` | – |

The constants are assumed to be what the modules' named assumptions say: retry bounds and
the redelivery bound are naturals, each job has at least one output, failures are among
`FaultKinds`, `NoMsg` is not a message, a writer of a record is limited to less than the
time to live, images have sides, videos a duration, and operations ask for whole numbers.

### The arguments

*No job is lost* (`DeliveryInv`). While a decision on job `j` is pending there is a
message of `j` in the queue or a worker that will still write an end; each step keeps it
so or writes the end. A busy worker holds its delivery (without this a crash could lose
the job), and a worker about to publish a retry has one left (without this the retried
message would be none).

*Completed means whole* (`ReportInv`). For each place of a worker, what it knows: during
the uploads its outputs are distinct existing objects, fewer than all; before
`set_result` they are all; before `update_status(completed)` the stored result is
whole. The last point is not obvious, because another run may store its own result in
between; it holds because any result that is stored is whole, and `AllOutputsKept` shows
that one stays whole as objects are added.

*Polls* (`PollInv`). `ReportInv`, and what a poll knows at each of its reads: once it has
seen `completed`, the result it has still to read is whole and stays so
(`ResultStaysComplete`), even if the status goes back to `processing` meanwhile. Hence no
failure is assumed away.

*Refused jobs* (`RefusedInv`). Before the answer 202 there is neither a message nor a
worker of the job, so that a job that is answered 503 has none.

*One run at a time* (`TokenInv`). A job is in one place only: with its request, in one message
of the queue, or in one task. The delicate step is a retry, where the message is published
before the task ends: a task that has retried no longer counts as a run. `SingleRun` alone
is not inductive: two messages of a job would break it in two steps.

*Objects* (`BudgetInv`). A message whose count of retries is `r` finds at most `r` sets of
outputs, and a worker adds at most one to those. The arithmetic is in `AttemptsAddUp`.

*Explained failures* (`ToldInv`). A failed job without its message has a message waiting or a
worker that will take the status back or write the error; one that dies on the way gives
its delivery back, and one whose time limit is reached in the pipeline goes to
`on_failure`. `mark_processing` belongs there, as a redelivered job may be failed
from its earlier run.

*The contract* (`ContractInv`). Whoever has the job, its request, a message or a worker, knows
its status, so that each write of a status is a step of the lifecycle of `JobContract`
(`MoveShown`), and everything else shows none (`NothingShown`).

*Metrics.* `MetricsWatch`: a step of `JobMetrics` is one of `MediaJobs`, so that
`ContractInv` may be used (and `MetricsChangeNothing`: the whole of `MediaJobs` is
implemented). `CountersRight` then tells which counter stands where: a failure is counted
before it is recorded where it is permanent, and after it where retries are exhausted,
and in both cases a worker is between the two.

*Expiry* (`ExpiryInv`). A bound on the age of a writer against the life of the keys it has set:
the life left to the status and the time a run has been writing add up to `TTL` at least, and the
same holds of the result from `set_result` on. As a run ends within `Limit`, neither
key expires under it.

*Images* (`ImageInv`). The image is a picture with sides of at least 1, the chosen format and all
that were asked for can be saved, and the operations that were passed are valid. A negative
side never looks like an enlargement, so that such a resize is not skipped but refused. For the
rounding, `RoundedIsNear`: `round(a / b)` is no further than a half from `a / b` and on
the same side of every whole number, from which `ScaledSide` gives both theorems about
one-sided resizes, without a bound on the sides.

*Videos* (`VideoInv`). The plan is what the operations read so far ask for, the newest of
each kind (`NewestIsAdded`, `ReadGrows`), and the thumbnails taken and still to take are,
together and in order, those of the operations read (`ThumbnailsCounted`,
`ThumbnailNumber`). The file written is the plan at the end of the list.

### What stays with TLC

- Liveness: `Settles`, `Collected` and the fairness part of `KeepsContract`. Leads-to under
  fairness needs `ENABLED`, which the prover does not support.
- That the refuted statements fail: a counterexample is what TLC gives.

Fairness plays no part in the proofs. No module uses `RECURSIVE`, and no proof an induction
over data: where a list grows, the invariant speaks of its indices.

## 5. Not modelled

- *A result key chosen by the client*, which may be that of another job or of the source:
  a rerun would then process its own output. The code neither forbids nor promises
  anything about it; `Transforms` has such keys only for the type of the object.
- *A job that kills its worker each time.* It is redelivered without its retry count
  raised, without end; the runs bound the crashes.
- *Other errors of Redis* than connection losses and timeouts, which are not translated:
  they fail a task at once and escape `on_failure`. The outcome is that of `stuck`.
- *The lazily created clients* of Redis and S3, created without a lock. Two threads may
  each create one, and no state depends on which stays.
- *Metrics*: the histograms, the counts of S3 operations and of upload URLs, and the
  scraping, which reaches the API only.
- *Media*: pixels, encoder quality, presets and bit rates, the streams of a file (a resize
  may leave out the sound), probed metadata. FFmpeg and Pillow are external.
- *Operations nothing calls*: `set_payload`, in-memory uploads, streaming, listing and
  deletion of objects.
- Pure I/O and stateless code: upload URLs, health, configuration, schemas,
  container files, the load test.

## 6. Plan

Done: `MediaJobs` and its components, `Polling`, `JobContract`, `JobMetrics`,
`ImageProcessor`, `VideoProcessor`, `Transforms`, `RecordExpiry`, and a theorem for every
safety property of their runs. What is left, in this order:

1. What each step may do, under every failure: objects are never taken away, an error
   message is never cleared, a record never unregistered. The lemmas are there
   (`ObjectsStay`, `RecordsStay`); they are not yet stated as action properties.
2. Which failures suffice: where the sets of section 4 are not the smallest, a
   theorem for a weaker one, or a run that shows the failure breaking the property.
3. What the abstract specification says by itself: an ended job stays ended in
   `JobContract`, so that the theorem about `MediaJobs` carries it over.

## 7. Running it

```
tlc -workers 2 -config faults.cfg MCMediaJobs
tlc -workers 2 -config polling.cfg MCPolling
tlc -workers 2 -config survivable.cfg MCMediaJobs
tlc -workers 2 -config orderly.cfg MCJobMetrics
tlc -workers 2 -config transforms.cfg MCTransforms
tlc -workers 2 -config expiry.cfg RecordExpiry
for m in MediaJobs Polling Orderly Contract JobMetrics RecordExpiry Transforms; do
    tlapm ${m}Proofs.tla
done
```

`PROJECT.json` names the module of every configuration, the source lines
behind every definition, and, for each property of a passing run, a mutated
definition (a plausible bug) under which TLC finds the property violated.
