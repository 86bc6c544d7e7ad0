# A TLA+ model of ezLiveStreaming

This directory models the part of ezLiveStreaming that decides whether live
jobs run: the API servers that accept them, the job scheduler that places them,
and the live workers that run them, over Redis, SQS and HTTP. TLC checks the
modules on small instances, TLAPS proves every safety property of the runs that
pass, and the refinement, for every instance. `PROJECT.json` maps each definition to the lines it models; paths
below are relative to `src/`.

## 1. The system

### Components, their state and their operations

| component | state | operations that change state |
|---|---|---|
| API server (`api_server/api_server_main.go`) | none of its own; Redis hash `jobs` | create, stop, resume, delete a job; each sends to SQS, delete excepted |
| Job scheduler (`scheduler/scheduler.go`) | Redis hashes `jobs`, `workers`, `worker_loads`, list `queued_jobs`; one counter for the SQS poll | ticker: schedule one job, poll SQS, remove silent workers; HTTP: worker registration, heartbeat, job status report |
| Live worker (`worker/app/worker_app.go`) | `jobs` (assigned), `running_jobs` (processes), `available_rtmp_ports` | launch, stop a job; status check every 3 s, heartbeat every second, registration, shutdown |
| worker_transcoder (`worker/transcoder/worker_transcoder.go`) | its ffmpeg, packager and ffprobe processes; upload list, table of init segments, detection queue | supervise, upload with retries, detect, terminate |
| SQS (`job_sqs/`) | one FIFO queue | send, receive, delete |
| Redis client (`redis_client/`) | none | hash and list commands |
| Validator (`job/validator.go`), command builder (`job/command.go`) | none | normalise a request, build command lines |
| DRM key server (`drm_key_server/`) | key table in Redis | create and look up a key |
| S3, utilities, demo (`s3/`, `utils/`, `demo/`) | none | I/O |

### Interactions

    client --HTTP--> api_server --SQS--> scheduler --HTTP--> worker_app --exec--> worker_transcoder
                         |                  |   ^                |
                         +----> Redis <-----+   +--- reports ----+

* The **job record** is the hub. API handlers, the ticker and the report
  handlers read a whole record, change a field and write the whole record back,
  each in its own goroutine or process and with no transaction. An SQS message
  is a copy of the record at the time of the request.
* The **create request** asks the DRM key server for a key in two requests, and
  the record takes it along to the packager's command line.
* A worker's **record** in `workers` is written by the handlers of registration
  and heartbeat, and by the ticker after a launch, from the copy it read before.
* The ticker holds at most one job request at a time and waits for the worker's
  answer. A request that fails goes to the back of `queued_jobs`.
* The **worker load** is read and written by the ticker (`addNewJobLoad`) and by
  report handlers (`updateWorkerLoad`), again in two steps.

### What is hard, and what makes each part correct

| part | hard behaviour | what must hold |
|---|---|---|
| API server | records read, decided on and written back later; two requests for one job; failed sends | a job never looks as if it ran when it never did; a stopped or deleted job has no process left that was not signalled |
| Job queue | retries, second deliveries, a restart between pop and push | an accepted request is answered once and not lost before |
| Scheduler | retries on other workers; capacity checked before, load added after; stale snapshots | one process per launch request; a load exceeds its capacity by less than a job |
| Reports | a report of an older instance, a reading of a dying process | a stop is recorded in the end and for good |
| Create request | defaults applied one after the other, malformed values, a key exchange of two requests each of which may fail | what is stored is within limits; a protected stream has the key that its viewers are given, or its exchange failed |
| Commands | three programs wired by ports and directories computed in three places | each reads what it takes for its rendition, and writes files of its own |
| Worker | launch failing after the process was started; stop racing exit and start; ports reused | a stop that names the worker ends the process and its children; ports are used by one process, and return |
| Registry | heartbeats undone by old copies, clocks that lag, lost answers, restarts | only a silent worker is removed; ids nobody uses go, and the jobs on them are not recorded as running for ever |
| Transcoder | shared lists without locks, retries, queue limits | every segment is uploaded or given up once; the detection queue moves on |

`hazards` in `PROJECT.json` lists them one by one at the line where they bite.

## 2. Modules

| module | role |
|---|---|
| `LiveCluster` | constants and their assumptions, record types, the shared variables (Redis tables, SQS, the scheduler's request to a worker, the report handlers) and failures |
| `ApiServer` | the handlers of create, stop, resume, delete |
| `WorkerNode` | a worker's tables, processes, requests and status check |
| `Scheduler` | the ticker goroutine, the report handlers, a restart |
| `ControlPlane` | the composition: `Init`, `Next`, `Spec`, `FairSpec`, all properties |
| `RequestService` | abstract: an accepted request is pending until it is answered, once |
| `MCControlPlane` | values and symmetry for TLC |
| `Transcoder`, `MCTranscoder` | one worker_transcoder: file watcher, upload list, object detection, supervision; its instances |
| `JobValidator` | `Validate`: verdict and normalised specification, as operators |
| `StreamCommands` | the renditions, ports, directories and keys of the command lines, as operators |
| `WorkerApp` | one worker_app from inside: port pool, `jobs`, `running_jobs`, processes, the status check |
| `StreamSetup`, `MCStreamSetup` | the composition of the three with the create request, the key server and the start of worker_transcoder; its specifications for TLC |
| `WorkerRegistry`, `MCWorkerRegistry` | registration, heartbeats, launches and removals on the workers table |
| `ControlPlane_proofs` | types, requests that are not lost, loads within capacity |
| `Launches_proofs` | extends it: what becomes of a request; the refinement |
| `Records_proofs`, `Stops_proofs` | extend that one, each the one before: what records say, and what "stopped" means |
| `WorkerRegistry_proofs`, `Transcoder_proofs` | the theorems of these modules |
| `StreamCommands_proofs` | lemmas on the operators of `JobValidator` and `StreamCommands` |
| `StreamSetup_proofs` | extends it: the theorems of `StreamSetup` |

There are three views of the system, each with its own composition.
`ControlPlane` has every request and record, and takes a worker for a table of
processes. `StreamSetup` opens the two ends of a launch that `ControlPlane`
takes as one step each (the create request, and the worker), and reduces the
scheduler between them to what it may ask. `WorkerRegistry` opens what
`ControlPlane` takes for granted, that the scheduler knows its workers.
`Transcoder` opens a process once it is serving.

### State

| variable | in the code |
|---|---|
| `allJobs`, `workerLoads`, `allWorkers`, `queuedJobs` | Redis `jobs`, `worker_loads`, `workers`, `queued_jobs` |
| `sqs` | the FIFO queue |
| `call` | the HTTP request in `sendJobToWorker`, with its status code |
| `report[w]` | the goroutine that handles `POST /jobstatus` of worker `w`: where it is, what it has read |
| `api[h]` | the goroutine of an API request |
| `sch` | the ticker goroutine: where it is, what it has read, `sqs_poll_timer_counter` |
| `app`, `jobs`, `running` | per worker: the worker_app process, its `jobs`, its `running_jobs` |
| `used`, `accepted`, `launched`, `answered`, `faults`, `calls` | history and bounds: no guard of the program reads them, except that `used` makes `uuid.New` fresh |

An action is what one goroutine does between two points where another can be
seen: a Redis command, a message, a request. `createJob` is `CreateJob`
(HSET), `ReadBack` (HGET), `SendMsg`; a stop is `StopJob` (HGET and checks),
`WriteRecord`, `SendMsg`. A launch is `SendLaunch`, then the worker's
`HandleCreate` or `HandleCreateFails`, then `LaunchConfirmed` (record),
`AddLoadRead`, `AddLoadWrite`, or `LaunchFailed`. A report goes through its
items with `ReportRead`, `ReportWrite`, `ReportLoadRead`, `ReportLoadWrite`.

In `StreamSetup`:

| variable | in the code |
|---|---|
| `request` | per job, the handler of `POST /jobs` and, later, where the scheduler is with it |
| `allJobs`, `drmKeys`, `keyFile` | Redis `jobs` and the key table; `key.bin` in S3 |
| `pool`, `table`, `entries`, `alive` | `available_rtmp_ports`, `jobs`, `running_jobs`, the worker_app process |
| `proc` | the worker_transcoder processes: state, how far `main` is, children, RTMP port, UDP base, key |
| `known` | `RtmpIngestPort` of the record that comes with the next launch |
| `minted`, `faults`, and `fresh`, `seen`, `released`, `crashed` of a process | bounds and history |

`entries` is a set: processes are numbered in launch order, so that the number is
the place in the list and `FirstEntry` is a minimum. `proc[i].counted` stands for
the outputs in the specification of a listed job, and `Counted` is the number of
outputs of all listed ones, which `launchJob` adds up. In `WorkerRegistry`:

| variable | in the code |
|---|---|
| `workers`, `age`, `owner` | Redis `workers`: the ids, the age of each `LastHeartbeatTime`, `Info.ServerIp` |
| `loads`, `jobs`, `queue` | Redis `worker_loads` (the entries of each `Jobs`, numbered in their order), `jobs`, and the launches of `queued_jobs` |
| `app`, `running` | `my_worker_id` and `running_jobs` of the worker_app at each address |
| `beat` | the handler of a heartbeat that has read the worker's record |
| `loop` | the ticker goroutine and the records it has read |
| `launches`, `faults`, `heard`, `missed`, `disowned` | bounds and history |

`Transcoder` is on its own: the control plane knows of a process only that it
lives, was signalled or is gone (`WorkerNode`).

| variable | in the code |
|---|---|
| `child`, `alive` | ffmpeg and the packager; the process itself |
| `made`, `events`, `watching` | files packaged; fsnotify events; the watcher's goroutine |
| `uploadList`, `initItems`, `tick` | `upload_list`, `init_segments_to_upload`, the loop of `uploadFiles` |
| `store`, `published` | S3; the last segment in the annotated playlist there |
| `queue`, `detections`, `stage` | `queued_detection_jobs`, `num_concurrent_detection_jobs`, the threads |
| `content` | the files `segment_<n>.m4s`: which segment each holds, `Empty`, or `NoFile`. `content[1]` is the file of segment 1 and MP4Box's output for every segment |
| `data` | `seg_data` of each detection thread: what it has read from `segment_1.m4s` and will write back |
| `listed`, `annotated`, `targetInit`, `targetPlaylist` | the annotated playlist, the two paths the watcher stores |
| `shared`, `given`, `lost`, `faults` | history and bounds |

### Abstractions

* **A worker's request is one step** in `ControlPlane`. Its handler does wait
  100 ms for the process, while the status check runs; `WorkerApp` has the steps
  before and after that wait, and the ports.
* **A poll is one step.** Of the processes only this loop touches
  `queued_jobs`, and the message is invisible to SQS's other readers meanwhile.
  The record a poll overwrites is therefore overwritten in one step as well.
* **The job list of a load is a bag**: its order is never used. An absent load is
  the empty one: both functions treat them alike. A load keeps its sums next to
  the bag, as in the code. Every job costs `JobCpu` and `JobBandwidth`
  (`estimateJobLoad` returns constants).
* **A worker's record is its state** (`absent`, `idle`, `loaded`); capacities are
  constants. Heartbeats are not counted in `ControlPlane`: a worker whose host is
  down may be removed at any time between two iterations of the ticker, one that
  is up is never removed. `WorkerRegistry` counts them, and shows when the latter
  is not so.
* **A process** is alive, signalled (`dying`) or gone (`dead`). A process that
  has had SIGTERM ends in the end.
* **A job record** is its state, the assigned worker and the Stop flag. The
  encoding parameters, statistics, times, stream keys and DRM data decide
  nothing in the control plane.
* **One scheduler.** The documentation (README.md:543) allows several; two of
  them interleave inside `scheduleOneJob`. See section 6.
* **Redis** is reliable and its commands are atomic. **SQS** is FIFO and delivers
  again after a failed delete. The sender sets no deduplication id, so the
  queue must use content-based deduplication; whether two requests with equal
  bodies can be merged depends on its settings and is not modelled.
* A request that is rejected (403, 404) changes nothing and is a stuttering step.

* **A file** is its rendition, kind and number; of all contents only those of the
  annotated playlist and segments are kept. The master playlist is a playlist
  like any other (its rewriting by `removeDetectionTargetRendition` is left
  out). One iteration of `uploadFiles` is one step; an element is taken off the
  list in it, not in the next one, which only that loop could see.
* **Time** in the transcoder: an item gets `ripe` (200 ms) in the order of the
  list, the front job gets `late` only while no detector is free.
* **A specification** is a record of what `Validate` or a command looks at. A
  bitrate is a number of kbit/s or one of three malformed forms (empty, "NaNk",
  anything else); a preset that `ParseInt` reads is one of two, and a segment
  format is `fmp4` or `ts`, which stands for whatever else is sent. `JobSpec` is
  the set of all of them, with lists of any length and numbers of any size.
* **A command** is what its options connect: ffmpeg's streams and their ports,
  the packager's inputs and their directories, the key. That a directory is
  found by a substring of a path (`isDetectionTarget`) is modelled by the decimal
  digits of the bitrate; what the text of a malformed bitrate, which nobody
  checks for the detector, is part of is the constant relation `PartOf`: the
  theorems hold for any, the run has one that is part of every path.
* **worker_transcoder ends** in `StreamSetup` with its children (`Exit`: its
  handler or its supervision decided it), or at any time without a signal to
  them (`Crash`). An ffmpeg or packager that is left behind stays; that it may
  end by itself some time later is left out.
* **An annotated segment** is converted, read, stamped, written back and renamed
  in steps of their own, as two threads may be at it. The time that is stamped
  (TFDT) is left out. The library that sets it is not part of the repository:
  given no bytes it may panic or not (`StampPanics`).
* **The scheduler in `StreamSetup`** launches a job that was sent and not yet
  launched, whose launch failed, or that is recorded as stopped, and stops one
  that is launched, one request at a time. The record that goes with a launch
  holds the port that the last successful launch gave it.
* **The status check** of `WorkerApp` is one step, with its report; a reading
  that its goroutines write back after a stop is a step (and a failure) of its
  own. `getJobById` and `createUpdateJob` of one request are one step.
* **Time in `WorkerRegistry`** is the age of each timestamp in heartbeat
  intervals, exact up to the limit. The tick ages the timestamps in Redis, in
  a heartbeat under way and in the copies the goroutine holds. A host's clock
  lags by a constant.
* **Reports in `WorkerRegistry`** are one step, and stops are left out: both are
  in `ControlPlane`. A client resumes a job that is recorded as stopped and not
  yet on its way; `double_instance` has the other case.
* **Races** on `upload_list`, `init_segments_to_upload` and
  `queued_detection_jobs`, which have no lock, are failures of kind `race`: a
  push is lost, the end of the list is detached (a later `Front` may then
  return the sentinel, and the process panics), a detection job is lost or comes
  back, or the runtime stops the process.

### Failures

Each kind happens at most once per behaviour, when the run allows it (`Faults`),
and at most `FaultLimit` kinds happen in one: `send` (SendMsg), `redeliver`
(DeleteMsg), `launch` (the process ends within 100 ms), `exit` (it ends later),
`reply` (the worker's answer is lost), `report` (its report is lost), `down` (the
host stops), `restart` (the scheduler process stops and a new one starts, with
an empty hand).

Those of the transcoder, at most `FaultLimit` in all: `exit` (a child ends),
`stop` (SIGTERM), `missed` (an fsnotify event), `removed` (the packager deletes a
listed file; the log line of `uploadFiles` then panics), `upload` (S3), `race`,
`merge` (the segment cannot be read: the watcher's goroutine ends), `detector`,
`convert` (MP4Box).

Those of `StreamSetup`, one in all: `post`, `get` (a request to the key server
fails), `lost`, `garbled` (its answer is lost, or does not parse), `keystore`
(Redis does not take the key), `write` (HSET), `send` (SQS), `upload` (key.bin),
`spawn` (exec fails), `early` (the process ends within 100 ms), `exit` (later),
`crash` (later, and nobody signals its children), `readings` (see above). Those of `WorkerRegistry`, one in all: `registration`
(the answer is lost), `crash` (worker_app and its processes end; it is started
again), `exit`.

## 3. Properties and runs

| run | instance | states | properties |
|---|---|---|---|
| `control_safety` | 1 job, 2 workers, 2 handlers; one create, stop, resume, delete each; no failures | 0.3 M | `LaunchNeverDropped`, `OneInstancePerRequest`, `StoppedMeansSignalled`, `RecordBacked`, `ServesOnce` |
| `control_faults` | 1 job, 2 workers that hold one job, 1 handler; create, stop; any two of the eight failures | 1.8 M | `TypeOK`, `NoRequestLost`, `LaunchNeverDropped`, `OneInstancePerRequest`, `WithinCapacity`, `RecordBacked` |
| `control_liveness` | 1 job, 1 worker; create, stop, resume; an exit | 0.1 M | `LaunchServed`, `StopEndsProcess`, `StopIsRecorded` |
| `transcoder_safety` | two renditions, one annotated, 2 and 4 files; any one of nine failures | 2.4 M | `TypeOK`, `NoFileForgotten`, `InitFollowsSegment`, `DetectorLimit`, `PublishedHandedOver`, `AnnotatedIsOwn` |
| `transcoder_liveness` | 2 and 3 files; any two of seven failures | 0.1 M | `UploadsEnd`, `DeathSpreads` |
| `stream_setup` | 2 jobs, one of 48 specifications for the first, of 2 for the second; 2 or 3 launches on a worker with one RTMP port; any one of thirteen failures | 2.3 M | `TypeOK`, `AdmittedIsNormal`, `KeyIsServed`, `ClearOnlyIf`, `KeyFileOpensStream`, `RenditionsWired`, `RenditionsApart`, `UdpPortsApart`, `RtmpPortExclusive`, `PortLostOnlyUnstopped`, `ListenersApart` |
| `worker_registry` | 1 address, 2 registrations, 2 jobs, 2 launches; limit and lag of one interval; any one of three failures | 0.3 M | `TypeOK`, `WithinCapacity`, `TwiceOnlyDisowned`, `PurgedWasSilent`, `LostUntilRestart`, `UnclaimedGoes`, `OrphanStops` |
| `late_detection`, `early_playlist` | the annotated rendition alone, 5 files; no failures | | violated: see section 5 |
| `double_instance`, `stop_dropped`, `load_leak` | the smallest instance that shows it | | violated: see section 5 |

* `ServesOnce` is a refinement: `ControlPlane` implements `RequestService` with
  the ids in SQS, in `queued_jobs` and in the scheduler's hand as `pending`.
  So an id is at one place at a time, it leaves only when the scheduler is done
  with it, and it never comes back.
* `LaunchNeverDropped`: only stops are dropped; a launch is put back until some
  worker has started it.
* `OneInstancePerRequest`: over all retries on all workers one launch request
  has one process. It needs answers to arrive and messages to be delivered
  once: a lost 201 is retried on another worker while the process runs on.
* `StoppedMeansSignalled`: what the user is told (stopped, or deleted) is true of
  the processes, for a job that was launched once. For one that was resumed the
  code does not promise it: a report of the first instance is taken for the
  second.
* `RecordBacked`: records are written from copies of different ages by three
  parties; still no record shows a job running that was never launched, or
  names a worker that never had it, so that a stop is not sent astray.
* `WithinCapacity`: see section 4.
* `LaunchServed`: a stop that the worker answers with 404 or 500 is put back for
  ever (the worker's comment at `worker/app/worker_app.go:87` wants it not
  retried), and must not starve the launches: it does not, as `queued_jobs` is
  served in turn.
* `StopEndsProcess`, `StopIsRecorded`: the readings of a dying process set the
  record back to running, an API handler writes back an old copy, and in the
  end the job is stopped all the same. The second excludes an exit, after which
  the first report may be overtaken.

* `NoFileForgotten`: two goroutines extend the list that a third one shortens and
  extends while it scans it; a file is always waiting, listed, kept for later,
  uploaded or given up, and only a missed event or a race loses one.
* `InitFollowsSegment`: an init segment may be empty until the first data segment
  is complete, so it must not overtake it, retries included.
* `DetectorLimit`: the ticker raises the counter and the threads lower it.
* `PublishedHandedOver`: what the code does promise of the annotated playlist in S3:
  the segment it names last is on the upload list or further. `early_playlist`
  shows that it need not be uploaded.
* `AnnotatedIsOwn`: one file, read, written and renamed by every detection thread,
  takes the content of a segment to the segment's own file. A conversion that
  fails reads and writes it too, and must not pass it on. The exception is a
  conversion that overlaps another one, which the counter of detectors does
  not prevent; the file of segment 1 is left out, as it is the shared one.
* `UploadsEnd`: retries come back to the end of the list being scanned; the scan
  and the retries end, and every item leaves the list.
* `DeathSpreads`: whichever child ends first the other one and the process follow.

The invariants of `StreamSetup` relate one end of the pipeline to the other.
Several name the exceptions that the code has; without one of them TLC finds a
counterexample, and section 5 describes it.

* `AdmittedIsNormal`: `Validate` applies one default after the other; what it
  stores it would accept again unchanged, and it is within the limits that the
  commands take for granted.
* `KeyIsServed`, `ClearOnlyIf`, `KeyFileOpensStream`: from the request for a key
  through records and relaunches to the packager's options and the file that
  players fetch.
* `RenditionsWired`, `RenditionsApart`: ports and directories are computed by
  functions that do not call each other. The second has the detector's rendition
  found by the substring that the watcher uses, with the cases in which it finds
  others as well.
* `UdpPortsApart`, `RtmpPortExclusive`, `PortLostOnlyUnstopped`: over launches,
  failures, stops and exits in any order, when two processes share a port, and
  which ports the pool has lost.
* `ListenersApart`: an ffmpeg that outlives its worker_transcoder still listens on
  its RTMP port. A later launch is given that port only if the pool had gone
  wrong, or if a stop returned it: for a process that is still ending, that had
  no handler yet, or that crashed after the stop. After any other crash the port
  is never returned, which is what keeps it from the next launch.

And of `WorkerRegistry`:

* `PurgedWasSilent`: the exact condition of a removal. The goroutine judges copies,
  a launch writes one back, and the time in a heartbeat is the sender's.
* `LostUntilRestart`: the converse hazard. A worker_app that was removed stays
  unknown: an id is kept for life, and neither a heartbeat nor the end of a
  launch enters it again.
* `WithinCapacity`, `TwiceOnlyDisowned`: with ids that are doubled, abandoned and
  removed, an id never runs more than fits, and no job runs twice, unless a
  removal marked jobs as stopped that a worker_app still has.
* `UnclaimedGoes`, `OrphanStops`: what a crash or a lost answer leaves in Redis is
  cleared in the end, though launches are sent to it meanwhile.

### Why the bounds are enough

Interference is about one record, one load entry or one request in the hand, and
every pair of writers of each occurs: two handlers, the ticker, the reports of
two workers. Two workers are what a retry elsewhere and a stop sent to the old
worker need. A worker holds one job in `control_faults`, so that a full worker
and a load over its limit occur; `load_leak` has two jobs on one worker. Eight
kinds of failure in pairs include a restart after a lost answer and a second
delivery to a worker that goes down. `PollMultiplier` is 2 so that scheduling
and polling alternate as in the code (1 in `control_faults`, which saves states
and allows more orders). Ids, processes and `tick` are bounded by `CallLimit`,
`Faults` and the modulus; retries need no bound, for a retry repeats a state.

In the transcoder two files of the plain rendition are an init segment and the
data segment it waits for; four of the annotated one give two detection jobs,
which overlap from the conversion on, or follow each other, the second taking
away the file of the first. `MaxUploads` is 2 (1 in
`transcoder_liveness`) and `MaxRetries` 1, so that both limits are reached.

In `stream_setup` one port and three launches suffice for a port that is lost,
shared or returned twice, and for UDP ranges that move up over a gap; the third
launch is for two specifications only (`ThreeOrTwo`), as ports do not depend on
more. A crash may come at any step of a
process, before and after a stop. The specifications take each field to its
limit and one beyond, one at a time, and combine what the commands combine (AV1,
detection, DASH, protection, two renditions). In `worker_registry` two ids are a worker and its successor or
double, and a limit of one interval has ages below, at and above it. The safety
part, with the inductive invariant of section 4, was also run with three ids,
three launches and two failures (4.5 M states).

Deadlock is checked in every run of the control plane and of the registry: the ticker always has a
step. The transcoder may stop, and does when its process has ended;
`StreamSetup` stops when its requests are rejected or its launches used up.

### Fairness

`FairSpec` assumes weak fairness of each API handler once it has begun
(`net/http` runs it), of the ticker's goroutine (`time.NewTicker`, and
`http.Client.Do` returns: the error for a refused connection is part of it), of
each worker's report handler, request handler, status check and registration
(`registerWorker` retries until it succeeds), and of the end of a process that
was signalled. Nothing is assumed of clients or of failures: they may stop at
any time. No fairness is needed among the jobs of the queue, it is FIFO.

In `Transcoder` it is weak fairness of the watcher's goroutine, of each ticker's
action, of every detection thread (`CombinedOutput` returns), of time, and of
the end of a child that has had SIGTERM. None of the packager or of failures.

In `WorkerRegistry` it is weak fairness of time, of the goroutine's steps once it
holds something, of the handler of a heartbeat that has begun, and of the status
check, and strong fairness of the removal check: the goroutine comes to it on
every 25th tick whatever it does on the others (`scheduler/scheduler.go:1005`).
None of registrations, heartbeats, clients or restarts: a worker may be silent.

## 4. Proofs

Every invariant and every action property of the passing runs is a theorem, and
so is the refinement. They hold for all sets of jobs, workers, handlers, hosts
and renditions, all capacities and limits, any number of calls, launches, files
and retries, and, unless stated below, any of the failures in any order, within
`FaultLimit`, whatever that is. In each module the proof of a step has one case per
action; where several theorems need the same cases, a lemma says once what a
step does to the variables they share (`Flow`, `ProcessFlow`, `StepKinds`,
`WorkerProcesses`).

**Assumptions on the constants** are those the modules declare: natural numbers
for limits and loads, non-empty sets of ids, "no record" not being a record, a
poll multiplier above 0. Two say something about a deployment:
`WorkerAppAssumption` has the ports of the pool positive and distinct (`main` fills
it with consecutive ones, `worker/app/worker_app.go:770`), and `StreamSetupAssumption` has what clients offer within
`JobSpec`, which is every specification that the model can express.

### Control plane

* `TypeCorrect`. `TypeOK` is not inductive: what a goroutine has read is used
  steps later. `TypeInv` adds `LoopHolds` (the ticker has a request exactly while
  it waits or records a launch, and a worker and a record while it removes one)
  and `ReportHolds` (a handler at an item has an item, and subtracts only a job
  that the load it has read contains). The latter gives the one thing in `TypeOK`
  that could go wrong, a job that is in a load a negative number of times. The
  front of a process list is a `CHOOSE`, so that its existence is a lemma
  (`OldestIn`), from the well-foundedness of `<`.
* `CapacityRespected`. `CapacityInv` adds what each goroutine has read: a load read
  by a report handler fits, the load read by `addNewJobLoad` has room, and so
  has the load of the worker from the check until that read. Report handlers
  may write an old load at any time, but one that was within the bound and has
  lost a job since.
* `RequestsKept`. Every step but a restart keeps the set of ids held
  (`KeepsRequests`); it rests on `LoopHolds`, that the scheduler pops with an
  empty hand, and on two lemmas on queues.
* `LaunchesKept`. A step is seen only through what it does to the messages on their
  way: `Flow` shows that this is one of ten things (nothing, an answer, a send, a
  poll, a request turned to the end of the queue, taken, dropped, put back, done
  with, lost). `LaunchInv` says that a message carries the request that was
  accepted under its id (`MessagesInv`), and that an answer 201 has its launch in
  the log (`ConfirmedInv`).
* `RequestsServedOnce`, the refinement: initial states map to initial states, and
  by `ServiceStep` each of the ten things maps to `Accept`, to `Answer` or to a
  stutter. It needs `OnceInv`, that SQS, `queued_jobs`, the hand and `answered` are
  disjoint and name no id twice. Its hypothesis excludes `redeliver` and
  `restart`: with the first a request is at two places, with the second one that
  was popped is gone. The other six kinds of failure are covered, where the run
  has none. `ServedOnceUntilFailure` has no hypothesis: each step of any behaviour
  up to the first such failure is one of the service.
* `OneProcessPerRequest`. `SingleInv`: a request that has a live process is spent
  (in no queue, and if it is in the hand, then answered with 201), so that it is
  not launched again. No hypothesis: the property itself ends at a lost answer
  or a second delivery.
* `RecordsBacked`. Records are written from copies of any age, so `BackedInv` claims
  of every copy (table, API handlers, messages, the ticker, the report handlers)
  what `RecordBacked` claims of the table. It is kept because the log of launches
  only grows (`BackedStays`) and because of the few ways in which a copy is
  changed (`BackedEdits`).
* `StoppedAreSignalled`. "Stopped" begins as an answer, as the report of an ended
  process or as the removal of a worker, and travels in copies. `StopInv` says of
  each place that claims it (`SaysStopped`) that the job's one launch request is
  spent and no process of it is without a signal, and of each that places the
  job on a worker (`SaysPlaced`: loads, from which a removal takes what it marks
  as stopped) that it has none elsewhere. It is `StoppedUntilFailure` that is proved
  so, up to the first `reply` or `redeliver`, after which one request has two
  processes, or `launch`: the report of the process that has failed says stopped
  while the request is tried again. Exits, lost sends and reports, hosts that go
  down and restarts are covered. `StoppedAreSignalled` follows where these three
  do not occur.

### Worker registry

* `PurgedWasSilentHolds`, `LostUntilRestartHolds` rest on `RegistryInvariant`
  (`Spec => []RegInv`), which adds to the types what the goroutine and the handlers
  hold: a copy is of a worker that is known, and the one it removes is over the
  limit; an id in use, in a heartbeat under way too, belongs to the address that
  uses it; and a timestamp, in Redis or in a copy, is no older than the last
  heartbeat and the lag, unless that was missed.
* `TypeCorrect`, `TwiceOnlyDisownedHolds`, `WithinCapacityHolds` rest on `JobInv`.
  `RunInv`: a job that is listed somewhere, is in the queue or is being launched
  is only one of the three, and its record says so, disowned jobs apart.
  `LoadInv`: a load has room when a launch is under way, and every process has
  its entry. `WithinCapacity` then follows by an injection of the processes on an
  id into the entries of its load.

### Transcoder

* `TypeCorrect`, `DetectorLimitHolds` rest on `Typed`, which adds that segments are
  numbered within what is packaged, and that every detection that runs is
  counted: the counter may exceed the detectors (a failed one is not taken off),
  never the reverse.
* `NoFileForgottenHolds`, `InitFollowsSegmentHolds`, `PublishedHandedOverHolds` rest on
  `FileInv`: a file that was made is kept (listed, stored, given up, lost), still
  coming, or an init segment that waits (`Seen`); an annotated segment, or one
  that a playlist names, is kept (`Handed`); an init segment is on the list only
  after its data segment is in S3 (`Ordered`). The lemmas on lists (`ListAppend`,
  `ListRemove`) say that no step but the failures takes a file off that it does
  not store, give up or put back.

* `AnnotatedOwnHolds` rests on `Own`: threads that convert at the same time are all
  in `shared`; and a thread that is not finds in `segment_1.m4s` its own segment
  from the conversion to the rename, and holds it while it stamps it.

### Stream setup

The invariants, each relative to the ones before it:

* `Core` is the types, that processes run what is recorded with the key of the
  record, and `KeysInv`: per request, what it has at each point of the exchange;
  key ids are unique; what is recorded is `Good` (accepted, and its own normal
  form) and its key fits. `CoreHolds` gives `TypeCorrect`, `KeyServed`,
  `AdmittedNormal`, `ClearOnly`, `WiredRight`, `KeptApart`.
* `Lives`, what each state of a process implies for its stage, its children and
  its logs: one that is gone has children left only after a crash or an early stop.
* `FilesInv`, that `key.bin` has the key of the record, and is there once the start
  is past it: `KeyFileFits`. A second launch overwrites the file, with the same
  key, because the record never changes (`RecordsStay`).
* `Accounted`, a listed port is in the pool or with a process that has not returned
  it: `PortLostUnstopped`.
* `PortsInv`, a port that was never returned twice nor handed out of an empty pool
  is in the pool once at most, and of the processes that were ever given it only
  the last may not have returned it: `PortExclusive`, and with `Lives`, which
  says in what states a process that has returned its port may have children
  left, `ListenersHeldApart`.
* `SeenInv`, the base of a process lies after the outputs of the entries of its
  time, which were all the processes not gone: `UdpApart`. The count for a later
  process whose list contains that of an earlier one, and the earlier one
  itself, is greater by at least the outputs of the earlier one (`OutputsGrow`,
  by cardinalities), and a process uses no more ports than were counted for it
  (`PortsCounted`), the detector's rendition apart.

What these say of `Validate` and the commands is proved in `StreamCommands_proofs`
for lists of any length: `NormalizedAccepted` (`Validate` accepts what it stores,
and leaves it as it is), `VerdictOk` (what the verdict checks), `RenditionList`
and `PortsInRange` (which renditions there are, and their ports), `OneStreamPerPort`,
`DirectoriesDiffer`, `OneDetectionTarget` (for a bitrate that is a number),
`DetectorFed` (for any).

To be reasoned about, three operators are written without recursion or folds:
the first failing check is a minimum (`FirstBad`), the outputs of the listed jobs
are a cardinality (`Counted`), the load after a report is a set (`WithoutEnded`).

### What is only model-checked

The liveness properties, as neither fairness nor `ENABLED` can be reasoned about
here: `LaunchServed`, `StopEndsProcess`, `StopIsRecorded`, `UploadsEnd`, `DeathSpreads`,
`UnclaimedGoes`, `OrphanStops`. `ServesOnce` after a restart or a second delivery, and
`StoppedMeansSignalled` after a lost answer, a second delivery or a failing launch,
are neither promised nor checked. The violations of section 5 are
counterexamples, found by TLC.

## 5. Where code and documentation disagree

* **A job runs twice** (`double_instance`, `api_server/api_server_main.go:542`). Resume
  refuses running and streaming jobs only. A job that is created, and still
  queued or being launched, is accepted, sent again and launched on a second
  worker. README.md:503 speaks of a stopped job, README.md:511 of 403 for a
  running one.
* **An accepted stop does nothing** (`stop_dropped`, `scheduler/scheduler.go:450`). A stop
  accepted before the launch is recorded names no worker; the scheduler takes
  the job for stopped and drops the request, the launch before it goes on.
  README.md:489.
* **A finished job keeps its share of a worker** (`load_leak`,
  `scheduler/scheduler.go:180`). `addNewJobLoad` writes back a load from which a report
  has subtracted a job in between. README.md:541.

* **Detection stops for good** (`late_detection`, `worker/transcoder/worker_transcoder.go:618`).
  A job that has waited for longer than a segment lasts is neither executed nor
  popped, so no later one is either. doc/yolo.md:13. A detector that fails has the
  same effect: the counter of running jobs is not lowered (`:645`).
* **The playlist names a segment that is not there yet** (`early_playlist`,
  `worker/transcoder/worker_transcoder.go:716`). It is written when the segment is put on the
  upload list, and an item already waiting is uploaded with the new content.
  doc/yolo.md:17.

The following have no counterexample run of their own. They are the exceptions
named in properties above; with the exception removed TLC finds the behaviour.

* **A removed worker does not come back** (`LostUntilRestart` proves it).
  `models/worker.go:18` says "it can be re-registered later when its heartbeat
  comes back"; the handler of a heartbeat answers 500 for an unknown id
  (`scheduler/scheduler.go:872`), which worker_app ignores, and it registers only
  without an id (`worker/app/worker_app.go:787`). The jobs it runs are recorded as
  stopped, and may be resumed elsewhere while they run (`TwiceOnlyDisowned`).
* **No worker is ever suspended.** `models/worker.go:14` says that one that misses
  heartbeats is marked "notavailable"; `scheduler/scheduler.go:733` sets this on a copy
  that is not stored (and compares milliseconds with nanoseconds times 1000).
* **A worker that answers may be removed** (`PurgedWasSilent`): its heartbeat is
  undone by the end of a launch, comes between the check's copy and its verdict,
  or bears the time of a clock that lags.
* **Protection that fails is dropped** (`ClearOnlyIf`): the job is accepted and
  streams in the clear; so does every DASH or AV1 stream with protection.
* **AV1** (`RenditionsWired`): one rendition of another codec, or detection, cuts
  ffmpeg's command off before its output (`job/command.go:638`). No property is
  about the next: with AV1 and DASH, Playback_url names `master.mpd`
  (`api_server/api_server_main.go:121`) and ffmpeg writes `1.mpd`
  (`job/command.go:744`).
* **Renditions share files** (`RenditionsApart`) when two have one bitrate; the
  detector's is found by a substring, so that 50k holds back 150k as well, and
  a missing bitrate everything. `Validate` does not check the form of that
  bitrate either: "k", "150" or "video" hold back whatever they are part of.
* **Ports** (`RtmpPortExclusive`, `PortLostOnlyUnstopped`, `UdpPortsApart`): the RTMP port
  of a job that failed or ended by itself is lost; with an empty pool a job
  reuses the port of its last launch; UDP ranges overlap after a job listed
  earlier has ended, and behind a detector's rendition.
* **Orphans** (`ListenersApart`): ffmpeg and the packager run on whenever
  worker_transcoder ends without its handler or its supervision: by a stop
  before the handler is installed, over 300 ms after the start
  (`worker/transcoder/worker_transcoder.go:1264`); by a panic, on the nil FileInfo (`:266`),
  on the empty path of a playlist (`:728`), on a packager that was never started
  (`:93`, `:1273`) or of the runtime on a race; by `os.Exit` where a directory cannot
  be made, which the packager may have made in between (`:1232`); or by SIGKILL.
  worker_app sees that the process has ended and reports it, and nobody looks
  for its children.
* **Segment 1 goes missing** (`StatPanics`, `Rename`): its annotated file is MP4Box's
  output, so the next conversion writes over it and renames it away. If it is
  still on the upload list then, the nil FileInfo is logged: the process panics
  although nothing failed. A conversion that fails leaves there what it found,
  stamped with another time, or an empty file if there was none.
* README.md:413 gives Time_shift_buffer_depth as 0-14400, and a negative one is
  stored as it is; README.md:411 gives Segment_duration as 0-10, and the code
  takes up to 30 (`job/validator.go:18`).

## 6. Not modelled, and the plan

* `JobQueue`: two scheduler instances (README.md:543) step by step inside
  `pollJobQueue` and `scheduleOneJob` (LLEN, LINDEX, RPOP, LPUSH). What it could
  promise is little: the front is read and popped in two commands, so that two
  instances take one job twice and lose another (`scheduler/scheduler.go:391`).
* Transcoder: the upload of `input_info.json`, which one timer and one goroutine
  touch; the time (TFDT) that is stamped into an annotated segment.
* Proofs: the safety steps that the liveness properties rest on (a request that
  is taken goes to the end of the queue, an item that is retried has one retry
  less), as action properties of their own.

Left out for good: what only tunes an encoder in `job/command.go`, and the
detector's command line (they decide nothing that another part reads); the GET
requests and the demo (no state); S3 and the utilities (I/O); the cluster's own
Redis and SQS (external).
