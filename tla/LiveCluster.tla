----------------------------- MODULE LiveCluster -----------------------------
(***************************************************************************)
(* What the processes of an ezLiveStreaming cluster share: the four Redis  *)
(* tables that hold all of the cluster's state, the SQS job queue between  *)
(* the API servers and the job scheduler, and the two HTTP exchanges       *)
(* between the scheduler and the live workers.  The modules ApiServer,     *)
(* WorkerNode and Scheduler extend this one; ControlPlane composes them.   *)
(***************************************************************************)
EXTENDS Integers, Sequences, FiniteSets

CONSTANTS
  Jobs,         \* the ids that createJob may draw (uuid.New)
  Workers,      \* the ids that createWorker may draw (uuid.New)
  NoJob,        \* "no record under this id in the jobs table"
  NoWorker,     \* the empty Assigned_worker_id
  NoCall,       \* "the scheduler has no job request in hand"
  JobCpu,       \* what estimateJobLoad says of a job: CPU ...
  JobBandwidth, \* ... and bandwidth
  CpuCapacity,  \* WorkerInfo.CpuCapacity of every worker
  BandwidthCapacity,
  Bandwidths,   \* the ingress readings a worker may report, in kbps
  CallLimit,    \* bound: how many calls of each API operation are accepted
  Faults,       \* the kinds of failure that may happen, each once ...
  FaultLimit    \* bound: ... and how many of them may happen in one behaviour

Operations == {"create", "stop", "resume", "delete"}

FaultKinds == {"send",      \* SendMsg returns an error
               "redeliver", \* DeleteMsg fails: SQS delivers the message again
               "launch",    \* worker_transcoder exits within 100 ms
               "exit",      \* worker_transcoder exits on its own
               "reply",     \* the worker's HTTP response is lost
               "report",    \* the worker's status report is lost
               "down",      \* a worker host stops
               "restart"}   \* the scheduler process stops and is restarted

ASSUME ConstantsAssumption ==
  /\ JobCpu \in Nat \ {0} /\ JobBandwidth \in Nat \ {0}
  /\ CpuCapacity \in Nat /\ BandwidthCapacity \in Nat
  /\ Bandwidths \subseteq Nat
  /\ CallLimit \in [Operations -> Nat]
  /\ Faults \subseteq FaultKinds
  /\ FaultLimit \in Nat
  /\ Jobs # {} /\ NoWorker \notin Workers

(***************************************************************************)
(* Records.                                                                *)
(***************************************************************************)
JobStates == {"created", "running", "streaming", "stopped"}

Active(rec) == rec.state \in {"running", "streaming"}

JobRecord == [state : JobStates, assigned : Workers \cup {NoWorker},
              stop : BOOLEAN]

\* The value of a variable that names a job while it is not in use.
AnyJob == CHOOSE j \in Jobs : TRUE

NewJob == [state |-> "created", assigned |-> NoWorker, stop |-> FALSE]

\* An SQS message body is the job record itself; "id" numbers the accepted
\* request it carries and is read by the properties only.
Message == [id : Nat, job : Jobs, rec : JobRecord]

\* The load table keeps, next to the two sums, the list of the jobs that make
\* them up; the list is a bag here because its order is never used.
Load == [cpu : Int, bandwidth : Int, jobs : [Jobs -> Nat]]

\* updateWorkerLoad and addNewJobLoad do not tell an absent load from this one.
NoLoad == [cpu |-> 0, bandwidth |-> 0, jobs |-> [j \in Jobs |-> 0]]

\* An element of running_jobs: the n-th transcoder process of the cluster,
\* started for request req of a job.  "dying" has had SIGTERM, "dead" is gone.
Instance == [n : Nat, job : Jobs, req : Nat, status : {"alive", "dying", "dead"}]

\* running_jobs is in launch order, so its front is the entry with the least n.
Oldest(entries) == CHOOSE e \in entries : \A f \in entries : e.n <= f.n

(***************************************************************************)
(* Shared state.                                                           *)
(***************************************************************************)
VARIABLES
  allJobs,      \* Redis hash "jobs": job id -> record
  queuedJobs,   \* Redis list "queued_jobs", its front first
  workerLoads,  \* Redis hash "worker_loads"
  allWorkers,   \* Redis hash "workers": the State of each, "absent" if none
  sqs,          \* the FIFO job queue
  call,         \* the scheduler's HTTP request to a worker
  report,       \* per worker, its POST /jobstatus being handled
  faults        \* bound: the kinds of failure that have happened, once each

redisVars  == <<allJobs, queuedJobs, workerLoads, allWorkers>>
sharedVars == <<redisVars, sqs, call, report, faults>>

\* The answers to a job request: the worker's status codes and, for a request
\* whose response never came, the error of http.Client.Do.
Codes == {"none", "201", "200", "404", "500", "error"}

Call == [to : Workers, msg : Message, code : Codes]

ASSUME AbsenceAssumption == NoJob \notin JobRecord /\ NoCall \notin Call

ReportPcs == {"idle", "next", "write", "loadRead", "loadWrite"}

Report == [pc : ReportPcs, stopped : SUBSET Instance,
           stats : SUBSET [n : Nat, job : Jobs, bandwidth : Nat],
           rec : JobRecord \cup {NoJob}, load : Load]

NoReport == [pc |-> "idle", stopped |-> {}, stats |-> {}, rec |-> NoJob,
             load |-> NoLoad]

SharedTypeOK ==
  /\ allJobs \in [Jobs -> JobRecord \cup {NoJob}]
  /\ queuedJobs \in Seq(Message)
  /\ workerLoads \in [Workers -> Load]
  /\ allWorkers \in [Workers -> {"absent", "idle", "loaded"}]
  /\ sqs \in Seq(Message)
  /\ call \in Call \cup {NoCall}
  /\ report \in [Workers -> Report]
  /\ faults \subseteq FaultKinds

SharedInit ==
  /\ allJobs = [j \in Jobs |-> NoJob]
  /\ queuedJobs = <<>>
  /\ workerLoads = [w \in Workers |-> NoLoad]
  /\ allWorkers = [w \in Workers |-> "absent"]
  /\ sqs = <<>>
  /\ call = NoCall
  /\ report = [w \in Workers |-> NoReport]
  /\ faults = {}

(***************************************************************************)
(* Redis commands and failures.                                            *)
(***************************************************************************)
HSetJob(j, rec) == allJobs' = [allJobs EXCEPT ![j] = rec]

HDelJob(j) == allJobs' = [allJobs EXCEPT ![j] = NoJob]

\* QPushStruct is LPUSH; the front is the right end of the Redis list.
QPush(msg) == Append(queuedJobs, msg)

\* A failure of the given kind happens now.
Fail(kind) ==
  /\ kind \in Faults \ faults
  /\ Cardinality(faults) < FaultLimit
  /\ faults' = faults \cup {kind}
==============================================================================
