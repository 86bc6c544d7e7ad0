---------------------------- MODULE ControlPlane ----------------------------
(***************************************************************************)
(* The control plane of ezLiveStreaming: API servers, one job scheduler    *)
(* and the live workers, over Redis, SQS and HTTP.                         *)
(***************************************************************************)
EXTENDS ApiServer, WorkerNode, Scheduler

vars == <<sharedVars, apiVars, workerVars, schedulerVars>>

Init == SharedInit /\ ApiInit /\ WorkerInit /\ SchedulerInit

Next ==
  \/ \E h \in Handlers : /\ ApiRequest(h) \/ ApiStep(h)
                         /\ UNCHANGED <<workerVars, schedulerVars>>
  \/ \E w \in Workers : /\ WorkerStep(w)
                        /\ UNCHANGED <<apiVars, schedulerVars>>
  \/ /\ \/ LoopStep
        \/ CallRefused(app[call.to] = "up")
        \/ \E w \in Workers : Purge(w, app[w] = "down") \/ ReportStep(w)
        \/ Restart
     /\ UNCHANGED <<apiVars, workerVars>>

Spec == Init /\ [][Next]_vars

\* net/http serves every request, the tickers keep firing, a signalled process
\* ends, a worker registers until it succeeds.  Clients and failures are free.
Fairness ==
  /\ \A h \in Handlers : WF_vars(ApiStep(h) /\ UNCHANGED <<workerVars, schedulerVars>>)
  /\ WF_vars((LoopStep \/ CallRefused(app[call.to] = "up"))
             /\ UNCHANGED <<apiVars, workerVars>>)
  /\ \A w \in Workers :
       /\ WF_vars(ReportStep(w) /\ UNCHANGED <<apiVars, workerVars>>)
       /\ WF_vars(RegisterWorker(w) /\ UNCHANGED <<apiVars, schedulerVars>>)
       /\ WF_vars(WorkerServes(w) /\ UNCHANGED <<apiVars, schedulerVars>>)
       /\ WF_vars((\E e \in running[w] : Terminate(w, e))
                  /\ UNCHANGED <<apiVars, schedulerVars>>)
       /\ WF_vars(CheckJobStatus(w) /\ UNCHANGED <<apiVars, schedulerVars>>)

FairSpec == Spec /\ Fairness

-----------------------------------------------------------------------------
(***************************************************************************)
(* Where an accepted request can be.                                       *)
(***************************************************************************)
Ids(queue) == {queue[i].id : i \in DOMAIN queue}

InHand == IF call = NoCall THEN {} ELSE {call.msg.id}

Pending == Ids(sqs) \cup Ids(queuedJobs) \cup InHand

Service == INSTANCE RequestService WITH pending <- Pending

(***************************************************************************)
(* What runs on the workers, and what is said to run there.                *)
(***************************************************************************)
Live(w) == {e \in running[w] : e.status # "dead"}

Alive(w, j) == {e \in running[w] : e.job = j /\ e.status = "alive"}

LaunchRequests(j) ==
  {id \in DOMAIN accepted : accepted[id].job = j /\ ~accepted[id].stop}

LaunchedOnce(j) == Cardinality(LaunchRequests(j)) <= 1

\* The user is told that job j is over: its record is stopped or deleted.
Finished(j) ==
  j \in used /\ (allJobs[j] # NoJob => allJobs[j].state = "stopped")

WasLaunched(j) == \E i \in DOMAIN launched : launched[i].job = j

WasLaunchedOn(j, w) ==
  \E i \in DOMAIN launched : launched[i].job = j /\ launched[i].to = w

-----------------------------------------------------------------------------
(***************************************************************************)
(* Safety.                                                                 *)
(***************************************************************************)

\* Every variable has its type.
TypeOK == SharedTypeOK /\ ApiTypeOK /\ WorkerTypeOK /\ SchedulerTypeOK

\* From SendMsg on, a job request is in exactly one of SQS, queued_jobs and the
\* scheduler's hand until the scheduler is done with it, however often a failed
\* launch or stop is put back (scheduleOneJob, bufferJob, pollJobQueue).
ServesOnce == Service!ServiceSpec

\* Failures keep it from being lost too, except that a scheduler that stops takes
\* the job it has popped, and not yet put back, with it.
NoRequestLost ==
  "restart" \notin faults => DOMAIN accepted \subseteq Pending \cup answered

\* The scheduler is never done with a launch request that started nothing: no
\* path of scheduleOneJob drops one, it is always buffered again.
LaunchNeverDropped ==
  \A id \in answered \cap DOMAIN accepted :
    accepted[id].stop \/ \E i \in DOMAIN launched : launched[i].req = id

\* One launch request has at most one transcoder process on the whole cluster,
\* over all the retries on different workers (sendJobToWorker, launchJob), as
\* long as no answer is lost and no message delivered twice.
OneInstancePerRequest ==
  {"reply", "redeliver"} \cap faults = {} =>
  \A v, w \in Workers : \A e \in Live(v), f \in Live(w) : e.req = f.req => e = f

\* scheduleOneJob checks the load before the launch and addNewJobLoad adds to a
\* load it reads again after it; with reports written in between, the recorded
\* load of a worker still exceeds its capacity by less than one job.
WithinCapacity ==
  \A w \in Workers : /\ workerLoads[w].cpu < CpuCapacity + JobCpu
                     /\ workerLoads[w].bandwidth < BandwidthCapacity + JobBandwidth

\* A job that was asked to be launched only once and is shown as stopped, or
\* deleted, has no transcoder left that has not had its SIGTERM.  The record is
\* written by API handlers, the scheduler and report handlers from old copies.
StoppedMeansSignalled ==
  \A j \in Jobs :
    LaunchedOnce(j) /\ Finished(j)
      => \A w \in Workers : Alive(w, j) = {}

\* Whatever old copies are written back, a record never shows a job as running
\* that was never launched, nor a worker that never had it: stops go there.
RecordBacked ==
  \A j \in Jobs :
    allJobs[j] # NoJob =>
      /\ Active(allJobs[j]) => WasLaunched(j)
      /\ allJobs[j].assigned # NoWorker => WasLaunchedOn(j, allJobs[j].assigned)

(***************************************************************************)
(* Liveness, under FairSpec.                                               *)
(***************************************************************************)
RequestIds == 1 .. CallLimit["create"] + CallLimit["stop"] + CallLimit["resume"]

\* Every accepted launch is carried out in the end, also behind a stop that the
\* scheduler keeps putting back: queued_jobs is served in turn.
LaunchServed ==
  \A id \in RequestIds :
    (id \in DOMAIN accepted /\ ~accepted[id].stop) ~> (id \in answered)

StopRequested(j) ==
  \E id \in DOMAIN accepted : /\ accepted[id].job = j /\ accepted[id].stop
                             /\ accepted[id].assigned # NoWorker

Quiet(j) == \A w \in Workers : \A e \in Live(w) : e.job # j

\* When a job that is never resumed is stopped, naming its worker, its process
\* ends, even if it exits by itself meanwhile.
StopEndsProcess ==
  \A j \in Jobs : []LaunchedOnce(j) => (StopRequested(j) ~> []Quiet(j))

\* If it does not exit by itself, the record says stopped in the end and for
\* good, although reports of the dying process set it back to running before.
StopIsRecorded ==
  \A j \in Jobs :
    [](LaunchedOnce(j) /\ faults = {}) => (StopRequested(j) ~> []Finished(j))

-----------------------------------------------------------------------------
(***************************************************************************)
(* What the documentation says and the code does not do.                   *)
(***************************************************************************)

\* A running job cannot be resumed, so that a job has at most one transcoder.
OneInstancePerJob ==
  \A v, w \in Workers : \A e \in Live(v), f \in Live(w) : e.job = f.job => e = f

\* Upon an accepted stop the job's transcoder is stopped, unless it is resumed.
AcceptedStopStops ==
  \A j \in Jobs :
    []LaunchedOnce(j) =>
      ((\E id \in DOMAIN accepted : accepted[id].job = j /\ accepted[id].stop)
         ~> []Quiet(j))

\* When a job has finished on a worker, and this was reported, the worker's load
\* no longer contains it, so that the worker becomes available.
LoadFreed ==
  \A w \in Workers, j \in Jobs :
    report[w].pc = "idle" /\ call = NoCall /\ (\A e \in running[w] : e.job # j)
      => workerLoads[w].jobs[j] = 0
=============================================================================
