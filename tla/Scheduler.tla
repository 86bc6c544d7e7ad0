------------------------------ MODULE Scheduler ------------------------------
(***************************************************************************)
(* The job scheduler: one goroutine driven by a ticker, which schedules    *)
(* one queued job, every other time polls SQS, and now and then removes    *)
(* the workers whose heartbeats are missing; and the handler of the        *)
(* workers' status reports, which runs concurrently with it.  Both read a  *)
(* Redis value in one step and write it back, changed, in a later one.     *)
(***************************************************************************)
EXTENDS LiveCluster

CONSTANTS
  PollMultiplier,  \* sqs_poll_interval_multiplier
  IngestThreshold  \* ingest_bandwidth_threshold_kbps

ASSUME SchedulerAssumption ==
  PollMultiplier \in Nat \ {0} /\ IngestThreshold \in Nat

VARIABLES
  sch,       \* the ticker goroutine: where it is and what it has read
  answered   \* the ids of the requests the scheduler is done with

schedulerVars == <<sch, answered>>

LoopPcs == {"tick", "poll", "wait", "loadRead", "loadWrite", "purge", "purgeWrite"}

Loop == [pc : LoopPcs,
         tick : Nat,                         \* sqs_poll_timer_counter
         load : Load,                        \* read by addNewJobLoad
         wid : Workers \cup {NoWorker},      \* being removed ...
         todo : SUBSET Jobs,                 \* ... its jobs still to be marked
         job : Jobs, rec : JobRecord \cup {NoJob}]

LoopStart == [pc |-> "tick", tick |-> 0, load |-> NoLoad, wid |-> NoWorker,
              todo |-> {}, job |-> AnyJob, rec |-> NoJob]

SchedulerTypeOK == sch \in Loop /\ answered \subseteq Nat

SchedulerInit == sch = LoopStart /\ answered = {}

(***************************************************************************)
(* The ticker: scheduleOneJob, then the SQS poll on every PollMultiplier-th *)
(* tick.                                                                   *)
(***************************************************************************)
EndSchedule ==
  sch' = [LoopStart EXCEPT !.tick = (sch.tick + 1) % PollMultiplier,
                           !.pc = IF sch.tick + 1 = PollMultiplier
                                  THEN "poll" ELSE "tick"]

EndPoll == sch' = [sch EXCEPT !.pc = "tick"]

Done(msg) == answered' = answered \cup {msg.id}

(***************************************************************************)
(* pollJobQueue: a message that is not a stop overwrites the job's record; *)
(* then the message is buffered, then deleted from SQS.                    *)
(***************************************************************************)
Buffer(msg) ==
  /\ allJobs' = IF msg.rec.stop THEN allJobs
                ELSE [allJobs EXCEPT ![msg.job] = msg.rec]
  /\ queuedJobs' = QPush(msg)

PollEmpty ==
  /\ sch.pc = "poll" /\ sqs = <<>>
  /\ EndPoll
  /\ UNCHANGED <<answered, sharedVars>>

PollJobQueue ==
  /\ sch.pc = "poll" /\ sqs # <<>>
  /\ Buffer(Head(sqs))
  /\ sqs' = Tail(sqs)
  /\ EndPoll
  /\ UNCHANGED <<answered, workerLoads, allWorkers, call, report, faults>>

\* DeleteMsg fails and its error is ignored: SQS will deliver the message again.
PollRedelivered ==
  /\ sch.pc = "poll" /\ sqs # <<>>
  /\ Fail("redeliver")
  /\ Buffer(Head(sqs))
  /\ EndPoll
  /\ UNCHANGED <<answered, sqs, workerLoads, allWorkers, call, report>>

(***************************************************************************)
(* scheduleOneJob, up to the HTTP request.                                 *)
(***************************************************************************)
Available == {w \in Workers : allWorkers[w] \in {"idle", "loaded"}}

\* Mutant: the comparison includes the limit.
HasCapacityOrFull(w) ==
  /\ workerLoads[w].cpu <= CpuCapacity
  /\ workerLoads[w].bandwidth <= BandwidthCapacity

HasCapacity(w) ==
  /\ workerLoads[w].cpu < CpuCapacity
  /\ workerLoads[w].bandwidth < BandwidthCapacity

\* getJobBufferFront and popBufferedJob: the job this iteration is about.
Front == Head(queuedJobs)

Pops(stop) ==
  /\ sch.pc = "tick"
  /\ queuedJobs # <<>>
  /\ Front.rec.stop = stop

ScheduleEmpty ==
  /\ sch.pc = "tick" /\ queuedJobs = <<>>
  /\ EndSchedule
  /\ UNCHANGED <<answered, sharedVars>>

\* Mutant: a job that cannot be assigned is not buffered again.
ScheduleLaterDropped ==
  /\ Pops(FALSE)
  /\ \/ Available = {}
     \/ \E w \in Available : ~HasCapacity(w)
  /\ queuedJobs' = Tail(queuedJobs)
  /\ EndSchedule
  /\ UNCHANGED <<answered, allJobs, workerLoads, allWorkers, sqs, call, report,
                 faults>>

\* Mutant: it is given up.
ScheduleLaterGivenUp ==
  /\ Pops(FALSE)
  /\ Available = {}
  /\ queuedJobs' = Tail(queuedJobs)
  /\ Done(Front)
  /\ EndSchedule
  /\ UNCHANGED <<allJobs, workerLoads, allWorkers, sqs, call, report, faults>>

\* No worker at all, or the one drawn at random is full: back to the queue.
ScheduleLater ==
  /\ Pops(FALSE)
  /\ \/ Available = {}
     \/ \E w \in Available : ~HasCapacity(w)
  /\ queuedJobs' = Append(Tail(queuedJobs), Front)
  /\ EndSchedule
  /\ UNCHANGED <<answered, allJobs, workerLoads, allWorkers, sqs, call, report,
                 faults>>

\* Mutant: the front of the queue is read but not popped.
SendToUnpopped(w) ==
  /\ call' = [to |-> w, msg |-> Front, code |-> "none"]
  /\ sch' = [sch EXCEPT !.pc = "wait"]
  /\ UNCHANGED <<answered, redisVars, sqs, report, faults>>

\* Mutant: the record names the worker before it has the job.
SendToRecorded(w) ==
  /\ queuedJobs' = Tail(queuedJobs)
  /\ HSetJob(Front.job, [Front.rec EXCEPT !.assigned = w])
  /\ call' = [to |-> w, msg |-> Front, code |-> "none"]
  /\ sch' = [sch EXCEPT !.pc = "wait"]
  /\ UNCHANGED <<answered, workerLoads, allWorkers, sqs, report, faults>>

SendTo(w) ==
  /\ queuedJobs' = Tail(queuedJobs)
  /\ call' = [to |-> w, msg |-> Front, code |-> "none"]
  /\ sch' = [sch EXCEPT !.pc = "wait"]
  /\ UNCHANGED <<answered, allJobs, workerLoads, allWorkers, sqs, report, faults>>

SendLaunch(w) ==
  /\ Pops(FALSE)
  /\ w \in Available /\ HasCapacity(w)
  /\ SendTo(w)

\* A stop goes to the worker its record names, if that worker is registered.
Reachable(w) == w \in Workers /\ allWorkers[w] # "absent"

SendStop ==
  /\ Pops(TRUE)
  /\ Reachable(Front.rec.assigned)
  /\ SendTo(Front.rec.assigned)

DropStop ==
  /\ Pops(TRUE)
  /\ ~Reachable(Front.rec.assigned)
  /\ queuedJobs' = Tail(queuedJobs)
  /\ Done(Front)
  /\ EndSchedule
  /\ UNCHANGED <<allJobs, workerLoads, allWorkers, sqs, call, report, faults>>

Schedule ==
  \/ ScheduleEmpty \/ ScheduleLater \/ SendStop \/ DropStop
  \/ \E w \in Workers : SendLaunch(w)

(***************************************************************************)
(* http.Client.Do fails: the worker is gone, or its answer is lost.        *)
(***************************************************************************)
Fails(cause) ==
  /\ sch.pc = "wait" /\ call # NoCall
  /\ cause
  /\ call' = [call EXCEPT !.code = "error"]

\* "reachable" is whether the worker_app of call.to accepts connections.
CallRefused(reachable) ==
  /\ Fails(call.code = "none" /\ ~reachable)
  /\ UNCHANGED <<schedulerVars, redisVars, sqs, report, faults>>

ReplyLost ==
  /\ Fails(call.code \notin {"none", "error"})
  /\ Fail("reply")
  /\ UNCHANGED <<schedulerVars, redisVars, sqs, report>>

(***************************************************************************)
(* sendJobToWorker, from the worker's answer on.                           *)
(***************************************************************************)
Replied(stop, codes) ==
  /\ sch.pc = "wait" /\ call # NoCall
  /\ call.msg.rec.stop = stop
  /\ call.code \in codes

\* Mutant: a failed request is not buffered again.
RequeueDropped(stop, codes) ==
  /\ Replied(stop, codes)
  /\ call' = NoCall
  /\ EndSchedule
  /\ UNCHANGED <<answered, redisVars, sqs, report, faults>>

\* Mutant: a failed request is given up.
RequeueGivenUp(stop, codes) ==
  /\ Replied(stop, codes)
  /\ Done(call.msg)
  /\ call' = NoCall
  /\ EndSchedule
  /\ UNCHANGED <<redisVars, sqs, report, faults>>

\* Mutant: a failed request is put back at the front.
RequeueFirst(stop, codes) ==
  /\ Replied(stop, codes)
  /\ queuedJobs' = <<call.msg>> \o queuedJobs
  /\ call' = NoCall
  /\ EndSchedule
  /\ UNCHANGED <<answered, allJobs, workerLoads, allWorkers, sqs, report, faults>>

\* The request goes back to the queue, whatever was wrong: only a launch that
\* is answered "jobNotFound" would be dropped, and no worker says that of one.
Requeue(stop, codes) ==
  /\ Replied(stop, codes)
  /\ queuedJobs' = QPush(call.msg)
  /\ call' = NoCall
  /\ EndSchedule
  /\ UNCHANGED <<answered, allJobs, workerLoads, allWorkers, sqs, report, faults>>

LaunchFailed == Requeue(FALSE, {"500", "error"})

StopFailed == Requeue(TRUE, {"404", "500", "error"})

\* Mutant: an error of http.Client.Do is taken for success.
LaunchConfirmedOnError ==
  /\ Replied(FALSE, {"201", "error"})
  /\ HSetJob(call.msg.job, [call.msg.rec EXCEPT !.state = "running",
                                                !.assigned = call.to])
  /\ sch' = [sch EXCEPT !.pc = "loadRead"]
  /\ UNCHANGED <<answered, queuedJobs, workerLoads, allWorkers, sqs, call,
                 report, faults>>

\* The worker answers a launch with the job it was sent.
LaunchConfirmed ==
  /\ Replied(FALSE, {"201"})
  /\ HSetJob(call.msg.job, [call.msg.rec EXCEPT !.state = "running",
                                                !.assigned = call.to])
  /\ sch' = [sch EXCEPT !.pc = "loadRead"]
  /\ UNCHANGED <<answered, queuedJobs, workerLoads, allWorkers, sqs, call,
                 report, faults>>

\* addNewJobLoad reads the worker's load ...
AddLoadRead ==
  /\ sch.pc = "loadRead"
  /\ sch' = [sch EXCEPT !.pc = "loadWrite", !.load = workerLoads[call.to]]
  /\ UNCHANGED <<answered, sharedVars>>

Plus(load, j) ==
  [cpu |-> load.cpu + JobCpu, bandwidth |-> load.bandwidth + JobBandwidth,
   jobs |-> [load.jobs EXCEPT ![j] = @ + 1]]

Minus(load, j) ==
  [cpu |-> load.cpu - JobCpu, bandwidth |-> load.bandwidth - JobBandwidth,
   jobs |-> [load.jobs EXCEPT ![j] = @ - 1]]

\* ... and writes it with the new job, and the worker as loaded.
AddLoadWrite ==
  /\ sch.pc = "loadWrite"
  /\ workerLoads' = [workerLoads EXCEPT ![call.to] = Plus(sch.load, call.msg.job)]
  /\ allWorkers' = [allWorkers EXCEPT ![call.to] = "loaded"]
  /\ Done(call.msg)
  /\ call' = NoCall
  /\ EndSchedule
  /\ UNCHANGED <<allJobs, queuedJobs, sqs, report, faults>>

\* The record is that of the message, not the one in Redis now.
StopConfirmed ==
  /\ Replied(TRUE, {"200"})
  /\ HSetJob(call.msg.job, [state |-> "stopped", assigned |-> NoWorker,
                            stop |-> FALSE])
  /\ Done(call.msg)
  /\ call' = NoCall
  /\ EndSchedule
  /\ UNCHANGED <<queuedJobs, workerLoads, allWorkers, sqs, report, faults>>

(***************************************************************************)
(* check_worker_heartbeat, between two iterations: a worker that has been  *)
(* silent for too long.  stopWorkerJobs marks the jobs of its load as      *)
(* stopped, reading and writing each record; then the worker is removed.   *)
(***************************************************************************)
Purge(w, silent) ==
  /\ sch.pc = "tick"
  /\ allWorkers[w] # "absent" /\ silent
  /\ sch' = [sch EXCEPT !.pc = "purge", !.wid = w,
                        !.todo = {j \in Jobs : workerLoads[w].jobs[j] > 0}]
  /\ UNCHANGED <<answered, sharedVars>>

PurgeRead(j) ==
  /\ sch.pc = "purge" /\ j \in sch.todo
  /\ sch' = [sch EXCEPT !.pc = IF allJobs[j] = NoJob THEN "purge" ELSE "purgeWrite",
                        !.todo = @ \ {j}, !.job = j, !.rec = allJobs[j]]
  /\ UNCHANGED <<answered, sharedVars>>

PurgeWrite ==
  /\ sch.pc = "purgeWrite"
  /\ HSetJob(sch.job, [sch.rec EXCEPT !.state = "stopped"])
  /\ sch' = [sch EXCEPT !.pc = "purge", !.job = AnyJob, !.rec = NoJob]
  /\ UNCHANGED <<answered, queuedJobs, workerLoads, allWorkers, sqs, call,
                 report, faults>>

RemoveWorker ==
  /\ sch.pc = "purge" /\ sch.todo = {}
  /\ allWorkers' = [allWorkers EXCEPT ![sch.wid] = "absent"]
  /\ sch' = [LoopStart EXCEPT !.tick = sch.tick]
  /\ UNCHANGED <<answered, allJobs, queuedJobs, workerLoads, sqs, call, report,
                 faults>>

(***************************************************************************)
(* POST /jobstatus: first each stopped job (its record, then the worker's  *)
(* load), then the readings of each running one.                           *)
(***************************************************************************)
\* The item the handler is at: stopped jobs first, each in list order.
ReportItem(w) ==
  IF report[w].stopped # {} THEN Oldest(report[w].stopped)
  ELSE Oldest(report[w].stats)

InStopped(w) == report[w].stopped # {}

NextItem(r, w) ==
  IF InStopped(w)
  THEN [r EXCEPT !.pc = "next", !.stopped = @ \ {ReportItem(w)},
                 !.rec = NoJob, !.load = NoLoad]
  ELSE [r EXCEPT !.pc = "next", !.stats = @ \ {ReportItem(w)}, !.rec = NoJob]

Reporting(w, pc) == report[w].pc = pc

\* Mutant: the report of a stopped job is ignored once no worker is assigned.
ReportReadAssigned(w) ==
  LET rec == allJobs[ReportItem(w).job] IN
  /\ Reporting(w, "next")
  /\ report[w].stopped # {} \/ report[w].stats # {}
  /\ report' = [report EXCEPT ![w] =
       IF rec # NoJob /\ (InStopped(w) => rec.assigned # NoWorker)
       THEN [@ EXCEPT !.pc = "write", !.rec = rec]
       ELSE IF InStopped(w) THEN [@ EXCEPT !.pc = "loadRead"]
       ELSE NextItem(@, w)]
  /\ UNCHANGED <<schedulerVars, redisVars, sqs, call, faults>>

\* getJobById; a job that is not found is skipped, but its load is not.
ReportRead(w) ==
  LET rec == allJobs[ReportItem(w).job] IN
  /\ Reporting(w, "next")
  /\ report[w].stopped # {} \/ report[w].stats # {}
  /\ report' = [report EXCEPT ![w] =
       IF rec # NoJob THEN [@ EXCEPT !.pc = "write", !.rec = rec]
       ELSE IF InStopped(w) THEN [@ EXCEPT !.pc = "loadRead"]
       ELSE NextItem(@, w)]
  /\ UNCHANGED <<schedulerVars, redisVars, sqs, call, faults>>

ReportedState(w) ==
  IF InStopped(w) THEN "stopped"
  ELSE IF ReportItem(w).bandwidth > IngestThreshold THEN "streaming"
  ELSE "running"

ReportWrite(w) ==
  /\ Reporting(w, "write")
  /\ HSetJob(ReportItem(w).job, [report[w].rec EXCEPT !.state = ReportedState(w)])
  /\ report' = [report EXCEPT ![w] = IF InStopped(w)
                                    THEN [@ EXCEPT !.pc = "loadRead", !.rec = NoJob]
                                    ELSE NextItem(@, w)]
  /\ UNCHANGED <<schedulerVars, queuedJobs, workerLoads, allWorkers, sqs, call,
                 faults>>

\* Mutant: the job is not looked up in the worker's load.
ReportLoadReadUnchecked(w) ==
  /\ Reporting(w, "loadRead")
  /\ report' = [report EXCEPT ![w] =
       [@ EXCEPT !.pc = "loadWrite", !.load = workerLoads[w]]]
  /\ UNCHANGED <<schedulerVars, redisVars, sqs, call, faults>>

\* updateWorkerLoad: JobLoadNotFound when the job is not in the list.
ReportLoadRead(w) ==
  /\ Reporting(w, "loadRead")
  /\ report' = [report EXCEPT ![w] =
       IF workerLoads[w].jobs[ReportItem(w).job] > 0
       THEN [@ EXCEPT !.pc = "loadWrite", !.load = workerLoads[w]]
       ELSE NextItem(@, w)]
  /\ UNCHANGED <<schedulerVars, redisVars, sqs, call, faults>>

ReportLoadWrite(w) ==
  /\ Reporting(w, "loadWrite")
  /\ workerLoads' = [workerLoads EXCEPT ![w] =
                       Minus(report[w].load, ReportItem(w).job)]
  /\ report' = [report EXCEPT ![w] = NextItem(@, w)]
  /\ UNCHANGED <<schedulerVars, allJobs, queuedJobs, allWorkers, sqs, call,
                 faults>>

ReportDone(w) ==
  /\ Reporting(w, "next")
  /\ report[w].stopped = {} /\ report[w].stats = {}
  /\ report' = [report EXCEPT ![w] = NoReport]
  /\ UNCHANGED <<schedulerVars, redisVars, sqs, call, faults>>

ReportStep(w) ==
  \/ ReportRead(w) \/ ReportWrite(w) \/ ReportLoadRead(w) \/ ReportLoadWrite(w)
  \/ ReportDone(w)

(***************************************************************************)
(* The scheduler process stops and a new one starts: what its goroutines   *)
(* held is gone, Redis and SQS are not.                                    *)
(***************************************************************************)
Restart ==
  /\ Fail("restart")
  /\ sch' = LoopStart
  /\ call' = NoCall
  /\ report' = [w \in Workers |-> NoReport]
  /\ UNCHANGED <<answered, redisVars, sqs>>

LoopStep ==
  \/ Schedule
  \/ PollEmpty \/ PollJobQueue \/ PollRedelivered
  \/ ReplyLost \/ LaunchFailed \/ StopFailed
  \/ LaunchConfirmed \/ AddLoadRead \/ AddLoadWrite \/ StopConfirmed
  \/ \E j \in Jobs : PurgeRead(j)
  \/ PurgeWrite \/ RemoveWorker
==============================================================================
