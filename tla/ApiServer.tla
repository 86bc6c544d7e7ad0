------------------------------ MODULE ApiServer ------------------------------
(***************************************************************************)
(* The HTTP handlers of api_server that change state: create, stop, resume *)
(* and delete.  net/http runs every request in a goroutine of its own, so  *)
(* two requests for one job interleave between their Redis commands: each  *)
(* handler reads the record, decides, writes the record it read back with  *)
(* the Stop flag changed, and sends that record to the scheduler over SQS. *)
(* A rejected request (403, 404) changes nothing and is a stuttering step. *)
(***************************************************************************)
EXTENDS LiveCluster

CONSTANT Handlers  \* bound: the requests that may be in progress at once

VARIABLES
  api,       \* the goroutine of each handler: [pc, job, rec]
  used,      \* the job ids uuid.New has returned
  calls,     \* bound: calls accepted so far, per operation
  accepted   \* log of the job requests SendMsg has put into SQS

apiVars == <<api, used, calls, accepted>>

ApiPcs == {"idle", "write", "readBack", "send", "delete"}

\* A handler at "idle" has no job; its job and rec are leftovers.
Handler == [pc : ApiPcs, job : Jobs, rec : JobRecord]

AcceptedRequest == [job : Jobs, stop : BOOLEAN,
                    assigned : Workers \cup {NoWorker}]

ApiTypeOK ==
  /\ api \in [Handlers -> Handler]
  /\ used \subseteq Jobs
  /\ calls \in [Operations -> Nat]
  /\ accepted \in Seq(AcceptedRequest)

Resting == [pc |-> "idle", job |-> AnyJob, rec |-> NewJob]

ApiInit ==
  /\ api = [h \in Handlers |-> Resting]
  /\ used = {}
  /\ calls = [op \in Operations |-> 0]
  /\ accepted = <<>>

\* A request is accepted; CallLimit bounds how often.
Count(op) ==
  /\ calls[op] < CallLimit[op]
  /\ calls' = [calls EXCEPT ![op] = @ + 1]

Goto(h, pc) == api' = [api EXCEPT ![h].pc = pc]

Enter(h, pc, j, rec) == api' = [api EXCEPT ![h] = [pc |-> pc, job |-> j, rec |-> rec]]

Finish(h) == api' = [api EXCEPT ![h] = Resting]

\* createJob draws a fresh id and writes the record.
CreateJob(h, j) ==
  /\ api[h].pc = "idle"
  /\ j \notin used
  /\ Count("create")
  /\ used' = used \cup {j}
  /\ HSetJob(j, NewJob)
  /\ Enter(h, "readBack", j, NewJob)
  /\ UNCHANGED <<accepted, queuedJobs, workerLoads, allWorkers, sqs, call,
                 report, faults>>

\* createJob reads the record back; what it finds, or else what it wrote, is
\* what goes to the scheduler.
ReadBack(h) ==
  LET found == allJobs[api[h].job] IN
  /\ api[h].pc = "readBack"
  /\ Enter(h, "send", api[h].job, IF found = NoJob THEN api[h].rec ELSE found)
  /\ UNCHANGED <<used, calls, accepted, sharedVars>>

\* Mutant: stopJob also sets the state, before anything has been stopped.
StopJobMarksStopped(h, j) ==
  /\ api[h].pc = "idle"
  /\ allJobs[j] # NoJob
  /\ allJobs[j].state # "stopped"
  /\ Count("stop")
  /\ Enter(h, "write", j, [allJobs[j] EXCEPT !.stop = TRUE, !.state = "stopped"])
  /\ UNCHANGED <<used, accepted, sharedVars>>

\* The stop handler passes its checks; stopJob will set the flag.
StopJob(h, j) ==
  /\ api[h].pc = "idle"
  /\ allJobs[j] # NoJob
  /\ allJobs[j].state # "stopped"
  /\ Count("stop")
  /\ Enter(h, "write", j, [allJobs[j] EXCEPT !.stop = TRUE])
  /\ UNCHANGED <<used, accepted, sharedVars>>

\* The resume handler passes its checks; resumeJob will clear the flag.
ResumeJob(h, j) ==
  /\ api[h].pc = "idle"
  /\ allJobs[j] # NoJob
  /\ ~Active(allJobs[j])
  /\ Count("resume")
  /\ Enter(h, "write", j, [allJobs[j] EXCEPT !.stop = FALSE])
  /\ UNCHANGED <<used, accepted, sharedVars>>

\* stopJob and resumeJob write the whole record the handler read earlier.
WriteRecord(h) ==
  /\ api[h].pc = "write"
  /\ HSetJob(api[h].job, api[h].rec)
  /\ Goto(h, "send")
  /\ UNCHANGED <<used, calls, accepted, queuedJobs, workerLoads, allWorkers,
                 sqs, call, report, faults>>

\* SendMsg succeeds: the request is accepted.
SendMsg(h) ==
  /\ api[h].pc = "send"
  /\ sqs' = Append(sqs, [id |-> Len(accepted) + 1, job |-> api[h].job,
                         rec |-> api[h].rec])
  /\ accepted' = Append(accepted, [job |-> api[h].job, stop |-> api[h].rec.stop,
                                   assigned |-> api[h].rec.assigned])
  /\ Finish(h)
  /\ UNCHANGED <<used, calls, redisVars, call, report, faults>>

\* SendMsg fails: 500, and the record stays as it was written.
SendMsgFails(h) ==
  /\ api[h].pc = "send"
  /\ Fail("send")
  /\ Finish(h)
  /\ UNCHANGED <<used, calls, accepted, redisVars, sqs, call, report>>

\* The delete handler passes its checks ...
DeleteJob(h, j) ==
  /\ api[h].pc = "idle"
  /\ allJobs[j] # NoJob
  /\ allJobs[j].state = "stopped"
  /\ Count("delete")
  /\ Enter(h, "delete", j, allJobs[j])
  /\ UNCHANGED <<used, accepted, sharedVars>>

\* ... and removes whatever record is there by then.
DeleteRecord(h) ==
  /\ api[h].pc = "delete"
  /\ HDelJob(api[h].job)
  /\ Finish(h)
  /\ UNCHANGED <<used, calls, accepted, queuedJobs, workerLoads, allWorkers,
                 sqs, call, report, faults>>

ApiStep(h) ==
  \/ ReadBack(h) \/ WriteRecord(h) \/ SendMsg(h) \/ SendMsgFails(h)
  \/ DeleteRecord(h)

ApiRequest(h) ==
  \E j \in Jobs : CreateJob(h, j) \/ StopJob(h, j) \/ ResumeJob(h, j)
                  \/ DeleteJob(h, j)
==============================================================================
