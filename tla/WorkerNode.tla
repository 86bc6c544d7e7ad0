------------------------------ MODULE WorkerNode ------------------------------
(***************************************************************************)
(* A live worker as the scheduler sees it: worker_app's table of assigned  *)
(* jobs, its list of transcoder processes, the two requests it serves      *)
(* (launch and stop), and the status check that runs every three seconds.  *)
(* One request is one step here; ports and the steps inside a request are  *)
(* abstracted away.                                                        *)
(***************************************************************************)
EXTENDS LiveCluster

VARIABLES
  app,       \* the worker_app of each id: "new" until it registers
  jobs,      \* worker_app.jobs: the ids of the jobs assigned to it
  running,   \* worker_app.running_jobs
  launched   \* log of the transcoder processes started

workerVars == <<app, jobs, running, launched>>

WorkerTypeOK ==
  /\ app \in [Workers -> {"new", "up", "down"}]
  /\ jobs \in [Workers -> SUBSET Jobs]
  /\ running \in [Workers -> SUBSET Instance]
  /\ launched \in Seq([job : Jobs, req : Nat, to : Workers])

WorkerInit ==
  /\ app = [w \in Workers |-> "new"]
  /\ jobs = [w \in Workers |-> {}]
  /\ running = [w \in Workers |-> {}]
  /\ launched = <<>>

Entries(w, j) == {e \in running[w] : e.job = j}

Answer(code) == call' = [call EXCEPT !.code = code]

\* A request of the scheduler has reached worker w.
Requested(w) ==
  /\ call # NoCall
  /\ call.to = w
  /\ call.code = "none"
  /\ app[w] = "up"

(***************************************************************************)
(* registerWorker, at start: createWorker gives the worker a fresh id.     *)
(***************************************************************************)
RegisterWorker(w) ==
  /\ app[w] = "new"
  /\ app' = [app EXCEPT ![w] = "up"]
  /\ allWorkers' = [allWorkers EXCEPT ![w] = "idle"]
  /\ UNCHANGED <<jobs, running, launched, allJobs, queuedJobs, workerLoads,
                 sqs, call, report, faults>>

(***************************************************************************)
(* POST /jobs.                                                             *)
(***************************************************************************)
NewInstance(status) ==
  [n |-> Len(launched) + 1, job |-> call.msg.job, req |-> call.msg.id,
   status |-> status]

StartInstance(w, status) ==
  /\ running' = [running EXCEPT ![w] = @ \cup {NewInstance(status)}]
  /\ launched' = Append(launched, [job |-> call.msg.job, req |-> call.msg.id,
                                   to |-> w])

HandleCreate(w) ==
  /\ Requested(w) /\ ~call.msg.rec.stop
  /\ jobs' = [jobs EXCEPT ![w] = @ \cup {call.msg.job}]
  /\ StartInstance(w, "alive")
  /\ Answer("201")
  /\ UNCHANGED <<app, redisVars, sqs, report, faults>>

\* Mutant: launchJob reports a failure although the process runs.
HandleCreateFailsRunning(w) ==
  /\ Requested(w) /\ ~call.msg.rec.stop
  /\ Fail("launch")
  /\ jobs' = [jobs EXCEPT ![w] = @ \ {call.msg.job}]
  /\ StartInstance(w, "alive")
  /\ Answer("500")
  /\ UNCHANGED <<app, redisVars, sqs, report>>

\* launchJob finds that the process ended within 100 ms: the job leaves the
\* table of jobs, its entry stays in running_jobs for the next status check.
HandleCreateFails(w) ==
  /\ Requested(w) /\ ~call.msg.rec.stop
  /\ Fail("launch")
  /\ jobs' = [jobs EXCEPT ![w] = @ \ {call.msg.job}]
  /\ StartInstance(w, "dead")
  /\ Answer("500")
  /\ UNCHANGED <<app, redisVars, sqs, report>>

(***************************************************************************)
(* PUT /jobs/[id]/stop.  stopJob signals the first process it finds for    *)
(* the job; a signal to a process that is gone fails.                      *)
(***************************************************************************)
HandleStopNotFound(w) ==
  /\ Requested(w) /\ call.msg.rec.stop
  /\ \/ call.msg.job \notin jobs[w]
     \/ Entries(w, call.msg.job) = {}
  /\ Answer("404")
  /\ UNCHANGED <<workerVars, redisVars, sqs, report, faults>>

\* Mutant: stopJob forgets the job without signalling its process.
HandleStopUnsignalled(w) ==
  /\ Requested(w) /\ call.msg.rec.stop
  /\ call.msg.job \in jobs[w] /\ Entries(w, call.msg.job) # {}
  /\ Answer("200")
  /\ jobs' = [jobs EXCEPT ![w] = @ \ {call.msg.job}]
  /\ UNCHANGED <<app, running, launched, redisVars, sqs, report, faults>>

HandleStop(w) ==
  LET j == call.msg.job
      e == Oldest(Entries(w, j)) IN
  /\ Requested(w) /\ call.msg.rec.stop
  /\ j \in jobs[w] /\ Entries(w, j) # {}
  /\ IF e.status = "dead"
     THEN /\ Answer("500")
          /\ UNCHANGED <<jobs, running>>
     ELSE /\ Answer("200")
          /\ jobs' = [jobs EXCEPT ![w] = @ \ {j}]
          /\ running' = [running EXCEPT ![w] =
                           (@ \ {e}) \cup {[e EXCEPT !.status = "dying"]}]
  /\ UNCHANGED <<app, launched, redisVars, sqs, report, faults>>

(***************************************************************************)
(* The transcoder processes.                                               *)
(***************************************************************************)
Die(w, e) ==
  running' = [running EXCEPT ![w] = (@ \ {e}) \cup {[e EXCEPT !.status = "dead"]}]

\* A process that has had SIGTERM ends.
Terminate(w, e) ==
  /\ e \in running[w] /\ e.status = "dying"
  /\ Die(w, e)
  /\ UNCHANGED <<app, jobs, launched, sharedVars>>

\* A process ends on its own: ffmpeg or the packager failed.
Exit(w, e) ==
  /\ e \in running[w] /\ e.status = "alive"
  /\ Fail("exit")
  /\ Die(w, e)
  /\ UNCHANGED <<app, jobs, launched, redisVars, sqs, call, report>>

(***************************************************************************)
(* checkJobStatus: the entries whose process is gone leave running_jobs    *)
(* and are reported as stopped, the others with their last ingress reading *)
(* (0 when the job is no longer in the table of jobs).  The ticker waits   *)
(* for the answer, so a worker has one report under way.                   *)
(***************************************************************************)
Gone(w) == {e \in running[w] : e.status = "dead"}

Readings(w, e) == IF e.job \in jobs[w] THEN Bandwidths ELSE {0}

Stats(w, bandwidth) ==
  {[n |-> e.n, job |-> e.job, bandwidth |-> bandwidth[e]] :
     e \in running[w] \ Gone(w)}

CheckJobStatus(w) ==
  /\ app[w] = "up" /\ running[w] # {}
  /\ report[w].pc = "idle"
  /\ \E bandwidth \in [running[w] \ Gone(w) -> Bandwidths \cup {0}] :
       /\ \A e \in running[w] \ Gone(w) : bandwidth[e] \in Readings(w, e)
       /\ report' = [report EXCEPT ![w] =
                       [NoReport EXCEPT !.pc = "next", !.stopped = Gone(w),
                                        !.stats = Stats(w, bandwidth)]]
  /\ running' = [running EXCEPT ![w] = @ \ Gone(w)]
  /\ UNCHANGED <<app, jobs, launched, redisVars, sqs, call, faults>>

\* The report does not reach the scheduler; checkJobStatus ignores the error.
ReportLost(w) ==
  /\ app[w] = "up" /\ Gone(w) # {}
  /\ report[w].pc = "idle"
  /\ Fail("report")
  /\ running' = [running EXCEPT ![w] = @ \ Gone(w)]
  /\ UNCHANGED <<app, jobs, launched, redisVars, sqs, call, report>>

\* The host stops, by SIGTERM or by a crash: its processes go with it.
WorkerDown(w) ==
  /\ app[w] = "up"
  /\ Fail("down")
  /\ app' = [app EXCEPT ![w] = "down"]
  /\ jobs' = [jobs EXCEPT ![w] = {}]
  /\ running' = [running EXCEPT ![w] = {}]
  /\ UNCHANGED <<launched, redisVars, sqs, call, report>>

WorkerServes(w) ==
  \/ HandleCreate(w) \/ HandleCreateFails(w)
  \/ HandleStopNotFound(w) \/ HandleStop(w)

ProcessStep(w) == \E e \in running[w] : Terminate(w, e) \/ Exit(w, e)

WorkerStep(w) ==
  \/ RegisterWorker(w) \/ WorkerServes(w) \/ ProcessStep(w)
  \/ CheckJobStatus(w) \/ ReportLost(w) \/ WorkerDown(w)
==============================================================================
