---------------------------- MODULE Records_proofs ----------------------------
(***************************************************************************)
(* What the job records say.  Handlers, ticker and report handlers write   *)
(* whole records from copies they read earlier, so a claim about the       *)
(* records in Redis can only be kept by claiming it of every copy: those   *)
(* the API handlers hold, those in messages, and those read for a report   *)
(* or while a worker is removed.                                           *)
(***************************************************************************)
EXTENDS Launches_proofs

(***************************************************************************)
(* The records that the log of launches backs.                             *)
(***************************************************************************)
\* The workers on which a process was started for each job.
Hosts == [j \in Jobs |-> {w \in Workers : WasLaunchedOn(j, w)}]

BackedRecords ==
  [j \in Jobs |->
     {rec \in JobRecord : /\ Active(rec) => Hosts[j] # {}
                          /\ rec.assigned # NoWorker => rec.assigned \in Hosts[j]}]

TableBacked == \A j \in Jobs : allJobs[j] \in BackedRecords[j] \cup {NoJob}

HandlersBacked == \A h \in Handlers : api[h].rec \in BackedRecords[api[h].job]

MessagesBacked == \A msg \in InFlight : msg.rec \in BackedRecords[msg.job]

\* The ticker: the worker it names in LaunchConfirmed, the record it marks.
LoopBacked ==
  /\ call # NoCall /\ call.code = "201" => call.to \in Hosts[call.msg.job]
  /\ sch.rec \in BackedRecords[sch.job] \cup {NoJob}

\* What a worker runs or reports was launched, and so was what a report reads.
ReportsBacked ==
  \A w \in Workers :
    /\ \A e \in running[w] \cup report[w].stopped \cup report[w].stats : Hosts[e.job] # {}
    /\ report[w].pc = "write" => report[w].rec \in BackedRecords[ReportItem(w).job]

BackedInv ==
  TableBacked /\ HandlersBacked /\ MessagesBacked /\ LoopBacked /\ ReportsBacked

\* A launch is not unlogged, so what is backed stays so.
LEMMA BackedStays ==
  ASSUME TypeInv, [Next]_vars
  PROVE  /\ \A j \in Jobs : Hosts[j] \subseteq Hosts'[j]
         /\ \A j \in Jobs : BackedRecords[j] \subseteq BackedRecords'[j]
<1>1. \A j \in Jobs, w \in Workers : WasLaunchedOn(j, w) => WasLaunchedOn(j, w)'
  BY LaunchedGrows DEF WasLaunchedOn
<1>2. \A j \in Jobs : Hosts[j] \subseteq Hosts'[j]
  BY <1>1 DEF Hosts
<1> HIDE DEF Hosts
<1>3. \A j \in Jobs : BackedRecords[j] \subseteq BackedRecords'[j]
  BY <1>2 DEF BackedRecords
<1> QED BY <1>2, <1>3

\* A record of a job that is not running and has no worker is backed; changing
\* the Stop flag, or marking a record as stopped, claims nothing more.
LEMMA BackedEdits ==
  ASSUME NEW j \in Jobs
  PROVE  /\ BackedRecords[j] \subseteq JobRecord
         /\ NewJob \in BackedRecords[j]
         /\ \A rec \in BackedRecords[j] :
              /\ \A b \in BOOLEAN : [rec EXCEPT !.stop = b] \in BackedRecords[j]
              /\ [rec EXCEPT !.state = "stopped"] \in BackedRecords[j]
              /\ Hosts[j] # {} => \A state \in JobStates :
                                    [rec EXCEPT !.state = state] \in BackedRecords[j]
         /\ \A rec \in JobRecord : \A w \in Hosts[j] :
              [rec EXCEPT !.state = "running", !.assigned = w] \in BackedRecords[j]
         /\ [state |-> "stopped", assigned |-> NoWorker, stop |-> FALSE] \in BackedRecords[j]
<1>1. Hosts[j] \subseteq Workers
  BY DEF Hosts
<1> QED BY <1>1 DEF BackedRecords, NewJob, Active, JobRecord, JobStates

\* The messages on their way are messages.
LEMMA CarriedMessages ==
  ASSUME TypeInv
  PROVE  InFlight \subseteq Message
  BY DEF TypeInv, TypeOK, SharedTypeOK, Call, InFlight, Carried

(***************************************************************************)
(* Who writes what.                                                        *)
(***************************************************************************)
\* The steps that write a job record.
LEMMA TableWriters ==
  ASSUME [Next]_vars
  PROVE  \/ allJobs' = allJobs
         \/ \E h \in Handlers : \/ \E j \in Jobs : CreateJob(h, j)
                                \/ WriteRecord(h) \/ DeleteRecord(h)
         \/ sqs # <<>> /\ Buffer(Head(sqs))
         \/ LaunchConfirmed \/ StopConfirmed \/ PurgeWrite
         \/ \E w \in Workers : ReportWrite(w)
<1>1. CASE UNCHANGED vars
  BY <1>1 DEF vars, sharedVars, redisVars
<1>2. ASSUME NEW h \in Handlers, ApiRequest(h) \/ ApiStep(h)
      PROVE  \/ allJobs' = allJobs
             \/ (\E j \in Jobs : CreateJob(h, j)) \/ WriteRecord(h) \/ DeleteRecord(h)
  BY <1>2 DEF ApiRequest, ApiStep, ReadBack, StopJob, ResumeJob, SendMsg, SendMsgFails,
              DeleteJob, sharedVars, redisVars
<1>3. ASSUME NEW w \in Workers, WorkerStep(w) PROVE allJobs' = allJobs
  BY <1>3 DEF WorkerStep, RegisterWorker, WorkerServes, HandleCreate, HandleCreateFails,
              HandleStopNotFound, HandleStop, ProcessStep, Terminate, Exit, CheckJobStatus,
              ReportLost, WorkerDown, sharedVars, redisVars
<1>4. ASSUME LoopStep \/ CallRefused(app[call.to] = "up") \/ Restart
      PROVE  \/ allJobs' = allJobs \/ (sqs # <<>> /\ Buffer(Head(sqs)))
             \/ LaunchConfirmed \/ StopConfirmed \/ PurgeWrite
  BY <1>4 DEF LoopStep, Schedule, ScheduleEmpty, ScheduleLater, SendStop, DropStop,
              SendLaunch, SendTo, PollEmpty, PollJobQueue, PollRedelivered, ReplyLost,
              CallRefused, LaunchFailed, StopFailed, Requeue, AddLoadRead, AddLoadWrite,
              PurgeRead, RemoveWorker, Restart, sharedVars, redisVars
<1>5. ASSUME NEW w \in Workers, Purge(w, app[w] = "down") \/ ReportStep(w)
      PROVE  allJobs' = allJobs \/ ReportWrite(w)
  BY <1>5 DEF Purge, ReportStep, ReportRead, ReportLoadRead, ReportLoadWrite, ReportDone,
              sharedVars, redisVars
<1> QED BY <1>1, <1>2, <1>3, <1>4, <1>5 DEF Next

\* The steps that touch the reports.
LEMMA ReportWriters ==
  ASSUME [Next]_vars
  PROVE  \/ report' = report
         \/ \E w \in Workers : CheckJobStatus(w)
         \/ (\E w \in Workers : ReportStep(w)) /\ UNCHANGED workerVars
         \/ Restart /\ UNCHANGED workerVars
<1>1. CASE UNCHANGED vars
  BY <1>1 DEF vars, sharedVars
<1>2. ASSUME NEW h \in Handlers, ApiRequest(h) \/ ApiStep(h) PROVE report' = report
  BY <1>2 DEF ApiRequest, ApiStep, CreateJob, ReadBack, StopJob, ResumeJob, WriteRecord,
              SendMsg, SendMsgFails, DeleteJob, DeleteRecord, sharedVars
<1>3. ASSUME NEW w \in Workers, WorkerStep(w) PROVE report' = report \/ CheckJobStatus(w)
  BY <1>3 DEF WorkerStep, RegisterWorker, WorkerServes, HandleCreate, HandleCreateFails,
              HandleStopNotFound, HandleStop, ProcessStep, Terminate, Exit, ReportLost,
              WorkerDown, sharedVars
<1>4. ASSUME \/ LoopStep \/ CallRefused(app[call.to] = "up")
             \/ \E w \in Workers : Purge(w, app[w] = "down")
      PROVE  report' = report
  BY <1>4 DEF LoopStep, Schedule, ScheduleEmpty, ScheduleLater, SendStop, DropStop,
              SendLaunch, SendTo, PollEmpty, PollJobQueue, PollRedelivered, ReplyLost,
              CallRefused, LaunchFailed, StopFailed, Requeue, LaunchConfirmed, AddLoadRead,
              AddLoadWrite, StopConfirmed, Purge, PurgeRead, PurgeWrite, RemoveWorker,
              sharedVars
<1> QED BY <1>1, <1>2, <1>3, <1>4 DEF Next

\* The steps that touch what the ticker goroutine holds.
LEMMA LoopWriters ==
  ASSUME [Next]_vars
  PROVE  \/ sch' = sch \/ EndSchedule \/ EndPoll
         \/ LaunchConfirmed \/ AddLoadRead \/ PurgeWrite \/ RemoveWorker \/ Restart
         \/ \E w \in Workers : SendTo(w) \/ Purge(w, app[w] = "down")
         \/ \E j \in Jobs : PurgeRead(j)
<1>1. ASSUME Next PROVE \/ sch' = sch \/ LoopStep \/ Restart
                        \/ \E w \in Workers : Purge(w, app[w] = "down")
  BY <1>1 DEF Next, CallRefused, schedulerVars, ReportStep, ReportRead, ReportWrite,
              ReportLoadRead, ReportLoadWrite, ReportDone
<1>2. ASSUME LoopStep
      PROVE  \/ sch' = sch \/ EndSchedule \/ EndPoll
             \/ LaunchConfirmed \/ AddLoadRead \/ PurgeWrite \/ RemoveWorker
             \/ (\E w \in Workers : SendTo(w)) \/ \E j \in Jobs : PurgeRead(j)
  BY <1>2 DEF LoopStep, Schedule, ScheduleEmpty, ScheduleLater, SendStop, DropStop,
              SendLaunch, Reachable, PollEmpty, PollJobQueue, PollRedelivered, ReplyLost,
              LaunchFailed, StopFailed, Requeue, AddLoadWrite, StopConfirmed, schedulerVars
<1> QED BY <1>1, <1>2 DEF vars, schedulerVars

\* What the ticker holds is read in AddLoadRead, PurgeRead and, for the list of
\* the jobs to be marked, when a worker that is down is to be removed.
LEMMA LoopReads ==
  ASSUME TypeInv, [Next]_vars
  PROVE  /\ \/ sch'.rec = sch.rec /\ sch'.job = sch.job
            \/ sch'.rec = NoJob
            \/ \E j \in Jobs : PurgeRead(j)
         /\ sch'.pc = "loadWrite" => sch' = sch \/ AddLoadRead
         /\ sch'.pc = "purgeWrite" => sch' = sch \/ sch'.job \in sch.todo
         /\ \/ sch'.todo \subseteq sch.todo
            \/ \E w \in Workers :
                 app[w] = "down" /\ sch'.todo = {j \in Jobs : workerLoads[w].jobs[j] > 0}
<1> DEFINE Claim ==
      /\ \/ sch'.rec = sch.rec /\ sch'.job = sch.job
         \/ sch'.rec = NoJob
         \/ \E j \in Jobs : PurgeRead(j)
      /\ sch'.pc = "loadWrite" => sch' = sch \/ AddLoadRead
      /\ sch'.pc = "purgeWrite" => sch' = sch \/ sch'.job \in sch.todo
      /\ \/ sch'.todo \subseteq sch.todo
         \/ \E w \in Workers :
              app[w] = "down" /\ sch'.todo = {j \in Jobs : workerLoads[w].jobs[j] > 0}
<1>0. sch \in Loop
  BY DEF TypeInv, TypeOK, SchedulerTypeOK
<1>1. EndSchedule => Claim
  BY DEF EndSchedule, LoopStart
<1>2. Restart => Claim
  BY DEF Restart, LoopStart
<1>3. RemoveWorker => Claim
  BY DEF RemoveWorker, LoopStart
<1>4. PurgeWrite => Claim
  BY <1>0 DEF PurgeWrite, Loop
<1>5. EndPoll \/ LaunchConfirmed \/ AddLoadRead => Claim
  BY <1>0 DEF EndPoll, LaunchConfirmed, AddLoadRead, Loop
<1>6. ASSUME NEW w \in Workers, SendTo(w) PROVE Claim
  BY <1>0, <1>6 DEF SendTo, Loop
<1>7. ASSUME NEW w \in Workers, Purge(w, app[w] = "down") PROVE Claim
  BY <1>0, <1>7 DEF Purge, Loop
<1>8. ASSUME NEW j \in Jobs, PurgeRead(j) PROVE Claim
  <2>1. /\ sch'.pc \in {"purge", "purgeWrite"} /\ sch'.job = j
        /\ sch'.todo = sch.todo \ {j} /\ j \in sch.todo
    BY <1>0, <1>8, Z3 DEF PurgeRead, Loop
  <2> QED BY <1>8, <2>1
<1> QED BY <1>1, <1>2, <1>3, <1>4, <1>5, <1>6, <1>7, <1>8, LoopWriters

(***************************************************************************)
(* Every copy stays backed.                                                *)
(***************************************************************************)
\* A message carries the record its handler holds.
LEMMA MessagesBackedStep ==
  ASSUME TypeInv, MessagesBacked, HandlersBacked, [Next]_vars
  PROVE  MessagesBacked'
<1>0. Moves /\ api \in [Handlers -> Handler]
  BY Flow DEF TypeInv, TypeOK, ApiTypeOK
<1>1. ASSUME NEW msg \in Message, msg.rec \in BackedRecords[msg.job]
      PROVE  msg.rec \in BackedRecords'[msg.job]
  BY <1>1, BackedStays DEF Message
<1>2. InFlight \subseteq Message
  BY CarriedMessages
<1>3. CASE InFlight' \subseteq InFlight
  BY <1>1, <1>2, <1>3 DEF MessagesBacked
<1>4. ASSUME NEW h \in Handlers, Sends(h), InFlight' = InFlight \cup {SentMessage(h)}
      PROVE  MessagesBacked'
  <2>1. SentMessage(h) \in Message
    BY <1>4 DEF Sends
  <2>2. SentMessage(h).rec \in BackedRecords[SentMessage(h).job]
    BY DEF SentMessage, HandlersBacked
  <2> QED BY <1>1, <1>2, <1>4, <2>1, <2>2 DEF MessagesBacked
<1> QED BY <1>0, <1>3, <1>4, InFlightStep

\* A handler holds the record it has written, or read, with its Stop flag changed.
LEMMA HandlersBackedStep ==
  ASSUME TypeInv, TableBacked, HandlersBacked, [Next]_vars
  PROVE  HandlersBacked'
<1>0. api \in [Handlers -> Handler]
  BY DEF TypeInv, TypeOK, ApiTypeOK
<1>1. \A g \in Handlers : api[g].rec \in BackedRecords'[api[g].job]
  BY <1>0, BackedStays DEF HandlersBacked, Handler
<1>2. CASE api' = api
  BY <1>1, <1>2 DEF HandlersBacked
<1>3. ASSUME NEW h \in Handlers, NEW pc, NEW j \in Jobs, NEW rec \in BackedRecords[j],
             Enter(h, pc, j, rec)
      PROVE  HandlersBacked'
  <2>1. rec \in BackedRecords'[j]
    BY BackedStays
  <2>2. \A g \in Handlers : g # h => api'[g] = api[g]
    BY <1>0, <1>3 DEF Enter
  <2>3. api'[h].rec = rec /\ api'[h].job = j
    BY <1>0, <1>3 DEF Enter
  <2> QED BY <1>1, <2>1, <2>2, <2>3 DEF HandlersBacked
<1>4. ASSUME NEW h \in Handlers, ApiRequest(h) PROVE HandlersBacked'
  <2>1. PICK j \in Jobs : CreateJob(h, j) \/ StopJob(h, j) \/ ResumeJob(h, j) \/ DeleteJob(h, j)
    BY <1>4 DEF ApiRequest
  <2>2. CASE CreateJob(h, j)
    BY <1>3, <2>2, BackedEdits DEF CreateJob
  <2>3. allJobs[j] # NoJob => allJobs[j] \in BackedRecords[j]
    BY DEF TableBacked
  <2>4. CASE StopJob(h, j)
    BY <1>3, <2>3, <2>4, BackedEdits DEF StopJob
  <2>5. CASE ResumeJob(h, j)
    BY <1>3, <2>3, <2>5, BackedEdits DEF ResumeJob
  <2>6. CASE DeleteJob(h, j)
    BY <1>3, <2>3, <2>6 DEF DeleteJob
  <2> QED BY <2>1, <2>2, <2>4, <2>5, <2>6
<1>5. ASSUME NEW h \in Handlers, ApiStep(h) PROVE HandlersBacked'
  <2>1. api[h].job \in Jobs /\ api[h].rec \in BackedRecords[api[h].job]
    BY <1>0 DEF Handler, HandlersBacked
  <2>2. CASE ReadBack(h)
    <3>1. allJobs[api[h].job] \in BackedRecords[api[h].job] \cup {NoJob}
      BY <2>1 DEF TableBacked
    <3> QED BY <1>3, <2>1, <2>2, <3>1 DEF ReadBack
  <2>3. CASE WriteRecord(h)
    <3>1. \A g \in Handlers : api'[g].job = api[g].job /\ api'[g].rec = api[g].rec
      BY <1>0, <2>3 DEF WriteRecord, Goto, Handler
    <3> QED BY <1>1, <3>1 DEF HandlersBacked
  <2>4. CASE Finish(h)
    <3>1. Enter(h, "idle", AnyJob, NewJob)
      BY <2>4 DEF Finish, Enter, Resting
    <3> QED BY <1>3, <3>1, BackedEdits, InitialTypes
  <2> QED BY <1>5, <2>2, <2>3, <2>4 DEF ApiStep, SendMsg, SendMsgFails, DeleteRecord
<1> QED BY <1>2, <1>4, <1>5 DEF Next, vars, apiVars, WorkerStep

\* The job for which a worker starts a process has a host then.
LEMMA CreateHosts ==
  ASSUME TypeInv, NEW w \in Workers, HandleCreate(w) \/ HandleCreateFails(w)
  PROVE  /\ call # NoCall /\ call.to = w /\ call.msg.job \in Jobs
         /\ w \in Hosts'[call.msg.job]
<1> DEFINE j == call.msg.job
<1>1. /\ call # NoCall /\ call.to = w
      /\ \E i \in DOMAIN launched' : launched'[i].job = j /\ launched'[i].to = w
  BY CreateLogged
<1>2. j \in Jobs
  BY <1>1 DEF TypeInv, TypeOK, SharedTypeOK, Call, Message
<1>3. Hosts' = [k \in Jobs |-> {v \in Workers :
                  \E i \in DOMAIN launched' : launched'[i].job = k /\ launched'[i].to = v}]
  BY DEF Hosts, WasLaunchedOn
<1> HIDE DEF j
<1>4. w \in Hosts'[j]
  BY <1>1, <1>2, <1>3
<1> QED BY <1>1, <1>2, <1>4 DEF j

\* The worker in hand has the job once it has answered 201.
LEMMA LoopBackedStep ==
  ASSUME TypeInv, TableBacked, LoopBacked, [Next]_vars
  PROVE  LoopBacked'
<1>0. Moves /\ call \in Call \cup {NoCall} /\ sch \in Loop
  BY Flow DEF TypeInv, TypeOK, SharedTypeOK, SchedulerTypeOK
<1>1. ASSUME call' # NoCall, call'.code = "201"
      PROVE  call'.to \in Hosts'[call'.msg.job]
  <2>1. CASE call' = call
    <3>1. call.msg.job \in Jobs /\ call.to \in Hosts[call.msg.job]
      BY <1>0, <1>1, <2>1 DEF LoopBacked, Call, Message
    <3> QED BY <2>1, <3>1, BackedStays
  <2>2. CASE Coded
    <3>1. PICK w \in Workers : HandleCreate(w)
      BY <1>1, <2>2 DEF Coded
    <3> QED BY <2>2, <3>1, CreateHosts DEF Coded
  <2> QED BY <1>0, <1>1, <2>1, <2>2 DEF Moves, Idles, Sends, Buffers, Rotates, Takes, Drops,
                                        PutsBack, Closes, Loses
<1>2. sch'.rec \in BackedRecords'[sch'.job] \cup {NoJob}
  <2>1. CASE sch'.rec = sch.rec /\ sch'.job = sch.job
    <3>1. sch.job \in Jobs /\ sch.rec \in BackedRecords[sch.job] \cup {NoJob}
      BY <1>0 DEF Loop, LoopBacked
    <3> QED BY <2>1, <3>1, BackedStays
  <2>2. ASSUME NEW j \in Jobs, PurgeRead(j) PROVE sch'.rec \in BackedRecords'[sch'.job] \cup {NoJob}
    <3>1. sch'.job = j /\ sch'.rec = allJobs[j]
      BY <1>0, <2>2, Z3 DEF PurgeRead, Loop
    <3> QED BY <3>1, BackedStays DEF TableBacked
  <2> QED BY <2>1, <2>2, LoopReads
<1> QED BY <1>1, <1>2 DEF LoopBacked

\* Only jobs that were launched run.
LEMMA RunningBackedStep ==
  ASSUME TypeInv, LaunchInv, ReportsBacked, [Next]_vars
  PROVE  \A w \in Workers : \A e \in running'[w] : Hosts'[e.job] # {}
<1>0. running \in [Workers -> SUBSET Instance]
  BY DEF TypeInv, TypeOK, WorkerTypeOK
<1>1. \A w \in Workers : \A e \in running[w] : e.job \in Jobs /\ Hosts'[e.job] # {}
  <2>1. \A w \in Workers : \A e \in running[w] : e.job \in Jobs /\ Hosts[e.job] # {}
    BY <1>0 DEF ReportsBacked, Instance
  <2> QED BY <2>1, BackedStays
<1>2. CASE Shrinks
  BY <1>1, <1>2 DEF Shrinks
<1>3. ASSUME NEW w \in Workers, HandleCreate(w) \/ HandleCreateFails(w)
      PROVE  \A v \in Workers : \A f \in running'[v] : Hosts'[f.job] # {}
  <2>1. PICK e \in Instance :
          e.job = call.msg.job /\ running' = [running EXCEPT ![w] = @ \cup {e}]
    BY <1>3, NewInstanceIn
  <2>2. \A v \in Workers : \A f \in running'[v] : f \in running[v] \/ f = e
    BY <1>0, <2>1
  <2> QED BY <1>1, <1>3, <2>1, <2>2, CreateHosts
<1>4. ASSUME NEW w \in Workers, NEW e \in running[w], NEW status, Changes(w, e, status)
      PROVE  \A v \in Workers : \A f \in running'[v] : Hosts'[f.job] # {}
  <2> DEFINE g == [e EXCEPT !.status = status]
  <2>1. g.job = e.job
    BY <1>0 DEF Instance
  <2>2. running' = [running EXCEPT ![w] = (@ \ {e}) \cup {g}]
    BY <1>4 DEF Changes
  <2> HIDE DEF g
  <2>3. \A v \in Workers : \A f \in running'[v] : f \in running[v] \/ f = g
    BY <1>0, <2>2
  <2> QED BY <1>1, <2>1, <2>3
<1> QED BY <1>2, <1>3, <1>4, ProcessFlow

\* The item a report is at is one of its items.
LEMMA ItemIn ==
  ASSUME TypeInv, NEW w \in Workers, report[w].stopped # {} \/ report[w].stats # {}
  PROVE  /\ ReportItem(w) \in report[w].stopped \cup report[w].stats
         /\ ReportItem(w).job \in Jobs
<1>1. /\ report[w].stopped \subseteq Instance
      /\ report[w].stats \subseteq [n : Nat, job : Jobs, bandwidth : Nat]
  BY DEF TypeInv, TypeOK, SharedTypeOK, Report
<1>2. CASE report[w].stopped # {}
  <2>1. \A e \in report[w].stopped : e.n \in Nat /\ e.job \in Jobs
    BY <1>1 DEF Instance
  <2>2. Oldest(report[w].stopped) \in report[w].stopped
    BY <1>2, <2>1, OldestIn
  <2> QED BY <1>2, <2>1, <2>2 DEF ReportItem
<1>3. CASE report[w].stopped = {}
  <2>1. \A e \in report[w].stats : e.n \in Nat /\ e.job \in Jobs
    BY <1>1
  <2>2. Oldest(report[w].stats) \in report[w].stats
    BY <1>3, <2>1, OldestIn
  <2> QED BY <1>3, <2>1, <2>2 DEF ReportItem
<1> QED BY <1>2, <1>3

\* A report handler drops its items one by one, and reads records into one place.
LEMMA ReportItems ==
  ASSUME TypeInv, NEW w \in Workers, ReportStep(w)
  PROVE  \A v \in Workers :
           /\ report'[v].stopped \subseteq report[v].stopped
           /\ report'[v].stats \subseteq report[v].stats
           /\ report'[v].pc = "write" =>
                \/ report'[v] = report[v]
                \/ /\ v = w /\ report'[v].stopped = report[v].stopped
                   /\ report'[v].stats = report[v].stats
                   /\ report[v].stopped # {} \/ report[v].stats # {}
                   /\ report'[v].rec = allJobs[ReportItem(w).job]
<1> DEFINE r == report'[w]
<1>0. report \in [Workers -> Report] /\ report[w] \in Report
  BY DEF TypeInv, TypeOK, SharedTypeOK
<1>1. \A v \in Workers : v # w => report'[v] = report[v]
  BY <1>0 DEF ReportStep, ReportRead, ReportWrite, ReportLoadRead, ReportLoadWrite, ReportDone
<1>2. LET n == NextItem(report[w], w)
      IN  /\ n.pc = "next"
          /\ n.stopped \subseteq report[w].stopped /\ n.stats \subseteq report[w].stats
  BY <1>0 DEF NextItem, Report
<1>3. CASE ReportRead(w)
  <2> DEFINE rec == allJobs[ReportItem(w).job]
  <2>1. r = IF rec # NoJob THEN [report[w] EXCEPT !.pc = "write", !.rec = rec]
            ELSE IF InStopped(w) THEN [report[w] EXCEPT !.pc = "loadRead"]
            ELSE NextItem(report[w], w)
    BY <1>0, <1>3 DEF ReportRead
  <2>2. report[w].stopped # {} \/ report[w].stats # {}
    BY <1>3 DEF ReportRead
  <2> HIDE DEF r, rec
  <2>3. /\ r.stopped \subseteq report[w].stopped /\ r.stats \subseteq report[w].stats
        /\ r.pc = "write" => /\ r.stopped = report[w].stopped /\ r.stats = report[w].stats
                             /\ r.rec = rec
    BY <1>0, <1>2, <2>1 DEF Report
  <2> QED BY <1>1, <2>2, <2>3 DEF r, rec
<1>4. CASE ReportWrite(w)
  <2>1. r = IF InStopped(w) THEN [report[w] EXCEPT !.pc = "loadRead", !.rec = NoJob]
            ELSE NextItem(report[w], w)
    BY <1>0, <1>4 DEF ReportWrite
  <2> HIDE DEF r
  <2>2. r.pc # "write" /\ r.stopped \subseteq report[w].stopped /\ r.stats \subseteq report[w].stats
    BY <1>0, <1>2, <2>1 DEF Report
  <2> QED BY <1>1, <2>2 DEF r
<1>5. CASE ReportLoadRead(w)
  <2>1. r = IF workerLoads[w].jobs[ReportItem(w).job] > 0
            THEN [report[w] EXCEPT !.pc = "loadWrite", !.load = workerLoads[w]]
            ELSE NextItem(report[w], w)
    BY <1>0, <1>5 DEF ReportLoadRead
  <2> HIDE DEF r
  <2>2. r.pc # "write" /\ r.stopped \subseteq report[w].stopped /\ r.stats \subseteq report[w].stats
    BY <1>0, <1>2, <2>1 DEF Report
  <2> QED BY <1>1, <2>2 DEF r
<1>6. CASE ReportLoadWrite(w) \/ ReportDone(w)
  <2>1. r = NextItem(report[w], w) \/ r = NoReport
    BY <1>0, <1>6 DEF ReportLoadWrite, ReportDone
  <2> HIDE DEF r
  <2>2. r.pc # "write" /\ r.stopped \subseteq report[w].stopped /\ r.stats \subseteq report[w].stats
    BY <1>2, <2>1 DEF NoReport
  <2> QED BY <1>1, <2>2 DEF r
<1> QED BY <1>3, <1>4, <1>5, <1>6 DEF ReportStep

\* Only jobs that were launched are reported, and records are read backed.
LEMMA ReportsBackedStep ==
  ASSUME TypeInv, LaunchInv, TableBacked, ReportsBacked, [Next]_vars
  PROVE  ReportsBacked'
<1> DEFINE Items(v) == report'[v].stopped \cup report'[v].stats
<1>0. /\ report \in [Workers -> Report] /\ running \in [Workers -> SUBSET Instance]
      /\ ReportHolds
  BY DEF TypeInv, TypeOK, SharedTypeOK, WorkerTypeOK
<1>1. \A v \in Workers : \A e \in running'[v] : Hosts'[e.job] # {}
  BY RunningBackedStep
<1>2. \A v \in Workers : \A e \in report[v].stopped \cup report[v].stats : Hosts'[e.job] # {}
  <2>1. \A v \in Workers : \A e \in report[v].stopped \cup report[v].stats :
          e.job \in Jobs /\ Hosts[e.job] # {}
    BY <1>0 DEF ReportsBacked, Report, Instance
  <2> QED BY <2>1, BackedStays
<1>3. \A v \in Workers : report[v].pc = "write" =>
        report[v].rec \in BackedRecords'[ReportItem(v).job]
  <2>1. \A v \in Workers : report[v].pc = "write" =>
          ReportItem(v).job \in Jobs /\ report[v].rec \in BackedRecords[ReportItem(v).job]
    BY <1>0, ItemIn DEF ReportsBacked, ReportHolds
  <2> QED BY <2>1, BackedStays
<1>4. SUFFICES ASSUME NEW v \in Workers
      PROVE  /\ \A e \in Items(v) : Hosts'[e.job] # {}
             /\ report'[v].pc = "write" =>
                  report'[v].rec \in BackedRecords'[ReportItem(v)'.job]
  BY <1>1 DEF ReportsBacked
<1>5. ASSUME report'[v].stopped = report[v].stopped, report'[v].stats = report[v].stats
      PROVE  ReportItem(v)' = ReportItem(v)
  BY <1>5 DEF ReportItem
<1>6. CASE report' = report
  BY <1>2, <1>3, <1>5, <1>6
<1>7. ASSUME NEW w \in Workers, CheckJobStatus(w)
      PROVE  /\ \A e \in Items(v) : Hosts'[e.job] # {}
             /\ report'[v].pc # "write" \/ report'[v] = report[v]
  <2>1. CASE v # w
    <3>1. report'[v] = report[v]
      BY <1>0, <1>7, <2>1 DEF CheckJobStatus
    <3> QED BY <1>2, <3>1
  <2>2. CASE v = w
    <3>1. PICK bandwidth :
            report'[w] = [NoReport EXCEPT !.pc = "next", !.stopped = Gone(w),
                                          !.stats = Stats(w, bandwidth)]
      BY <1>0, <1>7 DEF CheckJobStatus
    <3>2. /\ report'[w].pc = "next" /\ report'[w].stopped = Gone(w)
          /\ report'[w].stats = Stats(w, bandwidth)
      BY <3>1 DEF NoReport
    <3>3. \A e \in running[w] : e.job \in Jobs /\ Hosts[e.job] # {}
      BY <1>0 DEF ReportsBacked, Instance
    <3>4. \A e \in running[w] : Hosts'[e.job] # {}
      BY <3>3, BackedStays
    <3>5. \A e \in Gone(w) \cup Stats(w, bandwidth) : \E f \in running[w] : e.job = f.job
      BY DEF Gone, Stats
    <3> QED BY <2>2, <3>2, <3>4, <3>5
  <2> QED BY <2>1, <2>2
<1>8. ASSUME NEW w \in Workers, ReportStep(w)
      PROVE  /\ \A e \in Items(v) : Hosts'[e.job] # {}
             /\ report'[v].pc = "write" =>
                  report'[v].rec \in BackedRecords'[ReportItem(v)'.job]
  <2>1. \A e \in Items(v) : Hosts'[e.job] # {}
    BY <1>2, <1>8, ReportItems
  <2>2. ASSUME report'[v].pc = "write", report'[v] # report[v]
        PROVE  report'[v].rec \in BackedRecords'[ReportItem(v)'.job]
    <3>1. /\ v = w /\ report'[v].stopped = report[v].stopped
          /\ report'[v].stats = report[v].stats
          /\ report[v].stopped # {} \/ report[v].stats # {}
          /\ report'[v].rec = allJobs[ReportItem(v).job]
      BY <1>8, <2>2, ReportItems
    <3>2. ReportItem(v).job \in Jobs
      BY <3>1, ItemIn
    <3>3. report'[v].rec # NoJob
      <4>1. TypeInv'
        BY TypeStep
      <4> QED BY <2>2, <4>1 DEF TypeInv, ReportHolds
    <3>4. allJobs[ReportItem(v).job] \in BackedRecords[ReportItem(v).job]
      BY <3>1, <3>2, <3>3 DEF TableBacked
    <3> QED BY <1>5, <3>1, <3>2, <3>4, BackedStays
  <2> QED BY <1>3, <1>5, <2>1, <2>2
<1>9. CASE Restart
  <2>1. report'[v].stopped = {} /\ report'[v].stats = {} /\ report'[v].pc = "idle"
    BY <1>9 DEF Restart, NoReport
  <2> QED BY <2>1
<1> QED BY <1>3, <1>5, <1>6, <1>7, <1>8, <1>9, ReportWriters

\* Whatever copy is written back was backed when it was read, and still is.
LEMMA TableBackedStep ==
  ASSUME TypeInv, BackedInv, [Next]_vars
  PROVE  TableBacked'
<1>0. /\ TableBacked /\ HandlersBacked /\ MessagesBacked /\ LoopBacked /\ ReportsBacked
      /\ allJobs \in [Jobs -> JobRecord \cup {NoJob}]
  BY DEF BackedInv, TypeInv, TypeOK, SharedTypeOK
<1>1. CASE allJobs' = allJobs
  BY <1>0, <1>1, BackedStays DEF TableBacked
<1>2. ASSUME NEW j \in Jobs, NEW rec \in BackedRecords[j] \cup {NoJob}, HSetJob(j, rec)
      PROVE  TableBacked'
  <2>1. \A k \in Jobs : k # j => allJobs'[k] = allJobs[k]
    BY <1>0, <1>2 DEF HSetJob
  <2>2. allJobs'[j] = rec
    BY <1>0, <1>2 DEF HSetJob
  <2> QED BY <1>0, <2>1, <2>2, BackedStays DEF TableBacked
<1>3. ASSUME NEW h \in Handlers,
             (\E j \in Jobs : CreateJob(h, j)) \/ WriteRecord(h) \/ DeleteRecord(h)
      PROVE  TableBacked'
  <2>1. api[h].job \in Jobs /\ api[h].rec \in BackedRecords[api[h].job]
    BY <1>0 DEF TypeInv, TypeOK, ApiTypeOK, Handler, HandlersBacked
  <2>2. ASSUME NEW j \in Jobs, CreateJob(h, j) PROVE TableBacked'
    BY <1>2, <2>2, BackedEdits DEF CreateJob
  <2>3. CASE WriteRecord(h)
    BY <1>2, <2>1, <2>3 DEF WriteRecord
  <2>4. CASE DeleteRecord(h)
    <3>1. HSetJob(api[h].job, NoJob)
      BY <2>4 DEF DeleteRecord, HDelJob, HSetJob
    <3> QED BY <1>2, <2>1, <3>1
  <2> QED BY <1>3, <2>2, <2>3, <2>4
<1>4. ASSUME sqs # <<>>, Buffer(Head(sqs)) PROVE TableBacked'
  <2> DEFINE msg == Head(sqs)
  <2>1. msg \in Message /\ msg \in InFlight
    BY <1>4, Popped DEF TypeInv, TypeOK, SharedTypeOK, InFlight
  <2>2. msg.job \in Jobs /\ msg.rec \in BackedRecords[msg.job]
    BY <1>0, <2>1 DEF Message, MessagesBacked
  <2>3. allJobs' = allJobs \/ HSetJob(msg.job, msg.rec)
    BY <1>4 DEF Buffer, HSetJob
  <2> QED BY <1>1, <1>2, <2>2, <2>3
<1>5. CASE LaunchConfirmed
  <2>1. /\ call.msg.job \in Jobs /\ call.msg.rec \in JobRecord
        /\ call.to \in Hosts[call.msg.job]
    BY <1>0, <1>5 DEF LaunchConfirmed, Replied, LoopBacked, TypeInv, TypeOK, SharedTypeOK,
                      Call, Message
  <2> QED BY <1>2, <1>5, <2>1, BackedEdits DEF LaunchConfirmed
<1>6. CASE StopConfirmed
  <2>1. call.msg.job \in Jobs
    BY <1>6 DEF StopConfirmed, Replied, TypeInv, TypeOK, SharedTypeOK, Call, Message
  <2> QED BY <1>2, <1>6, <2>1, BackedEdits DEF StopConfirmed
<1>7. CASE PurgeWrite
  <2>1. sch.job \in Jobs /\ sch.rec \in BackedRecords[sch.job]
    BY <1>0, <1>7 DEF PurgeWrite, LoopBacked, TypeInv, TypeOK, SchedulerTypeOK, LoopHolds, Loop
  <2> QED BY <1>2, <1>7, <2>1, BackedEdits DEF PurgeWrite
<1>8. ASSUME NEW w \in Workers, ReportWrite(w) PROVE TableBacked'
  <2> DEFINE item == ReportItem(w)
  <2>1. report[w].pc = "write" /\ (report[w].stopped # {} \/ report[w].stats # {})
    BY <1>8 DEF ReportWrite, Reporting, TypeInv, ReportHolds
  <2>2. item \in report[w].stopped \cup report[w].stats /\ item.job \in Jobs
    BY <2>1, ItemIn
  <2>3. Hosts[item.job] # {} /\ report[w].rec \in BackedRecords[item.job]
    BY <1>0, <2>1, <2>2 DEF ReportsBacked
  <2>4. ReportedState(w) \in JobStates
    BY DEF ReportedState, JobStates
  <2>5. [report[w].rec EXCEPT !.state = ReportedState(w)] \in BackedRecords[item.job]
    BY <2>2, <2>3, <2>4, BackedEdits
  <2> QED BY <1>2, <1>8, <2>2, <2>5 DEF ReportWrite
<1> QED BY <1>1, <1>3, <1>4, <1>5, <1>6, <1>7, <1>8, TableWriters

\* There are no records, messages, or processes at first.
LEMMA BackedInit == Init => BackedInv
<1> SUFFICES ASSUME Init PROVE BackedInv
  OBVIOUS
<1>1. InFlight = {}
  BY DEF Init, SharedInit, InFlight, Carried
<1>2. TableBacked /\ MessagesBacked
  BY <1>1 DEF Init, SharedInit, TableBacked, MessagesBacked
<1>3. HandlersBacked
  BY InitialTypes, BackedEdits DEF Init, ApiInit, Resting, HandlersBacked
<1>4. LoopBacked
  BY DEF Init, SharedInit, SchedulerInit, LoopStart, LoopBacked
<1>5. ReportsBacked
  BY DEF Init, SharedInit, WorkerInit, NoReport, ReportsBacked
<1> QED BY <1>2, <1>3, <1>4, <1>5 DEF BackedInv

\* Requests of users, failures, a restart and the removal of workers may make a
\* record stale, but never such that it names a worker that has not had the job,
\* or shows a job as running of which no process was ever started.
THEOREM RecordsBacked == Spec => []RecordBacked
<1>1. Init => TypeInv /\ LaunchInv /\ BackedInv
  BY TypeInit, LaunchInit, BackedInit
<1>2. TypeInv /\ LaunchInv /\ BackedInv /\ [Next]_vars => (TypeInv /\ LaunchInv /\ BackedInv)'
  <2> SUFFICES ASSUME TypeInv, LaunchInv, BackedInv, [Next]_vars
               PROVE  TypeInv' /\ LaunchInv' /\ BackedInv'
    OBVIOUS
  <2>1. BackedInv'
    BY TableBackedStep, HandlersBackedStep, MessagesBackedStep, LoopBackedStep,
       ReportsBackedStep DEF BackedInv
  <2> QED BY <2>1, TypeStep, LaunchStep
<1>3. BackedInv => RecordBacked
  <2> SUFFICES ASSUME TableBacked, NEW j \in Jobs, allJobs[j] # NoJob
               PROVE  /\ Active(allJobs[j]) => WasLaunched(j)
                      /\ allJobs[j].assigned # NoWorker => WasLaunchedOn(j, allJobs[j].assigned)
    BY DEF BackedInv, RecordBacked
  <2>1. allJobs[j] \in BackedRecords[j]
    BY DEF TableBacked
  <2> QED BY <2>1 DEF BackedRecords, Hosts, WasLaunched, WasLaunchedOn
<1> QED BY <1>1, <1>2, <1>3, PTL DEF Spec

===============================================================================
