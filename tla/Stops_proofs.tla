----------------------------- MODULE Stops_proofs -----------------------------
(***************************************************************************)
(* What it means that a job is shown as stopped.  The record gets its      *)
(* "stopped" from an answer of the worker, from the report of an ended     *)
(* process or from the removal of a worker; until then the claim travels   *)
(* as a message, a copy of the record, or an entry of running_jobs.  The   *)
(* invariant is about all of these.                                        *)
(***************************************************************************)
EXTENDS Records_proofs

(***************************************************************************)
(* The job's only launch request has been carried out, and its process is  *)
(* not, without a signal, on a worker outside of ws.                       *)
(***************************************************************************)
AtMostOne(j) == \A a, b \in LaunchRequests(j) : a = b

Settled(j, ws) ==
  /\ LaunchRequests(j) # {}
  /\ \A id \in LaunchRequests(j) : Spent(id)
  /\ \A v \in Workers \ ws : Alive(v, j) = {}

\* Where it is said that job j is over ...
RecordSays(j) ==
  \/ j \in used /\ allJobs[j] = NoJob
  \/ allJobs[j] # NoJob /\ allJobs[j].state = "stopped"

CopySays(j) ==
  \/ \E h \in Handlers : api[h].job = j /\ api[h].rec.state = "stopped"
  \/ \E msg \in InFlight : msg.job = j /\ msg.rec.state = "stopped"

WorkerSays(j) ==
  \/ \E w \in Workers : \E e \in running[w] : e.job = j /\ e.status # "alive"
  \/ \E w \in Workers : \E e \in report[w].stopped : e.job = j

LoopSays(j) ==
  \/ call # NoCall /\ call.msg.job = j /\ call.code = "200"
  \/ j \in sch.todo
  \/ sch.pc = "purgeWrite" /\ sch.job = j

SaysStopped(j) == RecordSays(j) \/ CopySays(j) \/ WorkerSays(j) \/ LoopSays(j)

\* ... and where that it is on worker w.
SaysPlaced(j, w) ==
  \/ workerLoads[w].jobs[j] > 0
  \/ report[w].load.jobs[j] > 0
  \/ /\ call # NoCall /\ call.to = w
     /\ \/ call.code = "201" /\ call.msg.job = j
        \/ sch.pc = "loadWrite" /\ sch.load.jobs[j] > 0

DeletesStopped == \A h \in Handlers : api[h].pc = "delete" => api[h].rec.state = "stopped"

DownIsEmpty == \A w \in Workers : app[w] = "down" => running[w] = {}

SaysRight ==
  \A j \in Jobs :
    AtMostOne(j) =>
      /\ SaysStopped(j) => Settled(j, {})
      /\ \A w \in Workers : SaysPlaced(j, w) => Settled(j, {w})

StopInv == DeletesStopped /\ DownIsEmpty /\ SaysRight

(***************************************************************************)
(* The processes of a job with one launch request.                         *)
(***************************************************************************)
\* A job asked to be launched at most once has at most one launch request.
LEMMA LaunchedOnceAtMostOne ==
  ASSUME TypeInv, NEW j, LaunchedOnce(j)
  PROVE  AtMostOne(j)
<1>1. Len(accepted) \in Nat /\ DOMAIN accepted = 1 .. Len(accepted)
  BY LenProperties DEF TypeInv, TypeOK, ApiTypeOK
<1>2. IsFiniteSet(1 .. Len(accepted))
  BY <1>1, FS_Interval
<1>3. IsFiniteSet(LaunchRequests(j))
  BY <1>1, <1>2, FS_Subset DEF LaunchRequests
<1>4. ASSUME NEW a \in LaunchRequests(j), NEW b \in LaunchRequests(j), a # b PROVE FALSE
  <2>1. {a, b} \subseteq LaunchRequests(j)
    OBVIOUS
  <2>2. Cardinality({a, b}) <= Cardinality(LaunchRequests(j)) /\ IsFiniteSet({a, b})
    BY <1>3, <2>1, FS_Subset
  <2>3. IsFiniteSet({a}) /\ Cardinality({a}) = 1
    BY FS_Singleton
  <2>4. Cardinality({a} \cup {b}) = Cardinality({a}) + 1
    BY <1>4, <2>3, FS_AddElement
  <2>5. {a} \cup {b} = {a, b}
    OBVIOUS
  <2>6. Cardinality(LaunchRequests(j)) \in Nat
    BY <1>3, FS_CardinalityType
  <2> QED BY <2>2, <2>3, <2>4, <2>5, <2>6 DEF LaunchedOnce
<1> QED BY <1>4 DEF AtMostOne

\* Two launch requests remain two.
LEMMA AtMostOneBefore ==
  ASSUME TypeInv, [Next]_vars, NEW j, AtMostOne(j)'
  PROVE  AtMostOne(j) /\ (LaunchRequests(j) # {} => LaunchRequests(j)' = LaunchRequests(j))
<1>1. LaunchRequests(j) \subseteq LaunchRequests(j)'
  BY Flow, LaunchRequestsGrow
<1> QED BY <1>1 DEF AtMostOne

\* The unsignalled process of such a job is its only one.
LEMMA OnlyProcess ==
  ASSUME InstancesInv, SingleInv, {"reply", "redeliver"} \cap faults = {},
         NEW j \in Jobs, AtMostOne(j), NEW w \in Workers, NEW e \in Alive(w, j)
  PROVE  /\ Settled(j, {w})
         /\ \A v \in Workers : \A f \in Alive(v, j) : v = w /\ f = e
<1>1. \A v \in Workers : \A f \in Alive(v, j) : f \in Live(v) /\ f.req \in LaunchRequests(j)
  BY DEF Alive, Live, InstancesInv
<1>2. \A id \in LaunchRequests(j) : id = e.req
  BY <1>1 DEF AtMostOne
<1>3. \A v \in Workers : \A f \in Alive(v, j) : v = w /\ f = e
  BY <1>1, <1>2 DEF SingleInv
<1>4. Spent(e.req) /\ e.req \in LaunchRequests(j)
  BY <1>1 DEF SingleInv
<1>5. \A v \in Workers \ {w} : Alive(v, j) = {}
  BY <1>3
<1> QED BY <1>2, <1>3, <1>4, <1>5 DEF Settled

\* What is settled stays so, until the job is asked to be launched once more.
LEMMA SettledStep ==
  ASSUME TypeInv, LaunchInv, [Next]_vars, {"reply", "redeliver"} \cap faults' = {},
         NEW j \in Jobs, AtMostOne(j)', NEW ws, Settled(j, ws)
  PROVE  Settled(j, ws)'
<1>0. running \in [Workers -> SUBSET Instance] /\ Moves
  BY Flow DEF TypeInv, TypeOK, WorkerTypeOK
<1>1. LaunchRequests(j)' = LaunchRequests(j) /\ LaunchRequests(j) # {}
  BY AtMostOneBefore DEF Settled
<1>2. ASSUME NEW id \in LaunchRequests(j) PROVE Spent(id)'
  <2>1. id \in DOMAIN accepted /\ Spent(id)
    BY <1>2 DEF LaunchRequests, Settled
  <2> QED BY <1>0, <2>1, SpentStep
<1>3. \A v \in Workers : Alive(v, j)' = {e \in running'[v] : e.job = j /\ e.status = "alive"}
  BY DEF Alive
<1>4. ASSUME NEW v \in Workers \ ws PROVE Alive(v, j)' = {}
  <2>1. \A e \in running[v] : ~(e.job = j /\ e.status = "alive")
    BY <1>4 DEF Settled, Alive
  <2>2. CASE Shrinks
    BY <1>3, <1>4, <2>1, <2>2 DEF Shrinks
  <2>3. ASSUME NEW w \in Workers, HandleCreate(w) \/ HandleCreateFails(w)
        PROVE  Alive(v, j)' = {}
    <3>1. PICK e \in Instance :
            e.job = call.msg.job /\ running' = [running EXCEPT ![w] = @ \cup {e}]
      BY <2>3, NewInstanceIn
    <3>2. e.job # j
      BY <2>3, <3>1, NewInstanceIn DEF Settled, Spent
    <3>3. \A f \in running'[v] : f \in running[v] \/ f = e
      BY <1>0, <1>4, <3>1
    <3> QED BY <1>3, <1>4, <2>1, <3>2, <3>3
  <2>4. ASSUME NEW w \in Workers, NEW e \in running[w], NEW status \in {"dying", "dead"},
               Changes(w, e, status)
        PROVE  Alive(v, j)' = {}
    <3> DEFINE g == [e EXCEPT !.status = status]
    <3>1. g.status # "alive"
      BY <1>0 DEF Instance
    <3>2. running' = [running EXCEPT ![w] = (@ \ {e}) \cup {g}]
      BY <2>4 DEF Changes
    <3> HIDE DEF g
    <3>3. \A f \in running'[v] : f \in running[v] \/ f = g
      BY <1>0, <1>4, <3>2
    <3> QED BY <1>3, <1>4, <2>1, <3>1, <3>3
  <2> QED BY <2>2, <2>3, <2>4, ProcessFlow
<1> QED BY <1>1, <1>2, <1>4 DEF Settled

(***************************************************************************)
(* How the claims spread.                                                  *)
(***************************************************************************)
\* An id is drawn when its record is written.
LEMMA UsedStep ==
  ASSUME TypeInv, [Next]_vars, NEW j \in Jobs, j \in used', j \notin used
  PROVE  allJobs'[j] = NewJob
<1>1. ASSUME NEW h \in Handlers, NEW k \in Jobs, CreateJob(h, k) PROVE allJobs'[j] = NewJob
  <2>1. k = j
    BY <1>1 DEF CreateJob
  <2> QED BY <1>1, <2>1 DEF CreateJob, HSetJob, TypeInv, TypeOK, SharedTypeOK
<1>2. ASSUME ~\E h \in Handlers, k \in Jobs : CreateJob(h, k) PROVE used' = used
  BY <1>2 DEF Next, vars, apiVars, ApiRequest, ApiStep, ReadBack, StopJob, ResumeJob,
              WriteRecord, SendMsg, SendMsgFails, DeleteJob, DeleteRecord, WorkerStep
<1> QED BY <1>1, <1>2

\* The record of a job says stopped, or is gone, only because something said so.
LEMMA RecordSaysStep ==
  ASSUME TypeInv, DeletesStopped, [Next]_vars, NEW j \in Jobs, RecordSays(j)'
  PROVE  SaysStopped(j)
<1>0. allJobs \in [Jobs -> JobRecord \cup {NoJob}] /\ NewJob # NoJob
  BY InitialTypes, AbsenceAssumption DEF TypeInv, TypeOK, SharedTypeOK
<1>1. CASE allJobs'[j] = allJobs[j]
  BY <1>0, <1>1, UsedStep DEF RecordSays, SaysStopped
<1>2. ASSUME NEW k \in Jobs, NEW rec \in JobRecord, HSetJob(k, rec),
             k = j /\ rec.state = "stopped" => SaysStopped(j)
      PROVE  SaysStopped(j)
  <2>1. CASE k # j
    BY <1>0, <1>1, <1>2, <2>1 DEF HSetJob
  <2>2. CASE k = j
    <3>1. allJobs'[j] = rec /\ rec # NoJob
      BY <1>0, <1>2, <2>2, AbsenceAssumption DEF HSetJob
    <3> QED BY <1>2, <2>2, <3>1 DEF RecordSays
  <2> QED BY <2>1, <2>2
<1>3. ASSUME NEW h \in Handlers, NEW k \in Jobs, CreateJob(h, k) PROVE SaysStopped(j)
  <2>1. NewJob \in JobRecord /\ NewJob.state # "stopped"
    BY InitialTypes DEF NewJob
  <2> QED BY <1>2, <1>3, <2>1 DEF CreateJob
<1>4. ASSUME NEW h \in Handlers, WriteRecord(h) \/ DeleteRecord(h) PROVE SaysStopped(j)
  <2>1. api[h].job \in Jobs /\ api[h].rec \in JobRecord
    BY DEF TypeInv, TypeOK, ApiTypeOK, Handler
  <2>2. api[h].job = j /\ api[h].rec.state = "stopped" => SaysStopped(j)
    BY DEF SaysStopped, CopySays
  <2>3. CASE WriteRecord(h)
    BY <1>2, <2>1, <2>2, <2>3 DEF WriteRecord
  <2>4. CASE DeleteRecord(h)
    <3>1. api[h].job # j => allJobs'[j] = allJobs[j]
      BY <1>0, <2>4 DEF DeleteRecord, HDelJob
    <3> QED BY <1>1, <2>2, <2>4, <3>1 DEF DeleteRecord, DeletesStopped
  <2> QED BY <1>4, <2>3, <2>4
<1>5. ASSUME sqs # <<>>, Buffer(Head(sqs)) PROVE SaysStopped(j)
  <2> DEFINE msg == Head(sqs)
  <2>1. msg \in Message /\ msg \in InFlight
    BY <1>5, Popped DEF TypeInv, TypeOK, SharedTypeOK, InFlight
  <2>2. msg.job \in Jobs /\ msg.rec \in JobRecord
    BY <2>1 DEF Message
  <2>3. allJobs' = allJobs \/ HSetJob(msg.job, msg.rec)
    BY <1>5 DEF Buffer, HSetJob
  <2>4. msg.job = j /\ msg.rec.state = "stopped" => SaysStopped(j)
    BY <2>1 DEF SaysStopped, CopySays
  <2> QED BY <1>1, <1>2, <2>2, <2>3, <2>4
<1>6. CASE LaunchConfirmed
  <2> DEFINE rec == [call.msg.rec EXCEPT !.state = "running", !.assigned = call.to]
  <2>1. call.msg.job \in Jobs /\ rec \in JobRecord /\ rec.state = "running"
    BY <1>6 DEF LaunchConfirmed, Replied, TypeInv, TypeOK, SharedTypeOK, Call, Message,
                JobRecord, JobStates
  <2>2. HSetJob(call.msg.job, rec)
    BY <1>6 DEF LaunchConfirmed
  <2> QED BY <1>2, <2>1, <2>2
<1>7. CASE StopConfirmed
  <2>1. call # NoCall /\ call.code = "200" /\ call.msg.job \in Jobs
    BY <1>7 DEF StopConfirmed, Replied, TypeInv, TypeOK, SharedTypeOK, Call, Message
  <2>2. [state |-> "stopped", assigned |-> NoWorker, stop |-> FALSE] \in JobRecord
    BY DEF JobRecord, JobStates
  <2>3. call.msg.job = j => SaysStopped(j)
    BY <2>1 DEF SaysStopped, LoopSays
  <2> QED BY <1>2, <1>7, <2>1, <2>2, <2>3 DEF StopConfirmed
<1>8. CASE PurgeWrite
  <2>1. sch.job \in Jobs /\ sch.rec \in JobRecord /\ sch.pc = "purgeWrite"
    BY <1>8 DEF PurgeWrite, TypeInv, TypeOK, SchedulerTypeOK, LoopHolds, Loop
  <2>2. [sch.rec EXCEPT !.state = "stopped"] \in JobRecord
    BY <2>1 DEF JobRecord, JobStates
  <2>3. sch.job = j => SaysStopped(j)
    BY <2>1 DEF SaysStopped, LoopSays
  <2> QED BY <1>2, <1>8, <2>1, <2>2, <2>3 DEF PurgeWrite
<1>9. ASSUME NEW w \in Workers, ReportWrite(w) PROVE SaysStopped(j)
  <2> DEFINE item == ReportItem(w)
             rec == [report[w].rec EXCEPT !.state = ReportedState(w)]
  <2>1. /\ report[w].rec \in JobRecord
        /\ report[w].stopped # {} \/ report[w].stats # {}
    BY <1>9 DEF ReportWrite, Reporting, TypeInv, TypeOK, SharedTypeOK, ReportHolds, Report
  <2>2. rec \in JobRecord /\ (rec.state = "stopped" => InStopped(w))
    BY <2>1 DEF ReportedState, JobRecord, JobStates
  <2>3. item.job \in Jobs
    BY <2>1, ItemIn
  <2>4. InStopped(w) => item \in report[w].stopped
    <3>1. \A e \in report[w].stopped : e.n \in Nat
      BY DEF TypeInv, TypeOK, SharedTypeOK, Report, Instance
    <3> QED BY <3>1, OldestIn DEF InStopped, ReportItem
  <2>5. HSetJob(item.job, rec)
    BY <1>9 DEF ReportWrite
  <2>6. item.job = j /\ rec.state = "stopped" => SaysStopped(j)
    BY <2>2, <2>4 DEF SaysStopped, WorkerSays
  <2> QED BY <1>2, <2>2, <2>3, <2>5, <2>6
<1> QED BY <1>1, <1>3, <1>4, <1>5, <1>6, <1>7, <1>8, <1>9, TableWriters

\* Handlers copy records, messages carry the handlers' copies.
LEMMA CopySaysStep ==
  ASSUME TypeInv, [Next]_vars, NEW j \in Jobs, CopySays(j)'
  PROVE  SaysStopped(j)
<1>0. api \in [Handlers -> Handler] /\ Moves
  BY Flow DEF TypeInv, TypeOK, ApiTypeOK
<1>1. ASSUME NEW g \in Handlers, api'[g].job = j, api'[g].rec.state = "stopped"
      PROVE  SaysStopped(j)
  <2>1. CASE \A h \in Handlers : api'[h].job = api[h].job /\ api'[h].rec = api[h].rec
    BY <1>1, <2>1 DEF SaysStopped, CopySays
  <2>2. ASSUME NEW h \in Handlers, NEW pc, NEW k \in Jobs, NEW rec \in JobRecord,
               Enter(h, pc, k, rec), k = j /\ rec.state = "stopped" => SaysStopped(j)
        PROVE  SaysStopped(j)
    <3>1. CASE g = h
      BY <1>0, <1>1, <2>2, <3>1 DEF Enter
    <3>2. CASE g # h
      <4>1. api'[g] = api[g]
        BY <1>0, <2>2, <3>2 DEF Enter
      <4> QED BY <1>1, <4>1 DEF SaysStopped, CopySays
    <3> QED BY <3>1, <3>2
  <2>3. NewJob \in JobRecord /\ NewJob.state # "stopped"
    BY InitialTypes DEF NewJob
  <2>4. ASSUME NEW h \in Handlers, NEW k \in Jobs,
               CreateJob(h, k) \/ StopJob(h, k) \/ ResumeJob(h, k) \/ DeleteJob(h, k)
        PROVE  SaysStopped(j)
    <3>1. CASE CreateJob(h, k)
      BY <2>2, <2>3, <3>1 DEF CreateJob
    <3>2. allJobs[k] # NoJob => allJobs[k] \in JobRecord
      BY DEF TypeInv, TypeOK, SharedTypeOK
    <3>3. allJobs[k] # NoJob /\ k = j /\ allJobs[k].state = "stopped" => SaysStopped(j)
      BY DEF SaysStopped, RecordSays
    <3>4. ASSUME NEW b \in BOOLEAN, allJobs[k] # NoJob
          PROVE  /\ [allJobs[k] EXCEPT !.stop = b] \in JobRecord
                 /\ [allJobs[k] EXCEPT !.stop = b].state = allJobs[k].state
      BY <3>2, <3>4 DEF JobRecord
    <3>5. CASE StopJob(h, k)
      BY <2>2, <3>3, <3>4, <3>5 DEF StopJob
    <3>6. CASE ResumeJob(h, k)
      BY <2>2, <3>3, <3>4, <3>6 DEF ResumeJob
    <3>7. CASE DeleteJob(h, k)
      BY <2>2, <3>2, <3>3, <3>7 DEF DeleteJob
    <3> QED BY <2>4, <3>1, <3>5, <3>6, <3>7
  <2>5. ASSUME NEW h \in Handlers, ReadBack(h) PROVE SaysStopped(j)
    <3> DEFINE k == api[h].job
               rec == IF allJobs[k] = NoJob THEN api[h].rec ELSE allJobs[k]
    <3>1. k \in Jobs /\ rec \in JobRecord
      BY <1>0 DEF Handler, TypeInv, TypeOK, SharedTypeOK
    <3>2. k = j /\ rec.state = "stopped" => SaysStopped(j)
      BY DEF SaysStopped, CopySays, RecordSays
    <3>3. Enter(h, "send", k, rec)
      BY <2>5 DEF ReadBack
    <3> QED BY <2>2, <3>1, <3>2, <3>3
  <2>6. ASSUME NEW h \in Handlers, WriteRecord(h) PROVE SaysStopped(j)
    <3>1. \A g2 \in Handlers : api'[g2].job = api[g2].job /\ api'[g2].rec = api[g2].rec
      BY <1>0, <2>6 DEF WriteRecord, Goto, Handler
    <3> QED BY <2>1, <3>1
  <2>7. ASSUME NEW h \in Handlers, Finish(h) PROVE SaysStopped(j)
    <3>1. Enter(h, "idle", AnyJob, NewJob)
      BY <2>7 DEF Finish, Enter, Resting
    <3> QED BY <2>2, <2>3, <3>1, InitialTypes
  <2>8. \/ api' = api
        \/ \E h \in Handlers :
             \/ \E k \in Jobs : CreateJob(h, k) \/ StopJob(h, k) \/ ResumeJob(h, k)
                                \/ DeleteJob(h, k)
             \/ ReadBack(h) \/ WriteRecord(h) \/ Finish(h)
    BY DEF Next, vars, apiVars, ApiRequest, ApiStep, SendMsg, SendMsgFails, DeleteRecord,
           WorkerStep
  <2> QED BY <2>1, <2>4, <2>5, <2>6, <2>7, <2>8
<1>2. ASSUME NEW msg \in InFlight', msg.job = j, msg.rec.state = "stopped"
      PROVE  SaysStopped(j)
  <2>1. CASE msg \in InFlight
    BY <1>2, <2>1 DEF SaysStopped, CopySays
  <2>2. ASSUME NEW h \in Handlers, msg = SentMessage(h) PROVE SaysStopped(j)
    BY <1>2, <2>2 DEF SentMessage, SaysStopped, CopySays
  <2> QED BY <1>0, <2>1, <2>2, InFlightStep
<1> QED BY <1>1, <1>2 DEF CopySays

\* An entry that is not alive was not before, or is being signalled, or has
\* exited; a job is reported as stopped when its entry is dead.
LEMMA WorkerSaysStep ==
  ASSUME TypeInv, LaunchInv, [Next]_vars, "launch" \notin faults',
         NEW j \in Jobs, WorkerSays(j)'
  PROVE  \/ SaysStopped(j)
         \/ \E w \in Workers : \E e \in Alive(w, j) : \E status \in {"dying", "dead"} :
              Changes(w, e, status)
<1> DEFINE Ends == \E w \in Workers : \E e \in Alive(w, j) : \E status \in {"dying", "dead"} :
                     Changes(w, e, status)
<1>0. running \in [Workers -> SUBSET Instance] /\ report \in [Workers -> Report]
  BY DEF TypeInv, TypeOK, WorkerTypeOK, SharedTypeOK
<1>1. ASSUME NEW v \in Workers, NEW f \in running'[v], f.job = j, f.status # "alive"
      PROVE  SaysStopped(j) \/ Ends
  <2>1. f \in running[v] => SaysStopped(j)
    BY <1>1 DEF SaysStopped, WorkerSays
  <2>2. CASE Shrinks
    BY <1>1, <2>1, <2>2 DEF Shrinks
  <2>3. ASSUME NEW w \in Workers, HandleCreate(w) \/ HandleCreateFails(w)
        PROVE  SaysStopped(j)
    <3>1. PICK e \in Instance : /\ e.status = "alive"
                                /\ running' = [running EXCEPT ![w] = @ \cup {e}]
      BY <2>3, NewInstanceIn
    <3>2. f \in running[v] \/ f = e
      BY <1>0, <1>1, <3>1
    <3> QED BY <1>1, <2>1, <3>1, <3>2
  <2>4. ASSUME NEW w \in Workers, NEW e \in running[w], NEW status \in {"dying", "dead"},
               Changes(w, e, status)
        PROVE  SaysStopped(j) \/ Ends
    <3> DEFINE g == [e EXCEPT !.status = status]
    <3>1. g.job = e.job
      BY <1>0 DEF Instance
    <3>2. running' = [running EXCEPT ![w] = (@ \ {e}) \cup {g}]
      BY <2>4 DEF Changes
    <3> HIDE DEF g
    <3>3. f \in running[v] \/ f = g
      BY <1>0, <1>1, <3>2
    <3>4. e.job = j /\ e.status # "alive" => SaysStopped(j)
      BY DEF SaysStopped, WorkerSays
    <3>5. e.job = j /\ e.status = "alive" => Ends
      BY <2>4 DEF Alive
    <3> QED BY <1>1, <2>1, <3>1, <3>3, <3>4, <3>5
  <2> QED BY <2>2, <2>3, <2>4, ProcessFlow
<1>2. ASSUME NEW v \in Workers, NEW e \in report'[v].stopped, e.job = j
      PROVE  SaysStopped(j)
  <2>1. e \in report[v].stopped => SaysStopped(j)
    BY <1>2 DEF SaysStopped, WorkerSays
  <2>2. ASSUME NEW w \in Workers, CheckJobStatus(w) PROVE SaysStopped(j)
    <3>1. CASE v # w
      <4>1. report'[v] = report[v]
        BY <1>0, <2>2, <3>1 DEF CheckJobStatus
      <4> QED BY <1>2, <2>1, <4>1
    <3>2. CASE v = w
      <4>1. PICK bandwidth :
              report'[w] = [NoReport EXCEPT !.pc = "next", !.stopped = Gone(w),
                                            !.stats = Stats(w, bandwidth)]
        BY <1>0, <2>2 DEF CheckJobStatus
      <4>2. report'[w].stopped = Gone(w)
        BY <4>1 DEF NoReport
      <4> QED BY <1>2, <3>2, <4>2 DEF Gone, SaysStopped, WorkerSays
    <3> QED BY <3>1, <3>2
  <2>3. ASSUME NEW w \in Workers, ReportStep(w) PROVE SaysStopped(j)
    BY <1>2, <2>1, <2>3, ReportItems
  <2>4. CASE Restart
    BY <1>2, <2>4 DEF Restart, NoReport
  <2> QED BY <1>2, <2>1, <2>2, <2>3, <2>4, ReportWriters
<1> QED BY <1>1, <1>2 DEF WorkerSays

\* The ticker believes the worker that has signalled the process, and takes the
\* jobs of a worker that is down for ended.
LEMMA LoopSaysStep ==
  ASSUME TypeInv, [Next]_vars, NEW j \in Jobs, LoopSays(j)'
  PROVE  \/ SaysStopped(j) \/ WorkerSays(j)'
         \/ \E w \in Workers : app[w] = "down" /\ SaysPlaced(j, w)
<1>0. Moves /\ running \in [Workers -> SUBSET Instance]
  BY Flow DEF TypeInv, TypeOK, WorkerTypeOK
<1>1. ASSUME call' # NoCall, call'.msg.job = j, call'.code = "200"
      PROVE  SaysStopped(j) \/ WorkerSays(j)'
  <2>1. CASE call' = call
    BY <1>1, <2>1 DEF SaysStopped, LoopSays
  <2>2. CASE Coded
    <3>1. PICK w \in Workers : HandleStop(w)
      BY <1>1, <2>2 DEF Coded
    <3> DEFINE e == Oldest(Entries(w, call.msg.job))
    <3>2. call \in Call /\ call.msg.job = j
      BY <1>1, <2>2 DEF Coded, TypeInv, TypeOK, SharedTypeOK
    <3>3. e.status # "dead"
      <4>1. Answer("500") => call'.code = "500"
        BY <3>2, AnswerCoded DEF Codes
      <4> QED BY <1>1, <3>1, <4>1 DEF HandleStop
    <3>4. running' = [running EXCEPT ![w] = (@ \ {e}) \cup {[e EXCEPT !.status = "dying"]}]
      BY <3>1, <3>3 DEF HandleStop
    <3>5. e \in Instance /\ e.job = j
      <4>1. Entries(w, j) # {} /\ \A f \in Entries(w, j) : f \in Instance /\ f.job = j
        BY <1>0, <3>1, <3>2 DEF HandleStop, Entries
      <4>2. \A f \in Entries(w, j) : f.n \in Nat
        BY <4>1 DEF Instance
      <4> QED BY <3>2, <4>1, <4>2, OldestIn
    <3> HIDE DEF e
    <3> DEFINE g == [e EXCEPT !.status = "dying"]
    <3>6. g.job = j /\ g.status = "dying"
      BY <3>5 DEF Instance
    <3> HIDE DEF g
    <3>7. g \in running'[w]
      BY <1>0, <3>4 DEF g
    <3> QED BY <3>6, <3>7 DEF WorkerSays
  <2> QED BY <1>0, <1>1, <2>1, <2>2 DEF Moves, Idles, Sends, Buffers, Rotates, Takes, Drops,
                                        PutsBack, Closes, Loses
<1>2. ASSUME j \in sch'.todo
      PROVE  SaysStopped(j) \/ \E w \in Workers : app[w] = "down" /\ SaysPlaced(j, w)
  BY <1>2, LoopReads DEF SaysStopped, LoopSays, SaysPlaced
<1>3. ASSUME sch'.pc = "purgeWrite", sch'.job = j PROVE SaysStopped(j)
  BY <1>3, LoopReads DEF SaysStopped, LoopSays
<1> QED BY <1>1, <1>2, <1>3 DEF LoopSays

\* A load is written from one that was read, with the job just launched.
LEMMA LoadWriters ==
  ASSUME [Next]_vars
  PROVE  workerLoads' = workerLoads \/ AddLoadWrite \/ \E w \in Workers : ReportLoadWrite(w)
<1>1. CASE UNCHANGED vars
  BY <1>1 DEF vars, sharedVars, redisVars
<1>2. ASSUME NEW h \in Handlers, ApiRequest(h) \/ ApiStep(h) PROVE workerLoads' = workerLoads
  BY <1>2 DEF ApiRequest, ApiStep, CreateJob, ReadBack, StopJob, ResumeJob, WriteRecord,
              SendMsg, SendMsgFails, DeleteJob, DeleteRecord, sharedVars, redisVars
<1>3. ASSUME NEW w \in Workers, WorkerStep(w) PROVE workerLoads' = workerLoads
  BY <1>3 DEF WorkerStep, RegisterWorker, WorkerServes, HandleCreate, HandleCreateFails,
              HandleStopNotFound, HandleStop, ProcessStep, Terminate, Exit, CheckJobStatus,
              ReportLost, WorkerDown, sharedVars, redisVars
<1>4. ASSUME LoopStep \/ CallRefused(app[call.to] = "up") \/ Restart
      PROVE  workerLoads' = workerLoads \/ AddLoadWrite
  BY <1>4 DEF LoopStep, Schedule, ScheduleEmpty, ScheduleLater, SendStop, DropStop,
              SendLaunch, SendTo, PollEmpty, PollJobQueue, PollRedelivered, ReplyLost,
              CallRefused, LaunchFailed, StopFailed, Requeue, LaunchConfirmed, AddLoadRead,
              StopConfirmed, PurgeRead, PurgeWrite, RemoveWorker, Restart, sharedVars,
              redisVars
<1>5. ASSUME NEW w \in Workers, Purge(w, app[w] = "down") \/ ReportStep(w)
      PROVE  workerLoads' = workerLoads \/ ReportLoadWrite(w)
  BY <1>5 DEF Purge, ReportStep, ReportRead, ReportWrite, ReportLoadRead, ReportDone,
              sharedVars, redisVars
<1> QED BY <1>1, <1>2, <1>3, <1>4, <1>5 DEF Next

\* A load names a job on a worker only when the worker has started it.
LEMMA SaysPlacedStep ==
  ASSUME TypeInv, LaunchInv, [Next]_vars, NEW j \in Jobs, NEW w \in Workers,
         SaysPlaced(j, w)'
  PROVE  SaysPlaced(j, w) \/ (HandleCreate(w) /\ call.msg.job = j)
<1>0. /\ Moves /\ workerLoads \in [Workers -> Load] /\ report \in [Workers -> Report]
      /\ sch \in Loop /\ call \in Call \cup {NoCall} /\ LoopHolds /\ ConfirmedInv
  BY Flow DEF TypeInv, TypeOK, SharedTypeOK, SchedulerTypeOK, LaunchInv
<1>1. ASSUME workerLoads'[w].jobs[j] > 0 PROVE SaysPlaced(j, w)
  <2>1. CASE workerLoads' = workerLoads
    BY <1>1, <2>1 DEF SaysPlaced
  <2>2. CASE AddLoadWrite
    <3>1. call # NoCall /\ call.to \in Workers /\ call.msg.job \in Jobs /\ call.code = "201"
      BY <1>0, <2>2 DEF AddLoadWrite, LoopHolds, ConfirmedInv, Call, Message
    <3>2. CASE call.to # w \/ call.msg.job = j
      BY <1>0, <1>1, <2>2, <3>1, <3>2 DEF AddLoadWrite, SaysPlaced
    <3>3. CASE call.to = w /\ call.msg.job # j
      <4>1. sch.load \in Load
        BY <1>0 DEF Loop
      <4>2. Plus(sch.load, call.msg.job).jobs[j] = sch.load.jobs[j]
        BY <3>1, <3>3, <4>1 DEF Plus, Load
      <4>3. workerLoads'[w] = Plus(sch.load, call.msg.job) /\ sch.pc = "loadWrite"
        BY <1>0, <2>2, <3>3 DEF AddLoadWrite
      <4> QED BY <1>1, <3>1, <3>3, <4>2, <4>3 DEF SaysPlaced
    <3> QED BY <3>2, <3>3
  <2>3. ASSUME NEW v \in Workers, ReportLoadWrite(v) PROVE SaysPlaced(j, w)
    <3>1. CASE v # w
      BY <1>0, <1>1, <2>3, <3>1 DEF ReportLoadWrite, SaysPlaced
    <3>2. CASE v = w
      <4> DEFINE k == ReportItem(w).job
      <4>1. report[w].load \in Load /\ report[w].stopped # {}
        BY <1>0, <2>3, <3>2 DEF Report, ReportLoadWrite, Reporting, TypeInv, ReportHolds
      <4>2. k \in Jobs
        BY <4>1, ItemIn
      <4>3. Minus(report[w].load, k).jobs[j] <= report[w].load.jobs[j]
            /\ Minus(report[w].load, k).jobs[j] \in Int /\ report[w].load.jobs[j] \in Int
        BY <4>1, <4>2 DEF Minus, Load
      <4>4. workerLoads'[w] = Minus(report[w].load, k)
        BY <1>0, <2>3, <3>2 DEF ReportLoadWrite
      <4>5. report[w].load.jobs[j] > 0
        <5> HIDE DEF k
        <5> QED BY <1>1, <4>3, <4>4
      <4> QED BY <4>5 DEF SaysPlaced
    <3> QED BY <3>1, <3>2
  <2> QED BY <2>1, <2>2, <2>3, LoadWriters
<1>2. ASSUME report'[w].load.jobs[j] > 0 PROVE SaysPlaced(j, w)
  <2>1. NoLoad.jobs[j] = 0
    BY DEF NoLoad
  <2>2. CASE report'[w].load = report[w].load
    BY <1>2, <2>2 DEF SaysPlaced
  <2>3. CASE report'[w].load = workerLoads[w]
    BY <1>2, <2>3 DEF SaysPlaced
  <2>4. CASE report'[w].load = NoLoad
    BY <1>2, <2>1, <2>4
  <2>5. ASSUME NEW v \in Workers, CheckJobStatus(v)
        PROVE  report'[w].load = report[w].load \/ report'[w].load = NoLoad
    <3>1. PICK bandwidth :
            report' = [report EXCEPT ![v] =
                         [NoReport EXCEPT !.pc = "next", !.stopped = Gone(v),
                                          !.stats = Stats(v, bandwidth)]]
      BY <2>5 DEF CheckJobStatus
    <3>2. [NoReport EXCEPT !.pc = "next", !.stopped = Gone(v),
                           !.stats = Stats(v, bandwidth)].load = NoLoad
      BY DEF NoReport
    <3> QED BY <1>0, <3>1, <3>2
  <2>6. ASSUME NEW v \in Workers, ReportStep(v)
        PROVE  report'[w].load \in {report[w].load, workerLoads[w], NoLoad}
    <3>1. CASE v # w
      BY <1>0, <2>6, <3>1 DEF ReportStep, ReportRead, ReportWrite, ReportLoadRead,
                              ReportLoadWrite, ReportDone
    <3>2. CASE v = w
      <4>0. report[w] \in Report
        BY <1>0
      <4>1. NextItem(report[w], w).load \in {report[w].load, NoLoad}
        BY <4>0 DEF NextItem, Report
      <4>2. CASE ReportRead(w)
        <5>1. \/ report'[w] = [report[w] EXCEPT !.pc = "write",
                                                !.rec = allJobs[ReportItem(w).job]]
              \/ report'[w] = [report[w] EXCEPT !.pc = "loadRead"]
              \/ report'[w] = NextItem(report[w], w)
          BY <1>0, <4>2 DEF ReportRead
        <5> QED BY <4>0, <4>1, <5>1 DEF Report
      <4>3. CASE ReportWrite(w)
        <5>1. \/ report'[w] = [report[w] EXCEPT !.pc = "loadRead", !.rec = NoJob]
              \/ report'[w] = NextItem(report[w], w)
          BY <1>0, <4>3 DEF ReportWrite
        <5> QED BY <4>0, <4>1, <5>1 DEF Report
      <4>4. CASE ReportLoadRead(w)
        <5>1. \/ report'[w] = [report[w] EXCEPT !.pc = "loadWrite", !.load = workerLoads[w]]
              \/ report'[w] = NextItem(report[w], w)
          BY <1>0, <4>4 DEF ReportLoadRead
        <5> QED BY <4>0, <4>1, <5>1 DEF Report
      <4>5. CASE ReportLoadWrite(w)
        BY <1>0, <4>1, <4>5 DEF ReportLoadWrite
      <4>6. CASE ReportDone(w)
        BY <1>0, <4>6 DEF ReportDone, NoReport
      <4> QED BY <2>6, <3>2, <4>2, <4>3, <4>4, <4>5, <4>6 DEF ReportStep
    <3> QED BY <3>1, <3>2
  <2>7. Restart => report'[w].load = NoLoad
    BY DEF Restart, NoReport
  <2> QED BY <2>2, <2>3, <2>4, <2>5, <2>6, <2>7, ReportWriters
<1>3. call' # NoCall => call' = call \/ Coded \/ Takes
  BY <1>0 DEF Moves, Idles, Sends, Buffers, Rotates, Drops, PutsBack, Closes, Loses
<1>4. ASSUME call' # NoCall, call'.to = w, call'.code = "201", call'.msg.job = j
      PROVE  SaysPlaced(j, w) \/ (HandleCreate(w) /\ call.msg.job = j)
  <2>1. CASE call' = call
    BY <1>4, <2>1 DEF SaysPlaced
  <2>2. CASE Coded
    <3>1. PICK v \in Workers : HandleCreate(v)
      BY <1>4, <2>2 DEF Coded
    <3>2. v = w
      BY <1>4, <2>2, <3>1, CreateLogged DEF Coded
    <3> QED BY <1>4, <2>2, <3>1, <3>2 DEF Coded
  <2> QED BY <1>3, <1>4, <2>1, <2>2 DEF Takes
<1>5. ASSUME call' # NoCall, call'.to = w, sch'.pc = "loadWrite", sch'.load.jobs[j] > 0
      PROVE  SaysPlaced(j, w)
  <2>1. CASE sch' = sch
    <3>1. call # NoCall
      BY <1>0, <1>5, <2>1 DEF LoopHolds
    <3>2. call.to = w
      BY <1>3, <1>5, <3>1 DEF Coded, Takes
    <3> QED BY <1>5, <2>1, <3>1, <3>2 DEF SaysPlaced
  <2>2. CASE AddLoadRead
    <3>1. call' = call /\ sch'.load = workerLoads[call.to]
      BY <1>0, <2>2 DEF AddLoadRead, sharedVars, Loop
    <3> QED BY <1>5, <3>1 DEF SaysPlaced
  <2> QED BY <1>5, <2>1, <2>2, LoopReads
<1> QED BY <1>1, <1>2, <1>4, <1>5 DEF SaysPlaced

(***************************************************************************)
(* The invariant.                                                          *)
(***************************************************************************)
\* The handler that deletes a job has read its record as stopped.
LEMMA DeletesStoppedStep ==
  ASSUME TypeInv, DeletesStopped, [Next]_vars
  PROVE  DeletesStopped'
<1>0. api \in [Handlers -> Handler]
  BY DEF TypeInv, TypeOK, ApiTypeOK
<1>1. CASE api' = api
  BY <1>1 DEF DeletesStopped
<1>2. ASSUME NEW h \in Handlers, NEW pc, NEW k, NEW rec, Enter(h, pc, k, rec),
             pc = "delete" => rec.state = "stopped"
      PROVE  DeletesStopped'
  <2>1. api'[h].pc = pc /\ api'[h].rec = rec
    BY <1>0, <1>2 DEF Enter
  <2>2. \A g \in Handlers : g # h => api'[g] = api[g]
    BY <1>0, <1>2 DEF Enter
  <2> QED BY <1>2, <2>1, <2>2 DEF DeletesStopped
<1>3. ASSUME NEW h \in Handlers, ApiRequest(h) PROVE DeletesStopped'
  BY <1>2, <1>3 DEF ApiRequest, CreateJob, StopJob, ResumeJob, DeleteJob
<1>4. ASSUME NEW h \in Handlers, ReadBack(h) PROVE DeletesStopped'
  BY <1>2, <1>4 DEF ReadBack
<1>5. ASSUME NEW h \in Handlers, WriteRecord(h) PROVE DeletesStopped'
  BY <1>0, <1>5 DEF WriteRecord, Goto, Handler, DeletesStopped
<1>6. ASSUME NEW h \in Handlers, Finish(h) PROVE DeletesStopped'
  <2>1. Enter(h, "idle", AnyJob, NewJob)
    BY <1>6 DEF Finish, Enter, Resting
  <2> QED BY <1>2, <2>1
<1> QED BY <1>1, <1>3, <1>4, <1>5, <1>6 DEF Next, vars, apiVars, ApiStep, SendMsg,
                                           SendMsgFails, DeleteRecord, WorkerStep

\* Nothing runs on a host that is down, and it does not come back.
LEMMA DownIsEmptyStep ==
  ASSUME TypeInv, LaunchInv, DownIsEmpty, [Next]_vars
  PROVE  DownIsEmpty'
<1>0. running \in [Workers -> SUBSET Instance] /\ app \in [Workers -> {"new", "up", "down"}]
  BY DEF TypeInv, TypeOK, WorkerTypeOK
<1> SUFFICES ASSUME NEW v \in Workers, app'[v] = "down" PROVE running'[v] = {}
  BY DEF DownIsEmpty
<1>1. ASSUME NEW w \in Workers, WorkerDown(w) PROVE running'[v] = {}
  BY <1>0, <1>1 DEF WorkerDown, DownIsEmpty
<1>2. ASSUME NEW w \in Workers, RegisterWorker(w) PROVE running'[v] = {}
  BY <1>0, <1>2 DEF RegisterWorker, DownIsEmpty
<1>3. ASSUME app' = app PROVE running'[v] = {}
  <2>1. running[v] = {}
    BY <1>3 DEF DownIsEmpty
  <2>2. Shrinks => running'[v] = {}
    BY <2>1 DEF Shrinks
  <2>3. ASSUME NEW w \in Workers, HandleCreate(w) \/ HandleCreateFails(w)
        PROVE  running'[v] = {}
    <3>1. w # v
      BY <1>3, <2>3 DEF HandleCreate, HandleCreateFails, Requested
    <3> QED BY <1>0, <2>1, <2>3, <3>1 DEF HandleCreate, HandleCreateFails, StartInstance
  <2>4. ASSUME NEW w \in Workers, NEW e \in running[w], NEW status, Changes(w, e, status)
        PROVE  running'[v] = {}
    BY <1>0, <2>1, <2>4 DEF Changes
  <2> QED BY <2>2, <2>3, <2>4, ProcessFlow
<1>4. app' = app \/ \E w \in Workers : WorkerDown(w) \/ RegisterWorker(w)
  BY DEF Next, vars, workerVars, WorkerStep, WorkerServes, HandleCreate, HandleCreateFails,
         HandleStopNotFound, HandleStop, ProcessStep, Terminate, Exit, CheckJobStatus,
         ReportLost
<1> QED BY <1>1, <1>2, <1>3, <1>4

\* A claim is copied, or made where the process is signalled, seen dead, or
\* started: it is right when it is made, and stays so.
LEMMA SaysRightStep ==
  ASSUME LaunchesInv, StopInv, [Next]_vars,
         {"reply", "redeliver", "launch"} \cap faults' = {}
  PROVE  SaysRight'
<1>0. /\ TypeInv /\ LaunchInv /\ OnceInv /\ InstancesInv /\ SingleInv
      /\ DeletesStopped /\ DownIsEmpty /\ SaysRight
      /\ running \in [Workers -> SUBSET Instance]
      /\ {"reply", "redeliver"} \cap faults = {}
  BY FaultsGrow DEF LaunchesInv, StopInv, TypeInv, TypeOK, WorkerTypeOK
<1> SUFFICES ASSUME NEW j \in Jobs, AtMostOne(j)'
             PROVE  /\ SaysStopped(j)' => Settled(j, {})'
                    /\ \A w \in Workers : SaysPlaced(j, w)' => Settled(j, {w})'
  BY DEF SaysRight
<1>1. AtMostOne(j)
  BY <1>0, AtMostOneBefore
<1>2. ASSUME NEW ws, Settled(j, ws) PROVE Settled(j, ws)'
  BY <1>0, <1>2, SettledStep
<1>3. SaysStopped(j) => Settled(j, {})'
  BY <1>0, <1>1, <1>2 DEF SaysRight
<1>4. ASSUME NEW w \in Workers, NEW e \in Alive(w, j), NEW status \in {"dying", "dead"},
             Changes(w, e, status)
      PROVE  Settled(j, {})'
  <2> DEFINE g == [e EXCEPT !.status = status]
  <2>1. Settled(j, {w}) /\ \A f \in Alive(w, j) : f = e
    BY <1>0, <1>1, OnlyProcess
  <2>2. Settled(j, {w})'
    BY <1>2, <2>1
  <2>3. e \in Instance /\ g.status # "alive"
    BY <1>0 DEF Alive, Instance
  <2>4. running' = [running EXCEPT ![w] = (@ \ {e}) \cup {g}]
    BY <1>4 DEF Changes
  <2> HIDE DEF g
  <2>5. \A f \in running'[w] : (f \in running[w] /\ f # e) \/ f = g
    BY <1>0, <2>4
  <2>6. \A f \in running'[w] : ~(f.job = j /\ f.status = "alive")
    BY <2>1, <2>3, <2>5 DEF Alive
  <2>7. Alive(w, j)' = {}
    BY <2>6 DEF Alive
  <2> QED BY <2>2, <2>7 DEF Settled
<1>5. WorkerSays(j)' => Settled(j, {})'
  BY <1>0, <1>3, <1>4, WorkerSaysStep
<1>6. ASSUME NEW w \in Workers, app[w] = "down", SaysPlaced(j, w) PROVE Settled(j, {})'
  <2>1. Settled(j, {w})
    BY <1>0, <1>1, <1>6 DEF SaysRight
  <2>2. Alive(w, j) = {}
    BY <1>0, <1>6 DEF DownIsEmpty, Alive
  <2>3. Settled(j, {})
    BY <2>1, <2>2 DEF Settled
  <2> QED BY <1>2, <2>3
<1>7. SaysStopped(j)' => Settled(j, {})'
  <2>1. RecordSays(j)' \/ CopySays(j)' => SaysStopped(j)
    BY <1>0, RecordSaysStep, CopySaysStep
  <2>2. LoopSays(j)' => Settled(j, {})'
    BY <1>0, <1>3, <1>5, <1>6, LoopSaysStep
  <2> QED BY <1>3, <1>5, <2>1, <2>2 DEF SaysStopped
<1>8. ASSUME NEW w \in Workers, SaysPlaced(j, w)' PROVE Settled(j, {w})'
  <2>1. CASE SaysPlaced(j, w)
    BY <1>0, <1>1, <1>2, <2>1 DEF SaysRight
  <2>2. CASE HandleCreate(w) /\ call.msg.job = j
    <3>1. PICK e \in Instance :
            /\ e.job = j /\ e.req = call.msg.id /\ e.status = "alive"
            /\ running' = [running EXCEPT ![w] = @ \cup {e}]
      BY <1>0, <2>2, NewInstanceIn
    <3>2. /\ call # NoCall /\ call.code = "none"
          /\ LaunchRequests(j) = {e.req} /\ LaunchRequests(j)' = {e.req}
      BY <1>0, <1>1, <2>2, <3>1, NewInstanceIn, AtMostOneBefore DEF AtMostOne
    <3>3. Spent(e.req)'
      <4>1. SingleInv'
        BY <1>0, SingleStep
      <4>2. e \in running'[w]
        BY <1>0, <3>1
      <4>3. e \in Live(w)'
        BY <3>1, <4>2 DEF Live
      <4> QED BY <4>1, <4>3 DEF SingleInv
    <3>4. \A v \in Workers : Alive(v, j) = {}
      <4>1. ASSUME NEW v \in Workers, NEW f \in Alive(v, j) PROVE FALSE
        <5>1. f \in Live(v) /\ f.req = e.req
          BY <1>0, <3>2, <4>1 DEF Alive, Live, InstancesInv
        <5> QED BY <1>0, <3>1, <3>2, <5>1 DEF SingleInv, Spent
      <4> QED BY <4>1
    <3>5. ASSUME NEW v \in Workers \ {w} PROVE Alive(v, j)' = {}
      <4>1. running'[v] = running[v]
        BY <1>0, <3>1, <3>5
      <4> QED BY <3>4, <3>5, <4>1 DEF Alive
    <3>6. ASSUME NEW id \in LaunchRequests(j)' PROVE Spent(id)'
      BY <3>2, <3>3, <3>6
    <3> QED BY <3>2, <3>5, <3>6 DEF Settled
  <2> QED BY <1>0, <1>8, <2>1, <2>2, SaysPlacedStep
<1> QED BY <1>7, <1>8

\* Nothing is said of any job at first.
LEMMA StopInit == Init => StopInv
<1> SUFFICES ASSUME Init PROVE StopInv
  OBVIOUS
<1>1. DeletesStopped /\ DownIsEmpty
  BY DEF Init, ApiInit, WorkerInit, Resting, DeletesStopped, DownIsEmpty
<1>2. ASSUME NEW j \in Jobs, SaysStopped(j) PROVE FALSE
  <2>1. InFlight = {}
    BY DEF Init, SharedInit, InFlight, Carried
  <2>2. ~RecordSays(j)
    BY DEF Init, SharedInit, ApiInit, RecordSays
  <2>3. ~CopySays(j)
    BY <2>1 DEF Init, ApiInit, Resting, NewJob, CopySays
  <2>4. ~WorkerSays(j) /\ ~LoopSays(j)
    BY DEF Init, SharedInit, WorkerInit, SchedulerInit, NoReport, LoopStart, WorkerSays,
           LoopSays
  <2> QED BY <1>2, <2>2, <2>3, <2>4 DEF SaysStopped
<1>3. ASSUME NEW j \in Jobs, NEW w \in Workers, SaysPlaced(j, w) PROVE FALSE
  BY <1>3 DEF Init, SharedInit, NoLoad, NoReport, SaysPlaced
<1> QED BY <1>1, <1>2, <1>3 DEF StopInv, SaysRight

\* What the claims rest on: after a lost answer or a message delivered twice one
\* request has two processes; after a launch that failed the report of the ended
\* process says stopped, and the request is tried again.
ClaimsHold == {"reply", "redeliver", "launch"} \cap faults = {}

\* Whoever wrote it, and from whatever copy: when the record of a job that was
\* asked to be launched once says stopped, or is deleted, its process has been
\* sent its SIGTERM, or is gone.  Lost stops, exits, lost reports, hosts that go
\* down and restarts of the scheduler do not change that.  It is so up to the
\* first lost answer, second delivery or failed launch, whatever may follow.
THEOREM StoppedUntilFailure == Spec => [](ClaimsHold => StoppedMeansSignalled)
<1> DEFINE I == LaunchesInv /\ (ClaimsHold => StopInv)
<1>1. Init => I
  BY LaunchesInductive, StopInit
<1>2. I /\ [Next]_vars => I'
  <2> SUFFICES ASSUME LaunchesInv, ClaimsHold => StopInv, [Next]_vars
               PROVE  LaunchesInv' /\ (ClaimsHold' => StopInv')
    OBVIOUS
  <2>1. LaunchesInv'
    BY LaunchesInductive
  <2>2. ASSUME ClaimsHold' PROVE StopInv'
    <3>1. StopInv /\ {"reply", "redeliver", "launch"} \cap faults' = {}
      BY <2>2, FaultsGrow DEF ClaimsHold
    <3>2. DeletesStopped' /\ DownIsEmpty'
      BY <3>1, DeletesStoppedStep, DownIsEmptyStep DEF LaunchesInv, StopInv
    <3>3. SaysRight'
      BY <3>1, SaysRightStep
    <3> QED BY <3>2, <3>3 DEF StopInv
  <2> QED BY <2>1, <2>2
<1>3. I => (ClaimsHold => StoppedMeansSignalled)
  <2> SUFFICES ASSUME LaunchesInv, StopInv, NEW j \in Jobs, LaunchedOnce(j), Finished(j)
               PROVE  \A w \in Workers : Alive(w, j) = {}
    BY DEF StoppedMeansSignalled
  <2>1. AtMostOne(j)
    BY LaunchedOnceAtMostOne DEF LaunchesInv
  <2>2. SaysStopped(j)
    BY DEF Finished, SaysStopped, RecordSays
  <2> QED BY <2>1, <2>2 DEF StopInv, SaysRight, Settled
<1> HIDE DEF I
<1> QED BY <1>1, <1>2, <1>3, PTL DEF Spec

\* In particular it is always so where these three kinds of failure do not occur.
THEOREM StoppedAreSignalled ==
  ASSUME Faults \cap {"reply", "redeliver", "launch"} = {}
  PROVE  Spec => []StoppedMeansSignalled
<1>1. Init => faults \subseteq Faults
  BY DEF Init, SharedInit
<1>2. faults \subseteq Faults /\ [Next]_vars => (faults \subseteq Faults)'
  BY FaultsGrow
<1>3. faults \subseteq Faults => ClaimsHold
  BY DEF ClaimsHold
<1> QED BY <1>1, <1>2, <1>3, StoppedUntilFailure, PTL DEF Spec
===============================================================================
