------------------------- MODULE ControlPlane_proofs -------------------------
(***************************************************************************)
(* Theorems about ControlPlane for every set of jobs, workers and handlers, *)
(* every capacity and every bound, with all kinds of failure: the types,   *)
(* that no request is lost, and that loads keep to capacities.             *)
(***************************************************************************)
EXTENDS ControlPlane, TLAPS, WellFoundedInduction, SequenceTheorems

(***************************************************************************)
(* The inductive type invariant.  A goroutine that is past its read step   *)
(* holds what it has read, and a report handler that is at an item has one. *)
(***************************************************************************)
LoopHolds ==
  /\ call # NoCall <=> sch.pc \in {"wait", "loadRead", "loadWrite"}
  /\ sch.pc \in {"purge", "purgeWrite"} => sch.wid \in Workers
  /\ sch.pc = "purgeWrite" => sch.rec # NoJob

ReportHolds ==
  \A w \in Workers :
    /\ report[w].pc = "write" =>
         /\ report[w].rec # NoJob
         /\ report[w].stopped # {} \/ report[w].stats # {}
    /\ report[w].pc \in {"loadRead", "loadWrite"} => report[w].stopped # {}
    /\ report[w].pc = "loadWrite" => report[w].load.jobs[ReportItem(w).job] > 0

TypeInv == TypeOK /\ LoopHolds /\ ReportHolds

(***************************************************************************)
(* The least element exists: lists in launch order have a front.           *)
(***************************************************************************)
LessThan == {p \in Nat \X Nat : p[1] < p[2]}

\* The order of the natural numbers, as a set of pairs, is well-founded.
LEMMA LessThanWellFounded == IsWellFoundedOn(LessThan, Nat)
  BY NatLessThanWellFounded, Zenon DEF OpToRel, LessThan

\* A pair of numbers is in that set when the first is the smaller one.
LEMMA LessThanPair == \A x, y \in Nat : x < y => <<x, y>> \in LessThan
  BY Zenon DEF LessThan

\* The front of a non-empty process list is an element of it (Oldest).
LEMMA OldestIn ==
  ASSUME NEW S, S # {}, \A e \in S : e.n \in Nat
  PROVE  Oldest(S) \in S
<1> DEFINE N == {e.n : e \in S}
<1>1. N \subseteq Nat /\ N # {}
  OBVIOUS
<1>2. PICK m \in N : \A k \in N : ~(<<k, m>> \in LessThan)
  <2> HIDE DEF N
  <2> QED BY <1>1, LessThanWellFounded, WFMin
<1>3. ASSUME NEW k \in N PROVE m <= k
  <2>1. k \in Nat /\ m \in Nat
    BY <1>1
  <2>2. <<k, m>> \notin LessThan
    BY <1>2
  <2>3. ~(k < m)
    BY <2>1, <2>2, LessThanPair, Zenon
  <2> HIDE DEF N
  <2> QED BY <2>1, <2>3
<1>4. PICK e \in S : e.n = m
  OBVIOUS
<1>5. \A f \in S : e.n <= f.n
  BY <1>3, <1>4
<1> QED BY <1>5 DEF Oldest

(***************************************************************************)
(* Types.                                                                  *)
(***************************************************************************)
\* The values the variables start from are well typed.
LEMMA InitialTypes ==
  /\ AnyJob \in Jobs
  /\ NewJob \in JobRecord
  /\ NoLoad \in Load
  /\ NoReport \in Report
  /\ Resting \in Handler
  /\ LoopStart \in Loop
<1>1. AnyJob \in Jobs
  BY ConstantsAssumption DEF AnyJob
<1>2. NewJob \in JobRecord
  BY DEF NewJob, JobRecord, JobStates
<1>3. NoLoad \in Load
  BY DEF NoLoad, Load
<1>4. NoReport \in Report
  BY <1>3 DEF NoReport, Report, ReportPcs
<1>5. Resting \in Handler
  BY <1>1, <1>2 DEF Resting, Handler, ApiPcs
<1>6. LoopStart \in Loop
  BY <1>1, <1>3 DEF LoopStart, Loop, LoopPcs
<1> QED BY <1>1, <1>2, <1>3, <1>4, <1>5, <1>6

\* The initial state satisfies the type invariant.
LEMMA TypeInit == Init => TypeInv
<1> SUFFICES ASSUME Init PROVE TypeInv
  OBVIOUS
<1> USE InitialTypes
<1>1. SharedTypeOK
  BY DEF Init, SharedInit, SharedTypeOK
<1>2. ApiTypeOK
  BY DEF Init, ApiInit, ApiTypeOK
<1>3. WorkerTypeOK
  BY DEF Init, WorkerInit, WorkerTypeOK
<1>4. SchedulerTypeOK
  BY DEF Init, SchedulerInit, SchedulerTypeOK
<1>5. LoopHolds
  BY DEF Init, SharedInit, SchedulerInit, LoopHolds, LoopStart
<1>6. ReportHolds
  BY DEF Init, SharedInit, ReportHolds, NoReport
<1> QED BY <1>1, <1>2, <1>3, <1>4, <1>5, <1>6 DEF TypeInv, TypeOK

\* A step that leaves the scheduler's and the reports' state alone keeps what
\* the goroutines hold.
LEMMA HoldsKept ==
  ASSUME LoopHolds, ReportHolds, UNCHANGED <<sch, report>>, call # NoCall <=> call' # NoCall
  PROVE  LoopHolds' /\ ReportHolds'
<1>1. LoopHolds'
  BY DEF LoopHolds
<1>2. ReportHolds'
  BY DEF ReportHolds, ReportItem
<1> QED BY <1>1, <1>2

\* Every step of an API handler preserves the type invariant.
LEMMA ApiTypeStep ==
  ASSUME TypeInv, NEW h \in Handlers, ApiRequest(h) \/ ApiStep(h),
         UNCHANGED <<workerVars, schedulerVars>>
  PROVE  TypeInv'
<1> USE InitialTypes
<1>0. SharedTypeOK /\ ApiTypeOK /\ WorkerTypeOK /\ SchedulerTypeOK
  BY DEF TypeInv, TypeOK
<1>1. api[h] \in Handler /\ api[h].job \in Jobs /\ api[h].rec \in JobRecord
  BY <1>0 DEF ApiTypeOK, Handler
<1>2. ASSUME NEW op \in Operations, Count(op) PROVE calls' \in [Operations -> Nat]
  BY <1>0, <1>2 DEF Count, ApiTypeOK
<1>3. ASSUME NEW pc \in ApiPcs, NEW j \in Jobs, NEW rec \in JobRecord, Enter(h, pc, j, rec)
      PROVE  api' \in [Handlers -> Handler]
  BY <1>0, <1>3 DEF Enter, ApiTypeOK, Handler
<1>4. WorkerTypeOK' /\ SchedulerTypeOK'
  BY <1>0 DEF WorkerTypeOK, SchedulerTypeOK, workerVars, schedulerVars
<1>5. ASSUME SharedTypeOK', ApiTypeOK', UNCHANGED <<call, report>> PROVE TypeInv'
  BY <1>4, <1>5, HoldsKept DEF TypeInv, TypeOK, schedulerVars
<1>6. ASSUME NEW j \in Jobs, CreateJob(h, j) PROVE TypeInv'
  <2>1. api' \in [Handlers -> Handler]
    BY <1>3, <1>6 DEF CreateJob, ApiPcs
  <2>2. calls' \in [Operations -> Nat]
    BY <1>2, <1>6 DEF CreateJob, Operations
  <2>3. ApiTypeOK'
    BY <1>0, <1>6, <2>1, <2>2 DEF CreateJob, ApiTypeOK
  <2>4. SharedTypeOK'
    BY <1>0, <1>6 DEF CreateJob, HSetJob, SharedTypeOK
  <2> QED BY <1>5, <1>6, <2>3, <2>4 DEF CreateJob
<1>7. ASSUME ReadBack(h) PROVE TypeInv'
  <2>1. api' \in [Handlers -> Handler]
    BY <1>0, <1>1, <1>3, <1>7 DEF ReadBack, ApiPcs, SharedTypeOK
  <2>2. ApiTypeOK'
    BY <1>0, <1>7, <2>1 DEF ReadBack, ApiTypeOK
  <2>3. SharedTypeOK'
    BY <1>0, <1>7 DEF ReadBack, sharedVars, redisVars, SharedTypeOK
  <2> QED BY <1>5, <1>7, <2>2, <2>3 DEF ReadBack, sharedVars
<1>8. ASSUME NEW j \in Jobs, StopJob(h, j) \/ ResumeJob(h, j) \/ DeleteJob(h, j)
      PROVE  TypeInv'
  <2>1. allJobs[j] \in JobRecord
    BY <1>0, <1>8 DEF StopJob, ResumeJob, DeleteJob, SharedTypeOK
  <2>2. \A b \in BOOLEAN : [allJobs[j] EXCEPT !.stop = b] \in JobRecord
    BY <2>1 DEF JobRecord
  <2>3. api' \in [Handlers -> Handler]
    BY <1>3, <1>8, <2>1, <2>2 DEF StopJob, ResumeJob, DeleteJob, ApiPcs
  <2>4. calls' \in [Operations -> Nat]
    BY <1>2, <1>8 DEF StopJob, ResumeJob, DeleteJob, Operations
  <2>5. ApiTypeOK'
    BY <1>0, <1>8, <2>3, <2>4 DEF StopJob, ResumeJob, DeleteJob, ApiTypeOK
  <2>6. SharedTypeOK'
    BY <1>0, <1>8 DEF StopJob, ResumeJob, DeleteJob, sharedVars, redisVars,
                      SharedTypeOK
  <2> QED BY <1>5, <1>8, <2>5, <2>6 DEF StopJob, ResumeJob, DeleteJob, sharedVars
<1>9. ASSUME WriteRecord(h) PROVE TypeInv'
  <2>1. ApiTypeOK'
    BY <1>0, <1>9 DEF WriteRecord, Goto, ApiTypeOK, Handler, ApiPcs
  <2>2. SharedTypeOK'
    BY <1>0, <1>1, <1>9 DEF WriteRecord, HSetJob, SharedTypeOK
  <2> QED BY <1>5, <1>9, <2>1, <2>2 DEF WriteRecord
<1>10. ASSUME SendMsg(h) PROVE TypeInv'
  <2>1. Finish(h) => api' \in [Handlers -> Handler]
    BY <1>0 DEF Finish, ApiTypeOK
  <2>2. accepted' \in Seq(AcceptedRequest)
    BY <1>0, <1>1, <1>10 DEF SendMsg, ApiTypeOK, AcceptedRequest, JobRecord
  <2>3. ApiTypeOK'
    BY <1>0, <1>10, <2>1, <2>2 DEF SendMsg, ApiTypeOK
  <2>4. sqs' \in Seq(Message)
    BY <1>0, <1>1, <1>10 DEF SendMsg, SharedTypeOK, ApiTypeOK, Message
  <2>5. SharedTypeOK'
    BY <1>0, <1>10, <2>4 DEF SendMsg, redisVars, SharedTypeOK
  <2> QED BY <1>5, <1>10, <2>3, <2>5 DEF SendMsg
<1>11. ASSUME SendMsgFails(h) PROVE TypeInv'
  <2>1. ApiTypeOK'
    BY <1>0, <1>11 DEF SendMsgFails, Finish, ApiTypeOK
  <2>2. SharedTypeOK'
    BY <1>0, <1>11 DEF SendMsgFails, Fail, redisVars, SharedTypeOK, FaultKinds
  <2> QED BY <1>5, <1>11, <2>1, <2>2 DEF SendMsgFails
<1>12. ASSUME DeleteRecord(h) PROVE TypeInv'
  <2>1. ApiTypeOK'
    BY <1>0, <1>12 DEF DeleteRecord, Finish, ApiTypeOK
  <2>2. SharedTypeOK'
    BY <1>0, <1>1, <1>12 DEF DeleteRecord, HDelJob, SharedTypeOK
  <2> QED BY <1>5, <1>12, <2>1, <2>2 DEF DeleteRecord
<1> QED
  BY <1>6, <1>7, <1>8, <1>9, <1>10, <1>11, <1>12 DEF ApiRequest, ApiStep
\* Every step of a worker preserves the type invariant.
LEMMA WorkerTypeStep ==
  ASSUME TypeInv, NEW w \in Workers, WorkerStep(w),
         UNCHANGED <<apiVars, schedulerVars>>
  PROVE  TypeInv'
<1> USE InitialTypes
<1>0. SharedTypeOK /\ ApiTypeOK /\ WorkerTypeOK /\ SchedulerTypeOK
  BY DEF TypeInv, TypeOK
<1>1. ApiTypeOK' /\ SchedulerTypeOK'
  BY <1>0 DEF ApiTypeOK, SchedulerTypeOK, apiVars, schedulerVars
<1>2. ASSUME SharedTypeOK', WorkerTypeOK', report' = report,
             call # NoCall <=> call' # NoCall
      PROVE  TypeInv'
  BY <1>1, <1>2, HoldsKept DEF TypeInv, TypeOK, schedulerVars
<1>3. running[w] \subseteq Instance
  BY <1>0 DEF WorkerTypeOK
<1>4. ASSUME Requested(w)
      PROVE  call \in Call /\ call.msg \in Message /\ call.msg.job \in Jobs
  BY <1>0, <1>4 DEF Requested, SharedTypeOK, Call, Message
<1>5. ASSUME Requested(w), NEW code \in Codes, Answer(code)
      PROVE  call' \in Call
  BY <1>4, <1>5 DEF Answer, Call
<1>6. ASSUME Requested(w), NEW status \in {"alive", "dead"}, StartInstance(w, status)
      PROVE  /\ running' \in [Workers -> SUBSET Instance]
             /\ launched' \in Seq([job : Jobs, req : Nat, to : Workers])
  <2>1. NewInstance(status) \in Instance
    BY <1>0, <1>4, <1>6 DEF NewInstance, Instance, WorkerTypeOK, Message
  <2>2. call.msg.id \in Nat
    BY <1>4, <1>6 DEF Message
  <2> QED BY <1>0, <1>4, <1>6, <2>1, <2>2 DEF StartInstance, WorkerTypeOK
<1>7. ASSUME NEW e \in running[w], Die(w, e)
      PROVE  running' \in [Workers -> SUBSET Instance]
  <2>1. [e EXCEPT !.status = "dead"] \in Instance
    BY <1>3 DEF Instance
  <2> QED BY <1>0, <1>7, <2>1 DEF Die, WorkerTypeOK
<1>8. ASSUME RegisterWorker(w) PROVE TypeInv'
  <2>1. SharedTypeOK' /\ WorkerTypeOK'
    BY <1>0, <1>8 DEF RegisterWorker, SharedTypeOK, WorkerTypeOK
  <2> QED BY <1>2, <1>8, <2>1 DEF RegisterWorker
<1>9. ASSUME HandleCreate(w) \/ HandleCreateFails(w) PROVE TypeInv'
  <2>1. Requested(w)
    BY <1>9 DEF HandleCreate, HandleCreateFails
  <2>2. call' \in Call
    BY <1>5, <1>9, <2>1 DEF HandleCreate, HandleCreateFails, Codes
  <2>3. WorkerTypeOK'
    BY <1>0, <1>4, <1>6, <1>9, <2>1 DEF HandleCreate, HandleCreateFails, WorkerTypeOK
  <2>4. SharedTypeOK'
    BY <1>0, <1>9, <2>2 DEF HandleCreate, HandleCreateFails, Fail, redisVars,
                            SharedTypeOK, FaultKinds
  <2>5. call # NoCall /\ call' # NoCall
    BY <2>1, <2>2, AbsenceAssumption DEF Requested
  <2> QED BY <1>2, <1>9, <2>3, <2>4, <2>5 DEF HandleCreate, HandleCreateFails
<1>10. ASSUME HandleStopNotFound(w) \/ HandleStop(w) PROVE TypeInv'
  <2> DEFINE j == call.msg.job
             e == Oldest(Entries(w, j))
  <2>1. Requested(w)
    BY <1>10 DEF HandleStopNotFound, HandleStop
  <2>2. call' \in Call
    <3>1. PICK code \in Codes : Answer(code)
      BY <1>10 DEF HandleStopNotFound, HandleStop, Codes
    <3> QED BY <1>5, <2>1, <3>1
  <2>3. call # NoCall /\ call' # NoCall
    BY <2>1, <2>2, AbsenceAssumption DEF Requested
  <2>4. CASE HandleStopNotFound(w)
    <3>1. WorkerTypeOK'
      BY <1>0, <2>4 DEF HandleStopNotFound, workerVars, WorkerTypeOK
    <3>2. SharedTypeOK'
      BY <1>0, <2>2, <2>4 DEF HandleStopNotFound, redisVars, SharedTypeOK
    <3> QED BY <1>2, <2>3, <2>4, <3>1, <3>2 DEF HandleStopNotFound
  <2>5. CASE HandleStop(w)
    <3>1. Entries(w, j) \subseteq Instance /\ Entries(w, j) # {}
      BY <1>3, <2>5 DEF Entries, HandleStop
    <3>2. e \in Instance
      BY <3>1, OldestIn DEF Instance
    <3> DEFINE signalled == [e EXCEPT !.status = "dying"]
    <3>3. \/ running' = running
          \/ running' = [running EXCEPT ![w] = (@ \ {e}) \cup {signalled}]
      BY <2>5 DEF HandleStop
    <3>4. running' \in [Workers -> SUBSET Instance]
      <4>1. signalled \in Instance
        BY <3>2 DEF Instance
      <4> HIDE DEF signalled, e
      <4> QED BY <1>0, <3>3, <4>1 DEF WorkerTypeOK
    <3>5. jobs' \in [Workers -> SUBSET Jobs]
      BY <1>0, <2>5 DEF HandleStop, WorkerTypeOK
    <3>6. WorkerTypeOK'
      BY <1>0, <2>5, <3>4, <3>5 DEF HandleStop, WorkerTypeOK
    <3>7. SharedTypeOK'
      BY <1>0, <2>2, <2>5 DEF HandleStop, redisVars, SharedTypeOK
    <3> QED BY <1>2, <2>3, <2>5, <3>6, <3>7 DEF HandleStop
  <2> QED BY <1>10, <2>4, <2>5
<1>11. ASSUME ProcessStep(w) PROVE TypeInv'
  <2>1. PICK e \in running[w] : Terminate(w, e) \/ Exit(w, e)
    BY <1>11 DEF ProcessStep
  <2>2. WorkerTypeOK'
    BY <1>0, <1>7, <2>1 DEF Terminate, Exit, WorkerTypeOK
  <2>3. SharedTypeOK'
    BY <1>0, <2>1 DEF Terminate, Exit, Fail, sharedVars, redisVars, SharedTypeOK, FaultKinds
  <2> QED BY <1>2, <2>1, <2>2, <2>3 DEF Terminate, Exit, sharedVars
<1>12. ASSUME CheckJobStatus(w) PROVE TypeInv'
  <2>1. PICK bandwidth \in [running[w] \ Gone(w) -> Bandwidths \cup {0}] :
          report' = [report EXCEPT ![w] =
                       [NoReport EXCEPT !.pc = "next", !.stopped = Gone(w),
                                        !.stats = Stats(w, bandwidth)]]
    BY <1>12 DEF CheckJobStatus
  <2>2. Stats(w, bandwidth) \in SUBSET [n : Nat, job : Jobs, bandwidth : Nat]
    <3>1. \A e \in running[w] \ Gone(w) : e \in Instance /\ bandwidth[e] \in Nat
      <4>1. Bandwidths \cup {0} \subseteq Nat
        BY ConstantsAssumption
      <4> QED BY <1>3, <4>1
    <3>2. \A e \in running[w] \ Gone(w) :
            [n |-> e.n, job |-> e.job, bandwidth |-> bandwidth[e]]
              \in [n : Nat, job : Jobs, bandwidth : Nat]
      BY <3>1 DEF Instance
    <3> QED BY <3>2, Zenon DEF Stats
  <2>3. Gone(w) \in SUBSET Instance
    BY <1>3 DEF Gone
  <2>4. report' \in [Workers -> Report]
    BY <1>0, <2>1, <2>2, <2>3 DEF SharedTypeOK, Report, ReportPcs
  <2>5. SharedTypeOK'
    BY <1>0, <1>12, <2>4 DEF CheckJobStatus, redisVars, SharedTypeOK
  <2>6. WorkerTypeOK'
    BY <1>0, <1>12 DEF CheckJobStatus, WorkerTypeOK
  <2>7. LoopHolds'
    BY <1>12 DEF CheckJobStatus, TypeInv, LoopHolds, schedulerVars
  <2>8. report'[w].pc = "next" /\ \A v \in Workers \ {w} : report'[v] = report[v]
    BY <1>0, <2>1 DEF SharedTypeOK, NoReport
  <2>9. ReportHolds'
    BY <2>8 DEF TypeInv, ReportHolds, ReportItem
  <2> QED BY <1>1, <2>5, <2>6, <2>7, <2>9 DEF TypeInv, TypeOK
<1>13. ASSUME ReportLost(w) \/ WorkerDown(w) PROVE TypeInv'
  <2>1. WorkerTypeOK'
    BY <1>0, <1>13 DEF ReportLost, WorkerDown, WorkerTypeOK
  <2>2. SharedTypeOK'
    BY <1>0, <1>13 DEF ReportLost, WorkerDown, Fail, redisVars, SharedTypeOK, FaultKinds
  <2> QED BY <1>2, <1>13, <2>1, <2>2 DEF ReportLost, WorkerDown
<1> QED
  BY <1>8, <1>9, <1>10, <1>11, <1>12, <1>13 DEF WorkerStep, WorkerServes
\* The end of an iteration leaves the ticker goroutine well typed, holding nothing.
LEMMA EndScheduleTypes ==
  ASSUME sch \in Loop, EndSchedule, call' = NoCall
  PROVE  sch' \in Loop /\ LoopHolds'
<1> USE InitialTypes, SchedulerAssumption
<1>1. (sch.tick + 1) % PollMultiplier \in Nat
  BY DEF Loop
<1>2. sch' \in Loop
  BY <1>1 DEF EndSchedule, Loop, LoopPcs
<1>3. sch'.pc \in {"tick", "poll"}
  BY DEF EndSchedule, LoopStart
<1> QED BY <1>2, <1>3 DEF LoopHolds

\* Every step of the ticker goroutine preserves the type invariant.
LEMMA LoopTypeStep ==
  ASSUME TypeInv,
         LoopStep \/ CallRefused(app[call.to] = "up")
           \/ \E w \in Workers : Purge(w, app[w] = "down"),
         UNCHANGED <<apiVars, workerVars>>
  PROVE  TypeInv'
<1> USE InitialTypes
<1>0. /\ SharedTypeOK /\ ApiTypeOK /\ WorkerTypeOK /\ SchedulerTypeOK
      /\ LoopHolds /\ ReportHolds
  BY DEF TypeInv, TypeOK
<1>1. ApiTypeOK' /\ WorkerTypeOK'
  BY <1>0 DEF ApiTypeOK, WorkerTypeOK, apiVars, workerVars
<1>2. ASSUME SharedTypeOK', SchedulerTypeOK', LoopHolds', report' = report
      PROVE  TypeInv'
  <2>1. ReportHolds'
    BY <1>0, <1>2 DEF ReportHolds, ReportItem
  <2> QED BY <1>1, <1>2, <2>1 DEF TypeInv, TypeOK
<1>3. ASSUME EndSchedule, call' = NoCall PROVE sch' \in Loop /\ LoopHolds'
  BY <1>0, <1>3, EndScheduleTypes DEF SchedulerTypeOK
<1>4. ASSUME EndPoll, sch.pc = "poll", call' = call PROVE sch' \in Loop /\ LoopHolds'
  BY <1>0, <1>4 DEF EndPoll, SchedulerTypeOK, LoopHolds, Loop, LoopPcs
<1>5. ASSUME NEW q \in Seq(Message), q # <<>>
      PROVE  Head(q) \in Message /\ Tail(q) \in Seq(Message)
  BY <1>5
<1>6. ASSUME sqs # <<>>, Buffer(Head(sqs))
      PROVE  /\ allJobs' \in [Jobs -> JobRecord \cup {NoJob}]
             /\ queuedJobs' \in Seq(Message)
  <2>1. Head(sqs) \in Message
    BY <1>0, <1>5, <1>6 DEF SharedTypeOK
  <2>2. Head(sqs).job \in Jobs /\ Head(sqs).rec \in JobRecord
    BY <2>1 DEF Message
  <2>3. allJobs' \in [Jobs -> JobRecord \cup {NoJob}]
    BY <1>0, <1>6, <2>2 DEF Buffer, SharedTypeOK
  <2>4. queuedJobs' = Append(queuedJobs, Head(sqs))
    BY <1>6 DEF Buffer, QPush
  <2>5. queuedJobs' \in Seq(Message)
    BY <1>0, <2>1, <2>4 DEF SharedTypeOK
  <2> QED BY <2>3, <2>5
<1>7. ASSUME PollEmpty \/ PollJobQueue \/ PollRedelivered PROVE TypeInv'
  <2>1. sch' \in Loop /\ LoopHolds'
    BY <1>4, <1>7 DEF PollEmpty, PollJobQueue, PollRedelivered, sharedVars
  <2>2. SharedTypeOK'
    <3>1. CASE PollEmpty
      BY <1>0, <3>1 DEF PollEmpty, sharedVars, redisVars, SharedTypeOK
    <3>2. CASE PollJobQueue
      BY <1>0, <1>5, <1>6, <3>2 DEF PollJobQueue, SharedTypeOK
    <3>3. CASE PollRedelivered
      BY <1>0, <1>6, <3>3 DEF PollRedelivered, Fail, SharedTypeOK, FaultKinds
    <3> QED BY <1>7, <3>1, <3>2, <3>3
  <2>3. SchedulerTypeOK'
    BY <1>0, <1>7, <2>1 DEF PollEmpty, PollJobQueue, PollRedelivered, SchedulerTypeOK
  <2> QED BY <1>2, <1>7, <2>1, <2>2, <2>3 DEF PollEmpty, PollJobQueue, PollRedelivered, sharedVars
<1>8. ASSUME NEW stop, Pops(stop)
      PROVE  Front \in Message /\ Tail(queuedJobs) \in Seq(Message)
  BY <1>0, <1>5, <1>8 DEF Pops, Front, SharedTypeOK
<1>9. ASSUME NEW msg \in Message, Done(msg) PROVE answered' \subseteq Nat
  BY <1>0, <1>9 DEF Done, Message, SchedulerTypeOK
<1>10. ASSUME NEW stop, Pops(stop), NEW w \in Workers, SendTo(w) PROVE TypeInv'
  <2>1. call' \in Call
    BY <1>8, <1>10 DEF SendTo, Call, Codes
  <2>2. SharedTypeOK'
    BY <1>0, <1>8, <1>10, <2>1 DEF SendTo, SharedTypeOK
  <2>3. SchedulerTypeOK' /\ LoopHolds'
    BY <1>0, <1>10, <2>1, AbsenceAssumption DEF SendTo, SchedulerTypeOK, Loop, LoopPcs, LoopHolds
  <2> QED BY <1>2, <1>10, <2>2, <2>3 DEF SendTo
<1>11. ASSUME Schedule PROVE TypeInv'
  <2>1. CASE ScheduleEmpty
    <3>1. SharedTypeOK'
      BY <1>0, <2>1 DEF ScheduleEmpty, sharedVars, redisVars, SharedTypeOK
    <3>2. SchedulerTypeOK' /\ LoopHolds'
      BY <1>0, <1>3, <2>1 DEF ScheduleEmpty, LoopHolds, sharedVars, SchedulerTypeOK
    <3> QED BY <1>2, <2>1, <3>1, <3>2 DEF ScheduleEmpty, sharedVars
  <2>2. CASE ScheduleLater
    <3>1. queuedJobs' \in Seq(Message)
      <4>1. Front \in Message /\ Tail(queuedJobs) \in Seq(Message)
        BY <1>8, <2>2 DEF ScheduleLater
      <4>2. queuedJobs' = Append(Tail(queuedJobs), Front)
        BY <2>2 DEF ScheduleLater
      <4> QED BY <4>1, <4>2
    <3>2. SharedTypeOK'
      BY <1>0, <2>2, <3>1 DEF ScheduleLater, SharedTypeOK
    <3>3. SchedulerTypeOK' /\ LoopHolds'
      BY <1>0, <1>3, <2>2 DEF ScheduleLater, Pops, LoopHolds, SchedulerTypeOK
    <3> QED BY <1>2, <2>2, <3>2, <3>3 DEF ScheduleLater
  <2>3. CASE SendStop
    BY <1>10, <2>3 DEF SendStop, Reachable
  <2>4. CASE DropStop
    <3>1. Front \in Message /\ Tail(queuedJobs) \in Seq(Message)
      BY <1>8, <2>4 DEF DropStop
    <3>2. SharedTypeOK'
      BY <1>0, <2>4, <3>1 DEF DropStop, SharedTypeOK
    <3>3. SchedulerTypeOK' /\ LoopHolds'
      BY <1>0, <1>3, <1>9, <2>4, <3>1 DEF DropStop, Pops, LoopHolds, SchedulerTypeOK
    <3> QED BY <1>2, <2>4, <3>2, <3>3 DEF DropStop
  <2>5. CASE \E w \in Workers : SendLaunch(w)
    BY <1>10, <2>5 DEF SendLaunch
  <2> QED BY <1>11, <2>1, <2>2, <2>3, <2>4, <2>5 DEF Schedule
<1>12. ASSUME NEW cause, Fails(cause), UNCHANGED <<sch, answered, report, sqs>>,
              UNCHANGED redisVars, faults' \subseteq FaultKinds
       PROVE  TypeInv'
  <2>1. call \in Call
    BY <1>0, <1>12 DEF Fails, SharedTypeOK
  <2>2. call' \in Call /\ call' # NoCall
    BY <1>12, <2>1, AbsenceAssumption DEF Fails, Call, Codes
  <2>3. SharedTypeOK'
    BY <1>0, <1>12, <2>2 DEF redisVars, SharedTypeOK
  <2>4. SchedulerTypeOK' /\ LoopHolds'
    BY <1>0, <1>12, <2>2 DEF Fails, SchedulerTypeOK, LoopHolds
  <2> QED BY <1>2, <1>12, <2>3, <2>4
<1>13. ASSUME ReplyLost PROVE TypeInv'
  <2>1. faults' \subseteq FaultKinds
    BY <1>0, <1>13 DEF ReplyLost, Fail, FaultKinds, SharedTypeOK
  <2> QED BY <1>12, <1>13, <2>1 DEF ReplyLost, schedulerVars
<1>14. ASSUME NEW reachable, CallRefused(reachable) PROVE TypeInv'
  <2>1. faults' \subseteq FaultKinds
    BY <1>0, <1>14 DEF CallRefused, SharedTypeOK
  <2> QED BY <1>12, <1>14, <2>1 DEF CallRefused, schedulerVars
<1>15. ASSUME NEW stop, NEW codes, Replied(stop, codes)
       PROVE  /\ call \in Call /\ call.to \in Workers /\ call.msg \in Message
              /\ call.msg.job \in Jobs /\ call.msg.rec \in JobRecord
  BY <1>0, <1>15 DEF Replied, SharedTypeOK, Call, Message
<1>16. ASSUME LaunchFailed \/ StopFailed PROVE TypeInv'
  <2>1. PICK stop \in BOOLEAN, codes \in SUBSET Codes : Requeue(stop, codes)
    BY <1>16 DEF LaunchFailed, StopFailed, Codes
  <2>2. queuedJobs' \in Seq(Message)
    BY <1>0, <1>15, <2>1 DEF Requeue, QPush, SharedTypeOK
  <2>3. SharedTypeOK'
    BY <1>0, <2>1, <2>2 DEF Requeue, SharedTypeOK
  <2>4. SchedulerTypeOK' /\ LoopHolds'
    BY <1>0, <1>3, <2>1 DEF Requeue, SchedulerTypeOK
  <2> QED BY <1>2, <2>1, <2>3, <2>4 DEF Requeue
<1>17. ASSUME LaunchConfirmed PROVE TypeInv'
  <2>1. [call.msg.rec EXCEPT !.state = "running", !.assigned = call.to] \in JobRecord
    BY <1>15, <1>17 DEF LaunchConfirmed, JobRecord, JobStates
  <2>2. SharedTypeOK'
    BY <1>0, <1>15, <1>17, <2>1 DEF LaunchConfirmed, HSetJob, SharedTypeOK
  <2>3. SchedulerTypeOK' /\ LoopHolds'
    BY <1>0, <1>17 DEF LaunchConfirmed, Replied, SchedulerTypeOK, Loop, LoopPcs, LoopHolds
  <2> QED BY <1>2, <1>17, <2>2, <2>3 DEF LaunchConfirmed
<1>18. ASSUME call # NoCall
       PROVE  call \in Call /\ call.to \in Workers /\ call.msg \in Message
              /\ call.msg.job \in Jobs
  BY <1>0, <1>18 DEF SharedTypeOK, Call, Message
<1>19. ASSUME AddLoadRead PROVE TypeInv'
  <2>1. call # NoCall
    BY <1>0, <1>19 DEF AddLoadRead, LoopHolds
  <2>2. workerLoads[call.to] \in Load
    BY <1>0, <1>18, <2>1 DEF SharedTypeOK
  <2>3. SharedTypeOK'
    BY <1>0, <1>19 DEF AddLoadRead, sharedVars, redisVars, SharedTypeOK
  <2>4. SchedulerTypeOK' /\ LoopHolds'
    BY <1>0, <1>19, <2>1, <2>2 DEF AddLoadRead, sharedVars, SchedulerTypeOK, Loop,
                                   LoopPcs, LoopHolds
  <2> QED BY <1>2, <1>19, <2>3, <2>4 DEF AddLoadRead, sharedVars
<1>20. ASSUME AddLoadWrite PROVE TypeInv'
  <2>1. call # NoCall
    BY <1>0, <1>20 DEF AddLoadWrite, LoopHolds
  <2>2. Plus(sch.load, call.msg.job) \in Load
    <3>1. sch.load \in Load
      BY <1>0 DEF SchedulerTypeOK, Loop
    <3> QED BY <1>18, <2>1, <3>1, ConstantsAssumption DEF Plus, Load
  <2>3. SharedTypeOK'
    BY <1>0, <1>18, <1>20, <2>1, <2>2 DEF AddLoadWrite, SharedTypeOK
  <2>4. SchedulerTypeOK' /\ LoopHolds'
    BY <1>3, <1>9, <1>18, <1>20, <2>1 DEF AddLoadWrite, SchedulerTypeOK
  <2> QED BY <1>2, <1>20, <2>3, <2>4 DEF AddLoadWrite
<1>21. ASSUME StopConfirmed PROVE TypeInv'
  <2>1. [state |-> "stopped", assigned |-> NoWorker, stop |-> FALSE] \in JobRecord
    BY DEF JobRecord, JobStates
  <2>2. SharedTypeOK'
    BY <1>0, <1>15, <1>21, <2>1 DEF StopConfirmed, HSetJob, SharedTypeOK
  <2>3. SchedulerTypeOK' /\ LoopHolds'
    BY <1>3, <1>9, <1>15, <1>21 DEF StopConfirmed, SchedulerTypeOK
  <2> QED BY <1>2, <1>21, <2>2, <2>3 DEF StopConfirmed
<1>22. ASSUME NEW w \in Workers, NEW silent, Purge(w, silent) PROVE TypeInv'
  <2>1. SharedTypeOK'
    BY <1>0, <1>22 DEF Purge, sharedVars, redisVars, SharedTypeOK
  <2>2. SchedulerTypeOK' /\ LoopHolds'
    BY <1>0, <1>22 DEF Purge, sharedVars, SchedulerTypeOK, Loop, LoopPcs, LoopHolds
  <2> QED BY <1>2, <1>22, <2>1, <2>2 DEF Purge, sharedVars
<1>23. ASSUME NEW j \in Jobs, PurgeRead(j) PROVE TypeInv'
  <2>1. SharedTypeOK'
    BY <1>0, <1>23 DEF PurgeRead, sharedVars, redisVars, SharedTypeOK
  <2>2. allJobs[j] \in JobRecord \cup {NoJob}
    BY <1>0 DEF SharedTypeOK
  <2>3. SchedulerTypeOK' /\ LoopHolds'
    BY <1>0, <1>23, <2>2 DEF PurgeRead, sharedVars, SchedulerTypeOK, Loop, LoopPcs, LoopHolds
  <2> QED BY <1>2, <1>23, <2>1, <2>3 DEF PurgeRead, sharedVars
<1>24. ASSUME PurgeWrite PROVE TypeInv'
  <2>1. sch.job \in Jobs /\ sch.rec \in JobRecord
    BY <1>0, <1>24 DEF PurgeWrite, LoopHolds, SchedulerTypeOK, Loop
  <2>2. [sch.rec EXCEPT !.state = "stopped"] \in JobRecord
    BY <2>1 DEF JobRecord, JobStates
  <2>3. SharedTypeOK'
    BY <1>0, <1>24, <2>1, <2>2 DEF PurgeWrite, HSetJob, SharedTypeOK
  <2>4. SchedulerTypeOK' /\ LoopHolds'
    BY <1>0, <1>24 DEF PurgeWrite, SchedulerTypeOK, Loop, LoopPcs, LoopHolds
  <2> QED BY <1>2, <1>24, <2>3, <2>4 DEF PurgeWrite
<1>25. ASSUME RemoveWorker PROVE TypeInv'
  <2>1. SharedTypeOK'
    BY <1>0, <1>25 DEF RemoveWorker, SharedTypeOK
  <2>2. SchedulerTypeOK' /\ LoopHolds'
    BY <1>0, <1>25 DEF RemoveWorker, SchedulerTypeOK, LoopStart, Loop, LoopPcs, LoopHolds
  <2> QED BY <1>2, <1>25, <2>1, <2>2 DEF RemoveWorker
<1> QED
  BY <1>7, <1>11, <1>13, <1>14, <1>16, <1>17, <1>19, <1>20, <1>21, <1>22, <1>23,
     <1>24, <1>25 DEF LoopStep
\* Every step of a report handler preserves the type invariant.
LEMMA ReportTypeStep ==
  ASSUME TypeInv, NEW w \in Workers, ReportStep(w),
         UNCHANGED <<apiVars, workerVars>>
  PROVE  TypeInv'
<1> USE InitialTypes
<1> DEFINE item == ReportItem(w)
<1>0. /\ SharedTypeOK /\ ApiTypeOK /\ WorkerTypeOK /\ SchedulerTypeOK
      /\ LoopHolds /\ ReportHolds
  BY DEF TypeInv, TypeOK
<1>1. ApiTypeOK' /\ WorkerTypeOK'
  BY <1>0 DEF ApiTypeOK, WorkerTypeOK, apiVars, workerVars
<1>2. /\ report[w] \in Report
      /\ report[w].stopped \subseteq Instance
      /\ report[w].stats \subseteq [n : Nat, job : Jobs, bandwidth : Nat]
  BY <1>0 DEF SharedTypeOK, Report
<1>3. ASSUME report[w].stopped # {} \/ report[w].stats # {}
      PROVE  /\ item.job \in Jobs
             /\ InStopped(w) => item \in report[w].stopped
             /\ ~InStopped(w) => item \in report[w].stats
  <2>1. CASE report[w].stopped # {}
    <3>1. item = Oldest(report[w].stopped) /\ InStopped(w)
      BY <2>1 DEF ReportItem, InStopped
    <3>2. \A e \in report[w].stopped : e.n \in Nat /\ e.job \in Jobs
      BY <1>2 DEF Instance
    <3>3. item \in report[w].stopped
      BY <2>1, <3>1, <3>2, OldestIn
    <3> QED BY <3>1, <3>2, <3>3
  <2>2. CASE report[w].stopped = {}
    <3>1. item = Oldest(report[w].stats) /\ ~InStopped(w)
      BY <2>2 DEF ReportItem, InStopped
    <3>2. \A e \in report[w].stats : e.n \in Nat /\ e.job \in Jobs
      BY <1>2
    <3>3. item \in report[w].stats
      BY <1>3, <2>2, <3>1, <3>2, OldestIn
    <3> QED BY <3>1, <3>2, <3>3
  <2> QED BY <2>1, <2>2
<1> HIDE DEF item
<1>4. NextItem(report[w], w) \in Report /\ NextItem(report[w], w).pc = "next"
  BY <1>2 DEF NextItem, Report, ReportPcs
<1>5. ASSUME NEW r \in Report, report' = [report EXCEPT ![w] = r],
             r.pc = "write" => r.rec # NoJob /\ (r.stopped # {} \/ r.stats # {}),
             r.pc \in {"loadRead", "loadWrite"} => r.stopped # {},
             r.pc = "loadWrite" => /\ r.stopped = report[w].stopped
                                   /\ r.load.jobs[item.job] > 0,
             SharedTypeOK', UNCHANGED schedulerVars, UNCHANGED call
      PROVE  TypeInv'
  <2>1. SchedulerTypeOK' /\ LoopHolds'
    BY <1>0, <1>5 DEF schedulerVars, SchedulerTypeOK, LoopHolds
  <2>2. report'[w] = r /\ \A v \in Workers \ {w} : report'[v] = report[v]
    BY <1>0, <1>5 DEF SharedTypeOK
  <2>3. r.pc = "loadWrite" => ReportItem(w)' = item
    BY <1>5, <2>2 DEF ReportItem, item
  <2>4. ReportHolds'
    BY <1>0, <1>5, <2>2, <2>3 DEF ReportHolds, ReportItem
  <2> QED BY <1>1, <1>5, <2>1, <2>4 DEF TypeInv, TypeOK
<1>6. ASSUME ReportRead(w) PROVE TypeInv'
  <2> DEFINE rec == allJobs[item.job]
             r == IF rec # NoJob THEN [report[w] EXCEPT !.pc = "write", !.rec = rec]
                  ELSE IF InStopped(w) THEN [report[w] EXCEPT !.pc = "loadRead"]
                  ELSE NextItem(report[w], w)
  <2>1. rec \in JobRecord \cup {NoJob}
    BY <1>0, <1>3, <1>6 DEF ReportRead, SharedTypeOK
  <2>2. report' = [report EXCEPT ![w] = r]
    BY <1>0, <1>6 DEF ReportRead, SharedTypeOK, item
  <2>3. r \in Report
    BY <1>2, <1>4, <2>1 DEF Report, ReportPcs
  <2>4. /\ r.pc = "write" => r.rec # NoJob /\ (r.stopped # {} \/ r.stats # {})
        /\ r.pc = "loadRead" => r.stopped # {}
        /\ r.pc # "loadWrite"
    BY <1>2, <1>4, <1>6 DEF ReportRead, InStopped, Report
  <2>5. SharedTypeOK'
    BY <1>0, <1>6, <2>2, <2>3 DEF ReportRead, redisVars, SharedTypeOK
  <2> QED BY <1>5, <1>6, <2>2, <2>3, <2>4, <2>5 DEF ReportRead
<1>7. ASSUME ReportWrite(w) PROVE TypeInv'
  <2> DEFINE r == IF InStopped(w) THEN [report[w] EXCEPT !.pc = "loadRead", !.rec = NoJob]
                  ELSE NextItem(report[w], w)
  <2>1. report[w].rec \in JobRecord /\ item.job \in Jobs
    BY <1>0, <1>2, <1>3, <1>7 DEF ReportWrite, Reporting, ReportHolds, Report
  <2>2. report' = [report EXCEPT ![w] = r]
    BY <1>0, <1>7 DEF ReportWrite, SharedTypeOK
  <2>3. r \in Report
    BY <1>2, <1>4 DEF Report, ReportPcs
  <2>4. r.pc \in {"next", "loadRead"} /\ (r.pc = "loadRead" => r.stopped # {})
    BY <1>2, <1>4 DEF InStopped, Report
  <2>5. [report[w].rec EXCEPT !.state = ReportedState(w)] \in JobRecord
    BY <2>1 DEF ReportedState, JobRecord, JobStates
  <2>6. SharedTypeOK'
    BY <1>0, <1>7, <2>1, <2>2, <2>3, <2>5 DEF ReportWrite, HSetJob, SharedTypeOK, item
  <2> QED BY <1>5, <1>7, <2>2, <2>3, <2>4, <2>6 DEF ReportWrite
<1>8. ASSUME ReportLoadRead(w) PROVE TypeInv'
  <2> DEFINE r == IF workerLoads[w].jobs[item.job] > 0
                  THEN [report[w] EXCEPT !.pc = "loadWrite", !.load = workerLoads[w]]
                  ELSE NextItem(report[w], w)
  <2>1. report[w].stopped # {} /\ workerLoads[w] \in Load
    BY <1>0, <1>8 DEF ReportLoadRead, Reporting, ReportHolds, SharedTypeOK
  <2>2. report' = [report EXCEPT ![w] = r]
    BY <1>0, <1>8 DEF ReportLoadRead, SharedTypeOK, item
  <2>3. r \in Report
    BY <1>2, <1>4, <2>1 DEF Report, ReportPcs
  <2>4. /\ r.pc \in {"next", "loadWrite"}
        /\ r.pc = "loadWrite" => /\ r.stopped = report[w].stopped
                                 /\ r.load.jobs[item.job] > 0
    BY <1>2, <1>4 DEF Report
  <2>5. SharedTypeOK'
    BY <1>0, <1>8, <2>2, <2>3 DEF ReportLoadRead, redisVars, SharedTypeOK
  <2> QED BY <1>5, <1>8, <2>1, <2>2, <2>3, <2>4, <2>5 DEF ReportLoadRead
<1>9. ASSUME ReportLoadWrite(w) PROVE TypeInv'
  <2>1. report[w].stopped # {} /\ report[w].load.jobs[item.job] > 0
    BY <1>0, <1>9 DEF ReportLoadWrite, Reporting, ReportHolds, item
  <2>2. Minus(report[w].load, item.job) \in Load
    <3>1. report[w].load \in Load
      BY <1>2 DEF Report
    <3> QED BY <1>3, <2>1, <3>1, ConstantsAssumption DEF Minus, Load
  <2>3. report' = [report EXCEPT ![w] = NextItem(report[w], w)]
    BY <1>0, <1>9 DEF ReportLoadWrite, SharedTypeOK
  <2>4. SharedTypeOK'
    BY <1>0, <1>4, <1>9, <2>2, <2>3 DEF ReportLoadWrite, SharedTypeOK, item
  <2> QED BY <1>4, <1>5, <1>9, <2>3, <2>4 DEF ReportLoadWrite
<1>10. ASSUME ReportDone(w) PROVE TypeInv'
  <2>1. SharedTypeOK'
    BY <1>0, <1>10 DEF ReportDone, redisVars, SharedTypeOK
  <2>2. NoReport.pc = "idle"
    BY DEF NoReport
  <2> QED BY <1>5, <1>10, <2>1, <2>2 DEF ReportDone
<1> QED
  BY <1>6, <1>7, <1>8, <1>9, <1>10 DEF ReportStep

\* A restart of the scheduler preserves the type invariant.
LEMMA RestartTypeStep ==
  ASSUME TypeInv, Restart, UNCHANGED <<apiVars, workerVars>>
  PROVE  TypeInv'
<1> USE InitialTypes
<1>0. SharedTypeOK /\ ApiTypeOK /\ WorkerTypeOK /\ SchedulerTypeOK
  BY DEF TypeInv, TypeOK
<1>1. ApiTypeOK' /\ WorkerTypeOK'
  BY <1>0 DEF ApiTypeOK, WorkerTypeOK, apiVars, workerVars
<1>2. SharedTypeOK'
  BY <1>0 DEF Restart, Fail, redisVars, SharedTypeOK, FaultKinds
<1>3. SchedulerTypeOK'
  BY <1>0 DEF Restart, SchedulerTypeOK
<1>4. LoopHolds'
  BY DEF Restart, LoopStart, LoopHolds
<1>5. ReportHolds'
  BY DEF Restart, NoReport, ReportHolds
<1> QED BY <1>1, <1>2, <1>3, <1>4, <1>5 DEF TypeInv, TypeOK

\* The type invariant is inductive.
LEMMA TypeStep == TypeInv /\ [Next]_vars => TypeInv'
<1> SUFFICES ASSUME TypeInv, [Next]_vars PROVE TypeInv'
  OBVIOUS
<1>1. CASE UNCHANGED vars
  <2>1. TypeOK'
    BY <1>1 DEF TypeInv, TypeOK, SharedTypeOK, ApiTypeOK, WorkerTypeOK, SchedulerTypeOK,
                vars, sharedVars, redisVars, apiVars, workerVars, schedulerVars
  <2>2. LoopHolds' /\ ReportHolds'
    BY <1>1, HoldsKept DEF TypeInv, vars, sharedVars, schedulerVars
  <2> QED BY <2>1, <2>2 DEF TypeInv
<1>2. CASE Next
  BY <1>2, ApiTypeStep, WorkerTypeStep, LoopTypeStep, ReportTypeStep, RestartTypeStep
     DEF Next
<1> QED BY <1>1, <1>2

\* Every variable has its type in every reachable state; in particular the load
\* of a worker never lists a job a negative number of times, although the report
\* handler subtracts from a load it read earlier.
THEOREM TypeCorrect == Spec => []TypeOK
<1>1. Init => TypeInv
  BY TypeInit
<1>2. TypeInv /\ [Next]_vars => TypeInv'
  BY TypeStep
<1>3. TypeInv => TypeOK
  BY DEF TypeInv
<1> QED BY <1>1, <1>2, <1>3, PTL DEF Spec

(***************************************************************************)
(* No accepted job request is lost: from SendMsg on its id is in SQS, in   *)
(* queued_jobs, in the scheduler's hand or among the answered ones, as     *)
(* long as the scheduler process is not restarted.                         *)
(*                                                                         *)
(* The invariant is inductive relative to the types.  What the types add   *)
(* is LoopHolds: the scheduler pops a job only with an empty hand, so that *)
(* taking one up cannot overwrite another.                                 *)
(***************************************************************************)
Held == Pending \cup answered

\* The ids of a queue and one more message (QPush, SendMsg).
LEMMA IdsAppend ==
  ASSUME NEW q \in Seq(Message), NEW msg \in Message
  PROVE  Ids(Append(q, msg)) = Ids(q) \cup {msg.id}
<1>1. /\ Len(q) \in Nat /\ DOMAIN q = 1 .. Len(q)
      /\ DOMAIN Append(q, msg) = 1 .. Len(q) + 1
      /\ \A i \in 1 .. Len(q) : Append(q, msg)[i] = q[i]
      /\ Append(q, msg)[Len(q) + 1] = msg
  BY AppendProperties, LenProperties
<1>2. 1 .. Len(q) + 1 = 1 .. Len(q) \cup {Len(q) + 1}
  BY <1>1
<1> QED BY <1>1, <1>2 DEF Ids

\* The ids of a queue are those of its front and of the rest (popBufferedJob).
LEMMA IdsTail ==
  ASSUME NEW q \in Seq(Message), q # <<>>
  PROVE  /\ Head(q) \in Message /\ Tail(q) \in Seq(Message)
         /\ Ids(q) = {Head(q).id} \cup Ids(Tail(q))
<1>1. Head(q) \in Message /\ Tail(q) \in Seq(Message)
  OBVIOUS
<1>2. /\ Len(q) \in Nat /\ Len(q) > 0 /\ DOMAIN q = 1 .. Len(q)
      /\ DOMAIN Tail(q) = 1 .. Len(q) - 1
      /\ \A i \in 1 .. Len(q) - 1 : Tail(q)[i] = q[i + 1]
      /\ Head(q) = q[1]
  BY HeadTailProperties, LenProperties, EmptySeq
<1>3. ASSUME NEW id \in Ids(q) PROVE id \in {Head(q).id} \cup Ids(Tail(q))
  <2>1. PICK i \in DOMAIN q : id = q[i].id
    BY DEF Ids
  <2>2. CASE i = 1
    BY <1>2, <2>1, <2>2
  <2>3. CASE i # 1
    <3>1. i - 1 \in DOMAIN Tail(q) /\ Tail(q)[i - 1] = q[i]
      BY <1>2, <2>1, <2>3
    <3> QED BY <2>1, <3>1 DEF Ids
  <2> QED BY <2>2, <2>3
<1>4. ASSUME NEW id \in {Head(q).id} \cup Ids(Tail(q)) PROVE id \in Ids(q)
  <2>1. CASE id = Head(q).id
    BY <1>2, <2>1 DEF Ids
  <2>2. CASE id \in Ids(Tail(q))
    <3>1. PICK i \in DOMAIN Tail(q) : id = Tail(q)[i].id
      BY <2>2 DEF Ids
    <3>2. i + 1 \in DOMAIN q /\ q[i + 1] = Tail(q)[i]
      BY <1>2, <3>1
    <3> QED BY <3>1, <3>2 DEF Ids
  <2> QED BY <2>1, <2>2
<1> QED BY <1>1, <1>3, <1>4
\* What every step but a restart does to the requests and the failures.
KeepsRequests ==
  /\ Held \subseteq Held'
  /\ DOMAIN accepted' \subseteq DOMAIN accepted \cup Held'
  /\ faults \subseteq faults'

\* The steps of the API handlers keep the requests; SendMsg adds one.
LEMMA ApiKeepsRequests ==
  ASSUME TypeInv, NEW h \in Handlers, ApiRequest(h) \/ ApiStep(h),
         UNCHANGED <<workerVars, schedulerVars>>
  PROVE  KeepsRequests
<1>0. /\ sqs \in Seq(Message) /\ api \in [Handlers -> Handler]
      /\ accepted \in Seq(AcceptedRequest)
  BY DEF TypeInv, TypeOK, SharedTypeOK, ApiTypeOK
<1>1. ASSUME SendMsg(h) PROVE KeepsRequests
  <2> DEFINE msg == [id |-> Len(accepted) + 1, job |-> api[h].job, rec |-> api[h].rec]
  <2>1. msg \in Message
    BY <1>0 DEF Message, Handler
  <2>2. sqs' = Append(sqs, msg)
    BY <1>1 DEF SendMsg
  <2>3. Ids(sqs)' = Ids(sqs) \cup {Len(accepted) + 1}
    <3> HIDE DEF msg
    <3>1. Ids(sqs') = Ids(sqs) \cup {msg.id}
      BY <1>0, <2>1, <2>2, IdsAppend
    <3> QED BY <3>1 DEF msg, Ids
  <2>4. UNCHANGED <<queuedJobs, call, answered, faults>>
    BY <1>1 DEF SendMsg, redisVars, schedulerVars
  <2>5. DOMAIN accepted' = DOMAIN accepted \cup {Len(accepted) + 1}
    <3> DEFINE a == [job |-> api[h].job, stop |-> api[h].rec.stop,
                     assigned |-> api[h].rec.assigned]
    <3>1. a \in AcceptedRequest /\ accepted' = Append(accepted, a)
      BY <1>0, <1>1 DEF SendMsg, Handler, JobRecord, AcceptedRequest
    <3> HIDE DEF a
    <3> QED BY <1>0, <3>1, AppendProperties, LenProperties
  <2>6. Held' = Held \cup {Len(accepted) + 1}
    BY <2>3, <2>4 DEF Held, Pending, InHand, Ids
  <2> QED BY <2>4, <2>5, <2>6 DEF KeepsRequests
<1>2. ASSUME ~SendMsg(h) PROVE KeepsRequests
  <2>1. UNCHANGED <<sqs, queuedJobs, call, answered, accepted>> /\ faults \subseteq faults'
    BY <1>2 DEF ApiRequest, ApiStep, CreateJob, ReadBack, StopJob, ResumeJob, WriteRecord,
                SendMsgFails, DeleteJob, DeleteRecord, Fail, sharedVars, redisVars,
                schedulerVars
  <2> QED BY <2>1 DEF KeepsRequests, Held, Pending, InHand, Ids
<1> QED BY <1>1, <1>2

\* The steps of the workers keep the requests: an answer leaves the request in
\* the scheduler's hand.
LEMMA WorkerKeepsRequests ==
  ASSUME TypeInv, NEW w \in Workers, WorkerStep(w), UNCHANGED <<apiVars, schedulerVars>>
  PROVE  KeepsRequests
<1>1. UNCHANGED <<sqs, queuedJobs, answered, accepted>> /\ faults \subseteq faults'
  BY DEF WorkerStep, RegisterWorker, WorkerServes, HandleCreate, HandleCreateFails,
         HandleStopNotFound, HandleStop, ProcessStep, Terminate, Exit, CheckJobStatus,
         ReportLost, WorkerDown, Fail, sharedVars, redisVars, apiVars, schedulerVars
<1>2. InHand' = InHand
  <2>1. CASE WorkerServes(w)
    <3>1. call # NoCall /\ call \in Call /\ \E code \in Codes : Answer(code)
      BY <2>1 DEF WorkerServes, HandleCreate, HandleCreateFails, HandleStopNotFound,
                  HandleStop, Requested, Codes, TypeInv, TypeOK, SharedTypeOK
    <3>2. call' \in Call /\ call'.msg = call.msg
      BY <3>1 DEF Answer, Call
    <3> QED BY <3>1, <3>2, AbsenceAssumption DEF InHand
  <2>2. CASE ~WorkerServes(w)
    <3>1. call' = call
      BY <2>2 DEF WorkerStep, RegisterWorker, ProcessStep, Terminate, Exit, CheckJobStatus,
                  ReportLost, WorkerDown, sharedVars
    <3> QED BY <3>1 DEF InHand
  <2> QED BY <2>1, <2>2
<1> QED BY <1>1, <1>2 DEF KeepsRequests, Held, Pending, Ids

\* The steps of the ticker goroutine keep the requests: they move them from SQS
\* to queued_jobs, to its hand, and back or to the answered ones.
LEMMA LoopKeepsRequests ==
  ASSUME TypeInv,
         LoopStep \/ CallRefused(app[call.to] = "up")
           \/ \E w \in Workers : Purge(w, app[w] = "down"),
         UNCHANGED <<apiVars, workerVars>>
  PROVE  KeepsRequests
<1>0. /\ sqs \in Seq(Message) /\ queuedJobs \in Seq(Message)
      /\ call \in Call \cup {NoCall} /\ LoopHolds
  BY DEF TypeInv, TypeOK, SharedTypeOK
<1>1. accepted' = accepted /\ faults \subseteq faults'
  BY DEF LoopStep, Schedule, ScheduleEmpty, ScheduleLater, SendStop, DropStop, SendLaunch,
         SendTo, PollEmpty, PollJobQueue, PollRedelivered, ReplyLost, CallRefused,
         LaunchFailed, StopFailed, Requeue, LaunchConfirmed, AddLoadRead, AddLoadWrite,
         StopConfirmed, Purge, PurgeRead, PurgeWrite, RemoveWorker, Fail, sharedVars,
         redisVars, apiVars
<1>2. ASSUME Held \subseteq Held' PROVE KeepsRequests
  BY <1>1, <1>2 DEF KeepsRequests
<1>3. ASSUME UNCHANGED <<sqs, queuedJobs, call, answered>> PROVE KeepsRequests
  BY <1>2, <1>3 DEF Held, Pending, InHand, Ids
<1>4. ASSUME PollJobQueue \/ PollRedelivered PROVE KeepsRequests
  <2>1. sqs # <<>> /\ queuedJobs' = Append(queuedJobs, Head(sqs))
    BY <1>4 DEF PollJobQueue, PollRedelivered, Buffer, QPush
  <2>2. sqs' = Tail(sqs) \/ sqs' = sqs
    BY <1>4 DEF PollJobQueue, PollRedelivered
  <2>3. Head(sqs) \in Message /\ Ids(sqs) = {Head(sqs).id} \cup Ids(Tail(sqs))
    BY <1>0, <2>1, IdsTail
  <2>4. Ids(queuedJobs') = Ids(queuedJobs) \cup {Head(sqs).id}
    BY <1>0, <2>1, <2>3, IdsAppend
  <2>5. Ids(sqs) \subseteq Ids(sqs') \cup {Head(sqs).id}
    BY <2>2, <2>3
  <2>6. UNCHANGED <<call, answered>>
    BY <1>4 DEF PollJobQueue, PollRedelivered
  <2> QED BY <1>2, <2>4, <2>5, <2>6 DEF Held, Pending, InHand, Ids
<1>5. ASSUME NEW stop, Pops(stop)
      PROVE  /\ Front \in Message /\ Tail(queuedJobs) \in Seq(Message)
             /\ Ids(queuedJobs) = {Front.id} \cup Ids(Tail(queuedJobs))
             /\ InHand = {}
  <2>1. queuedJobs # <<>> /\ call = NoCall
    BY <1>0, <1>5 DEF Pops, LoopHolds
  <2> QED BY <1>0, <2>1, IdsTail DEF Front, InHand
<1>6. ASSUME ScheduleLater PROVE KeepsRequests
  <2>1. Pops(FALSE) /\ queuedJobs' = Append(Tail(queuedJobs), Front)
    BY <1>6 DEF ScheduleLater
  <2>2. Ids(queuedJobs') = Ids(queuedJobs)
    BY <1>5, <2>1, IdsAppend
  <2>3. UNCHANGED <<sqs, call, answered>>
    BY <1>6 DEF ScheduleLater
  <2> QED BY <1>2, <2>2, <2>3 DEF Held, Pending, InHand, Ids
<1>7. ASSUME NEW stop, Pops(stop), NEW w \in Workers, SendTo(w) PROVE KeepsRequests
  <2>1. call' # NoCall /\ call'.msg = Front
    <3>1. call' \in Call
      BY <1>5, <1>7 DEF SendTo, Call, Codes
    <3> QED BY <1>7, <3>1, AbsenceAssumption DEF SendTo
  <2>2. queuedJobs' = Tail(queuedJobs) /\ UNCHANGED <<sqs, answered>>
    BY <1>7 DEF SendTo
  <2>3. InHand' = {Front.id}
    BY <2>1 DEF InHand
  <2> QED BY <1>2, <1>5, <1>7, <2>2, <2>3 DEF Held, Pending, Ids
<1>8. ASSUME DropStop PROVE KeepsRequests
  <2>1. Pops(TRUE) /\ queuedJobs' = Tail(queuedJobs) /\ answered' = answered \cup {Front.id}
    BY <1>8 DEF DropStop, Done
  <2>2. UNCHANGED <<sqs, call>>
    BY <1>8 DEF DropStop
  <2> QED BY <1>2, <1>5, <2>1, <2>2 DEF Held, Pending, InHand, Ids
<1>9. ASSUME Schedule PROVE KeepsRequests
  <2>1. ScheduleEmpty => KeepsRequests
    BY <1>3 DEF ScheduleEmpty, sharedVars, redisVars
  <2>2. SendStop => KeepsRequests
    BY <1>7 DEF SendStop, Reachable
  <2>3. ASSUME NEW w \in Workers, SendLaunch(w) PROVE KeepsRequests
    BY <1>7, <2>3 DEF SendLaunch
  <2> QED BY <1>6, <1>8, <1>9, <2>1, <2>2, <2>3 DEF Schedule
<1>10. ASSUME NEW cause, Fails(cause), UNCHANGED <<sqs, answered>>, UNCHANGED redisVars
       PROVE  KeepsRequests
  <2>1. call # NoCall /\ call' \in Call /\ call'.msg = call.msg
    BY <1>0, <1>10 DEF Fails, Call, Codes
  <2>2. InHand' = InHand
    BY <2>1, AbsenceAssumption DEF InHand
  <2> QED BY <1>2, <1>10, <2>2 DEF redisVars, Held, Pending, Ids
<1>11. ASSUME NEW stop, NEW codes, Requeue(stop, codes) PROVE KeepsRequests
  <2>1. call \in Call /\ call # NoCall /\ call.msg \in Message
    BY <1>0, <1>11 DEF Requeue, Replied, Call
  <2>2. Ids(queuedJobs') = Ids(queuedJobs) \cup {call.msg.id}
    BY <1>0, <1>11, <2>1, IdsAppend DEF Requeue, QPush
  <2>3. InHand = {call.msg.id}
    BY <2>1 DEF InHand
  <2>4. UNCHANGED <<sqs, answered>>
    BY <1>11 DEF Requeue
  <2> QED BY <1>2, <2>2, <2>3, <2>4 DEF Held, Pending, InHand, Ids
<1>12. ASSUME AddLoadWrite \/ StopConfirmed PROVE KeepsRequests
  <2>1. /\ answered' = answered \cup {call.msg.id}
        /\ UNCHANGED <<sqs, queuedJobs>>
    BY <1>12 DEF AddLoadWrite, StopConfirmed, Done
  <2>2. InHand \subseteq {call.msg.id}
    BY DEF InHand
  <2> QED BY <1>2, <2>1, <2>2 DEF Held, Pending, InHand, Ids
<1>13. PollEmpty \/ LaunchConfirmed \/ AddLoadRead => KeepsRequests
  BY <1>3 DEF PollEmpty, LaunchConfirmed, AddLoadRead, sharedVars, redisVars
<1>14. ASSUME \/ \E w \in Workers : Purge(w, app[w] = "down")
              \/ \E j \in Jobs : PurgeRead(j)
              \/ PurgeWrite \/ RemoveWorker
       PROVE  KeepsRequests
  BY <1>3, <1>14 DEF Purge, PurgeRead, PurgeWrite, RemoveWorker, sharedVars, redisVars
<1>15. ReplyLost \/ CallRefused(app[call.to] = "up") => KeepsRequests
  BY <1>10 DEF ReplyLost, CallRefused, schedulerVars
<1>16. LaunchFailed \/ StopFailed => KeepsRequests
  BY <1>11 DEF LaunchFailed, StopFailed
<1> QED
  BY <1>4, <1>9, <1>12, <1>13, <1>14, <1>15, <1>16 DEF LoopStep

\* The steps of the report handlers do not touch the requests.
LEMMA ReportKeepsRequests ==
  ASSUME NEW w \in Workers, ReportStep(w), UNCHANGED <<apiVars, workerVars>>
  PROVE  KeepsRequests
<1>1. UNCHANGED <<sqs, queuedJobs, call, answered, accepted, faults>>
  BY DEF ReportStep, ReportRead, ReportWrite, ReportLoadRead, ReportLoadWrite, ReportDone,
         redisVars, schedulerVars, apiVars
<1> QED BY <1>1 DEF KeepsRequests, Held, Pending, InHand, Ids

\* The theorem's step: only a restart of the scheduler may lose a request, and
\* it is recorded among the failures.
LEMMA RequestStep == TypeInv /\ NoRequestLost /\ [Next]_vars => NoRequestLost'
<1> SUFFICES ASSUME TypeInv, NoRequestLost, [Next]_vars PROVE NoRequestLost'
  OBVIOUS
<1>1. KeepsRequests => NoRequestLost'
  BY DEF KeepsRequests, NoRequestLost, Held
<1>2. CASE UNCHANGED vars
  <2>1. KeepsRequests
    BY <1>2 DEF vars, sharedVars, redisVars, apiVars, schedulerVars, KeepsRequests, Held,
                Pending, InHand, Ids
  <2> QED BY <1>1, <2>1
<1>3. CASE Restart
  <2>1. "restart" \in faults'
    BY <1>3 DEF Restart, Fail
  <2> QED BY <2>1 DEF NoRequestLost
<1>4. CASE Next /\ ~Restart
  <2>1. KeepsRequests
    BY <1>4, ApiKeepsRequests, WorkerKeepsRequests, LoopKeepsRequests, ReportKeepsRequests
       DEF Next
  <2> QED BY <1>1, <2>1
<1> QED BY <1>2, <1>3, <1>4

\* No accepted request is ever lost while the scheduler process keeps running:
\* not by failing launches, lost answers, second deliveries or stopped workers.
THEOREM RequestsKept == Spec => []NoRequestLost
<1>1. Init => TypeInv /\ NoRequestLost
  <2>1. Init => NoRequestLost
    BY DEF Init, ApiInit, NoRequestLost
  <2> QED BY <2>1, TypeInit
<1>2. TypeInv /\ NoRequestLost /\ [Next]_vars => TypeInv' /\ NoRequestLost'
  BY TypeStep, RequestStep
<1> QED BY <1>1, <1>2, PTL DEF Spec

(***************************************************************************)
(* The recorded load of a worker exceeds its capacity by less than one     *)
(* job, although scheduleOneJob, addNewJobLoad and updateWorkerLoad each   *)
(* act on a load that may have changed since they read it.                 *)
(*                                                                         *)
(* Only AddLoadWrite adds to a load, and there is one ticker goroutine.    *)
(* Between its check of the capacity and that write the load of the worker *)
(* can only be replaced by a report handler, with a load that was within   *)
(* the bound when it was read and has lost one job since: so there is room *)
(* again when addNewJobLoad reads it, and one more job still fits.         *)
(***************************************************************************)
Room(load) == load.cpu < CpuCapacity /\ load.bandwidth < BandwidthCapacity

Fits(load) == /\ load.cpu < CpuCapacity + JobCpu
              /\ load.bandwidth < BandwidthCapacity + JobBandwidth

LaunchHasRoom ==
  /\ sch.pc \in {"wait", "loadRead"} /\ ~call.msg.rec.stop
       => Room(workerLoads[call.to])
  /\ sch.pc = "loadRead" => ~call.msg.rec.stop
  /\ sch.pc = "loadWrite" => Room(sch.load)

ReportsFit ==
  \A w \in Workers : report[w].pc = "loadWrite" => Fits(report[w].load)

CapacityInv == WithinCapacity /\ LaunchHasRoom /\ ReportsFit

\* A load with room for it still fits after one more job (addNewJobLoad).
LEMMA PlusFits ==
  ASSUME NEW load \in Load, NEW j \in Jobs, Room(load)
  PROVE  Fits(Plus(load, j))
  BY ConstantsAssumption DEF Load, Room, Fits, Plus

\* A load that fits has room after one job less (updateWorkerLoad).
LEMMA MinusRoom ==
  ASSUME NEW load \in Load, NEW j \in Jobs, Fits(load)
  PROVE  Room(Minus(load, j)) /\ Fits(Minus(load, j))
  BY ConstantsAssumption DEF Load, Room, Fits, Minus

\* The initial loads are empty.
LEMMA CapacityInit == Init => CapacityInv
<1> SUFFICES ASSUME Init PROVE CapacityInv
  OBVIOUS
<1>1. WithinCapacity
  BY ConstantsAssumption DEF Init, SharedInit, NoLoad, WithinCapacity
<1>2. LaunchHasRoom
  BY DEF Init, SchedulerInit, LoopStart, LaunchHasRoom
<1>3. ReportsFit
  BY DEF Init, SharedInit, NoReport, ReportsFit
<1> QED BY <1>1, <1>2, <1>3 DEF CapacityInv

\* A step that changes no load, no read load and not the request in hand, except
\* for its answer, keeps the capacity invariant.
LEMMA CapacityKept ==
  ASSUME CapacityInv, workerLoads' = workerLoads, sch' = sch,
         call' = call \/ (call'.to = call.to /\ call'.msg = call.msg),
         \A w \in Workers : report'[w] = report[w] \/ report'[w].pc # "loadWrite"
  PROVE  CapacityInv'
<1>1. WithinCapacity'
  BY DEF CapacityInv, WithinCapacity
<1>2. LaunchHasRoom'
  BY DEF CapacityInv, LaunchHasRoom, Room
<1>3. ReportsFit'
  BY DEF CapacityInv, ReportsFit, Fits
<1> QED BY <1>1, <1>2, <1>3 DEF CapacityInv

\* So does the end of an iteration of the ticker goroutine, and its removal of
\* a worker: it has no request in hand then.
LEMMA CapacityIdle ==
  ASSUME CapacityInv, workerLoads' = workerLoads, report' = report,
         sch'.pc \notin {"wait", "loadRead", "loadWrite"}
  PROVE  CapacityInv'
<1>1. WithinCapacity'
  BY DEF CapacityInv, WithinCapacity
<1>2. LaunchHasRoom'
  BY DEF LaunchHasRoom
<1>3. ReportsFit'
  BY DEF CapacityInv, ReportsFit, Fits
<1> QED BY <1>1, <1>2, <1>3 DEF CapacityInv

\* The steps of the API handlers keep the capacity invariant.
LEMMA ApiCapacityStep ==
  ASSUME CapacityInv, NEW h \in Handlers, ApiRequest(h) \/ ApiStep(h),
         UNCHANGED <<workerVars, schedulerVars>>
  PROVE  CapacityInv'
<1>1. UNCHANGED <<workerLoads, call, report>>
  BY DEF ApiRequest, ApiStep, CreateJob, ReadBack, StopJob, ResumeJob, WriteRecord,
         SendMsg, SendMsgFails, DeleteJob, DeleteRecord, sharedVars, redisVars
<1> QED BY <1>1, CapacityKept DEF schedulerVars

\* The steps of the workers keep the capacity invariant.
LEMMA WorkerCapacityStep ==
  ASSUME TypeInv, CapacityInv, NEW w \in Workers, WorkerStep(w),
         UNCHANGED <<apiVars, schedulerVars>>
  PROVE  CapacityInv'
<1>0. call \in Call \cup {NoCall} /\ report \in [Workers -> Report]
  BY DEF TypeInv, TypeOK, SharedTypeOK
<1>1. ASSUME WorkerServes(w) PROVE CapacityInv'
  <2>1. UNCHANGED <<workerLoads, report>>
    BY <1>1 DEF WorkerServes, HandleCreate, HandleCreateFails, HandleStopNotFound,
                HandleStop, redisVars
  <2>2. call \in Call /\ \E code \in Codes : Answer(code)
    BY <1>0, <1>1 DEF WorkerServes, HandleCreate, HandleCreateFails, HandleStopNotFound,
                      HandleStop, Requested, Codes
  <2>3. call'.to = call.to /\ call'.msg = call.msg
    BY <2>2 DEF Answer, Call
  <2> QED BY <2>1, <2>3, CapacityKept DEF schedulerVars
<1>2. ASSUME CheckJobStatus(w) PROVE CapacityInv'
  <2>1. UNCHANGED <<workerLoads, call>>
    BY <1>2 DEF CheckJobStatus, redisVars
  <2>2. \A v \in Workers : report'[v] = report[v] \/ report'[v].pc # "loadWrite"
    BY <1>0, <1>2 DEF CheckJobStatus, NoReport
  <2> QED BY <2>1, <2>2, CapacityKept DEF schedulerVars
<1>3. ASSUME RegisterWorker(w) \/ ProcessStep(w) \/ ReportLost(w) \/ WorkerDown(w)
      PROVE  CapacityInv'
  <2>1. UNCHANGED <<workerLoads, call, report>>
    BY <1>3 DEF RegisterWorker, ProcessStep, Terminate, Exit, ReportLost, WorkerDown,
                sharedVars, redisVars
  <2> QED BY <2>1, CapacityKept DEF schedulerVars
<1> QED BY <1>1, <1>2, <1>3 DEF WorkerStep
\* The steps of the ticker goroutine keep the capacity invariant.
LEMMA LoopCapacityStep ==
  ASSUME TypeInv, CapacityInv,
         LoopStep \/ CallRefused(app[call.to] = "up")
           \/ \E w \in Workers : Purge(w, app[w] = "down"),
         UNCHANGED <<apiVars, workerVars>>
  PROVE  CapacityInv'
<1>0. /\ call \in Call \cup {NoCall}
      /\ workerLoads \in [Workers -> Load] /\ sch \in Loop
      /\ LoopHolds
  BY DEF TypeInv, TypeOK, SharedTypeOK, SchedulerTypeOK
<1>1. EndSchedule \/ EndPoll => sch'.pc \in {"tick", "poll"}
  BY <1>0 DEF EndSchedule, EndPoll, LoopStart, Loop
<1>2. ASSUME PollEmpty \/ PollJobQueue \/ PollRedelivered PROVE CapacityInv'
  BY <1>1, <1>2, CapacityIdle
     DEF PollEmpty, PollJobQueue, PollRedelivered, sharedVars, redisVars
<1>3. ASSUME ScheduleEmpty \/ ScheduleLater \/ DropStop PROVE CapacityInv'
  BY <1>1, <1>3, CapacityIdle
     DEF ScheduleEmpty, ScheduleLater, DropStop, sharedVars, redisVars
<1>4. ASSUME NEW w \in Workers, SendTo(w), Front.rec.stop \/ HasCapacity(w)
      PROVE  CapacityInv'
  <2>1. WithinCapacity'
    BY <1>4 DEF SendTo, CapacityInv, WithinCapacity
  <2>2. sch'.pc = "wait" /\ call'.to = w /\ call'.msg = Front
    BY <1>0, <1>4 DEF SendTo, Loop
  <2>3. LaunchHasRoom'
    BY <1>4, <2>2 DEF SendTo, LaunchHasRoom, HasCapacity, Room
  <2>4. ReportsFit'
    BY <1>4 DEF SendTo, CapacityInv, ReportsFit, Fits
  <2> QED BY <2>1, <2>3, <2>4 DEF CapacityInv
<1>5. ASSUME Schedule PROVE CapacityInv'
  <2>1. CASE SendStop
    BY <1>4, <2>1 DEF SendStop, Reachable, Pops
  <2>2. CASE \E w \in Workers : SendLaunch(w)
    BY <1>4, <2>2 DEF SendLaunch
  <2> QED BY <1>3, <1>5, <2>1, <2>2 DEF Schedule
<1>6. ASSUME NEW cause, Fails(cause), UNCHANGED <<sch, report>>, UNCHANGED redisVars
      PROVE  CapacityInv'
  <2>1. call'.to = call.to /\ call'.msg = call.msg
    BY <1>0, <1>6 DEF Fails, Call
  <2> QED BY <1>6, <2>1, CapacityKept DEF redisVars
<1>7. ASSUME ReplyLost \/ CallRefused(app[call.to] = "up") PROVE CapacityInv'
  BY <1>6, <1>7 DEF ReplyLost, CallRefused, schedulerVars
<1>8. ASSUME LaunchFailed \/ StopFailed \/ StopConfirmed PROVE CapacityInv'
  BY <1>1, <1>8, CapacityIdle DEF LaunchFailed, StopFailed, Requeue, StopConfirmed
<1>9. ASSUME LaunchConfirmed PROVE CapacityInv'
  <2>1. WithinCapacity'
    BY <1>9 DEF LaunchConfirmed, CapacityInv, WithinCapacity
  <2>2. LaunchHasRoom'
    BY <1>0, <1>9 DEF LaunchConfirmed, Replied, CapacityInv, LaunchHasRoom, Room, Loop
  <2>3. ReportsFit'
    BY <1>9 DEF LaunchConfirmed, CapacityInv, ReportsFit, Fits
  <2> QED BY <2>1, <2>2, <2>3 DEF CapacityInv
<1>10. ASSUME AddLoadRead PROVE CapacityInv'
  <2>1. WithinCapacity'
    BY <1>10 DEF AddLoadRead, sharedVars, redisVars, CapacityInv, WithinCapacity
  <2>2. LaunchHasRoom'
    BY <1>0, <1>10 DEF AddLoadRead, sharedVars, CapacityInv, LaunchHasRoom, Room, Loop
  <2>3. ReportsFit'
    BY <1>10 DEF AddLoadRead, sharedVars, CapacityInv, ReportsFit, Fits
  <2> QED BY <2>1, <2>2, <2>3 DEF CapacityInv
<1>11. ASSUME AddLoadWrite PROVE CapacityInv'
  <2>1. sch.load \in Load /\ call.msg.job \in Jobs
    BY <1>0, <1>11 DEF AddLoadWrite, LoopHolds, Loop, Call, Message
  <2>2. Fits(Plus(sch.load, call.msg.job))
    BY <1>11, <2>1, PlusFits DEF AddLoadWrite, CapacityInv, LaunchHasRoom
  <2>3. WithinCapacity'
    BY <1>0, <1>11, <2>2 DEF AddLoadWrite, CapacityInv, WithinCapacity, Fits
  <2>4. LaunchHasRoom'
    BY <1>1, <1>11 DEF AddLoadWrite, LaunchHasRoom
  <2>5. ReportsFit'
    BY <1>11 DEF AddLoadWrite, CapacityInv, ReportsFit, Fits
  <2> QED BY <2>3, <2>4, <2>5 DEF CapacityInv
<1>12. ASSUME \/ \E w \in Workers : Purge(w, app[w] = "down")
              \/ \E j \in Jobs : PurgeRead(j)
              \/ PurgeWrite \/ RemoveWorker
       PROVE  CapacityInv'
  <2>1. sch'.pc \notin {"wait", "loadRead", "loadWrite"}
    BY <1>0, <1>12 DEF Purge, PurgeRead, PurgeWrite, RemoveWorker, Loop, LoopStart
  <2>2. UNCHANGED <<workerLoads, report>>
    BY <1>12 DEF Purge, PurgeRead, PurgeWrite, RemoveWorker, sharedVars, redisVars
  <2> QED BY <2>1, <2>2, CapacityIdle
<1> QED
  BY <1>2, <1>5, <1>7, <1>8, <1>9, <1>10, <1>11, <1>12 DEF LoopStep

\* The steps of the report handlers keep the capacity invariant.
LEMMA ReportCapacityStep ==
  ASSUME TypeInv, CapacityInv, NEW w \in Workers, ReportStep(w)
  PROVE  CapacityInv'
<1>0. /\ report \in [Workers -> Report] /\ workerLoads \in [Workers -> Load]
      /\ ReportHolds
  BY DEF TypeInv, TypeOK, SharedTypeOK
<1>1. NextItem(report[w], w).pc = "next"
  BY <1>0 DEF NextItem, Report
<1>2. ASSUME ReportRead(w) \/ ReportWrite(w) \/ ReportDone(w) PROVE CapacityInv'
  <2>1. UNCHANGED <<workerLoads, sch, call>>
    BY <1>2 DEF ReportRead, ReportWrite, ReportDone, schedulerVars, redisVars
  <2>2. \A v \in Workers : report'[v] = report[v] \/ report'[v].pc # "loadWrite"
    <3>1. \A v \in Workers \ {w} : report'[v] = report[v]
      BY <1>0, <1>2 DEF ReportRead, ReportWrite, ReportDone
    <3>2. ReportRead(w) => report'[w].pc # "loadWrite"
      BY <1>0, <1>1 DEF ReportRead, Report
    <3>3. ReportWrite(w) => report'[w].pc # "loadWrite"
      BY <1>0, <1>1 DEF ReportWrite, Report
    <3>4. ReportDone(w) => report'[w].pc # "loadWrite"
      BY <1>0 DEF ReportDone, NoReport
    <3> QED BY <1>2, <3>1, <3>2, <3>3, <3>4
  <2> QED BY <2>1, <2>2, CapacityKept
<1>3. ASSUME ReportLoadRead(w) PROVE CapacityInv'
  <2>1. WithinCapacity'
    BY <1>3 DEF ReportLoadRead, redisVars, CapacityInv, WithinCapacity
  <2>2. LaunchHasRoom'
    BY <1>3 DEF ReportLoadRead, schedulerVars, redisVars, CapacityInv, LaunchHasRoom, Room
  <2>3. Fits(workerLoads[w])
    BY DEF CapacityInv, WithinCapacity, Fits
  <2>4. report'[w].pc = "loadWrite" => report'[w].load = workerLoads[w]
    BY <1>0, <1>1, <1>3 DEF ReportLoadRead, Report
  <2>5. \A v \in Workers \ {w} : report'[v] = report[v]
    BY <1>0, <1>3 DEF ReportLoadRead
  <2>6. ReportsFit'
    BY <2>3, <2>4, <2>5 DEF CapacityInv, ReportsFit, Fits
  <2> QED BY <2>1, <2>2, <2>6 DEF CapacityInv
<1>4. ASSUME ReportLoadWrite(w) PROVE CapacityInv'
  <2> DEFINE written == Minus(report[w].load, ReportItem(w).job)
  <2>1. report[w].load \in Load /\ ReportItem(w).job \in Jobs
    <3>1. report[w].stopped # {} /\ report[w].stopped \subseteq Instance
      BY <1>0, <1>4 DEF ReportLoadWrite, Reporting, ReportHolds, Report
    <3>2. \A e \in report[w].stopped : e.n \in Nat /\ e.job \in Jobs
      BY <3>1 DEF Instance
    <3>3. Oldest(report[w].stopped) \in report[w].stopped
      BY <3>1, <3>2, OldestIn
    <3> QED BY <1>0, <3>1, <3>2, <3>3 DEF ReportItem, Report
  <2>2. Room(written) /\ Fits(written)
    BY <1>4, <2>1, MinusRoom DEF ReportLoadWrite, Reporting, CapacityInv, ReportsFit
  <2> HIDE DEF written
  <2>3. workerLoads' = [workerLoads EXCEPT ![w] = written]
    BY <1>4 DEF ReportLoadWrite, written
  <2>4. WithinCapacity'
    BY <1>0, <2>2, <2>3 DEF CapacityInv, WithinCapacity, Fits
  <2>5. UNCHANGED <<sch, call>>
    BY <1>4 DEF ReportLoadWrite, schedulerVars
  <2>6. LaunchHasRoom'
    <3>1. sch.pc \in {"wait", "loadRead"} => call.to \in Workers
      BY DEF TypeInv, TypeOK, SharedTypeOK, LoopHolds, Call
    <3> QED BY <1>0, <2>2, <2>3, <2>5, <3>1 DEF CapacityInv, LaunchHasRoom, Room
  <2>7. ReportsFit'
    BY <1>0, <1>1, <1>4 DEF ReportLoadWrite, CapacityInv, ReportsFit, Fits
  <2> QED BY <2>4, <2>6, <2>7 DEF CapacityInv
<1> QED BY <1>2, <1>3, <1>4 DEF ReportStep

\* A restart of the scheduler keeps the capacity invariant.
LEMMA RestartCapacityStep ==
  ASSUME CapacityInv, Restart
  PROVE  CapacityInv'
<1>1. WithinCapacity'
  BY DEF Restart, redisVars, CapacityInv, WithinCapacity
<1>2. LaunchHasRoom'
  BY DEF Restart, LoopStart, LaunchHasRoom
<1>3. ReportsFit'
  BY DEF Restart, NoReport, ReportsFit
<1> QED BY <1>1, <1>2, <1>3 DEF CapacityInv

\* The capacity invariant is inductive relative to the types.
LEMMA CapacityStep == TypeInv /\ CapacityInv /\ [Next]_vars => CapacityInv'
<1> SUFFICES ASSUME TypeInv, CapacityInv, [Next]_vars PROVE CapacityInv'
  OBVIOUS
<1>1. CASE UNCHANGED vars
  BY <1>1, CapacityKept DEF vars, sharedVars, redisVars, schedulerVars
<1>2. CASE Next
  BY <1>2, ApiCapacityStep, WorkerCapacityStep, LoopCapacityStep, ReportCapacityStep,
     RestartCapacityStep DEF Next
<1> QED BY <1>1, <1>2

\* In every reachable state the recorded load of a worker exceeds neither of its
\* capacities by a whole job, whatever is lost, late, or restarted.
THEOREM CapacityRespected == Spec => []WithinCapacity
<1>1. Init => TypeInv /\ CapacityInv
  BY TypeInit, CapacityInit
<1>2. TypeInv /\ CapacityInv /\ [Next]_vars => TypeInv' /\ CapacityInv'
  BY TypeStep, CapacityStep
<1>3. CapacityInv => WithinCapacity
  BY DEF CapacityInv
<1> QED BY <1>1, <1>2, <1>3, PTL DEF Spec
=============================================================================
