--------------------------- MODULE Launches_proofs ---------------------------
(***************************************************************************)
(* What becomes of the accepted requests: each is answered once, a launch  *)
(* is never given up, and what one launch request starts is one process.   *)
(*                                                                         *)
(* The proofs look at a step of the system only by what it does to the     *)
(* messages on their way: lemma Flow says that this is one of ten things.  *)
(***************************************************************************)
EXTENDS ControlPlane_proofs, FiniteSetTheorems

(***************************************************************************)
(* Queues of messages.                                                     *)
(***************************************************************************)
Carried(queue) == {queue[i] : i \in DOMAIN queue}

Distinct(queue) ==
  \A i, k \in DOMAIN queue : queue[i].id = queue[k].id => i = k

\* The ids of a queue are the ids of its messages.
LEMMA IdsCarried ==
  ASSUME NEW q
  PROVE  \A id : id \in Ids(q) <=> \E msg \in Carried(q) : id = msg.id
  BY DEF Ids, Carried

\* QPush, SendMsg: the queue carries one more message.
LEMMA Pushed ==
  ASSUME NEW q \in Seq(Message), NEW msg \in Message
  PROVE  /\ Append(q, msg) \in Seq(Message)
         /\ Carried(Append(q, msg)) = Carried(q) \cup {msg}
         /\ Ids(Append(q, msg)) = Ids(q) \cup {msg.id}
         /\ Distinct(q) /\ msg.id \notin Ids(q) => Distinct(Append(q, msg))
<1> DEFINE r == Append(q, msg)
<1>1. /\ Len(q) \in Nat /\ DOMAIN q = 1 .. Len(q)
      /\ r \in Seq(Message) /\ DOMAIN r = 1 .. Len(q) + 1
      /\ \A i \in 1 .. Len(q) : r[i] = q[i]
      /\ r[Len(q) + 1] = msg
  BY AppendProperties, LenProperties
<1> HIDE DEF r
<1>2. 1 .. Len(q) + 1 = 1 .. Len(q) \cup {Len(q) + 1}
  BY <1>1
<1>3. Carried(r) = Carried(q) \cup {msg}
  BY <1>1, <1>2 DEF Carried
<1>4. Ids(r) = Ids(q) \cup {msg.id}
  BY IdsAppend DEF r
<1>5. ASSUME Distinct(q), msg.id \notin Ids(q) PROVE Distinct(r)
  <2>1. \A i \in 1 .. Len(q) : r[i].id # msg.id
    BY <1>1, <1>5 DEF Ids
  <2> QED BY <1>1, <1>2, <1>5, <2>1 DEF Distinct
<1> QED BY <1>1, <1>3, <1>4, <1>5 DEF r

\* popBufferedJob, DeleteMsg: the front leaves the queue.
LEMMA Popped ==
  ASSUME NEW q \in Seq(Message), q # <<>>
  PROVE  /\ Head(q) \in Message /\ Tail(q) \in Seq(Message)
         /\ Carried(q) = {Head(q)} \cup Carried(Tail(q))
         /\ Ids(q) = {Head(q).id} \cup Ids(Tail(q))
         /\ Distinct(q) => Distinct(Tail(q)) /\ Head(q).id \notin Ids(Tail(q))
<1> DEFINE r == Tail(q)
<1>1. /\ Len(q) \in Nat /\ Len(q) > 0 /\ DOMAIN q = 1 .. Len(q)
      /\ DOMAIN r = 1 .. Len(q) - 1
      /\ \A i \in 1 .. Len(q) - 1 : r[i] = q[i + 1]
      /\ Head(q) = q[1]
  BY HeadTailProperties, LenProperties, EmptySeq
<1>2. /\ Head(q) \in Message /\ r \in Seq(Message)
      /\ Ids(q) = {Head(q).id} \cup Ids(r)
  BY IdsTail
<1> HIDE DEF r
<1>3. \A i \in DOMAIN q : i = 1 \/ (i - 1 \in DOMAIN r /\ q[i] = r[i - 1])
  BY <1>1
<1>4. \A i \in DOMAIN r : i + 1 \in DOMAIN q /\ r[i] = q[i + 1] /\ i \in Nat /\ i > 0
  BY <1>1
<1>5. 1 \in DOMAIN q
  BY <1>1
<1>6. Carried(q) = {Head(q)} \cup Carried(r)
  <2>1. ASSUME NEW m \in Carried(q) PROVE m \in {Head(q)} \cup Carried(r)
    BY <1>1, <1>3 DEF Carried
  <2>2. ASSUME NEW m \in {Head(q)} \cup Carried(r) PROVE m \in Carried(q)
    BY <1>1, <1>4, <1>5 DEF Carried
  <2> QED BY <2>1, <2>2
<1>7. ASSUME Distinct(q) PROVE Distinct(r) /\ Head(q).id \notin Ids(r)
  <2>1. ASSUME NEW i \in DOMAIN r, NEW k \in DOMAIN r, r[i].id = r[k].id PROVE i = k
    <3>1. i + 1 = k + 1
      BY <1>4, <1>7, <2>1 DEF Distinct
    <3> QED BY <1>4, <3>1
  <2>2. ASSUME NEW i \in DOMAIN r PROVE r[i].id # Head(q).id
    <3>1. i + 1 # 1
      BY <1>4
    <3> QED BY <1>1, <1>4, <1>5, <1>7, <3>1 DEF Distinct
  <2> QED BY <2>1, <2>2 DEF Distinct, Ids
<1> QED BY <1>2, <1>6, <1>7 DEF r

(***************************************************************************)
(* What a step does to the messages on their way.                          *)
(***************************************************************************)
InFlight ==
  Carried(sqs) \cup Carried(queuedJobs)
    \cup (IF call = NoCall THEN {} ELSE {call.msg})

\* Nothing, or a worker's answer to the scheduler's request, or its loss.
Idles == UNCHANGED <<sqs, queuedJobs, call, answered, accepted>>

Coded ==
  /\ UNCHANGED <<sqs, queuedJobs, answered, accepted>>
  /\ call # NoCall /\ call' # NoCall
  /\ call'.msg = call.msg /\ call'.to = call.to
  /\ call.code = "none" \/ "reply" \in faults'
  /\ call'.code = "201" => \E w \in Workers : HandleCreate(w)
  /\ call'.code = "200" => \E w \in Workers : HandleStop(w)

\* SendMsg; pollJobQueue; scheduleOneJob without a worker that has room.
SentMessage(h) ==
  [id |-> Len(accepted) + 1, job |-> api[h].job, rec |-> api[h].rec]

Sends(h) ==
  /\ SentMessage(h) \in Message
  /\ sqs' = Append(sqs, SentMessage(h))
  /\ accepted' = Append(accepted, [job |-> api[h].job, stop |-> api[h].rec.stop,
                                   assigned |-> api[h].rec.assigned])
  /\ UNCHANGED <<queuedJobs, call, answered>>

Buffers ==
  /\ sqs # <<>>
  /\ queuedJobs' = Append(queuedJobs, Head(sqs))
  /\ sqs' = Tail(sqs) \/ (sqs' = sqs /\ "redeliver" \in faults')
  /\ UNCHANGED <<call, answered, accepted>>

Rotates ==
  /\ queuedJobs # <<>>
  /\ queuedJobs' = Append(Tail(queuedJobs), Head(queuedJobs))
  /\ UNCHANGED <<sqs, call, answered, accepted>>

\* The front is sent to a worker, or is a stop that is given up.
Takes ==
  /\ queuedJobs # <<>> /\ queuedJobs' = Tail(queuedJobs)
  /\ call = NoCall /\ call' # NoCall
  /\ call'.msg = Head(queuedJobs) /\ call'.code = "none"
  /\ UNCHANGED <<sqs, answered, accepted>>

Drops ==
  /\ queuedJobs # <<>> /\ queuedJobs' = Tail(queuedJobs)
  /\ call = NoCall
  /\ Head(queuedJobs).rec.stop
  /\ answered' = answered \cup {Head(queuedJobs).id}
  /\ UNCHANGED <<sqs, call, accepted>>

\* The request in hand is buffered again, done with, or lost with the process.
PutsBack ==
  /\ call # NoCall /\ call' = NoCall
  /\ call.code # "201"
  /\ queuedJobs' = Append(queuedJobs, call.msg)
  /\ UNCHANGED <<sqs, answered, accepted>>

Closes ==
  /\ call # NoCall /\ call' = NoCall
  /\ call.msg.rec.stop \/ sch.pc = "loadWrite"
  /\ answered' = answered \cup {call.msg.id}
  /\ UNCHANGED <<sqs, queuedJobs, accepted>>

Loses ==
  /\ call' = NoCall /\ "restart" \in faults'
  /\ UNCHANGED <<sqs, queuedJobs, answered, accepted>>

Moves ==
  \/ Idles \/ Coded \/ (\E h \in Handlers : Sends(h)) \/ Buffers \/ Rotates
  \/ Takes \/ Drops \/ PutsBack \/ Closes \/ Loses

\* An answer, or its loss, changes the code of the request in hand only.
LEMMA AnswerCoded ==
  ASSUME call \in Call, NEW code \in Codes, Answer(code)
  PROVE  /\ call' \in Call /\ call' # NoCall /\ call'.code = code
         /\ call'.msg = call.msg /\ call'.to = call.to
<1>1. call' \in Call /\ call'.code = code /\ call'.msg = call.msg /\ call'.to = call.to
  BY DEF Answer, Call
<1> QED BY <1>1, AbsenceAssumption

\* SendMsg is the only step of an API handler that touches the messages.
LEMMA ApiFlow ==
  ASSUME TypeInv, NEW h \in Handlers, ApiRequest(h) \/ ApiStep(h),
         UNCHANGED <<workerVars, schedulerVars>>
  PROVE  Idles \/ Sends(h)
<1>1. ASSUME SendMsg(h) PROVE Sends(h)
  <2>1. SentMessage(h) \in Message
    BY DEF TypeInv, TypeOK, ApiTypeOK, Handler, Message, SentMessage
  <2> QED BY <1>1, <2>1 DEF SendMsg, redisVars, schedulerVars, Sends, SentMessage
<1>2. ASSUME ~SendMsg(h) PROVE Idles
  BY <1>2 DEF ApiRequest, ApiStep, CreateJob, ReadBack, StopJob, ResumeJob, WriteRecord,
              SendMsgFails, DeleteJob, DeleteRecord, sharedVars, redisVars, schedulerVars,
              Idles
<1> QED BY <1>1, <1>2

\* A worker answers the request in hand, or does not touch the messages.
LEMMA WorkerFlow ==
  ASSUME TypeInv, NEW w \in Workers, WorkerStep(w), UNCHANGED <<apiVars, schedulerVars>>
  PROVE  Idles \/ Coded
<1>1. UNCHANGED <<sqs, queuedJobs, answered, accepted>>
  BY DEF WorkerStep, RegisterWorker, WorkerServes, HandleCreate, HandleCreateFails,
         HandleStopNotFound, HandleStop, ProcessStep, Terminate, Exit, CheckJobStatus,
         ReportLost, WorkerDown, sharedVars, redisVars, apiVars, schedulerVars
<1>2. CASE WorkerServes(w)
  <2>1. call # NoCall /\ call \in Call /\ call.code = "none"
    BY <1>2 DEF WorkerServes, HandleCreate, HandleCreateFails, HandleStopNotFound,
                HandleStop, Requested, TypeInv, TypeOK, SharedTypeOK
  <2>2. PICK code \in Codes : /\ Answer(code)
                              /\ code = "201" => HandleCreate(w)
                              /\ code = "200" => HandleStop(w)
    <3>1. HandleCreate(w) => Answer("201")
      BY DEF HandleCreate
    <3>2. HandleStop(w) => Answer("200") \/ Answer("500")
      BY DEF HandleStop
    <3>3. HandleCreateFails(w) => Answer("500")
      BY DEF HandleCreateFails
    <3>4. HandleStopNotFound(w) => Answer("404")
      BY DEF HandleStopNotFound
    <3> QED BY <1>2, <3>1, <3>2, <3>3, <3>4 DEF WorkerServes, Codes
  <2> QED BY <1>1, <2>1, <2>2, AnswerCoded DEF Coded
<1>3. CASE ~WorkerServes(w)
  <2>1. call' = call
    BY <1>3 DEF WorkerStep, RegisterWorker, ProcessStep, Terminate, Exit, CheckJobStatus,
                ReportLost, WorkerDown, sharedVars
  <2> QED BY <1>1, <2>1 DEF Idles
<1> QED BY <1>2, <1>3

\* The ticker goroutine moves one message at a time.
LEMMA LoopFlow ==
  ASSUME TypeInv,
         LoopStep \/ CallRefused(app[call.to] = "up")
           \/ \E w \in Workers : Purge(w, app[w] = "down"),
         UNCHANGED <<apiVars, workerVars>>
  PROVE  Moves
<1>0. call \in Call \cup {NoCall} /\ LoopHolds
  BY DEF TypeInv, TypeOK, SharedTypeOK
<1>1. accepted' = accepted
  BY DEF apiVars
<1>2. ASSUME UNCHANGED <<sqs, queuedJobs, call, answered>> PROVE Moves
  BY <1>1, <1>2 DEF Moves, Idles
<1>3. ASSUME PollJobQueue \/ PollRedelivered PROVE Moves
  BY <1>1, <1>3 DEF PollJobQueue, PollRedelivered, Buffer, QPush, Fail, Moves, Buffers
<1>4. ASSUME NEW stop, Pops(stop) PROVE call = NoCall /\ queuedJobs # <<>>
  BY <1>0, <1>4 DEF Pops, LoopHolds
<1>5. ASSUME ScheduleLater PROVE Moves
  BY <1>1, <1>4, <1>5 DEF ScheduleLater, Front, Moves, Rotates
<1>6. ASSUME NEW stop, Pops(stop), NEW w \in Workers, SendTo(w) PROVE Moves
  <2>1. Head(queuedJobs) \in Message
    BY <1>4, <1>6 DEF TypeInv, TypeOK, SharedTypeOK
  <2>2. call' \in Call /\ call'.msg = Head(queuedJobs) /\ call'.code = "none"
    BY <1>6, <2>1 DEF SendTo, Front, Call, Codes
  <2>3. call' # NoCall
    BY <2>2, AbsenceAssumption
  <2> QED BY <1>1, <1>4, <1>6, <2>2, <2>3 DEF SendTo, Moves, Takes
<1>7. ASSUME DropStop PROVE Moves
  BY <1>1, <1>4, <1>7 DEF DropStop, Pops, Front, Done, Moves, Drops
<1>8. ASSUME Schedule PROVE Moves
  <2>1. ScheduleEmpty => Moves
    BY <1>2 DEF ScheduleEmpty, sharedVars, redisVars
  <2>2. SendStop => Moves
    BY <1>6 DEF SendStop, Reachable
  <2>3. ASSUME NEW w \in Workers, SendLaunch(w) PROVE Moves
    BY <1>6, <2>3 DEF SendLaunch
  <2> QED BY <1>5, <1>7, <1>8, <2>1, <2>2, <2>3 DEF Schedule
<1>9. ASSUME NEW cause, Fails(cause), UNCHANGED <<sqs, answered>>, UNCHANGED redisVars,
             call.code = "none" \/ "reply" \in faults'
      PROVE  Moves
  <2>1. call # NoCall /\ call \in Call /\ Answer("error")
    BY <1>0, <1>9 DEF Fails, Answer
  <2>2. /\ call' # NoCall /\ call'.code \notin {"200", "201"}
        /\ call'.msg = call.msg /\ call'.to = call.to
    BY <2>1, AnswerCoded DEF Codes
  <2> QED BY <1>1, <1>9, <2>1, <2>2 DEF redisVars, Moves, Coded
<1>10. ASSUME LaunchFailed \/ StopFailed PROVE Moves
  BY <1>1, <1>10 DEF LaunchFailed, StopFailed, Requeue, Replied, QPush, Moves, PutsBack
<1>11. ASSUME AddLoadWrite \/ StopConfirmed PROVE Moves
  <2>1. call # NoCall
    BY <1>0, <1>11 DEF AddLoadWrite, StopConfirmed, Replied, LoopHolds
  <2> QED BY <1>1, <1>11, <2>1 DEF AddLoadWrite, StopConfirmed, Replied, Done, Moves, Closes
<1>12. PollEmpty \/ LaunchConfirmed \/ AddLoadRead => Moves
  BY <1>2 DEF PollEmpty, LaunchConfirmed, AddLoadRead, sharedVars, redisVars
<1>13. ASSUME \/ \E w \in Workers : Purge(w, app[w] = "down")
              \/ \E j \in Jobs : PurgeRead(j)
              \/ PurgeWrite \/ RemoveWorker
       PROVE  Moves
  BY <1>2, <1>13 DEF Purge, PurgeRead, PurgeWrite, RemoveWorker, sharedVars, redisVars
<1>14. ReplyLost \/ CallRefused(app[call.to] = "up") => Moves
  BY <1>9 DEF ReplyLost, CallRefused, Fail, Fails, schedulerVars
<1> QED
  BY <1>3, <1>8, <1>10, <1>11, <1>12, <1>13, <1>14 DEF LoopStep

\* Every step of the system moves at most one message.
LEMMA Flow == TypeInv /\ [Next]_vars => Moves
<1> SUFFICES ASSUME TypeInv, [Next]_vars PROVE Moves
  OBVIOUS
<1>1. CASE UNCHANGED vars
  BY <1>1 DEF vars, sharedVars, redisVars, apiVars, schedulerVars, Moves, Idles
<1>2. ASSUME NEW h \in Handlers, ApiRequest(h) \/ ApiStep(h),
             UNCHANGED <<workerVars, schedulerVars>>
      PROVE  Moves
  BY <1>2, ApiFlow DEF Moves
<1>3. ASSUME NEW w \in Workers, WorkerStep(w), UNCHANGED <<apiVars, schedulerVars>>
      PROVE  Moves
  BY <1>3, WorkerFlow DEF Moves
<1>4. ASSUME NEW w \in Workers, ReportStep(w), UNCHANGED <<apiVars, workerVars>>
      PROVE  Moves
  <2>1. Idles
    BY <1>4 DEF ReportStep, ReportRead, ReportWrite, ReportLoadRead, ReportLoadWrite,
                ReportDone, redisVars, schedulerVars, apiVars, Idles
  <2> QED BY <2>1 DEF Moves
<1>5. ASSUME Restart, UNCHANGED <<apiVars, workerVars>> PROVE Moves
  BY <1>5 DEF Restart, Fail, redisVars, apiVars, Moves, Loses
<1> QED BY <1>1, <1>2, <1>3, <1>4, <1>5, LoopFlow DEF Next

(***************************************************************************)
(* The logs of the model only grow.                                        *)
(***************************************************************************)
\* What was accepted stays accepted.
LEMMA AcceptedGrows ==
  ASSUME TypeInv, Moves
  PROVE  \A id \in DOMAIN accepted : id \in DOMAIN accepted' /\ accepted'[id] = accepted[id]
<1>1. accepted \in Seq(AcceptedRequest)
  BY DEF TypeInv, TypeOK, ApiTypeOK
<1>2. ASSUME NEW h \in Handlers, Sends(h)
      PROVE  \A id \in DOMAIN accepted : id \in DOMAIN accepted' /\ accepted'[id] = accepted[id]
  <2> DEFINE a == [job |-> api[h].job, stop |-> api[h].rec.stop,
                   assigned |-> api[h].rec.assigned]
  <2>1. a \in AcceptedRequest
    BY DEF TypeInv, TypeOK, ApiTypeOK, Handler, JobRecord, AcceptedRequest
  <2>2. accepted' = Append(accepted, a)
    BY <1>2 DEF Sends
  <2> HIDE DEF a
  <2> QED BY <1>1, <2>1, <2>2, AppendProperties, LenProperties
<1>3. ASSUME ~\E h \in Handlers : Sends(h) PROVE accepted' = accepted
  BY <1>3 DEF Moves, Idles, Coded, Buffers, Rotates, Takes, Drops, PutsBack, Closes, Loses
<1> QED BY <1>2, <1>3

\* A request that is sent is accepted under the next id.
LEMMA AcceptedSent ==
  ASSUME TypeInv, NEW h \in Handlers, Sends(h)
  PROVE  /\ DOMAIN accepted' = DOMAIN accepted \cup {SentMessage(h).id}
         /\ SentMessage(h).id \notin DOMAIN accepted
         /\ accepted'[SentMessage(h).id].job = api[h].job
         /\ accepted'[SentMessage(h).id].stop = api[h].rec.stop
<1> DEFINE a == [job |-> api[h].job, stop |-> api[h].rec.stop,
                 assigned |-> api[h].rec.assigned]
<1>1. accepted \in Seq(AcceptedRequest) /\ a \in AcceptedRequest
  BY DEF TypeInv, TypeOK, ApiTypeOK, Handler, JobRecord, AcceptedRequest
<1>2. accepted' = Append(accepted, a) /\ SentMessage(h).id = Len(accepted) + 1
  BY DEF Sends, SentMessage
<1>3. a.job = api[h].job /\ a.stop = api[h].rec.stop
  OBVIOUS
<1> HIDE DEF a
<1> QED BY <1>1, <1>2, <1>3, AppendProperties, LenProperties

\* A process that was started stays in the log of those that were.
LEMMA LaunchedGrows ==
  ASSUME TypeInv, [Next]_vars
  PROVE  \A i \in DOMAIN launched : i \in DOMAIN launched' /\ launched'[i] = launched[i]
<1> DEFINE LaunchLog == [job : Jobs, req : Nat, to : Workers]
<1>1. launched \in Seq(LaunchLog) /\ launched' \in Seq(LaunchLog)
  <2>1. TypeInv'
    BY TypeStep
  <2> QED BY <2>1 DEF TypeInv, TypeOK, WorkerTypeOK
<1>2. ASSUME NEW w \in Workers, NEW status \in {"alive", "dead"}, Requested(w),
             StartInstance(w, status)
      PROVE  \A i \in DOMAIN launched : i \in DOMAIN launched' /\ launched'[i] = launched[i]
  <2> DEFINE x == [job |-> call.msg.job, req |-> call.msg.id, to |-> w]
  <2>1. x \in LaunchLog
    BY <1>2 DEF Requested, TypeInv, TypeOK, SharedTypeOK, Call, Message
  <2>2. launched' = Append(launched, x)
    BY <1>2 DEF StartInstance
  <2> HIDE DEF x, LaunchLog
  <2> QED BY <1>1, <2>1, <2>2, AppendProperties, LenProperties
<1>3. ASSUME NEW w \in Workers, HandleCreate(w) \/ HandleCreateFails(w)
      PROVE  \A i \in DOMAIN launched : i \in DOMAIN launched' /\ launched'[i] = launched[i]
  BY <1>2, <1>3 DEF HandleCreate, HandleCreateFails
<1>4. ASSUME ~\E w \in Workers : HandleCreate(w) \/ HandleCreateFails(w)
      PROVE  launched' = launched
  BY <1>4 DEF Next, vars, workerVars, WorkerStep, RegisterWorker, WorkerServes,
              HandleStopNotFound, HandleStop, ProcessStep, Terminate, Exit, CheckJobStatus,
              ReportLost, WorkerDown
<1> QED BY <1>3, <1>4

(***************************************************************************)
(* What a message says.                                                    *)
(***************************************************************************)
\* The messages on their way are those of before, and the one that is sent.
LEMMA InFlightStep ==
  ASSUME TypeInv, Moves
  PROVE  \/ InFlight' \subseteq InFlight
         \/ \E h \in Handlers : Sends(h) /\ InFlight' = InFlight \cup {SentMessage(h)}
<1>0. sqs \in Seq(Message) /\ queuedJobs \in Seq(Message) /\ call \in Call \cup {NoCall}
  BY DEF TypeInv, TypeOK, SharedTypeOK
<1>1. InFlight' = Carried(sqs') \cup Carried(queuedJobs')
                    \cup (IF call' = NoCall THEN {} ELSE {call'.msg})
  BY DEF InFlight, Carried
<1>2. CASE Idles \/ Coded \/ Closes \/ Loses
  BY <1>1, <1>2 DEF Idles, Coded, Closes, Loses, InFlight
<1>3. ASSUME NEW h \in Handlers, Sends(h)
      PROVE  InFlight' = InFlight \cup {SentMessage(h)}
  <2>1. Carried(sqs') = Carried(sqs) \cup {SentMessage(h)}
    BY <1>0, <1>3, Pushed DEF Sends
  <2> QED BY <1>1, <1>3, <2>1 DEF Sends, InFlight
<1>4. CASE Buffers
  <2>1. Head(sqs) \in Message /\ Carried(sqs) = {Head(sqs)} \cup Carried(Tail(sqs))
    BY <1>0, <1>4, Popped DEF Buffers
  <2>2. Carried(queuedJobs') = Carried(queuedJobs) \cup {Head(sqs)}
    BY <1>0, <1>4, <2>1, Pushed DEF Buffers
  <2> QED BY <1>1, <1>4, <2>1, <2>2 DEF Buffers, InFlight
<1>5. CASE Rotates \/ Takes \/ Drops
  <2>1. /\ Head(queuedJobs) \in Message /\ Tail(queuedJobs) \in Seq(Message)
        /\ Carried(queuedJobs) = {Head(queuedJobs)} \cup Carried(Tail(queuedJobs))
    BY <1>0, <1>5, Popped DEF Rotates, Takes, Drops
  <2>2. Carried(Append(Tail(queuedJobs), Head(queuedJobs))) = Carried(queuedJobs)
    BY <2>1, Pushed
  <2> QED BY <1>1, <1>5, <2>1, <2>2 DEF Rotates, Takes, Drops, InFlight
<1>6. CASE PutsBack
  <2>1. call.msg \in Message
    BY <1>0, <1>6 DEF PutsBack, Call
  <2>2. Carried(queuedJobs') = Carried(queuedJobs) \cup {call.msg}
    BY <1>0, <1>6, <2>1, Pushed DEF PutsBack
  <2> QED BY <1>1, <1>6, <2>2 DEF PutsBack, InFlight
<1> QED BY <1>2, <1>3, <1>4, <1>5, <1>6 DEF Moves

\* A message says what was accepted under its id.
Faithful(msg) ==
  /\ msg.id \in DOMAIN accepted
  /\ accepted[msg.id].job = msg.job
  /\ accepted[msg.id].stop = msg.rec.stop

MessagesInv == \A msg \in InFlight : Faithful(msg)

\* MessagesInv holds from the start and in every step.
LEMMA MessagesStep ==
  ASSUME TypeInv, MessagesInv, [Next]_vars
  PROVE  MessagesInv'
<1>0. Moves
  BY Flow
<1>1. ASSUME NEW msg, Faithful(msg) PROVE Faithful(msg)'
  BY <1>0, <1>1, AcceptedGrows DEF Faithful
<1>2. CASE InFlight' \subseteq InFlight
  BY <1>1, <1>2 DEF MessagesInv
<1>3. ASSUME NEW h \in Handlers, Sends(h), InFlight' = InFlight \cup {SentMessage(h)}
      PROVE  MessagesInv'
  <2>1. ASSUME NEW msg, msg = SentMessage(h) PROVE Faithful(msg)'
    <3>1. msg.job = api[h].job /\ msg.rec.stop = api[h].rec.stop
      BY <2>1 DEF SentMessage
    <3> QED BY <1>3, <2>1, <3>1, AcceptedSent DEF Faithful
  <2> QED BY <1>1, <1>3, <2>1 DEF MessagesInv
<1> QED BY <1>0, <1>2, <1>3, InFlightStep

(***************************************************************************)
(* A launch is not given up.  The scheduler is done with a launch only in  *)
(* addNewJobLoad, where the answer was 201: a process had been started.    *)
(***************************************************************************)
\* The requests for which a process has been started.
Started == {launched[i].req : i \in DOMAIN launched}

ConfirmedInv ==
  /\ call # NoCall /\ call.code = "201" => ~call.msg.rec.stop /\ call.msg.id \in Started
  /\ sch.pc \in {"loadRead", "loadWrite"} => call.code = "201"
  /\ answered \subseteq DOMAIN accepted

LaunchInv == MessagesInv /\ ConfirmedInv /\ LaunchNeverDropped

AddsLoad == sch.pc \in {"loadRead", "loadWrite"}

\* The ticker is in addNewJobLoad only after a 201, which nothing replaces then.
LEMMA AddsLoadStep ==
  ASSUME TypeInv, [Next]_vars, AddsLoad'
  PROVE  \/ AddsLoad /\ (call' = call \/ call.code = "none")
         \/ call' = call /\ call.code = "201"
<1>0. sch \in Loop
  BY DEF TypeInv, TypeOK, SchedulerTypeOK
<1>1. CASE UNCHANGED vars
  BY <1>1 DEF vars, sharedVars, schedulerVars, AddsLoad
<1>2. ASSUME NEW h \in Handlers, ApiRequest(h) \/ ApiStep(h),
             UNCHANGED <<workerVars, schedulerVars>>
      PROVE  AddsLoad /\ call' = call
  BY <1>2 DEF ApiRequest, ApiStep, CreateJob, ReadBack, StopJob, ResumeJob, WriteRecord,
              SendMsg, SendMsgFails, DeleteJob, DeleteRecord, sharedVars, schedulerVars,
              AddsLoad
<1>3. ASSUME NEW w \in Workers, WorkerStep(w), UNCHANGED <<apiVars, schedulerVars>>
      PROVE  AddsLoad /\ (call' = call \/ call.code = "none")
  BY <1>3 DEF WorkerStep, RegisterWorker, WorkerServes, HandleCreate, HandleCreateFails,
              HandleStopNotFound, HandleStop, Requested, ProcessStep, Terminate, Exit,
              CheckJobStatus, ReportLost, WorkerDown, sharedVars, schedulerVars, AddsLoad
<1>4. CASE LaunchConfirmed \/ AddLoadRead
  BY <1>4 DEF LaunchConfirmed, Replied, AddLoadRead, sharedVars, AddsLoad
<1>5. ReplyLost \/ CallRefused(app[call.to] = "up") => ~AddsLoad'
  BY DEF ReplyLost, CallRefused, Fails, schedulerVars, AddsLoad
<1>6. EndSchedule \/ EndPoll => ~AddsLoad'
  BY <1>0 DEF EndSchedule, EndPoll, LoopStart, Loop, AddsLoad
<1>7. Schedule => ~AddsLoad'
  BY <1>0, <1>6 DEF Schedule, ScheduleEmpty, ScheduleLater, SendStop, DropStop, SendLaunch,
                    SendTo, Loop, AddsLoad
<1>8. PollEmpty \/ PollJobQueue \/ PollRedelivered \/ LaunchFailed \/ StopFailed
        \/ AddLoadWrite \/ StopConfirmed => ~AddsLoad'
  BY <1>6 DEF PollEmpty, PollJobQueue, PollRedelivered, LaunchFailed, StopFailed, Requeue,
              AddLoadWrite, StopConfirmed
<1>9. ASSUME NEW w \in Workers, Purge(w, app[w] = "down") PROVE ~AddsLoad'
  BY <1>0, <1>9 DEF Purge, Loop, AddsLoad
<1>11. ASSUME NEW j \in Jobs, PurgeRead(j) PROVE ~AddsLoad'
  <2>1. sch'.pc \in {"purge", "purgeWrite"}
    BY <1>0, <1>11, Z3 DEF PurgeRead, Loop
  <2> QED BY <2>1 DEF AddsLoad
<1>12. PurgeWrite => ~AddsLoad'
  BY <1>0 DEF PurgeWrite, Loop, AddsLoad
<1>13. RemoveWorker \/ Restart => ~AddsLoad'
  BY DEF RemoveWorker, Restart, LoopStart, AddsLoad
<1>10. ASSUME NEW w \in Workers, ReportStep(w) PROVE AddsLoad /\ call' = call
  BY <1>10 DEF ReportStep, ReportRead, ReportWrite, ReportLoadRead, ReportLoadWrite,
               ReportDone, schedulerVars, AddsLoad
<1> QED
  BY <1>1, <1>2, <1>3, <1>4, <1>5, <1>7, <1>8, <1>9, <1>10, <1>11,
     <1>12, <1>13 DEF Next, LoopStep

\* A worker that starts a process adds it to the log, for the request in hand.
LEMMA CreateLogged ==
  ASSUME TypeInv, NEW w \in Workers, HandleCreate(w) \/ HandleCreateFails(w)
  PROVE  /\ call # NoCall /\ call.to = w /\ call.code = "none" /\ ~call.msg.rec.stop
         /\ \E i \in DOMAIN launched' : /\ launched'[i].job = call.msg.job
                                        /\ launched'[i].req = call.msg.id
                                        /\ launched'[i].to = w
<1> DEFINE x == [job |-> call.msg.job, req |-> call.msg.id, to |-> w]
           LaunchLog == [job : Jobs, req : Nat, to : Workers]
<1>1. call # NoCall /\ call.to = w /\ call.code = "none" /\ ~call.msg.rec.stop
  BY DEF HandleCreate, HandleCreateFails, Requested
<1>2. launched \in Seq(LaunchLog) /\ x \in LaunchLog
  BY <1>1 DEF TypeInv, TypeOK, SharedTypeOK, WorkerTypeOK, Call, Message
<1>3. launched' = Append(launched, x)
  BY DEF HandleCreate, HandleCreateFails, StartInstance
<1>4. x.job = call.msg.job /\ x.req = call.msg.id /\ x.to = w
  OBVIOUS
<1> HIDE DEF x, LaunchLog
<1>5. /\ Len(launched) + 1 \in DOMAIN launched'
      /\ launched'[Len(launched) + 1] = x
  BY <1>2, <1>3, AppendProperties, LenProperties
<1> QED BY <1>1, <1>4, <1>5

\* ConfirmedInv and LaunchNeverDropped in every step.
LEMMA LaunchStep ==
  ASSUME TypeInv, LaunchInv, [Next]_vars
  PROVE  LaunchInv'
<1>0. Moves /\ MessagesInv' /\ MessagesInv /\ ConfirmedInv
  BY Flow, MessagesStep DEF LaunchInv
<1>1. Started \subseteq Started'
  BY LaunchedGrows DEF Started
<1>2. /\ queuedJobs # <<>> => Faithful(Head(queuedJobs))
      /\ call # NoCall => Faithful(call.msg)
  <2>1. queuedJobs # <<>> => Head(queuedJobs) \in InFlight
    BY Popped DEF TypeInv, TypeOK, SharedTypeOK, InFlight
  <2>2. call # NoCall => call.msg \in InFlight
    BY DEF InFlight
  <2> QED BY <1>0, <2>1, <2>2 DEF MessagesInv
<1>3. ASSUME call' # NoCall, call'.code = "201"
      PROVE  ~call'.msg.rec.stop /\ call'.msg.id \in Started'
  <2>1. CASE call' = call
    BY <1>0, <1>1, <1>3, <2>1 DEF ConfirmedInv
  <2>2. CASE Coded
    <3>1. PICK w \in Workers : HandleCreate(w)
      BY <1>3, <2>2 DEF Coded
    <3>2. ~call.msg.rec.stop /\ \E i \in DOMAIN launched' : launched'[i].req = call.msg.id
      BY <3>1, CreateLogged
    <3>3. call.msg.id \in Started'
      BY <3>2 DEF Started
    <3> QED BY <2>2, <3>2, <3>3 DEF Coded
  <2>3. call' = call \/ Coded
    BY <1>0, <1>3 DEF Moves, Idles, Sends, Buffers, Rotates, Takes, Drops, PutsBack, Closes,
                      Loses
  <2> QED BY <2>1, <2>2, <2>3
<1>4. AddsLoad' => call'.code = "201"
  BY <1>0, AddsLoadStep DEF ConfirmedInv, AddsLoad
<1>5. \/ answered' = answered
      \/ \E id \in DOMAIN accepted : /\ answered' = answered \cup {id}
                                     /\ accepted[id].stop \/ id \in Started
  <2>1. CASE Drops
    BY <1>2, <2>1 DEF Drops, Faithful
  <2>2. CASE Closes
    <3>1. call.msg.rec.stop \/ call.msg.id \in Started
      BY <1>0, <2>2 DEF Closes, ConfirmedInv
    <3> QED BY <1>2, <2>2, <3>1 DEF Closes, Faithful
  <2> QED BY <1>0, <2>1, <2>2 DEF Moves, Idles, Coded, Sends, Buffers, Rotates, Takes,
                                  PutsBack, Loses
<1>6. answered' \subseteq DOMAIN accepted'
  BY <1>0, <1>5, AcceptedGrows DEF ConfirmedInv
<1>7. LaunchNeverDropped'
  <2> SUFFICES ASSUME NEW id \in answered'
               PROVE  accepted'[id].stop \/ id \in Started'
    BY DEF LaunchNeverDropped, Started
  <2>1. id \in DOMAIN accepted /\ (accepted[id].stop \/ id \in Started)
    BY <1>0, <1>5 DEF LaunchInv, ConfirmedInv, LaunchNeverDropped, Started
  <2> QED BY <1>0, <1>1, <2>1, AcceptedGrows
<1>8. ConfirmedInv'
  BY <1>3, <1>4, <1>6 DEF ConfirmedInv, AddsLoad, Started
<1> QED BY <1>0, <1>7, <1>8 DEF LaunchInv

\* Nothing is on its way at first.
LEMMA LaunchInit == Init => LaunchInv
<1> SUFFICES ASSUME Init PROVE LaunchInv
  OBVIOUS
<1>1. InFlight = {}
  BY DEF Init, SharedInit, InFlight, Carried
<1> QED BY <1>1 DEF Init, SharedInit, SchedulerInit, LoopStart, LaunchInv, MessagesInv,
                    ConfirmedInv, LaunchNeverDropped

\* The scheduler is never done with a launch request that started nothing: not
\* when no worker has room, when the worker refuses, fails, or never answers, nor
\* when a request is delivered twice or the scheduler is restarted.
THEOREM LaunchesKept == Spec => []LaunchNeverDropped
<1>1. Init => TypeInv /\ LaunchInv
  BY TypeInit, LaunchInit
<1>2. TypeInv /\ LaunchInv /\ [Next]_vars => TypeInv' /\ LaunchInv'
  BY TypeStep, LaunchStep
<1>3. LaunchInv => LaunchNeverDropped
  BY DEF LaunchInv
<1> QED BY <1>1, <1>2, <1>3, PTL DEF Spec

(***************************************************************************)
(* A request is in one place at a time, unless SQS delivers it twice: this *)
(* is what makes an answer to it the only one.                             *)
(***************************************************************************)
Apart(queue1, queue2, hand, done) ==
  /\ Distinct(queue1) /\ Distinct(queue2)
  /\ Ids(queue1) \cap Ids(queue2) = {}
  /\ hand \cap (Ids(queue1) \cup Ids(queue2)) = {}
  /\ done \cap (Ids(queue1) \cup Ids(queue2) \cup hand) = {}

OnceInv == "redeliver" \notin faults => Apart(sqs, queuedJobs, InHand, answered)

\* A failure that has happened stays in the set of those that have.
LEMMA FaultsGrow ==
  ASSUME [Next]_vars
  PROVE  /\ faults \subseteq faults'
         /\ faults \subseteq Faults => faults' \subseteq Faults
<1>1. CASE UNCHANGED vars
  BY <1>1 DEF vars, sharedVars
<1>2. ASSUME NEW kind, Fail(kind)
      PROVE  faults \subseteq faults' /\ (faults \subseteq Faults => faults' \subseteq Faults)
  BY <1>2 DEF Fail
<1>3. ASSUME NEW h \in Handlers, ApiRequest(h) \/ ApiStep(h)
      PROVE  faults' = faults \/ \E kind : Fail(kind)
  BY <1>3 DEF ApiRequest, ApiStep, CreateJob, ReadBack, StopJob, ResumeJob, WriteRecord,
              SendMsg, SendMsgFails, DeleteJob, DeleteRecord, sharedVars
<1>4. ASSUME NEW w \in Workers, WorkerStep(w) \/ ReportStep(w)
      PROVE  faults' = faults \/ \E kind : Fail(kind)
  BY <1>4 DEF WorkerStep, RegisterWorker, WorkerServes, HandleCreate, HandleCreateFails,
              HandleStopNotFound, HandleStop, ProcessStep, Terminate, Exit, CheckJobStatus,
              ReportLost, WorkerDown, ReportStep, ReportRead, ReportWrite, ReportLoadRead,
              ReportLoadWrite, ReportDone, sharedVars
<1>5. LoopStep \/ Restart => faults' = faults \/ \E kind : Fail(kind)
  BY DEF LoopStep, Schedule, ScheduleEmpty, ScheduleLater, SendStop, DropStop, SendLaunch,
         SendTo, PollEmpty, PollJobQueue, PollRedelivered, ReplyLost, LaunchFailed,
         StopFailed, Requeue, LaunchConfirmed, AddLoadRead, AddLoadWrite, StopConfirmed,
         PurgeRead, PurgeWrite, RemoveWorker, Restart, sharedVars
<1>6. CallRefused(app[call.to] = "up") \/ (\E w \in Workers : Purge(w, app[w] = "down"))
        => faults' = faults
  BY DEF CallRefused, Purge, sharedVars
<1> QED BY <1>1, <1>2, <1>3, <1>4, <1>5, <1>6 DEF Next

\* Whatever is pending or answered has been accepted.
LEMMA HeldAccepted ==
  ASSUME MessagesInv, ConfirmedInv
  PROVE  Held \subseteq DOMAIN accepted
<1>1. \A id \in Pending : \E msg \in InFlight : id = msg.id
  BY IdsCarried DEF Pending, InHand, InFlight
<1> QED BY <1>1 DEF MessagesInv, Faithful, ConfirmedInv, Held

\* What a step that moves a message does to the sets of ids.
LEMMA MovedIds ==
  ASSUME TypeInv
  PROVE  /\ sqs \in Seq(Message) /\ queuedJobs \in Seq(Message)
         /\ call # NoCall => call.msg \in Message /\ InHand = {call.msg.id}
         /\ call = NoCall => InHand = {}
  BY DEF TypeInv, TypeOK, SharedTypeOK, Call, InHand

\* A request that is in one place moves to one place.
LEMMA OnceStep ==
  ASSUME TypeInv, LaunchInv, OnceInv, [Next]_vars
  PROVE  OnceInv'
<1> SUFFICES ASSUME "redeliver" \notin faults' PROVE Apart(sqs', queuedJobs', InHand', answered')
  BY DEF OnceInv, Apart, Distinct, Ids, InHand
<1>0. Moves /\ MessagesInv /\ ConfirmedInv
  BY Flow DEF LaunchInv
<1>1. Apart(sqs, queuedJobs, InHand, answered)
  BY FaultsGrow DEF OnceInv
<1>2. Held = Ids(sqs) \cup Ids(queuedJobs) \cup InHand \cup answered
  BY DEF Held, Pending
<1>3. CASE Idles \/ Coded
  <2>1. InHand' = InHand
    BY <1>3 DEF Idles, Coded, InHand
  <2> QED BY <1>1, <1>3, <2>1 DEF Idles, Coded
<1>4. ASSUME NEW h \in Handlers, Sends(h)
      PROVE  Apart(sqs', queuedJobs', InHand', answered')
  <2>1. SentMessage(h).id \notin Held
    BY <1>0, <1>4, HeldAccepted, AcceptedSent
  <2>2. /\ Distinct(sqs) => Distinct(sqs')
        /\ Ids(sqs') = Ids(sqs) \cup {SentMessage(h).id}
    BY <1>2, <1>4, <2>1, MovedIds, Pushed DEF Sends
  <2>3. UNCHANGED <<queuedJobs, answered>> /\ InHand' = InHand
    BY <1>4 DEF Sends, InHand
  <2> QED BY <1>1, <1>2, <2>1, <2>2, <2>3 DEF Apart
<1>5. CASE Buffers
  <2>1. sqs' = Tail(sqs)
    BY <1>5 DEF Buffers
  <2>2. /\ Head(sqs) \in Message /\ Ids(sqs) = {Head(sqs).id} \cup Ids(sqs')
        /\ Distinct(sqs') /\ Head(sqs).id \notin Ids(sqs')
    BY <1>1, <1>5, <2>1, MovedIds, Popped DEF Buffers, Apart
  <2>3. /\ Ids(queuedJobs') = Ids(queuedJobs) \cup {Head(sqs).id}
        /\ Distinct(queuedJobs')
    BY <1>1, <1>5, <2>2, MovedIds, Pushed DEF Buffers, Apart
  <2>4. answered' = answered /\ InHand' = InHand
    BY <1>5 DEF Buffers, InHand
  <2> QED BY <1>1, <2>2, <2>3, <2>4 DEF Apart
<1>6. ASSUME queuedJobs # <<>>
      PROVE  /\ Head(queuedJobs) \in Message /\ Tail(queuedJobs) \in Seq(Message)
             /\ Ids(queuedJobs) = {Head(queuedJobs).id} \cup Ids(Tail(queuedJobs))
             /\ Distinct(Tail(queuedJobs))
             /\ Head(queuedJobs).id \notin Ids(Tail(queuedJobs))
  BY <1>1, <1>6, MovedIds, Popped DEF Apart
<1>7. CASE Rotates
  <2>1. /\ Ids(queuedJobs') = Ids(queuedJobs) /\ Distinct(queuedJobs')
        /\ UNCHANGED <<sqs, answered>> /\ InHand' = InHand
    BY <1>6, <1>7, Pushed DEF Rotates, InHand
  <2> QED BY <1>1, <2>1 DEF Apart
<1>8. CASE Takes
  <2>1. InHand = {} /\ InHand' = {Head(queuedJobs).id}
    BY <1>8 DEF Takes, InHand
  <2>2. queuedJobs' = Tail(queuedJobs) /\ UNCHANGED <<sqs, answered>>
    BY <1>8 DEF Takes
  <2> QED BY <1>1, <1>6, <1>8, <2>1, <2>2 DEF Takes, Apart
<1>9. CASE Drops
  <2>1. InHand = {} /\ InHand' = {}
    BY <1>9 DEF Drops, InHand
  <2>2. /\ queuedJobs' = Tail(queuedJobs) /\ sqs' = sqs
        /\ answered' = answered \cup {Head(queuedJobs).id}
    BY <1>9 DEF Drops
  <2> QED BY <1>1, <1>6, <1>9, <2>1, <2>2 DEF Drops, Apart
<1>10. CASE PutsBack
  <2>1. InHand = {call.msg.id} /\ call.msg \in Message /\ InHand' = {}
    BY <1>10, MovedIds DEF PutsBack, InHand
  <2>2. Ids(queuedJobs') = Ids(queuedJobs) \cup {call.msg.id} /\ Distinct(queuedJobs')
    BY <1>1, <1>10, <2>1, MovedIds, Pushed DEF PutsBack, Apart
  <2> QED BY <1>1, <1>10, <2>1, <2>2 DEF PutsBack, Apart
<1>11. CASE Closes \/ Loses
  <2>1. InHand' = {} /\ UNCHANGED <<sqs, queuedJobs>>
    BY <1>11 DEF Closes, Loses, InHand
  <2>2. answered' \subseteq answered \cup InHand
    BY <1>11, MovedIds DEF Closes, Loses
  <2> QED BY <1>1, <2>1, <2>2 DEF Apart
<1> QED BY <1>0, <1>3, <1>4, <1>5, <1>7, <1>8, <1>9, <1>10, <1>11 DEF Moves

\* No request is anywhere at first.
LEMMA OnceInit == Init => OnceInv
  BY DEF Init, SharedInit, SchedulerInit, OnceInv, Apart, Distinct, Ids, InHand

(***************************************************************************)
(* The refinement: ControlPlane implements RequestService.                 *)
(***************************************************************************)
\* Each step accepts one request, answers one, or is a stuttering step of the
\* service: retries and the way through the queues are not seen.
LEMMA ServiceStep ==
  ASSUME TypeInv, LaunchInv, OnceInv, [Next]_vars,
         "redeliver" \notin faults', "restart" \notin faults'
  PROVE  [Service!ServiceNext]_(Service!serviceVars)
<1>0. Moves /\ MessagesInv /\ ConfirmedInv /\ Apart(sqs, queuedJobs, InHand, answered)
  BY Flow, FaultsGrow DEF LaunchInv, OnceInv
<1>1. Pending' = Ids(sqs') \cup Ids(queuedJobs') \cup InHand'
  BY DEF Pending, Ids
<1>2. ASSUME Pending' = Pending, answered' = answered
      PROVE  [Service!ServiceNext]_(Service!serviceVars)
  BY <1>2 DEF Service!serviceVars
<1>3. ASSUME NEW id, id \notin Pending \cup answered, Pending' = Pending \cup {id},
             answered' = answered
      PROVE  [Service!ServiceNext]_(Service!serviceVars)
  BY <1>3 DEF Service!ServiceNext, Service!Accept
<1>4. ASSUME NEW id \in Pending, Pending' = Pending \ {id}, answered' = answered \cup {id}
      PROVE  [Service!ServiceNext]_(Service!serviceVars)
  BY <1>4 DEF Service!ServiceNext, Service!Answer
<1>5. CASE Idles \/ Coded
  <2>1. InHand' = InHand
    BY <1>5 DEF Idles, Coded, InHand
  <2> QED BY <1>1, <1>2, <1>5, <2>1 DEF Idles, Coded, Pending
<1>6. ASSUME NEW h \in Handlers, Sends(h)
      PROVE  [Service!ServiceNext]_(Service!serviceVars)
  <2>1. SentMessage(h).id \notin Held
    BY <1>0, <1>6, HeldAccepted, AcceptedSent
  <2>2. Ids(sqs') = Ids(sqs) \cup {SentMessage(h).id}
    BY <1>6, MovedIds, Pushed DEF Sends
  <2>3. UNCHANGED <<queuedJobs, answered>> /\ InHand' = InHand
    BY <1>6 DEF Sends, InHand
  <2> QED BY <1>1, <1>3, <2>1, <2>2, <2>3 DEF Held, Pending
<1>7. CASE Buffers
  <2>1. Head(sqs) \in Message /\ Ids(sqs) = {Head(sqs).id} \cup Ids(sqs')
    BY <1>7, MovedIds, Popped DEF Buffers
  <2>2. Ids(queuedJobs') = Ids(queuedJobs) \cup {Head(sqs).id}
    BY <1>7, <2>1, MovedIds, Pushed DEF Buffers
  <2>3. answered' = answered /\ InHand' = InHand
    BY <1>7 DEF Buffers, InHand
  <2> QED BY <1>1, <1>2, <2>1, <2>2, <2>3 DEF Pending
<1>8. ASSUME queuedJobs # <<>>
      PROVE  /\ Head(queuedJobs) \in Message /\ Tail(queuedJobs) \in Seq(Message)
             /\ Ids(queuedJobs) = {Head(queuedJobs).id} \cup Ids(Tail(queuedJobs))
             /\ Head(queuedJobs).id \notin Ids(Tail(queuedJobs))
  BY <1>0, <1>8, MovedIds, Popped DEF Apart
<1>9. CASE Rotates
  <2>1. Ids(queuedJobs') = Ids(queuedJobs) /\ UNCHANGED <<sqs, answered>> /\ InHand' = InHand
    BY <1>8, <1>9, Pushed DEF Rotates, InHand
  <2> QED BY <1>1, <1>2, <2>1 DEF Pending
<1>10. CASE Takes
  <2>1. InHand = {} /\ InHand' = {Head(queuedJobs).id}
    BY <1>10 DEF Takes, InHand
  <2> QED BY <1>1, <1>2, <1>8, <1>10, <2>1 DEF Takes, Pending
<1>11. CASE Drops
  <2>1. InHand = {} /\ InHand' = {}
    BY <1>11 DEF Drops, InHand
  <2>2. /\ queuedJobs # <<>> /\ queuedJobs' = Tail(queuedJobs) /\ sqs' = sqs
        /\ answered' = answered \cup {Head(queuedJobs).id}
    BY <1>11 DEF Drops
  <2>3. /\ Head(queuedJobs).id \in Pending
        /\ Pending' = Pending \ {Head(queuedJobs).id}
    BY <1>0, <1>1, <1>8, <2>1, <2>2 DEF Pending, Apart
  <2> QED BY <1>4, <2>2, <2>3
<1>12. CASE PutsBack
  <2>1. InHand = {call.msg.id} /\ call.msg \in Message /\ InHand' = {}
    BY <1>12, MovedIds DEF PutsBack, InHand
  <2>2. Ids(queuedJobs') = Ids(queuedJobs) \cup {call.msg.id}
    BY <1>12, <2>1, MovedIds, Pushed DEF PutsBack
  <2> QED BY <1>1, <1>2, <1>12, <2>1, <2>2 DEF PutsBack, Pending
<1>13. CASE Closes
  <2>1. InHand = {call.msg.id} /\ InHand' = {}
    BY <1>13, MovedIds DEF Closes, InHand
  <2>2. answered' = answered \cup {call.msg.id} /\ UNCHANGED <<sqs, queuedJobs>>
    BY <1>13 DEF Closes
  <2>3. call.msg.id \in Pending /\ Pending' = Pending \ {call.msg.id}
    BY <1>0, <1>1, <2>1, <2>2 DEF Pending, Apart
  <2> QED BY <1>4, <2>2, <2>3
<1>14. ~Loses
  BY DEF Loses
<1> QED
  BY <1>0, <1>5, <1>6, <1>7, <1>9, <1>10, <1>11, <1>12, <1>13, <1>14 DEF Moves

\* Up to the first second delivery or restart an accepted request is pending until
\* it is answered, once, through all the retries, on whatever workers, and however
\* many answers are lost: every step until then is one of the service or none.
THEOREM ServedOnceUntilFailure ==
  Spec => /\ Service!ServiceInit
          /\ [][{"redeliver", "restart"} \cap faults' = {}
                  => [Service!ServiceNext]_(Service!serviceVars)]_vars
<1> DEFINE I == TypeInv /\ LaunchInv /\ OnceInv
           A == {"redeliver", "restart"} \cap faults' = {}
                  => [Service!ServiceNext]_(Service!serviceVars)
<1>1. Init => I
  BY TypeInit, LaunchInit, OnceInit
<1>2. I /\ [Next]_vars => I'
  BY TypeStep, LaunchStep, OnceStep
<1>3. Init => Service!ServiceInit
  BY DEF Init, SharedInit, SchedulerInit, Service!ServiceInit, Pending, Ids, InHand
<1>4. I /\ [Next]_vars => A
  BY ServiceStep
<1> HIDE DEF I, A
<1>5. Spec => Service!ServiceInit /\ [][A]_vars
  BY <1>1, <1>2, <1>3, <1>4, PTL DEF Spec
<1> QED BY <1>5 DEF A

\* So as long as SQS deletes what it is told to and the scheduler keeps running,
\* the control plane implements the service.
THEOREM RequestsServedOnce ==
  ASSUME Faults \cap {"redeliver", "restart"} = {}
  PROVE  Spec => ServesOnce
<1> DEFINE I == TypeInv /\ LaunchInv /\ OnceInv /\ faults \subseteq Faults
<1>1. Init => I
  BY TypeInit, LaunchInit, OnceInit DEF Init, SharedInit
<1>2. I /\ [Next]_vars => I'
  <2>1. faults \subseteq Faults /\ [Next]_vars => (faults \subseteq Faults)'
    BY FaultsGrow
  <2> QED BY <2>1, TypeStep, LaunchStep, OnceStep
<1>3. Init => Service!ServiceInit
  BY DEF Init, SharedInit, SchedulerInit, Service!ServiceInit, Pending, Ids, InHand
<1>4. I /\ I' /\ [Next]_vars => [Service!ServiceNext]_(Service!serviceVars)
  BY ServiceStep
<1> HIDE DEF I
<1> QED BY <1>1, <1>2, <1>3, <1>4, PTL DEF Spec, ServesOnce, Service!ServiceSpec

(***************************************************************************)
(* The processes.  A step of the system may remove some, start one for the *)
(* request in hand, or signal or end one: its n, job and request stay.     *)
(***************************************************************************)
Shrinks == \A w \in Workers : running'[w] \subseteq running[w]

Changes(w, e, status) ==
  /\ e \in running[w] /\ e.status # "dead"
  /\ running' = [running EXCEPT ![w] = (@ \ {e}) \cup {[e EXCEPT !.status = status]}]

\* What happens to the processes in a step.
LEMMA ProcessFlow ==
  ASSUME TypeInv, [Next]_vars
  PROVE  \/ Shrinks
         \/ \E w \in Workers : HandleCreate(w) \/ HandleCreateFails(w)
         \/ \E w \in Workers : \E e \in running[w] : \E status \in {"dying", "dead"} :
              Changes(w, e, status)
<1>0. running \in [Workers -> SUBSET Instance]
  BY DEF TypeInv, TypeOK, WorkerTypeOK
<1>1. CASE UNCHANGED running
  BY <1>1 DEF Shrinks
<1>2. ASSUME NEW w \in Workers, HandleStop(w), running' # running
      PROVE  \E e \in running[w] : Changes(w, e, "dying")
  <2> DEFINE e == Oldest(Entries(w, call.msg.job))
  <2>1. Entries(w, call.msg.job) # {} /\ Entries(w, call.msg.job) \subseteq running[w]
    BY <1>2 DEF HandleStop, Entries
  <2>2. \A f \in Entries(w, call.msg.job) : f.n \in Nat
    BY <1>0, <2>1 DEF Instance
  <2>3. e \in running[w]
    BY <2>1, <2>2, OldestIn
  <2>4. e.status # "dead"
        /\ running' = [running EXCEPT ![w] = (@ \ {e}) \cup {[e EXCEPT !.status = "dying"]}]
    BY <1>2 DEF HandleStop
  <2> QED BY <2>3, <2>4 DEF Changes
<1>3. ASSUME NEW w \in Workers, ProcessStep(w)
      PROVE  \E e \in running[w] : Changes(w, e, "dead")
  BY <1>3 DEF ProcessStep, Terminate, Exit, Die, Changes
<1>4. ASSUME NEW w \in Workers, CheckJobStatus(w) \/ ReportLost(w) \/ WorkerDown(w)
      PROVE  Shrinks
  BY <1>0, <1>4 DEF CheckJobStatus, ReportLost, WorkerDown, Shrinks
<1>5. ASSUME NEW w \in Workers, RegisterWorker(w) \/ HandleStopNotFound(w)
      PROVE  UNCHANGED running
  BY <1>5 DEF RegisterWorker, HandleStopNotFound, workerVars
<1>6. (\E w \in Workers : WorkerStep(w)) \/ UNCHANGED running
  BY DEF Next, vars, workerVars
<1> QED BY <1>1, <1>2, <1>3, <1>4, <1>5, <1>6 DEF WorkerStep, WorkerServes

\* The requests for which a process was started were launch requests for its job.
InstancesInv ==
  \A w \in Workers : \A e \in running[w] : e.req \in LaunchRequests(e.job)

\* A launch request stays one.
LEMMA LaunchRequestsGrow ==
  ASSUME TypeInv, Moves, NEW j
  PROVE  LaunchRequests(j) \subseteq LaunchRequests(j)'
  BY AcceptedGrows DEF LaunchRequests

\* What a request leaves in running_jobs when it starts a process.
LEMMA NewInstanceIn ==
  ASSUME TypeInv, LaunchInv, NEW w \in Workers, HandleCreate(w) \/ HandleCreateFails(w)
  PROVE  /\ call # NoCall /\ call.code = "none"
         /\ call.msg.id \in LaunchRequests(call.msg.job)
         /\ \E e \in Instance :
              /\ e.job = call.msg.job /\ e.req = call.msg.id
              /\ HandleCreate(w) => e.status = "alive"
              /\ HandleCreateFails(w) => e.status = "dead" /\ "launch" \in faults'
              /\ running' = [running EXCEPT ![w] = @ \cup {e}]
<1>1. call # NoCall /\ call.code = "none" /\ ~call.msg.rec.stop
  BY DEF HandleCreate, HandleCreateFails, Requested
<1>2. Faithful(call.msg)
  BY <1>1 DEF LaunchInv, MessagesInv, InFlight
<1>3. call.msg.id \in LaunchRequests(call.msg.job)
  BY <1>1, <1>2 DEF Faithful, LaunchRequests
<1>4. \A status \in {"alive", "dead"} :
        /\ NewInstance(status) \in Instance /\ NewInstance(status).job = call.msg.job
        /\ NewInstance(status).req = call.msg.id /\ NewInstance(status).status = status
  BY <1>1 DEF NewInstance, Instance, TypeInv, TypeOK, SharedTypeOK, WorkerTypeOK, Call,
              Message
<1>5. ~(HandleCreate(w) /\ HandleCreateFails(w))
  <2>1. call \in Call
    BY <1>1 DEF TypeInv, TypeOK, SharedTypeOK
  <2>2. HandleCreate(w) => call'.code = "201"
    BY <2>1, AnswerCoded DEF HandleCreate, Codes
  <2>3. HandleCreateFails(w) => call'.code = "500"
    BY <2>1, AnswerCoded DEF HandleCreateFails, Codes
  <2> QED BY <2>2, <2>3
<1>6. CASE HandleCreate(w)
  <2>1. running' = [running EXCEPT ![w] = @ \cup {NewInstance("alive")}]
    BY <1>6 DEF HandleCreate, StartInstance
  <2> QED BY <1>1, <1>3, <1>4, <1>5, <1>6, <2>1
<1>7. CASE HandleCreateFails(w)
  <2>1. /\ running' = [running EXCEPT ![w] = @ \cup {NewInstance("dead")}]
        /\ "launch" \in faults'
    BY <1>7 DEF HandleCreateFails, StartInstance, Fail
  <2> QED BY <1>1, <1>3, <1>4, <1>5, <1>7, <2>1
<1> QED BY <1>6, <1>7

\* InstancesInv in every step.
LEMMA InstancesStep ==
  ASSUME TypeInv, LaunchInv, InstancesInv, [Next]_vars
  PROVE  InstancesInv'
<1>0. running \in [Workers -> SUBSET Instance] /\ Moves
  BY Flow DEF TypeInv, TypeOK, WorkerTypeOK
<1>1. ASSUME NEW v \in Workers, NEW f \in running'[v],
             f \in running[v] \/ \E e \in running[v] : f.job = e.job /\ f.req = e.req
      PROVE  f.req \in LaunchRequests(f.job)'
  BY <1>0, <1>1, LaunchRequestsGrow DEF InstancesInv
<1>2. CASE Shrinks
  BY <1>1, <1>2 DEF Shrinks, InstancesInv
<1>3. ASSUME NEW w \in Workers, HandleCreate(w) \/ HandleCreateFails(w)
      PROVE  InstancesInv'
  <2>1. PICK e \in Instance :
          /\ e.job = call.msg.job /\ e.req = call.msg.id
          /\ running' = [running EXCEPT ![w] = @ \cup {e}]
    BY <1>3, NewInstanceIn
  <2>2. e.req \in LaunchRequests(e.job)'
    BY <1>0, <1>3, <2>1, NewInstanceIn, LaunchRequestsGrow
  <2>3. \A v \in Workers : \A f \in running'[v] : f \in running[v] \/ f = e
    BY <1>0, <2>1
  <2> QED BY <1>1, <2>2, <2>3 DEF InstancesInv
<1>4. ASSUME NEW w \in Workers, NEW e \in running[w], NEW status, Changes(w, e, status)
      PROVE  InstancesInv'
  <2> DEFINE g == [e EXCEPT !.status = status]
  <2>1. g.job = e.job /\ g.req = e.req
    BY <1>0 DEF Instance
  <2>2. running' = [running EXCEPT ![w] = (@ \ {e}) \cup {g}]
    BY <1>4 DEF Changes
  <2> HIDE DEF g
  <2>3. \A v \in Workers : \A f \in running'[v] : f \in running[v] \/ (v = w /\ f = g)
    BY <1>0, <2>2
  <2> QED BY <1>1, <2>1, <2>3 DEF InstancesInv
<1> QED BY <1>2, <1>3, <1>4, ProcessFlow

(***************************************************************************)
(* One process per launch request.  A request that has a live process is   *)
(* spent: it is not on its way to a worker, and will not be put back.      *)
(***************************************************************************)
Spent(id) ==
  /\ id \notin Ids(sqs) \cup Ids(queuedJobs)
  /\ call # NoCall /\ call.msg.id = id => call.code = "201"

SingleInv ==
  {"reply", "redeliver"} \cap faults = {} =>
    /\ \A w \in Workers : \A e \in Live(w) : Spent(e.req)
    /\ \A v, w \in Workers : \A e \in Live(v), f \in Live(w) :
         e.req = f.req => v = w /\ e = f

\* A spent request stays spent while no answer is lost.
LEMMA SpentStep ==
  ASSUME TypeInv, Moves, {"reply", "redeliver"} \cap faults' = {},
         NEW id \in DOMAIN accepted, Spent(id)
  PROVE  Spent(id)'
<1> SUFFICES /\ id \notin Ids(sqs') \cup Ids(queuedJobs')
             /\ call' # NoCall /\ call'.msg.id = id => call'.code = "201"
  BY DEF Spent, Ids
<1>1. CASE Idles \/ Coded \/ Closes \/ Loses
  BY <1>1 DEF Spent, Idles, Coded, Closes, Loses
<1>2. ASSUME NEW h \in Handlers, Sends(h) PROVE id \notin Ids(sqs')
  <2>1. Ids(sqs') = Ids(sqs) \cup {SentMessage(h).id}
    BY <1>2, MovedIds, Pushed DEF Sends
  <2> QED BY <1>2, <2>1, AcceptedSent DEF Spent
<1>3. CASE Buffers
  <2>1. Head(sqs) \in Message /\ Ids(sqs) = {Head(sqs).id} \cup Ids(Tail(sqs))
    BY <1>3, MovedIds, Popped DEF Buffers
  <2>2. Ids(queuedJobs') = Ids(queuedJobs) \cup {Head(sqs).id}
    BY <1>3, <2>1, MovedIds, Pushed DEF Buffers
  <2> QED BY <1>3, <2>1, <2>2 DEF Buffers, Spent
<1>4. CASE Rotates \/ Takes \/ Drops
  <2>1. /\ Head(queuedJobs) \in Message /\ Tail(queuedJobs) \in Seq(Message)
        /\ Ids(queuedJobs) = {Head(queuedJobs).id} \cup Ids(Tail(queuedJobs))
    BY <1>4, MovedIds, Popped DEF Rotates, Takes, Drops
  <2>2. Ids(Append(Tail(queuedJobs), Head(queuedJobs))) = Ids(queuedJobs)
    BY <2>1, Pushed
  <2> QED BY <1>4, <2>1, <2>2 DEF Rotates, Takes, Drops, Spent
<1>5. CASE PutsBack
  <2>1. Ids(queuedJobs') = Ids(queuedJobs) \cup {call.msg.id}
    BY <1>5, MovedIds, Pushed DEF PutsBack
  <2> QED BY <1>5, <2>1 DEF PutsBack, Spent
<1>6. ASSUME NEW h \in Handlers, Sends(h)
      PROVE  UNCHANGED <<queuedJobs, call>>
  BY <1>6 DEF Sends
<1> QED BY <1>1, <1>2, <1>3, <1>4, <1>5, <1>6 DEF Moves, Spent

\* A process starts only for a request that has no live process; all others
\* keep their request.
LEMMA SingleStep ==
  ASSUME TypeInv, LaunchInv, OnceInv, InstancesInv, SingleInv, [Next]_vars
  PROVE  SingleInv'
<1> SUFFICES ASSUME {"reply", "redeliver"} \cap faults' = {}
             PROVE  /\ \A w \in Workers : \A e \in Live(w)' : Spent(e.req)'
                    /\ \A v, w \in Workers : \A e \in Live(v)', f \in Live(w)' :
                         e.req = f.req => v = w /\ e = f
  BY DEF SingleInv
<1>0. running \in [Workers -> SUBSET Instance] /\ Moves
  BY Flow DEF TypeInv, TypeOK, WorkerTypeOK
<1>1. {"reply", "redeliver"} \cap faults = {}
  BY FaultsGrow
<1>2. \A w \in Workers : Live(w)' = {e \in running'[w] : e.status # "dead"}
  BY DEF Live
<1>3. ASSUME NEW w \in Workers, NEW e \in Live(w) PROVE Spent(e.req)'
  <2>1. e.req \in DOMAIN accepted
    BY <1>3 DEF Live, InstancesInv, LaunchRequests
  <2> QED BY <1>0, <1>1, <1>3, <2>1, SpentStep DEF SingleInv
<1>4. CASE \A w \in Workers : Live(w)' \subseteq Live(w)
  BY <1>1, <1>3, <1>4 DEF SingleInv
<1>5. Shrinks => \A w \in Workers : Live(w)' \subseteq Live(w)
  BY <1>2 DEF Shrinks, Live
<1>6. ASSUME NEW w \in Workers, HandleCreate(w) \/ HandleCreateFails(w),
             ~\A v \in Workers : Live(v)' \subseteq Live(v)
      PROVE  /\ \A v \in Workers : \A f \in Live(v)' : Spent(f.req)'
             /\ \A u, v \in Workers : \A f \in Live(u)', g \in Live(v)' :
                  f.req = g.req => u = v /\ f = g
  <2>1. PICK e \in Instance :
          /\ e.job = call.msg.job /\ e.req = call.msg.id
          /\ HandleCreateFails(w) => e.status = "dead"
          /\ running' = [running EXCEPT ![w] = @ \cup {e}]
    BY <1>6, NewInstanceIn
  <2>2. \A v \in Workers : \A f \in running'[v] : f \in running[v] \/ (v = w /\ f = e)
    BY <1>0, <2>1
  <2>3. \A v \in Workers : \A f \in Live(v)' : f \in Live(v) \/ (v = w /\ f = e)
    BY <1>2, <2>2 DEF Live
  <2>4. ~HandleCreateFails(w)
    <3>1. HandleCreateFails(w) => \A v \in Workers : Live(v)' \subseteq Live(v)
      BY <1>2, <2>1, <2>3
    <3> QED BY <1>6, <3>1
  <2>5. call # NoCall /\ call.code = "none" /\ call \in Call
    BY <1>6, NewInstanceIn DEF TypeInv, TypeOK, SharedTypeOK
  <2>6. \A v \in Workers : \A f \in Live(v) : f.req # e.req
    BY <1>1, <2>1, <2>5 DEF SingleInv, Spent
  <2>7. Spent(e.req)'
    <3>1. HandleCreate(w)
      BY <1>6, <2>4
    <3>2. call'.code = "201" /\ UNCHANGED <<sqs, queuedJobs>>
      BY <2>5, <3>1, AnswerCoded DEF HandleCreate, redisVars, Codes
    <3>3. e.req \notin Ids(sqs) \cup Ids(queuedJobs)
      BY <1>1, <2>1, <2>5, MovedIds DEF OnceInv, Apart
    <3> QED BY <3>2, <3>3 DEF Spent, Ids
  <2>8. \A v \in Workers : \A f \in Live(v)' : Spent(f.req)'
    BY <1>3, <2>3, <2>7
  <2>9. ASSUME NEW u \in Workers, NEW v \in Workers, NEW f \in Live(u)', NEW g \in Live(v)',
               f.req = g.req
        PROVE  u = v /\ f = g
    BY <1>1, <2>3, <2>6, <2>9 DEF SingleInv
  <2> QED BY <2>8, <2>9
<1>7. ASSUME NEW w \in Workers, NEW e \in running[w], NEW status, Changes(w, e, status)
      PROVE  /\ \A v \in Workers : \A f \in Live(v)' : Spent(f.req)'
             /\ \A u, v \in Workers : \A f \in Live(u)', g \in Live(v)' :
                  f.req = g.req => u = v /\ f = g
  <2> DEFINE e2 == [e EXCEPT !.status = status]
  <2>1. e2.req = e.req /\ e \in Live(w)
    BY <1>0, <1>7 DEF Instance, Changes, Live
  <2>2. running' = [running EXCEPT ![w] = (@ \ {e}) \cup {e2}]
    BY <1>7 DEF Changes
  <2> HIDE DEF e2
  <2>3. \A v \in Workers : \A f \in running'[v] :
          \/ f \in running[v] /\ (v # w \/ f # e)
          \/ v = w /\ f = e2
    BY <1>0, <2>2
  <2>4. \A v \in Workers : \A f \in Live(v)' :
          \/ f \in Live(v) /\ (v # w \/ f # e)
          \/ v = w /\ f = e2
    BY <1>2, <2>3 DEF Live
  <2>5. \A v \in Workers : \A f \in Live(v)' : Spent(f.req)'
    BY <1>3, <2>1, <2>4
  <2>6. ASSUME NEW u \in Workers, NEW v \in Workers, NEW f \in Live(u)', NEW g \in Live(v)',
               f.req = g.req
        PROVE  u = v /\ f = g
    BY <1>1, <2>1, <2>4, <2>6 DEF SingleInv
  <2> QED BY <2>5, <2>6
<1> QED BY <1>4, <1>5, <1>6, <1>7, ProcessFlow

\* No process runs at first.
LEMMA InstancesInit == Init => InstancesInv /\ SingleInv
  BY DEF Init, WorkerInit, InstancesInv, SingleInv, Live

\* What the theorems about requests and processes rest on.
LaunchesInv == TypeInv /\ LaunchInv /\ OnceInv /\ InstancesInv /\ SingleInv

\* The whole of it is inductive.
LEMMA LaunchesInductive ==
  /\ Init => LaunchesInv
  /\ LaunchesInv /\ [Next]_vars => LaunchesInv'
<1>1. Init => LaunchesInv
  BY TypeInit, LaunchInit, OnceInit, InstancesInit DEF LaunchesInv
<1>2. LaunchesInv /\ [Next]_vars => LaunchesInv'
  BY TypeStep, LaunchStep, OnceStep, InstancesStep, SingleStep DEF LaunchesInv
<1> QED BY <1>1, <1>2

\* However often a launch is retried, on whatever workers, one process at most
\* lives for it on the whole cluster, as long as no answer was lost and no
\* message delivered twice.
THEOREM OneProcessPerRequest == Spec => []OneInstancePerRequest
<1>1. LaunchesInv => OneInstancePerRequest
  BY DEF LaunchesInv, SingleInv, OneInstancePerRequest
<1> QED BY <1>1, LaunchesInductive, PTL DEF Spec

==============================================================================
