------------------------ MODULE WorkerRegistry_proofs ------------------------
(***************************************************************************)
(* The types, that only a silent worker is removed, that a worker_app      *)
(* whose id was removed stays unknown, that a job runs twice only after a  *)
(* removal, and that workers are not overloaded, for every number of       *)
(* hosts, ids and jobs, every limit, capacity and lag of the clocks.       *)
(*                                                                         *)
(* The invariant, in three parts.  RegInv: the copies the ticker goroutine *)
(* holds are of workers that are known, an id belongs to one host, and a   *)
(* timestamp, in Redis or in a copy, is never older than the last          *)
(* heartbeat of its worker and the lag together, except for the workers in *)
(* missed.  RunInv: a process of a job is the only one, and the job cannot *)
(* be launched again.  LoadInv: a load has room for a launch, and an entry *)
(* for each process.                                                       *)
(***************************************************************************)
EXTENDS WorkerRegistry, FiniteSetTheorems, TLAPS

\* The variables of RegInv, and their types.
RegType ==
  /\ owner \in [Ids -> Hosts \cup {NoHost}]
  /\ workers \subseteq Ids
  /\ age \in [Ids -> Ages]
  /\ app \in [Hosts -> [up : BOOLEAN, id : Ids \cup {NoId}]]
  /\ beat \in [Hosts -> Beat]
  /\ loop \in Loop
  /\ heard \in [Ids -> Ages]

\* The goroutine's copies, and the worker it is at.
CopiesKnown ==
  /\ loop.held \subseteq workers
  /\ loop.pc \in {"launch", "launched", "remove"} => loop.id \in loop.held
  /\ loop.pc = "remove" => loop.seen[loop.id] > RemovalLimit

\* Every id in use belongs to the host that uses it.
Owned ==
  /\ \A i \in workers : owner[i] \in Hosts
  /\ \A h \in Hosts : app[h].id # NoId => owner[app[h].id] = h
  /\ \A h \in Hosts : beat[h] # NoBeat => beat[h].id \in Ids /\ owner[beat[h].id] = h

\* Timestamps are as old as the last heartbeat and the lag, at the most.
NotOlder ==
  \A i \in workers \ missed :
    /\ age[i] <= heard[i] + Behind[owner[i]]
    /\ i \in loop.held => loop.seen[i] <= heard[i] + Behind[owner[i]]

RegInv == RegType /\ CopiesKnown /\ Owned /\ NotOlder

\* The variables of RegInv.
regVars == <<owner, workers, age, app, beat, loop, heard, missed>>

\* Capped ages are ages, and getting older keeps two ages within a lag.
LEMMA AgesGrow ==
  /\ \A a \in Nat : Capped(a) \in Ages /\ Capped(a) <= a
  /\ \A a \in Ages : Older(a) \in Ages
  /\ \A a, b \in Ages, lag \in Nat : a <= b + lag => Older(a) <= Older(b) + lag
  /\ \A a \in Ages : a > RemovalLimit => Older(a) > RemovalLimit
  BY RegistryAssumption DEF Ages, Capped, Older

\* The goroutine holds nothing between two ticks; a new timestamp has age 0.
LEMMA IdleLoop == Idle \in Loop /\ 0 \in Ages
  BY RegistryAssumption DEF Idle, Loop, Ages

\* No id is registered yet.
LEMMA RegInit == Init => RegInv
<1> SUFFICES ASSUME Init PROVE RegInv
  OBVIOUS
<1>1. RegType
  BY IdleLoop DEF Init, RegType, Beat, NoBeat
<1>2. CopiesKnown
  BY DEF Init, CopiesKnown, Idle
<1>3. Owned
  BY DEF Init, Owned
<1>4. NotOlder
  BY DEF Init, NotOlder
<1> QED BY <1>1, <1>2, <1>3, <1>4 DEF RegInv

\* The invariant is about these variables only.
LEMMA RegKept == RegInv /\ UNCHANGED regVars => RegInv'
  BY DEF RegInv, regVars, RegType, CopiesKnown, Owned, NotOlder

\* createWorker: a fresh id, which nobody has used.
LEMMA RegCreate ==
  ASSUME RegInv, NEW h \in Hosts, NEW i \in Ids, CreateWorker(h, i),
         app' = app \/ app' = [app EXCEPT ![h].id = i]
  PROVE  RegInv'
<1>1. owner[i] = NoHost /\ i \notin workers /\ Behind[h] \in Nat
  BY RegistryAssumption DEF CreateWorker, Fresh, RegInv, Owned, Ids
<1>2. RegType'
  BY IdleLoop DEF RegInv, RegType, CreateWorker, StoreWorker
<1>3. CopiesKnown'
  BY DEF RegInv, CopiesKnown, CreateWorker, StoreWorker
<1>4. Owned'
  <2>1. /\ owner'[i] = h
        /\ \A k \in Ids : k # i => owner'[k] = owner[k]
        /\ \A k \in Hosts : owner[i] # k
        /\ workers' = workers \cup {i} /\ beat' = beat
    BY <1>1, RegistryAssumption DEF RegInv, RegType, CreateWorker, StoreWorker
  <2>2. \A k \in workers' : owner'[k] \in Hosts
    BY <2>1 DEF RegInv, RegType, Owned
  <2>3. \A k \in Hosts : app'[k].id # NoId => owner'[app'[k].id] = k
    <3> SUFFICES ASSUME NEW k \in Hosts, app'[k].id # NoId
                 PROVE  owner'[app'[k].id] = k
      OBVIOUS
    <3>1. CASE app' = app
      BY <2>1, <3>1 DEF RegInv, RegType, Owned
    <3>2. CASE app' = [app EXCEPT ![h].id = i] /\ k = h
      BY <2>1, <3>2 DEF RegInv, RegType
    <3>3. CASE app' = [app EXCEPT ![h].id = i] /\ k # h
      BY <2>1, <3>3 DEF RegInv, RegType, Owned
    <3> QED BY <3>1, <3>2, <3>3
  <2>4. \A k \in Hosts : beat'[k] # NoBeat => beat'[k].id \in Ids /\ owner'[beat'[k].id] = k
    BY <2>1 DEF RegInv, Owned
  <2> QED BY <2>2, <2>3, <2>4 DEF Owned
<1>5. NotOlder'
  BY <1>1 DEF RegInv, RegType, CopiesKnown, NotOlder, CreateWorker, StoreWorker
<1> QED BY <1>2, <1>3, <1>4, <1>5 DEF RegInv

\* A heartbeat bears an id that its sender was given.
LEMMA RegSend ==
  ASSUME RegInv, NEW h \in Hosts, SendHeartbeat(h)
  PROVE  RegInv'
<1>1. app[h].id \in Ids /\ owner[app[h].id] = h /\ app[h].id # NoId
  BY DEF SendHeartbeat, RegInv, RegType, Owned, Ids, NoId
<1>2. RegType'
  BY <1>1 DEF RegInv, RegType, SendHeartbeat, clusterVars, Beat
<1>3. CopiesKnown' /\ NotOlder'
  BY DEF RegInv, CopiesKnown, NotOlder, SendHeartbeat, clusterVars
<1>4. Owned'
  <2>1. /\ beat'[h].id = app[h].id
        /\ \A k \in Hosts : k # h => beat'[k] = beat[k]
        /\ owner' = owner /\ workers' = workers /\ app' = app
    BY DEF RegInv, RegType, SendHeartbeat, clusterVars, Beat
  <2> QED BY <1>1, <2>1 DEF RegInv, Owned
<1> QED BY <1>2, <1>3, <1>4 DEF RegInv

\* The worker of a stored heartbeat is missed, or held by nobody.
LEMMA RegHeartbeat ==
  ASSUME RegInv, NEW h \in Hosts, HeartbeatWrite(h)
  PROVE  RegInv'
<1> DEFINE i == beat[h].id
<1>1. i \in Ids /\ owner[i] = h /\ beat[h].age \in Ages /\ Behind[h] \in Nat
      /\ beat[h].age + Behind[h] \in Nat
  <2>1. i \in Ids /\ owner[i] = h
    BY DEF HeartbeatWrite, RegInv, Owned
  <2>2. beat[h].age \in Ages
    BY DEF RegInv, RegType, Beat
  <2>3. Behind[h] \in Nat
    BY RegistryAssumption
  <2> QED BY <2>1, <2>2, <2>3 DEF Ages
<1>2. /\ Capped(beat[h].age + Behind[h]) \in Ages
      /\ Capped(beat[h].age + Behind[h]) <= beat[h].age + Behind[h]
  BY <1>1, AgesGrow
<1>3. RegType'
  <2>1. NoBeat \in Beat
    BY IdleLoop DEF NoBeat, Beat
  <2> QED BY <1>1, <1>2, <2>1 DEF RegInv, RegType, HeartbeatWrite, StoreWorker, clusterVars
<1>4. CopiesKnown'
  BY DEF RegInv, CopiesKnown, HeartbeatWrite, StoreWorker
<1>5. Owned'
  BY <1>1 DEF RegInv, RegType, Owned, HeartbeatWrite, StoreWorker, clusterVars
<1>6. NotOlder'
  <2> SUFFICES ASSUME NEW k \in workers', k \notin missed'
               PROVE  /\ age'[k] <= heard'[k] + Behind[owner'[k]]
                      /\ k \in loop'.held => loop'.seen[k] <= heard'[k] + Behind[owner'[k]]
    BY DEF NotOlder
  <2>1. CASE k = i
    BY <1>1, <1>2, <2>1 DEF RegInv, RegType, HeartbeatWrite, StoreWorker, clusterVars
  <2>2. CASE k # i
    BY <1>1, <2>2 DEF RegInv, RegType, NotOlder, HeartbeatWrite, StoreWorker, clusterVars
  <2> QED BY <2>1, <2>2
<1> QED BY <1>3, <1>4, <1>5, <1>6 DEF RegInv

\* The goroutine takes copies of workers that are known (SendJob and the check).
LEMMA RegCopies ==
  ASSUME RegInv, NEW ids \in SUBSET workers, loop' \in Loop,
         loop'.held = ids, loop'.seen = Copies(ids),
         loop'.pc \in {"launch", "check"},
         loop'.pc = "launch" => loop'.id \in ids,
         UNCHANGED <<owner, workers, age, app, beat, heard, missed>>
  PROVE  RegInv'
<1>1. RegType' /\ Owned'
  BY DEF RegInv, RegType, Owned
<1>2. CopiesKnown'
  BY DEF CopiesKnown
<1>3. NotOlder'
  BY DEF RegInv, RegType, NotOlder, Copies
<1> QED BY <1>1, <1>2, <1>3 DEF RegInv

\* A copy of a record has the age of its timestamp.
LEMMA CopiesType == RegType => \A ids : Copies(ids) \in [Ids -> Ages]
  BY IdleLoop DEF RegType, Copies

\* The goroutine lets some of its copies go; Redis does not change.
LEMMA RegRelease ==
  ASSUME RegInv, loop' \in Loop, loop'.held \subseteq loop.held,
         \A i \in loop'.held : loop'.seen[i] = loop.seen[i],
         loop'.pc \in {"launch", "launched", "remove"} => loop'.id \in loop'.held,
         loop'.pc = "remove" => loop'.seen[loop'.id] > RemovalLimit,
         UNCHANGED <<owner, workers, age, app, beat, heard, missed>>
  PROVE  RegInv'
  BY DEF RegInv, RegType, CopiesKnown, Owned, NotOlder

\* Launches.
LEMMA RegLaunch ==
  ASSUME RegInv,
         \/ \E j \in Jobs, i \in Ids : SendJob(j, i)
         \/ LaunchJob \/ LaunchRefused \/ AddNewJobLoad
  PROVE  RegInv'
<1>1. ASSUME NEW j \in Jobs, NEW i \in Ids, SendJob(j, i) PROVE RegInv'
  <2>1. /\ loop' = [pc |-> "launch", id |-> i, job |-> j, held |-> {i},
                     seen |-> Copies({i})]
        /\ i \in workers
        /\ UNCHANGED <<owner, workers, age, app, beat, heard, missed>>
    BY <1>1 DEF SendJob
  <2>2. loop' \in Loop
    BY <2>1, CopiesType DEF RegInv, Loop
  <2> QED BY <2>1, <2>2, RegCopies
<1>2. ASSUME LaunchJob PROVE RegInv'
  <2>1. /\ loop' = [loop EXCEPT !.pc = "launched"] /\ loop.pc = "launch"
        /\ UNCHANGED <<owner, workers, age, app, beat, heard, missed>>
    BY <1>2 DEF LaunchJob
  <2>2. /\ loop' \in Loop /\ loop'.held = loop.held /\ loop'.seen = loop.seen
        /\ loop'.id = loop.id /\ loop'.pc = "launched"
    BY <2>1 DEF RegInv, RegType, Loop
  <2> QED BY <2>1, <2>2, RegRelease DEF RegInv, CopiesKnown
<1>3. ASSUME LaunchRefused PROVE RegInv'
  <2>1. loop' = Idle /\ UNCHANGED <<owner, workers, age, app, beat, heard, missed>>
    BY <1>3 DEF LaunchRefused
  <2> QED BY <2>1, IdleLoop, RegRelease DEF Idle
<1>4. ASSUME AddNewJobLoad PROVE RegInv'
  <2> DEFINE i == loop.id
  <2>1. /\ i \in loop.held /\ i \in workers /\ i \in Ids
        /\ loop.seen[i] \in Ages
        /\ workers' = workers /\ age' = [age EXCEPT ![i] = loop.seen[i]]
        /\ loop' = Idle
        /\ UNCHANGED <<owner, app, beat, heard, missed>>
    BY <1>4 DEF AddNewJobLoad, StoreWorker, RegInv, RegType, CopiesKnown, Loop
  <2>2. RegType' /\ CopiesKnown' /\ Owned'
    BY <2>1, IdleLoop DEF RegInv, RegType, CopiesKnown, Owned, Idle
  <2>3. NotOlder'
    BY <2>1 DEF RegInv, RegType, NotOlder, Idle
  <2> QED BY <2>2, <2>3 DEF RegInv
<1> QED BY <1>1, <1>2, <1>3, <1>4

\* The check of the heartbeats.
LEMMA RegCheck ==
  ASSUME RegInv,
         \/ CheckWorkerHeartbeat \/ RemoveWorker \/ CheckOver
         \/ \E i \in Ids : KeepWorker(i) \/ StopWorkerJobs(i)
  PROVE  RegInv'
<1>1. ASSUME CheckWorkerHeartbeat PROVE RegInv'
  <2>1. /\ loop' = [Idle EXCEPT !.pc = "check", !.held = workers,
                                !.seen = Copies(workers)]
        /\ UNCHANGED <<owner, workers, age, app, beat, heard, missed>>
    BY <1>1 DEF CheckWorkerHeartbeat, clusterVars
  <2>2. /\ loop' \in Loop /\ loop'.held = workers /\ loop'.seen = Copies(workers)
        /\ loop'.pc = "check"
    BY <2>1, CopiesType, IdleLoop DEF RegInv, RegType, Loop
  <2> QED BY <2>1, <2>2, RegCopies
<1>2. ASSUME RemoveWorker PROVE RegInv'
  <2> DEFINE i == loop.id
  <2>1. /\ i \in Ids /\ 0 \in Ages
        /\ workers' = workers \ {i} /\ age' = [age EXCEPT ![i] = 0]
        /\ UNCHANGED <<owner, app, beat, heard, missed>>
    BY <1>2, IdleLoop DEF RemoveWorker, clusterVars, RegInv, RegType, CopiesKnown
  <2>2. /\ loop' \in Loop /\ loop'.pc = "check" /\ loop'.held = loop.held \ {i}
        /\ \A k \in loop'.held : loop'.seen[k] = loop.seen[k]
    BY <1>2, <2>1 DEF RemoveWorker, RegInv, RegType, Loop, NoId
  <2>3. RegType' /\ CopiesKnown' /\ Owned'
    BY <2>1, <2>2 DEF RegInv, RegType, CopiesKnown, Owned
  <2>4. NotOlder'
    BY <2>1, <2>2 DEF RegInv, RegType, NotOlder
  <2> QED BY <2>3, <2>4 DEF RegInv
<1>3. ASSUME CheckOver PROVE RegInv'
  <2>1. loop' = Idle /\ UNCHANGED <<owner, workers, age, app, beat, heard, missed>>
    BY <1>3 DEF CheckOver, clusterVars
  <2>2. app' = app /\ owner' = owner
    BY <1>3 DEF CheckOver, clusterVars
  <2> QED BY <2>1, IdleLoop, RegRelease DEF Idle
<1>4. ASSUME NEW i \in Ids, KeepWorker(i) PROVE RegInv'
  <2>1. /\ loop' = [loop EXCEPT !.held = @ \ {i}, !.seen[i] = 0]
        /\ loop.pc = "check"
        /\ UNCHANGED <<owner, workers, age, app, beat, heard, missed>>
    BY <1>4 DEF KeepWorker, clusterVars
  <2>2. /\ loop' \in Loop /\ loop'.pc = "check" /\ loop'.held = loop.held \ {i}
        /\ \A k \in loop'.held : loop'.seen[k] = loop.seen[k]
    BY <2>1, IdleLoop DEF RegInv, RegType, Loop
  <2> QED BY <2>1, <2>2, RegRelease
<1>5. ASSUME NEW i \in Ids, StopWorkerJobs(i) PROVE RegInv'
  <2>1. /\ loop' = [loop EXCEPT !.pc = "remove", !.id = i]
        /\ i \in loop.held /\ loop.seen[i] > RemovalLimit
        /\ UNCHANGED <<owner, workers, age, app, beat, heard, missed>>
    BY <1>5 DEF StopWorkerJobs
  <2>2. /\ loop' \in Loop /\ loop'.pc = "remove" /\ loop'.id = i
        /\ loop'.held = loop.held /\ loop'.seen = loop.seen
    BY <2>1 DEF RegInv, RegType, Loop
  <2> QED BY <2>1, <2>2, RegRelease
<1> QED BY <1>1, <1>2, <1>3, <1>4, <1>5

\* The end and the start of a worker_app.
LEMMA RegCrash ==
  ASSUME RegInv, NEW h \in Hosts, Crash(h) \/ Restart(h)
  PROVE  RegInv'
<1>1. /\ app' \in [Hosts -> [up : BOOLEAN, id : Ids \cup {NoId}]]
      /\ \A k \in Hosts : app'[k].id \in {NoId, app[k].id}
      /\ UNCHANGED <<owner, workers, age, beat, loop, heard, missed>>
  <2>1. CASE Crash(h)
    BY <2>1 DEF Crash, RegInv, RegType
  <2>2. CASE Restart(h)
    BY <2>2 DEF Restart, RegInv, RegType
  <2> QED BY <2>1, <2>2
<1>2. Owned'
  BY <1>1 DEF RegInv, Owned
<1> QED BY <1>1, <1>2 DEF RegInv, RegType, CopiesKnown, NotOlder

\* Time passes for Redis, the copies and the heartbeats alike.
LEMMA RegTick ==
  ASSUME RegInv, Tick
  PROVE  RegInv'
<1>1. /\ UNCHANGED <<owner, workers, app, missed>>
      /\ \A i \in workers : age'[i] = Older(age[i]) /\ heard'[i] = Older(heard[i])
      /\ loop' \in Loop
      /\ loop'.pc = loop.pc /\ loop'.id = loop.id /\ loop'.held = loop.held
      /\ \A i \in loop.held : loop'.seen[i] = Older(loop.seen[i])
  BY AgesGrow DEF Tick, clusterVars, RegInv, RegType, CopiesKnown, Loop
<1>2. RegType'
  <2>1. age' \in [Ids -> Ages] /\ heard' \in [Ids -> Ages]
    BY AgesGrow DEF Tick, RegInv, RegType
  <2>2. beat' \in [Hosts -> Beat]
    BY AgesGrow DEF Tick, RegInv, RegType, Beat
  <2> QED BY <1>1, <2>1, <2>2 DEF RegInv, RegType
<1>3. CopiesKnown'
  BY <1>1, AgesGrow DEF RegInv, RegType, CopiesKnown, Loop
<1>4. Owned'
  <2>1. \A h \in Hosts : beat'[h] # NoBeat => beat[h] # NoBeat /\ beat'[h].id = beat[h].id
    BY DEF Tick, RegInv, RegType, Beat
  <2> QED BY <1>1, <2>1 DEF RegInv, Owned
<1>5. NotOlder'
  <2> SUFFICES ASSUME NEW i \in workers, i \notin missed
               PROVE  /\ age'[i] <= heard'[i] + Behind[owner[i]]
                      /\ i \in loop.held => loop'.seen[i] <= heard'[i] + Behind[owner[i]]
    BY <1>1 DEF NotOlder
  <2>1. /\ Behind[owner[i]] \in Nat /\ age[i] \in Ages /\ heard[i] \in Ages
        /\ loop.seen[i] \in Ages
    BY RegistryAssumption DEF RegInv, RegType, Owned, Loop
  <2> QED BY <1>1, <2>1, AgesGrow DEF RegInv, NotOlder
<1> QED BY <1>2, <1>3, <1>4, <1>5 DEF RegInv

\* Reports, exits and resumes are about other variables.
LEMMA RegOther ==
  ASSUME \/ \E h \in Hosts : JobStatus(h) \/ \E e \in Alive(h) : Exit(h, e)
         \/ \E j \in Jobs : ResumeJob(j)
  PROVE  UNCHANGED regVars
<1>1. ASSUME NEW h \in Hosts, JobStatus(h) PROVE UNCHANGED regVars
  BY <1>1 DEF JobStatus, regVars
<1>2. ASSUME NEW h \in Hosts, NEW e \in Alive(h), Exit(h, e) PROVE UNCHANGED regVars
  BY <1>2 DEF Exit, regVars
<1>3. ASSUME NEW j \in Jobs, ResumeJob(j) PROVE UNCHANGED regVars
  BY <1>3 DEF ResumeJob, regVars
<1> QED BY <1>1, <1>2, <1>3

\* Every step of the registry preserves the invariant.
LEMMA RegNext == RegInv /\ [Next]_vars => RegInv'
<1> SUFFICES ASSUME RegInv, [Next]_vars PROVE RegInv'
  OBVIOUS
<1>1. ASSUME NEW h \in Hosts, Register(h) \/ RegistrationLost(h) PROVE RegInv'
  BY <1>1, RegCreate DEF Register, RegistrationLost
<1>2. ASSUME NEW h \in Hosts,
             SendHeartbeat(h) \/ HeartbeatWrite(h) \/ Crash(h) \/ Restart(h)
      PROVE  RegInv'
  BY <1>2, RegSend, RegHeartbeat, RegCrash
<1>3. CASE UNCHANGED vars
  BY <1>3, RegKept DEF vars, clusterVars, regVars
<1> QED
  BY <1>1, <1>2, <1>3, RegKept, RegOther, RegLaunch, RegCheck, RegTick
  DEF Next, LoopStep

\* RegInv is an invariant.
THEOREM RegistryInvariant == Spec => []RegInv
  BY RegInit, RegNext, PTL DEF Spec

\* Only removeWorker takes an id off the table, and it takes the id of a record
\* that was found to be too old.
LEMMA RemovalStep ==
  ASSUME RegInv, [Next]_vars, NEW i \in workers, i \notin workers'
  PROVE  i \in missed \/ heard[i] + Behind[owner[i]] > RemovalLimit
<1>1. RemoveWorker
  <2>1. ASSUME NEW h \in Hosts, Register(h) \/ RegistrationLost(h) PROVE FALSE
    BY <2>1 DEF Register, RegistrationLost, CreateWorker, StoreWorker
  <2>2. ASSUME NEW h \in Hosts,
               SendHeartbeat(h) \/ HeartbeatWrite(h) \/ Crash(h) \/ Restart(h)
        PROVE  FALSE
    BY <2>2 DEF SendHeartbeat, HeartbeatWrite, StoreWorker, Crash, Restart
  <2>3. ASSUME \/ \E h \in Hosts : JobStatus(h) \/ \E e \in Alive(h) : Exit(h, e)
               \/ \E j \in Jobs : ResumeJob(j)
        PROVE  FALSE
    BY <2>3, RegOther DEF regVars
  <2>4. ASSUME \/ \E j \in Jobs, k \in Ids : SendJob(j, k)
               \/ LaunchJob \/ LaunchRefused \/ AddNewJobLoad
        PROVE  FALSE
    BY <2>4 DEF SendJob, LaunchJob, LaunchRefused, AddNewJobLoad, StoreWorker
  <2>5. ASSUME \/ CheckWorkerHeartbeat \/ CheckOver \/ Tick
               \/ \E k \in Ids : KeepWorker(k) \/ StopWorkerJobs(k)
        PROVE  FALSE
    BY <2>5 DEF CheckWorkerHeartbeat, CheckOver, Tick, KeepWorker, StopWorkerJobs
  <2>6. ~UNCHANGED vars
    BY DEF vars
  <2> QED BY <2>1, <2>2, <2>3, <2>4, <2>5, <2>6 DEF Next, LoopStep
<1>2. i = loop.id /\ i \in loop.held /\ loop.seen[i] > RemovalLimit
  BY <1>1 DEF RemoveWorker, RegInv, CopiesKnown
<1>3. CASE i \notin missed
  <2>1. loop.seen[i] <= heard[i] + Behind[owner[i]]
    BY <1>2, <1>3 DEF RegInv, NotOlder
  <2>2. loop.seen[i] \in Nat /\ heard[i] \in Nat /\ Behind[owner[i]] \in Nat
    BY RegistryAssumption DEF RegInv, RegType, Owned, Loop, Ages
  <2> QED BY <1>2, <2>1, <2>2, RegistryAssumption
<1> QED BY <1>3

\* A worker is removed only when it has been silent for longer than the limit,
\* the lag of its clock included, or its last heartbeat found the goroutine with
\* a copy of its record (check_worker_heartbeat, addNewJobLoad).
THEOREM PurgedWasSilentHolds == Spec => PurgedWasSilent
<1>1. RegInv /\ [Next]_vars =>
        [\A i \in Ids : i \in workers /\ i \notin workers' =>
           i \in missed \/ heard[i] + Behind[owner[i]] > RemovalLimit]_vars
  BY RemovalStep
<1> QED BY <1>1, RegistryInvariant, PTL DEF Spec, PurgedWasSilent

\* What is unknown stays so when the step registers nobody and stores no
\* heartbeat of the worker_app.
LEMMA LostStep ==
  ASSUME RegInv, [Next]_vars, NEW h \in Hosts, Lost(h)
  PROVE  Lost(h)' \/ ~app'[h].up
<1>1. /\ app[h].id \in Ids /\ app[h].id # NoId /\ app[h].id \notin workers
      /\ owner[app[h].id] = h /\ beat[h] = NoBeat /\ app[h].up
  BY DEF Lost, RegInv, RegType, Owned, Ids, NoId
<1>2. ASSUME UNCHANGED <<workers, app>>, beat'[h] = beat[h] PROVE Lost(h)'
  BY <1>1, <1>2 DEF Lost
<1>3. ASSUME NEW k \in Hosts, NEW i \in Ids, CreateWorker(k, i),
             app' = app \/ app' = [app EXCEPT ![k].id = i]
      PROVE  Lost(h)'
  <2>1. owner[i] = NoHost /\ app[k].id = NoId
    BY <1>3 DEF CreateWorker, Fresh, Ids
  <2>2. i # app[h].id /\ k # h
    BY <1>1, <2>1, RegistryAssumption
  <2>3. app'[h] = app[h]
    BY <1>3, <2>2 DEF RegInv, RegType
  <2> QED BY <1>1, <1>3, <2>2, <2>3 DEF CreateWorker, StoreWorker, Lost
<1>4. ASSUME NEW k \in Hosts, Register(k) \/ RegistrationLost(k) PROVE Lost(h)'
  BY <1>3, <1>4 DEF Register, RegistrationLost
<1>5. ASSUME NEW k \in Hosts, SendHeartbeat(k) PROVE Lost(h)'
  <2>1. k # h
    BY <1>1, <1>5 DEF SendHeartbeat
  <2> QED BY <1>2, <1>5, <2>1 DEF SendHeartbeat, clusterVars
<1>6. ASSUME NEW k \in Hosts, HeartbeatWrite(k) PROVE Lost(h)'
  <2>1. k # h /\ owner[beat[k].id] = k
    BY <1>1, <1>6 DEF HeartbeatWrite, RegInv, Owned
  <2>2. workers' = workers \cup {beat[k].id} /\ app' = app /\ beat'[h] = beat[h]
    BY <1>6, <2>1 DEF HeartbeatWrite, StoreWorker, clusterVars
  <2> QED BY <1>1, <2>1, <2>2 DEF Lost
<1>7. ASSUME NEW k \in Hosts, Crash(k) \/ Restart(k) PROVE Lost(h)' \/ ~app'[h].up
  <2>1. CASE k = h
    BY <1>1, <1>7, <2>1 DEF Crash, Restart, RegInv, RegType
  <2>2. CASE k # h
    BY <1>1, <1>7, <2>2 DEF Crash, Restart, Lost, RegInv, RegType
  <2> QED BY <2>1, <2>2
<1>8. ASSUME \/ \E k \in Hosts : JobStatus(k) \/ \E e \in Alive(k) : Exit(k, e)
             \/ \E j \in Jobs : ResumeJob(j)
      PROVE  Lost(h)'
  BY <1>2, <1>8, RegOther DEF regVars
<1>9. ASSUME \/ \E j \in Jobs, i \in Ids : SendJob(j, i)
             \/ LaunchJob \/ LaunchRefused
             \/ CheckWorkerHeartbeat \/ CheckOver
             \/ \E i \in Ids : KeepWorker(i) \/ StopWorkerJobs(i)
      PROVE  Lost(h)'
  BY <1>2, <1>9 DEF SendJob, LaunchJob, LaunchRefused, CheckWorkerHeartbeat,
                    CheckOver, KeepWorker, StopWorkerJobs, clusterVars
<1>10. ASSUME AddNewJobLoad PROVE Lost(h)'
  <2>1. workers' = workers
    BY <1>10 DEF AddNewJobLoad, StoreWorker, RegInv, CopiesKnown
  <2> QED BY <1>2, <1>10, <2>1 DEF AddNewJobLoad
<1>11. ASSUME RemoveWorker \/ Tick PROVE Lost(h)'
  BY <1>1, <1>11 DEF RemoveWorker, Tick, clusterVars, Lost
<1>12. CASE UNCHANGED vars
  BY <1>2, <1>12 DEF vars, clusterVars
<1> QED
  BY <1>4, <1>5, <1>6, <1>7, <1>8, <1>9, <1>10, <1>11, <1>12 DEF Next, LoopStep

\* A worker_app whose id was removed stays unknown to the scheduler until it
\* ends: no heartbeat and no launch brings its record back.
THEOREM LostUntilRestartHolds == Spec => LostUntilRestart
<1>1. RegInv /\ [Next]_vars =>
        [\A h \in Hosts : Lost(h) => Lost(h)' \/ ~app'[h].up]_vars
  BY LostStep
<1> QED BY <1>1, RegistryInvariant, PTL DEF Spec, LostUntilRestart

-----------------------------------------------------------------------------
\* The variables that RegType leaves out, and their types.
JobType ==
  /\ loads \in [Ids -> SUBSET Entry]
  /\ jobs \in [Jobs -> {"created", "running", "stopped"}]
  /\ queue \subseteq Jobs
  /\ running \in [Hosts -> SUBSET Instance]
  /\ launches \in 0..LaunchLimit
  /\ loop.pc = "launch" => launches < LaunchLimit
  /\ faults \subseteq FaultKinds
  /\ missed \subseteq Ids
  /\ disowned \subseteq Jobs

\* The goroutine is about to launch the job, or has launched it and not stored
\* that yet.
Launching(j) == loop.pc = "launch" /\ loop.job = j
LaunchStored(j) == ~(loop.pc = "launched" /\ loop.job = j)

\* One worker_app lists the job, once.
SoleRun(j) ==
  \A h1, h2 \in Hosts : \A e1 \in running[h1], e2 \in running[h2] :
    e1.job = j /\ e2.job = j => e1 = e2 /\ h1 = h2

\* A job on its way to a worker is not in the queue as well, and nothing that
\* is listed is on its way: its record says "running", so that no client can
\* resume it, or is about to say so.
RunInv ==
  /\ \A j \in queue : ~Launching(j) /\ LaunchStored(j)
  /\ \A j \in Jobs \ disowned :
       /\ SoleRun(j)
       /\ Listed(j) => /\ j \notin queue /\ ~Launching(j)
                       /\ LaunchStored(j) => jobs[j] = "running"

\* The goroutine has checked the load of the worker that it launches on.
RoomToLaunch ==
  \A i \in Ids :
    /\ IsFiniteSet(loads[i]) /\ Cardinality(loads[i]) <= Capacity
    /\ loop.pc \in {"launch", "launched"} /\ loop.id = i =>
         Cardinality(loads[i]) < Capacity

\* What runs has its entry in the load of the id that it was sent to, or gets it
\* next.
RunsAreLoads ==
  \A h \in Hosts : \A e \in Alive(h) : e.job \notin disowned =>
    \/ \E l \in loads[e.via] : l.job = e.job
    \/ loop.pc = "launched" /\ loop.id = e.via /\ loop.job = e.job

LoadInv == RoomToLaunch /\ RunsAreLoads

JobInv == RegInv /\ JobType /\ RunInv /\ LoadInv

\* The variables of RunInv and LoadInv, the goroutine's seen and held apart.
jobVars == <<loads, jobs, queue, running, launches, disowned>>

-----------------------------------------------------------------------------
\* A report takes entries of ended jobs off, and nothing else.
LEMMA EndedOnly ==
  ASSUME NEW load, IsFiniteSet(load), NEW ended
  PROVE  /\ WithoutEnded(load, ended) \subseteq load
         /\ IsFiniteSet(WithoutEnded(load, ended))
         /\ Cardinality(WithoutEnded(load, ended)) <= Cardinality(load)
         /\ \A l \in load : (\A e \in ended : e.job # l.job)
              => l \in WithoutEnded(load, ended)
<1>1. WithoutEnded(load, ended) \subseteq load
  BY DEF WithoutEnded
<1>2. /\ IsFiniteSet(WithoutEnded(load, ended))
      /\ Cardinality(WithoutEnded(load, ended)) <= Cardinality(load)
  BY <1>1, FS_Subset
<1>3. ASSUME NEW l \in load, \A e \in ended : e.job # l.job
      PROVE  l \in WithoutEnded(load, ended)
  <2> DEFINE older == {m \in load : m.job = l.job /\ m.n < l.n}
             its == {e \in ended : e.job = l.job}
  <2>1. Cardinality(older) \in Nat
    BY FS_Subset, FS_CardinalityType
  <2>2. its = {}
    BY <1>3
  <2>3. Cardinality(its) = 0
    BY <2>2, FS_EmptySet
  <2>4. Cardinality(older) >= Cardinality(its)
    BY <2>1, <2>3
  <2> QED BY <2>4 DEF WithoutEnded
<1> QED BY <1>1, <1>2, <1>3

\* Entries taken off a load leave room in it.
LEMMA RoomStays ==
  ASSUME NEW load, IsFiniteSet(load), NEW rest, IsFiniteSet(rest),
         Cardinality(rest) <= Cardinality(load)
  PROVE  /\ Cardinality(load) <= Capacity => Cardinality(rest) <= Capacity
         /\ Cardinality(load) < Capacity => Cardinality(rest) < Capacity
<1>1. Cardinality(load) \in Nat /\ Cardinality(rest) \in Nat /\ Capacity \in Nat
  BY FS_CardinalityType, RegistryAssumption
<1> QED BY <1>1

\* One entry takes one place at the most.
LEMMA OneMore ==
  ASSUME NEW S, IsFiniteSet(S), NEW x
  PROVE  /\ IsFiniteSet(S \cup {x})
         /\ Cardinality(S \cup {x}) <= Cardinality(S) + 1
<1>1. Cardinality(S) \in Nat
  BY FS_CardinalityType
<1>2. /\ IsFiniteSet(S \cup {x})
      /\ Cardinality(S \cup {x}) = IF x \in S THEN Cardinality(S) ELSE Cardinality(S) + 1
  BY FS_AddElement
<1> QED BY <1>1, <1>2

\* Nothing is running, and every job is in the queue.
LEMMA JobInit == Init => JobInv
<1> SUFFICES ASSUME Init PROVE JobInv
  OBVIOUS
<1>1. RegInv
  BY RegInit
<1>2. JobType
  BY RegistryAssumption DEF Init, JobType, Idle
<1>3. RunInv
  BY DEF Init, RunInv, Idle, Launching, LaunchStored, SoleRun, Listed
<1>4. LoadInv
  BY FS_EmptySet, RegistryAssumption
  DEF Init, LoadInv, RoomToLaunch, RunsAreLoads, Alive, Idle
<1> QED BY <1>1, <1>2, <1>3, <1>4 DEF JobInv

\* Steps that leave the jobs and the goroutine's launch alone.
LEMMA JobKept ==
  ASSUME JobInv, UNCHANGED jobVars, faults' \subseteq FaultKinds,
         missed' \subseteq Ids,
         \/ loop'.pc = loop.pc /\ loop'.job = loop.job /\ loop'.id = loop.id
         \/ {loop.pc, loop'.pc} \subseteq {"idle", "check", "remove"}
  PROVE  JobType' /\ RunInv' /\ LoadInv'
<1>1. JobType'
  BY DEF JobInv, JobType, jobVars
<1>2. RunInv'
  BY DEF JobInv, RunInv, jobVars, Launching, LaunchStored, SoleRun, Listed
<1>3. LoadInv'
  BY DEF JobInv, LoadInv, RoomToLaunch, RunsAreLoads, Alive, jobVars
<1> QED BY <1>1, <1>2, <1>3

\* Heartbeats, registrations and the check, except for the stop of the jobs.
LEMMA JobOther ==
  ASSUME JobInv,
         \/ \E h \in Hosts : \/ Register(h) \/ RegistrationLost(h)
                             \/ SendHeartbeat(h) \/ HeartbeatWrite(h) \/ Restart(h)
         \/ CheckWorkerHeartbeat \/ RemoveWorker \/ CheckOver \/ Tick
         \/ \E i \in Ids : KeepWorker(i)
         \/ UNCHANGED vars
  PROVE  JobType' /\ RunInv' /\ LoadInv'
<1>0. loop \in Loop /\ faults \subseteq FaultKinds /\ missed \subseteq Ids
  BY DEF JobInv, RegInv, RegType, JobType
<1>1. ASSUME NEW h \in Hosts, Register(h) \/ RegistrationLost(h)
      PROVE  UNCHANGED <<jobVars, loop, missed>> /\ faults' \subseteq FaultKinds
  BY <1>0, <1>1, RegistryAssumption
  DEF Register, RegistrationLost, CreateWorker, Fail, jobVars
<1>2. ASSUME NEW h \in Hosts, SendHeartbeat(h) \/ Restart(h)
      PROVE  UNCHANGED <<jobVars, loop, missed, faults>>
  BY <1>2 DEF SendHeartbeat, Restart, clusterVars, jobVars
<1>3. ASSUME NEW h \in Hosts, HeartbeatWrite(h)
      PROVE  UNCHANGED <<jobVars, loop, faults>> /\ missed' \subseteq Ids
  <2>1. beat[h].id \in Ids
    BY <1>3 DEF HeartbeatWrite, JobInv, RegInv, Owned
  <2> QED BY <1>0, <1>3, <2>1 DEF HeartbeatWrite, clusterVars, jobVars
<1>4. ASSUME CheckWorkerHeartbeat \/ CheckOver
      PROVE  /\ UNCHANGED <<jobVars, missed, faults>>
             /\ {loop.pc, loop'.pc} \subseteq {"idle", "check", "remove"}
  <2>1. CASE CheckWorkerHeartbeat
    BY <2>1 DEF CheckWorkerHeartbeat, clusterVars, jobVars, Idle
  <2>2. CASE CheckOver
    BY <2>2 DEF CheckOver, clusterVars, jobVars, Idle
  <2> QED BY <1>4, <2>1, <2>2
<1>5. ASSUME NEW i \in Ids, KeepWorker(i)
      PROVE  /\ UNCHANGED <<jobVars, missed, faults>>
             /\ {loop.pc, loop'.pc} \subseteq {"idle", "check", "remove"}
  BY <1>0, <1>5 DEF KeepWorker, clusterVars, jobVars, Loop
<1>6. ASSUME RemoveWorker
      PROVE  /\ UNCHANGED <<jobVars, missed, faults>>
             /\ {loop.pc, loop'.pc} \subseteq {"idle", "check", "remove"}
  BY <1>0, <1>6 DEF RemoveWorker, clusterVars, jobVars, Loop
<1>7. ASSUME Tick
      PROVE  /\ UNCHANGED <<jobVars, missed, faults>>
             /\ loop'.pc = loop.pc /\ loop'.job = loop.job /\ loop'.id = loop.id
  BY <1>0, <1>7 DEF Tick, clusterVars, jobVars, Loop
<1>8. ASSUME UNCHANGED vars PROVE UNCHANGED <<jobVars, loop, missed, faults>>
  BY <1>8 DEF vars, clusterVars, jobVars
<1> QED BY <1>0, <1>1, <1>2, <1>3, <1>4, <1>5, <1>6, <1>7, <1>8, JobKept

\* scheduleOneJob takes the job off the queue and checks the load.
LEMMA JobSend ==
  ASSUME JobInv, NEW j \in Jobs, NEW i \in Ids, SendJob(j, i)
  PROVE  JobType' /\ RunInv' /\ LoadInv'
<1>1. /\ loop.pc = "idle" /\ launches < LaunchLimit /\ j \in queue
      /\ Cardinality(loads[i]) < Capacity
      /\ loop'.pc = "launch" /\ loop'.job = j /\ loop'.id = i
      /\ queue' = queue \ {j}
      /\ UNCHANGED <<loads, jobs, running, launches, faults, missed, disowned>>
  BY DEF SendJob
<1>2. JobType'
  BY <1>1 DEF JobInv, JobType
<1>3. RunInv'
  BY <1>1 DEF JobInv, RunInv, Launching, LaunchStored, SoleRun, Listed
<1>4. LoadInv'
  BY <1>1 DEF JobInv, LoadInv, RoomToLaunch, RunsAreLoads, Alive
<1> QED BY <1>2, <1>3, <1>4

\* The worker_app launches the job: nobody lists it.
LEMMA JobLaunch ==
  ASSUME JobInv, LaunchJob
  PROVE  JobType' /\ RunInv' /\ LoadInv'
<1> DEFINE h == owner[loop.id]
           e == [n |-> launches', job |-> loop.job, via |-> loop.id, alive |-> TRUE]
<1>1. /\ loop.pc = "launch" /\ loop \in Loop /\ loop.id \in Ids /\ h \in Hosts
      /\ launches' = launches + 1
      /\ loop'.pc = "launched" /\ loop'.job = loop.job /\ loop'.id = loop.id
      /\ running' = [running EXCEPT ![h] = @ \cup {e}]
      /\ UNCHANGED <<loads, jobs, queue, faults, missed, disowned>>
  BY DEF LaunchJob, JobInv, RegInv, RegType, CopiesKnown, Owned, Loop
<1>2. launches' \in 0..LaunchLimit /\ launches' \in Nat
  <2>1. launches \in 0..LaunchLimit /\ launches < LaunchLimit
    BY <1>1 DEF JobInv, JobType
  <2> QED BY <1>1, <2>1, RegistryAssumption
<1>3. e \in Instance /\ e.job = loop.job /\ e.via = loop.id /\ e.alive
  BY <1>1, <1>2 DEF Instance, Loop
<1> HIDE DEF e, h
<1>4. \A k \in Hosts : \A d \in running'[k] : d \in running[k] \/ (d = e /\ k = h)
  <2>1. running \in [Hosts -> SUBSET Instance]
    BY DEF JobInv, JobType
  <2>2. running'[h] = running[h] \cup {e} /\ \A k \in Hosts \ {h} : running'[k] = running[k]
    BY <1>1, <2>1
  <2> QED BY <2>2
<1>5. JobType'
  <2>1. running' \in [Hosts -> SUBSET Instance]
    BY <1>1, <1>3 DEF JobInv, JobType
  <2> QED BY <1>1, <1>2, <2>1 DEF JobInv, JobType
<1>6. RunInv'
  <2>1. \A j \in queue' : ~Launching(j)' /\ LaunchStored(j)'
    BY <1>1 DEF JobInv, RunInv, Launching, LaunchStored
  <2> SUFFICES ASSUME NEW j \in Jobs, j \notin disowned
               PROVE  /\ SoleRun(j)'
                      /\ Listed(j)' => /\ j \notin queue /\ ~Launching(j)'
                                       /\ LaunchStored(j)' => jobs[j] = "running"
    BY <1>1, <2>1 DEF RunInv
  <2>2. CASE j = loop.job
    <3>1. ~Listed(j)
      BY <1>1, <2>2 DEF JobInv, RunInv, Launching
    <3>2. SoleRun(j)'
      BY <1>4, <3>1 DEF SoleRun, Listed
    <3>3. j \notin queue
      BY <1>1, <2>2 DEF JobInv, RunInv, Launching
    <3> QED BY <1>1, <2>2, <3>2, <3>3 DEF Launching, LaunchStored
  <2>3. CASE j # loop.job
    <3>1. \A k \in Hosts : \A d \in running'[k] : d.job = j => d \in running[k]
      BY <1>3, <1>4, <2>3
    <3>2. SoleRun(j)'
      BY <3>1 DEF SoleRun, JobInv, RunInv
    <3>3. Listed(j)' => Listed(j)
      BY <3>1 DEF Listed
    <3> QED
      BY <1>1, <2>3, <3>2, <3>3 DEF JobInv, RunInv, Launching, LaunchStored
  <2> QED BY <2>2, <2>3
<1>7. LoadInv'
  <2>1. RoomToLaunch'
    BY <1>1 DEF JobInv, LoadInv, RoomToLaunch
  <2>2. RunsAreLoads'
    BY <1>1, <1>3, <1>4 DEF JobInv, LoadInv, RunsAreLoads, Alive
  <2> QED BY <2>1, <2>2 DEF LoadInv
<1> QED BY <1>5, <1>6, <1>7

\* The job is put back when the worker_app does not answer.
LEMMA JobRefused ==
  ASSUME JobInv, LaunchRefused
  PROVE  JobType' /\ RunInv' /\ LoadInv'
<1>1. /\ loop.pc = "launch" /\ loop \in Loop
      /\ loop'.pc = "idle" /\ queue' = queue \cup {loop.job}
      /\ UNCHANGED <<loads, jobs, running, launches, faults, missed, disowned>>
  BY DEF LaunchRefused, Idle, JobInv, RegInv, RegType
<1>2. JobType'
  BY <1>1 DEF JobInv, JobType, Loop
<1>3. RunInv'
  BY <1>1 DEF JobInv, RunInv, Launching, LaunchStored, SoleRun, Listed
<1>4. LoadInv'
  BY <1>1 DEF JobInv, LoadInv, RoomToLaunch, RunsAreLoads, Alive
<1> QED BY <1>2, <1>3, <1>4

\* The launch is stored: the job's record, and its entry in the load.
LEMMA JobAdd ==
  ASSUME JobInv, AddNewJobLoad
  PROVE  JobType' /\ RunInv' /\ LoadInv'
<1> DEFINE i == loop.id
           entry == [n |-> launches, job |-> loop.job]
<1>1. /\ loop.pc = "launched" /\ loop \in Loop /\ i \in Ids
      /\ loop'.pc = "idle"
      /\ jobs' = [jobs EXCEPT ![loop.job] = "running"]
      /\ loads' = [loads EXCEPT ![i] = @ \cup {entry}]
      /\ UNCHANGED <<queue, running, launches, faults, missed, disowned>>
  BY DEF AddNewJobLoad, Idle, JobInv, RegInv, RegType, CopiesKnown
<1>2. entry \in Entry /\ entry.job = loop.job
  BY <1>1, RegistryAssumption DEF JobInv, JobType, Entry, Loop
<1> HIDE DEF entry
<1>3. JobType'
  BY <1>1, <1>2 DEF JobInv, JobType, Loop
<1>4. RunInv'
  <2>1. loop.job \in Jobs
    BY <1>1 DEF Loop
  <2> QED
    BY <1>1, <2>1 DEF JobInv, JobType, RunInv, Launching, LaunchStored, SoleRun, Listed
<1>5. RoomToLaunch'
  <2> SUFFICES ASSUME NEW k \in Ids
               PROVE  IsFiniteSet(loads'[k]) /\ Cardinality(loads'[k]) <= Capacity
    BY <1>1 DEF RoomToLaunch
  <2>1. CASE k = i
    <3>1. loads'[k] = loads[i] \cup {entry}
      BY <1>1, <2>1 DEF JobInv, JobType
    <3>2. IsFiniteSet(loads[i]) /\ Cardinality(loads[i]) < Capacity
      BY <1>1 DEF JobInv, LoadInv, RoomToLaunch
    <3>3. Cardinality(loads[i]) \in Nat /\ Capacity \in Nat
      BY <3>2, FS_CardinalityType, RegistryAssumption
    <3>4. /\ IsFiniteSet(loads[i] \cup {entry})
          /\ Cardinality(loads[i] \cup {entry}) <= Cardinality(loads[i]) + 1
      BY <3>2, OneMore
    <3>5. Cardinality(loads[i] \cup {entry}) \in Nat
      BY <3>4, FS_CardinalityType
    <3> QED BY <3>1, <3>2, <3>3, <3>4, <3>5
  <2>2. CASE k # i
    BY <1>1, <2>2 DEF JobInv, JobType, LoadInv, RoomToLaunch
  <2> QED BY <2>1, <2>2
<1>6. RunsAreLoads'
  <2>1. \A k \in Ids : loads[k] \subseteq loads'[k]
    BY <1>1 DEF JobInv, JobType
  <2>2. entry \in loads'[i]
    BY <1>1 DEF JobInv, JobType
  <2>3. \A h \in Hosts : \A e \in Alive(h) : e.via \in Ids
    BY DEF Alive, JobInv, JobType, Instance
  <2> QED BY <1>1, <1>2, <2>1, <2>2, <2>3 DEF JobInv, LoadInv, RunsAreLoads, Alive
<1> QED BY <1>3, <1>4, <1>5, <1>6 DEF LoadInv

\* A removal marks the jobs of a load as stopped, and those that are listed as
\* disowned.
LEMMA JobStop ==
  ASSUME JobInv, NEW i \in Ids, StopWorkerJobs(i)
  PROVE  JobType' /\ RunInv' /\ LoadInv'
<1> DEFINE its == {l.job : l \in loads[i]}
<1>1. /\ loop.pc = "check" /\ loop \in Loop /\ loop'.pc = "remove"
      /\ jobs' = [j \in Jobs |-> IF j \in its THEN "stopped" ELSE jobs[j]]
      /\ disowned' = disowned \cup {j \in its : Listed(j)}
      /\ UNCHANGED <<loads, queue, running, launches, faults, missed>>
  BY DEF StopWorkerJobs, JobInv, RegInv, RegType, Loop
<1>2. its \subseteq Jobs
  BY DEF JobInv, JobType, Entry
<1> HIDE DEF its
<1>3. JobType'
  BY <1>1, <1>2 DEF JobInv, JobType
<1>4. RunInv'
  <2>1. \A j \in Jobs : Listed(j)' <=> Listed(j)
    BY <1>1 DEF Listed
  <2>2. \A j \in Jobs : SoleRun(j)' <=> SoleRun(j)
    BY <1>1 DEF SoleRun
  <2>3. \A j \in Jobs \ disowned' : Listed(j) => jobs'[j] = jobs[j]
    BY <1>1 DEF JobInv, JobType
  <2>4. \A j \in Jobs : LaunchStored(j) /\ LaunchStored(j)' /\ ~Launching(j)'
    BY <1>1 DEF LaunchStored, Launching
  <2>5. queue' = queue /\ queue \subseteq Jobs /\ disowned \subseteq disowned'
    BY <1>1 DEF JobInv, JobType
  <2> QED BY <2>1, <2>2, <2>3, <2>4, <2>5 DEF JobInv, RunInv
<1>5. LoadInv'
  BY <1>1 DEF JobInv, LoadInv, RoomToLaunch, RunsAreLoads, Alive
<1> QED BY <1>3, <1>4, <1>5

\* A stopped job that is not listed, or is disowned, comes back to the queue.
LEMMA JobResume ==
  ASSUME JobInv, NEW j \in Jobs, ResumeJob(j)
  PROVE  JobType' /\ RunInv' /\ LoadInv'
<1>1. /\ jobs[j] = "stopped" /\ ~Launching(j) /\ LaunchStored(j)
      /\ queue' = queue \cup {j}
      /\ UNCHANGED <<loads, jobs, running, loop, launches, faults, missed, disowned>>
  BY DEF ResumeJob, Launching, LaunchStored
<1>2. JobType'
  BY <1>1 DEF JobInv, JobType
<1>3. RunInv'
  BY <1>1 DEF JobInv, RunInv, Launching, LaunchStored, SoleRun, Listed
<1>4. LoadInv'
  BY <1>1 DEF JobInv, LoadInv, RoomToLaunch, RunsAreLoads, Alive
<1> QED BY <1>2, <1>3, <1>4

\* Steps after which nothing is listed, or runs, that did not before, the end
\* of a transcoder and that of a worker_app.
LEMMA JobEnds ==
  ASSUME JobInv, NEW h \in Hosts,
         Crash(h) \/ \E e \in Alive(h) : Exit(h, e)
  PROVE  JobType' /\ RunInv' /\ LoadInv'
<1>0. running \in [Hosts -> SUBSET Instance]
  BY DEF JobInv, JobType
<1>1. /\ UNCHANGED <<loads, jobs, queue, loop, launches, missed, disowned>>
      /\ faults' \subseteq FaultKinds
  BY RegistryAssumption DEF Crash, Exit, Fail, JobInv, JobType
<1>2. /\ running' \in [Hosts -> SUBSET Instance]
      /\ \A k \in Hosts : Alive(k)' \subseteq Alive(k)
      /\ \A j \in Jobs : Listed(j)' => Listed(j)
      /\ \A j \in Jobs : SoleRun(j) => SoleRun(j)'
  <2>1. CASE Crash(h)
    <3>1. /\ running' \in [Hosts -> SUBSET Instance]
          /\ \A k \in Hosts : running'[k] \subseteq running[k]
      BY <1>0, <2>1 DEF Crash
    <3> QED BY <3>1 DEF Alive, Listed, SoleRun
  <2>2. ASSUME NEW e \in Alive(h), Exit(h, e)
        PROVE  /\ running' \in [Hosts -> SUBSET Instance]
               /\ \A k \in Hosts : Alive(k)' \subseteq Alive(k)
               /\ \A j \in Jobs : Listed(j)' => Listed(j)
               /\ \A j \in Jobs : SoleRun(j) => SoleRun(j)'
    <3> DEFINE dead == [e EXCEPT !.alive = FALSE]
    <3>1. e \in running[h] /\ e \in Instance
      BY <1>0 DEF Alive
    <3>2. dead \in Instance /\ dead.job = e.job /\ ~dead.alive
      BY <3>1 DEF Instance
    <3>3. /\ running' \in [Hosts -> SUBSET Instance]
          /\ running'[h] = (running[h] \ {e}) \cup {dead}
          /\ \A k \in Hosts \ {h} : running'[k] = running[k]
      BY <1>0, <2>2, <3>2 DEF Exit
    <3> HIDE DEF dead
    <3>4. \A k \in Hosts : \A d \in running'[k] :
            \/ d \in running[k] /\ (k = h => d # e)
            \/ d = dead /\ k = h
      BY <3>3
    <3>5. \A k \in Hosts : Alive(k)' \subseteq Alive(k)
      BY <3>2, <3>4 DEF Alive
    <3>6. \A j \in Jobs : Listed(j)' => Listed(j)
      BY <3>1, <3>2, <3>4 DEF Listed
    <3>7. ASSUME NEW j \in Jobs, SoleRun(j) PROVE SoleRun(j)'
      BY <3>1, <3>2, <3>4, <3>7 DEF SoleRun
    <3> QED BY <3>3, <3>5, <3>6, <3>7
  <2> QED BY <2>1, <2>2
<1>3. JobType'
  BY <1>1, <1>2 DEF JobInv, JobType
<1>4. RunInv'
  BY <1>1, <1>2 DEF JobInv, JobType, RunInv, Launching, LaunchStored
<1>5. LoadInv'
  BY <1>1, <1>2 DEF JobInv, LoadInv, RoomToLaunch, RunsAreLoads
<1> QED BY <1>3, <1>4, <1>5

\* A report says "running" of what runs, and takes entries of ended jobs off
\* the load of the worker_app's id.
LEMMA JobReport ==
  ASSUME JobInv, NEW h \in Hosts, JobStatus(h)
  PROVE  JobType' /\ RunInv' /\ LoadInv'
<1> DEFINE ended == running[h] \ Alive(h)
           reads == {e.job : e \in Alive(h)}
           stops == {e.job : e \in ended}
           id == app[h].id
<1>0. running \in [Hosts -> SUBSET Instance]
  BY DEF JobInv, JobType
<1>1. /\ running' = [running EXCEPT ![h] = Alive(h)]
      /\ jobs' = [j \in Jobs |-> IF j \in reads THEN "running"
                                 ELSE IF j \in stops THEN "stopped" ELSE jobs[j]]
      /\ loads' = [i \in Ids |-> IF i = id THEN WithoutEnded(loads[i], ended)
                                 ELSE loads[i]]
      /\ UNCHANGED <<queue, loop, launches, faults, missed, disowned>>
  BY DEF JobStatus
<1>2. /\ \A k \in Hosts : running'[k] \subseteq running[k] /\ Alive(k)' \subseteq Alive(k)
      /\ running'[h] = Alive(h)
      /\ running' \in [Hosts -> SUBSET Instance]
  BY <1>0, <1>1 DEF Alive
<1>3. \A i \in Ids :
        /\ loads'[i] \subseteq loads[i] /\ IsFiniteSet(loads'[i])
        /\ Cardinality(loads'[i]) <= Cardinality(loads[i])
        /\ \A l \in loads[i] : (\A e \in ended : e.job # l.job) => l \in loads'[i]
  <2> SUFFICES ASSUME NEW i \in Ids
               PROVE  /\ loads'[i] \subseteq loads[i] /\ IsFiniteSet(loads'[i])
                      /\ Cardinality(loads'[i]) <= Cardinality(loads[i])
                      /\ \A l \in loads[i] : (\A e \in ended : e.job # l.job)
                           => l \in loads'[i]
    OBVIOUS
  <2>1. IsFiniteSet(loads[i]) /\ Cardinality(loads[i]) \in Nat
    BY FS_CardinalityType DEF JobInv, LoadInv, RoomToLaunch
  <2>2. CASE i = id
    <3>1. loads'[i] = WithoutEnded(loads[i], ended)
      BY <1>1, <2>2
    <3> HIDE DEF ended
    <3> QED BY <2>1, <3>1, EndedOnly
  <2>3. CASE i # id
    BY <1>1, <2>1, <2>3
  <2> QED BY <2>2, <2>3
<1>4. \A j \in Jobs : jobs'[j] \in {"running", "stopped", jobs[j]}
  BY <1>1
<1>5. JobType'
  <2>1. loads' \in [Ids -> SUBSET Entry]
    <3>1. loads' = [i \in Ids |-> loads'[i]]
      BY <1>1
    <3>2. \A i \in Ids : loads'[i] \subseteq Entry
      BY <1>3 DEF JobInv, JobType
    <3> QED BY <3>1, <3>2
  <2>2. jobs' \in [Jobs -> {"created", "running", "stopped"}]
    BY <1>1 DEF JobInv, JobType
  <2> QED BY <1>1, <1>2, <2>1, <2>2 DEF JobInv, JobType
<1>6. RunInv'
  <2>1. \A j \in Jobs : Listed(j)' => Listed(j)
    BY <1>2 DEF Listed
  <2>2. \A j \in Jobs : SoleRun(j) => SoleRun(j)'
    BY <1>2 DEF SoleRun
  <2>3. ASSUME NEW j \in Jobs, j \notin disowned, Listed(j)', jobs[j] = "running"
        PROVE  jobs'[j] = "running"
    <3>1. PICK k \in Hosts : \E e \in running'[k] : e.job = j
      BY <2>3 DEF Listed
    <3>2. PICK e \in running'[k] : e.job = j
      BY <3>1
    <3>3. CASE k = h
      BY <1>1, <1>2, <3>2, <3>3
    <3>4. CASE k # h
      <4>1. j \notin stops
        <5> SUFFICES ASSUME NEW d \in ended, d.job = j PROVE FALSE
          OBVIOUS
        <5>1. d \in running[h] /\ e \in running[k]
          BY <1>2, <3>2
        <5>2. SoleRun(j)
          BY <2>3 DEF JobInv, RunInv
        <5> QED BY <3>2, <3>4, <5>1, <5>2 DEF SoleRun
      <4> QED BY <1>1, <2>3, <4>1
    <3> QED BY <3>3, <3>4
  <2>4. queue \subseteq Jobs
    BY DEF JobInv, JobType
  <2> QED
    BY <1>1, <2>1, <2>2, <2>3, <2>4 DEF JobInv, RunInv, Launching, LaunchStored
<1>7. RoomToLaunch'
  <2> SUFFICES ASSUME NEW i \in Ids
               PROVE  /\ IsFiniteSet(loads'[i]) /\ Cardinality(loads'[i]) <= Capacity
                      /\ loop.pc \in {"launch", "launched"} /\ loop.id = i =>
                           Cardinality(loads'[i]) < Capacity
    BY <1>1 DEF RoomToLaunch
  <2>1. IsFiniteSet(loads'[i]) /\ Cardinality(loads'[i]) <= Cardinality(loads[i])
    BY <1>3
  <2>2. /\ IsFiniteSet(loads[i]) /\ Cardinality(loads[i]) <= Capacity
        /\ loop.pc \in {"launch", "launched"} /\ loop.id = i =>
             Cardinality(loads[i]) < Capacity
    BY DEF JobInv, LoadInv, RoomToLaunch
  <2> QED BY <2>1, <2>2, RoomStays
<1>8. RunsAreLoads'
  <2> SUFFICES ASSUME NEW k \in Hosts, NEW e \in Alive(k), e.job \notin disowned
               PROVE  \/ \E l \in loads'[e.via] : l.job = e.job
                      \/ loop.pc = "launched" /\ loop.id = e.via /\ loop.job = e.job
    BY <1>1, <1>2 DEF RunsAreLoads
  <2>1. e \in running[k] /\ e.alive /\ e.via \in Ids /\ e.job \in Jobs
    BY <1>0 DEF Alive, Instance
  <2>2. ASSUME NEW l \in loads[e.via], l.job = e.job PROVE l \in loads'[e.via]
    <3>1. \A d \in ended : d.job # l.job
      <4> SUFFICES ASSUME NEW d \in ended, d.job = e.job PROVE FALSE
        BY <2>2
      <4>1. d \in running[h] /\ ~d.alive
        BY DEF Alive
      <4>2. SoleRun(e.job)
        BY <2>1 DEF JobInv, RunInv
      <4> QED BY <2>1, <4>1, <4>2 DEF SoleRun
    <3> QED BY <1>3, <2>1, <3>1
  <2> QED BY <2>2 DEF JobInv, LoadInv, RunsAreLoads
<1> QED BY <1>5, <1>6, <1>7, <1>8 DEF LoadInv

-----------------------------------------------------------------------------
\* The whole invariant is inductive ...
LEMMA JobNext == JobInv /\ [Next]_vars => JobInv'
<1> SUFFICES ASSUME JobInv, [Next]_vars PROVE JobInv'
  OBVIOUS
<1>1. RegInv'
  BY RegNext DEF JobInv
<1>2. JobType' /\ RunInv' /\ LoadInv'
  BY JobOther, JobSend, JobLaunch, JobRefused, JobAdd, JobStop, JobResume,
     JobEnds, JobReport
  DEF Next, LoopStep
<1> QED BY <1>1, <1>2 DEF JobInv

\* ... and holds.
LEMMA JobInvariant == Spec => []JobInv
  BY JobInit, JobNext, PTL DEF Spec

\* Every variable has its type, the copies that the goroutine holds being of
\* workers that are known (check_worker_heartbeat, removeWorker).
THEOREM TypeCorrect == Spec => []TypeOK
<1>1. JobInv => TypeOK
  BY DEF JobInv, RegInv, RegType, CopiesKnown, JobType, TypeOK
<1> QED BY <1>1, JobInvariant, PTL

\* Two processes that run a job mean that a removal marked it as stopped while a
\* worker_app had it: nothing else lets a client resume a job that runs
\* (stopWorkerJobs, updateWorkerLoad and the handlers of the API server).
THEOREM TwiceOnlyDisownedHolds == Spec => []TwiceOnlyDisowned
<1>1. ASSUME JobInv PROVE TwiceOnlyDisowned
  <2> SUFFICES ASSUME NEW j \in Jobs \ disowned
               PROVE  Cardinality(UNION {{e \in Alive(h) : e.job = j} : h \in Hosts}) <= 1
    BY DEF TwiceOnlyDisowned
  <2> DEFINE its == UNION {{e \in Alive(h) : e.job = j} : h \in Hosts}
  <2>1. ASSUME NEW d \in its, NEW e \in its PROVE d = e
    <3>1. PICK h \in Hosts : d \in running[h] /\ d.job = j
      BY DEF Alive
    <3>2. PICK k \in Hosts : e \in running[k] /\ e.job = j
      BY DEF Alive
    <3> QED BY <1>1, <3>1, <3>2 DEF JobInv, RunInv, SoleRun
  <2> HIDE DEF its
  <2>2. CASE its = {}
    BY <2>2, FS_EmptySet DEF its
  <2>3. ASSUME NEW e \in its PROVE Cardinality(its) <= 1
    <3>1. its = {e}
      BY <2>1
    <3>2. Cardinality({e}) = 1
      BY FS_Singleton
    <3> QED BY <3>1, <3>2
  <2> QED BY <2>2, <2>3 DEF its
<1> QED BY <1>1, JobInvariant, PTL

\* No worker runs more jobs than fit it, although its load is checked before a
\* launch and stored after it: what runs under an id has one entry for each job
\* in the load of the id, unless a disowned job is among it (scheduleOneJob,
\* addNewJobLoad, updateWorkerLoad).
THEOREM WithinCapacityHolds == Spec => []WithinCapacity
<1>1. ASSUME JobInv PROVE WithinCapacity
  <2> SUFFICES ASSUME NEW i \in Ids, \A e \in JobsOn(i) : e.job \notin disowned
               PROVE  ~(Cardinality(JobsOn(i)) > Capacity)
    BY DEF WithinCapacity
  <2> DEFINE next == loop.pc = "launched" /\ loop.id = i
             extra == [n |-> launches, job |-> loop.job]
             S == IF next THEN loads[i] \cup {extra} ELSE loads[i]
             f == [e \in JobsOn(i) |-> CHOOSE l \in S : l.job = e.job]
  <2>1. IsFiniteSet(S) /\ Cardinality(S) <= Capacity
    <3>1. /\ IsFiniteSet(loads[i]) /\ Cardinality(loads[i]) <= Capacity
          /\ next => Cardinality(loads[i]) < Capacity
      BY <1>1 DEF JobInv, LoadInv, RoomToLaunch
    <3>2. Cardinality(loads[i]) \in Nat /\ Capacity \in Nat
      BY <3>1, FS_CardinalityType, RegistryAssumption
    <3>3. CASE next
      <4>1. S = loads[i] \cup {extra}
        BY <3>3
      <4> HIDE DEF extra, S
      <4>2. IsFiniteSet(S) /\ Cardinality(S) <= Cardinality(loads[i]) + 1
        BY <3>1, <4>1, OneMore
      <4>3. Cardinality(S) \in Nat
        BY <4>2, FS_CardinalityType
      <4> QED BY <3>1, <3>2, <3>3, <4>2, <4>3
    <3>4. CASE ~next
      BY <3>1, <3>4
    <3> QED BY <3>3, <3>4
  <2>2. \A e \in JobsOn(i) : \E l \in S : l.job = e.job
    <3> SUFFICES ASSUME NEW e \in JobsOn(i) PROVE \E l \in S : l.job = e.job
      OBVIOUS
    <3>1. PICK h \in Hosts : e \in Alive(h) /\ e.via = i
      BY DEF JobsOn
    <3>2. \/ \E l \in loads[i] : l.job = e.job
          \/ next /\ loop.job = e.job
      BY <1>1, <3>1 DEF JobInv, LoadInv, RunsAreLoads
    <3>3. extra.job = loop.job
      OBVIOUS
    <3> HIDE DEF extra
    <3> QED BY <3>2, <3>3
  <2>3. \A d, e \in JobsOn(i) : d.job = e.job => d = e
    <3> SUFFICES ASSUME NEW d \in JobsOn(i), NEW e \in JobsOn(i), d.job = e.job
                 PROVE  d = e
      OBVIOUS
    <3>1. PICK h \in Hosts : d \in running[h]
      BY DEF JobsOn, Alive
    <3>2. PICK k \in Hosts : e \in running[k]
      BY DEF JobsOn, Alive
    <3>3. d.job \in Jobs \ disowned
      BY <1>1, <3>1 DEF JobInv, JobType, Instance
    <3> QED BY <1>1, <3>1, <3>2, <3>3 DEF JobInv, RunInv, SoleRun
  <2> HIDE DEF S
  <2>4. f \in [JobsOn(i) -> S] /\ \A e \in JobsOn(i) : f[e].job = e.job
    BY <2>2
  <2> HIDE DEF f
  <2>5. f \in Injection(JobsOn(i), S)
    BY <2>3, <2>4 DEF Injection, IsInjective
  <2>6. IsFiniteSet(JobsOn(i)) /\ Cardinality(JobsOn(i)) <= Cardinality(S)
    BY <2>1, <2>5, FS_Injection
  <2>7. Cardinality(S) \in Nat /\ Cardinality(JobsOn(i)) \in Nat /\ Capacity \in Nat
    BY <2>1, <2>6, FS_CardinalityType, RegistryAssumption
  <2> QED BY <2>1, <2>6, <2>7
<1> QED BY <1>1, JobInvariant, PTL
=============================================================================
