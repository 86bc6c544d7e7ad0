--------------------------- MODULE WorkerRegistry ---------------------------
(***************************************************************************)
(* How the scheduler knows its workers: registration, heartbeats, and the  *)
(* removal of workers that are silent.  A worker_app keeps the id it got   *)
(* until it ends; the handlers of its requests and the scheduler's ticker  *)
(* goroutine each read a worker's record and write it back later.          *)
(*                                                                         *)
(* Time is the age of each timestamp in heartbeat intervals.  A worker's   *)
(* State is left out: idle and loaded are equally available, and no other  *)
(* state is ever stored.  ControlPlane has the requests and reports step   *)
(* by step, and the stop of a job.                                         *)
(***************************************************************************)
EXTENDS Integers, FiniteSets

CONSTANTS
  Hosts,         \* where worker_apps run, by ServerIp
  Jobs,
  NoHost,
  RemovalLimit,  \* max_missing_heartbeats_before_removal
  Capacity,      \* how many jobs fit a worker
  Behind,        \* by how much the clock of a host lags the scheduler's
  IdLimit,       \* bound: registrations
  LaunchLimit,   \* bound: launches
  Faults,        \* the kinds of failure that happen, each once ...
  FaultLimit     \* bound: ... and how many of them

FaultKinds == {"registration",  \* the answer to a registration is lost
               "crash",         \* worker_app and its processes end
               "exit"}          \* a transcoder ends

ASSUME RegistryAssumption ==
  /\ RemovalLimit \in Nat /\ Capacity \in Nat
  /\ Behind \in [Hosts -> Nat]
  /\ IdLimit \in Nat /\ LaunchLimit \in Nat /\ FaultLimit \in Nat
  /\ Faults \subseteq FaultKinds
  /\ NoHost \notin Hosts /\ Jobs # {}

Ids == 1..IdLimit
NoId == 0

VARIABLES
  owner,    \* Info.ServerIp of each id
  workers,  \* Redis hash "workers": its ids ...
  age,      \* ... and the age of their LastHeartbeatTime
  loads,    \* Redis hash "worker_loads": Jobs of each id, oldest first by n
  jobs,     \* Redis hash "jobs"
  queue,    \* Redis list "queued_jobs", launches only
  app,      \* the worker_app of each host
  running,  \* its running_jobs
  beat,     \* its heartbeat, once the handler has read the record
  loop,     \* the scheduler's ticker goroutine
  launches, \* bound: how many there were
  faults,   \* bound: the kinds that happened
  heard,    \* log: the age of the last heartbeat stored, by the sender's clock
  missed,   \* log: ids whose last heartbeat found the goroutine with a copy
  disowned  \* log: jobs marked as stopped by a removal, a worker_app having them

clusterVars == <<owner, jobs, loads, queue, app, running, launches, faults,
                 disowned>>
vars == <<clusterVars, workers, age, beat, loop, heard, missed>>

-----------------------------------------------------------------------------
Ages == 0..(RemovalLimit + 1)

\* An age is exact up to the limit.
Capped(a) == IF a > RemovalLimit THEN RemovalLimit + 1 ELSE a
Older(a) == Capped(a + 1)

\* One worker_transcoder: the n-th launch, of a job, sent to the id via.
Instance == [n : Nat, job : Jobs, via : Ids, alive : BOOLEAN]

\* The entry of a job in a load; n tells those of several launches apart.
Entry == [n : Nat, job : Jobs]

Beat == [id : Ids \cup {NoId}, age : Ages]
NoBeat == [id |-> NoId, age |-> 0]

\* held: the ids whose records the goroutine has read; seen: the age in each.
Loop == [pc : {"idle", "launch", "launched", "check", "remove"},
         id : Ids \cup {NoId}, job : Jobs, held : SUBSET Ids,
         seen : [Ids -> Ages]]
Idle == [pc |-> "idle", id |-> NoId, job |-> CHOOSE j \in Jobs : TRUE,
         held |-> {}, seen |-> [i \in Ids |-> 0]]

\* With the types: only the goroutine removes records, so the copies it has are
\* of workers that are still known.
TypeOK ==
  /\ owner \in [Ids -> Hosts \cup {NoHost}]
  /\ workers \subseteq Ids
  /\ age \in [Ids -> Ages]
  /\ loads \in [Ids -> SUBSET Entry]
  /\ jobs \in [Jobs -> {"created", "running", "stopped"}]
  /\ queue \subseteq Jobs
  /\ app \in [Hosts -> [up : BOOLEAN, id : Ids \cup {NoId}]]
  /\ running \in [Hosts -> SUBSET Instance]
  /\ beat \in [Hosts -> Beat]
  /\ loop \in Loop /\ loop.held \subseteq workers
  /\ launches \in 0..LaunchLimit
  /\ faults \subseteq FaultKinds
  /\ heard \in [Ids -> Ages]
  /\ missed \subseteq Ids
  /\ disowned \subseteq Jobs

Init ==
  /\ owner = [i \in Ids |-> NoHost]
  /\ workers = {}
  /\ age = [i \in Ids |-> 0]
  /\ loads = [i \in Ids |-> {}]
  /\ jobs = [j \in Jobs |-> "created"]
  /\ queue = Jobs
  /\ app = [h \in Hosts |-> [up |-> TRUE, id |-> NoId]]
  /\ running = [h \in Hosts |-> {}]
  /\ beat = [h \in Hosts |-> NoBeat]
  /\ loop = Idle
  /\ launches = 0
  /\ faults = {}
  /\ heard = [i \in Ids |-> 0]
  /\ missed = {}
  /\ disowned = {}

Fail(kind) ==
  /\ kind \in Faults \ faults
  /\ Cardinality(faults) < FaultLimit
  /\ faults' = faults \cup {kind}

\* Redis HSET of a worker's record.
StoreWorker(i, a) ==
  /\ workers' = workers \cup {i}
  /\ age' = [age EXCEPT ![i] = a]

-----------------------------------------------------------------------------
(***************************************************************************)
(* The heartbeat ticker of a worker_app: it registers until it has an id,  *)
(* and sends heartbeats from then on.  It waits for each answer.           *)
(***************************************************************************)
Fresh(i) == \A k \in Ids : owner[k] = NoHost <=> k >= i

CreateWorker(h, i) ==
  /\ app[h].up /\ app[h].id = NoId /\ beat[h] = NoBeat
  /\ Fresh(i)
  /\ owner' = [owner EXCEPT ![i] = h]
  /\ StoreWorker(i, 0)
  /\ heard' = [heard EXCEPT ![i] = 0]
  /\ UNCHANGED <<loads, jobs, queue, running, beat, loop, launches, missed,
                 disowned>>

Register(h) ==
  \E i \in Ids :
    /\ CreateWorker(h, i)
    /\ app' = [app EXCEPT ![h].id = i]
    /\ UNCHANGED faults

\* The answer is lost: the ticker finds no id and registers once more.
RegistrationLost(h) ==
  /\ \E i \in Ids : CreateWorker(h, i)
  /\ Fail("registration")
  /\ UNCHANGED app

\* Mutant: an unknown worker is entered again.
SendHeartbeatAnew(h) ==
  /\ app[h].up /\ app[h].id # NoId /\ beat[h] = NoBeat
  /\ beat' = [beat EXCEPT ![h].id = app[h].id]
  /\ UNCHANGED <<clusterVars, workers, age, loop, heard, missed>>

\* An unknown id is answered 500, which the worker ignores.
SendHeartbeat(h) ==
  /\ app[h].up /\ app[h].id \in workers /\ beat[h] = NoBeat
  /\ beat' = [beat EXCEPT ![h].id = app[h].id]
  /\ UNCHANGED <<clusterVars, workers, age, loop, heard, missed>>

\* Mutant: the time is set on the copy only.
HeartbeatWriteUnstored(h) ==
  /\ beat[h] # NoBeat
  /\ heard' = [heard EXCEPT ![beat[h].id] = beat[h].age]
  /\ missed' = IF beat[h].id \in loop.held THEN missed \cup {beat[h].id}
               ELSE missed \ {beat[h].id}
  /\ beat' = [beat EXCEPT ![h] = NoBeat]
  /\ UNCHANGED <<clusterVars, workers, age, loop>>

HeartbeatWrite(h) ==
  /\ beat[h] # NoBeat
  /\ StoreWorker(beat[h].id, Capped(beat[h].age + Behind[h]))
  /\ heard' = [heard EXCEPT ![beat[h].id] = beat[h].age]
  /\ missed' = IF beat[h].id \in loop.held THEN missed \cup {beat[h].id}
               ELSE missed \ {beat[h].id}
  /\ beat' = [beat EXCEPT ![h] = NoBeat]
  /\ UNCHANGED <<clusterVars, loop>>

-----------------------------------------------------------------------------
(***************************************************************************)
(* scheduleOneJob, for a launch.  The record read before it is written     *)
(* back after it.                                                          *)
(***************************************************************************)
Copies(ids) == [i \in Ids |-> IF i \in ids THEN age[i] ELSE 0]

\* Mutant: the capacity is not checked.
SendJobAnywhere(j, i) ==
  /\ loop.pc = "idle" /\ launches < LaunchLimit
  /\ j \in queue /\ i \in workers
  /\ queue' = queue \ {j}
  /\ loop' = [pc |-> "launch", id |-> i, job |-> j, held |-> {i},
              seen |-> Copies({i})]
  /\ UNCHANGED <<owner, workers, age, loads, jobs, app, running, beat, launches,
                 faults, heard, missed, disowned>>

SendJob(j, i) ==
  /\ loop.pc = "idle" /\ launches < LaunchLimit
  /\ j \in queue /\ i \in workers /\ Cardinality(loads[i]) < Capacity
  /\ queue' = queue \ {j}
  /\ loop' = [pc |-> "launch", id |-> i, job |-> j, held |-> {i},
              seen |-> Copies({i})]
  /\ UNCHANGED <<owner, workers, age, loads, jobs, app, running, beat, launches,
                 faults, heard, missed, disowned>>

\* Whichever worker_app is at the address of the id launches the job.
LaunchJob ==
  LET h == owner[loop.id] IN
  /\ loop.pc = "launch" /\ app[h].up
  /\ launches' = launches + 1
  /\ running' = [running EXCEPT ![h] = @ \cup
                   {[n |-> launches', job |-> loop.job, via |-> loop.id,
                     alive |-> TRUE]}]
  /\ loop' = [loop EXCEPT !.pc = "launched"]
  /\ UNCHANGED <<owner, workers, age, loads, jobs, queue, app, beat, faults, heard,
                 missed, disowned>>

LaunchRefused ==
  /\ loop.pc = "launch" /\ ~app[owner[loop.id]].up
  /\ queue' = queue \cup {loop.job}
  /\ loop' = Idle
  /\ UNCHANGED <<owner, workers, age, loads, jobs, app, running, beat, launches,
                 faults, heard, missed, disowned>>

AddNewJobLoad ==
  /\ loop.pc = "launched"
  /\ jobs' = [jobs EXCEPT ![loop.job] = "running"]
  /\ loads' = [loads EXCEPT ![loop.id] = @ \cup {[n |-> launches, job |-> loop.job]}]
  /\ StoreWorker(loop.id, loop.seen[loop.id])
  /\ loop' = Idle
  /\ UNCHANGED <<owner, queue, app, running, beat, launches, faults, heard,
                 missed, disowned>>

(***************************************************************************)
(* check_worker_heartbeat: all records are read, then judged one by one.   *)
(* The state "notavailable" is set on a copy that is not stored.           *)
(***************************************************************************)
CheckWorkerHeartbeat ==
  /\ loop.pc = "idle"
  /\ workers # {}
  /\ loop' = [Idle EXCEPT !.pc = "check", !.held = workers,
                          !.seen = Copies(workers)]
  /\ UNCHANGED <<clusterVars, workers, age, beat, heard, missed>>

KeepWorker(i) ==
  /\ loop.pc = "check" /\ i \in loop.held
  /\ loop.seen[i] <= RemovalLimit
  /\ loop' = [loop EXCEPT !.held = @ \ {i}, !.seen[i] = 0]
  /\ UNCHANGED <<clusterVars, workers, age, beat, heard, missed>>

Alive(h) == {e \in running[h] : e.alive}
Listed(j) == \E h \in Hosts : \E e \in running[h] : e.job = j

\* Mutant: a worker without a load is an error, and is not removed.
StopWorkerJobsIfLoaded(i) ==
  /\ loop.pc = "check" /\ i \in loop.held
  /\ loop.seen[i] > RemovalLimit /\ loads[i] # {}
  /\ loop' = [loop EXCEPT !.pc = "remove", !.id = i]
  /\ UNCHANGED <<clusterVars, workers, age, beat, heard, missed>>

\* Mutant: the jobs are not marked.
StopWorkerJobsUnmarked(i) ==
  /\ loop.pc = "check" /\ i \in loop.held
  /\ loop.seen[i] > RemovalLimit
  /\ loop' = [loop EXCEPT !.pc = "remove", !.id = i]
  /\ UNCHANGED <<clusterVars, workers, age, beat, heard, missed>>

StopWorkerJobs(i) ==
  LET its == {l.job : l \in loads[i]} IN
  /\ loop.pc = "check" /\ i \in loop.held
  /\ loop.seen[i] > RemovalLimit
  /\ jobs' = [j \in Jobs |-> IF j \in its THEN "stopped" ELSE jobs[j]]
  /\ disowned' = disowned \cup {j \in its : Listed(j)}
  /\ loop' = [loop EXCEPT !.pc = "remove", !.id = i]
  /\ UNCHANGED <<owner, workers, age, loads, queue, app, running, beat, launches,
                 faults, heard, missed>>

\* Mutant: the check goes on with the worker it has removed.
RemoveWorkerKept ==
  /\ loop.pc = "remove"
  /\ workers' = workers \ {loop.id}
  /\ age' = [age EXCEPT ![loop.id] = 0]
  /\ loop' = [loop EXCEPT !.pc = "check", !.id = NoId]
  /\ UNCHANGED <<clusterVars, beat, heard, missed>>

RemoveWorker ==
  /\ loop.pc = "remove"
  /\ workers' = workers \ {loop.id}
  /\ age' = [age EXCEPT ![loop.id] = 0]
  /\ loop' = [loop EXCEPT !.pc = "check", !.id = NoId,
                          !.held = @ \ {loop.id}, !.seen[loop.id] = 0]
  /\ UNCHANGED <<clusterVars, beat, heard, missed>>

CheckOver ==
  /\ loop.pc = "check" /\ loop.held = {}
  /\ loop' = Idle
  /\ UNCHANGED <<clusterVars, workers, age, beat, heard, missed>>

-----------------------------------------------------------------------------
(***************************************************************************)
(* Jobs: a transcoder ends, the next report says so, and a stopped job is  *)
(* resumed, by a client that waits for the launch before it asks again.    *)
(***************************************************************************)
Exit(h, e) ==
  /\ e \in Alive(h)
  /\ Fail("exit")
  /\ running' = [running EXCEPT ![h] = (@ \ {e}) \cup {[e EXCEPT !.alive = FALSE]}]
  /\ UNCHANGED <<owner, workers, age, loads, jobs, queue, app, beat, loop, launches,
                 heard, missed, disowned>>

\* updateWorkerLoad for each job that has ended: the first entry of the job
\* goes, and nothing if the load has none of it.
WithoutEnded(load, ended) ==
  {l \in load : Cardinality({m \in load : m.job = l.job /\ m.n < l.n})
                  >= Cardinality({e \in ended : e.job = l.job})}

\* checkJobStatus and the handler of its report, under the id the worker has.
JobStatus(h) ==
  LET ended == running[h] \ Alive(h)
      reads == {e.job : e \in Alive(h)}
      stops == {e.job : e \in ended} IN
  /\ app[h].up /\ running[h] # {}
  /\ running' = [running EXCEPT ![h] = Alive(h)]
  /\ jobs' = [j \in Jobs |->
       IF j \in reads THEN "running"
       ELSE IF j \in stops THEN "stopped" ELSE jobs[j]]
  /\ loads' = [i \in Ids |->
       IF i = app[h].id THEN WithoutEnded(loads[i], ended) ELSE loads[i]]
  /\ UNCHANGED <<owner, workers, age, queue, app, beat, loop, launches, faults,
                 heard, missed, disowned>>

\* Mutant: the state of the job is not checked.
ResumeRunning(j) ==
  /\ jobs[j] # "created"
  /\ j \notin queue
  /\ loop.pc \in {"launch", "launched"} => loop.job # j
  /\ queue' = queue \cup {j}
  /\ UNCHANGED <<owner, workers, age, loads, jobs, app, running, beat, loop,
                 launches, faults, heard, missed, disowned>>

ResumeJob(j) ==
  /\ jobs[j] = "stopped"
  /\ j \notin queue
  /\ loop.pc \in {"launch", "launched"} => loop.job # j
  /\ queue' = queue \cup {j}
  /\ UNCHANGED <<owner, workers, age, loads, jobs, app, running, beat, loop,
                 launches, faults, heard, missed, disowned>>

(***************************************************************************)
(* worker_app ends with its container, and is started again.  A request of *)
(* it that is being served outlives it.                                    *)
(***************************************************************************)
Crash(h) ==
  /\ app[h].up
  /\ Fail("crash")
  /\ app' = [app EXCEPT ![h] = [up |-> FALSE, id |-> NoId]]
  /\ running' = [running EXCEPT ![h] = {}]
  /\ UNCHANGED <<owner, workers, age, loads, jobs, queue, beat, loop, launches,
                 heard, missed, disowned>>

Restart(h) ==
  /\ ~app[h].up /\ beat[h] = NoBeat
  /\ app' = [app EXCEPT ![h].up = TRUE]
  /\ UNCHANGED <<owner, workers, age, loads, jobs, queue, running, beat, loop,
                 launches, faults, heard, missed, disowned>>

Tick ==
  /\ age' = [i \in Ids |-> IF i \in workers THEN Older(age[i]) ELSE age[i]]
  /\ beat' = [h \in Hosts |-> IF beat[h] = NoBeat THEN NoBeat
                              ELSE [beat[h] EXCEPT !.age = Older(@)]]
  /\ loop' = [loop EXCEPT !.seen = [i \in Ids |-> IF i \in loop.held
                                                  THEN Older(@[i]) ELSE @[i]]]
  /\ heard' = [i \in Ids |-> IF i \in workers THEN Older(heard[i]) ELSE heard[i]]
  /\ UNCHANGED <<clusterVars, workers, missed>>

-----------------------------------------------------------------------------
LoopStep ==
  \/ LaunchJob \/ LaunchRefused \/ AddNewJobLoad
  \/ \E i \in Ids : KeepWorker(i) \/ StopWorkerJobs(i)
  \/ RemoveWorker \/ CheckOver

Next ==
  \/ \E h \in Hosts :
       \/ Register(h) \/ RegistrationLost(h)
       \/ SendHeartbeat(h) \/ HeartbeatWrite(h)
       \/ JobStatus(h) \/ Crash(h) \/ Restart(h)
       \/ \E e \in Alive(h) : Exit(h, e)
  \/ \E j \in Jobs : ResumeJob(j) \/ \E i \in Ids : SendJob(j, i)
  \/ CheckWorkerHeartbeat
  \/ LoopStep
  \/ Tick

Spec == Init /\ [][Next]_vars

\* Time passes, the scheduler's handlers return, and its goroutine comes to
\* the check on every 25th tick.
FairSpec ==
  /\ Spec
  /\ WF_vars(Tick) /\ WF_vars(LoopStep) /\ SF_vars(CheckWorkerHeartbeat)
  /\ \A h \in Hosts : WF_vars(HeartbeatWrite(h)) /\ WF_vars(JobStatus(h))

-----------------------------------------------------------------------------
\* A worker is removed when it has been silent for longer than the limit, its
\* clock's lag counted as silence (check_worker_heartbeat), with one exception:
\* a heartbeat stored while the goroutine launches on the worker, or checks
\* the workers, is undone by the launch or not seen by the check.
PurgedWasSilent ==
  [][\A i \in Ids : i \in workers /\ i \notin workers' =>
       i \in missed \/ heard[i] + Behind[owner[i]] > RemovalLimit]_vars

Lost(h) ==
  app[h].up /\ app[h].id \notin {NoId} \cup workers /\ beat[h] = NoBeat

\* A worker_app whose id was removed stays unknown to the scheduler until it
\* ends, although it runs and sends heartbeats: it keeps its id, so that it does
\* not register again, and the end of a launch brings no record back.
LostUntilRestart ==
  [][\A h \in Hosts : Lost(h) => Lost(h)' \/ ~app'[h].up]_vars

JobsOn(i) == UNION {{e \in Alive(h) : e.via = i} : h \in Hosts}

\* No more jobs run on an id than fit a worker: the capacity is checked before
\* the launch, the load is added after it, taken off by the reports, and kept
\* when the worker is removed.  Not so with a disowned job: the report of its
\* old process may take off the load of its new one.
WithinCapacity ==
  \A i \in Ids :
    Cardinality(JobsOn(i)) > Capacity => \E e \in JobsOn(i) : e.job \in disowned

\* A job runs twice only if a removal marked it as stopped while a worker_app
\* had it (stopWorkerJobs does not stop it): otherwise the record of a running
\* job never permits a resume.
TwiceOnlyDisowned ==
  \A j \in Jobs \ disowned :
    Cardinality(UNION {{e \in Alive(h) : e.job = j} : h \in Hosts}) <= 1

Unclaimed(i) ==
  /\ owner[i] # NoHost
  /\ \A h \in Hosts : app[h].id # i

\* The id of a worker_app that has ended, and an id whose answer was lost, is
\* removed in the end and for good, whatever is launched on it meanwhile.
UnclaimedGoes == \A i \in Ids : Unclaimed(i) ~> [](i \notin workers)

\* A job whose process ended with its worker_app does not stay recorded as
\* running: the removal of the worker, which goes by its load, finds it.  A
\* report between stopWorkerJobs and removeWorker undoes that for a disowned one.
Orphan(j) ==
  /\ jobs[j] = "running" /\ ~Listed(j) /\ j \notin disowned
  /\ \E i \in workers : Unclaimed(i) /\ \E l \in loads[i] : l.job = j

OrphanStops ==
  \A j \in Jobs : Orphan(j) ~> (jobs[j] # "running" \/ Listed(j))
=============================================================================
