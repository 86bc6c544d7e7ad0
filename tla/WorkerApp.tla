----------------------------- MODULE WorkerApp -----------------------------
(***************************************************************************)
(* Inside one worker_app: the pool of RTMP ports, the table of jobs, the   *)
(* list of transcoder processes, and the three goroutines that share them  *)
(* without a lock: the request handler, the status check and the readings. *)
(* WorkerNode has the same worker as the scheduler sees it.                *)
(***************************************************************************)
EXTENDS StreamCommands

CONSTANTS
  Jobs,
  RtmpPorts,      \* the pool, as a sequence
  Faults,         \* the kinds of failure that occur
  FaultLimit      \* bound: how many of them

UdpPortBase == 10001  \* WorkerUdpPortBase

FaultKinds == {"post", "keystore", "lost", "garbled", "get", "write", "send",
               "upload", "spawn", "early", "exit", "crash", "readings"}

ASSUME WorkerAppAssumption ==
  /\ RtmpPorts \in Seq(Nat \ {0})
  /\ \A m, n \in DOMAIN RtmpPorts : RtmpPorts[m] = RtmpPorts[n] => m = n
  /\ FaultLimit \in Nat
  /\ Faults \subseteq FaultKinds

VARIABLES
  alive,    \* worker_app runs
  pool,     \* available_rtmp_ports
  table,    \* jobs: RtmpIngestPort of each record, NoRecord if there is none
  entries,  \* running_jobs: the processes listed, oldest first as they are numbered
  proc,     \* the worker_transcoder processes started, in order
  known,    \* RtmpIngestPort of the job records the scheduler sends
  faults

appVars == <<alive, pool, table, entries, proc, known>>

NoRecord == -1
ListedPorts == {RtmpPorts[i] : i \in DOMAIN RtmpPorts}
States == {"starting", "unstarted", "up", "signalled", "gone"}
Stages == {"begin", "packager", "keyed", "ffmpeg", "serving"}

\* fresh, counted, seen, released and crashed are logs: the port came from the
\* pool; the ports launchJob counts for the process; the list it was added to;
\* how often a stop has returned its port; it has ended by a crash.
Process == [job : Jobs, state : States, stage : Stages,
            children : SUBSET {"packager", "ffmpeg"},
            port : ListedPorts \cup {0}, base : Nat, key : Nat,
            fresh : BOOLEAN, counted : Nat, seen : SUBSET Nat,
            released : Nat, crashed : BOOLEAN]

AppTypeOK ==
  /\ alive \in BOOLEAN
  /\ pool \in Seq(ListedPorts \cup {0})
  /\ table \in [Jobs -> ListedPorts \cup {0, NoRecord}]
  /\ entries \subseteq DOMAIN proc
  /\ \A i \in DOMAIN proc : proc[i] \in Process
  /\ known \in [Jobs -> ListedPorts \cup {0}]
  /\ faults \in 0..FaultLimit

AppInit ==
  /\ alive = TRUE
  /\ pool = RtmpPorts
  /\ table = [j \in Jobs |-> NoRecord]
  /\ entries = {}
  /\ proc = <<>>
  /\ known = [j \in Jobs |-> 0]
  /\ faults = 0

Fail(kind) ==
  /\ kind \in Faults /\ faults < FaultLimit
  /\ faults' = faults + 1

SetState(i, state) == proc' = [proc EXCEPT ![i].state = state]

(***************************************************************************)
(* POST /jobs: createIngestUrl, then launchJob up to its wait of 100 ms.   *)
(* Without a free port the record keeps the one it came with.              *)
(***************************************************************************)
\* The outputs asked for by the jobs of these processes, and total_outputs.
OutputsOf(listed) == UNION {{i} \X (1..proc[i].counted) : i \in listed}
Counted == Cardinality(OutputsOf(entries))

\* Mutant: an empty pool's -1 gets into the record.
PortUnchecked(j) == IF pool = <<>> THEN NoRecord ELSE Head(pool)

PortFor(j) == IF pool = <<>> THEN known[j] ELSE Head(pool)

\* Mutant: the port stays in the pool.
PoolUntouched == pool

PoolAfterAllocation == IF pool = <<>> THEN pool ELSE Tail(pool)

\* key is the id of the record's key, 0 if it has none; outputs is the number
\* of outputs in its specification.
LaunchProcess(j, outputs, key) ==
  /\ alive
  /\ \A i \in DOMAIN proc : proc[i].state # "starting"
  /\ pool' = PoolAfterAllocation
  /\ table' = [table EXCEPT ![j] = PortFor(j)]
  /\ proc' = Append(proc,
       [job |-> j, state |-> "starting", stage |-> "begin", children |-> {},
        port |-> PortFor(j), base |-> UdpPortBase + Counted, key |-> key,
        fresh |-> pool # <<>>, counted |-> outputs, seen |-> entries,
        released |-> 0, crashed |-> FALSE])
  /\ entries' = entries \cup {Len(proc) + 1}
  /\ UNCHANGED <<alive, known>>

\* The process runs when the wait is over: 201 with the record.
LaunchSucceeds(i) ==
  /\ proc[i].state = "starting"
  /\ SetState(i, "up")
  /\ known' = [known EXCEPT ![proc[i].job] = table[proc[i].job]]
  /\ UNCHANGED <<alive, pool, table, entries, faults>>

\* exec fails (Command.Process stays nil), or the process has ended already:
\* 500.  The port is not returned.
LaunchFails(i) ==
  /\ proc[i].state = "starting"
  /\ \/ Fail("spawn") /\ SetState(i, "unstarted")
     \/ Fail("early") /\ SetState(i, "gone")
  /\ table' = [table EXCEPT ![proc[i].job] = NoRecord]
  /\ UNCHANGED <<alive, pool, entries, known>>

(***************************************************************************)
(* PUT /jobs/[id]/stop: the first entry of the job is signalled.  The      *)
(* other outcomes of stopJob (404, 500, a recovered panic) change nothing. *)
(* Before worker_transcoder has installed its handler the signal ends it   *)
(* at once and leaves its children behind.                                 *)
(***************************************************************************)
FirstEntry(j) ==
  LET own == {i \in entries : proc[i].job = j} IN
  IF own = {} THEN 0 ELSE Min(own)

Signalled(p) ==
  [p EXCEPT !.state = IF p.stage = "serving" THEN "signalled" ELSE "gone",
            !.released = @ + 1]

\* Mutant: the record is looked up again when it is deleted already.
ReturnedPortOfDeleted(j) == 0

ReturnedPort(j) == proc[FirstEntry(j)].port

StopProcess(j) ==
  LET i == FirstEntry(j) IN
  /\ alive
  /\ \A k \in DOMAIN proc : proc[k].state # "starting"
  /\ table[j] # NoRecord
  /\ i # 0
  /\ proc[i].state \in {"up", "signalled"}
  /\ pool' = Append(pool, ReturnedPort(j))
  /\ table' = [table EXCEPT ![j] = NoRecord]
  /\ proc' = [proc EXCEPT ![i] = Signalled(@)]
  /\ UNCHANGED <<alive, entries, known, faults>>

(***************************************************************************)
(* worker_transcoder ends: its handler or its supervision decides it and   *)
(* ends the children first, or it crashes and leaves them as they are.     *)
(***************************************************************************)
\* Mutant: worker_transcoder exits without a signal to its children.
EndedAlone(p) == [p EXCEPT !.state = "gone"]

Ended(p) == [p EXCEPT !.state = "gone", !.children = {}]

Exit(i) ==
  /\ \/ proc[i].state = "signalled" /\ UNCHANGED faults
     \/ /\ proc[i].state = "up" /\ proc[i].stage = "serving"
        /\ Fail("exit")
  /\ proc' = [proc EXCEPT ![i] = Ended(@)]
  /\ UNCHANGED <<alive, pool, table, entries, known>>

Crashed(p) == [p EXCEPT !.state = "gone", !.crashed = TRUE]

\* A goroutine panics (also the handler, when the packager was never started), a
\* directory cannot be made or watched, or SIGKILL: at any time, nothing is
\* signalled.
Crash(i) ==
  /\ proc[i].state \in {"up", "signalled"}
  /\ Fail("crash")
  /\ proc' = [proc EXCEPT ![i] = Crashed(@)]
  /\ UNCHANGED <<alive, pool, table, entries, known>>

(***************************************************************************)
(* checkJobStatus.  An entry whose Command.Process is nil makes its        *)
(* goroutine panic: worker_app ends, and its container with it.            *)
(***************************************************************************)
Unstarted(i) == proc[i].state \in {"starting", "unstarted"}

Removable(i) == proc[i].state = "gone"

RemoveEntries ==
  /\ alive
  /\ \A i \in entries : ~Unstarted(i)
  /\ \E i \in entries : Removable(i)
  /\ entries' = {i \in entries : ~Removable(i)}
  /\ UNCHANGED <<alive, pool, table, proc, known, faults>>

CheckPanics ==
  /\ alive
  /\ \E i \in entries : Unstarted(i)
  /\ alive' = FALSE
  /\ proc' = [i \in DOMAIN proc |-> Ended(proc[i])]
  /\ UNCHANGED <<pool, table, entries, known, faults>>

\* A goroutine of the status check has read the record of a job before a stop
\* deleted it, and writes it back.
WriteReadings(j) ==
  /\ alive
  /\ table[j] = NoRecord
  /\ \E i \in entries : /\ proc[i].job = j /\ proc[i].released > 0
                        /\ table' = [table EXCEPT ![j] = proc[i].port]
  /\ Fail("readings")
  /\ UNCHANGED <<alive, pool, entries, proc, known>>
=============================================================================
