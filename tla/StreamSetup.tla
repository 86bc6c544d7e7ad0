---------------------------- MODULE StreamSetup ----------------------------
(***************************************************************************)
(* From a client's request to a running stream: the API server validates   *)
(* the specification, gets a key from the key server, stores and sends the *)
(* job; a worker_app starts worker_transcoder, which starts the packager,  *)
(* uploads the key file and starts ffmpeg.  The scheduler between the two  *)
(* is reduced to what it asks of the worker: a launch of a job that was    *)
(* sent, that failed, or that is recorded as stopped, and a stop.          *)
(***************************************************************************)
EXTENDS WorkerApp

CONSTANTS
  Offered,        \* the specifications that the client of a job may send
  LaunchBound(_)  \* bound: how many launches when a job has this one

ASSUME StreamSetupAssumption == \A j \in Jobs : Offered[j] \subseteq JobSpec

VARIABLES
  request,   \* the POST /jobs of each job: where its handler is
  allJobs,   \* Redis: the job records; NoJob, or the specification and key
  drmKeys,   \* Redis: the keys, each with its content id
  minted,    \* number of keys generated
  keyFile    \* S3: the key that key.bin of a job holds; NoFile, FileFailed

vars == <<appVars, faults, request, allJobs, drmKeys, minted, keyFile>>

Points == {"idle", "rejected", "dropped", "tested", "createKey", "getKey",
           "write", "send", "failed", "sent", "launching", "launched",
           "stopped"}
NoSpec == <<>>
NoJob == <<>>
NoKey == 0
NoFile == 0       \* key.bin was never due
FileFailed == -1  \* every upload of it has failed

StoredSpec(j) == allJobs[j].spec
SpecOf(i) == StoredSpec(proc[i].job)

\* One type invariant: every variable of the pipeline.
TypeOK ==
  /\ AppTypeOK
  /\ DOMAIN request = Jobs /\ DOMAIN allJobs = Jobs
  /\ \A j \in Jobs :
       /\ request[j].at \in Points
       /\ request[j].kid \in 0..minted /\ request[j].key \in 0..minted
       /\ request[j].keyFailed \in BOOLEAN
       /\ allJobs[j] # NoJob => allJobs[j].key \in 0..minted
  /\ drmKeys \subseteq [id : 1..minted, content : Jobs]
  /\ minted \in Nat
  /\ keyFile \in [Jobs -> Nat \cup {FileFailed}]

Init ==
  /\ AppInit
  /\ request = [j \in Jobs |-> [at |-> "idle", spec |-> NoSpec, kid |-> NoKey,
                                key |-> NoKey, keyFailed |-> FALSE]]
  /\ allJobs = [j \in Jobs |-> NoJob]
  /\ drmKeys = {} /\ minted = 0
  /\ keyFile = [j \in Jobs |-> NoFile]

MoveTo(j, point) == request' = [request EXCEPT ![j].at = point]

(***************************************************************************)
(* POST /jobs: Validate, and what the handler makes of its verdict.  A     *)
(* panic ends the connection without an answer.                            *)
(***************************************************************************)
AfterValidate(s) ==
  IF s.apiTest = 1 THEN "tested"
  ELSE IF s.drm.system # "" THEN "createKey" ELSE "write"

\* Mutant: the specification is stored as it was sent.
AdmittedRaw(s) == s

Admitted(s) == Normalized(s)

Submit(j) ==
  \E s \in Offered[j] :
    /\ request[j].at = "idle"
    /\ request' = [request EXCEPT
         ![j].at = [ok |-> AfterValidate(s), error |-> "rejected",
                    panic |-> "dropped"][Verdict(s)],
         ![j].spec = IF Verdict(s) = "ok" /\ s.apiTest # 1
                     THEN Admitted(s) ELSE NoSpec]
    /\ UNCHANGED <<appVars, faults, allJobs, drmKeys, minted, keyFile>>

(***************************************************************************)
(* createDrmKey and POST /keys of the key server, which answers 201        *)
(* whether or not Redis has taken the key.  Whatever fails, the job goes   *)
(* on without a key.                                                       *)
(***************************************************************************)
KeyCreated(j, kid) ==
  request' = [request EXCEPT ![j].at = "getKey", ![j].kid = kid,
                             ![j].keyFailed = kid = NoKey]

ExchangeFailed(j) ==
  request' = [request EXCEPT ![j].at = "write", ![j].keyFailed = TRUE]

CreateDrmKey(j) ==
  LET k == minted + 1
      stored == [id |-> k, content |-> j] IN
  /\ request[j].at = "createKey"
  /\ \/ /\ drmKeys' = drmKeys \cup {stored} /\ minted' = k
        /\ KeyCreated(j, k) /\ UNCHANGED faults
     \/ /\ Fail("keystore")
        /\ KeyCreated(j, k) /\ minted' = k /\ UNCHANGED drmKeys
     \/ /\ Fail("garbled")  \* the reply does not parse: an empty Key_id
        /\ drmKeys' = drmKeys \cup {stored} /\ minted' = k
        /\ KeyCreated(j, NoKey)
     \/ /\ Fail("lost")     \* the reply does not arrive
        /\ drmKeys' = drmKeys \cup {stored} /\ minted' = k
        /\ ExchangeFailed(j)
     \/ /\ Fail("post")
        /\ ExchangeFailed(j) /\ UNCHANGED <<drmKeys, minted>>
  /\ UNCHANGED <<appVars, allJobs, keyFile>>

\* Mutant: getDrmKey does not look at the status of the answer.
ServedAnyway(kid) == kid # NoKey

\* getKeyById; an empty id is a 400.
Served(kid) == \E k \in drmKeys : k.id = kid

GetDrmKey(j) ==
  /\ request[j].at = "getKey"
  /\ \/ /\ Served(request[j].kid)
        /\ request' = [request EXCEPT ![j].at = "write",
                                      ![j].key = request[j].kid]
        /\ UNCHANGED faults
     \/ /\ ~Served(request[j].kid)
        /\ ExchangeFailed(j) /\ UNCHANGED faults
     \/ /\ Fail("get")
        /\ ExchangeFailed(j)
  /\ UNCHANGED <<appVars, allJobs, drmKeys, minted, keyFile>>

WriteRecord(j) ==
  /\ request[j].at = "write"
  /\ \/ /\ allJobs' = [allJobs EXCEPT ![j] = [spec |-> request[j].spec,
                                              key |-> request[j].key]]
        /\ MoveTo(j, "send") /\ UNCHANGED faults
     \/ /\ Fail("write")
        /\ MoveTo(j, "failed") /\ UNCHANGED allJobs
  /\ UNCHANGED <<appVars, drmKeys, minted, keyFile>>

SendMessage(j) ==
  /\ request[j].at = "send"
  /\ \/ MoveTo(j, "sent") /\ UNCHANGED faults
     \/ Fail("send") /\ MoveTo(j, "failed")
  /\ UNCHANGED <<appVars, allJobs, drmKeys, minted, keyFile>>

(***************************************************************************)
(* The worker, asked by the scheduler.  A failed launch is tried again.    *)
(***************************************************************************)
\* Mutant: the audio outputs are not counted.
OutputsVideoOnly(s) == Len(s.video)

Outputs(s) == Len(s.video) + Len(s.audio)

setupVars == <<allJobs, drmKeys, minted, keyFile>>

Launch(j) ==
  /\ request[j].at \in {"sent", "stopped"}
  /\ \A k \in Jobs : allJobs[k] # NoJob => Len(proc) < LaunchBound(StoredSpec(k))
  /\ LaunchProcess(j, Outputs(StoredSpec(j)), allJobs[j].key)
  /\ MoveTo(j, "launching")
  /\ UNCHANGED <<faults, setupVars>>

Launched(i) ==
  /\ LaunchSucceeds(i)
  /\ MoveTo(proc[i].job, "launched")
  /\ UNCHANGED setupVars

NotLaunched(i) ==
  /\ LaunchFails(i)
  /\ MoveTo(proc[i].job, "sent")
  /\ UNCHANGED setupVars

\* A record that a late report has set back to running may be stopped again.
Stop(j) ==
  /\ request[j].at \in {"launched", "stopped"}
  /\ StopProcess(j)
  /\ MoveTo(j, "stopped")
  /\ UNCHANGED setupVars

\* checkJobStatus: its report has the jobs of the removed entries stopped.
CheckJobStatus ==
  /\ \/ /\ RemoveEntries
        /\ LET reported == {proc[i].job : i \in {k \in entries : Removable(k)}} IN
           request' = [j \in Jobs |->
             IF j \in reported /\ request[j].at = "launched"
             THEN [request[j] EXCEPT !.at = "stopped"] ELSE request[j]]
     \/ CheckPanics /\ UNCHANGED request
  /\ UNCHANGED setupVars

(***************************************************************************)
(* worker_transcoder's main: packager, key file, ffmpeg, then ffprobe, the *)
(* watcher and the handler of SIGTERM.                                     *)
(***************************************************************************)
Starting(i, stage) == proc[i].state = "up" /\ proc[i].stage = stage

Started(i, stage, child) ==
  proc' = [proc EXCEPT ![i].stage = stage, ![i].children = @ \cup child]

mainVars == <<alive, pool, table, entries, known, request, allJobs, drmKeys,
              minted>>

\* Mutant: ffmpeg does not wait for the key file.
KeyStageSkipped(i) == "keyed"

KeyStage(i) == IF proc[i].key = NoKey THEN "keyed" ELSE "packager"

StartPackager(i) ==
  /\ Starting(i, "begin") /\ ~HasAV1Output(SpecOf(i))
  /\ Started(i, KeyStage(i), {"packager"})
  /\ UNCHANGED <<mainVars, faults, keyFile>>

\* createUploadDrmKeyFile; main goes on when it fails.
UploadKeyFile(i) ==
  LET j == proc[i].job IN
  /\ Starting(i, "packager")
  /\ \/ /\ keyFile' = [keyFile EXCEPT ![j] = proc[i].key]
        /\ UNCHANGED faults
     \/ /\ Fail("upload")
        /\ keyFile' = [keyFile EXCEPT ![j] = IF @ > NoFile THEN @
                                             ELSE FileFailed]
  /\ Started(i, "keyed", {})
  /\ UNCHANGED mainVars

StartFfmpeg(i) ==
  /\ \/ Starting(i, "keyed")
     \/ Starting(i, "begin") /\ HasAV1Output(SpecOf(i))
  /\ Started(i, "ffmpeg", {"ffmpeg"})
  /\ UNCHANGED <<mainVars, faults, keyFile>>

Serve(i) ==
  /\ Starting(i, "ffmpeg")
  /\ Started(i, "serving", {})
  /\ UNCHANGED <<mainVars, faults, keyFile>>

Next ==
  \/ \E j \in Jobs :
       \/ Submit(j) \/ CreateDrmKey(j) \/ GetDrmKey(j) \/ WriteRecord(j)
       \/ SendMessage(j) \/ Launch(j) \/ Stop(j)
       \/ WriteReadings(j) /\ UNCHANGED <<request, setupVars>>
  \/ \E i \in DOMAIN proc :
       \/ Launched(i) \/ NotLaunched(i)
       \/ StartPackager(i) \/ UploadKeyFile(i) \/ StartFfmpeg(i) \/ Serve(i)
       \/ (Exit(i) \/ Crash(i)) /\ UNCHANGED <<request, setupVars>>
  \/ CheckJobStatus

Spec == Init /\ [][Next]_vars

(***************************************************************************)
(* Properties.                                                             *)
(***************************************************************************)
Serving(i) == proc[i].state = "up" /\ proc[i].stage = "serving"
Streams(i) == proc[i].state = "up" /\ proc[i].stage \in {"ffmpeg", "serving"}
Encrypted(i) ==
  /\ ~HasAV1Output(SpecOf(i))
  /\ Encrypts(SpecOf(i), proc[i].key, NoKey)

\* What the commands take for granted, written down without validator.go's order
\* of checks and defaults: the limits it names (validator.go:17-40).
WithinLimits(s) ==
  /\ s.segment \in 1..30 /\ s.fragment \in 1..10 /\ s.fragment <= s.segment
  /\ s.timeShift <= 14400
  /\ s.video = <<>> => NeedObjectDetection(s)
  /\ \A i \in DOMAIN s.video :
       LET v == s.video[i] IN
       /\ \A r \in {v.bitrate, v.maxBitrate, v.bufSize} :
            r.form = "nan" \/ (r.form = "number" /\ r.kbps >= 0)
       /\ v.bitrate.kbps <= 10000
       /\ (v.codec = "av1") = (v.preset \in NumericPresets)
  /\ \A k \in DOMAIN s.audio : s.audio[k].bitrate.form \in {"number", "nan"}
  /\ NeedObjectDetection(s) => s.detection.crf \in 23..51

\* A stored specification is within the limits, and Validate would accept it
\* again and leave it as it is: no default is computed from a value that a
\* later check replaces (validator.go:71-386).
AdmittedIsNormal ==
  \A j \in Jobs : allJobs[j] # NoJob =>
    LET s == StoredSpec(j) IN
    Verdict(s) = "ok" /\ Normalized(s) = s /\ WithinLimits(s)

\* The key of a record is one the key server can still be asked for, made for
\* this job and for no other, and only for a job that asked for protection
\* (api_server_main.go:139-156, ezKey_server.go:108-140).
KeyIsServed ==
  \A j \in Jobs :
    allJobs[j] # NoJob /\ allJobs[j].key # NoKey =>
      /\ DrmConfigured(StoredSpec(j))
      /\ [id |-> allJobs[j].key, content |-> j] \in drmKeys
      /\ \A k \in Jobs \ {j} :
           allJobs[k] # NoJob => allJobs[k].key # allJobs[j].key

\* A stream whose client asked for protection goes out in the clear only if
\* the key exchange failed, or for DASH or AV1, whose commands have no key
\* options; one that did not ask is never encrypted (api_server_main.go:150,
\* worker_app.go:369, command.go:535, worker_transcoder.go:1082).
ClearOnlyIf ==
  \A i \in DOMAIN proc : Streams(i) =>
    LET s == SpecOf(i) IN
    IF Encrypted(i) THEN DrmConfigured(s)
    ELSE DrmConfigured(s) =>
           \/ request[proc[i].job].keyFailed
           \/ s.type = "dash"
           \/ HasAV1Output(s)

\* When an encrypted stream goes out, key.bin of the job is in the store and
\* holds the key of the packager, whichever launch wrote it, unless no upload
\* of it has succeeded (worker_transcoder.go:1129-1136).
KeyFileOpensStream ==
  \A i \in DOMAIN proc :
    Streams(i) /\ Encrypted(i) =>
      keyFile[proc[i].job] \in {proc[i].key, FileFailed}

\* What a running packager reads at a port is the rendition it takes it for,
\* and ffprobe's port is no rendition's; ffmpeg alone has a complete command
\* unless a rendition of it, detection's perhaps, is not AV1
\* (command.go:243-371, 396-469, 635-639).
RenditionsWired ==
  \A i \in DOMAIN proc : Serving(i) =>
    LET s == SpecOf(i)
        sent == FfmpegOutputs(s, proc[i].base) IN
    IF HasAV1Output(s)
    THEN \/ EncoderComplete(s)
         \/ NeedObjectDetection(s)
         \/ \E n \in DOMAIN s.video : s.video[n].codec # "av1"
    ELSE \A in \in PackagerInputs(s, proc[i].base) :
           {o \in sent : o.port = in.port} =
             {[port |-> in.port, kind |-> in.kind, n |-> in.n]}

VideoRates(s) == {s.video[n].bitrate : n \in DOMAIN s.video}
AudioRates(s) == {s.audio[n].bitrate : n \in DOMAIN s.audio}

\* The client gave two renditions one bitrate, or left out the detector's and
\* asked for a rendition at the bitrate that is its default.
RatesClash(s) ==
  \/ Cardinality(VideoRates(s)) < Len(s.video)
  \/ Cardinality(AudioRates(s)) < Len(s.audio)
  \/ /\ NeedObjectDetection(s) /\ s.detection.bitrate = NoRate
     /\ Kbps(150) \in VideoRates(s)

\* No two renditions write the same files, one at least is kept from upload for
\* the detector, and just one unless the detector's bitrate is left out or
\* malformed, or the end or the equal of another rendition's: nothing checks
\* that bitrate, and it is looked for in the path as a substring
\* (command.go:410, 444, worker_transcoder.go:402, 1240).
RenditionsApart ==
  \A i \in DOMAIN proc : Serving(i) /\ ~HasAV1Output(SpecOf(i)) =>
    LET s == SpecOf(i)
        ins == PackagerInputs(s, proc[i].base)
        target == s.detection.bitrate
        held == {in \in ins : IsDetectionTarget(in.dir, target)} IN
    \/ RatesClash(s)
    \/ /\ \A a, b \in ins : a.kind = b.kind /\ a.dir = b.dir => a = b
       /\ NeedObjectDetection(s) => held # {}
       /\ NeedObjectDetection(s) =>
            \/ target.form \in {"empty", "malformed"}
            \/ \E r \in (VideoRates(s) \cup AudioRates(s)) \ {target} :
                 EndsWith(r.kbps, target.kbps)
            \/ target \in AudioRates(s)
            \/ Cardinality(held) = 1

UdpPorts(i) ==
  {in.port : in \in PackagerInputs(SpecOf(i), proc[i].base)}

\* Two processes on a worker use a UDP port in common only if an entry that
\* was counted for the first had left running_jobs when the second was
\* launched, or if the first has a rendition for detection, which is added
\* when nobody counts any more (worker_app.go:330-341, command.go:127).
UdpPortsApart ==
  \A i, k \in DOMAIN proc :
    /\ i < k
    /\ {proc[i].state, proc[k].state} \subseteq {"up", "signalled"}
    /\ UdpPorts(i) \cap UdpPorts(k) # {}
    => \/ ~(proc[i].seen \subseteq proc[k].seen)
       \/ Len(Renditions(SpecOf(i))) > Len(SpecOf(i).video)

\* Two processes that nobody has stopped are told to listen on one RTMP port
\* only after a stop had returned that port a second time, or a launch found
\* the pool empty (worker_app.go:106, 287-324).
RtmpPortExclusive ==
  \A i, k \in DOMAIN proc :
    /\ i < k
    /\ proc[i].state = "up" /\ proc[k].state = "up"
    /\ proc[i].port = proc[k].port
    => \E m \in DOMAIN proc :
         /\ proc[m].port = proc[i].port
         /\ (proc[m].released >= 2 \/ ~proc[m].fresh)

\* A port that is not in the pool was given to a process that no stop has
\* reached: it runs, or it ended by itself or at launch and keeps the port
\* (worker_app.go:192, 572-576).
PortLostOnlyUnstopped ==
  alive => \A p \in ListedPorts :
    (\A n \in DOMAIN pool : pool[n] # p) =>
      \E m \in DOMAIN proc : proc[m].port = p /\ proc[m].released = 0

\* A launch whose ffmpeg finds its RTMP port taken by that of an earlier one got
\* the port from a pool that had gone wrong, or from a stop while the earlier
\* ffmpeg was still to end, or to stay for ever: left behind by a stop before
\* its worker_transcoder had installed the handler, or by a crash of that after
\* the stop.  An ffmpeg that any other crash leaves behind keeps a port that
\* nobody else is given (worker_app.go:556-576, worker_transcoder.go:1264-1291).
ListenersApart ==
  \A i, k \in DOMAIN proc :
    /\ i < k
    /\ "ffmpeg" \in proc[i].children /\ "ffmpeg" \in proc[k].children
    /\ proc[i].port = proc[k].port
    => \/ \E m \in DOMAIN proc :
            /\ proc[m].port = proc[i].port
            /\ (proc[m].released >= 2 \/ ~proc[m].fresh)
       \/ /\ proc[i].released > 0
          /\ \/ proc[i].state = "signalled"
             \/ proc[i].stage # "serving"
             \/ proc[i].crashed
=============================================================================
