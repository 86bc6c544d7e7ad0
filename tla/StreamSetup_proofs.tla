------------------------- MODULE StreamSetup_proofs -------------------------
(***************************************************************************)
(* Theorems about StreamSetup for any jobs, any specifications that their  *)
(* clients may send, any pool of ports, any number of launches and all     *)
(* thirteen kinds of failure.                                              *)
(***************************************************************************)
EXTENDS StreamSetup, StreamCommands_proofs

(***************************************************************************)
(* Types.                                                                  *)
(***************************************************************************)
Request == [at : Points, spec : JobSpec \cup {NoSpec}, kid : Nat, key : Nat,
            keyFailed : BOOLEAN]
Record == [spec : JobSpec, key : Nat]

RequestType ==
  /\ request \in [Jobs -> Request]
  /\ allJobs \in [Jobs -> Record \cup {NoJob}]
  /\ drmKeys \subseteq [id : 1..minted, content : Jobs]
  /\ minted \in Nat
  /\ keyFile \in [Jobs -> Nat \cup {FileFailed}]

\* Every key was generated.
KeysMinted ==
  \A j \in Jobs :
    /\ request[j].kid <= minted /\ request[j].key <= minted
    /\ allJobs[j] # NoJob => allJobs[j].key <= minted

\* Of a process that is being started the table has the port, so that the port
\* of a launched one is known.
OneStarts ==
  \A i, k \in DOMAIN proc :
    /\ proc[i].state = "starting" => table[proc[i].job] = proc[i].port
    /\ proc[i].state = "starting" /\ proc[k].state = "starting" => i = k

AppType == AppTypeOK /\ proc \in Seq(Process) /\ OneStarts

\* The points of a job that may be launched, and of one that has been sent.
Sent == {"sent", "launching", "launched", "stopped"}
Written == Sent \cup {"send"}

Recorded == \A j \in Jobs : request[j].at \in Written => allJobs[j] \in Record

\* A process runs the job that is recorded, with the key of the record.
ProcessesRecorded ==
  \A i \in DOMAIN proc :
    LET j == proc[i].job IN
    /\ request[j].at \in Sent
    /\ proc[i].key = allJobs[j].key
    /\ proc[i].counted = Outputs(StoredSpec(j))

Typed ==
  RequestType /\ KeysMinted /\ AppType /\ Recorded /\ ProcessesRecorded

\* The initial state has every type.
LEMMA TypedInit == Init => Typed
<1> SUFFICES ASSUME Init PROVE Typed
  OBVIOUS
<1>1. RequestType
  BY DEF Init, RequestType, Request, Points, NoKey, NoFile, NoSpec, NoJob
<1>2. AppTypeOK /\ proc \in Seq(Process)
  <2>1. RtmpPorts \in Seq(ListedPorts \cup {0})
    BY WorkerAppAssumption DEF ListedPorts
  <2> QED BY <2>1, WorkerAppAssumption DEF Init, AppInit, AppTypeOK
<1>3. OneStarts /\ Recorded /\ ProcessesRecorded /\ KeysMinted
  BY DEF Init, AppInit, OneStarts, Recorded, Written, Sent, ProcessesRecorded,
         KeysMinted, NoKey, NoJob
<1> QED BY <1>1, <1>2, <1>3 DEF Typed, AppType

\* A failure that occurs is within the bound of failures.
LEMMA FailType ==
  ASSUME faults \in 0..FaultLimit, NEW kind, Fail(kind)
  PROVE  faults' \in 0..FaultLimit
BY WorkerAppAssumption DEF Fail

(***************************************************************************)
(* The steps of POST /jobs.                                                *)
(***************************************************************************)
RequestStep ==
  \E j \in Jobs :
    \/ Submit(j) \/ CreateDrmKey(j) \/ GetDrmKey(j) \/ WriteRecord(j)
    \/ SendMessage(j)

\* Each field of a request may be replaced by a value of its type.
LEMMA RequestUpdates ==
  ASSUME NEW r \in Request
  PROVE  /\ \A a \in Points : /\ [r EXCEPT !.at = a] \in Request
                              /\ \A s \in JobSpec \cup {NoSpec} :
                                   [r EXCEPT !.at = a, !.spec = s] \in Request
                              /\ \A k \in Nat : [r EXCEPT !.at = a, !.key = k] \in Request
         /\ \A k \in Nat, f \in BOOLEAN :
              [r EXCEPT !.at = "getKey", !.kid = k, !.keyFailed = f] \in Request
         /\ [r EXCEPT !.at = "write", !.keyFailed = TRUE] \in Request
BY DEF Request, Points

\* What one step of POST /jobs does to the request, field by field.
LEMMA RequestMoves ==
  ASSUME RequestType, NEW j \in Jobs
  PROVE  /\ \A a : MoveTo(j, a) => request' = [request EXCEPT ![j] = [@ EXCEPT !.at = a]]
         /\ \A k : KeyCreated(j, k) =>
              request' = [request EXCEPT ![j] =
                            [@ EXCEPT !.at = "getKey", !.kid = k, !.keyFailed = (k = NoKey)]]
         /\ ExchangeFailed(j) =>
              request' = [request EXCEPT ![j] = [@ EXCEPT !.at = "write", !.keyFailed = TRUE]]
BY DEF RequestType, MoveTo, KeyCreated, ExchangeFailed


\* POST /jobs keeps the types of what it writes.
LEMMA SubmitTyped ==
  ASSUME RequestType, NEW j \in Jobs, Submit(j)
  PROVE  request' \in [Jobs -> Request]
<1> PICK s \in Offered[j] : Submit(j)!(s)
  BY DEF Submit
<1> DEFINE a == [ok |-> AfterValidate(s), error |-> "rejected",
                 panic |-> "dropped"][Verdict(s)]
           spec == IF Verdict(s) = "ok" /\ s.apiTest # 1 THEN Admitted(s) ELSE NoSpec
<1>1. s \in JobSpec
  BY StreamSetupAssumption
<1>2. spec \in JobSpec \cup {NoSpec}
  BY <1>1, NormalizedFields DEF Admitted
<1>3. a \in Points
  <2>1. Verdict(s) \in Verdicts
    BY <1>1, VerdictOk
  <2>2. AfterValidate(s) \in Points
    BY DEF AfterValidate, Points
  <2> QED BY <2>1, <2>2 DEF Verdicts, Points
<1>4. request[j] \in Request /\ request \in [Jobs -> Request]
  BY DEF RequestType
<1>5. request' = [request EXCEPT ![j] = [@ EXCEPT !.at = a, !.spec = spec]]
  BY <1>4
<1> HIDE DEF a, spec
<1>6. [request[j] EXCEPT !.at = a, !.spec = spec] \in Request
  BY <1>2, <1>3, <1>4, RequestUpdates
<1> QED BY <1>4, <1>5, <1>6

\* The key exchange keeps the types of what it writes.
LEMMA CreateDrmKeyTyped ==
  ASSUME RequestType, NEW j \in Jobs, CreateDrmKey(j)
  PROVE  /\ request' \in [Jobs -> Request]
         /\ minted' \in Nat /\ minted' \in {minted, minted + 1}
         /\ drmKeys' \subseteq [id : 1..minted', content : Jobs]
<1>1. /\ request \in [Jobs -> Request] /\ request[j] \in Request /\ minted \in Nat
      /\ drmKeys \subseteq [id : 1..minted, content : Jobs]
  BY DEF RequestType
<1>2. minted' \in Nat /\ minted' \in {minted, minted + 1}
  BY <1>1 DEF CreateDrmKey
<1>3. drmKeys' \subseteq [id : 1..minted', content : Jobs]
  BY <1>1 DEF CreateDrmKey
<1>4. ASSUME NEW kid \in Nat, KeyCreated(j, kid) PROVE request' \in [Jobs -> Request]
  <2> DEFINE failed == kid = NoKey
  <2>1. failed \in BOOLEAN
    OBVIOUS
  <2>2. request' = [request EXCEPT ![j] =
                      [@ EXCEPT !.at = "getKey", !.kid = kid, !.keyFailed = failed]]
    BY <1>4, RequestMoves
  <2> HIDE DEF failed
  <2>3. [request[j] EXCEPT !.at = "getKey", !.kid = kid, !.keyFailed = failed] \in Request
    BY <1>1, <2>1, RequestUpdates
  <2> QED BY <1>1, <2>2, <2>3
<1>5. ASSUME ExchangeFailed(j) PROVE request' \in [Jobs -> Request]
  BY <1>1, <1>5, RequestMoves, RequestUpdates
<1>6. minted + 1 \in Nat /\ NoKey \in Nat
  BY <1>1 DEF NoKey
<1> QED BY <1>2, <1>3, <1>4, <1>5, <1>6 DEF CreateDrmKey

\* The key is fetched as a number.
LEMMA GetDrmKeyTyped ==
  ASSUME RequestType, NEW j \in Jobs, GetDrmKey(j)
  PROVE  request' \in [Jobs -> Request]
<1>1. request \in [Jobs -> Request] /\ request[j] \in Request /\ request[j].kid \in Nat
  BY DEF RequestType, Request
<1>2. ASSUME request' = [request EXCEPT ![j].at = "write", ![j].key = request[j].kid]
      PROVE  request' \in [Jobs -> Request]
  <2>1. [request[j] EXCEPT !.at = "write", !.key = request[j].kid] \in Request
    BY <1>1, RequestUpdates DEF Points
  <2> QED BY <1>1, <1>2, <2>1
<1>3. ASSUME ExchangeFailed(j) PROVE request' \in [Jobs -> Request]
  BY <1>1, <1>3, RequestMoves, RequestUpdates
<1> QED BY <1>2, <1>3 DEF GetDrmKey

\* A record is written of a request that has a specification, and the message is
\* sent of one that has a record.
LEMMA WriteAndSendTyped ==
  ASSUME RequestType, Recorded, NEW j \in Jobs, WriteRecord(j) \/ SendMessage(j),
         request[j].at = "write" => request[j].spec \in JobSpec
  PROVE  /\ request' \in [Jobs -> Request]
         /\ allJobs' \in [Jobs -> Record \cup {NoJob}]
<1>1. /\ request \in [Jobs -> Request] /\ request[j] \in Request
      /\ allJobs \in [Jobs -> Record \cup {NoJob}]
  BY DEF RequestType
<1>2. ASSUME NEW a \in Points, MoveTo(j, a) PROVE request' \in [Jobs -> Request]
  <2>1. [request[j] EXCEPT !.at = a] \in Request
    BY <1>1, RequestUpdates
  <2> QED BY <1>1, <1>2, <2>1 DEF MoveTo
<1>3. request' \in [Jobs -> Request]
  BY <1>2 DEF WriteRecord, SendMessage, Points
<1>4. allJobs' \in [Jobs -> Record \cup {NoJob}]
  <2>1. request[j].at = "write" => [spec |-> request[j].spec, key |-> request[j].key] \in Record
    BY <1>1 DEF Request, Record
  <2> QED BY <1>1, <2>1 DEF WriteRecord, SendMessage
<1> QED BY <1>3, <1>4

(***************************************************************************)
(* The keys.                                                               *)
(***************************************************************************)
Good(s) == s \in JobSpec /\ Verdict(s) = "ok" /\ Normalized(s) = s

\* The key of job j with specification s is stored for j, whose client asked for
\* it; without a key the client did not ask, or the exchange failed.
KeyFits(j, s, key) ==
  /\ key # NoKey => s.drm.system # "" /\ [id |-> key, content |-> j] \in drmKeys
  /\ DrmConfigured(s) => key # NoKey \/ request[j].keyFailed

Keyed(j) ==
  /\ request[j].at \in {"idle", "createKey"} => request[j].kid = NoKey
  /\ request[j].at \in {"idle", "createKey", "getKey"} => request[j].key = NoKey
  /\ request[j].at \in {"createKey", "getKey", "write"} => Good(request[j].spec)
  /\ request[j].at \in {"createKey", "getKey"} => request[j].spec.drm.system # ""
  /\ request[j].at \in {"idle", "createKey", "getKey", "write"} => allJobs[j] = NoJob
  /\ request[j].at = "write" => KeyFits(j, request[j].spec, request[j].key)
  /\ \A k \in drmKeys : k.id = request[j].kid => k.content = j
  /\ allJobs[j] # NoJob =>
       Good(allJobs[j].spec) /\ KeyFits(j, allJobs[j].spec, allJobs[j].key)

KeysInv ==
  /\ \A j \in Jobs : Keyed(j)
  /\ \A k, l \in drmKeys : k.id = l.id => k = l

\* No key and no request yet.
LEMMA KeysInvInit == Init => KeysInv
<1> SUFFICES ASSUME Init PROVE KeysInv
  OBVIOUS
<1>1. ASSUME NEW k \in Jobs PROVE Keyed(k)
  <2>1. /\ request[k].at = "idle" /\ request[k].kid = NoKey /\ request[k].key = NoKey
        /\ allJobs[k] = NoJob /\ drmKeys = {}
    BY DEF Init
  <2> QED BY <2>1 DEF Keyed
<1> QED BY <1>1 DEF Init, KeysInv

\* A step of one job's request leaves the worker and the other jobs alone.
LEMMA RequestFrame ==
  ASSUME RequestType, NEW j \in Jobs,
         \/ Submit(j) \/ CreateDrmKey(j) \/ GetDrmKey(j) \/ WriteRecord(j) \/ SendMessage(j)
  PROVE  /\ UNCHANGED <<appVars, keyFile>>
         /\ request[j].at \notin Sent
         /\ \A k \in Jobs \ {j} : request'[k] = request[k] /\ allJobs'[k] = allJobs[k]
         /\ request[j].at # "write" => allJobs' = allJobs
         /\ drmKeys \subseteq drmKeys'
         /\ \/ minted' = minted
            \/ minted' = minted + 1
         /\ \A k \in drmKeys' :
              k \in drmKeys \/ (k.id = minted + 1 /\ k.content = j /\ minted' = minted + 1)
         /\ \/ faults' = faults
            \/ \E kind : Fail(kind)
<1>1. /\ request \in [Jobs -> Request] /\ allJobs \in [Jobs -> Record \cup {NoJob}]
  BY DEF RequestType
<1>2. CASE Submit(j)
  BY <1>1, <1>2 DEF Submit, Sent
<1>3. CASE CreateDrmKey(j)
  BY <1>1, <1>3 DEF CreateDrmKey, KeyCreated, ExchangeFailed, Sent
<1>4. CASE GetDrmKey(j)
  BY <1>1, <1>4 DEF GetDrmKey, ExchangeFailed, Sent
<1>5. CASE WriteRecord(j)
  BY <1>1, <1>5 DEF WriteRecord, MoveTo, Sent
<1>6. CASE SendMessage(j)
  BY <1>1, <1>6 DEF SendMessage, MoveTo, Sent
<1> QED BY <1>2, <1>3, <1>4, <1>5, <1>6

\* What such a step leaves in place for the other jobs.
LEMMA KeyedOther ==
  ASSUME RequestType, KeysMinted, NEW j \in Jobs, NEW k \in Jobs \ {j}, Keyed(k),
         \/ Submit(j) \/ CreateDrmKey(j) \/ GetDrmKey(j) \/ WriteRecord(j) \/ SendMessage(j)
  PROVE  Keyed(k)'
<1>1. /\ request'[k] = request[k] /\ allJobs'[k] = allJobs[k] /\ drmKeys \subseteq drmKeys'
      /\ \A l \in drmKeys' : l \in drmKeys \/ l.id = minted + 1
  BY RequestFrame
<1>2. request[k].kid <= minted /\ request[k].kid \in Nat /\ minted \in Nat
  BY DEF KeysMinted, RequestType, Request
<1>3. \A l \in drmKeys' : l.id = request[k].kid => l \in drmKeys
  BY <1>1, <1>2
<1> QED BY <1>1, <1>3 DEF Keyed, KeyFits

\* An accepted specification that configures protection names a key system.
LEMMA SystemNamed ==
  ASSUME NEW s \in JobSpec, Verdict(s) = "ok"
  PROVE  DrmConfigured(s) <=> s.drm.system # ""
<1>1. DrmVerdict(s) = "ok"
  BY VerdictOk
<1> QED BY <1>1 DEF DrmVerdict, DrmConfigured, Require

\* What is stored of an accepted specification is good.
LEMMA AdmittedGood ==
  ASSUME NEW s \in JobSpec, Verdict(s) = "ok"
  PROVE  Good(Admitted(s)) /\ Admitted(s).drm = s.drm
BY NormalizedFields, NormalizedAccepted DEF Good, Admitted

\* The admission of a specification.
LEMMA KeyedSubmit ==
  ASSUME RequestType, NEW j \in Jobs, Keyed(j), Submit(j)
  PROVE  Keyed(j)'
<1> PICK s \in Offered[j] : Submit(j)!(s)
  BY DEF Submit
<1> DEFINE a == [ok |-> AfterValidate(s), error |-> "rejected",
                 panic |-> "dropped"][Verdict(s)]
           spec == IF Verdict(s) = "ok" /\ s.apiTest # 1 THEN Admitted(s) ELSE NoSpec
<1>1. s \in JobSpec /\ request[j] \in Request /\ request \in [Jobs -> Request]
  BY StreamSetupAssumption DEF RequestType
<1>2. /\ request'[j].at = a /\ request'[j].spec = spec
      /\ request'[j].kid = request[j].kid /\ request'[j].key = request[j].key
  BY <1>1 DEF Request
<1>3. request[j].kid = NoKey /\ request[j].key = NoKey /\ allJobs[j] = NoJob
  BY DEF Keyed
<1>4. allJobs'[j] = NoJob /\ drmKeys' = drmKeys
  BY <1>3
<1>10. \/ Verdict(s) = "ok" /\ a = AfterValidate(s)
       \/ Verdict(s) = "error" /\ a = "rejected"
       \/ Verdict(s) = "panic" /\ a = "dropped"
  <2>1. Verdict(s) \in Verdicts
    BY <1>1, VerdictOk
  <2> QED BY <2>1 DEF Verdicts
<1>5. a \in {"rejected", "dropped", "tested", "createKey", "write"}
  <2>1. AfterValidate(s) \in {"tested", "createKey", "write"}
    BY DEF AfterValidate
  <2> QED BY <1>10, <2>1
<1>6. a \in {"createKey", "write"} => Good(spec) /\ (a = "createKey" <=> spec.drm.system # "")
  <2>1. a \in {"createKey", "write"} => Verdict(s) = "ok" /\ s.apiTest # 1
                                        /\ a = AfterValidate(s)
    BY <1>10 DEF AfterValidate
  <2> QED BY <1>1, <2>1, AdmittedGood DEF AfterValidate
<1>7. a = "write" => ~DrmConfigured(spec)
  BY <1>6, SystemNamed DEF Good
<1> HIDE DEF a, spec
<1>8. a = "write" => KeyFits(j, request[j].spec, request[j].key)'
  BY <1>2, <1>3, <1>7 DEF KeyFits
<1>9. \A k \in drmKeys' : k.id = request'[j].kid => k.content = j
  BY <1>2, <1>4 DEF Keyed
<1> QED BY <1>2, <1>3, <1>4, <1>5, <1>6, <1>8, <1>9 DEF Keyed

\* A stored key is an id that was generated and the job it was generated for.
LEMMA StoredKey ==
  ASSUME RequestType, NEW k \in drmKeys
  PROVE  k.id # NoKey /\ k.id # minted + 1 /\ k = [id |-> k.id, content |-> k.content]
<1>1. minted \in Nat /\ k \in [id : 1..minted, content : Jobs]
  BY DEF RequestType
<1> DEFINE n == k.id
<1>2. n \in 1..minted
  BY <1>1
<1>3. n # 0 /\ n # minted + 1
  <2> HIDE DEF n
  <2> QED BY <1>1, <1>2
<1> QED BY <1>1, <1>3 DEF NoKey

\* The generation of a key.
LEMMA KeyedCreate ==
  ASSUME RequestType, KeysMinted, NEW j \in Jobs, Keyed(j), CreateDrmKey(j)
  PROVE  Keyed(j)'
<1>1. /\ request \in [Jobs -> Request] /\ request[j] \in Request /\ minted \in Nat
      /\ request[j].at = "createKey" /\ request[j].kid = NoKey /\ request[j].key = NoKey
      /\ Good(request[j].spec) /\ request[j].spec.drm.system # ""
      /\ allJobs[j] = NoJob
      /\ drmKeys \subseteq [id : 1..minted, content : Jobs]
  BY DEF RequestType, Keyed, CreateDrmKey
<1>2. /\ \A k \in drmKeys' : k \in drmKeys \/ (k.id = minted + 1 /\ k.content = j)
      /\ allJobs' = allJobs
  BY <1>1, RequestFrame DEF CreateDrmKey
<1>3. ASSUME NEW kid \in {NoKey, minted + 1}, KeyCreated(j, kid) PROVE Keyed(j)'
  <2>1. /\ request'[j].at = "getKey" /\ request'[j].kid = kid
        /\ request'[j].spec = request[j].spec /\ request'[j].key = NoKey
    BY <1>1, <1>3, RequestMoves DEF Request, KeyCreated, ExchangeFailed
  <2>2. ASSUME NEW k \in drmKeys', k.id = kid PROVE k.content = j
    <3>1. k \notin drmKeys
      BY <1>1, <2>2, StoredKey DEF NoKey
    <3> QED BY <1>2, <3>1
  <2> QED BY <1>1, <1>2, <2>1, <2>2 DEF Keyed
<1>4. ASSUME ExchangeFailed(j) PROVE Keyed(j)'
  <2>1. /\ request'[j].at = "write" /\ request'[j].kid = NoKey
        /\ request'[j].spec = request[j].spec /\ request'[j].key = NoKey
        /\ request'[j].keyFailed = TRUE
    BY <1>1, <1>4, RequestMoves DEF Request, KeyCreated, ExchangeFailed
  <2>2. ASSUME NEW k \in drmKeys', k.id = NoKey PROVE k.content = j
    <3>1. k \notin drmKeys
      BY <1>1, <2>2, StoredKey DEF NoKey
    <3> QED BY <1>2, <3>1
  <2>3. KeyFits(j, request[j].spec, request[j].key)'
    BY <2>1 DEF KeyFits
  <2> QED BY <1>1, <1>2, <2>1, <2>2, <2>3 DEF Keyed
<1> QED BY <1>3, <1>4 DEF CreateDrmKey

\* The key is fetched.
LEMMA KeyedGet ==
  ASSUME RequestType, NEW j \in Jobs, Keyed(j), GetDrmKey(j)
  PROVE  Keyed(j)'
<1>1. /\ request \in [Jobs -> Request] /\ request[j] \in Request
      /\ request[j].at = "getKey" /\ request[j].key = NoKey
      /\ Good(request[j].spec) /\ request[j].spec.drm.system # ""
      /\ allJobs[j] = NoJob /\ allJobs' = allJobs /\ drmKeys' = drmKeys
      /\ \A k \in drmKeys : k.id = request[j].kid => k.content = j
      /\ drmKeys \subseteq [id : 1..minted, content : Jobs]
  BY DEF RequestType, Keyed, GetDrmKey
<1>2. /\ request'[j].at = "write" /\ request'[j].kid = request[j].kid
      /\ request'[j].spec = request[j].spec
      /\ \/ request'[j].key = NoKey /\ request'[j].keyFailed = TRUE
         \/ request'[j].key = request[j].kid /\ Served(request[j].kid)
  <2>1. CASE ExchangeFailed(j)
    BY <1>1, <2>1, RequestMoves DEF Request, KeyCreated, ExchangeFailed
  <2>2. CASE /\ Served(request[j].kid)
             /\ request' = [request EXCEPT ![j].at = "write", ![j].key = request[j].kid]
    BY <1>1, <2>2 DEF Request
  <2> QED BY <2>1, <2>2 DEF GetDrmKey
<1>3. Served(request[j].kid) =>
        [id |-> request[j].kid, content |-> j] \in drmKeys /\ request[j].kid # NoKey
  <2>1. ASSUME NEW k \in drmKeys, k.id = request[j].kid
        PROVE  k = [id |-> request[j].kid, content |-> j] /\ request[j].kid # NoKey
    <3>1. k.content = j
      BY <1>1, <2>1
    <3>2. k.id # NoKey /\ k = [id |-> k.id, content |-> k.content]
      BY StoredKey
    <3> QED BY <2>1, <3>1, <3>2
  <2> QED BY <2>1 DEF Served
<1>4. KeyFits(j, request[j].spec, request[j].key)'
  BY <1>1, <1>2, <1>3 DEF KeyFits
<1> QED BY <1>1, <1>2, <1>4 DEF Keyed

\* The record takes the specification and the key of the request.
LEMMA KeyedWrite ==
  ASSUME RequestType, NEW j \in Jobs, Keyed(j), WriteRecord(j) \/ SendMessage(j)
  PROVE  Keyed(j)'
<1>1. /\ request \in [Jobs -> Request] /\ request[j] \in Request
      /\ allJobs \in [Jobs -> Record \cup {NoJob}]
  BY DEF RequestType
<1>2. /\ request'[j].at \in {"send", "sent", "failed"} /\ request'[j].kid = request[j].kid
      /\ request'[j].spec = request[j].spec /\ request'[j].key = request[j].key
      /\ request'[j].keyFailed = request[j].keyFailed /\ drmKeys' = drmKeys
  BY <1>1 DEF WriteRecord, SendMessage, MoveTo, Request
<1>3. \/ allJobs'[j] = allJobs[j]
      \/ /\ request[j].at = "write"
         /\ allJobs'[j] = [spec |-> request[j].spec, key |-> request[j].key]
  BY <1>1 DEF WriteRecord, SendMessage
<1>4. allJobs'[j] # NoJob =>
        /\ Good(allJobs'[j].spec)
        /\ KeyFits(j, allJobs[j].spec, allJobs[j].key)'
  <2>1. CASE allJobs'[j] = allJobs[j]
    BY <1>2, <2>1 DEF Keyed, KeyFits
  <2>2. CASE /\ request[j].at = "write"
             /\ allJobs'[j] = [spec |-> request[j].spec, key |-> request[j].key]
    <3>1. allJobs'[j].spec = request[j].spec /\ allJobs'[j].key = request[j].key
      BY <2>2
    <3> QED BY <1>2, <2>2, <3>1 DEF Keyed, KeyFits
  <2> QED BY <1>3, <2>1, <2>2
<1> QED BY <1>2, <1>4 DEF Keyed

\* Where a request is when its specification or its key has been dealt with.
LEMMA AfterRequest ==
  ASSUME RequestType, NEW j \in Jobs
  PROVE  /\ Submit(j) => request'[j].at \notin Written
         /\ CreateDrmKey(j) => request'[j].at \notin Written
         /\ GetDrmKey(j) => request'[j].at \notin Written
<1>1. request \in [Jobs -> Request] /\ request[j] \in Request
  BY DEF RequestType
<1>2. ASSUME Submit(j) PROVE request'[j].at \notin Written
  <2> PICK s \in Offered[j] : Submit(j)!(s)
    BY <1>2 DEF Submit
  <2> DEFINE a == [ok |-> AfterValidate(s), error |-> "rejected",
                   panic |-> "dropped"][Verdict(s)]
  <2>1. request'[j].at = a
    BY <1>1 DEF Request
  <2>2. \/ Verdict(s) = "ok" /\ a = AfterValidate(s)
        \/ Verdict(s) = "error" /\ a = "rejected"
        \/ Verdict(s) = "panic" /\ a = "dropped"
    <3>1. Verdict(s) \in Verdicts
      BY StreamSetupAssumption, VerdictOk
    <3> QED BY <3>1 DEF Verdicts
  <2>3. a \notin Written
    BY <2>2 DEF AfterValidate, Written, Sent
  <2> QED BY <2>1, <2>3
<1>3. CreateDrmKey(j) => request'[j].at \in {"getKey", "write"}
  BY <1>1 DEF CreateDrmKey, KeyCreated, ExchangeFailed, Request
<1>4. GetDrmKey(j) => request'[j].at = "write"
  BY <1>1 DEF GetDrmKey, ExchangeFailed, Request
<1> QED BY <1>2, <1>3, <1>4 DEF Written, Sent

\* The keys of a request stay among those generated.
LEMMA KeyFields ==
  ASSUME RequestType, KeysMinted, NEW j \in Jobs,
         \/ Submit(j) \/ CreateDrmKey(j) \/ GetDrmKey(j) \/ WriteRecord(j) \/ SendMessage(j)
  PROVE  request'[j].kid <= minted' /\ request'[j].key <= minted'
<1>1. /\ request \in [Jobs -> Request] /\ request[j] \in Request /\ minted \in Nat
      /\ request[j].kid \in Nat /\ request[j].key \in Nat
      /\ request[j].kid <= minted /\ request[j].key <= minted
  BY DEF RequestType, KeysMinted, Request
<1>2. CASE Submit(j)
  <2>1. request'[j].kid = request[j].kid /\ request'[j].key = request[j].key
        /\ minted' = minted
    <3> PICK s \in Offered[j] : Submit(j)!(s)
      BY <1>2 DEF Submit
    <3> QED BY <1>1 DEF Request
  <2> QED BY <1>1, <2>1
<1>3. CASE CreateDrmKey(j)
  <2>1. /\ minted' \in {minted, minted + 1}
        /\ request'[j].key = request[j].key
        /\ \/ request'[j].kid \in {request[j].kid, NoKey}
           \/ request'[j].kid = minted'
    <3>1. \A k : KeyCreated(j, k) =>
            request'[j].key = request[j].key /\ request'[j].kid = k
      BY <1>1 DEF KeyCreated, Request
    <3>2. ExchangeFailed(j) =>
            request'[j].key = request[j].key /\ request'[j].kid = request[j].kid
      BY <1>1 DEF ExchangeFailed, Request
    <3>3. \/ ExchangeFailed(j) \/ KeyCreated(j, NoKey)
          \/ KeyCreated(j, minted + 1) /\ minted' = minted + 1
      BY <1>3 DEF CreateDrmKey
    <3>4. minted' \in {minted, minted + 1}
      BY <1>3 DEF CreateDrmKey
    <3> QED BY <3>1, <3>2, <3>3, <3>4
  <2> QED BY <1>1, <2>1 DEF NoKey
<1>4. CASE GetDrmKey(j)
  <2>1. /\ minted' = minted /\ request'[j].kid = request[j].kid
        /\ request'[j].key \in {request[j].kid, request[j].key}
    BY <1>1, <1>4 DEF GetDrmKey, ExchangeFailed, Request
  <2> QED BY <1>1, <2>1
<1>5. CASE WriteRecord(j) \/ SendMessage(j)
  <2>1. request'[j].kid = request[j].kid /\ request'[j].key = request[j].key
        /\ minted' = minted
    BY <1>1, <1>5 DEF WriteRecord, SendMessage, MoveTo, Request
  <2> QED BY <1>1, <2>1
<1> QED BY <1>2, <1>3, <1>4, <1>5

\* The keys stay in order when a request is served.
LEMMA KeysInvRequest ==
  ASSUME Typed, KeysInv, RequestStep
  PROVE  KeysInv'
<1>1. RequestType /\ KeysMinted
  BY DEF Typed
<1> PICK j \in Jobs : \/ Submit(j) \/ CreateDrmKey(j) \/ GetDrmKey(j) \/ WriteRecord(j)
                      \/ SendMessage(j)
  BY DEF RequestStep
<1>2. Keyed(j)'
  BY <1>1, KeyedSubmit, KeyedCreate, KeyedGet, KeyedWrite DEF KeysInv
<1>3. ASSUME NEW k \in Jobs \ {j} PROVE Keyed(k)'
  BY <1>1, KeyedOther DEF KeysInv
<1>4. ASSUME NEW k \in drmKeys', NEW l \in drmKeys', k.id = l.id PROVE k = l
  <2>1. /\ k \in drmKeys \/ (k.id = minted + 1 /\ k.content = j)
        /\ l \in drmKeys \/ (l.id = minted + 1 /\ l.content = j)
    BY <1>1, RequestFrame
  <2>2. \A m \in drmKeys' : m = [id |-> m.id, content |-> m.content]
    <3>1. drmKeys' \subseteq [id : 1..minted', content : Jobs]
      <4>1. (drmKeys' = drmKeys /\ minted' = minted) \/ CreateDrmKey(j)
        BY DEF Submit, GetDrmKey, WriteRecord, SendMessage
      <4> QED BY <1>1, <4>1, CreateDrmKeyTyped DEF RequestType
    <3> QED BY <3>1
  <2>3. CASE k \in drmKeys /\ l \in drmKeys
    BY <1>4, <2>3 DEF KeysInv
  <2>4. CASE k \notin drmKeys \/ l \notin drmKeys
    <3>1. k.content = l.content
      BY <1>1, <1>4, <2>1, <2>4, StoredKey
    <3> QED BY <1>4, <2>2, <3>1
  <2> QED BY <2>3, <2>4
<1> QED BY <1>2, <1>3, <1>4 DEF KeysInv

\* A step of POST /jobs keeps every type.
LEMMA TypedRequest ==
  ASSUME Typed, KeysInv, RequestStep
  PROVE  Typed'
<1>1. RequestType /\ KeysMinted /\ AppType /\ Recorded /\ ProcessesRecorded
  BY DEF Typed
<1> PICK j \in Jobs : \/ Submit(j) \/ CreateDrmKey(j) \/ GetDrmKey(j) \/ WriteRecord(j)
                      \/ SendMessage(j)
  BY DEF RequestStep
<1>2. /\ UNCHANGED <<appVars, keyFile>>
      /\ request[j].at \notin Sent
      /\ \A k \in Jobs \ {j} : request'[k] = request[k] /\ allJobs'[k] = allJobs[k]
      /\ \/ faults' = faults
         \/ \E kind : Fail(kind)
  BY <1>1, RequestFrame
<1>3. /\ request' \in [Jobs -> Request] /\ minted' \in Nat
      /\ minted' \in {minted, minted + 1}
      /\ drmKeys' \subseteq [id : 1..minted', content : Jobs]
      /\ allJobs' \in [Jobs -> Record \cup {NoJob}]
  <2>1. CASE Submit(j)
    BY <1>1, <2>1, SubmitTyped DEF Submit, RequestType
  <2>2. CASE CreateDrmKey(j)
    BY <1>1, <2>2, CreateDrmKeyTyped DEF CreateDrmKey, RequestType
  <2>3. CASE GetDrmKey(j)
    BY <1>1, <2>3, GetDrmKeyTyped DEF GetDrmKey, RequestType
  <2>4. CASE WriteRecord(j) \/ SendMessage(j)
    <3>1. request[j].at = "write" => request[j].spec \in JobSpec
      BY DEF KeysInv, Keyed, Good
    <3>2. minted' = minted /\ drmKeys' = drmKeys
      BY <2>4 DEF WriteRecord, SendMessage
    <3> QED BY <1>1, <2>4, <3>1, <3>2, WriteAndSendTyped DEF RequestType
  <2> QED BY <2>1, <2>2, <2>3, <2>4
<1>4. RequestType'
  BY <1>1, <1>2, <1>3 DEF RequestType
<1>5. AppType'
  <2>1. faults' \in 0..FaultLimit
    BY <1>1, <1>2, FailType DEF AppType, AppTypeOK
  <2> QED BY <1>1, <1>2, <2>1 DEF AppType, AppTypeOK, appVars, OneStarts
<1>6. ProcessesRecorded'
  BY <1>1, <1>2 DEF ProcessesRecorded, AppType, AppTypeOK, Process, appVars, StoredSpec
<1>7. Recorded'
  <2>1. request'[j].at \in Written => WriteRecord(j) \/ SendMessage(j)
    <3>1. /\ Submit(j) => request'[j].at \notin Written
          /\ CreateDrmKey(j) => request'[j].at \notin Written
          /\ GetDrmKey(j) => request'[j].at \notin Written
      BY <1>1, AfterRequest
    <3> QED BY <3>1
  <2>2. request'[j].at \in Written => allJobs'[j] \in Record
    <3>1. ASSUME WriteRecord(j), request'[j].at \in Written PROVE allJobs'[j] \in Record
      <4>1. MoveTo(j, "failed") => request'[j].at = "failed"
        BY <1>1 DEF MoveTo, RequestType, Request
      <4>2. allJobs' = [allJobs EXCEPT ![j] = [spec |-> request[j].spec, key |-> request[j].key]]
        BY <3>1, <4>1 DEF WriteRecord, Written, Sent
      <4>3. request[j].spec \in JobSpec /\ request[j].key \in Nat
        BY <1>1, <3>1 DEF KeysInv, Keyed, Good, WriteRecord, RequestType, Request
      <4> QED BY <1>1, <4>2, <4>3 DEF RequestType, Record
    <3>2. ASSUME SendMessage(j) PROVE allJobs'[j] \in Record
      BY <1>1, <3>2 DEF SendMessage, Recorded, Written
    <3> QED BY <2>1, <3>1, <3>2
  <2> QED BY <1>1, <1>2, <2>2 DEF Recorded
<1>8. KeysMinted'
  <2>1. ASSUME NEW k \in Jobs \ {j}
        PROVE  /\ request'[k].kid <= minted' /\ request'[k].key <= minted'
               /\ allJobs'[k] # NoJob => allJobs'[k].key <= minted'
    BY <1>1, <1>2, <1>3, <2>1 DEF KeysMinted, RequestType, Request, Record
  <2>2. request'[j].kid <= minted' /\ request'[j].key <= minted'
    BY <1>1, <1>3, KeyFields
  <2>3. allJobs'[j] # NoJob => allJobs'[j].key <= minted'
    <3>1. CASE allJobs'[j] = allJobs[j]
      BY <1>1, <1>3, <3>1 DEF KeysMinted, RequestType, Record
    <3>2. CASE WriteRecord(j) /\ allJobs'[j] # allJobs[j]
      <4>1. allJobs'[j].key = request[j].key /\ minted' = minted
        BY <1>1, <3>2 DEF WriteRecord, RequestType
      <4> QED BY <1>1, <4>1 DEF KeysMinted
    <3> QED BY <1>1, <3>1, <3>2, RequestFrame DEF Submit, CreateDrmKey, GetDrmKey, SendMessage
  <2> QED BY <2>1, <2>2, <2>3 DEF KeysMinted
<1> QED BY <1>4, <1>5, <1>6, <1>7, <1>8 DEF Typed

(***************************************************************************)
(* The steps of the worker.                                                *)
(***************************************************************************)
\* The step of a process, after its launch; and one that leaves requests alone.
Runs(i) ==
  \/ StartPackager(i) \/ UploadKeyFile(i) \/ StartFfmpeg(i) \/ Serve(i)
  \/ (Exit(i) \/ Crash(i)) /\ UNCHANGED <<request, setupVars>>

ReadingsWritten(j) == WriteReadings(j) /\ UNCHANGED <<request, setupVars>>

WorkerStep ==
  \/ \E j \in Jobs : Launch(j) \/ Stop(j) \/ ReadingsWritten(j)
  \/ \E i \in DOMAIN proc : Launched(i) \/ NotLaunched(i) \/ Runs(i)
  \/ CheckJobStatus

\* Every step is one of the two kinds.
LEMMA StepKinds == Next => RequestStep \/ WorkerStep
BY DEF Next, RequestStep, WorkerStep, Runs, ReadingsWritten

\* What a step of the worker leaves of a request.
SameRequest(j) ==
  /\ request'[j].spec = request[j].spec /\ request'[j].kid = request[j].kid
  /\ request'[j].key = request[j].key /\ request'[j].keyFailed = request[j].keyFailed
  /\ \/ request'[j].at = request[j].at
     \/ request[j].at \in Sent /\ request'[j].at \in Sent

\* A worker moves the request of a job that has been sent, and nothing else of it.
LEMMA WorkerRequests ==
  ASSUME RequestType, AppType, ProcessesRecorded, WorkerStep
  PROVE  /\ UNCHANGED <<allJobs, drmKeys, minted>>
         /\ request' \in [Jobs -> Request]
         /\ \A j \in Jobs : SameRequest(j)
<1>1. request \in [Jobs -> Request]
  BY DEF RequestType
<1>2. ASSUME NEW j \in Jobs, request[j].at \in Sent, NEW a \in Sent, MoveTo(j, a)
      PROVE  request' \in [Jobs -> Request] /\ \A k \in Jobs : SameRequest(k)
  <2>1. request[j] \in Request
    BY <1>1
  <2>2. [request[j] EXCEPT !.at = a] \in Request
    BY <2>1, RequestUpdates DEF Sent, Points
  <2>3. request' = [request EXCEPT ![j] = [request[j] EXCEPT !.at = a]]
    BY <1>1, <1>2 DEF MoveTo
  <2>4. SameRequest(j)
    BY <1>1, <1>2, <2>1, <2>3 DEF SameRequest, Request
  <2>5. \A k \in Jobs \ {j} : SameRequest(k)
    BY <1>1, <2>3 DEF SameRequest
  <2> QED BY <1>1, <2>2, <2>3, <2>4, <2>5
<1>3. ASSUME request' = request
      PROVE  request' \in [Jobs -> Request] /\ \A k \in Jobs : SameRequest(k)
  BY <1>1, <1>3 DEF SameRequest
<1>4. \A i \in DOMAIN proc : proc[i].job \in Jobs /\ request[proc[i].job].at \in Sent
  BY DEF ProcessesRecorded, AppType, AppTypeOK, Process
<1>5. ASSUME NEW j \in Jobs, Launch(j) \/ Stop(j)
      PROVE  request' \in [Jobs -> Request] /\ \A k \in Jobs : SameRequest(k)
  BY <1>2, <1>5 DEF Launch, Stop, Sent
<1>6. ASSUME NEW i \in DOMAIN proc, Launched(i) \/ NotLaunched(i)
      PROVE  request' \in [Jobs -> Request] /\ \A k \in Jobs : SameRequest(k)
  BY <1>2, <1>4, <1>6 DEF Launched, NotLaunched, Sent
<1>7. ASSUME NEW i \in DOMAIN proc, Runs(i) PROVE request' = request
  BY <1>7 DEF Runs, StartPackager, UploadKeyFile, StartFfmpeg, Serve, mainVars
<1>8. ASSUME CheckJobStatus, request' # request
      PROVE  request' \in [Jobs -> Request] /\ \A k \in Jobs : SameRequest(k)
  <2>1. PICK S : request' = [j \in Jobs |->
             IF j \in S /\ request[j].at = "launched"
             THEN [request[j] EXCEPT !.at = "stopped"] ELSE request[j]]
    BY <1>8 DEF CheckJobStatus
  <2>2. ASSUME NEW j \in Jobs PROVE request'[j] \in Request /\ SameRequest(j)
    <3>1. request[j] \in Request
      BY <1>1
    <3>2. CASE j \in S /\ request[j].at = "launched"
      <4>1. request'[j] = [request[j] EXCEPT !.at = "stopped"]
        BY <2>1, <3>2
      <4>2. [request[j] EXCEPT !.at = "stopped"] \in Request
        BY <3>1, RequestUpdates DEF Points
      <4>3. SameRequest(j)
        BY <3>1, <3>2, <4>1 DEF SameRequest, Request, Sent
      <4> QED BY <4>1, <4>2, <4>3
    <3>3. CASE ~(j \in S /\ request[j].at = "launched")
      <4>1. request'[j] = request[j]
        BY <2>1, <3>3
      <4> QED BY <3>1, <4>1 DEF SameRequest
    <3> QED BY <3>2, <3>3
  <2>3. request' \in [Jobs -> Request]
    BY <2>1, <2>2
  <2> QED BY <2>2, <2>3
<1>9. UNCHANGED <<allJobs, drmKeys, minted>>
  BY DEF WorkerStep, Launch, Stop, ReadingsWritten, Launched, NotLaunched, Runs, StartPackager,
         UploadKeyFile, StartFfmpeg, Serve, CheckJobStatus, setupVars, mainVars
<1> QED BY <1>3, <1>5, <1>6, <1>7, <1>8, <1>9 DEF WorkerStep, ReadingsWritten

\* Processes that are counted want finitely many ports.
LEMMA OutputsFinite ==
  ASSUME AppType, NEW S \in SUBSET DOMAIN proc
  PROVE  IsFiniteSet(OutputsOf(S)) /\ Cardinality(OutputsOf(S)) \in Nat
<1> DEFINE P(i) == {i} \X (1..proc[i].counted)
           T == {P(i) : i \in S}
           f == [i \in S |-> P(i)]
<1>1. Len(proc) \in Nat /\ DOMAIN proc = 1..Len(proc) /\ \A i \in S : proc[i].counted \in Nat
  BY DEF AppType, AppTypeOK, Process
<1>2. IsFiniteSet(S)
  <2>1. IsFiniteSet(1..Len(proc))
    BY <1>1, FS_Interval
  <2> HIDE DEF P, T, f
  <2>2. S \in SUBSET (1..Len(proc))
    BY <1>1
  <2> QED BY <2>1, <2>2, FS_Subset
<1>3. IsFiniteSet(T)
  <2>1. f \in Surjection(S, T)
    BY DEF Surjection
  <2> HIDE DEF f, T
  <2> QED BY <1>2, <2>1, FS_Surjection
<1>4. ASSUME NEW i \in S PROVE IsFiniteSet(P(i))
  <2>1. IsFiniteSet(1..proc[i].counted)
    <3> DEFINE n == proc[i].counted
    <3>1. n \in Nat
      BY <1>1
    <3> HIDE DEF n
    <3>2. IsFiniteSet(1..n)
      BY <3>1, FS_Interval
    <3> QED BY <3>2 DEF n
  <2>2. IsFiniteSet({i})
    BY FS_Singleton
  <2> QED BY <2>1, <2>2, FS_Product
<1>5. IsFiniteSet(UNION T)
  <2>1. ASSUME NEW X \in T PROVE IsFiniteSet(X)
    <3> PICK i \in S : X = P(i)
      BY <2>1
    <3> QED BY <1>4
  <2> HIDE DEF T
  <2> QED BY <1>3, <2>1, FS_UNION
<1>6. OutputsOf(S) = UNION T
  BY DEF OutputsOf
<1> QED
  <2> HIDE DEF T
  <2>1. IsFiniteSet(OutputsOf(S))
    BY <1>5, <1>6
  <2> QED BY <2>1, FS_CardinalityType

\* What no step changes of a process: its launch; and that its port was returned,
\* or that it is gone.
SameRun(p, q) ==
  /\ q.job = p.job /\ q.port = p.port /\ q.base = p.base /\ q.key = p.key
  /\ q.fresh = p.fresh /\ q.counted = p.counted /\ q.seen = p.seen
  /\ p.released <= q.released
  /\ p.state = "gone" => q.state = "gone"

\* Each change of a process that the code makes gives a process of the same run.
LEMMA ProcessUpdates ==
  ASSUME NEW p \in Process
  PROVE  /\ SameRun(p, p)
         /\ p.state = "starting" => \A state \in States :
              LET q == [p EXCEPT !.state = state] IN
              q \in Process /\ SameRun(p, q) /\ q.state = state
         /\ p.state = "up" => \A stage \in Stages, c \in SUBSET {"packager", "ffmpeg"} :
              LET q == [p EXCEPT !.stage = stage, !.children = @ \cup c] IN
              q \in Process /\ SameRun(p, q) /\ q.state = "up"
         /\ p.state \in {"up", "signalled"} =>
              /\ Signalled(p) \in Process /\ SameRun(p, Signalled(p))
              /\ Signalled(p).released = p.released + 1
         /\ Ended(p) \in Process /\ SameRun(p, Ended(p))
         /\ Crashed(p) \in Process /\ SameRun(p, Crashed(p))
<1>1. p.released \in Nat
  BY DEF Process
<1>2. SameRun(p, p)
  BY <1>1 DEF SameRun
<1>3. ASSUME p.state = "starting", NEW state \in States
      PROVE  LET q == [p EXCEPT !.state = state] IN
             q \in Process /\ SameRun(p, q) /\ q.state = state
  <2> DEFINE q == [p EXCEPT !.state = state]
  <2>1. q \in Process
    BY <1>3 DEF Process
  <2>2. SameRun(p, q) /\ q.state = state
    BY <1>1, <1>3 DEF Process, SameRun
  <2> QED BY <2>1, <2>2
<1>4. ASSUME p.state = "up", NEW stage \in Stages, NEW c \in SUBSET {"packager", "ffmpeg"}
      PROVE  LET q == [p EXCEPT !.stage = stage, !.children = @ \cup c] IN
             q \in Process /\ SameRun(p, q) /\ q.state = "up"
  <2> DEFINE d == p.children \cup c
             q == [p EXCEPT !.stage = stage, !.children = @ \cup c]
  <2>1. d \in SUBSET {"packager", "ffmpeg"}
    BY DEF Process
  <2>2. q = [p EXCEPT !.stage = stage, !.children = d]
    OBVIOUS
  <2>3. q \in Process
    <3> HIDE DEF d
    <3>1. [p EXCEPT !.stage = stage, !.children = d] \in Process
      BY <2>1 DEF Process
    <3> QED BY <2>2, <3>1
  <2>4. SameRun(p, q) /\ q.state = "up"
    BY <1>1, <1>4 DEF Process, SameRun
  <2> QED BY <2>3, <2>4
<1>5. ASSUME p.state \in {"up", "signalled"}
      PROVE  /\ Signalled(p) \in Process /\ SameRun(p, Signalled(p))
             /\ Signalled(p).released = p.released + 1
  <2> DEFINE r == p.released + 1
             state == IF p.stage = "serving" THEN "signalled" ELSE "gone"
  <2>1. r \in Nat /\ state \in States
    BY <1>1 DEF States
  <2>2. Signalled(p) = [p EXCEPT !.state = state, !.released = r]
    BY DEF Signalled
  <2>3. Signalled(p) \in Process
    <3> HIDE DEF r, state
    <3>1. [p EXCEPT !.state = state, !.released = r] \in Process
      BY <2>1 DEF Process
    <3> QED BY <2>2, <3>1
  <2>4. SameRun(p, Signalled(p)) /\ Signalled(p).released = p.released + 1
    BY <1>1, <1>5 DEF Process, SameRun, Signalled
  <2> QED BY <2>3, <2>4
<1>6. Ended(p) \in Process /\ SameRun(p, Ended(p))
  <2>1. Ended(p) \in Process
    <3>1. "gone" \in States /\ {} \in SUBSET {"packager", "ffmpeg"}
      BY DEF States
    <3> QED BY <3>1 DEF Process, Ended
  <2>2. SameRun(p, Ended(p))
    BY <1>1 DEF Process, SameRun, Ended
  <2> QED BY <2>1, <2>2
<1>7. Crashed(p) \in Process /\ SameRun(p, Crashed(p))
  <2>1. Crashed(p) \in Process
    <3>1. "gone" \in States /\ TRUE \in BOOLEAN
      BY DEF States
    <3> QED BY <3>1 DEF Process, Crashed
  <2>2. SameRun(p, Crashed(p))
    BY <1>1 DEF Process, SameRun, Crashed
  <2> QED BY <2>1, <2>2
<1> QED BY <1>2, <1>3, <1>4, <1>5, <1>6, <1>7

\* Process i alone changes, and to this state.
Turns(i, state, stage, children, released) ==
  /\ proc' \in Seq(Process) /\ DOMAIN proc' = DOMAIN proc /\ Len(proc') = Len(proc)
  /\ proc'[i].state = state /\ proc'[i].stage = stage
  /\ proc'[i].children = children /\ proc'[i].released = released
  /\ \A k \in DOMAIN proc \ {i} : proc'[k] = proc[k]
  /\ \A k \in DOMAIN proc : SameRun(proc[k], proc'[k])

\* A process of the same run may take another's place.
LEMMA OneProcess ==
  ASSUME proc \in Seq(Process), NEW i \in DOMAIN proc, NEW q \in Process, SameRun(proc[i], q),
         proc' = [proc EXCEPT ![i] = q]
  PROVE  Turns(i, q.state, q.stage, q.children, q.released)
<1>1. DOMAIN proc = 1..Len(proc) /\ Len(proc) \in Nat /\ proc \in [1..Len(proc) -> Process]
  OBVIOUS
<1>2. proc' \in [1..Len(proc) -> Process] /\ Len(proc') = Len(proc)
  BY <1>1
<1>3. \A k \in DOMAIN proc : SameRun(proc[k], proc[k])
  BY <1>1, ProcessUpdates
<1> QED BY <1>1, <1>2, <1>3 DEF Turns

\* How each step changes a process.
LEMMA ProcessTurns ==
  ASSUME AppType, NEW i \in DOMAIN proc
  PROVE  LET p == proc[i] IN
         /\ Launched(i) => p.state = "starting" /\ Turns(i, "up", p.stage, p.children, p.released)
         /\ NotLaunched(i) =>
              /\ p.state = "starting"
              /\ \/ Turns(i, "unstarted", p.stage, p.children, p.released)
                 \/ Turns(i, "gone", p.stage, p.children, p.released)
         /\ \A stage \in Stages, c \in SUBSET {"packager", "ffmpeg"} :
              p.state = "up" /\ Started(i, stage, c) =>
                Turns(i, "up", stage, p.children \cup c, p.released)
         /\ p.state \in {"up", "signalled"} /\ proc' = [proc EXCEPT ![i] = Signalled(@)] =>
              Turns(i, IF p.stage = "serving" THEN "signalled" ELSE "gone", p.stage, p.children,
                    p.released + 1)
         /\ Exit(i) => p.state \in {"up", "signalled"} /\ Turns(i, "gone", p.stage, {}, p.released)
         /\ Crash(i) => /\ p.state \in {"up", "signalled"} /\ proc'[i].crashed
                        /\ Turns(i, "gone", p.stage, p.children, p.released)
<1> DEFINE p == proc[i]
<1>1. proc \in Seq(Process) /\ p \in Process
  BY DEF AppType
<1>2. ASSUME NEW state \in States, p.state = "starting", SetState(i, state)
      PROVE  Turns(i, state, p.stage, p.children, p.released)
  <2> DEFINE q == [p EXCEPT !.state = state]
  <2>1. q \in Process /\ SameRun(p, q)
    BY <1>1, <1>2, ProcessUpdates
  <2>2. proc' = [proc EXCEPT ![i] = q]
    BY <1>1, <1>2 DEF SetState
  <2>3. /\ q.state = state /\ q.stage = p.stage /\ q.children = p.children
        /\ q.released = p.released
    BY <1>1 DEF Process
  <2> HIDE DEF q
  <2>4. Turns(i, q.state, q.stage, q.children, q.released)
    BY <1>1, <2>1, <2>2, OneProcess
  <2> QED BY <2>3, <2>4
<1>3. ASSUME NEW stage \in Stages, NEW c \in SUBSET {"packager", "ffmpeg"}, p.state = "up",
             Started(i, stage, c)
      PROVE  Turns(i, "up", stage, p.children \cup c, p.released)
  <2> DEFINE q == [p EXCEPT !.stage = stage, !.children = @ \cup c]
  <2>1. q \in Process /\ SameRun(p, q)
    BY <1>1, <1>3, ProcessUpdates
  <2>2. proc' = [proc EXCEPT ![i] = q]
    BY <1>1, <1>3 DEF Started
  <2>3. /\ q.state = "up" /\ q.stage = stage /\ q.children = p.children \cup c
        /\ q.released = p.released
    BY <1>1, <1>3 DEF Process
  <2> HIDE DEF q
  <2>4. Turns(i, q.state, q.stage, q.children, q.released)
    BY <1>1, <2>1, <2>2, OneProcess
  <2> QED BY <2>3, <2>4
<1>4. ASSUME p.state \in {"up", "signalled"}, proc' = [proc EXCEPT ![i] = Signalled(@)]
      PROVE  Turns(i, IF p.stage = "serving" THEN "signalled" ELSE "gone", p.stage, p.children,
                   p.released + 1)
  <2> DEFINE q == Signalled(p)
  <2>1. q \in Process /\ SameRun(p, q)
    BY <1>1, <1>4, ProcessUpdates
  <2>2. proc' = [proc EXCEPT ![i] = q]
    BY <1>1, <1>4
  <2>3. /\ q.state = IF p.stage = "serving" THEN "signalled" ELSE "gone"
        /\ q.stage = p.stage /\ q.children = p.children /\ q.released = p.released + 1
    BY <1>1 DEF Process, Signalled
  <2> HIDE DEF q
  <2>4. Turns(i, q.state, q.stage, q.children, q.released)
    BY <1>1, <2>1, <2>2, OneProcess
  <2> QED BY <2>3, <2>4
<1>5. ASSUME Exit(i)
      PROVE  p.state \in {"up", "signalled"} /\ Turns(i, "gone", p.stage, {}, p.released)
  <2> DEFINE q == Ended(p)
  <2>1. q \in Process /\ SameRun(p, q)
    BY <1>1, ProcessUpdates
  <2>2. proc' = [proc EXCEPT ![i] = q]
    BY <1>1, <1>5 DEF Exit
  <2>3. /\ q.state = "gone" /\ q.stage = p.stage /\ q.children = {} /\ q.released = p.released
    BY <1>1 DEF Process, Ended
  <2>4. p.state \in {"up", "signalled"}
    BY <1>5 DEF Exit
  <2> HIDE DEF q
  <2>5. Turns(i, q.state, q.stage, q.children, q.released)
    BY <1>1, <2>1, <2>2, OneProcess
  <2> QED BY <2>3, <2>4, <2>5
<1>6. Launched(i) => p.state = "starting" /\ Turns(i, "up", p.stage, p.children, p.released)
  BY <1>2 DEF Launched, LaunchSucceeds, States
<1>7. NotLaunched(i) =>
        /\ p.state = "starting"
        /\ \/ Turns(i, "unstarted", p.stage, p.children, p.released)
           \/ Turns(i, "gone", p.stage, p.children, p.released)
  BY <1>2 DEF NotLaunched, LaunchFails, States
<1>8. ASSUME Crash(i)
      PROVE  /\ p.state \in {"up", "signalled"} /\ proc'[i].crashed
             /\ Turns(i, "gone", p.stage, p.children, p.released)
  <2> DEFINE q == Crashed(p)
  <2>1. q \in Process /\ SameRun(p, q)
    BY <1>1, ProcessUpdates
  <2>2. proc' = [proc EXCEPT ![i] = q]
    BY <1>1, <1>8 DEF Crash
  <2>3. /\ q.state = "gone" /\ q.stage = p.stage /\ q.children = p.children
        /\ q.released = p.released
    BY <1>1 DEF Process, Crashed
  <2>4. p.state \in {"up", "signalled"}
    BY <1>8 DEF Crash
  <2>5. q.crashed
    BY <1>1 DEF Process, Crashed
  <2> HIDE DEF q
  <2>6. Turns(i, q.state, q.stage, q.children, q.released)
    BY <1>1, <2>1, <2>2, OneProcess
  <2>7. proc'[i] = q
    BY <1>1, <2>2
  <2> QED BY <2>3, <2>4, <2>5, <2>6, <2>7
<1> QED BY <1>3, <1>4, <1>5, <1>6, <1>7, <1>8

\* A job that may be launched has a record.
LEMMA RecordOfSent ==
  ASSUME Recorded, NEW j \in Jobs, request[j].at \in Sent
  PROVE  /\ allJobs[j] \in Record /\ StoredSpec(j) \in JobSpec /\ allJobs[j].key \in Nat
         /\ allJobs[j] # NoJob /\ Outputs(StoredSpec(j)) \in Nat
<1>1. allJobs[j] \in Record /\ allJobs[j].spec \in JobSpec /\ allJobs[j].key \in Nat
  BY DEF Recorded, Written, Record
<1>2. allJobs[j] # NoJob
  <2>1. DOMAIN allJobs[j] = {"spec", "key"}
    BY <1>1 DEF Record
  <2>2. DOMAIN NoJob = {}
    BY DEF NoJob
  <2> QED BY <2>1, <2>2
<1>3. Len(StoredSpec(j).video) \in Nat /\ Len(StoredSpec(j).audio) \in Nat
  BY <1>1, RenditionList DEF StoredSpec
<1>4. Outputs(StoredSpec(j)) \in Nat
  <2> DEFINE v == Len(StoredSpec(j).video)
             a == Len(StoredSpec(j).audio)
  <2>1. Outputs(StoredSpec(j)) = v + a
    BY DEF Outputs
  <2>2. v \in Nat /\ a \in Nat
    BY <1>3
  <2> HIDE DEF v, a
  <2> QED BY <2>1, <2>2
<1> QED BY <1>1, <1>2, <1>4 DEF StoredSpec

\* The process that a launch adds.
Added(j) ==
  [job |-> j, state |-> "starting", stage |-> "begin", children |-> {},
   port |-> PortFor(j), base |-> UdpPortBase + Counted, key |-> allJobs[j].key,
   fresh |-> pool # <<>>, counted |-> Outputs(StoredSpec(j)), seen |-> entries,
   released |-> 0, crashed |-> FALSE]

\* A launch adds a process; the port comes from the pool, or from the record.
LEMMA LaunchAdds ==
  ASSUME AppType, Recorded, NEW j \in Jobs, Launch(j)
  PROVE  /\ proc' = Append(proc, Added(j)) /\ Added(j) \in Process
         /\ proc' \in Seq(Process) /\ DOMAIN proc' = DOMAIN proc \cup {Len(proc) + 1}
         /\ Len(proc) + 1 \notin DOMAIN proc /\ Len(proc) \in Nat
         /\ proc'[Len(proc) + 1] = Added(j)
         /\ \A i \in DOMAIN proc : proc'[i] = proc[i] /\ SameRun(proc[i], proc'[i])
         /\ pool' \in Seq(ListedPorts \cup {0})
<1>1. /\ proc \in Seq(Process) /\ pool \in Seq(ListedPorts \cup {0})
      /\ entries \subseteq DOMAIN proc
      /\ known[j] \in ListedPorts \cup {0}
      /\ DOMAIN proc = 1..Len(proc) /\ Len(proc) \in Nat
  BY DEF AppType, AppTypeOK
<1>2. PortFor(j) \in ListedPorts \cup {0} /\ pool' \in Seq(ListedPorts \cup {0})
  BY <1>1 DEF PortFor, PoolAfterAllocation, Launch, LaunchProcess
<1>3. UdpPortBase + Counted \in Nat
  BY <1>1, OutputsFinite DEF Counted, UdpPortBase
<1>4. allJobs[j].key \in Nat /\ Outputs(StoredSpec(j)) \in Nat
  BY RecordOfSent DEF Launch, Sent
<1>5. Added(j) \in Process
  <2> DEFINE port == PortFor(j)
             base == UdpPortBase + Counted
             key == allJobs[j].key
             fresh == pool # <<>>
             outputs == Outputs(StoredSpec(j))
  <2>1. port \in ListedPorts \cup {0} /\ base \in Nat /\ key \in Nat /\ outputs \in Nat
    BY <1>2, <1>3, <1>4
  <2>2. fresh \in BOOLEAN
    OBVIOUS
  <2>3. entries \in SUBSET Nat
    BY <1>1
  <2>4. Added(j) = [job |-> j, state |-> "starting", stage |-> "begin", children |-> {},
                    port |-> port, base |-> base, key |-> key, fresh |-> fresh,
                    counted |-> outputs, seen |-> entries, released |-> 0,
                    crashed |-> FALSE]
    BY DEF Added
  <2> HIDE DEF port, base, key, fresh, outputs
  <2> QED BY <2>1, <2>2, <2>3, <2>4 DEF Process, States, Stages
<1>6. proc' = Append(proc, Added(j))
  BY DEF Launch, LaunchProcess, Added
<1>7. ASSUME NEW i \in DOMAIN proc PROVE SameRun(proc[i], proc[i])
  <2>1. proc[i] \in Process
    BY <1>1
  <2> QED BY <2>1, ProcessUpdates
<1> HIDE DEF Added
<1>8. proc' \in Seq(Process) /\ Len(proc') = Len(proc) + 1 /\ proc'[Len(proc) + 1] = Added(j)
      /\ \A i \in 1..Len(proc) : proc'[i] = proc[i]
  BY <1>1, <1>5, <1>6
<1>9. DOMAIN proc' = 1..Len(proc) + 1
  BY <1>8
<1> QED BY <1>1, <1>2, <1>5, <1>6, <1>7, <1>8, <1>9

\* All processes end when worker_app does.
LEMMA PanicEnds ==
  ASSUME AppType, CheckPanics
  PROVE  /\ proc' \in Seq(Process) /\ DOMAIN proc' = DOMAIN proc
         /\ \A i \in DOMAIN proc : proc'[i] = Ended(proc[i]) /\ SameRun(proc[i], proc'[i])
<1>1. proc \in Seq(Process) /\ Len(proc) \in Nat /\ DOMAIN proc = 1..Len(proc)
  BY DEF AppType
<1>2. proc' = [i \in 1..Len(proc) |-> Ended(proc[i])]
  BY <1>1 DEF CheckPanics
<1>3. ASSUME NEW i \in DOMAIN proc
      PROVE  Ended(proc[i]) \in Process /\ SameRun(proc[i], Ended(proc[i]))
  <2>1. proc[i] \in Process
    BY <1>1
  <2> QED BY <2>1, ProcessUpdates
<1>4. proc' \in [1..Len(proc) -> Process]
  BY <1>1, <1>2, <1>3
<1>5. proc' \in Seq(Process) /\ DOMAIN proc' = DOMAIN proc
  BY <1>1, <1>4
<1> QED BY <1>1, <1>2, <1>3, <1>5

\* A running worker_transcoder changes its own process only, and ends up neither
\* starting nor unstarted.
LEMMA RunsTurns ==
  ASSUME AppType, NEW i \in DOMAIN proc, Runs(i)
  PROVE  /\ proc[i].state \in {"up", "signalled"}
         /\ \E state \in {"up", "gone"}, stage \in Stages,
               children \in SUBSET {"packager", "ffmpeg"} :
              Turns(i, state, stage, children, proc[i].released)
         /\ UNCHANGED <<alive, pool, table, entries, known, request, allJobs, drmKeys, minted>>
         /\ \/ faults' = faults
            \/ \E kind : Fail(kind)
<1>1. proc[i].children \in SUBSET {"packager", "ffmpeg"} /\ proc[i].stage \in Stages
  <2>1. proc[i] \in Process
    BY DEF AppType
  <2> QED BY <2>1 DEF Process
<1>2. ASSUME NEW stage \in Stages, NEW c \in SUBSET {"packager", "ffmpeg"},
             proc[i].state = "up", Started(i, stage, c)
      PROVE  \E state \in {"up", "gone"}, st \in Stages,
                children \in SUBSET {"packager", "ffmpeg"} :
               Turns(i, state, st, children, proc[i].released)
  <2>1. Turns(i, "up", stage, proc[i].children \cup c, proc[i].released)
    BY <1>2, ProcessTurns
  <2>2. proc[i].children \cup c \in SUBSET {"packager", "ffmpeg"}
    BY <1>1
  <2> QED BY <2>1, <2>2
<1>3. CASE StartPackager(i)
  <2>1. KeyStage(i) \in Stages
    BY DEF KeyStage, Stages
  <2> QED BY <1>2, <1>3, <2>1 DEF StartPackager, Starting, mainVars
<1>4. CASE UploadKeyFile(i)
  BY <1>2, <1>4 DEF UploadKeyFile, Starting, mainVars, Stages
<1>5. CASE StartFfmpeg(i)
  BY <1>2, <1>5 DEF StartFfmpeg, Starting, mainVars, Stages
<1>6. CASE Serve(i)
  BY <1>2, <1>6 DEF Serve, Starting, mainVars, Stages
<1>7. CASE Exit(i) /\ UNCHANGED <<request, setupVars>>
  <2>1. proc[i].state \in {"up", "signalled"}
        /\ Turns(i, "gone", proc[i].stage, {}, proc[i].released)
    BY <1>7, ProcessTurns
  <2>2. /\ UNCHANGED <<alive, pool, table, entries, known, request, allJobs, drmKeys, minted>>
        /\ \/ faults' = faults
           \/ \E kind : Fail(kind)
    BY <1>7 DEF Exit, setupVars
  <2> QED BY <1>1, <2>1, <2>2
<1>8. CASE Crash(i) /\ UNCHANGED <<request, setupVars>>
  <2>1. proc[i].state \in {"up", "signalled"}
        /\ Turns(i, "gone", proc[i].stage, proc[i].children, proc[i].released)
    BY <1>8, ProcessTurns
  <2>2. /\ UNCHANGED <<alive, pool, table, entries, known, request, allJobs, drmKeys, minted>>
        /\ \E kind : Fail(kind)
    BY <1>8 DEF Crash, setupVars
  <2> QED BY <1>1, <2>1, <2>2
<1> QED BY <1>3, <1>4, <1>5, <1>6, <1>7, <1>8 DEF Runs

\* A stop signals one process that runs, of the job it is asked for, and returns
\* its port to the pool.
LEMMA StopsOne ==
  ASSUME AppType, NEW j \in Jobs, Stop(j)
  PROVE  \E i \in DOMAIN proc :
           /\ proc[i].state \in {"up", "signalled"} /\ proc[i].job = j
           /\ proc' = [proc EXCEPT ![i] = Signalled(@)]
           /\ pool' = Append(pool, proc[i].port)
           /\ table' = [table EXCEPT ![j] = NoRecord]
           /\ \A k \in DOMAIN proc : proc[k].state # "starting"
           /\ UNCHANGED <<alive, entries, known, faults, allJobs, drmKeys, minted, keyFile>>
<1> DEFINE own == {i \in entries : proc[i].job = j}
           i == FirstEntry(j)
<1>1. entries \subseteq DOMAIN proc /\ DOMAIN proc \subseteq Nat
  BY DEF AppType, AppTypeOK
<1>2. i # 0
  BY DEF Stop, StopProcess
<1>3. i \in own
  <2>1. own # {} /\ i = Min(own)
    BY <1>2 DEF FirstEntry
  <2>2. own \in SUBSET Nat
    BY <1>1
  <2> HIDE DEF own, i
  <2> QED BY <2>1, <2>2, MinIn
<1>4. i \in DOMAIN proc /\ proc[i].job = j
  BY <1>1, <1>3
<1> QED BY <1>4 DEF Stop, StopProcess, ReturnedPort, setupVars

\* The processes keep their type and what was fixed when they were launched; only a
\* launch adds one.
LEMMA WorkerProcesses ==
  ASSUME AppType, Recorded, WorkerStep
  PROVE  /\ proc' \in Seq(Process)
         /\ \A i \in DOMAIN proc : i \in DOMAIN proc' /\ SameRun(proc[i], proc'[i])
         /\ \/ DOMAIN proc' = DOMAIN proc
            \/ \E j \in Jobs : Launch(j) /\ DOMAIN proc' = DOMAIN proc \cup {Len(proc) + 1}
<1>1. CASE \E j \in Jobs : Launch(j)
  BY <1>1, LaunchAdds
<1>2. CASE \E j \in Jobs : Stop(j)
  <2>1. PICK i \in DOMAIN proc : /\ proc[i].state \in {"up", "signalled"}
                                 /\ proc' = [proc EXCEPT ![i] = Signalled(@)]
    BY <1>2, StopsOne
  <2>2. Turns(i, IF proc[i].stage = "serving" THEN "signalled" ELSE "gone", proc[i].stage,
              proc[i].children, proc[i].released + 1)
    BY <2>1, ProcessTurns
  <2> QED BY <2>2 DEF Turns
<1>3. CASE \E i \in DOMAIN proc : Launched(i) \/ NotLaunched(i)
  <2>1. PICK i \in DOMAIN proc : \E state, stage, children, released :
                                   Turns(i, state, stage, children, released)
    BY <1>3, ProcessTurns
  <2> QED BY <2>1 DEF Turns
<1>4. CASE \E i \in DOMAIN proc : Runs(i)
  <2>1. PICK i \in DOMAIN proc : \E state, stage, children, released :
                                   Turns(i, state, stage, children, released)
    BY <1>4, RunsTurns
  <2> QED BY <2>1 DEF Turns
<1>5. CASE CheckPanics
  BY <1>5, PanicEnds
<1>6. CASE RemoveEntries \/ \E j \in Jobs : ReadingsWritten(j)
  <2>1. proc' = proc
    BY <1>6 DEF RemoveEntries, ReadingsWritten, WriteReadings
  <2>2. proc \in Seq(Process)
    BY DEF AppType
  <2>3. ASSUME NEW i \in DOMAIN proc PROVE SameRun(proc[i], proc[i])
    <3>1. proc[i] \in Process
      BY <2>2
    <3> QED BY <3>1, ProcessUpdates
  <2> QED BY <2>1, <2>2, <2>3
<1> QED BY <1>1, <1>2, <1>3, <1>4, <1>5, <1>6 DEF WorkerStep, CheckJobStatus

\* A process is being launched only if it was before, or if this step launches it.
LEMMA NoOtherStarts ==
  ASSUME AppType, Recorded, WorkerStep, \A j \in Jobs : ~Launch(j)
  PROVE  /\ DOMAIN proc' = DOMAIN proc
         /\ \A i \in DOMAIN proc : proc'[i].state = "starting" => proc[i].state = "starting"
         /\ \A i \in DOMAIN proc : Launched(i) \/ NotLaunched(i) => proc'[i].state # "starting"
<1>1. DOMAIN proc' = DOMAIN proc
  BY WorkerProcesses
<1>2. ASSUME NEW i \in DOMAIN proc, NEW state \in States \ {"starting"},
             \E stage, children, released : Turns(i, state, stage, children, released)
      PROVE  /\ proc'[i].state # "starting"
             /\ \A k \in DOMAIN proc : proc'[k].state = "starting" => proc[k].state = "starting"
  BY <1>2 DEF Turns
<1>3. ASSUME NEW i \in DOMAIN proc, Launched(i) \/ NotLaunched(i)
      PROVE  \E state \in States \ {"starting"} : \E stage, children, released :
               Turns(i, state, stage, children, released)
  <2>1. {"up", "unstarted", "gone"} \subseteq States \ {"starting"}
    BY DEF States
  <2> QED BY <1>3, <2>1, ProcessTurns
<1>4. ASSUME NEW i \in DOMAIN proc, Runs(i)
      PROVE  \E state \in States \ {"starting"} : \E stage, children, released :
               Turns(i, state, stage, children, released)
  <2>1. {"up", "gone"} \subseteq States \ {"starting"}
    BY DEF States
  <2> QED BY <1>4, <2>1, RunsTurns
<1>5. ASSUME NEW j \in Jobs, Stop(j)
      PROVE  \A k \in DOMAIN proc : proc'[k].state = "starting" => proc[k].state = "starting"
  <2>1. PICK i \in DOMAIN proc : /\ proc[i].state \in {"up", "signalled"}
                                 /\ proc' = [proc EXCEPT ![i] = Signalled(@)]
    BY <1>5, StopsOne
  <2>2. Turns(i, IF proc[i].stage = "serving" THEN "signalled" ELSE "gone", proc[i].stage,
              proc[i].children, proc[i].released + 1)
    BY <2>1, ProcessTurns
  <2>3. (IF proc[i].stage = "serving" THEN "signalled" ELSE "gone") \in States \ {"starting"}
    BY DEF States
  <2> QED BY <1>2, <2>2, <2>3
<1>6. ASSUME CheckPanics
      PROVE  \A k \in DOMAIN proc : proc'[k].state # "starting"
  <2>1. ASSUME NEW k \in DOMAIN proc PROVE proc'[k].state = "gone"
    <3>1. proc'[k] = Ended(proc[k]) /\ proc[k] \in Process
      BY <1>6, PanicEnds DEF AppType
    <3> QED BY <3>1 DEF Ended, Process
  <2> QED BY <2>1
<1>7. RemoveEntries \/ (\E j \in Jobs : ReadingsWritten(j)) => proc' = proc
  BY DEF RemoveEntries, ReadingsWritten, WriteReadings
<1>8. \A i \in DOMAIN proc : proc'[i].state = "starting" => proc[i].state = "starting"
  BY <1>2, <1>3, <1>4, <1>5, <1>6, <1>7 DEF WorkerStep, CheckJobStatus
<1>9. \A i \in DOMAIN proc : Launched(i) \/ NotLaunched(i) => proc'[i].state # "starting"
  BY <1>2, <1>3
<1> QED BY <1>1, <1>8, <1>9

\* The table of jobs holds ports, and the port of the process being launched.
LEMMA OneStartsWorker ==
  ASSUME AppType, Recorded, WorkerStep
  PROVE  OneStarts'
<1>1. proc \in Seq(Process) /\ OneStarts /\ table \in [Jobs -> ListedPorts \cup {0, NoRecord}]
      /\ \A i \in DOMAIN proc : proc[i] \in Process
  BY DEF AppType, AppTypeOK
<1>2. \A i \in DOMAIN proc : /\ proc[i].job \in Jobs /\ proc[i].port # NoRecord
                             /\ i \in DOMAIN proc'
                             /\ proc'[i].job = proc[i].job /\ proc'[i].port = proc[i].port
  <2>1. NoRecord \notin ListedPorts \cup {0}
    BY WorkerAppAssumption DEF NoRecord, ListedPorts
  <2>2. \A i \in DOMAIN proc : proc[i].job \in Jobs /\ proc[i].port # NoRecord
    BY <1>1, <2>1 DEF Process
  <2> QED BY <2>2, WorkerProcesses DEF SameRun
<1>3. CASE \E j \in Jobs : Launch(j)
  <2> PICK j \in Jobs : Launch(j)
    BY <1>3
  <2> DEFINE n == Len(proc) + 1
  <2>1. /\ DOMAIN proc' = DOMAIN proc \cup {n} /\ proc'[n] = Added(j)
        /\ \A i \in DOMAIN proc : proc'[i] = proc[i]
    BY LaunchAdds
  <2>2. \A i \in DOMAIN proc : proc[i].state # "starting"
    BY DEF Launch, LaunchProcess
  <2>3. Added(j).port = PortFor(j) /\ Added(j).job = j
    BY DEF Added
  <2>4. table'[j] = PortFor(j)
    BY <1>1 DEF Launch, LaunchProcess
  <2> HIDE DEF n
  <2> QED BY <2>1, <2>2, <2>3, <2>4 DEF OneStarts
<1>4. CASE \A j \in Jobs : ~Launch(j)
  <2>1. /\ DOMAIN proc' = DOMAIN proc
        /\ \A i \in DOMAIN proc : proc'[i].state = "starting" => proc[i].state = "starting"
        /\ \A i \in DOMAIN proc : Launched(i) \/ NotLaunched(i) => proc'[i].state # "starting"
    BY <1>4, NoOtherStarts
  <2>2. ASSUME NEW i \in DOMAIN proc, proc'[i].state = "starting"
        PROVE  table'[proc[i].job] = proc[i].port
    <3>1. proc[i].state = "starting" /\ table[proc[i].job] = proc[i].port
          /\ \A k \in DOMAIN proc : proc[k].state = "starting" => k = i
      BY <1>1, <2>1, <2>2 DEF OneStarts
    <3>2. CASE table' = table
      BY <3>1, <3>2
    <3>3. CASE \E j \in Jobs : Stop(j)
      BY <3>1, <3>3 DEF Stop, StopProcess
    <3>4. CASE \E k \in DOMAIN proc : Launched(k) \/ NotLaunched(k)
      <4>1. PICK k \in DOMAIN proc : Launched(k) \/ NotLaunched(k)
        BY <3>4
      <4>2. k = i
        BY <3>1, <4>1 DEF Launched, NotLaunched, LaunchSucceeds, LaunchFails
      <4> QED BY <2>1, <2>2, <4>1, <4>2
    <3>5. CASE \E j \in Jobs : ReadingsWritten(j)
      BY <1>1, <1>2, <3>1, <3>5 DEF ReadingsWritten, WriteReadings
    <3>6. (\E k \in DOMAIN proc : Runs(k)) \/ CheckJobStatus => table' = table
      BY RunsTurns DEF CheckJobStatus, RemoveEntries, CheckPanics
    <3> QED BY <1>4, <3>2, <3>3, <3>4, <3>5, <3>6 DEF WorkerStep
  <2> QED BY <1>1, <1>2, <2>1, <2>2 DEF OneStarts
<1> QED BY <1>3, <1>4

\* The variables of the worker keep their types.
LEMMA AppTypeWorker ==
  ASSUME AppType, Recorded, WorkerStep
  PROVE  AppType'
<1>1. /\ alive \in BOOLEAN /\ pool \in Seq(ListedPorts \cup {0})
      /\ table \in [Jobs -> ListedPorts \cup {0, NoRecord}]
      /\ entries \subseteq DOMAIN proc /\ proc \in Seq(Process)
      /\ \A i \in DOMAIN proc : proc[i] \in Process
      /\ known \in [Jobs -> ListedPorts \cup {0}] /\ faults \in 0..FaultLimit
  BY DEF AppType, AppTypeOK
<1>2. proc' \in Seq(Process) /\ \A i \in DOMAIN proc' : proc'[i] \in Process
  BY WorkerProcesses
<1>3. DOMAIN proc \subseteq DOMAIN proc'
  BY WorkerProcesses
<1>4. \A i \in DOMAIN proc : proc[i].job \in Jobs /\ proc[i].port \in ListedPorts \cup {0}
  BY <1>1 DEF Process
<1>5. ASSUME NEW j \in Jobs, Launch(j)
      PROVE  /\ alive' \in BOOLEAN /\ pool' \in Seq(ListedPorts \cup {0})
             /\ table' \in [Jobs -> ListedPorts \cup {0, NoRecord}]
             /\ entries' \subseteq DOMAIN proc'
             /\ known' \in [Jobs -> ListedPorts \cup {0}] /\ faults' \in 0..FaultLimit
  <2>1. PortFor(j) \in ListedPorts \cup {0}
    <3>1. known[j] \in ListedPorts \cup {0}
      BY <1>1
    <3>2. pool # <<>> => Head(pool) \in ListedPorts \cup {0}
      BY <1>1
    <3> QED BY <3>1, <3>2 DEF PortFor
  <2>2. table' = [table EXCEPT ![j] = PortFor(j)] /\ entries' = entries \cup {Len(proc) + 1}
        /\ UNCHANGED <<alive, known, faults>>
    BY <1>5 DEF Launch, LaunchProcess
  <2>3. pool' \in Seq(ListedPorts \cup {0}) /\ DOMAIN proc' = DOMAIN proc \cup {Len(proc) + 1}
    BY <1>5, LaunchAdds
  <2> QED BY <1>1, <2>1, <2>2, <2>3
<1>6. ASSUME NEW j \in Jobs, Stop(j)
      PROVE  /\ alive' \in BOOLEAN /\ pool' \in Seq(ListedPorts \cup {0})
             /\ table' \in [Jobs -> ListedPorts \cup {0, NoRecord}]
             /\ entries' \subseteq DOMAIN proc'
             /\ known' \in [Jobs -> ListedPorts \cup {0}] /\ faults' \in 0..FaultLimit
  <2>1. PICK i \in DOMAIN proc : /\ pool' = Append(pool, proc[i].port)
                                 /\ table' = [table EXCEPT ![j] = NoRecord]
                                 /\ UNCHANGED <<alive, entries, known, faults>>
    BY <1>6, StopsOne
  <2>2. Append(pool, proc[i].port) \in Seq(ListedPorts \cup {0})
    BY <1>1, <1>4, AppendProperties
  <2> QED BY <1>1, <1>3, <2>1, <2>2
<1>7. ASSUME NEW i \in DOMAIN proc, Launched(i) \/ NotLaunched(i)
      PROVE  /\ table' \in [Jobs -> ListedPorts \cup {0, NoRecord}]
             /\ known' \in [Jobs -> ListedPorts \cup {0}] /\ faults' \in 0..FaultLimit
             /\ UNCHANGED <<alive, pool, entries>>
  <2>1. CASE Launched(i)
    <3>1. table[proc[i].job] = proc[i].port
      BY <2>1 DEF AppType, OneStarts, Launched, LaunchSucceeds
    <3> QED BY <1>1, <1>4, <2>1, <3>1 DEF Launched, LaunchSucceeds
  <2>2. CASE NotLaunched(i)
    <3>1. faults' \in 0..FaultLimit
      BY <1>1, <2>2, FailType DEF NotLaunched, LaunchFails
    <3> QED BY <1>1, <1>4, <2>2, <3>1 DEF NotLaunched, LaunchFails
  <2> QED BY <1>7, <2>1, <2>2
<1>8. ASSUME NEW j \in Jobs, ReadingsWritten(j)
      PROVE  /\ table' \in [Jobs -> ListedPorts \cup {0, NoRecord}]
             /\ faults' \in 0..FaultLimit /\ UNCHANGED <<alive, pool, entries, known>>
  <2>1. faults' \in 0..FaultLimit
    BY <1>1, <1>8, FailType DEF ReadingsWritten, WriteReadings
  <2> QED BY <1>1, <1>4, <1>8, <2>1 DEF ReadingsWritten, WriteReadings
<1>9. ASSUME NEW i \in DOMAIN proc, Runs(i)
      PROVE  UNCHANGED <<alive, pool, table, entries, known>> /\ faults' \in 0..FaultLimit
  BY <1>1, <1>9, RunsTurns, FailType
<1>10. ASSUME CheckJobStatus
       PROVE  /\ UNCHANGED <<pool, table, known, faults>> /\ alive' \in BOOLEAN
              /\ entries' \subseteq entries
  BY <1>1, <1>10 DEF CheckJobStatus, RemoveEntries, CheckPanics
<1>11. AppTypeOK'
  <2>1. /\ alive' \in BOOLEAN /\ pool' \in Seq(ListedPorts \cup {0})
        /\ table' \in [Jobs -> ListedPorts \cup {0, NoRecord}]
        /\ entries' \subseteq DOMAIN proc'
        /\ known' \in [Jobs -> ListedPorts \cup {0}] /\ faults' \in 0..FaultLimit
    BY <1>1, <1>3, <1>5, <1>6, <1>7, <1>8, <1>9, <1>10 DEF WorkerStep
  <2> QED BY <1>2, <2>1 DEF AppTypeOK, ListedPorts
<1> QED BY <1>2, <1>11, OneStartsWorker DEF AppType

\* The key file of a job holds a key of a process of that job, or none.
LEMMA KeyFileWorker ==
  ASSUME RequestType, AppType, WorkerStep
  PROVE  keyFile' \in [Jobs -> Nat \cup {FileFailed}]
<1>1. keyFile \in [Jobs -> Nat \cup {FileFailed}]
  BY DEF RequestType
<1>2. ASSUME NEW i \in DOMAIN proc, UploadKeyFile(i)
      PROVE  keyFile' \in [Jobs -> Nat \cup {FileFailed}]
  <2>1. proc[i].job \in Jobs /\ proc[i].key \in Nat
    <3>1. proc[i] \in Process
      BY DEF AppType
    <3> QED BY <3>1 DEF Process
  <2> QED BY <1>1, <1>2, <2>1 DEF UploadKeyFile
<1>3. keyFile' = keyFile \/ \E i \in DOMAIN proc : UploadKeyFile(i)
  BY DEF WorkerStep, Launch, Stop, ReadingsWritten, Launched, NotLaunched, Runs, StartPackager,
         StartFfmpeg, Serve, CheckJobStatus, setupVars
<1> QED BY <1>1, <1>2, <1>3

\* A step of the worker keeps every type.
LEMMA TypedWorker ==
  ASSUME Typed, WorkerStep
  PROVE  Typed'
<1>1. RequestType /\ KeysMinted /\ AppType /\ Recorded /\ ProcessesRecorded
  BY DEF Typed
<1>2. /\ UNCHANGED <<allJobs, drmKeys, minted>>
      /\ request' \in [Jobs -> Request] /\ \A j \in Jobs : SameRequest(j)
  BY <1>1, WorkerRequests
<1>3. RequestType'
  BY <1>1, <1>2, KeyFileWorker DEF RequestType
<1>4. KeysMinted'
  BY <1>1, <1>2 DEF KeysMinted, SameRequest
<1>5. AppType'
  BY <1>1, AppTypeWorker
<1>6. Recorded'
  BY <1>1, <1>2 DEF Recorded, SameRequest, Written
<1>7. ProcessesRecorded'
  <2>1. ASSUME NEW i \in DOMAIN proc
        PROVE  /\ request'[proc'[i].job].at \in Sent
               /\ proc'[i].key = allJobs'[proc'[i].job].key
               /\ proc'[i].counted = Outputs(StoredSpec(proc[i].job))'
    <3>1. SameRun(proc[i], proc'[i]) /\ proc[i].job \in Jobs
      <4>1. proc[i] \in Process
        BY <1>1 DEF AppType
      <4> QED BY <1>1, <4>1, WorkerProcesses DEF Process
    <3> QED BY <1>1, <1>2, <3>1 DEF ProcessesRecorded, SameRun, SameRequest, StoredSpec
  <2>2. ASSUME NEW j \in Jobs, Launch(j), NEW i, i = Len(proc) + 1
        PROVE  /\ request'[proc'[i].job].at \in Sent
               /\ proc'[i].key = allJobs'[proc'[i].job].key
               /\ proc'[i].counted = Outputs(StoredSpec(proc[i].job))'
    <3>1. proc'[i] = Added(j)
      BY <1>1, <2>2, LaunchAdds
    <3>2. Added(j).job = j /\ Added(j).key = allJobs[j].key
          /\ Added(j).counted = Outputs(StoredSpec(j))
      BY DEF Added
    <3>3. request'[j].at \in Sent
      BY <1>1, <1>2, <2>2 DEF Launch, SameRequest, Sent
    <3> QED BY <1>2, <3>1, <3>2, <3>3 DEF StoredSpec
  <2> QED BY <1>1, <2>1, <2>2, WorkerProcesses DEF ProcessesRecorded
<1> QED BY <1>3, <1>4, <1>5, <1>6, <1>7 DEF Typed

(***************************************************************************)
(* The inductive invariant that the theorems about requests rest on.       *)
(***************************************************************************)
Core == Typed /\ KeysInv

\* A step of the worker leaves the keys in order.
LEMMA KeysInvWorker ==
  ASSUME Typed, KeysInv, WorkerStep
  PROVE  KeysInv'
<1>1. /\ UNCHANGED <<allJobs, drmKeys, minted>> /\ \A j \in Jobs : SameRequest(j)
  BY WorkerRequests DEF Typed
<1>2. ASSUME NEW j \in Jobs PROVE Keyed(j)'
  <2>1. Keyed(j) /\ SameRequest(j)
    BY <1>1 DEF KeysInv
  <2> QED BY <1>1, <2>1 DEF Keyed, SameRequest, KeyFits, Sent
<1> QED BY <1>1, <1>2 DEF KeysInv

\* Core holds in every state.
LEMMA CoreHolds == Spec => []Core
<1>1. Init => Core
  BY TypedInit, KeysInvInit DEF Core
<1>2. Core /\ [Next]_vars => Core'
  <2> SUFFICES ASSUME Core, [Next]_vars PROVE Core'
    OBVIOUS
  <2>1. CASE RequestStep
    BY <2>1, TypedRequest, KeysInvRequest DEF Core
  <2>2. CASE WorkerStep
    BY <2>2, TypedWorker, KeysInvWorker DEF Core
  <2>3. CASE UNCHANGED vars
    <3>1. Typed'
      BY <2>3 DEF Core, Typed, vars, appVars, RequestType, KeysMinted, AppType, AppTypeOK,
                  OneStarts, Recorded, ProcessesRecorded, StoredSpec
    <3>2. KeysInv'
      BY <2>3 DEF Core, vars, KeysInv, Keyed, KeyFits
    <3> QED BY <3>1, <3>2 DEF Core
  <2> QED BY <2>1, <2>2, <2>3, StepKinds
<1> QED BY <1>1, <1>2, PTL DEF Spec

\* The variables of the pipeline have their types: the requests, records and keys
\* of the API server, and the worker's pool, table and processes.
THEOREM TypeCorrect == Spec => []TypeOK
<1>1. Core => TypeOK
  <2> SUFFICES ASSUME Core PROVE TypeOK
    OBVIOUS
  <2>1. RequestType /\ KeysMinted /\ AppType
    BY DEF Core, Typed
  <2>2. ASSUME NEW j \in Jobs
        PROVE  /\ request[j].at \in Points
               /\ request[j].kid \in 0..minted /\ request[j].key \in 0..minted
               /\ request[j].keyFailed \in BOOLEAN
               /\ allJobs[j] # NoJob => allJobs[j].key \in 0..minted
    <3>1. /\ request[j].at \in Points /\ request[j].kid \in Nat /\ request[j].key \in Nat
          /\ allJobs[j] # NoJob => allJobs[j].key \in Nat
          /\ minted \in Nat
      BY <2>1 DEF RequestType, Request, Record
    <3>2. \A n \in Nat : n <= minted => n \in 0..minted
      BY <3>1
    <3>3. request[j].keyFailed \in BOOLEAN
      <4>1. request[j] \in Request
        BY <2>1 DEF RequestType
      <4> QED BY <4>1, Zenon DEF Request
    <3> QED BY <2>1, <3>1, <3>2, <3>3 DEF KeysMinted
  <2>3. DOMAIN request = Jobs /\ DOMAIN allJobs = Jobs
    BY <2>1 DEF RequestType
  <2> QED BY <2>1, <2>2, <2>3 DEF TypeOK, RequestType, AppType
<1> QED BY <1>1, CoreHolds, PTL

\* The key of a record can be fetched from the key server, was generated for the
\* job of the record alone, and only because the client asked for protection.
THEOREM KeyServed == Spec => []KeyIsServed
<1>1. Core => KeyIsServed
  <2> SUFFICES ASSUME Core, NEW j \in Jobs, allJobs[j] # NoJob, allJobs[j].key # NoKey
               PROVE  /\ DrmConfigured(StoredSpec(j))
                      /\ [id |-> allJobs[j].key, content |-> j] \in drmKeys
                      /\ \A k \in Jobs \ {j} :
                           allJobs[k] # NoJob => allJobs[k].key # allJobs[j].key
    BY DEF KeyIsServed
  <2>1. \A k \in Jobs : allJobs[k] # NoJob => KeyFits(k, allJobs[k].spec, allJobs[k].key)
    BY DEF Core, KeysInv, Keyed
  <2>2. /\ allJobs[j].spec.drm.system # ""
        /\ [id |-> allJobs[j].key, content |-> j] \in drmKeys
    BY <2>1 DEF KeyFits
  <2>3. ASSUME NEW k \in Jobs \ {j}, allJobs[k] # NoJob, allJobs[k].key = allJobs[j].key
        PROVE  FALSE
    <3>1. [id |-> allJobs[j].key, content |-> k] \in drmKeys
      BY <2>1, <2>3 DEF KeyFits
    <3>2. [id |-> allJobs[j].key, content |-> k] = [id |-> allJobs[j].key, content |-> j]
      BY <2>2, <3>1 DEF Core, KeysInv
    <3> QED BY <3>2
  <2> QED BY <2>2, <2>3 DEF DrmConfigured, StoredSpec
<1> QED BY <1>1, CoreHolds, PTL

\* A specification that is accepted and normal is within the limits.
LEMMA GoodWithinLimits ==
  ASSUME NEW s, Good(s)
  PROVE  WithinLimits(s)
<1>1. /\ s \in JobSpec /\ Normalized(s) = s /\ DetectionVerdict(s) = "ok" /\ CountVerdict(s) = "ok"
      /\ \A i \in DOMAIN s.video : VideoVerdict(s.video[i]) = "ok"
      /\ \A i \in DOMAIN s.audio : AudioVerdict(s.audio[i]) = "ok"
  BY VerdictOk DEF Good
<1>2. s.segment \in 1..30 /\ s.fragment \in 1..10 /\ s.fragment <= s.segment
      /\ s.timeShift <= 14400
  <2>1. s.segment = SegmentOr4(s.segment) /\ s.fragment = FragmentOr1(s)
        /\ s.timeShift = AtMost(s.timeShift, 14400)
    BY <1>1, NormalizedFields
  <2> QED BY <1>1, <2>1, DurationLimits
<1>3. s.video = <<>> => NeedObjectDetection(s)
  BY <1>1 DEF CountVerdict, Require
<1>4. ASSUME NEW i \in DOMAIN s.video
      PROVE  /\ \A r \in {s.video[i].bitrate, s.video[i].maxBitrate, s.video[i].bufSize} :
                  r.form = "nan" \/ (r.form = "number" /\ r.kbps >= 0)
             /\ s.video[i].bitrate.kbps <= 10000
             /\ (s.video[i].codec = "av1") = (s.video[i].preset \in NumericPresets)
  <2>1. s.video[i] \in VideoOutput
    BY <1>1 DEF JobSpec
  <2>2. /\ \A r \in {s.video[i].bitrate, s.video[i].maxBitrate, s.video[i].bufSize} :
             r.form \in {"number", "nan"} /\ NotNegative(r)
        /\ s.video[i].bitrate.kbps <= 10000
        /\ s.video[i].codec = "av1" <=> s.video[i].preset \in NumericPresets
    BY <1>1, <2>1, VideoVerdictOk
  <2> QED BY <2>2 DEF NotNegative
<1>5. ASSUME NEW k \in DOMAIN s.audio PROVE s.audio[k].bitrate.form \in {"number", "nan"}
  <2>1. s.audio[k] \in AudioOutput
    BY <1>1 DEF JobSpec
  <2> QED BY <1>1, <2>1, AudioVerdictOk
<1>6. NeedObjectDetection(s) => s.detection.crf \in 23..51
  BY <1>1, DetectorNormal
<1> QED BY <1>2, <1>3, <1>4, <1>5, <1>6 DEF WithinLimits

\* Whatever clients send, a stored specification is within the limits that
\* validator.go names, and Validate would accept it again without a change.
THEOREM AdmittedNormal == Spec => []AdmittedIsNormal
<1>1. Core => AdmittedIsNormal
  BY GoodWithinLimits DEF Core, KeysInv, Keyed, AdmittedIsNormal, StoredSpec, Good
<1> QED BY <1>1, CoreHolds, PTL

(***************************************************************************)
(* What a process that streams was given.                                  *)
(***************************************************************************)
\* A process runs an accepted specification with the key that fits it.
LEMMA ProcessSpec ==
  ASSUME Core, NEW i \in DOMAIN proc
  PROVE  /\ proc[i].job \in Jobs /\ Good(SpecOf(i)) /\ proc[i].base \in Nat
         /\ KeyFits(proc[i].job, SpecOf(i), proc[i].key)
         /\ proc[i].key \in Nat /\ proc[i].counted \in Nat
         /\ proc[i].counted = Outputs(SpecOf(i))
<1>1. proc[i] \in Process
  BY DEF Core, Typed, AppType
<1>2. /\ proc[i].job \in Jobs /\ proc[i].base \in Nat /\ proc[i].key \in Nat
      /\ proc[i].counted \in Nat
  BY <1>1 DEF Process
<1>3. /\ request[proc[i].job].at \in Sent /\ proc[i].key = allJobs[proc[i].job].key
      /\ proc[i].counted = Outputs(SpecOf(i))
  BY DEF Core, Typed, ProcessesRecorded, SpecOf
<1>4. allJobs[proc[i].job] # NoJob
  BY <1>2, <1>3, RecordOfSent DEF Core, Typed
<1>5. Keyed(proc[i].job)
  BY <1>2 DEF Core, KeysInv
<1>6. Good(SpecOf(i)) /\ KeyFits(proc[i].job, SpecOf(i), proc[i].key)
  BY <1>3, <1>4, <1>5 DEF Keyed, SpecOf, StoredSpec
<1> QED BY <1>2, <1>3, <1>6

\* A stream goes out in the clear only if its client did not ask for protection,
\* the key exchange failed, or it is DASH or AV1; and it is encrypted only if the
\* client asked.
THEOREM ClearOnly == Spec => []ClearOnlyIf
<1>1. Core => ClearOnlyIf
  <2> SUFFICES ASSUME Core, NEW i \in DOMAIN proc
               PROVE  IF Encrypted(i) THEN DrmConfigured(SpecOf(i))
                      ELSE DrmConfigured(SpecOf(i)) =>
                             \/ request[proc[i].job].keyFailed
                             \/ SpecOf(i).type = "dash"
                             \/ HasAV1Output(SpecOf(i))
    BY DEF ClearOnlyIf
  <2> DEFINE s == SpecOf(i)
  <2>1. /\ s \in JobSpec /\ Verdict(s) = "ok" /\ s.type \in {"hls", "dash"} /\ DrmVerdict(s) = "ok"
        /\ KeyFits(proc[i].job, s, proc[i].key)
    BY ProcessSpec, VerdictOk DEF Good
  <2>2. DrmConfigured(s) => s.drm.disableClearKey = 0
    BY <2>1 DEF DrmVerdict, Require
  <2>3. proc[i].key # NoKey => DrmConfigured(s)
    BY <2>1 DEF KeyFits, DrmConfigured
  <2>4. DrmConfigured(s) => proc[i].key # NoKey \/ request[proc[i].job].keyFailed
    BY <2>1 DEF KeyFits
  <2> HIDE DEF s
  <2>5. Encrypted(i) <=> ~HasAV1Output(s) /\ Encrypts(s, proc[i].key, NoKey)
    BY DEF Encrypted, s
  <2>6. Encrypts(s, proc[i].key, NoKey) <=>
          proc[i].key # NoKey /\ s.type = "hls" /\ s.drm.disableClearKey = 0
    BY DEF Encrypts
  <2>7. IF Encrypted(i) THEN DrmConfigured(s)
        ELSE DrmConfigured(s) => \/ request[proc[i].job].keyFailed
                                 \/ s.type = "dash" \/ HasAV1Output(s)
    BY <2>1, <2>2, <2>3, <2>4, <2>5, <2>6
  <2> QED BY <2>7 DEF s
<1> QED BY <1>1, CoreHolds, PTL

\* Every packager reads at each of its ports the one rendition that it labels, and
\* no port of it is ffprobe's; without a packager, ffmpeg's command is complete
\* unless it is given a rendition that is not AV1.
THEOREM WiredRight == Spec => []RenditionsWired
<1>1. Core => RenditionsWired
  <2> SUFFICES ASSUME Core, NEW i \in DOMAIN proc
               PROVE  IF HasAV1Output(SpecOf(i))
                      THEN \/ EncoderComplete(SpecOf(i))
                           \/ NeedObjectDetection(SpecOf(i))
                           \/ \E n \in DOMAIN SpecOf(i).video : SpecOf(i).video[n].codec # "av1"
                      ELSE \A in \in PackagerInputs(SpecOf(i), proc[i].base) :
                             {o \in FfmpegOutputs(SpecOf(i), proc[i].base) : o.port = in.port} =
                               {[port |-> in.port, kind |-> in.kind, n |-> in.n]}
    BY DEF RenditionsWired
  <2> DEFINE s == SpecOf(i)
  <2>1. s \in JobSpec /\ proc[i].base \in Nat /\ CountVerdict(s) = "ok" /\ Len(s.audio) <= 5
    BY ProcessSpec, VerdictOk DEF Good
  <2>2. Len(s.video) <= 10
    BY <2>1 DEF CountVerdict, Require
  <2> HIDE DEF s
  <2>3. \/ EncoderComplete(s) \/ NeedObjectDetection(s)
        \/ \E n \in DOMAIN s.video : s.video[n].codec # "av1"
    <3>1. CASE ~NeedObjectDetection(s)
      <4>1. Renditions(s) = OwnRenditions(s)
        BY <3>1 DEF Renditions
      <4> QED BY <4>1 DEF EncoderComplete, OwnRenditions, Encoded
    <3> QED BY <3>1
  <2>4. \A in \in PackagerInputs(s, proc[i].base) :
          {o \in FfmpegOutputs(s, proc[i].base) : o.port = in.port} =
            {[port |-> in.port, kind |-> in.kind, n |-> in.n]}
    BY <2>1, <2>2, OneStreamPerPort
  <2> QED BY <2>3, <2>4 DEF s
<1> QED BY <1>1, CoreHolds, PTL

\* No two renditions of a stream write into one directory, and one is kept from
\* upload for the detector, unless the client's bitrates make them clash; just
\* one unless that for the detector is missing, malformed or part of another.
THEOREM KeptApart == Spec => []RenditionsApart
<1>1. Core => RenditionsApart
  <2> SUFFICES ASSUME Core, NEW i \in DOMAIN proc, ~RatesClash(SpecOf(i))
               PROVE  LET s == SpecOf(i)
                          ins == PackagerInputs(s, proc[i].base)
                          target == s.detection.bitrate
                          held == {in \in ins : IsDetectionTarget(in.dir, target)} IN
                      /\ \A a, b \in ins : a.kind = b.kind /\ a.dir = b.dir => a = b
                      /\ NeedObjectDetection(s) => held # {}
                      /\ NeedObjectDetection(s) =>
                           \/ target.form \in {"empty", "malformed"}
                           \/ \E r \in (VideoRates(s) \cup AudioRates(s)) \ {target} :
                                EndsWith(r.kbps, target.kbps)
                           \/ target \in AudioRates(s)
                           \/ Cardinality(held) = 1
    BY DEF RenditionsApart
  <2> DEFINE s == SpecOf(i)
             base == proc[i].base
  <2>1. s \in JobSpec
    BY ProcessSpec DEF Good
  <2>2. VideoRates(s) = BitratesOf(s.video) /\ AudioRates(s) = BitratesOf(s.audio)
    BY DEF VideoRates, AudioRates, BitratesOf
  <2>3. /\ ~(Cardinality(BitratesOf(s.video)) < Len(s.video))
        /\ ~(Cardinality(BitratesOf(s.audio)) < Len(s.audio))
        /\ NeedObjectDetection(s) /\ s.detection.bitrate = NoRate
             => Kbps(150) \notin BitratesOf(s.video)
    BY <2>2 DEF RatesClash
  <2> HIDE DEF s, base
  <2>4. \A a, b \in PackagerInputs(s, base) : a.kind = b.kind /\ a.dir = b.dir => a = b
    BY <2>1, <2>3, DirectoriesDiffer
  <2>5. NeedObjectDetection(s) =>
          {in \in PackagerInputs(s, base) : IsDetectionTarget(in.dir, s.detection.bitrate)} # {}
    <3>1. NeedObjectDetection(s) =>
            \E in \in PackagerInputs(s, base) : IsDetectionTarget(in.dir, s.detection.bitrate)
      BY <2>1, DetectorFed
    <3> QED BY <3>1
  <2>6. NeedObjectDetection(s) =>
          \/ s.detection.bitrate.form \in {"empty", "malformed"}
          \/ \E r \in (VideoRates(s) \cup AudioRates(s)) \ {s.detection.bitrate} :
               EndsWith(r.kbps, s.detection.bitrate.kbps)
          \/ s.detection.bitrate \in AudioRates(s)
          \/ Cardinality({in \in PackagerInputs(s, base) :
                            IsDetectionTarget(in.dir, s.detection.bitrate)}) = 1
    BY <2>1, <2>2, <2>3, OneDetectionTarget
  <2> QED BY <2>4, <2>5, <2>6 DEF s, base
<1> QED BY <1>1, CoreHolds, PTL

(***************************************************************************)
(* The life of a process.                                                  *)
(***************************************************************************)
\* The record of a job that has been sent stays.
LEMMA RecordsStay ==
  ASSUME Core, [Next]_vars
  PROVE  /\ \A j \in Jobs : request[j].at \in Sent =>
              allJobs'[j] = allJobs[j] /\ request'[j].at \in Sent
         /\ \A i \in DOMAIN proc : i \in DOMAIN proc' /\ SpecOf(i)' = SpecOf(i)
         /\ WorkerStep \/ UNCHANGED <<appVars, keyFile>>
<1>1. RequestType /\ AppType /\ Recorded /\ ProcessesRecorded
  BY DEF Core, Typed
<1>2. ASSUME NEW j \in Jobs, request[j].at \in Sent
      PROVE  allJobs'[j] = allJobs[j] /\ request'[j].at \in Sent
  <2>1. CASE RequestStep
    <3> PICK k \in Jobs : \/ Submit(k) \/ CreateDrmKey(k) \/ GetDrmKey(k) \/ WriteRecord(k)
                          \/ SendMessage(k)
      BY <2>1 DEF RequestStep
    <3> QED BY <1>1, <1>2, RequestFrame
  <2>2. CASE WorkerStep
    BY <1>1, <1>2, <2>2, WorkerRequests DEF SameRequest
  <2>3. CASE UNCHANGED vars
    BY <1>2, <2>3 DEF vars
  <2> QED BY <2>1, <2>2, <2>3, StepKinds
<1>3. WorkerStep \/ UNCHANGED <<appVars, keyFile>>
  <2>1. CASE RequestStep
    <3> PICK k \in Jobs : \/ Submit(k) \/ CreateDrmKey(k) \/ GetDrmKey(k) \/ WriteRecord(k)
                          \/ SendMessage(k)
      BY <2>1 DEF RequestStep
    <3> QED BY <1>1, RequestFrame
  <2> QED BY <2>1, StepKinds DEF vars
<1>4. ASSUME NEW i \in DOMAIN proc PROVE i \in DOMAIN proc' /\ SpecOf(i)' = SpecOf(i)
  <2>1. proc[i].job \in Jobs /\ request[proc[i].job].at \in Sent
    BY <1>1, ProcessSpec DEF ProcessesRecorded
  <2>2. i \in DOMAIN proc' /\ proc'[i].job = proc[i].job
    BY <1>1, <1>3, WorkerProcesses DEF SameRun, appVars
  <2> QED BY <1>2, <2>1, <2>2 DEF SpecOf, StoredSpec
<1> QED BY <1>2, <1>3, <1>4

\* A process that no stop has reached has returned nothing; one that is gone leaves
\* children only after a stop that came before its handler, or a crash.
Life(p) ==
  /\ p.state = "starting" => p.stage = "begin" /\ p.children = {}
  /\ p.state \in {"starting", "unstarted", "up"} => p.released = 0
  /\ p.state = "gone" /\ p.children # {} =>
       p.crashed \/ (p.stage # "serving" /\ p.released > 0)

Lives == \A i \in DOMAIN proc : Life(proc[i])

\* Each step keeps the order of a process' life.
LEMMA LivesStep ==
  ASSUME Core, Lives, [Next]_vars
  PROVE  Lives'
<1>1. AppType /\ Recorded /\ \A i \in DOMAIN proc : proc[i] \in Process
  BY DEF Core, Typed, AppType
<1>2. CASE UNCHANGED <<appVars, keyFile>>
  BY <1>2 DEF Lives, Life, appVars
<1>3. CASE \E j \in Jobs : Launch(j)
  <2> PICK j \in Jobs : Launch(j)
    BY <1>3
  <2>1. Life(Added(j))
    BY DEF Life, Added
  <2> QED BY <1>1, <2>1, LaunchAdds DEF Lives
<1>4. ASSUME NEW i \in DOMAIN proc, NEW state, NEW stage, NEW children, NEW released,
             Turns(i, state, stage, children, released),
             state \in {"up", "unstarted"} => released = 0,
             state # "starting",
             state = "gone" /\ children # {} =>
               proc'[i].crashed \/ (stage # "serving" /\ released > 0)
      PROVE  Lives'
  <2>1. Life(proc'[i])
    BY <1>4 DEF Turns, Life
  <2>2. \A k \in DOMAIN proc \ {i} : proc'[k] = proc[k]
    BY <1>4 DEF Turns
  <2> QED BY <1>4, <2>1, <2>2 DEF Lives, Turns
<1>5. ASSUME NEW i \in DOMAIN proc, Launched(i) \/ NotLaunched(i) PROVE Lives'
  <2>1. proc[i].state = "starting"
    BY <1>1, <1>5, ProcessTurns
  <2>2. proc[i].released = 0 /\ proc[i].children = {}
    BY <2>1 DEF Lives, Life
  <2>3. \E state \in {"up", "unstarted", "gone"} :
          Turns(i, state, proc[i].stage, proc[i].children, proc[i].released)
    BY <1>1, <1>5, ProcessTurns
  <2> QED BY <1>4, <2>2, <2>3
<1>6. ASSUME NEW i \in DOMAIN proc, Runs(i) PROVE Lives'
  <2>1. CASE Exit(i) \/ Crash(i)
    BY <1>1, <1>4, <2>1, ProcessTurns
  <2>2. ASSUME proc[i].state = "up", NEW stage \in Stages,
               NEW c \in SUBSET {"packager", "ffmpeg"}, Started(i, stage, c)
        PROVE  Lives'
    <3>1. proc[i].released = 0
      BY <2>2 DEF Lives, Life
    <3>2. Turns(i, "up", stage, proc[i].children \cup c, proc[i].released)
      BY <1>1, <2>2, ProcessTurns
    <3> QED BY <1>4, <3>1, <3>2
  <2>3. CASE StartPackager(i)
    <3>1. KeyStage(i) \in Stages
      BY DEF KeyStage, Stages
    <3> QED BY <2>2, <2>3, <3>1 DEF StartPackager, Starting
  <2> QED BY <1>6, <2>1, <2>2, <2>3
          DEF Runs, UploadKeyFile, StartFfmpeg, Serve, Starting, Stages
<1>7. ASSUME NEW j \in Jobs, Stop(j) PROVE Lives'
  <2>1. PICK i \in DOMAIN proc : /\ proc[i].state \in {"up", "signalled"}
                                 /\ proc' = [proc EXCEPT ![i] = Signalled(@)]
    BY <1>1, <1>7, StopsOne
  <2>2. Turns(i, IF proc[i].stage = "serving" THEN "signalled" ELSE "gone", proc[i].stage,
              proc[i].children, proc[i].released + 1)
    BY <1>1, <2>1, ProcessTurns
  <2>3. proc[i].released + 1 > 0
    <3> DEFINE n == proc[i].released
    <3>1. n \in Nat
      BY <1>1 DEF Process
    <3> HIDE DEF n
    <3>2. n + 1 > 0
      BY <3>1
    <3> QED BY <3>2 DEF n
  <2> QED BY <1>4, <2>2, <2>3
<1>8. CASE CheckPanics
  <2>1. ASSUME NEW i \in DOMAIN proc PROVE Life(proc'[i])
    <3>1. proc'[i] = Ended(proc[i]) /\ proc[i] \in Process
      BY <1>1, <1>8, PanicEnds
    <3> QED BY <3>1 DEF Life, Ended, Process
  <2> QED BY <1>1, <1>8, <2>1, PanicEnds DEF Lives
<1>9. CASE RemoveEntries \/ \E j \in Jobs : ReadingsWritten(j)
  BY <1>9 DEF Lives, Life, RemoveEntries, ReadingsWritten, WriteReadings
<1> QED BY <1>2, <1>3, <1>5, <1>6, <1>7, <1>8, <1>9, RecordsStay DEF WorkerStep, CheckJobStatus

\* Lives holds in every state.
LEMMA LivesHold == Spec => []Lives
<1>1. Init => Lives
  BY DEF Init, AppInit, Lives
<1> QED BY <1>1, LivesStep, CoreHolds, PTL DEF Spec

(***************************************************************************)
(* The key file.                                                           *)
(***************************************************************************)
\* A key file holds the key of its job's record; a packager that encrypts has its
\* key file, or no upload of it succeeded.
FilesInv ==
  /\ \A j \in Jobs : \/ keyFile[j] \in {NoFile, FileFailed}
                     \/ request[j].at \in Sent /\ keyFile[j] = allJobs[j].key
  /\ \A i \in DOMAIN proc :
       /\ proc[i].stage \in {"keyed", "ffmpeg", "serving"}
       /\ proc[i].key # NoKey /\ ~HasAV1Output(SpecOf(i))
       => keyFile[proc[i].job] \in {proc[i].key, FileFailed}

\* Each step keeps the key files in order.
LEMMA FilesStep ==
  ASSUME Core, FilesInv, [Next]_vars
  PROVE  FilesInv'
<1> DEFINE Needs(i) == /\ proc[i].stage \in {"keyed", "ffmpeg", "serving"}
                       /\ proc[i].key # NoKey /\ ~HasAV1Output(SpecOf(i))
           Has(i) == keyFile[proc[i].job] \in {proc[i].key, FileFailed}
           Holds(j) == \/ keyFile[j] \in {NoFile, FileFailed}
                       \/ request[j].at \in Sent /\ keyFile[j] = allJobs[j].key
<1>1. /\ RequestType /\ AppType /\ Recorded /\ ProcessesRecorded
      /\ \A i \in DOMAIN proc : proc[i] \in Process
  BY DEF Core, Typed, AppType
<1>2. /\ \A j \in Jobs : request[j].at \in Sent =>
           allJobs'[j] = allJobs[j] /\ request'[j].at \in Sent
      /\ \A i \in DOMAIN proc : i \in DOMAIN proc' /\ SpecOf(i)' = SpecOf(i)
      /\ WorkerStep \/ UNCHANGED <<appVars, keyFile>>
  BY RecordsStay
<1>3. \A i \in DOMAIN proc : /\ proc[i].job \in Jobs /\ request[proc[i].job].at \in Sent
                             /\ proc[i].key = allJobs[proc[i].job].key
                             /\ proc[i].key \in Nat
  BY <1>1 DEF ProcessesRecorded, Process
<1>4. \A j \in Jobs : Holds(j)
  BY DEF FilesInv
<1>5. \A i \in DOMAIN proc : Needs(i) => Has(i)
  BY DEF FilesInv
<1>6. ASSUME keyFile' = keyFile,
             \A i \in DOMAIN proc' :
               \/ proc'[i].stage \notin {"keyed", "ffmpeg", "serving"}
               \/ i \in DOMAIN proc /\ SameRun(proc[i], proc'[i]) /\
                  \/ proc[i].stage \in {"keyed", "ffmpeg", "serving"}
                  \/ HasAV1Output(SpecOf(i)) \/ proc[i].key = NoKey
      PROVE  FilesInv'
  <2>1. \A j \in Jobs : Holds(j)'
    BY <1>2, <1>4, <1>6
  <2>2. ASSUME NEW i \in DOMAIN proc' PROVE Needs(i)' => Has(i)'
    <3>1. CASE i \in DOMAIN proc /\ SameRun(proc[i], proc'[i])
               /\ proc[i].stage \in {"keyed", "ffmpeg", "serving"}
      BY <1>2, <1>5, <1>6, <3>1 DEF SameRun
    <3>2. CASE i \in DOMAIN proc /\ SameRun(proc[i], proc'[i])
               /\ (HasAV1Output(SpecOf(i)) \/ proc[i].key = NoKey)
      <4>1. HasAV1Output(SpecOf(i))' <=> HasAV1Output(SpecOf(i))
        BY <1>2, <3>2 DEF HasAV1Output
      <4> QED BY <3>2, <4>1 DEF SameRun
    <3>3. CASE proc'[i].stage \notin {"keyed", "ffmpeg", "serving"}
      BY <3>3
    <3> QED BY <1>6, <3>1, <3>2, <3>3
  <2> QED BY <2>1, <2>2 DEF FilesInv
<1>7. ASSUME NEW i \in DOMAIN proc, NEW state, NEW stage, NEW children, NEW released,
             Turns(i, state, stage, children, released), keyFile' = keyFile,
             \/ stage \notin {"keyed", "ffmpeg", "serving"}
             \/ proc[i].stage \in {"keyed", "ffmpeg", "serving"}
             \/ HasAV1Output(SpecOf(i)) \/ proc[i].key = NoKey
      PROVE  FilesInv'
  <2>1. \A k \in DOMAIN proc' :
               \/ proc'[k].stage \notin {"keyed", "ffmpeg", "serving"}
               \/ k \in DOMAIN proc /\ SameRun(proc[k], proc'[k]) /\
                  \/ proc[k].stage \in {"keyed", "ffmpeg", "serving"}
                  \/ HasAV1Output(SpecOf(k)) \/ proc[k].key = NoKey
    BY <1>7 DEF Turns
  <2> QED BY <1>6, <1>7, <2>1
<1>8. CASE UNCHANGED <<appVars, keyFile>>
  <2>1. \A i \in DOMAIN proc : SameRun(proc[i], proc'[i])
    BY <1>1, <1>8, ProcessUpdates DEF appVars
  <2> QED BY <1>6, <1>8, <2>1 DEF appVars
<1>9. CASE \E j \in Jobs : Launch(j)
  <2> PICK j \in Jobs : Launch(j)
    BY <1>9
  <2>1. Added(j).stage = "begin"
    BY DEF Added
  <2>2. keyFile' = keyFile
    BY DEF Launch, setupVars
  <2>3. \A i \in DOMAIN proc' : \/ proc'[i].stage = "begin"
                                \/ /\ i \in DOMAIN proc /\ proc'[i] = proc[i]
                                   /\ SameRun(proc[i], proc'[i])
    BY <1>1, <2>1, LaunchAdds
  <2> QED BY <1>6, <2>2, <2>3
<1>10. ASSUME NEW i \in DOMAIN proc, Launched(i) \/ NotLaunched(i) PROVE FilesInv'
  <2>1. \E state \in {"up", "unstarted", "gone"} :
          Turns(i, state, proc[i].stage, proc[i].children, proc[i].released)
    BY <1>1, <1>10, ProcessTurns
  <2>2. keyFile' = keyFile
    BY <1>10 DEF Launched, NotLaunched, setupVars
  <2> QED BY <1>7, <2>1, <2>2
<1>11. ASSUME NEW i \in DOMAIN proc, StartPackager(i) PROVE FilesInv'
  <2>1. Turns(i, "up", KeyStage(i), proc[i].children \cup {"packager"}, proc[i].released)
    <3>1. KeyStage(i) \in Stages
      BY DEF KeyStage, Stages
    <3> QED BY <1>1, <1>11, <3>1, ProcessTurns DEF StartPackager, Starting
  <2>2. KeyStage(i) = "packager" \/ proc[i].key = NoKey
    BY DEF KeyStage
  <2> QED BY <1>7, <1>11, <2>1, <2>2 DEF StartPackager
<1>12. ASSUME NEW i \in DOMAIN proc, StartFfmpeg(i) PROVE FilesInv'
  <2>1. Turns(i, "up", "ffmpeg", proc[i].children \cup {"ffmpeg"}, proc[i].released)
    BY <1>1, <1>12, ProcessTurns DEF StartFfmpeg, Starting, Stages
  <2>2. proc[i].stage = "keyed" \/ HasAV1Output(SpecOf(i))
    BY <1>12 DEF StartFfmpeg, Starting
  <2> QED BY <1>7, <1>12, <2>1, <2>2 DEF StartFfmpeg
<1>13. ASSUME NEW i \in DOMAIN proc, Serve(i) PROVE FilesInv'
  <2>1. Turns(i, "up", "serving", proc[i].children \cup {}, proc[i].released)
    BY <1>1, <1>13, ProcessTurns DEF Serve, Starting, Stages
  <2>2. proc[i].stage = "ffmpeg"
    BY <1>13 DEF Serve, Starting
  <2> QED BY <1>7, <1>13, <2>1, <2>2 DEF Serve
<1>14. ASSUME NEW i \in DOMAIN proc, Exit(i) \/ Crash(i), UNCHANGED <<request, setupVars>>
       PROVE  FilesInv'
  <2>1. \E children : Turns(i, "gone", proc[i].stage, children, proc[i].released)
    BY <1>1, <1>14, ProcessTurns
  <2> QED BY <1>7, <1>14, <2>1 DEF setupVars
<1>15. ASSUME NEW j \in Jobs, Stop(j) PROVE FilesInv'
  <2>1. PICK i \in DOMAIN proc : /\ proc[i].state \in {"up", "signalled"}
                                 /\ proc' = [proc EXCEPT ![i] = Signalled(@)]
                                 /\ keyFile' = keyFile
    BY <1>1, <1>15, StopsOne
  <2>2. Turns(i, IF proc[i].stage = "serving" THEN "signalled" ELSE "gone", proc[i].stage,
              proc[i].children, proc[i].released + 1)
    BY <1>1, <2>1, ProcessTurns
  <2> QED BY <1>7, <2>1, <2>2
<1>16. CASE CheckJobStatus \/ \E j \in Jobs : ReadingsWritten(j)
  <2>1. keyFile' = keyFile
    BY <1>16 DEF CheckJobStatus, ReadingsWritten, setupVars
  <2>2. CASE CheckPanics
    <3>1. ASSUME NEW i \in DOMAIN proc PROVE proc'[i].stage = proc[i].stage
      <4>1. proc'[i] = Ended(proc[i]) /\ proc[i] \in Process
        BY <1>1, <2>2, PanicEnds
      <4> QED BY <4>1 DEF Ended, Process
    <3> QED BY <1>1, <1>6, <2>1, <2>2, <3>1, PanicEnds
  <2>3. CASE proc' = proc
    <3>1. \A i \in DOMAIN proc : SameRun(proc[i], proc'[i])
      BY <1>1, <2>3, ProcessUpdates
    <3> QED BY <1>6, <2>1, <2>3, <3>1
  <2> QED BY <1>16, <2>2, <2>3 DEF CheckJobStatus, RemoveEntries, ReadingsWritten, WriteReadings
<1>17. ASSUME NEW i \in DOMAIN proc, UploadKeyFile(i) PROVE FilesInv'
  <2>1. Turns(i, "up", "keyed", proc[i].children \cup {}, proc[i].released)
    BY <1>1, <1>17, ProcessTurns DEF UploadKeyFile, Starting, Stages
  <2> DEFINE j == proc[i].job
  <2>2. /\ j \in Jobs /\ request[j].at \in Sent /\ keyFile \in [Jobs -> Nat \cup {FileFailed}]
        /\ keyFile'[j] \in {allJobs[j].key, FileFailed}
        /\ \A k \in Jobs \ {j} : keyFile'[k] = keyFile[k]
    <3>1. j \in Jobs /\ request[j].at \in Sent /\ keyFile \in [Jobs -> Nat \cup {FileFailed}]
          /\ proc[i].key = allJobs[j].key
      BY <1>1, <1>3 DEF RequestType
    <3>2. keyFile[j] > NoFile => keyFile[j] = allJobs[j].key
      BY <1>4, <3>1 DEF NoFile, FileFailed
    <3> HIDE DEF j
    <3>3. \/ keyFile' = [keyFile EXCEPT ![j] = proc[i].key]
          \/ keyFile' = [keyFile EXCEPT ![j] = IF @ > NoFile THEN @ ELSE FileFailed]
      BY <1>17 DEF UploadKeyFile, j
    <3> QED BY <3>1, <3>2, <3>3
  <2>3. \A k \in Jobs : Holds(k)'
    BY <1>2, <1>4, <2>2
  <2>4. ASSUME NEW k \in DOMAIN proc' PROVE Needs(k)' => Has(k)'
    <3>1. k \in DOMAIN proc /\ SameRun(proc[k], proc'[k])
      BY <2>1, <2>4 DEF Turns
    <3>2. CASE proc[k].job = j
      BY <1>3, <2>2, <3>1, <3>2 DEF SameRun
    <3>3. CASE proc[k].job # j
      <4>1. proc'[k] = proc[k] /\ SpecOf(k)' = SpecOf(k) /\ proc[k].job \in Jobs
        BY <1>2, <1>3, <2>1, <3>1, <3>3 DEF Turns
      <4> QED BY <1>5, <2>2, <3>1, <3>3, <4>1
    <3> QED BY <3>2, <3>3
  <2> QED BY <2>3, <2>4 DEF FilesInv
<1> QED BY <1>2, <1>8, <1>9, <1>10, <1>11, <1>12, <1>13, <1>14, <1>15, <1>16, <1>17
        DEF WorkerStep, Runs

\* FilesInv holds in every state.
LEMMA FilesHold == Spec => []FilesInv
<1>1. Init => FilesInv
  BY DEF Init, AppInit, FilesInv
<1> QED BY <1>1, FilesStep, CoreHolds, PTL DEF Spec

\* Whoever can fetch key.bin of an encrypted stream gets the key that its packager
\* was given, whichever launch of the job wrote it; unless no upload has succeeded.
THEOREM KeyFileFits == Spec => []KeyFileOpensStream
<1>1. FilesInv => KeyFileOpensStream
  BY DEF FilesInv, KeyFileOpensStream, Streams, Encrypted, Encrypts
<1> QED BY <1>1, FilesHold, PTL

(***************************************************************************)
(* The RTMP ports.                                                         *)
(***************************************************************************)
\* What a process keeps of its port.
SamePort(i) == proc'[i].port = proc[i].port /\ proc'[i].fresh = proc[i].fresh

\* A step takes a port from the pool for a new process, returns that of one, or
\* leaves the pool and what was returned as they are.
LEMMA PoolSteps ==
  ASSUME Core, [Next]_vars
  PROVE  \/ /\ pool' = pool /\ DOMAIN proc' = DOMAIN proc
            /\ \A i \in DOMAIN proc : SamePort(i) /\ proc'[i].released = proc[i].released
         \/ \E j \in Jobs : Launch(j)
         \/ \E i \in DOMAIN proc :
              /\ pool' = Append(pool, proc[i].port) /\ DOMAIN proc' = DOMAIN proc
              /\ proc'[i].released = proc[i].released + 1
              /\ \A k \in DOMAIN proc : SamePort(k)
              /\ \A k \in DOMAIN proc \ {i} : proc'[k].released = proc[k].released
<1> DEFINE Kept == /\ pool' = pool /\ DOMAIN proc' = DOMAIN proc
                   /\ \A i \in DOMAIN proc : SamePort(i) /\ proc'[i].released = proc[i].released
           Returned(i) ==
              /\ pool' = Append(pool, proc[i].port) /\ DOMAIN proc' = DOMAIN proc
              /\ proc'[i].released = proc[i].released + 1
              /\ \A k \in DOMAIN proc : SamePort(k)
              /\ \A k \in DOMAIN proc \ {i} : proc'[k].released = proc[k].released
<1>1. AppType /\ Recorded /\ \A i \in DOMAIN proc : proc[i] \in Process
  BY DEF Core, Typed, AppType
<1>2. CASE UNCHANGED <<appVars, keyFile>>
  BY <1>2 DEF appVars, SamePort
<1>3. ASSUME NEW i \in DOMAIN proc, pool' = pool,
             \E state, stage, children : Turns(i, state, stage, children, proc[i].released)
      PROVE  Kept
  BY <1>3 DEF Turns, SameRun, SamePort
<1>4. ASSUME NEW i \in DOMAIN proc, Launched(i) \/ NotLaunched(i) PROVE Kept
  <2>1. \E state, stage, children : Turns(i, state, stage, children, proc[i].released)
    BY <1>1, <1>4, ProcessTurns
  <2>2. pool' = pool
    BY <1>4 DEF Launched, NotLaunched, LaunchSucceeds, LaunchFails
  <2> QED BY <1>3, <2>1, <2>2
<1>5. ASSUME NEW i \in DOMAIN proc, Runs(i) PROVE Kept
  BY <1>1, <1>3, <1>5, RunsTurns
<1>6. ASSUME NEW j \in Jobs, Stop(j) PROVE \E i \in DOMAIN proc : Returned(i)
  <2>1. PICK i \in DOMAIN proc : /\ proc[i].state \in {"up", "signalled"}
                                 /\ proc' = [proc EXCEPT ![i] = Signalled(@)]
                                 /\ pool' = Append(pool, proc[i].port)
    BY <1>1, <1>6, StopsOne
  <2>2. Turns(i, IF proc[i].stage = "serving" THEN "signalled" ELSE "gone", proc[i].stage,
              proc[i].children, proc[i].released + 1)
    BY <1>1, <2>1, ProcessTurns
  <2>3. Returned(i)
    BY <2>1, <2>2 DEF Turns, SameRun, SamePort
  <2> QED BY <2>3
<1>7. CASE CheckPanics
  <2>1. ASSUME NEW i \in DOMAIN proc
        PROVE  SamePort(i) /\ proc'[i].released = proc[i].released
    <3>1. proc'[i] = Ended(proc[i]) /\ proc[i] \in Process
      BY <1>1, <1>7, PanicEnds
    <3> QED BY <3>1 DEF Ended, Process, SamePort
  <2> QED BY <1>1, <1>7, <2>1, PanicEnds DEF CheckPanics
<1>8. CASE RemoveEntries \/ \E j \in Jobs : ReadingsWritten(j)
  BY <1>8 DEF RemoveEntries, ReadingsWritten, WriteReadings, SamePort
<1> QED BY <1>2, <1>4, <1>5, <1>6, <1>7, <1>8, RecordsStay DEF WorkerStep, CheckJobStatus

InPool(p) == \E n \in DOMAIN pool : pool[n] = p

\* A port that was listed is in the pool or has a process that has not returned it.
Accounted ==
  \A p \in ListedPorts :
    InPool(p) \/ \E m \in DOMAIN proc : proc[m].port = p /\ proc[m].released = 0

\* Every process with this port got it from the pool and returned it once at most.
Clean(p) ==
  \A m \in DOMAIN proc : proc[m].port = p => proc[m].released <= 1 /\ proc[m].fresh

\* Such a port is in the pool once at most, then with no process that has not
\* returned it; and of the processes that were given it only the last may not have.
PortsInv ==
  \A p \in ListedPorts \cup {0} : Clean(p) =>
    /\ \A m, n \in DOMAIN pool : pool[m] = p /\ pool[n] = p => m = n
    /\ InPool(p) => \A m \in DOMAIN proc : proc[m].port = p => proc[m].released > 0
    /\ \A m, n \in DOMAIN proc :
         m < n /\ proc[m].port = p /\ proc[n].port = p => proc[m].released > 0

\* What a launch does to the pool and to the ports.
LEMMA LaunchTakes ==
  ASSUME Core, NEW j \in Jobs, Launch(j)
  PROVE  LET n == Len(proc) + 1 IN
         /\ DOMAIN proc' = DOMAIN proc \cup {n} /\ n \notin DOMAIN proc
         /\ \A i \in DOMAIN proc : proc'[i] = proc[i]
         /\ proc'[n].released = 0
         /\ \/ pool = <<>> /\ pool' = pool /\ ~proc'[n].fresh
            \/ /\ pool # <<>> /\ proc'[n].fresh /\ proc'[n].port = pool[1]
               /\ Len(pool) \in Nat /\ DOMAIN pool = 1..Len(pool) /\ 1 \in DOMAIN pool
               /\ DOMAIN pool' = 1..(Len(pool) - 1)
               /\ \A m \in DOMAIN pool' : m + 1 \in DOMAIN pool /\ pool'[m] = pool[m + 1]
<1>1. AppType /\ Recorded /\ pool \in Seq(ListedPorts \cup {0})
  BY DEF Core, Typed, AppType, AppTypeOK
<1>2. /\ DOMAIN proc' = DOMAIN proc \cup {Len(proc) + 1} /\ Len(proc) + 1 \notin DOMAIN proc
      /\ \A i \in DOMAIN proc : proc'[i] = proc[i]
      /\ proc'[Len(proc) + 1] = Added(j)
  BY <1>1, LaunchAdds
<1>3. Added(j).released = 0 /\ Added(j).port = PortFor(j)
  BY DEF Added
<1>4. Added(j).fresh = (pool # <<>>)
  BY DEF Added
<1>5. pool' = PoolAfterAllocation
  BY DEF Launch, LaunchProcess
<1>6. pool # <<>> =>
        /\ PortFor(j) = pool[1] /\ Len(pool) \in Nat /\ DOMAIN pool = 1..Len(pool)
        /\ 1 \in DOMAIN pool
        /\ DOMAIN pool' = 1..(Len(pool) - 1)
        /\ \A m \in DOMAIN pool' : m + 1 \in DOMAIN pool /\ pool'[m] = pool[m + 1]
  <2> SUFFICES ASSUME pool # <<>>
               PROVE  /\ PortFor(j) = pool[1] /\ Len(pool) \in Nat /\ DOMAIN pool = 1..Len(pool)
                      /\ 1 \in DOMAIN pool
                      /\ DOMAIN pool' = 1..(Len(pool) - 1)
                      /\ \A m \in DOMAIN pool' : m + 1 \in DOMAIN pool /\ pool'[m] = pool[m + 1]
    OBVIOUS
  <2>1. PortFor(j) = Head(pool) /\ pool' = Tail(pool)
    BY <1>5 DEF PortFor, PoolAfterAllocation
  <2>2. /\ Len(pool) \in Nat /\ DOMAIN pool = 1..Len(pool) /\ Len(pool) >= 1
        /\ Head(pool) = pool[1]
    BY <1>1
  <2>3. /\ Len(Tail(pool)) = Len(pool) - 1 /\ DOMAIN Tail(pool) = 1..(Len(pool) - 1)
        /\ \A m \in 1..(Len(pool) - 1) : Tail(pool)[m] = pool[m + 1]
    BY <1>1, HeadTailProperties, LenProperties
  <2> QED BY <2>1, <2>2, <2>3
<1> QED BY <1>2, <1>3, <1>4, <1>5, <1>6 DEF PoolAfterAllocation

\* What a stop does to the pool.
LEMMA PoolAppended ==
  ASSUME Core, NEW p, pool' = Append(pool, p), p \in ListedPorts \cup {0}
  PROVE  /\ Len(pool) \in Nat /\ DOMAIN pool = 1..Len(pool)
         /\ DOMAIN pool' = 1..(Len(pool) + 1) /\ pool'[Len(pool) + 1] = p
         /\ \A m \in DOMAIN pool : m \in DOMAIN pool' /\ pool'[m] = pool[m]
<1>1. pool \in Seq(ListedPorts \cup {0})
  BY DEF Core, Typed, AppType, AppTypeOK
<1> QED BY <1>1, AppendProperties, LenProperties

\* No listed port gets lost by a step.
LEMMA AccountedStep ==
  ASSUME Core, Accounted, [Next]_vars
  PROVE  Accounted'
<1> SUFFICES ASSUME NEW p \in ListedPorts
             PROVE  InPool(p)' \/ \E m \in DOMAIN proc' : proc'[m].port = p
                                                          /\ proc'[m].released = 0
  BY DEF Accounted, ListedPorts
<1>1. InPool(p) \/ \E m \in DOMAIN proc : proc[m].port = p /\ proc[m].released = 0
  BY DEF Accounted
<1>2. CASE /\ pool' = pool /\ DOMAIN proc' = DOMAIN proc
           /\ \A i \in DOMAIN proc : SamePort(i) /\ proc'[i].released = proc[i].released
  BY <1>1, <1>2 DEF InPool, SamePort
<1>3. ASSUME NEW j \in Jobs, Launch(j)
      PROVE  InPool(p)' \/ \E m \in DOMAIN proc' : proc'[m].port = p
                                                   /\ proc'[m].released = 0
  <2> DEFINE n == Len(proc) + 1
  <2>1. /\ n \in DOMAIN proc' /\ proc'[n].released = 0
        /\ \A i \in DOMAIN proc : i \in DOMAIN proc' /\ proc'[i] = proc[i]
    BY <1>3, LaunchTakes
  <2>2. CASE \E m \in DOMAIN proc : proc[m].port = p /\ proc[m].released = 0
    BY <2>1, <2>2
  <2>3. CASE InPool(p)
    <3>1. CASE pool' = pool
      BY <2>3, <3>1 DEF InPool
    <3>2. CASE /\ proc'[n].port = pool[1] /\ Len(pool) \in Nat /\ DOMAIN pool = 1..Len(pool)
               /\ DOMAIN pool' = 1..(Len(pool) - 1)
               /\ \A m \in DOMAIN pool' : pool'[m] = pool[m + 1]
      <4>1. PICK m \in DOMAIN pool : pool[m] = p
        BY <2>3 DEF InPool
      <4>2. CASE m = 1
        BY <2>1, <3>2, <4>1, <4>2
      <4>3. CASE m # 1
        <5>1. m - 1 \in DOMAIN pool' /\ (m - 1) + 1 = m
          BY <3>2, <4>1, <4>3
        <5>2. pool'[m - 1] = p
          BY <3>2, <4>1, <5>1
        <5> QED BY <5>1, <5>2 DEF InPool
      <4> QED BY <4>2, <4>3
    <3> QED BY <1>3, <3>1, <3>2, LaunchTakes
  <2> QED BY <1>1, <2>2, <2>3
<1>4. ASSUME NEW i \in DOMAIN proc, pool' = Append(pool, proc[i].port),
             DOMAIN proc' = DOMAIN proc, \A k \in DOMAIN proc : SamePort(k),
             \A k \in DOMAIN proc \ {i} : proc'[k].released = proc[k].released
      PROVE  InPool(p)' \/ \E m \in DOMAIN proc' : proc'[m].port = p
                                                   /\ proc'[m].released = 0
  <2>1. proc[i].port \in ListedPorts \cup {0}
    <3>1. proc[i] \in Process
      BY DEF Core, Typed, AppType
    <3> QED BY <3>1 DEF Process
  <2>2. /\ Len(pool) + 1 \in DOMAIN pool' /\ pool'[Len(pool) + 1] = proc[i].port
        /\ \A m \in DOMAIN pool : m \in DOMAIN pool' /\ pool'[m] = pool[m]
    <3>1. Len(pool) \in Nat /\ DOMAIN pool' = 1..(Len(pool) + 1)
      BY <1>4, <2>1, PoolAppended
    <3> QED BY <1>4, <2>1, <3>1, PoolAppended
  <2> QED BY <1>1, <1>4, <2>2 DEF InPool, SamePort
<1> QED BY <1>2, <1>3, <1>4, PoolSteps

\* A port that is missing from the pool was given to a process that no stop has
\* reached.
THEOREM PortLostUnstopped == Spec => []PortLostOnlyUnstopped
<1>1. Init => Accounted
  <2> SUFFICES ASSUME Init, NEW p \in ListedPorts PROVE InPool(p)
    BY DEF Accounted
  <2> QED BY DEF Init, AppInit, InPool, ListedPorts
<1>2. Accounted => PortLostOnlyUnstopped
  BY DEF Accounted, InPool, PortLostOnlyUnstopped
<1> QED BY <1>1, <1>2, AccountedStep, CoreHolds, PTL DEF Spec

\* How often a stop has returned the port of a process is a number.
LEMMA ReleasedType ==
  ASSUME Core, NEW m \in DOMAIN proc
  PROVE  proc[m].released \in Nat /\ proc[m].port \in ListedPorts \cup {0}
<1>1. proc[m] \in Process
  BY DEF Core, Typed, AppType
<1> QED BY <1>1 DEF Process

\* A launch keeps the clean ports in order.
LEMMA PortsLaunch ==
  ASSUME Core, PortsInv, NEW j \in Jobs, Launch(j)
  PROVE  PortsInv'
<1> DEFINE n == Len(proc) + 1
<1>1. /\ DOMAIN proc' = DOMAIN proc \cup {n} /\ n \notin DOMAIN proc
      /\ \A i \in DOMAIN proc : proc'[i] = proc[i]
      /\ proc'[n].released = 0
  BY LaunchTakes
<1>2. \/ pool' = pool /\ ~proc'[n].fresh
      \/ /\ proc'[n].port = pool[1] /\ 1 \in DOMAIN pool /\ DOMAIN pool \subseteq Int
         /\ \A m \in DOMAIN pool' : m \in Int /\ m >= 1 /\ m + 1 \in DOMAIN pool
                                    /\ pool'[m] = pool[m + 1]
  <2>1. CASE pool # <<>>
    <3>1. /\ proc'[n].port = pool[1] /\ Len(pool) \in Nat /\ DOMAIN pool = 1..Len(pool)
          /\ 1 \in DOMAIN pool /\ DOMAIN pool' = 1..(Len(pool) - 1)
          /\ \A m \in DOMAIN pool' : m + 1 \in DOMAIN pool /\ pool'[m] = pool[m + 1]
      BY <2>1, LaunchTakes
    <3> QED BY <3>1
  <2> QED BY <2>1, LaunchTakes
<1> HIDE DEF n
<1> SUFFICES ASSUME NEW p \in ListedPorts \cup {0}, Clean(p)'
             PROVE  /\ \A m, k \in DOMAIN pool' : pool'[m] = p /\ pool'[k] = p => m = k
                    /\ InPool(p)' => \A m \in DOMAIN proc' : proc'[m].port = p
                                                             => proc'[m].released > 0
                    /\ \A m, k \in DOMAIN proc' :
                         m < k /\ proc'[m].port = p /\ proc'[k].port = p
                           => proc'[m].released > 0
  BY DEF PortsInv, ListedPorts
<1>3. Clean(p)
  BY <1>1 DEF Clean
<1>4. /\ \A m, k \in DOMAIN pool : pool[m] = p /\ pool[k] = p => m = k
      /\ InPool(p) => \A m \in DOMAIN proc : proc[m].port = p => proc[m].released > 0
      /\ \A m, k \in DOMAIN proc :
           m < k /\ proc[m].port = p /\ proc[k].port = p => proc[m].released > 0
  BY <1>3 DEF PortsInv
<1>5. CASE proc'[n].port # p
  <2>1. InPool(p)' => InPool(p)
    BY <1>2 DEF InPool
  <2>2. \A m, k \in DOMAIN pool' : pool'[m] = p /\ pool'[k] = p => m = k
    <3>1. CASE pool' = pool
      BY <1>4, <3>1
    <3>2. CASE pool' # pool
      <4> SUFFICES ASSUME NEW m \in DOMAIN pool', NEW k \in DOMAIN pool',
                          pool'[m] = p, pool'[k] = p
                   PROVE  m = k
        OBVIOUS
      <4>1. m \in Int /\ k \in Int /\ m + 1 = k + 1
        BY <1>2, <1>4, <3>2
      <4> QED BY <4>1
    <3> QED BY <3>1, <3>2
  <2> QED BY <1>1, <1>4, <1>5, <2>1, <2>2
<1>6. CASE proc'[n].port = p
  <2>1. proc'[n].fresh
    BY <1>1, <1>6 DEF Clean
  <2>2. /\ pool[1] = p /\ 1 \in DOMAIN pool
        /\ \A m \in DOMAIN pool' : m \in Int /\ m >= 1 /\ m + 1 \in DOMAIN pool
                                   /\ pool'[m] = pool[m + 1]
    BY <1>2, <1>6, <2>1
  <2>3. \A m \in DOMAIN proc : proc[m].port = p => proc[m].released > 0
    BY <1>4, <2>2 DEF InPool
  <2>4. \A m \in DOMAIN pool' : pool'[m] # p
    <3> SUFFICES ASSUME NEW m \in DOMAIN pool', pool'[m] = p PROVE FALSE
      OBVIOUS
    <3>1. m + 1 = 1 /\ m \in Int /\ m >= 1
      BY <1>4, <2>2
    <3> QED BY <3>1
  <2>5. ~InPool(p)'
    BY <2>4 DEF InPool
  <2>6. ASSUME NEW m \in DOMAIN proc', NEW k \in DOMAIN proc', m < k, proc'[m].port = p
        PROVE  proc'[m].released > 0
    <3>1. m # n
      <4>1. proc \in Seq(Process)
        BY DEF Core, Typed, AppType
      <4>2. /\ DOMAIN proc = 1..Len(proc) /\ Len(proc) \in Nat
            /\ n = Len(proc) + 1
        BY <4>1 DEF n
      <4> QED BY <1>1, <2>6, <4>2
    <3> QED BY <1>1, <2>3, <2>6, <3>1
  <2> QED BY <1>1, <2>4, <2>5, <2>6
<1> QED BY <1>5, <1>6

\* A stop keeps the clean ports in order.
LEMMA PortsStop ==
  ASSUME Core, PortsInv, NEW i \in DOMAIN proc,
         pool' = Append(pool, proc[i].port), DOMAIN proc' = DOMAIN proc,
         proc'[i].released = proc[i].released + 1, \A k \in DOMAIN proc : SamePort(k),
         \A k \in DOMAIN proc \ {i} : proc'[k].released = proc[k].released
  PROVE  PortsInv'
<1> DEFINE L == Len(pool) + 1
           r == proc[i].released
           q == proc[i].port
<1>1. q \in ListedPorts \cup {0} /\ r \in Nat /\ proc'[i].released = r + 1
  BY ReleasedType
<1>2. /\ DOMAIN pool = 1..Len(pool) /\ Len(pool) \in Nat
      /\ DOMAIN pool' = DOMAIN pool \cup {L} /\ pool'[L] = q
      /\ \A m \in DOMAIN pool : pool'[m] = pool[m]
  <2>1. /\ Len(pool) \in Nat /\ DOMAIN pool = 1..Len(pool)
        /\ DOMAIN pool' = 1..(Len(pool) + 1) /\ pool'[Len(pool) + 1] = q
        /\ \A m \in DOMAIN pool : m \in DOMAIN pool' /\ pool'[m] = pool[m]
    BY <1>1, PoolAppended
  <2> QED BY <2>1
<1> HIDE DEF L, r
<1> SUFFICES ASSUME NEW p \in ListedPorts \cup {0}, Clean(p)'
             PROVE  /\ \A m, k \in DOMAIN pool' : pool'[m] = p /\ pool'[k] = p => m = k
                    /\ InPool(p)' => \A m \in DOMAIN proc' : proc'[m].port = p
                                                             => proc'[m].released > 0
                    /\ \A m, k \in DOMAIN proc' :
                         m < k /\ proc'[m].port = p /\ proc'[k].port = p
                           => proc'[m].released > 0
  BY DEF PortsInv, ListedPorts
<1>3. Clean(p)
  <2> SUFFICES ASSUME NEW m \in DOMAIN proc, proc[m].port = p
               PROVE  proc[m].released <= 1 /\ proc[m].fresh
    BY DEF Clean
  <2>1. proc'[m].released <= 1 /\ proc'[m].port = p /\ proc'[m].fresh
    BY DEF Clean, SamePort
  <2>2. m = i => r <= 1
    BY <1>1, <2>1
  <2> QED BY <2>1, <2>2 DEF SamePort, r
<1>4. /\ \A m, k \in DOMAIN pool : pool[m] = p /\ pool[k] = p => m = k
      /\ InPool(p) => \A m \in DOMAIN proc : proc[m].port = p => proc[m].released > 0
      /\ \A m, k \in DOMAIN proc :
           m < k /\ proc[m].port = p /\ proc[k].port = p => proc[m].released > 0
  BY <1>3 DEF PortsInv
<1>5. r + 1 > 0 /\ r + 1 # 0
  BY <1>1
<1>6. CASE q # p
  <2>1. InPool(p)' => InPool(p)
    BY <1>2, <1>6 DEF InPool
  <2> QED BY <1>1, <1>2, <1>4, <1>5, <1>6, <2>1 DEF SamePort
<1>7. CASE q = p
  <2>1. r = 0
    <3>1. r + 1 <= 1
      BY <1>1, <1>7 DEF Clean, SamePort
    <3> QED BY <1>1, <3>1
  <2>2. ~InPool(p)
    BY <1>4, <1>7, <2>1 DEF r
  <2>3. ASSUME NEW m \in DOMAIN proc \ {i}, proc[m].port = p
        PROVE  proc'[m].released > 0 /\ proc'[m].released # 0
    <3> DEFINE s == proc[m].released
    <3>1. s \in Nat /\ proc'[m].released = s
      BY ReleasedType
    <3>2. m < i \/ i < m
      <4>1. DOMAIN proc \subseteq Nat
        BY DEF Core, Typed, AppType
      <4> QED BY <2>3, <4>1
    <3>3. ~(r > 0)
      BY <2>1
    <3>4. s > 0
      BY <1>4, <1>7, <2>3, <3>2, <3>3 DEF r, q
    <3> HIDE DEF s
    <3> QED BY <3>1, <3>4
  <2>4. \A m, k \in DOMAIN pool' : pool'[m] = p /\ pool'[k] = p => m = k
    BY <1>2, <2>2 DEF InPool
  <2> QED BY <1>1, <1>5, <2>3, <2>4 DEF SamePort
<1> QED BY <1>6, <1>7

\* PortsInv holds in every state.
LEMMA PortsHold == Spec => []PortsInv
<1>1. Init => PortsInv
  <2> SUFFICES ASSUME Init PROVE PortsInv
    OBVIOUS
  <2>1. pool = RtmpPorts /\ proc = <<>>
    BY DEF Init, AppInit
  <2> QED BY <2>1, WorkerAppAssumption DEF PortsInv
<1>2. Core /\ PortsInv /\ [Next]_vars => PortsInv'
  <2> SUFFICES ASSUME Core, PortsInv, [Next]_vars PROVE PortsInv'
    OBVIOUS
  <2>1. CASE /\ pool' = pool /\ DOMAIN proc' = DOMAIN proc
             /\ \A i \in DOMAIN proc : SamePort(i) /\ proc'[i].released = proc[i].released
    BY <2>1 DEF PortsInv, Clean, InPool, SamePort, ListedPorts
  <2> QED BY <2>1, PoolSteps, PortsLaunch, PortsStop
<1> QED BY <1>1, <1>2, CoreHolds, PTL DEF Spec

\* Two processes that nobody has stopped share an RTMP port only after a stop had
\* returned it a second time, or a launch found the pool empty.
THEOREM PortExclusive == Spec => []RtmpPortExclusive
<1>1. Core /\ Lives /\ PortsInv => RtmpPortExclusive
  <2> SUFFICES ASSUME Core, Lives, PortsInv, NEW i \in DOMAIN proc, NEW k \in DOMAIN proc,
                      i < k, proc[i].state = "up", proc[k].state = "up",
                      proc[i].port = proc[k].port
               PROVE  \E m \in DOMAIN proc :
                        /\ proc[m].port = proc[i].port
                        /\ (proc[m].released >= 2 \/ ~proc[m].fresh)
    BY DEF RtmpPortExclusive
  <2>1. proc[i].released = 0 /\ proc[k].released = 0 /\ proc[i].port \in ListedPorts \cup {0}
    BY ReleasedType DEF Lives, Life
  <2>2. i # k
    <3>1. i \in Nat /\ k \in Nat
      BY DEF Core, Typed, AppType
    <3> QED BY <3>1
  <2>3. ~Clean(proc[i].port)
    BY <2>1, <2>2 DEF PortsInv
  <2>4. PICK m \in DOMAIN proc : /\ proc[m].port = proc[i].port
                                 /\ ~(proc[m].released <= 1 /\ proc[m].fresh)
    BY <2>3 DEF Clean
  <2>5. proc[m].released <= 1 \/ proc[m].released >= 2
    <3> DEFINE r == proc[m].released
    <3>1. r \in Nat
      BY ReleasedType
    <3> HIDE DEF r
    <3>2. r <= 1 \/ r >= 2
      BY <3>1
    <3> QED BY <3>2 DEF r
  <2> QED BY <2>4, <2>5
<1> QED BY <1>1, CoreHolds, LivesHold, PortsHold, PTL

\* Two ffmpegs listen on one RTMP port only after such a mistake with the pool, or
\* when the port was given away of an earlier one that has yet to end or that a
\* process cut short has left behind.
THEOREM ListenersHeldApart == Spec => []ListenersApart
<1>1. Core /\ Lives /\ PortsInv => ListenersApart
  <2> SUFFICES ASSUME Core, Lives, PortsInv, NEW i \in DOMAIN proc, NEW k \in DOMAIN proc,
                      i < k, "ffmpeg" \in proc[i].children,
                      proc[i].port = proc[k].port,
                      \A m \in DOMAIN proc : proc[m].port = proc[i].port =>
                        ~(proc[m].released >= 2) /\ proc[m].fresh
               PROVE  /\ proc[i].released > 0
                      /\ \/ proc[i].state = "signalled"
                         \/ proc[i].stage # "serving"
                         \/ proc[i].crashed
    BY DEF ListenersApart
  <2>1. Clean(proc[i].port)
    <3> SUFFICES ASSUME NEW m \in DOMAIN proc, proc[m].port = proc[i].port
                 PROVE  proc[m].released <= 1 /\ proc[m].fresh
      BY DEF Clean
    <3> DEFINE r == proc[m].released
    <3>1. r \in Nat /\ ~(r >= 2)
      BY ReleasedType
    <3>2. r <= 1
      <4> HIDE DEF r
      <4> QED BY <3>1
    <3> QED BY <3>2
  <2>2. proc[i].released > 0
    BY <2>1, ReleasedType DEF PortsInv
  <2>3. proc[i].state \in States
    <3>1. proc[i] \in Process
      BY DEF Core, Typed, AppType
    <3> QED BY <3>1 DEF Process
  <2>4. Life(proc[i])
    BY DEF Lives
  <2>5. proc[i].state \notin {"starting", "unstarted", "up"}
    <3>1. proc[i].released # 0
      <4> DEFINE r == proc[i].released
      <4>1. r > 0
        BY <2>2
      <4> HIDE DEF r
      <4>2. r # 0
        BY <4>1
      <4> QED BY <4>2 DEF r
    <3> QED BY <2>4, <3>1 DEF Life
  <2>6. proc[i].state = "signalled" \/ proc[i].state = "gone"
    BY <2>3, <2>5 DEF States
  <2>7. proc[i].state = "gone" => proc[i].crashed \/ proc[i].stage # "serving"
    BY <2>4 DEF Life
  <2> QED BY <2>2, <2>6, <2>7
<1> QED BY <1>1, CoreHolds, LivesHold, PortsHold, PTL

(***************************************************************************)
(* The UDP ports.                                                          *)
(***************************************************************************)
\* A process was launched after those of lower number; its ports begin after those
\* of the entries then in the list, which are all that were not gone.
SeenInv ==
  \A k \in DOMAIN proc :
    /\ \A i \in proc[k].seen : i \in DOMAIN proc /\ i < k
    /\ proc[k].base = UdpPortBase + Cardinality(OutputsOf(proc[k].seen))
    /\ \A i \in DOMAIN proc : i < k => i \in proc[k].seen \/ proc[i].state = "gone"
    /\ k \in entries \/ proc[k].state = "gone"

\* The outputs counted for a process do not change.
LEMMA OutputsStay ==
  ASSUME NEW p, NEW q, NEW S, \A i \in S : q[i].counted = p[i].counted
  PROVE  UNION {{i} \X (1..q[i].counted) : i \in S} = UNION {{i} \X (1..p[i].counted) : i \in S}
OBVIOUS

\* A step that launches nothing keeps the order of the list.
LEMMA SeenStep ==
  ASSUME SeenInv, DOMAIN proc' = DOMAIN proc, \A i \in DOMAIN proc : SameRun(proc[i], proc'[i]),
         \A i \in entries : i \in entries' \/ proc'[i].state = "gone"
  PROVE  SeenInv'
<1> SUFFICES ASSUME NEW k \in DOMAIN proc
             PROVE  /\ \A i \in proc'[k].seen : i \in DOMAIN proc /\ i < k
                    /\ proc'[k].base = UdpPortBase + Cardinality(OutputsOf(proc[k].seen))'
                    /\ \A i \in DOMAIN proc :
                         i < k => i \in proc'[k].seen \/ proc'[i].state = "gone"
                    /\ k \in entries' \/ proc'[k].state = "gone"
  BY DEF SeenInv
<1>1. /\ \A i \in proc[k].seen : i \in DOMAIN proc /\ i < k
      /\ proc[k].base = UdpPortBase + Cardinality(OutputsOf(proc[k].seen))
      /\ \A i \in DOMAIN proc : i < k => i \in proc[k].seen \/ proc[i].state = "gone"
      /\ k \in entries \/ proc[k].state = "gone"
  BY DEF SeenInv
<1>2. proc'[k].seen = proc[k].seen /\ proc'[k].base = proc[k].base
      /\ \A i \in DOMAIN proc : /\ proc'[i].counted = proc[i].counted
                                /\ proc[i].state = "gone" => proc'[i].state = "gone"
  BY DEF SameRun
<1>3. OutputsOf(proc[k].seen)' = OutputsOf(proc[k].seen)
  <2>1. OutputsOf(proc[k].seen)' = UNION {{i} \X (1..proc'[i].counted) : i \in proc[k].seen}
    BY <1>2 DEF OutputsOf
  <2>2. OutputsOf(proc[k].seen) = UNION {{i} \X (1..proc[i].counted) : i \in proc[k].seen}
    BY DEF OutputsOf
  <2>3. \A i \in proc[k].seen : proc'[i].counted = proc[i].counted
    BY <1>1, <1>2
  <2> QED BY <2>1, <2>2, <2>3, OutputsStay
<1> QED BY <1>1, <1>2, <1>3

\* A launch counts the entries of the list.
LEMMA SeenLaunch ==
  ASSUME Core, SeenInv, NEW j \in Jobs, Launch(j)
  PROVE  SeenInv'
<1> DEFINE n == Len(proc) + 1
<1>1. /\ AppType /\ Recorded /\ entries \subseteq DOMAIN proc
      /\ Len(proc) \in Nat /\ DOMAIN proc = 1..Len(proc)
  BY DEF Core, Typed, AppType, AppTypeOK
<1>2. /\ DOMAIN proc' = DOMAIN proc \cup {n} /\ n \notin DOMAIN proc /\ proc'[n] = Added(j)
      /\ \A i \in DOMAIN proc : proc'[i] = proc[i]
      /\ entries' = entries \cup {n}
  BY <1>1, LaunchAdds DEF Launch, LaunchProcess
<1>3. \A i \in DOMAIN proc : i < n /\ ~(n < i)
  BY <1>1
<1>4. Added(j).seen = entries /\ Added(j).base = UdpPortBase + Cardinality(OutputsOf(entries))
  BY DEF Added, Counted
<1> HIDE DEF n
<1>5. ASSUME NEW k \in DOMAIN proc'
      PROVE  /\ \A i \in proc'[k].seen : i \in DOMAIN proc' /\ i < k
             /\ proc'[k].base = UdpPortBase + Cardinality(OutputsOf(proc[k].seen))'
             /\ \A i \in DOMAIN proc' : i < k => i \in proc'[k].seen \/ proc'[i].state = "gone"
             /\ k \in entries' \/ proc'[k].state = "gone"
  <2>1. CASE k = n
    <3>1. proc'[k].seen = entries
      BY <1>2, <1>4, <2>1
    <3>2. OutputsOf(proc[k].seen)' = OutputsOf(entries)
      <4>1. OutputsOf(proc[k].seen)' = UNION {{i} \X (1..proc'[i].counted) : i \in entries}
        BY <3>1 DEF OutputsOf
      <4>2. OutputsOf(entries) = UNION {{i} \X (1..proc[i].counted) : i \in entries}
        BY DEF OutputsOf
      <4>3. \A i \in entries : proc'[i].counted = proc[i].counted
        BY <1>1, <1>2
      <4> QED BY <4>1, <4>2, <4>3, OutputsStay
    <3>3. \A i \in DOMAIN proc : i \in entries \/ proc[i].state = "gone"
      BY DEF SeenInv
    <3>4. ~(n < n)
      <4>1. n \in Nat
        BY <1>1 DEF n
      <4> QED BY <4>1
    <3> QED BY <1>1, <1>2, <1>3, <1>4, <2>1, <3>1, <3>2, <3>3, <3>4
  <2>2. CASE k \in DOMAIN proc
    <3>1. /\ \A i \in proc[k].seen : i \in DOMAIN proc /\ i < k
          /\ proc[k].base = UdpPortBase + Cardinality(OutputsOf(proc[k].seen))
          /\ \A i \in DOMAIN proc : i < k => i \in proc[k].seen \/ proc[i].state = "gone"
          /\ k \in entries \/ proc[k].state = "gone"
      BY <2>2 DEF SeenInv
    <3>2. OutputsOf(proc[k].seen)' = OutputsOf(proc[k].seen)
      <4>1. OutputsOf(proc[k].seen)' = UNION {{i} \X (1..proc'[i].counted) : i \in proc[k].seen}
        BY <1>2, <2>2 DEF OutputsOf
      <4>2. OutputsOf(proc[k].seen) = UNION {{i} \X (1..proc[i].counted) : i \in proc[k].seen}
        BY DEF OutputsOf
      <4>3. \A i \in proc[k].seen : proc'[i].counted = proc[i].counted
        BY <1>2, <3>1
      <4> QED BY <4>1, <4>2, <4>3, OutputsStay
    <3> QED BY <1>2, <1>3, <2>2, <3>1, <3>2
  <2> QED BY <1>2, <2>1, <2>2
<1> QED BY <1>5 DEF SeenInv

\* SeenInv holds in every state.
LEMMA SeenHolds == Spec => []SeenInv
<1>1. Init => SeenInv
  BY DEF Init, AppInit, SeenInv
<1>2. Core /\ SeenInv /\ [Next]_vars => SeenInv'
  <2> SUFFICES ASSUME Core, SeenInv, [Next]_vars PROVE SeenInv'
    OBVIOUS
  <2>1. AppType /\ Recorded
    BY DEF Core, Typed
  <2>2. CASE UNCHANGED <<appVars, keyFile>>
    <3>1. \A i \in DOMAIN proc : SameRun(proc[i], proc'[i])
      <4>1. \A i \in DOMAIN proc : proc[i] \in Process /\ proc'[i] = proc[i]
        BY <2>1, <2>2 DEF AppType, appVars
      <4> QED BY <4>1, ProcessUpdates
    <3> QED BY <2>2, <3>1, SeenStep DEF appVars
  <2>3. CASE \E j \in Jobs : Launch(j)
    BY <2>3, SeenLaunch
  <2>4. CASE WorkerStep /\ \A j \in Jobs : ~Launch(j)
    <3>1. DOMAIN proc' = DOMAIN proc /\ \A i \in DOMAIN proc : SameRun(proc[i], proc'[i])
      BY <2>1, <2>4, WorkerProcesses
    <3>2. ASSUME NEW i \in entries PROVE i \in entries' \/ proc'[i].state = "gone"
      <4>1. CASE RemoveEntries
        BY <4>1 DEF RemoveEntries, Removable
      <4>2. entries' = entries \/ RemoveEntries
        <5>1. \A j \in Jobs : Stop(j) => entries' = entries
          BY <2>1, StopsOne
        <5>2. \A k \in DOMAIN proc : Runs(k) => entries' = entries
          BY <2>1, RunsTurns
        <5> QED BY <2>4, <5>1, <5>2 DEF WorkerStep, ReadingsWritten, WriteReadings, Launched,
                LaunchSucceeds, NotLaunched, LaunchFails, CheckJobStatus, CheckPanics
      <4> QED BY <4>1, <4>2
    <3> QED BY <3>1, <3>2, SeenStep
  <2> QED BY <2>2, <2>3, <2>4, RecordsStay
<1> QED BY <1>1, <1>2, CoreHolds, PTL DEF Spec

\* A process that is counted besides others raises the count by its outputs.
LEMMA OutputsGrow ==
  ASSUME AppType, NEW S \in SUBSET DOMAIN proc, NEW T \in SUBSET DOMAIN proc,
         S \subseteq T, NEW i \in T, i \notin S, proc[i].counted \in Nat
  PROVE  Cardinality(OutputsOf(S)) + proc[i].counted <= Cardinality(OutputsOf(T))
<1> DEFINE n == proc[i].counted
           own == {i} \X (1..n)
           a == OutputsOf(S)
           b == OutputsOf(T)
<1>1. own \subseteq b /\ a \subseteq b /\ a \cap own = {}
  BY DEF OutputsOf
<1>2. IsFiniteSet(a) /\ IsFiniteSet(b) /\ Cardinality(a) \in Nat /\ Cardinality(b) \in Nat
  BY OutputsFinite
<1>3. n \in Nat
  OBVIOUS
<1> HIDE DEF n, a, b
<1>4. IsFiniteSet(1..n) /\ Cardinality(1..n) = n
  BY <1>3, FS_Interval
<1>5. IsFiniteSet(own) /\ Cardinality(own) = n
  <2>1. IsFiniteSet({i}) /\ Cardinality({i}) = 1
    BY FS_Singleton
  <2>2. IsFiniteSet(own) /\ Cardinality(own) = Cardinality({i}) * Cardinality(1..n)
    BY <1>4, <2>1, FS_Product
  <2> QED BY <1>3, <1>4, <2>1, <2>2
<1> HIDE DEF own
<1>6. Cardinality(a \cup own) = Cardinality(a) + n
  <2>1. Cardinality(a \cup own) = Cardinality(a) + Cardinality(own) - Cardinality(a \cap own)
    BY <1>2, <1>5, FS_Union
  <2>2. Cardinality(a \cap own) = 0
    BY <1>1, FS_EmptySet
  <2> QED BY <1>2, <1>3, <1>5, <2>1, <2>2
<1>7. Cardinality(a \cup own) <= Cardinality(b)
  <2>1. a \cup own \in SUBSET b
    BY <1>1
  <2> QED BY <1>2, <2>1, FS_Subset
<1>8. Cardinality(a) + n <= Cardinality(b)
  BY <1>6, <1>7
<1> QED BY <1>8 DEF n, a, b

\* The UDP ports of a process without a rendition for detection are as many as
\* were counted for it, from its base.
LEMMA PortsCounted ==
  ASSUME Core, NEW i \in DOMAIN proc, NEW p \in UdpPorts(i)
  PROVE  /\ p \in Nat /\ proc[i].base <= p
         /\ \/ p < proc[i].base + proc[i].counted
            \/ Len(Renditions(SpecOf(i))) > Len(SpecOf(i).video)
<1> DEFINE s == SpecOf(i)
           base == proc[i].base
           R == Len(Renditions(s))
           V == Len(s.video)
           A == Len(s.audio)
<1>1. s \in JobSpec /\ base \in Nat /\ proc[i].counted = V + A
  BY ProcessSpec DEF Good, Outputs
<1>2. PICK in \in PackagerInputs(s, base) : p = in.port
  BY DEF UdpPorts
<1> HIDE DEF s, base
<1>3. p \in Nat /\ base <= p /\ p < base + R + A
  BY <1>1, <1>2, PortsInRange
<1>4. R \in Nat /\ V \in Nat /\ A \in Nat /\ (R = V \/ R = V + 1)
  BY <1>1, RenditionList
<1> HIDE DEF R, V, A
<1>5. p < base + (V + A) \/ R > V
  BY <1>1, <1>3, <1>4
<1>6. p < base + proc[i].counted \/ R > V
  BY <1>1, <1>5
<1> QED BY <1>3, <1>6 DEF s, base, R, V

\* Two processes on a worker share a UDP port only if a process counted for the
\* first had left the list before the second was launched, or if the first has a
\* rendition for detection.
THEOREM UdpApart == Spec => []UdpPortsApart
<1>1. Core /\ SeenInv => UdpPortsApart
  <2> SUFFICES ASSUME Core, SeenInv,
                      NEW i \in DOMAIN proc, NEW k \in DOMAIN proc, i < k,
                      {proc[i].state, proc[k].state} \subseteq {"up", "signalled"},
                      NEW p \in UdpPorts(i) \cap UdpPorts(k),
                      proc[i].seen \subseteq proc[k].seen,
                      ~(Len(Renditions(SpecOf(i))) > Len(SpecOf(i).video))
               PROVE  FALSE
    BY DEF UdpPortsApart
  <2>1. AppType /\ proc[i].counted \in Nat /\ proc[i].base \in Nat /\ proc[k].base \in Nat
    BY ProcessSpec DEF Core, Typed
  <2>2. /\ \A m \in proc[i].seen : m \in DOMAIN proc /\ m < i
        /\ \A m \in proc[k].seen : m \in DOMAIN proc
        /\ i \in proc[k].seen \/ proc[i].state = "gone"
        /\ proc[i].base = UdpPortBase + Cardinality(OutputsOf(proc[i].seen))
        /\ proc[k].base = UdpPortBase + Cardinality(OutputsOf(proc[k].seen))
    BY DEF SeenInv
  <2>3. i \in proc[k].seen
    <3>1. proc[i].state # "gone"
      BY Zenon
    <3> QED BY <2>2, <3>1
  <2>4. i \notin proc[i].seen
    <3>1. i \in Nat
      BY <2>1 DEF AppType
    <3> QED BY <2>2, <3>1
  <2>5. proc[i].seen \in SUBSET DOMAIN proc /\ proc[k].seen \in SUBSET DOMAIN proc
    BY <2>2
  <2> DEFINE a == Cardinality(OutputsOf(proc[i].seen))
             b == Cardinality(OutputsOf(proc[k].seen))
             n == proc[i].counted
             baseI == proc[i].base
             baseK == proc[k].base
  <2>6. a + n <= b
    BY <2>1, <2>3, <2>4, <2>5, OutputsGrow
  <2>7. a \in Nat /\ b \in Nat /\ n \in Nat
    BY <2>1, <2>5, OutputsFinite
  <2>8. baseI = UdpPortBase + a /\ baseK = UdpPortBase + b
    BY <2>2
  <2>9. p \in Nat /\ p < baseI + n /\ baseK <= p
    <3>1. p \in Nat /\ p < baseI + n
      BY PortsCounted
    <3>2. baseK <= p
      BY PortsCounted
    <3> QED BY <3>1, <3>2
  <2> HIDE DEF a, b, n, baseI, baseK
  <2> QED BY <2>6, <2>7, <2>8, <2>9 DEF UdpPortBase
<1> QED BY <1>1, CoreHolds, SeenHolds, PTL
=============================================================================
