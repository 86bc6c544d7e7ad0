----------------------------- MODULE Transcoder -----------------------------
(***************************************************************************)
(* One worker_transcoder process.  Its goroutines share memory without a   *)
(* lock: the file watcher (fsnotify events), the upload ticker with its    *)
(* list of stream files, the ticker and the threads of object detection,   *)
(* and the ticker that watches over ffmpeg and the Shaka packager.         *)
(*                                                                         *)
(* The packager writes init, segment 1, playlist, segment 2, playlist...   *)
(* of each rendition.  The files of the rendition Target are not uploaded: *)
(* on the upload list and in the store, the files of Target are the        *)
(* annotated ones that detection makes of them.                            *)
(***************************************************************************)
EXTENDS Integers, FiniteSets, SequencesExt

CONSTANTS
  Children,       \* {"packager", "ffmpeg"}, or {"ffmpeg"} for AV1
  Renditions,
  Target,         \* the rendition that is used for object detection
  Files,          \* bound: the number of files packaged of each rendition
  MaxUploads,     \* max_concurrent_uploads
  MaxRetries,     \* max_upload_retries
  MaxDetections,  \* max_concurrent_detection_jobs
  Faults,         \* the kinds of failure that occur
  FaultLimit      \* bound: how many of them

FaultKinds == {"exit", "stop", "missed", "removed", "upload", "race",
               "merge", "detector", "convert"}

ASSUME TranscoderAssumption ==
  /\ Target \in Renditions
  /\ Files \in [Renditions -> Nat]
  /\ {MaxUploads, MaxRetries, MaxDetections, FaultLimit} \subseteq Nat
  /\ Faults \subseteq FaultKinds

VARIABLES
  alive,          \* the process runs
  child,          \* its child processes: "up", signalled, "down"
  made,           \* the number of files packaged, per rendition
  events,         \* fsnotify: the files created, not yet watched
  watching,       \* the file watcher's goroutine runs
  targetInit,     \* original_detection_target_init_segment_path_local is set
  targetPlaylist, \* original_detection_target_hls_playlist_path_local
  uploadList,     \* upload_list
  cut,            \* the end of upload_list is detached: pushes go nowhere
  initItems,      \* init_segments_to_upload: the renditions with an item
  tick,           \* uploadFiles: the element it is at (0: not running), i - 1
  store,          \* the files in S3
  published,      \* the last segment in the annotated playlist in S3
  given,          \* log: the files given up after MaxRetries
  lost,           \* log: the files a missed event or a race has lost
  queue,          \* queued_detection_jobs, by segment number
  late,           \* the last segment to be queued for too long
  detections,     \* num_concurrent_detection_jobs
  stage,          \* the detection of each segment
  content,        \* the segment that each segment_n.m4s holds: NoFile, Empty, or its number
  data,           \* the segment that the job's thread has read from segment_1.m4s
  shared,         \* log: the segments whose conversion overlapped another one
  listed,         \* the last segment in the local annotated playlist
  annotated,      \* the local annotated playlist exists
  faults

processVars == <<child>>
packageVars == <<made>>
watchVars == <<events, watching, targetInit, targetPlaylist>>
listVars == <<uploadList, cut, initItems, lost>>
uploadVars == <<tick, store, published, given>>
jobVars == <<queue, late, detections, stage>>
outputVars == <<content, data, shared, listed, annotated>>
vars == <<alive, processVars, packageVars, watchVars, listVars, uploadVars,
          jobVars, outputVars, faults>>

Numbers == 1..(Files[Target] \div 2)
Kinds == {"init", "data", "playlist", "annotated"}
File == [rend : Renditions, kind : Kinds, n : Nat]
Item == [file : File, ripe : BOOLEAN, retried : Nat]
Stages == {"none", "detect", "convert", "read", "readOld", "write", "writeOld",
           "rename", "list", "done", "failed"}

NoFile == -1
Empty == 0
Contents == Numbers \cup {Empty, NoFile}

InitOf(r) == [rend |-> r, kind |-> "init", n |-> 0]
SegmentOf(r, n) == [rend |-> r, kind |-> "data", n |-> n]
PlaylistOf(r) == [rend |-> r, kind |-> "playlist", n |-> 0]
AnnotatedPlaylist == [rend |-> Target, kind |-> "annotated", n |-> 0]

\* The file a packager creates when it has created k of them.
Packaged(r, k) ==
  IF k = 0 THEN InitOf(r)
  ELSE IF k % 2 = 1 THEN SegmentOf(r, (k + 1) \div 2) ELSE PlaylistOf(r)

TypeOK ==
  /\ alive \in BOOLEAN
  /\ child \in [Children -> {"up", "signalled", "down"}]
  /\ made \in [Renditions -> Nat]
  /\ events \in Seq(File)
  /\ {watching, targetInit, cut, annotated} \subseteq BOOLEAN
  /\ targetPlaylist \in {"none", "playlist", "annotated"}
  /\ uploadList \in Seq(Item)
  /\ initItems \subseteq Renditions
  /\ tick \in [at : Nat, sent : 0..MaxUploads]
  /\ store \cup given \cup lost \subseteq File
  /\ queue \in Seq(Numbers)
  /\ stage \in [Numbers -> Stages]
  /\ detections \in 0..MaxDetections
  /\ {late, published, listed} \subseteq Numbers \cup {0}
  /\ {content, data} \subseteq [Numbers -> Contents]
  /\ shared \subseteq Numbers
  /\ faults \in 0..FaultLimit

Init ==
  /\ alive = TRUE
  /\ child = [c \in Children |-> "up"]
  /\ made = [r \in Renditions |-> 0]
  /\ events = <<>> /\ watching = TRUE
  /\ targetInit = FALSE /\ targetPlaylist = "none"
  /\ uploadList = <<>> /\ cut = FALSE /\ initItems = {} /\ lost = {}
  /\ tick = [at |-> 0, sent |-> 0]
  /\ store = {} /\ published = 0 /\ given = {}
  /\ queue = <<>> /\ late = 0 /\ detections = 0
  /\ stage = [n \in Numbers |-> "none"]
  /\ content = [n \in Numbers |-> NoFile] /\ data = content /\ shared = {}
  /\ listed = 0 /\ annotated = FALSE
  /\ faults = 0

Fail(kind) ==
  /\ kind \in Faults /\ faults < FaultLimit
  /\ faults' = faults + 1

\* A panic, or os.Exit: nothing else of the state matters any more.
Die ==
  /\ alive' = FALSE
  /\ UNCHANGED <<packageVars, watchVars, listVars, uploadVars, jobVars,
                 outputVars>>

(***************************************************************************)
(* The environment: packager, clock, signals.                              *)
(***************************************************************************)
\* A file is created, and the watcher told of it, unless its directory is not
\* watched yet or the kernel's event queue overflows.
Package(r) ==
  LET f == Packaged(r, made[r]) IN
  /\ \A c \in Children : child[c] = "up"
  /\ made[r] < Files[r]
  /\ made' = [made EXCEPT ![r] = @ + 1]
  /\ \/ /\ events' = Append(events, f)
        /\ UNCHANGED <<lost, faults>>
     \/ /\ Fail("missed")
        /\ lost' = lost \cup {f}
        /\ UNCHANGED events
  /\ UNCHANGED <<alive, processVars, watching, targetInit, targetPlaylist,
                 uploadList, cut, initItems, uploadVars, jobVars, outputVars>>

\* More than stream_file_write_delay_ms have passed since an item was made.
Ripen ==
  \E i \in DOMAIN uploadList :
    /\ ~uploadList[i].ripe
    /\ \A h \in 1..(i - 1) : uploadList[h].ripe
    /\ uploadList' = [uploadList EXCEPT ![i].ripe = TRUE]
    /\ UNCHANGED <<alive, processVars, packageVars, watchVars, cut, initItems,
                   lost, uploadVars, jobVars, outputVars, faults>>

\* The front job has been in the queue for longer than a segment lasts, while
\* no detector was free to take it.
Age ==
  /\ queue # <<>> /\ late < Head(queue)
  /\ detections >= MaxDetections
  /\ late' = Head(queue)
  /\ UNCHANGED <<alive, processVars, packageVars, watchVars, listVars,
                 uploadVars, queue, detections, stage, outputVars, faults>>

(***************************************************************************)
(* Supervision: when one child is gone the other is signalled, and when    *)
(* none is left worker_transcoder exits.                                   *)
(***************************************************************************)
ChildEnds(c) ==
  /\ \/ child[c] = "signalled" /\ UNCHANGED faults
     \/ child[c] = "up" /\ Fail("exit")
  /\ child' = [child EXCEPT ![c] = "down"]
  /\ UNCHANGED <<alive, packageVars, watchVars, listVars, uploadVars, jobVars,
                 outputVars>>

Signalled == [c \in Children |-> IF child[c] = "up" THEN "signalled" ELSE child[c]]

\* Mutant: a child that is left alone is not signalled.
ManageUnsignalled ==
  /\ \E c \in Children : child[c] = "down"
  /\ UNCHANGED child
  /\ alive' = (\E c \in Children : child[c] # "down")
  /\ UNCHANGED <<packageVars, watchVars, listVars, uploadVars, jobVars,
                 outputVars, faults>>

ManageCommands ==
  /\ \E c \in Children : child[c] = "down"
  /\ child' = Signalled
  /\ alive' = (\E c \in Children : child[c] # "down")
  /\ UNCHANGED <<packageVars, watchVars, listVars, uploadVars, jobVars,
                 outputVars, faults>>

\* SIGTERM from worker_app.
Shutdown == Fail("stop") /\ child' = Signalled /\ Die

\* What the runtime makes of a race on the list or on the table of init items.
RaceCrash == Fail("race") /\ Die /\ UNCHANGED child

(***************************************************************************)
(* The upload list.                                                        *)
(***************************************************************************)
NewItem(f, ripe) == [file |-> f, ripe |-> ripe, retried |-> 0]

\* PushBack of item to the list l, which nothing follows once the end is cut.
Attach(l, item) ==
  /\ uploadList' = IF cut THEN l ELSE Append(l, item)
  /\ lost' = IF cut THEN lost \cup {item.file} ELSE lost
  /\ UNCHANGED cut

\* A PushBack that races with another one may lose the item; one that races
\* with Remove of the last element links the item, and with it all later ones,
\* to an element outside the list.
PushBack(l, item) ==
  \/ Attach(l, item) /\ UNCHANGED faults
  \/ /\ Fail("race")
     /\ uploadList' = l
     /\ lost' = lost \cup {item.file}
     /\ cut' \in {cut, TRUE}

\* Mutant: the init segment does not wait for the first data segment.
AddAtOnce(f) ==
  PushBack(uploadList, NewItem(f, FALSE)) /\ UNCHANGED initItems

AddToUploadList(f) ==
  IF f.kind = "init"
  THEN /\ initItems' = initItems \cup {f.rend}
       /\ UNCHANGED <<uploadList, cut, lost, faults>>
  ELSE /\ PushBack(uploadList, NewItem(f, FALSE))
       /\ UNCHANGED initItems

(***************************************************************************)
(* The file watcher: one action per kind of file.                          *)
(***************************************************************************)
WatchStreamFile ==
  /\ watching /\ events # <<>>
  /\ Head(events).rend # Target
  /\ events' = Tail(events)
  /\ AddToUploadList(Head(events))
  /\ UNCHANGED <<alive, processVars, packageVars, watching, targetInit,
                 targetPlaylist, uploadVars, jobVars, outputVars>>

Watched(kind) ==
  /\ watching /\ events # <<>>
  /\ Head(events).rend = Target /\ Head(events).kind = kind
  /\ events' = Tail(events)

WatchInit ==
  /\ Watched("init")
  /\ targetInit' = TRUE
  /\ UNCHANGED <<alive, processVars, packageVars, watching, targetPlaylist,
                 listVars, uploadVars, jobVars, outputVars, faults>>

\* The name of the annotated playlist, which is created once by a detection
\* thread, passes for that of the packager's too.
WatchPlaylist ==
  /\ \E kind \in {"playlist", "annotated"} :
       Watched(kind) /\ targetPlaylist' = kind
  /\ UNCHANGED <<alive, processVars, packageVars, watching, targetInit,
                 listVars, uploadVars, jobVars, outputVars, faults>>

\* Without the init segment nothing can be detected.
SkipSegment ==
  /\ Watched("data") /\ ~targetInit
  /\ UNCHANGED <<alive, processVars, packageVars, watching, targetInit,
                 targetPlaylist, listVars, uploadVars, jobVars, outputVars,
                 faults>>

\* The append to queued_detection_jobs may race with the pop of the front job n:
\* either job is lost, or n comes back.
Enqueue(n) ==
  \/ queue' = Append(queue, n) /\ UNCHANGED faults
  \/ /\ Fail("race")
     /\ \/ UNCHANGED queue
        \/ \E m \in Numbers : stage[m] = "detect" /\ queue' = <<m>> \o Append(queue, n)

MergeSegment ==
  /\ Watched("data") /\ targetInit
  /\ Enqueue(Head(events).n)
  /\ UNCHANGED <<alive, processVars, packageVars, watching, targetInit,
                 targetPlaylist, listVars, uploadVars, late, detections, stage,
                 outputVars>>

\* A segment that cannot be read, or is empty: the goroutine returns.
MergeFails ==
  /\ Watched("data") /\ targetInit
  /\ Fail("merge")
  /\ watching' = FALSE
  /\ UNCHANGED <<alive, processVars, packageVars, targetInit, targetPlaylist,
                 listVars, uploadVars, jobVars, outputVars>>

Watch ==
  \/ WatchStreamFile \/ WatchInit \/ WatchPlaylist
  \/ SkipSegment \/ MergeSegment \/ MergeFails

(***************************************************************************)
(* The upload ticker: one iteration of uploadFiles is one step.            *)
(***************************************************************************)
Idle == [at |-> 0, sent |-> 0]
Current == uploadList[tick.at]
Others == RemoveAt(uploadList, tick.at)

\* The local file is gone: the packager keeps segments for a while only, two
\* conversions that overlap rename one output twice, and the next conversion
\* takes the file of segment 1 away.
Gone(f) == f.rend = Target /\ f.kind = "data" /\ content[f.n] = NoFile

UploadUnchanged ==
  UNCHANGED <<alive, processVars, packageVars, watchVars, jobVars, outputVars>>

BeginTick ==
  /\ tick.at = 0 /\ uploadList # <<>>
  /\ tick' = [at |-> 1, sent |-> 0]
  /\ UploadUnchanged
  /\ UNCHANGED <<listVars, store, published, given, faults>>

\* Front of a list that has a length but no element is the list's sentinel.
TickPanics ==
  /\ tick.at = 0 /\ uploadList = <<>> /\ cut
  /\ Die /\ UNCHANGED <<child, faults>>

AtItem == tick.at \in DOMAIN uploadList
\* Mutant: one upload more than max_concurrent_uploads.
SpentLate == AtItem /\ Current.ripe /\ tick.sent > MaxUploads

Spent == AtItem /\ Current.ripe /\ tick.sent >= MaxUploads

EndTick ==
  /\ tick.at # 0 /\ (~AtItem \/ Spent)
  /\ tick' = Idle
  /\ UploadUnchanged
  /\ UNCHANGED <<listVars, store, published, given, faults>>

PassItem ==
  /\ AtItem /\ ~Current.ripe
  /\ tick' = [tick EXCEPT !.at = @ + 1]
  /\ UploadUnchanged
  /\ UNCHANGED <<listVars, store, published, given, faults>>

Eligible == AtItem /\ Current.ripe /\ ~Spent

\* os.Stat fails, and the size of the nil FileInfo is logged.
StatPanics ==
  /\ AtItem
  /\ \/ Gone(Current.file) /\ UNCHANGED faults
     \/ Current.file.rend # Target /\ Current.file.kind = "data"
        /\ Current.ripe /\ Fail("removed")
  /\ Die /\ UNCHANGED child

First(f) == f.kind = "data" /\ f.n = 1

Uploaded ==
  LET f == Current.file IN
  /\ Eligible /\ Current.retried < MaxRetries /\ ~Gone(f)
  /\ store' = store \cup {f}
  /\ published' = IF f = PlaylistOf(Target) THEN listed ELSE published
  /\ IF First(f) /\ f.rend \in initItems
     THEN PushBack(Others, NewItem(InitOf(f.rend), TRUE))
     ELSE uploadList' = Others /\ UNCHANGED <<cut, lost, faults>>
  /\ tick' = [tick EXCEPT !.sent = @ + 1]
  /\ UploadUnchanged
  /\ UNCHANGED <<initItems, given>>

\* Mutant: the failed item is taken off the list.
UploadDropped ==
  /\ Eligible /\ Current.retried < MaxRetries /\ ~Gone(Current.file)
  /\ Fail("upload")
  /\ uploadList' = Others
  /\ tick' = [tick EXCEPT !.sent = @ + 1]
  /\ UploadUnchanged
  /\ UNCHANGED <<initItems, cut, lost, store, published, given>>

UploadFails ==
  /\ Eligible /\ Current.retried < MaxRetries /\ ~Gone(Current.file)
  /\ Fail("upload")
  /\ Attach(Others, [Current EXCEPT !.retried = @ + 1])
  /\ tick' = [tick EXCEPT !.sent = @ + 1]
  /\ UploadUnchanged
  /\ UNCHANGED <<initItems, store, published, given>>

\* Mutant: the item that is given up stays on the list.
GiveUpKeeps ==
  /\ Eligible /\ Current.retried >= MaxRetries /\ ~Gone(Current.file)
  /\ given' = given \cup {Current.file}
  /\ tick' = [tick EXCEPT !.at = @ + 1]
  /\ UploadUnchanged
  /\ UNCHANGED <<listVars, store, published, faults>>

GiveUp ==
  /\ Eligible /\ Current.retried >= MaxRetries /\ ~Gone(Current.file)
  /\ given' = given \cup {Current.file}
  /\ uploadList' = Others
  /\ UploadUnchanged
  /\ UNCHANGED <<tick, cut, initItems, lost, store, published, faults>>

UploadFiles ==
  \/ BeginTick \/ TickPanics \/ EndTick \/ PassItem \/ StatPanics
  \/ Uploaded \/ UploadFails \/ GiveUp

(***************************************************************************)
(* Object detection: the ticker that takes the front job, and the steps of *)
(* the job's thread.                                                       *)
(***************************************************************************)
MayTake ==
  /\ queue # <<>>
  /\ detections < MaxDetections
  /\ late < Head(queue)

TakeUnchanged ==
  UNCHANGED <<alive, processVars, packageVars, watchVars, listVars, uploadVars,
              late, outputVars, faults>>

\* Mutant: the thread, not the ticker, counts the job.
TakeUncounted ==
  /\ MayTake
  /\ queue' = Tail(queue)
  /\ stage[Head(queue)] = "none"
  /\ stage' = [stage EXCEPT ![Head(queue)] = "detect"]
  /\ TakeUnchanged /\ UNCHANGED detections

TakeJob ==
  /\ MayTake /\ stage[Head(queue)] = "none"
  /\ detections' = detections + 1
  /\ queue' = Tail(queue)
  /\ stage' = [stage EXCEPT ![Head(queue)] = "detect"]
  /\ TakeUnchanged

\* A job that a race has put back: its input is gone, the detector fails.
TakeAgain ==
  /\ MayTake /\ stage[Head(queue)] # "none"
  /\ detections' = detections + 1
  /\ queue' = Tail(queue)
  /\ TakeUnchanged /\ UNCHANGED stage

Move(n, from, to) == stage[n] = from /\ stage' = [stage EXCEPT ![n] = to]

ThreadUnchanged ==
  UNCHANGED <<alive, processVars, packageVars, watching, targetInit,
              targetPlaylist, uploadVars, queue, late>>

\* run_detection fails: the job's thread returns, and is still counted.
DetectFails(n) ==
  /\ Move(n, "detect", "failed") /\ Fail("detector")
  /\ ThreadUnchanged
  /\ UNCHANGED <<events, listVars, detections, outputVars>>

Detect(n) ==
  /\ Move(n, "detect", "convert")
  /\ detections' = detections - 1
  /\ ThreadUnchanged
  /\ UNCHANGED <<events, listVars, outputVars, faults>>

Converting(n) == stage[n] \in {"read", "readOld", "write", "writeOld", "rename"}

StartConversion(n) ==
  LET others == {m \in Numbers \ {n} : Converting(m)} IN
  shared' = IF others = {} THEN shared ELSE shared \cup others \cup {n}

\* MP4Box has one output, segment_1.m4s, whatever the segment.
Convert(n) ==
  /\ Move(n, "convert", "read")
  /\ content' = [content EXCEPT ![1] = n]
  /\ StartConversion(n)
  /\ ThreadUnchanged
  /\ UNCHANGED <<events, listVars, detections, data, listed, annotated, faults>>

\* Mutant: the error of the conversion is not looked at any more.
ConvertGoesOn(n) ==
  /\ Move(n, "convert", "read") /\ Fail("convert")
  /\ StartConversion(n)
  /\ ThreadUnchanged
  /\ UNCHANGED <<events, listVars, detections, content, data, listed, annotated>>

\* The error is looked at after the next two steps, which take the output of an
\* earlier conversion then.
ConvertFails(n) ==
  /\ Move(n, "convert", "readOld") /\ Fail("convert")
  /\ StartConversion(n)
  /\ ThreadUnchanged
  /\ UNCHANGED <<events, listVars, detections, content, data, listed, annotated>>

\* segment_1.m4s is read for its time to be set, and written back.  A file that
\* cannot be read is replaced by an empty one.
ReadSegment(n) ==
  /\ Move(n, "read", "write") \/ Move(n, "readOld", "writeOld")
  /\ data' = [data EXCEPT ![n] = content[1]]
  /\ ThreadUnchanged
  /\ UNCHANGED <<events, listVars, detections, content, shared, listed,
                 annotated, faults>>

WriteSegment(n) ==
  /\ Move(n, "write", "rename") \/ Move(n, "writeOld", "failed")
  /\ content' = [content EXCEPT ![1] = IF data[n] = NoFile THEN Empty ELSE data[n]]
  /\ data' = [data EXCEPT ![n] = NoFile]
  /\ ThreadUnchanged
  /\ UNCHANGED <<events, listVars, detections, shared, listed, annotated, faults>>

\* SetTfdtUint32 is a library's: with no bytes to set the time in, it may panic.
StampPanics(n) ==
  /\ stage[n] \in {"write", "writeOld"} /\ data[n] \in {NoFile, Empty}
  /\ Die /\ UNCHANGED <<child, faults>>

\* Mutant: the annotated playlist is made before the segment is put on the list.
ListEarly(n) ==
  /\ Move(n, "rename", "list")
  /\ listed' = n
  /\ PushBack(uploadList, NewItem(PlaylistOf(Target), FALSE))
  /\ ThreadUnchanged
  /\ UNCHANGED <<events, initItems, detections, content, data, shared, annotated>>

\* segment_1.m4s is renamed, to itself for segment 1, and the file put on the
\* upload list, whether or not there is one.
Rename(n) ==
  /\ Move(n, "rename", "list")
  /\ content' = IF n = 1 \/ content[1] = NoFile THEN content
                ELSE [content EXCEPT ![n] = content[1], ![1] = NoFile]
  /\ initItems' = initItems \cup {Target}
  /\ PushBack(uploadList, NewItem(SegmentOf(Target, n), FALSE))
  /\ ThreadUnchanged
  /\ UNCHANGED <<events, detections, data, shared, listed, annotated>>

InPlaylist(n) == made[Target] >= 2 * n + 1

\* os.Create of playlist_detected.m3u8: the watcher sees the first one.
CreateAnnotated ==
  /\ annotated' = TRUE
  /\ events' = IF annotated THEN events ELSE Append(events, AnnotatedPlaylist)

\* The annotated playlist is the packager's up to segment n.
ListSegment(n) ==
  /\ targetPlaylist = "playlist" /\ InPlaylist(n)
  /\ Move(n, "list", "done")
  /\ CreateAnnotated
  /\ listed' = n
  /\ PushBack(uploadList, NewItem(PlaylistOf(Target), FALSE))
  /\ ThreadUnchanged
  /\ UNCHANGED <<initItems, detections, content, data, shared>>

\* Segment n is not found.  When the packager has not listed it yet the new
\* playlist stays empty; when the annotated playlist is read in place of the
\* packager's the output is another file.
ListFails(n) ==
  /\ Move(n, "list", "failed")
  /\ \/ targetPlaylist = "playlist" /\ ~InPlaylist(n) /\ CreateAnnotated /\ listed' = 0
     \/ targetPlaylist = "annotated" /\ UNCHANGED <<events, annotated, listed>>
  /\ ThreadUnchanged
  /\ UNCHANGED <<listVars, detections, content, data, shared, faults>>

\* There is no dot in the empty path of a playlist not yet seen.
ListPanics(n) ==
  /\ targetPlaylist = "none" /\ stage[n] = "list"
  /\ Die /\ UNCHANGED <<child, faults>>

ThreadStep(n) ==
  \/ DetectFails(n) \/ Detect(n) \/ Convert(n) \/ ConvertFails(n)
  \/ ReadSegment(n) \/ WriteSegment(n) \/ StampPanics(n)
  \/ Rename(n) \/ ListSegment(n) \/ ListFails(n) \/ ListPanics(n)

ThreadRuns(n) ==
  \/ Detect(n) \/ Convert(n) \/ ReadSegment(n) \/ WriteSegment(n) \/ Rename(n)
  \/ ListSegment(n) \/ ListFails(n) \/ ListPanics(n)

(***************************************************************************)
(* The process.                                                            *)
(***************************************************************************)
Next ==
  /\ alive
  /\ \/ \E r \in Renditions : Package(r)
     \/ Ripen \/ Age
     \/ \E c \in Children : ChildEnds(c)
     \/ ManageCommands \/ Shutdown \/ RaceCrash
     \/ Watch \/ UploadFiles
     \/ TakeJob \/ TakeAgain
     \/ \E n \in Numbers : ThreadStep(n)

Spec == Init /\ [][Next]_vars

\* Time passes and the goroutines run; nothing is assumed of the packager, of
\* a failure, or of how long a detection job waits.
FairSpec ==
  /\ Spec
  /\ WF_vars(alive /\ Ripen)
  /\ WF_vars(alive /\ ManageCommands)
  /\ WF_vars(alive /\ Watch)
  /\ WF_vars(alive /\ UploadFiles)
  /\ WF_vars(alive /\ (TakeJob \/ TakeAgain))
  /\ \A n \in Numbers : WF_vars(alive /\ ThreadRuns(n))
  /\ \A c \in Children : WF_vars(alive /\ child[c] = "signalled" /\ ChildEnds(c))

(***************************************************************************)
(* Properties.                                                             *)
(***************************************************************************)
OnList(f) == \E i \in DOMAIN uploadList : uploadList[i].file = f

Held(f) == OnList(f) \/ f \in store \cup given \cup lost

\* No stream file is forgotten: it is waiting for the watcher, on the upload
\* list, kept until its first data segment is uploaded (init_segments_to_upload),
\* in S3, given up after the last retry, or lost to one of the failures that
\* can lose it.  The same holds of a segment once it is annotated.  uploadFiles
\* takes items off a list that it and others extend.
NoFileForgotten ==
  /\ \A r \in Renditions \ {Target} : \A k \in 0..(Files[r] - 1) :
       k < made[r] =>
         LET f == Packaged(r, k) IN
         \/ Held(f)
         \/ \E i \in DOMAIN events : events[i] = f
         \/ f.kind = "init" /\ r \in initItems
  /\ \A n \in Numbers :
       stage[n] \in {"list", "done"} => Held(SegmentOf(Target, n))

\* An init segment is not uploaded before the first data segment of its
\* rendition (addToUploadList): it may be empty until then.
InitFollowsSegment ==
  \A r \in Renditions : InitOf(r) \in store => SegmentOf(r, 1) \in store

\* Object detection takes no more CPU than max_concurrent_detection_jobs allow:
\* the counter is changed by the ticker and by the threads.
DetectorLimit ==
  Cardinality({n \in Numbers : stage[n] = "detect"}) <= MaxDetections

\* The last segment that the annotated playlist in S3 names was handed to the
\* upload list before, whichever version of the playlist was read and uploaded.
PublishedHandedOver ==
  published # 0 => Held(SegmentOf(Target, published))

\* The annotated file of a segment holds that segment, and never what a failed
\* conversion found in segment_1.m4s or left there, unless two conversions
\* overlapped: the counter of jobs is lowered before them, and they share that
\* file (worker_transcoder.go:646-708).  Segment 1 is left out: its file is the
\* shared one, and belongs to the next conversion.
AnnotatedIsOwn ==
  \A n \in Numbers \ {1} : content[n] \in {NoFile, n} \/ n \in shared

\* Whatever is on the upload list leaves it, uploaded or given up, unless the
\* process ends first: retries come back to the end of the list being scanned.
UploadsEnd ==
  \A r \in Renditions : \A k \in 0..(Files[r] - 1) :
    OnList(Packaged(r, k)) ~> ~OnList(Packaged(r, k)) \/ ~alive

\* ffmpeg and the packager end together, and worker_transcoder after them, so
\* that worker_app sees that the job has failed.
DeathSpreads == (\E c \in Children : child[c] = "down") ~> ~alive

\* doc/yolo.md:13: for every segment of the detection target a detector is
\* launched.  A job that waited too long stays at the front of the queue.
QueuedIsDetected ==
  \A n \in Numbers :
    (\E i \in DOMAIN queue : queue[i] = n) ~> stage[n] # "none" \/ ~alive

\* doc/yolo.md:17: the annotated playlist names a segment that was uploaded.
PublishedIsUploaded ==
  published # 0 => SegmentOf(Target, published) \in store
=============================================================================
