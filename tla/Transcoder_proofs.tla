-------------------------- MODULE Transcoder_proofs --------------------------
(***************************************************************************)
(* What the goroutines of worker_transcoder do to the list of stream files *)
(* and to the detection jobs, for any renditions, files and limits, and    *)
(* whatever failures and races happen.                                     *)
(***************************************************************************)
EXTENDS Transcoder, FiniteSetTheorems, SequenceTheorems, TLAPS

FilesOf(l) == {l[i].file : i \in DOMAIN l}

\* The files the watcher is still to see, and those that are not forgotten.
Coming == {events[i] : i \in DOMAIN events}
Kept == FilesOf(uploadList) \cup store \cup given \cup lost

Detecting == {n \in Numbers : stage[n] = "detect"}

\* The packager numbers the segments of the target within Numbers.
Numbered ==
  /\ \A r \in Renditions : made[r] <= Files[r]
  /\ \A f \in Coming : f.rend = Target /\ f.kind = "data" => f.n \in Numbers

\* Every detection that runs is counted.
Counted == Cardinality(Detecting) <= detections

Typed == TypeOK /\ Numbered /\ Counted

-----------------------------------------------------------------------------
\* What appending to a list of files and taking one off do.
LEMMA ListAppend ==
  ASSUME NEW l \in Seq(Item), NEW item \in Item
  PROVE  /\ Append(l, item) \in Seq(Item)
         /\ FilesOf(Append(l, item)) = FilesOf(l) \cup {item.file}
  BY DEF FilesOf

\* Taking an element off leaves the files of the others (list.Remove).
LEMMA ListRemove ==
  ASSUME NEW l \in Seq(Item), NEW i \in DOMAIN l
  PROVE  /\ RemoveAt(l, i) \in Seq(Item)
         /\ FilesOf(RemoveAt(l, i)) \subseteq FilesOf(l)
         /\ FilesOf(l) \subseteq FilesOf(RemoveAt(l, i)) \cup {l[i].file}
<1> DEFINE rest == RemoveAt(l, i)
<1>1. /\ rest \in Seq(Item) /\ Len(rest) = Len(l) - 1
      /\ \A k \in 1..(i - 1) : rest[k] = l[k]
      /\ \A k \in i..(Len(l) - 1) : rest[k] = l[k + 1]
  <2> DEFINE before == SubSeq(l, 1, i - 1)
             after == SubSeq(l, i + 1, Len(l))
  <2>1. i \in 1..Len(l) /\ Len(l) \in Nat
    OBVIOUS
  <2>2. /\ before \in Seq(Item) /\ Len(before) = i - 1
        /\ \A k \in 1..(i - 1) : before[k] = l[k]
    BY <2>1
  <2>3. /\ after \in Seq(Item) /\ Len(after) = Len(l) - i
        /\ \A k \in 1..(Len(l) - i) : after[k] = l[k + i]
    BY <2>1
  <2>4. rest = before \o after
    BY DEF RemoveAt
  <2> HIDE DEF before, after, rest
  <2>5. /\ rest \in Seq(Item) /\ Len(rest) = Len(before) + Len(after)
        /\ \A k \in 1..(Len(before) + Len(after)) :
             rest[k] = IF k <= Len(before) THEN before[k] ELSE after[k - Len(before)]
    BY <2>2, <2>3, <2>4, ConcatProperties
  <2>6. Len(rest) = Len(l) - 1
    BY <2>1, <2>2, <2>3, <2>5
  <2>7. \A k \in 1..(i - 1) : rest[k] = l[k]
    BY <2>1, <2>2, <2>3, <2>5
  <2>8. ASSUME NEW k \in i..(Len(l) - 1) PROVE rest[k] = l[k + 1]
    <3>1. k - (i - 1) \in 1..(Len(l) - i) /\ k - (i - 1) + i = k + 1
      BY <2>1
    <3>2. rest[k] = after[k - (i - 1)]
      <4>1. k \in 1..(Len(before) + Len(after)) /\ ~(k <= Len(before))
        BY <2>1, <2>2, <2>3
      <4>2. rest[k] = after[k - Len(before)]
        BY <2>5, <4>1
      <4> QED BY <2>2, <4>2
    <3>3. after[k - (i - 1)] = l[k - (i - 1) + i]
      BY <2>3, <3>1
    <3> QED BY <3>1, <3>2, <3>3
  <2> QED BY <2>5, <2>6, <2>7, <2>8
<1> HIDE DEF rest
<1>2. ASSUME NEW k \in DOMAIN rest PROVE \E m \in DOMAIN l : rest[k] = l[m]
  BY <1>1
<1>3. ASSUME NEW m \in DOMAIN l, m # i PROVE \E k \in DOMAIN rest : rest[k] = l[m]
  <2>1. CASE m < i
    BY <1>1, <1>3, <2>1
  <2>2. CASE m > i
    <3>1. m - 1 \in i..(Len(l) - 1) /\ rest[m - 1] = l[m] /\ m - 1 \in DOMAIN rest
      BY <1>1, <1>3, <2>2
    <3> QED BY <3>1
  <2> QED BY <1>3, <2>1, <2>2
<1>4. FilesOf(rest) \subseteq FilesOf(l)
  BY <1>2 DEF FilesOf
<1>5. FilesOf(l) \subseteq FilesOf(rest) \cup {l[i].file}
  BY <1>3 DEF FilesOf
<1> QED BY <1>1, <1>4, <1>5 DEF rest

\* An item that is pushed is on the list or lost, and nothing else changes,
\* whatever race it is.
LEMMA Pushed ==
  ASSUME TypeOK, NEW l \in Seq(Item), NEW item \in Item, PushBack(l, item)
  PROVE  /\ uploadList' \in Seq(Item)
         /\ FilesOf(l) \subseteq FilesOf(uploadList')
         /\ FilesOf(uploadList') \subseteq FilesOf(l) \cup {item.file}
         /\ lost \subseteq lost' /\ lost' \subseteq lost \cup {item.file}
         /\ item.file \in FilesOf(uploadList') \cup lost'
         /\ cut' \in BOOLEAN /\ faults' \in 0..FaultLimit
<1>0. cut \in BOOLEAN /\ faults \in 0..FaultLimit /\ FaultLimit \in Nat
  BY TranscoderAssumption DEF TypeOK
<1>1. CASE Attach(l, item) /\ UNCHANGED faults
  <2>1. CASE cut
    BY <1>0, <1>1, <2>1 DEF Attach
  <2>2. CASE ~cut
    BY <1>0, <1>1, <2>2, ListAppend DEF Attach
  <2> QED BY <2>1, <2>2
<1>2. CASE Fail("race") /\ uploadList' = l /\ lost' = lost \cup {item.file}
           /\ cut' \in {cut, TRUE}
  <2>1. cut' \in BOOLEAN
    BY <1>0, <1>2, Zenon
  <2>2. faults' \in 0..FaultLimit
    BY <1>0, <1>2 DEF Fail
  <2> QED BY <1>2, <2>1, <2>2
<1> QED BY <1>1, <1>2 DEF PushBack

\* The packager numbers the segments of the target within Numbers.
LEMMA PackagedFile ==
  ASSUME NEW r \in Renditions, NEW k \in Nat, k < Files[r]
  PROVE  /\ Packaged(r, k) \in File
         /\ Packaged(r, k).rend = r
         /\ r = Target /\ Packaged(r, k).kind = "data" => Packaged(r, k).n \in Numbers
<1>1. Files[r] \in Nat /\ Target \in Renditions /\ Files[Target] \in Nat
  BY TranscoderAssumption
<1>2. CASE k = 0
  BY <1>2 DEF Packaged, InitOf, File, Kinds
<1>3. CASE k # 0 /\ k % 2 = 1
  <2>1. (k + 1) \div 2 \in Nat /\ (k + 1) \div 2 >= 1 /\ (k + 1) \div 2 <= Files[r] \div 2
    BY <1>1, <1>3
  <2> QED BY <1>1, <1>3, <2>1 DEF Packaged, SegmentOf, File, Kinds, Numbers
<1>4. CASE k # 0 /\ k % 2 # 1
  BY <1>4 DEF Packaged, PlaylistOf, File, Kinds
<1> QED BY <1>2, <1>3, <1>4

\* There are finitely many detection jobs.
LEMMA FewDetecting ==
  /\ IsFiniteSet(Numbers)
  /\ IsFiniteSet(Detecting) /\ Cardinality(Detecting) \in Nat
<1>1. Files[Target] \div 2 \in Int
  BY TranscoderAssumption
<1>2. IsFiniteSet(Numbers)
  BY <1>1, FS_Interval DEF Numbers
<1> QED BY <1>2, FS_Subset, FS_CardinalityType DEF Detecting

\* At the start nothing is packaged and no thread runs.
LEMMA TypedInit == Init => Typed
<1> SUFFICES ASSUME Init PROVE Typed
  OBVIOUS
<1>1. TypeOK
  <2>1. /\ {watching, targetInit, cut, annotated} \subseteq BOOLEAN
        /\ alive \in BOOLEAN
    BY DEF Init
  <2>2. tick \in [at : Nat, sent : 0..MaxUploads] /\ faults \in 0..FaultLimit
        /\ detections \in 0..MaxDetections
    BY TranscoderAssumption DEF Init
  <2>3. /\ child \in [Children -> {"up", "signalled", "down"}]
        /\ made \in [Renditions -> Nat]
        /\ stage \in [Numbers -> Stages]
        /\ {content, data} \subseteq [Numbers -> Contents] /\ shared \subseteq Numbers
    BY DEF Init, Stages, Contents
  <2> QED BY <2>1, <2>2, <2>3 DEF Init, TypeOK
<1>2. Numbered
  BY TranscoderAssumption DEF Init, Numbered, Coming
<1>3. Counted
  <2>1. Detecting = {}
    BY DEF Init, Detecting
  <2> QED BY <2>1, FS_EmptySet DEF Init, Counted
<1> QED BY <1>1, <1>2, <1>3 DEF Typed

\* The end of the process, its children, the clock, and the ticker's position.
LEMMA TypedProcess ==
  ASSUME Typed,
         \/ Age \/ \E c \in Children : ChildEnds(c)
         \/ ManageCommands \/ Shutdown \/ RaceCrash
         \/ TickPanics \/ StatPanics \/ \E n \in Numbers : StampPanics(n) \/ ListPanics(n)
         \/ BeginTick \/ EndTick \/ PassItem \/ UNCHANGED vars
  PROVE  /\ Typed'
         /\ UNCHANGED <<made, events, initItems, uploadList, store, given, lost,
                        published, stage, listed>>
<1> DEFINE Rest == UNCHANGED <<made, events, watching, targetInit, targetPlaylist,
                      uploadList, cut, initItems, lost, store, published, given,
                      queue, detections, stage, content, data, shared, listed, annotated>>
           Types == /\ child' \in [Children -> {"up", "signalled", "down"}]
                    /\ tick' \in [at : Nat, sent : 0..MaxUploads]
                    /\ late' \in Numbers \cup {0}
                    /\ faults' \in 0..FaultLimit
<1> USE DEF processVars, packageVars, watchVars, listVars, uploadVars, jobVars,
            outputVars
<1>0. /\ alive \in BOOLEAN /\ child \in [Children -> {"up", "signalled", "down"}]
      /\ tick \in [at : Nat, sent : 0..MaxUploads] /\ MaxUploads \in Nat
      /\ late \in Numbers \cup {0} /\ queue \in Seq(Numbers)
      /\ faults \in 0..FaultLimit /\ FaultLimit \in Nat
  BY TranscoderAssumption DEF Typed, TypeOK
<1>1. ASSUME Age PROVE Rest /\ Types
  BY <1>0, <1>1 DEF Age
<1>2. ASSUME NEW c \in Children, ChildEnds(c) PROVE Rest /\ Types
  BY <1>0, <1>2 DEF ChildEnds, Fail
<1>3. ASSUME ManageCommands \/ Shutdown PROVE Rest /\ Types
  <2>1. Signalled \in [Children -> {"up", "signalled", "down"}]
    BY <1>0 DEF Signalled
  <2>2. CASE ManageCommands
    BY <1>0, <2>1, <2>2 DEF ManageCommands
  <2>3. CASE Shutdown
    BY <1>0, <2>1, <2>3 DEF Shutdown, Die, Fail
  <2> QED BY <1>3, <2>2, <2>3
<1>4. ASSUME RaceCrash \/ TickPanics \/ StatPanics PROVE Rest /\ Types
  BY <1>0, <1>4 DEF RaceCrash, TickPanics, StatPanics, Die, Fail
<1>5. ASSUME NEW n \in Numbers, StampPanics(n) \/ ListPanics(n) PROVE Rest /\ Types
  BY <1>0, <1>5 DEF StampPanics, ListPanics, Die
<1>6. ASSUME BeginTick \/ EndTick \/ PassItem PROVE Rest /\ Types
  BY <1>0, <1>6 DEF BeginTick, EndTick, PassItem, Idle, UploadUnchanged
<1>7. ASSUME UNCHANGED vars PROVE Rest /\ Types
  BY <1>0, <1>7 DEF vars
<1>8. Rest /\ Types
  BY <1>1, <1>2, <1>3, <1>4, <1>5, <1>6, <1>7
<1>9. alive' \in BOOLEAN
  BY <1>0, Zenon DEF Age, ChildEnds, ManageCommands, Shutdown, RaceCrash, TickPanics,
    StatPanics, StampPanics, ListPanics, BeginTick, EndTick, PassItem, UploadUnchanged, Die, vars
<1>10. TypeOK' /\ Numbered'
  BY <1>8, <1>9 DEF Typed, TypeOK, Numbered, Coming
<1>11. Counted'
  BY <1>8 DEF Typed, Counted, Detecting
<1> QED BY <1>8, <1>10, <1>11 DEF Typed

\* An event is added, and the first one taken.
LEMMA EventAdded ==
  ASSUME events \in Seq(File), NEW f \in File, events' = Append(events, f)
  PROVE  events' \in Seq(File) /\ Coming' = Coming \cup {f}
  BY DEF Coming

\* The watcher takes the first event; the files of the others are still to come.
LEMMA EventTaken ==
  ASSUME events \in Seq(File), events # <<>>, events' = Tail(events)
  PROVE  /\ events' \in Seq(File) /\ Head(events) \in Coming /\ Head(events) \in File
         /\ Coming' \subseteq Coming
         /\ Coming \subseteq Coming' \cup {Head(events)}
<1>1. /\ events' \in Seq(File) /\ Len(events') = Len(events) - 1
      /\ \A k \in 1..(Len(events) - 1) : events'[k] = events[k + 1]
      /\ Head(events) = events[1] /\ 1 \in DOMAIN events
  OBVIOUS
<1>2. Head(events) \in Coming /\ Head(events) \in File
  BY <1>1 DEF Coming
<1>3. Coming' \subseteq Coming
  BY <1>1 DEF Coming
<1>4. ASSUME NEW i \in DOMAIN events, i # 1 PROVE events[i] \in Coming'
  <2>1. i - 1 \in 1..(Len(events) - 1) /\ i - 1 \in DOMAIN events' /\ (i - 1) + 1 = i
    BY <1>1, <1>4
  <2> QED BY <1>1, <2>1 DEF Coming
<1>5. Coming \subseteq Coming' \cup {Head(events)}
  BY <1>1, <1>4 DEF Coming
<1> QED BY <1>1, <1>2, <1>3, <1>5

\* The packager creates a file: the watcher will see it, or it is lost.
LEMMA TypedPackage ==
  ASSUME Typed, NEW r \in Renditions, Package(r)
  PROVE  /\ Typed'
         /\ Packaged(r, made[r]) \in Coming' \cup lost' /\ lost \subseteq lost'
         /\ Coming \subseteq Coming'
         /\ made' = [made EXCEPT ![r] = @ + 1]
         /\ UNCHANGED <<initItems, uploadList, store, given, published, stage, listed>>
<1> DEFINE f == Packaged(r, made[r])
<1> USE DEF processVars, packageVars, watchVars, listVars, uploadVars, jobVars,
            outputVars
<1>0. made \in [Renditions -> Nat] /\ events \in Seq(File) /\ lost \subseteq File
      /\ faults \in 0..FaultLimit /\ FaultLimit \in Nat /\ Files \in [Renditions -> Nat]
  BY TranscoderAssumption DEF Typed, TypeOK
<1>1. /\ f \in File
      /\ f.rend = Target /\ f.kind = "data" => f.n \in Numbers
  BY <1>0, PackagedFile DEF Package
<1> HIDE DEF f
<1>2. /\ made' = [made EXCEPT ![r] = @ + 1] /\ made[r] < Files[r]
      /\ \/ events' = Append(events, f) /\ lost' = lost /\ faults' = faults
         \/ Fail("missed") /\ lost' = lost \cup {f} /\ events' = events
  BY DEF Package, f
<1>3. /\ events' \in Seq(File) /\ Coming \subseteq Coming'
      /\ Coming' \subseteq Coming \cup {f}
      /\ f \in Coming' \cup lost' /\ lost \subseteq lost' /\ lost' \subseteq File
      /\ faults' \in 0..FaultLimit
  <2>1. CASE events' = Append(events, f) /\ lost' = lost /\ faults' = faults
    BY <1>0, <1>1, <2>1, EventAdded
  <2>2. CASE Fail("missed") /\ lost' = lost \cup {f} /\ events' = events
    <3>1. Coming' = Coming
      BY <2>2 DEF Coming
    <3> QED BY <1>0, <1>1, <2>2, <3>1 DEF Fail
  <2> QED BY <1>2, <2>1, <2>2
<1>4. UNCHANGED <<alive, child, watching, targetInit, targetPlaylist, uploadList,
                  cut, initItems, tick, store, published, given, queue, late,
                  detections, stage, content, data, shared, listed, annotated>>
  BY DEF Package
<1>5. TypeOK'
  BY <1>0, <1>2, <1>3, <1>4 DEF Typed, TypeOK
<1>6. Numbered'
  BY <1>0, <1>1, <1>2, <1>3 DEF Typed, Numbered
<1>7. Counted'
  BY <1>4 DEF Typed, Counted, Detecting
<1> QED BY <1>2, <1>3, <1>4, <1>5, <1>6, <1>7 DEF Typed, f

\* The watcher takes an event.  Only addToUploadList touches the upload list.
LEMMA TypedStreamFile ==
  ASSUME Typed, WatchStreamFile
  PROVE  /\ Typed' /\ Kept \subseteq Kept' /\ Coming \subseteq Coming' \cup {Head(events)}
         /\ initItems \subseteq initItems'
         /\ IF Head(events).kind = "init"
            THEN Head(events).rend \in initItems' /\ UNCHANGED <<uploadList, lost>>
            ELSE /\ Head(events) \in Kept'
                 /\ FilesOf(uploadList') \subseteq FilesOf(uploadList) \cup {Head(events)}
         /\ UNCHANGED <<made, store, given, published, stage, listed>>
<1> DEFINE f == Head(events)
<1> USE DEF processVars, packageVars, watchVars, listVars, uploadVars, jobVars,
            outputVars
<1>0. /\ events \in Seq(File) /\ events # <<>> /\ events' = Tail(events)
      /\ uploadList \in Seq(Item) /\ initItems \subseteq Renditions
      /\ lost \subseteq File /\ AddToUploadList(f)
      /\ faults \in 0..FaultLimit /\ cut \in BOOLEAN
  BY DEF WatchStreamFile, Typed, TypeOK
<1>1. /\ f \in File /\ events' \in Seq(File) /\ Coming' \subseteq Coming
      /\ Coming \subseteq Coming' \cup {f}
  BY <1>0, EventTaken
<1> HIDE DEF f
<1>2. NewItem(f, FALSE) \in Item /\ NewItem(f, FALSE).file = f
  BY <1>1 DEF NewItem, Item
<1>3. /\ uploadList' \in Seq(Item) /\ initItems' \subseteq Renditions
      /\ cut' \in BOOLEAN /\ lost' \subseteq File /\ faults' \in 0..FaultLimit
      /\ FilesOf(uploadList) \subseteq FilesOf(uploadList') /\ lost \subseteq lost'
      /\ initItems \subseteq initItems'
      /\ IF f.kind = "init"
         THEN f.rend \in initItems' /\ UNCHANGED <<uploadList, lost>>
         ELSE /\ f \in FilesOf(uploadList') \cup lost'
              /\ FilesOf(uploadList') \subseteq FilesOf(uploadList) \cup {f}
  <2>1. CASE f.kind = "init"
    <3>1. /\ initItems' = initItems \cup {f.rend}
          /\ UNCHANGED <<uploadList, cut, lost, faults>>
      BY <1>0, <2>1 DEF AddToUploadList
    <3>2. f.rend \in Renditions
      BY <1>1 DEF File
    <3> QED BY <1>0, <2>1, <3>1, <3>2
  <2>2. CASE f.kind # "init"
    <3>1. PushBack(uploadList, NewItem(f, FALSE)) /\ UNCHANGED initItems
      BY <1>0, <2>2 DEF AddToUploadList
    <3> QED BY <1>0, <1>1, <1>2, <2>2, <3>1, Pushed DEF Typed
  <2> QED BY <2>1, <2>2
<1>4. UNCHANGED <<alive, child, made, watching, targetInit, targetPlaylist, tick,
                  store, published, given, queue, late, detections, stage, content,
                  data, shared, listed, annotated>>
  BY DEF WatchStreamFile
<1>5. TypeOK'
  BY <1>1, <1>3, <1>4 DEF Typed, TypeOK
<1>6. Numbered'
  BY <1>1, <1>4 DEF Typed, Numbered
<1>7. Counted'
  BY <1>4 DEF Typed, Counted, Detecting
<1>8. Kept \subseteq Kept' /\ (f.kind # "init" => f \in Kept')
  BY <1>3, <1>4 DEF Kept
<1> QED BY <1>1, <1>3, <1>4, <1>5, <1>6, <1>7, <1>8 DEF Typed, f

\* What the watcher does with the target's files: it keeps the segments for the
\* detector, the first of them merged with the init segment (watchStreamFiles).
LEMMA TypedTarget ==
  ASSUME Typed, WatchInit \/ WatchPlaylist \/ SkipSegment \/ MergeSegment \/ MergeFails
  PROVE  /\ Typed' /\ Coming \subseteq Coming' \cup {Head(events)}
         /\ Head(events).rend = Target
         /\ UNCHANGED <<made, initItems, uploadList, store, given, lost, published,
                        stage, listed>>
<1> USE DEF processVars, packageVars, watchVars, listVars, uploadVars, jobVars,
            outputVars
<1>0. /\ events \in Seq(File) /\ events # <<>> /\ events' = Tail(events)
      /\ Head(events).rend = Target
      /\ queue \in Seq(Numbers) /\ stage \in [Numbers -> Stages]
      /\ faults \in 0..FaultLimit /\ FaultLimit \in Nat
      /\ targetPlaylist \in {"none", "playlist", "annotated"}
      /\ {watching, targetInit} \subseteq BOOLEAN
  BY TranscoderAssumption
  DEF WatchInit, WatchPlaylist, SkipSegment, MergeSegment, MergeFails, Watched,
      Typed, TypeOK
<1>1. /\ Head(events) \in Coming /\ events' \in Seq(File) /\ Coming' \subseteq Coming
      /\ Coming \subseteq Coming' \cup {Head(events)}
  BY <1>0, EventTaken
<1>2. UNCHANGED <<alive, child, made, uploadList, cut, initItems, lost, tick, store,
                  published, given, late, detections, stage, content, data, shared,
                  listed, annotated>>
  BY DEF WatchInit, WatchPlaylist, SkipSegment, MergeSegment, MergeFails
<1>3. watching' \in BOOLEAN /\ targetInit' \in BOOLEAN
  BY <1>0, Zenon DEF WatchInit, WatchPlaylist, SkipSegment, MergeSegment, MergeFails
<1>4. /\ targetPlaylist' \in {"none", "playlist", "annotated"}
      /\ queue' \in Seq(Numbers) /\ faults' \in 0..FaultLimit
  <2>1. CASE WatchInit \/ WatchPlaylist \/ SkipSegment
    BY <1>0, <2>1 DEF WatchInit, WatchPlaylist, SkipSegment
  <2>2. CASE MergeSegment
    <3>1. Head(events).n \in Numbers
      BY <1>1, <2>2 DEF MergeSegment, Watched, Typed, Numbered
    <3>2. Enqueue(Head(events).n)
      BY <2>2 DEF MergeSegment
    <3>3. Append(queue, Head(events).n) \in Seq(Numbers)
      BY <1>0, <3>1
    <3>4. ASSUME NEW m \in Numbers
          PROVE  <<m>> \o Append(queue, Head(events).n) \in Seq(Numbers)
      <4>1. <<m>> \in Seq(Numbers)
        OBVIOUS
      <4> QED BY <3>3, <4>1, ConcatProperties
    <3>5. queue' \in Seq(Numbers) /\ faults' \in 0..FaultLimit
      <4>1. faults' \in 0..FaultLimit
        BY <1>0, <3>2 DEF Enqueue, Fail
      <4>2. \/ queue' = Append(queue, Head(events).n) \/ queue' = queue
            \/ \E m \in Numbers : queue' = <<m>> \o Append(queue, Head(events).n)
        BY <3>2 DEF Enqueue
      <4> QED BY <1>0, <3>3, <3>4, <4>1, <4>2
    <3> QED BY <1>0, <2>2, <3>5 DEF MergeSegment
  <2>3. CASE MergeFails
    BY <1>0, <2>3 DEF MergeFails, Fail
  <2> QED BY <2>1, <2>2, <2>3
<1>5. TypeOK'
  BY <1>1, <1>2, <1>3, <1>4 DEF Typed, TypeOK
<1>6. Numbered'
  BY <1>1, <1>2 DEF Typed, Numbered
<1>7. Counted'
  BY <1>2 DEF Typed, Counted, Detecting
<1> QED BY <1>0, <1>1, <1>2, <1>5, <1>6, <1>7 DEF Typed

-----------------------------------------------------------------------------
\* The items grow ripe, and nothing else changes.
LEMMA TypedRipen ==
  ASSUME Typed, Ripen
  PROVE  /\ Typed' /\ FilesOf(uploadList') = FilesOf(uploadList)
         /\ UNCHANGED <<made, events, initItems, store, given, lost, published,
                        stage, listed>>
<1> USE DEF processVars, packageVars, watchVars, listVars, uploadVars, jobVars,
            outputVars
<1>1. PICK i \in DOMAIN uploadList : uploadList' = [uploadList EXCEPT ![i].ripe = TRUE]
  BY DEF Ripen
<1>2. uploadList \in Seq(Item)
  BY DEF Typed, TypeOK
<1>3. /\ uploadList' \in Seq(Item) /\ DOMAIN uploadList' = DOMAIN uploadList
      /\ \A k \in DOMAIN uploadList : uploadList'[k].file = uploadList[k].file
  <2>1. uploadList[i] \in Item
    BY <1>1, <1>2
  <2>2. [uploadList[i] EXCEPT !.ripe = TRUE] \in Item
        /\ [uploadList[i] EXCEPT !.ripe = TRUE].file = uploadList[i].file
    BY <2>1 DEF Item
  <2> QED BY <1>1, <1>2, <2>2
<1>4. FilesOf(uploadList') = FilesOf(uploadList)
  BY <1>3 DEF FilesOf
<1>5. UNCHANGED <<alive, child, made, events, watching, targetInit, targetPlaylist,
                  cut, initItems, lost, tick, store, published, given, queue, late,
                  detections, stage, content, data, shared, listed, annotated, faults>>
  BY DEF Ripen
<1>6. TypeOK' /\ Numbered'
  BY <1>3, <1>5 DEF Typed, TypeOK, Numbered, Coming
<1>7. Counted'
  BY <1>5 DEF Typed, Counted, Detecting
<1> QED BY <1>4, <1>5, <1>6, <1>7 DEF Typed

\* The upload ticker: the item it is at is uploaded, goes to the end of the list
\* once more, or is given up.  What it adds is the init segment of a rendition
\* whose first data segment it has just uploaded.
LEMMA TypedUpload ==
  ASSUME Typed, Uploaded \/ UploadFails \/ GiveUp
  PROVE  /\ Typed' /\ Kept \subseteq Kept'
         /\ store \subseteq store' /\ store' \subseteq store \cup FilesOf(uploadList)
         /\ \A g \in FilesOf(uploadList') \ FilesOf(uploadList) :
              \E r \in Renditions : g = InitOf(r) /\ SegmentOf(r, 1) \in store'
         /\ published' \in {published, listed}
         /\ UNCHANGED <<made, events, initItems, stage, listed>>
<1> DEFINE f == Current.file
           rest == Others
<1> USE DEF processVars, packageVars, watchVars, listVars, uploadVars, jobVars,
            outputVars
<1>0. /\ uploadList \in Seq(Item) /\ tick \in [at : Nat, sent : 0..MaxUploads]
      /\ lost \subseteq File /\ given \subseteq File /\ store \subseteq File
      /\ MaxUploads \in Nat
      /\ faults \in 0..FaultLimit /\ FaultLimit \in Nat /\ cut \in BOOLEAN
      /\ published \in Numbers \cup {0} /\ listed \in Numbers \cup {0}
  BY TranscoderAssumption DEF Typed, TypeOK
<1>1. tick.at \in DOMAIN uploadList /\ tick.sent < MaxUploads
  <2>1. AtItem /\ ~(tick.sent >= MaxUploads)
    BY Zenon DEF Uploaded, UploadFails, GiveUp, Eligible, Spent
  <2> QED BY <1>0, <2>1 DEF AtItem
<1>2. Current \in Item /\ f \in File /\ f \in FilesOf(uploadList)
  <2>1. Current \in Item
    BY <1>0, <1>1 DEF Current
  <2>2. f \in File
    BY <2>1 DEF Item
  <2>3. f \in FilesOf(uploadList)
    BY <1>1 DEF FilesOf, Current
  <2> QED BY <2>1, <2>2, <2>3
<1>3. /\ rest \in Seq(Item) /\ FilesOf(rest) \subseteq FilesOf(uploadList)
      /\ FilesOf(uploadList) \subseteq FilesOf(rest) \cup {f}
  BY <1>0, <1>1, ListRemove DEF Others, Current
<1>4. UNCHANGED <<alive, child, made, events, watching, targetInit, targetPlaylist,
                  initItems, queue, late, detections, stage, content, data, shared,
                  listed, annotated>>
  BY DEF Uploaded, UploadFails, GiveUp, UploadUnchanged
<1> DEFINE Effect ==
      /\ uploadList' \in Seq(Item) /\ cut' \in BOOLEAN /\ faults' \in 0..FaultLimit
      /\ tick' \in [at : Nat, sent : 0..MaxUploads]
      /\ lost \subseteq lost' /\ store \subseteq store' /\ given \subseteq given'
      /\ lost' \subseteq File /\ store' \subseteq File /\ given' \subseteq File
      /\ FilesOf(rest) \subseteq FilesOf(uploadList')
      /\ f \in FilesOf(uploadList') \cup lost' \cup store' \cup given'
      /\ store' \subseteq store \cup FilesOf(uploadList)
      /\ \A g \in FilesOf(uploadList') \ FilesOf(uploadList) :
           \E r \in Renditions : g = InitOf(r) /\ SegmentOf(r, 1) \in store'
      /\ published' \in {published, listed}
<1>5. ASSUME Uploaded PROVE Effect
  <2>1. /\ store' = store \cup {f} /\ given' = given
        /\ tick' = [tick EXCEPT !.sent = @ + 1]
        /\ published' \in {published, listed}
    BY <1>5 DEF Uploaded
  <2>2. CASE First(f) /\ f.rend \in initItems
    <3>1. PushBack(rest, NewItem(InitOf(f.rend), TRUE))
      BY <1>5, <2>2 DEF Uploaded
    <3>2. f.rend \in Renditions /\ f = SegmentOf(f.rend, 1)
      BY <1>2, <2>2 DEF First, File, SegmentOf
    <3>3. /\ NewItem(InitOf(f.rend), TRUE) \in Item
          /\ NewItem(InitOf(f.rend), TRUE).file = InitOf(f.rend)
          /\ InitOf(f.rend) \in File
      BY <3>2 DEF NewItem, InitOf, Item, File, Kinds
    <3> HIDE DEF rest, f
    <3>4. /\ uploadList' \in Seq(Item) /\ cut' \in BOOLEAN /\ faults' \in 0..FaultLimit
          /\ FilesOf(rest) \subseteq FilesOf(uploadList')
          /\ FilesOf(uploadList') \subseteq FilesOf(rest) \cup {InitOf(f.rend)}
          /\ lost \subseteq lost' /\ lost' \subseteq lost \cup {InitOf(f.rend)}
      BY <1>3, <3>1, <3>3, Pushed DEF Typed
    <3>5. SegmentOf(f.rend, 1) \in store'
      BY <2>1, <3>2
    <3>6. tick' \in [at : Nat, sent : 0..MaxUploads]
      BY <1>0, <1>1, <2>1
    <3> QED BY <1>0, <1>2, <1>3, <2>1, <3>2, <3>3, <3>4, <3>5, <3>6
  <2>3. CASE ~(First(f) /\ f.rend \in initItems)
    <3>1. uploadList' = rest /\ UNCHANGED <<cut, lost, faults>>
      BY <1>5, <2>3 DEF Uploaded
    <3> HIDE DEF rest, f
    <3> QED BY <1>0, <1>1, <1>2, <1>3, <2>1, <3>1
  <2> QED BY <2>2, <2>3
<1>6. ASSUME UploadFails PROVE Effect
  <2> DEFINE item == [Current EXCEPT !.retried = @ + 1]
  <2>1. /\ Fail("upload") /\ Attach(rest, item)
        /\ tick' = [tick EXCEPT !.sent = @ + 1]
        /\ UNCHANGED <<store, published, given>>
    BY <1>6 DEF UploadFails
  <2>2. item \in Item /\ item.file = f
    BY <1>2 DEF Item
  <2> HIDE DEF rest, f, item
  <2>3. faults' \in 0..FaultLimit
    BY <1>0, <2>1 DEF Fail
  <2>4. IF cut THEN uploadList' = rest /\ lost' = lost \cup {f} /\ cut' = cut
        ELSE uploadList' = Append(rest, item) /\ lost' = lost /\ cut' = cut
    BY <2>1, <2>2 DEF Attach
  <2>5. uploadList' \in Seq(Item) /\ FilesOf(rest) \subseteq FilesOf(uploadList')
        /\ FilesOf(uploadList') \subseteq FilesOf(rest) \cup {f}
        /\ f \in FilesOf(uploadList') \cup lost'
    BY <1>3, <2>2, <2>4, ListAppend
  <2> QED BY <1>0, <1>1, <1>2, <1>3, <2>1, <2>3, <2>4, <2>5
<1>7. ASSUME GiveUp PROVE Effect
  <2>1. /\ given' = given \cup {f} /\ uploadList' = rest
        /\ UNCHANGED <<tick, cut, lost, store, published, faults>>
    BY <1>7 DEF GiveUp
  <2> HIDE DEF rest, f
  <2> QED BY <1>0, <1>1, <1>2, <1>3, <2>1
<1>8. Effect
  BY <1>5, <1>6, <1>7
<1> HIDE DEF rest, f
<1>9. TypeOK' /\ Numbered'
  BY <1>0, <1>4, <1>8 DEF Typed, TypeOK, Numbered, Coming
<1>10. Counted'
  BY <1>4 DEF Typed, Counted, Detecting
<1>11. Kept \subseteq Kept'
  BY <1>3, <1>8 DEF Kept
<1> QED BY <1>4, <1>8, <1>9, <1>10, <1>11 DEF Typed

-----------------------------------------------------------------------------
\* The stages of a thread between its detection and its annotated file.
Midway == {"convert", "read", "readOld", "write", "writeOld", "rename", "failed"}

\* segment_1.m4s is the file of a segment.
LEMMA NumberOne == \A n \in Numbers : 1 \in Numbers
<1>1. Files[Target] \div 2 \in Int
  BY TranscoderAssumption
<1> QED BY <1>1 DEF Numbers

\* A job that leaves its stage, and what is counted of it.
LEMMA StageLeft ==
  ASSUME Typed, NEW n \in Numbers, NEW to \in Stages, to # "detect",
         stage' = [stage EXCEPT ![n] = to]
  PROVE  /\ stage' \in [Numbers -> Stages]
         /\ Detecting' = Detecting \ {n}
         /\ Cardinality(Detecting') <= Cardinality(Detecting)
         /\ n \in Detecting => /\ Cardinality(Detecting') = Cardinality(Detecting) - 1
                               /\ detections \in 1..MaxDetections
<1>1. stage \in [Numbers -> Stages] /\ detections \in 0..MaxDetections
      /\ Cardinality(Detecting) <= detections
  BY DEF Typed, TypeOK, Counted
<1>2. stage' \in [Numbers -> Stages] /\ Detecting' = Detecting \ {n}
  BY <1>1 DEF Detecting
<1>3. IsFiniteSet(Detecting) /\ Cardinality(Detecting) \in Nat
  BY FewDetecting
<1>4. Cardinality(Detecting') = IF n \in Detecting THEN Cardinality(Detecting) - 1
                                ELSE Cardinality(Detecting)
  BY <1>2, <1>3, FS_RemoveElement
<1>5. Cardinality(Detecting') \in Nat
  BY <1>2, <1>3, FS_RemoveElement, FS_CardinalityType
<1> QED BY <1>1, <1>2, <1>3, <1>4, <1>5

\* The ticker takes a job: it counts it, whether or not a race has put it back.
LEMMA TypedTake ==
  ASSUME Typed, TakeJob \/ TakeAgain
  PROVE  /\ Typed'
         /\ \A n \in Numbers : stage'[n] \in {stage[n], "detect"}
         /\ UNCHANGED <<made, events, initItems, uploadList, store, given, lost,
                        published, listed>>
<1> USE DEF processVars, packageVars, watchVars, listVars, uploadVars, jobVars,
            outputVars
<1>0. /\ queue \in Seq(Numbers) /\ queue # <<>> /\ stage \in [Numbers -> Stages]
      /\ detections \in 0..MaxDetections /\ detections < MaxDetections
      /\ MaxDetections \in Nat
  BY TranscoderAssumption DEF TakeJob, TakeAgain, MayTake, Typed, TypeOK
<1>1. Head(queue) \in Numbers /\ Tail(queue) \in Seq(Numbers)
  BY <1>0
<1>2. /\ queue' = Tail(queue) /\ detections' = detections + 1
      /\ stage' \in {stage, [stage EXCEPT ![Head(queue)] = "detect"]}
      /\ UNCHANGED <<alive, child, made, events, watching, targetInit, targetPlaylist,
                     uploadList, cut, initItems, lost, tick, store, published, given,
                     late, content, data, shared, listed, annotated, faults>>
  BY DEF TakeJob, TakeAgain, TakeUnchanged
<1>3. TypeOK' /\ Numbered'
  <2>1. queue' \in Seq(Numbers) /\ detections' \in 0..MaxDetections
    BY <1>0, <1>1, <1>2
  <2>2. stage' \in [Numbers -> Stages]
    BY <1>0, <1>1, <1>2 DEF Stages
  <2> QED BY <1>2, <2>1, <2>2 DEF Typed, TypeOK, Numbered, Coming
<1>4. Counted'
  <2>1. Detecting' = Detecting \/ Detecting' = Detecting \cup {Head(queue)}
    <3>1. CASE stage' = stage
      BY <3>1 DEF Detecting
    <3>2. CASE stage' = [stage EXCEPT ![Head(queue)] = "detect"]
      BY <1>0, <1>1, <3>2 DEF Detecting
    <3> QED BY <1>2, <3>1, <3>2
  <2>2. IsFiniteSet(Detecting) /\ Cardinality(Detecting) \in Nat
    BY FewDetecting
  <2>3. Cardinality(Detecting) <= detections
    BY DEF Typed, Counted
  <2>4. /\ IsFiniteSet(Detecting \cup {Head(queue)})
        /\ Cardinality(Detecting \cup {Head(queue)}) =
             IF Head(queue) \in Detecting THEN Cardinality(Detecting)
             ELSE Cardinality(Detecting) + 1
    BY <2>2, FS_AddElement
  <2>5. Cardinality(Detecting') <= Cardinality(Detecting) + 1
    <3>1. Cardinality(Detecting \cup {Head(queue)}) <= Cardinality(Detecting) + 1
      BY <2>2, <2>4
    <3>2. Cardinality(Detecting) <= Cardinality(Detecting) + 1
      BY <2>2
    <3> QED BY <2>1, <3>1, <3>2
  <2>6. Cardinality(Detecting') \in Nat
    BY <2>1, <2>2, <2>4, FS_CardinalityType
  <2> QED BY <1>0, <1>2, <2>2, <2>3, <2>5, <2>6 DEF Counted
<1>5. \A n \in Numbers : stage'[n] \in {stage[n], "detect"}
  BY <1>0, <1>1, <1>2
<1> QED BY <1>2, <1>3, <1>4, <1>5 DEF Typed

\* A thread detects, converts, or fails.
LEMMA TypedDetect ==
  ASSUME Typed, NEW n \in Numbers,
         \/ DetectFails(n) \/ Detect(n) \/ Convert(n) \/ ConvertFails(n)
         \/ ReadSegment(n) \/ WriteSegment(n)
  PROVE  /\ Typed'
         /\ \A m \in Numbers : stage'[m] \in {stage[m]} \cup Midway
         /\ UNCHANGED <<made, events, initItems, uploadList, store, given, lost,
                        published, listed>>
<1> USE DEF processVars, packageVars, watchVars, listVars, uploadVars, jobVars,
            outputVars
<1>0. /\ stage \in [Numbers -> Stages] /\ detections \in 0..MaxDetections
      /\ faults \in 0..FaultLimit /\ FaultLimit \in Nat /\ MaxDetections \in Nat
      /\ {content, data} \subseteq [Numbers -> Contents] /\ shared \subseteq Numbers
      /\ Cardinality(Detecting) <= detections
      /\ Cardinality(Detecting) \in Nat
  BY TranscoderAssumption, FewDetecting DEF Typed, TypeOK, Counted
<1>1. PICK to \in Midway : stage' = [stage EXCEPT ![n] = to]
  BY DEF DetectFails, Detect, Convert, ConvertFails, ReadSegment, WriteSegment, Move, Midway
<1>2. /\ stage' \in [Numbers -> Stages]
      /\ Cardinality(Detecting') <= Cardinality(Detecting)
      /\ n \in Detecting => /\ Cardinality(Detecting') = Cardinality(Detecting) - 1
                            /\ detections \in 1..MaxDetections
  BY <1>1, StageLeft DEF Stages, Midway
<1>3. /\ UNCHANGED <<alive, child, made, events, watching, targetInit, targetPlaylist,
                     uploadList, cut, initItems, lost, tick, store, published, given,
                     queue, late, listed, annotated>>
  BY DEF DetectFails, Detect, Convert, ConvertFails, ReadSegment, WriteSegment,
         ThreadUnchanged
<1>4. /\ {content', data'} \subseteq [Numbers -> Contents] /\ shared' \subseteq Numbers
      /\ faults' \in 0..FaultLimit
  <2>1. faults' \in 0..FaultLimit
    BY <1>0 DEF DetectFails, Detect, Convert, ConvertFails, ReadSegment, WriteSegment, Fail
  <2>2. shared' \subseteq Numbers
    BY <1>0 DEF DetectFails, Detect, Convert, ConvertFails, ReadSegment, WriteSegment,
                StartConversion
  <2>3. 1 \in Numbers
    BY NumberOne
  <2>4. CASE DetectFails(n) \/ Detect(n) \/ ConvertFails(n)
    BY <1>0, <2>1, <2>2, <2>4 DEF DetectFails, Detect, ConvertFails
  <2>5. CASE Convert(n)
    BY <1>0, <2>1, <2>2, <2>3, <2>5 DEF Convert, Contents
  <2>6. CASE ReadSegment(n)
    BY <1>0, <2>1, <2>2, <2>3, <2>6 DEF ReadSegment
  <2>7. CASE WriteSegment(n)
    <3> DEFINE new == IF data[n] = NoFile THEN Empty ELSE data[n]
    <3>1. new \in Contents /\ NoFile \in Contents
      BY <1>0 DEF Contents
    <3>2. content' = [content EXCEPT ![1] = new] /\ data' = [data EXCEPT ![n] = NoFile]
      BY <2>7 DEF WriteSegment
    <3> HIDE DEF new
    <3> QED BY <1>0, <2>1, <2>2, <2>3, <3>1, <3>2
  <2> QED BY <2>4, <2>5, <2>6, <2>7
<1>5. detections' \in 0..MaxDetections /\ Counted'
  <2>0. Cardinality(Detecting') \in Nat
    <3>1. Detecting' = Detecting \ {n}
      BY <1>1, StageLeft DEF Stages, Midway
    <3> QED BY <3>1, FewDetecting, FS_RemoveElement, FS_CardinalityType
  <2>1. CASE Detect(n)
    <3>1. n \in Detecting /\ detections' = detections - 1
      BY <2>1 DEF Detect, Move, Detecting
    <3> QED BY <1>0, <1>2, <2>0, <3>1 DEF Counted
  <2>2. CASE ~Detect(n)
    <3>1. detections' = detections
      BY <2>2 DEF DetectFails, Convert, ConvertFails, ReadSegment, WriteSegment
    <3> QED BY <1>0, <1>2, <2>0, <3>1 DEF Counted
  <2> QED BY <2>1, <2>2
<1>6. TypeOK' /\ Numbered'
  BY <1>2, <1>3, <1>4, <1>5 DEF Typed, TypeOK, Numbered, Coming
<1>7. \A m \in Numbers : stage'[m] \in {stage[m]} \cup Midway
  BY <1>0, <1>1
<1> QED BY <1>3, <1>5, <1>6, <1>7 DEF Typed

\* A thread hands its annotated segment over, and lists it.
LEMMA TypedRename ==
  ASSUME Typed, NEW n \in Numbers, Rename(n)
  PROVE  /\ Typed' /\ Kept \subseteq Kept' /\ SegmentOf(Target, n) \in Kept'
         /\ FilesOf(uploadList') \subseteq FilesOf(uploadList) \cup {SegmentOf(Target, n)}
         /\ stage' = [stage EXCEPT ![n] = "list"] /\ initItems \subseteq initItems'
         /\ UNCHANGED <<made, events, store, given, published, listed>>
<1> DEFINE f == SegmentOf(Target, n)
<1> USE DEF processVars, packageVars, watchVars, listVars, uploadVars, jobVars,
            outputVars
<1>0. /\ uploadList \in Seq(Item) /\ content \in [Numbers -> Contents]
      /\ initItems \subseteq Renditions
      /\ lost \subseteq File /\ detections \in Nat /\ Cardinality(Detecting) <= detections
      /\ stage \in [Numbers -> Stages] /\ stage[n] = "rename"
  BY DEF Typed, TypeOK, Counted, Rename, Move
<1>1. f \in File
  BY TranscoderAssumption DEF SegmentOf, File, Kinds, Numbers
<1>2. NewItem(f, FALSE) \in Item /\ NewItem(f, FALSE).file = f
  BY <1>1 DEF NewItem, Item
<1>3. /\ PushBack(uploadList, NewItem(f, FALSE))
      /\ stage' = [stage EXCEPT ![n] = "list"]
      /\ content' = IF n = 1 \/ content[1] = NoFile THEN content
                    ELSE [content EXCEPT ![n] = content[1], ![1] = NoFile]
      /\ initItems' = initItems \cup {Target}
      /\ UNCHANGED <<alive, child, made, watching, targetInit, targetPlaylist, tick,
                     store, published, given, queue, late, events, detections,
                     data, shared, listed, annotated>>
  BY DEF Rename, Move, ThreadUnchanged
<1> HIDE DEF f
<1>4. /\ uploadList' \in Seq(Item) /\ cut' \in BOOLEAN /\ faults' \in 0..FaultLimit
      /\ FilesOf(uploadList) \subseteq FilesOf(uploadList')
      /\ FilesOf(uploadList') \subseteq FilesOf(uploadList) \cup {f}
      /\ lost \subseteq lost' /\ lost' \subseteq lost \cup {f}
      /\ f \in FilesOf(uploadList') \cup lost'
  BY <1>0, <1>2, <1>3, Pushed DEF Typed
<1>5. /\ stage' \in [Numbers -> Stages]
      /\ initItems' \subseteq Renditions
  BY <1>0, <1>3, TranscoderAssumption DEF Stages
<1>9. content' \in [Numbers -> Contents]
  BY <1>0, <1>3, NumberOne DEF Contents
<1>6. TypeOK' /\ Numbered'
  BY <1>0, <1>1, <1>3, <1>4, <1>5, <1>9 DEF Typed, TypeOK, Numbered, Coming
<1>7. Counted'
  <2>1. Detecting' = Detecting
    BY <1>0, <1>3 DEF Detecting
  <2> QED BY <1>0, <1>3, <2>1 DEF Counted
<1>8. Kept \subseteq Kept' /\ f \in Kept'
  BY <1>3, <1>4 DEF Kept
<1> QED BY <1>3, <1>4, <1>6, <1>7, <1>8 DEF Typed, f

\* A thread lists its annotated segment and puts the playlist on the upload list
\* (executeDetectionJob).
LEMMA TypedList ==
  ASSUME Typed, NEW n \in Numbers, ListSegment(n) \/ ListFails(n)
  PROVE  /\ Typed' /\ Kept \subseteq Kept' /\ Coming \subseteq Coming'
         /\ FilesOf(uploadList') \subseteq FilesOf(uploadList) \cup {PlaylistOf(Target)}
         /\ stage[n] = "list"
         /\ stage' \in {[stage EXCEPT ![n] = "done"], [stage EXCEPT ![n] = "failed"]}
         /\ listed' \in {listed, 0, n}
         /\ UNCHANGED <<made, initItems, store, given, published>>
<1> DEFINE f == PlaylistOf(Target)
<1> USE DEF processVars, packageVars, watchVars, listVars, uploadVars, jobVars,
            outputVars
<1>0. /\ uploadList \in Seq(Item) /\ events \in Seq(File) /\ lost \subseteq File
      /\ detections \in Nat /\ Cardinality(Detecting) <= detections
      /\ stage \in [Numbers -> Stages] /\ stage[n] = "list"
      /\ listed \in Numbers \cup {0} /\ annotated \in BOOLEAN /\ cut \in BOOLEAN
      /\ faults \in 0..FaultLimit
  <2>1. stage[n] = "list"
    BY Zenon DEF ListSegment, ListFails, Move
  <2> QED BY <2>1 DEF Typed, TypeOK, Counted
<1>1. f \in File /\ AnnotatedPlaylist \in File
      /\ AnnotatedPlaylist.kind # "data"
  BY TranscoderAssumption DEF PlaylistOf, AnnotatedPlaylist, File, Kinds
<1>2. NewItem(f, FALSE) \in Item /\ NewItem(f, FALSE).file = f
  BY <1>1 DEF NewItem, Item
<1>3. /\ \/ PushBack(uploadList, NewItem(f, FALSE))
         \/ UNCHANGED <<uploadList, cut, lost, faults>>
      /\ CreateAnnotated \/ UNCHANGED <<events, annotated>>
      /\ stage' \in {[stage EXCEPT ![n] = "done"], [stage EXCEPT ![n] = "failed"]}
      /\ listed' \in {listed, 0, n}
      /\ UNCHANGED <<alive, child, made, watching, targetInit, targetPlaylist, tick,
                     initItems, store, published, given, queue, late, detections,
                     content, data, shared>>
  <2>1. CASE ListSegment(n)
    BY <2>1 DEF ListSegment, Move, ThreadUnchanged
  <2>2. CASE ListFails(n)
    BY <2>2 DEF ListFails, Move, ThreadUnchanged
  <2> QED BY <2>1, <2>2
<1> HIDE DEF f
<1>4. /\ uploadList' \in Seq(Item) /\ cut' \in BOOLEAN /\ faults' \in 0..FaultLimit
      /\ FilesOf(uploadList) \subseteq FilesOf(uploadList')
      /\ FilesOf(uploadList') \subseteq FilesOf(uploadList) \cup {f}
      /\ lost \subseteq lost' /\ lost' \subseteq lost \cup {f}
  <2>1. CASE PushBack(uploadList, NewItem(f, FALSE))
    BY <1>0, <1>2, <2>1, Pushed DEF Typed
  <2>2. CASE UNCHANGED <<uploadList, cut, lost, faults>>
    BY <1>0, <2>2
  <2> QED BY <1>3, <2>1, <2>2
<1>5. /\ events' \in Seq(File) /\ Coming \subseteq Coming'
      /\ Coming' \subseteq Coming \cup {AnnotatedPlaylist}
  <2>1. CASE UNCHANGED events
    BY <1>0, <2>1 DEF Coming
  <2>2. CASE events' = Append(events, AnnotatedPlaylist)
    BY <1>0, <1>1, <2>2, EventAdded
  <2> QED BY <1>3, <2>1, <2>2 DEF CreateAnnotated
<1>6. annotated' \in BOOLEAN
  BY <1>0, <1>3, Zenon DEF CreateAnnotated
<1>7. stage' \in [Numbers -> Stages] /\ listed' \in Numbers \cup {0}
  BY <1>0, <1>3 DEF Stages
<1>8. TypeOK'
  BY <1>0, <1>1, <1>3, <1>4, <1>5, <1>6, <1>7 DEF Typed, TypeOK
<1>9. Numbered'
  BY <1>1, <1>3, <1>5 DEF Typed, Numbered
<1>10. Counted'
  <2>1. Detecting' = Detecting
    BY <1>0, <1>3 DEF Detecting
  <2> QED BY <1>0, <1>3, <2>1 DEF Counted
<1>11. Kept \subseteq Kept'
  BY <1>3, <1>4 DEF Kept
<1> QED BY <1>0, <1>3, <1>4, <1>5, <1>8, <1>9, <1>10, <1>11 DEF Typed, f

-----------------------------------------------------------------------------
\* The steps, by what they may do to the stream files.
ProcessStep ==
  \/ Age \/ \E c \in Children : ChildEnds(c)
  \/ ManageCommands \/ Shutdown \/ RaceCrash
  \/ TickPanics \/ StatPanics \/ \E n \in Numbers : StampPanics(n) \/ ListPanics(n)
  \/ BeginTick \/ EndTick \/ PassItem \/ UNCHANGED vars
TargetStep == WatchInit \/ WatchPlaylist \/ SkipSegment \/ MergeSegment \/ MergeFails
UploadStep == Uploaded \/ UploadFails \/ GiveUp
TakeStep == TakeJob \/ TakeAgain
DetectStep(n) ==
  \/ DetectFails(n) \/ Detect(n) \/ Convert(n) \/ ConvertFails(n)
  \/ ReadSegment(n) \/ WriteSegment(n)
ListStep(n) == ListSegment(n) \/ ListFails(n)

\* Every step of the process is one of the steps above.
LEMMA Steps ==
  ASSUME [Next]_vars
  PROVE  \/ ProcessStep \/ \E r \in Renditions : Package(r)
         \/ WatchStreamFile \/ TargetStep \/ Ripen \/ UploadStep \/ TakeStep
         \/ \E n \in Numbers : DetectStep(n) \/ Rename(n) \/ ListStep(n)
<1>1. CASE UNCHANGED vars
  BY <1>1 DEF ProcessStep
<1>2. ASSUME Watch \/ UploadFiles
      PROVE  ProcessStep \/ WatchStreamFile \/ TargetStep \/ UploadStep
  BY <1>2 DEF Watch, UploadFiles, ProcessStep, TargetStep, UploadStep
<1>3. ASSUME NEW n \in Numbers, ThreadStep(n)
      PROVE  ProcessStep \/ DetectStep(n) \/ Rename(n) \/ ListStep(n)
  BY <1>3 DEF ThreadStep, ProcessStep, DetectStep, ListStep
<1>4. ASSUME \/ Age \/ \E c \in Children : ChildEnds(c)
             \/ ManageCommands \/ Shutdown \/ RaceCrash
      PROVE  ProcessStep
  BY <1>4 DEF ProcessStep
<1>5. ASSUME TakeJob \/ TakeAgain PROVE TakeStep
  BY <1>5 DEF TakeStep
<1> QED BY <1>1, <1>2, <1>3, <1>4, <1>5 DEF Next

\* The types are inductive, and no step takes a file from where it is kept.
LEMMA TypedNext == Typed /\ [Next]_vars => Typed' /\ Kept \subseteq Kept'
<1> SUFFICES ASSUME Typed, [Next]_vars PROVE Typed' /\ Kept \subseteq Kept'
  OBVIOUS
<1>1. CASE ProcessStep
  BY <1>1, TypedProcess DEF ProcessStep, Kept
<1>2. ASSUME NEW r \in Renditions, Package(r) PROVE Typed' /\ Kept \subseteq Kept'
  BY <1>2, TypedPackage DEF Kept
<1>3. CASE WatchStreamFile
  BY <1>3, TypedStreamFile
<1>4. CASE TargetStep
  BY <1>4, TypedTarget DEF TargetStep, Kept
<1>5. CASE Ripen
  BY <1>5, TypedRipen DEF Kept
<1>6. CASE UploadStep
  BY <1>6, TypedUpload DEF UploadStep
<1>7. CASE TakeStep
  BY <1>7, TypedTake DEF TakeStep, Kept
<1>8. ASSUME NEW n \in Numbers, DetectStep(n) PROVE Typed' /\ Kept \subseteq Kept'
  BY <1>8, TypedDetect DEF DetectStep, Kept
<1>9. ASSUME NEW n \in Numbers, Rename(n) PROVE Typed' /\ Kept \subseteq Kept'
  BY <1>9, TypedRename
<1>10. ASSUME NEW n \in Numbers, ListStep(n) PROVE Typed' /\ Kept \subseteq Kept'
  BY <1>10, TypedList DEF ListStep
<1> QED
  BY <1>1, <1>2, <1>3, <1>4, <1>5, <1>6, <1>7, <1>8, <1>9, <1>10, Steps

\* The types, the numbers of the target's segments and the count of detections.
LEMMA AlwaysTyped == Spec => []Typed
<1>1. Typed /\ [Next]_vars => Typed'
  BY TypedNext
<1> QED BY <1>1, TypedInit, PTL DEF Spec

\* Every variable has its type: the uploads of one tick and the detections stay
\* within their limits, the segments of the target within those packaged.
THEOREM TypeCorrect == Spec => []TypeOK
<1>1. Typed => TypeOK
  BY DEF Typed
<1> QED BY <1>1, AlwaysTyped, PTL

\* No more than max_concurrent_detection_jobs detectors run, although the ticker
\* raises the counter and the threads lower it, and a job put back by a race is
\* counted twice (detectStreamFiles, run_detection).
THEOREM DetectorLimitHolds == Spec => []DetectorLimit
<1>1. ASSUME Typed PROVE DetectorLimit
  <2>1. Cardinality(Detecting) <= detections /\ detections \in 0..MaxDetections
    BY <1>1 DEF Typed, Counted, TypeOK
  <2>2. Cardinality(Detecting) \in Nat /\ MaxDetections \in Nat
    BY FewDetecting, TranscoderAssumption
  <2>3. Cardinality(Detecting) <= MaxDetections
    BY <2>1, <2>2
  <2> QED BY <2>3 DEF DetectorLimit, Detecting
<1> QED BY <1>1, AlwaysTyped, PTL

-----------------------------------------------------------------------------
\* A segment that is annotated, or named by an annotated playlist, is kept.
Handed ==
  \A n \in Numbers :
    stage[n] \in {"list", "done"} \/ n \in {listed, published} =>
      SegmentOf(Target, n) \in Kept

\* A stream file that was made is kept, on its way to the watcher, or an init
\* segment that waits for its first data segment.
Seen ==
  \A r \in Renditions \ {Target} : \A k \in Nat : k < made[r] =>
    \/ Packaged(r, k) \in Kept \cup Coming
    \/ Packaged(r, k).kind = "init" /\ r \in initItems

\* An init segment is on the upload list, or in S3, after its first data segment.
Ordered ==
  \A r \in Renditions :
    InitOf(r) \in FilesOf(uploadList) \cup store => SegmentOf(r, 1) \in store

FileInv == Typed /\ Handed /\ Seen /\ Ordered

\* At the start nothing is packaged, listed or uploaded.
LEMMA FileInit == Init => FileInv
<1> SUFFICES ASSUME Init PROVE FileInv
  OBVIOUS
<1>1. Handed
  BY DEF Init, Handed, Numbers
<1>2. Seen
  BY DEF Init, Seen
<1>3. Ordered
  BY DEF Init, Ordered, FilesOf
<1> QED BY <1>1, <1>2, <1>3, TypedInit DEF FileInv

\* Only the last step of a thread names a segment in the playlist, and it has put
\* the file on the upload list before.
LEMMA HandedNext ==
  ASSUME FileInv, [Next]_vars
  PROVE  Handed'
<1>0. Kept \subseteq Kept' /\ stage \in [Numbers -> Stages]
  BY TypedNext DEF FileInv, Typed, TypeOK
<1>1. ASSUME UNCHANGED <<listed, published>>,
             \A n \in Numbers : stage'[n] \in {stage[n], "detect"} \cup Midway
      PROVE  Handed'
  BY <1>0, <1>1 DEF FileInv, Handed, Midway
<1>2. CASE ProcessStep
  BY <1>1, <1>2, TypedProcess DEF ProcessStep, FileInv
<1>3. ASSUME NEW r \in Renditions, Package(r) PROVE Handed'
  BY <1>1, <1>3, TypedPackage DEF FileInv
<1>4. CASE WatchStreamFile
  BY <1>1, <1>4, TypedStreamFile DEF FileInv
<1>5. CASE TargetStep
  BY <1>1, <1>5, TypedTarget DEF TargetStep, FileInv
<1>6. CASE Ripen
  BY <1>1, <1>6, TypedRipen DEF FileInv
<1>7. CASE UploadStep
  <2>1. UNCHANGED <<stage, listed>> /\ published' \in {published, listed}
    BY <1>7, TypedUpload DEF UploadStep, FileInv
  <2> QED BY <1>0, <2>1 DEF FileInv, Handed
<1>8. CASE TakeStep
  BY <1>1, <1>8, TypedTake DEF TakeStep, FileInv
<1>9. ASSUME NEW n \in Numbers, DetectStep(n) PROVE Handed'
  BY <1>1, <1>9, TypedDetect DEF DetectStep, FileInv
<1>10. ASSUME NEW n \in Numbers, Rename(n) PROVE Handed'
  <2>1. /\ SegmentOf(Target, n) \in Kept' /\ UNCHANGED <<listed, published>>
        /\ stage' = [stage EXCEPT ![n] = "list"]
    BY <1>10, TypedRename DEF FileInv
  <2> QED BY <1>0, <2>1 DEF FileInv, Handed
<1>11. ASSUME NEW n \in Numbers, ListStep(n) PROVE Handed'
  <2>1. /\ stage[n] = "list" /\ UNCHANGED published
        /\ stage' \in {[stage EXCEPT ![n] = "done"], [stage EXCEPT ![n] = "failed"]}
        /\ listed' \in {listed, 0, n}
    BY <1>11, TypedList DEF ListStep, FileInv
  <2>2. SegmentOf(Target, n) \in Kept /\ 0 \notin Numbers
    BY <2>1 DEF FileInv, Handed, Numbers
  <2> QED BY <1>0, <2>1, <2>2 DEF FileInv, Handed
<1> QED
  BY <1>2, <1>3, <1>4, <1>5, <1>6, <1>7, <1>8, <1>9, <1>10, <1>11, Steps

\* A file that is packaged gives an event, and the watcher keeps it or makes a job
\* of it.
LEMMA SeenNext ==
  ASSUME FileInv, [Next]_vars
  PROVE  Seen'
<1>0. /\ Kept \subseteq Kept' /\ made \in [Renditions -> Nat]
      /\ Files \in [Renditions -> Nat]
      /\ \A r \in Renditions : made[r] <= Files[r]
  BY TypedNext, TranscoderAssumption DEF FileInv, Typed, TypeOK, Numbered
<1>1. ASSUME UNCHANGED made, Coming \subseteq Coming', initItems \subseteq initItems'
      PROVE  Seen'
  BY <1>0, <1>1 DEF FileInv, Seen
<1>2. CASE ProcessStep
  BY <1>1, <1>2, TypedProcess DEF ProcessStep, FileInv, Coming
<1>3. ASSUME NEW q \in Renditions, Package(q) PROVE Seen'
  <2>1. /\ Packaged(q, made[q]) \in Coming' \cup lost' /\ Coming \subseteq Coming'
        /\ made' = [made EXCEPT ![q] = @ + 1] /\ UNCHANGED initItems
    BY <1>3, TypedPackage DEF FileInv
  <2>2. Packaged(q, made[q]) \in Coming' \cup Kept'
    BY <2>1 DEF Kept
  <2> SUFFICES ASSUME NEW r \in Renditions \ {Target}, NEW k \in Nat, k < made'[r]
               PROVE  \/ Packaged(r, k) \in Kept' \cup Coming'
                      \/ Packaged(r, k).kind = "init" /\ r \in initItems'
    BY DEF Seen
  <2>3. CASE k < made[r]
    BY <1>0, <2>1, <2>3 DEF FileInv, Seen
  <2>4. CASE ~(k < made[r])
    <3>1. r = q /\ k = made[q]
      BY <1>0, <2>1, <2>4
    <3> QED BY <2>2, <3>1
  <2> QED BY <2>3, <2>4
<1>4. ASSUME Coming \subseteq Coming' \cup {Head(events)}, UNCHANGED made,
             initItems \subseteq initItems',
             \/ Head(events) \in Kept' \/ Head(events).rend = Target
             \/ Head(events).kind = "init" /\ Head(events).rend \in initItems'
      PROVE  Seen'
  <2> SUFFICES ASSUME NEW r \in Renditions \ {Target}, NEW k \in Nat, k < made[r]
               PROVE  \/ Packaged(r, k) \in Kept' \cup Coming'
                      \/ Packaged(r, k).kind = "init" /\ r \in initItems'
    BY <1>4 DEF Seen
  <2>1. Packaged(r, k).rend = r
    BY <1>0, PackagedFile
  <2>2. \/ Packaged(r, k) \in Kept \cup Coming
        \/ Packaged(r, k).kind = "init" /\ r \in initItems
    BY DEF FileInv, Seen
  <2> QED BY <1>0, <1>4, <2>1, <2>2
<1>5. CASE WatchStreamFile
  BY <1>4, <1>5, TypedStreamFile DEF FileInv
<1>6. CASE TargetStep
  BY <1>4, <1>6, TypedTarget DEF TargetStep, FileInv
<1>7. CASE Ripen
  BY <1>1, <1>7, TypedRipen DEF FileInv, Coming
<1>8. CASE UploadStep
  BY <1>1, <1>8, TypedUpload DEF UploadStep, FileInv, Coming
<1>9. CASE TakeStep
  BY <1>1, <1>9, TypedTake DEF TakeStep, FileInv, Coming
<1>10. ASSUME NEW n \in Numbers, DetectStep(n) PROVE Seen'
  BY <1>1, <1>10, TypedDetect DEF DetectStep, FileInv, Coming
<1>11. ASSUME NEW n \in Numbers, Rename(n) PROVE Seen'
  BY <1>1, <1>11, TypedRename DEF FileInv, Coming
<1>12. ASSUME NEW n \in Numbers, ListStep(n) PROVE Seen'
  BY <1>1, <1>12, TypedList DEF ListStep, FileInv
<1> QED
  BY <1>2, <1>3, <1>5, <1>6, <1>7, <1>8, <1>9, <1>10, <1>11, <1>12, Steps

\* The init segment is put on the list when segment 1 is uploaded, and not before.
LEMMA OrderedNext ==
  ASSUME FileInv, [Next]_vars
  PROVE  Ordered'
<1>1. ASSUME store \subseteq store', store' \subseteq store \cup FilesOf(uploadList),
             \A g \in FilesOf(uploadList') \ FilesOf(uploadList) :
               \/ g.kind # "init"
               \/ \E r \in Renditions : g = InitOf(r) /\ SegmentOf(r, 1) \in store'
      PROVE  Ordered'
  <2> SUFFICES ASSUME NEW r \in Renditions,
                      InitOf(r) \in FilesOf(uploadList') \cup store'
               PROVE  SegmentOf(r, 1) \in store'
    BY DEF Ordered
  <2>1. CASE InitOf(r) \in FilesOf(uploadList) \cup store
    BY <1>1, <2>1 DEF FileInv, Ordered
  <2>2. CASE InitOf(r) \notin FilesOf(uploadList) \cup store
    <3>1. InitOf(r).kind = "init" /\ \A q \in Renditions : InitOf(q).rend = q
      BY DEF InitOf
    <3>2. PICK q \in Renditions : InitOf(r) = InitOf(q) /\ SegmentOf(q, 1) \in store'
      BY <1>1, <2>2, <3>1
    <3>3. q = r
      BY <3>1, <3>2
    <3> QED BY <3>2, <3>3
  <2> QED BY <2>1, <2>2
<1>2. ASSUME UNCHANGED <<uploadList, store>> PROVE Ordered'
  BY <1>1, <1>2
<1>3. CASE ProcessStep
  BY <1>2, <1>3, TypedProcess DEF ProcessStep, FileInv
<1>4. ASSUME NEW q \in Renditions, Package(q) PROVE Ordered'
  BY <1>2, <1>4, TypedPackage DEF FileInv
<1>5. CASE WatchStreamFile
  BY <1>1, <1>2, <1>5, TypedStreamFile DEF FileInv
<1>6. CASE TargetStep
  BY <1>2, <1>6, TypedTarget DEF TargetStep, FileInv
<1>7. CASE Ripen
  BY <1>1, <1>7, TypedRipen DEF FileInv
<1>8. CASE UploadStep
  BY <1>1, <1>8, TypedUpload DEF UploadStep, FileInv
<1>9. CASE TakeStep
  BY <1>2, <1>9, TypedTake DEF TakeStep, FileInv
<1>10. ASSUME NEW n \in Numbers, DetectStep(n) PROVE Ordered'
  BY <1>2, <1>10, TypedDetect DEF DetectStep, FileInv
<1>11. ASSUME NEW n \in Numbers, Rename(n) PROVE Ordered'
  <2>1. SegmentOf(Target, n).kind = "data"
    BY DEF SegmentOf
  <2> QED BY <1>1, <1>11, <2>1, TypedRename DEF FileInv
<1>12. ASSUME NEW n \in Numbers, ListStep(n) PROVE Ordered'
  <2>1. PlaylistOf(Target).kind = "playlist"
    BY DEF PlaylistOf
  <2> QED BY <1>1, <1>12, <2>1, TypedList DEF ListStep, FileInv
<1> QED
  BY <1>3, <1>4, <1>5, <1>6, <1>7, <1>8, <1>9, <1>10, <1>11, <1>12, Steps

\* Where the files are, in every reachable state.
LEMMA FileInvariant == Spec => []FileInv
<1>1. FileInv /\ [Next]_vars => FileInv'
  BY TypedNext, HandedNext, SeenNext, OrderedNext DEF FileInv
<1> QED BY <1>1, FileInit, PTL DEF Spec

\* No stream file is forgotten, whatever races on the upload list, failed
\* uploads and retries there are, and no annotated segment (watchStreamFiles,
\* addToUploadList, uploadFiles).
THEOREM NoFileForgottenHolds == Spec => []NoFileForgotten
<1>1. ASSUME FileInv PROVE NoFileForgotten
  <2>0. \A f : f \in Kept => Held(f)
    BY DEF Kept, FilesOf, Held, OnList
  <2>1. ASSUME NEW r \in Renditions \ {Target}, NEW k \in 0..(Files[r] - 1), k < made[r]
        PROVE  \/ Held(Packaged(r, k))
               \/ \E i \in DOMAIN events : events[i] = Packaged(r, k)
               \/ Packaged(r, k).kind = "init" /\ r \in initItems
    BY <1>1, <2>0, <2>1 DEF FileInv, Seen, Coming
  <2>2. ASSUME NEW n \in Numbers, stage[n] \in {"list", "done"}
        PROVE  Held(SegmentOf(Target, n))
    BY <1>1, <2>0, <2>2 DEF FileInv, Handed
  <2> QED BY <2>1, <2>2 DEF NoFileForgotten
<1> QED BY <1>1, FileInvariant, PTL

\* An init segment is in S3 only after the first data segment of its rendition
\* (addToUploadList, uploadFiles).
THEOREM InitFollowsSegmentHolds == Spec => []InitFollowsSegment
<1>1. FileInv => InitFollowsSegment
  BY DEF FileInv, Ordered, InitFollowsSegment
<1> QED BY <1>1, FileInvariant, PTL

\* The last segment that the annotated playlist in S3 names was put on the upload
\* list before the playlist was (the detection threads, uploadFiles).
THEOREM PublishedHandedOverHolds == Spec => []PublishedHandedOver
<1>1. ASSUME FileInv, published # 0 PROVE Held(SegmentOf(Target, published))
  <2>1. published \in Numbers
    BY <1>1 DEF FileInv, Typed, TypeOK
  <2>2. SegmentOf(Target, published) \in Kept
    BY <1>1, <2>1 DEF FileInv, Handed
  <2> QED BY <2>2 DEF Kept, FilesOf, Held, OnList
<1> QED BY <1>1, FileInvariant, PTL DEF PublishedHandedOver

-----------------------------------------------------------------------------
\* A conversion that no other has overlapped finds its own segment in
\* segment_1.m4s, and in what it has read from there.
OwnAt(n) ==
  \/ n \in shared
  \/ /\ stage[n] \in {"read", "rename"} => content[1] = n
     /\ stage[n] = "write" => data[n] = n

Own ==
  /\ \A m, n \in Numbers : Converting(m) /\ Converting(n) => m = n \/ n \in shared
  /\ \A n \in Numbers : OwnAt(n)
  /\ AnnotatedIsOwn

OwnInv == Typed /\ Own

\* A step of nobody's conversion leaves the files as they are.
LEMMA FilesStay ==
  ASSUME Typed, [Next]_vars,
         \A n \in Numbers : ~(\/ Convert(n) \/ ConvertFails(n) \/ ReadSegment(n)
                              \/ WriteSegment(n) \/ Rename(n))
  PROVE  /\ UNCHANGED <<content, data, shared>>
         /\ \A n \in Numbers : stage'[n] = stage[n] \/ ~Converting(n)'
<1> USE DEF processVars, packageVars, watchVars, listVars, uploadVars, jobVars,
            outputVars
<1>0. stage \in [Numbers -> Stages]
  BY DEF Typed, TypeOK
<1>1. CASE ProcessStep
  <2>1. UNCHANGED <<content, data, shared>>
    BY <1>1 DEF ProcessStep, Age, ChildEnds, ManageCommands, Shutdown, RaceCrash, Die,
       TickPanics, StatPanics, StampPanics, ListPanics, BeginTick, EndTick, PassItem,
       UploadUnchanged, vars
  <2> QED BY <1>1, <2>1, TypedProcess DEF ProcessStep
<1>2. CASE WatchStreamFile \/ Ripen \/ \E r \in Renditions : Package(r)
  BY <1>2 DEF WatchStreamFile, Ripen, Package
<1>3. CASE TargetStep
  BY <1>3, TypedTarget DEF TargetStep, WatchInit, WatchPlaylist, SkipSegment,
     MergeSegment, MergeFails
<1>4. CASE UploadStep
  BY <1>4 DEF UploadStep, Uploaded, UploadFails, GiveUp, UploadUnchanged
<1>5. CASE TakeStep
  <2>1. \A n \in Numbers : stage'[n] \in {stage[n], "detect"}
    BY <1>5, TypedTake DEF TakeStep
  <2>2. UNCHANGED <<content, data, shared>>
    BY <1>5 DEF TakeStep, TakeJob, TakeAgain, TakeUnchanged
  <2> QED BY <2>1, <2>2 DEF Converting
<1>6. ASSUME NEW n \in Numbers, DetectFails(n) \/ Detect(n) \/ ListStep(n)
      PROVE  /\ UNCHANGED <<content, data, shared>>
             /\ \A m \in Numbers : stage'[m] = stage[m] \/ ~Converting(m)'
  <2>1. PICK to \in {"convert", "done", "failed"} : stage' = [stage EXCEPT ![n] = to]
    BY <1>6 DEF DetectFails, Detect, ListStep, ListSegment, ListFails, Move
  <2>2. UNCHANGED <<content, data, shared>>
    BY <1>6 DEF DetectFails, Detect, ListStep, ListSegment, ListFails
  <2> QED BY <1>0, <2>1, <2>2 DEF Converting
<1> QED BY <1>1, <1>2, <1>3, <1>4, <1>5, <1>6, Steps DEF DetectStep

\* A conversion starts: those that run meanwhile are noted, and so is it.
LEMMA OwnStarts ==
  ASSUME OwnInv, NEW n \in Numbers, Convert(n) \/ ConvertFails(n)
  PROVE  Own'
<1>0. /\ stage \in [Numbers -> Stages] /\ content \in [Numbers -> Contents]
      /\ 1 \in Numbers
  BY NumberOne DEF OwnInv, Typed, TypeOK
<1>1. /\ shared \subseteq shared' /\ data' = data /\ stage[n] = "convert"
      /\ \A m \in Numbers \ {n} : Converting(m) => m \in shared' /\ n \in shared'
      /\ stage' \in {[stage EXCEPT ![n] = "read"], [stage EXCEPT ![n] = "readOld"]}
  BY DEF Convert, ConvertFails, StartConversion, Move
<1>2. \A m \in Numbers \ {n} : stage'[m] = stage[m]
  BY <1>0, <1>1
<1>3. \A l, m \in Numbers : Converting(l)' /\ Converting(m)' => l = m \/ m \in shared'
  <2>1. \A m \in Numbers \ {n} : Converting(m)' => Converting(m)
    BY <1>2 DEF Converting
  <2> QED BY <1>1, <2>1 DEF OwnInv, Own
<1>4. ASSUME NEW m \in Numbers PROVE OwnAt(m)'
  <2>1. CASE m # n
    <3>1. Converting(m) => m \in shared'
      BY <1>1, <2>1
    <3>2. stage[m] \in {"read", "write", "rename"} => Converting(m)
      BY DEF Converting
    <3> QED BY <1>2, <2>1, <3>1, <3>2 DEF OwnAt
  <2>2. CASE m = n
    <3>1. stage'[n] = "read" => content'[1] = n
      <4>1. CASE Convert(n)
        BY <1>0, <4>1 DEF Convert
      <4>2. CASE ConvertFails(n)
        BY <1>0, <4>2 DEF ConvertFails, Move
      <4> QED BY <4>1, <4>2
    <3>2. stage'[n] \in {"read", "readOld"}
      BY <1>0, <1>1
    <3> QED BY <2>2, <3>1, <3>2 DEF OwnAt
  <2> QED BY <2>1, <2>2
<1>5. AnnotatedIsOwn'
  <2>1. \A m \in Numbers \ {1} : content'[m] = content[m]
    BY <1>0 DEF Convert, ConvertFails
  <2> QED BY <1>1, <2>1 DEF OwnInv, Own, AnnotatedIsOwn
<1> QED BY <1>3, <1>4, <1>5 DEF Own

\* A conversion goes on: it reads its segment, writes it back and renames it.
LEMMA OwnGoesOn ==
  ASSUME OwnInv, NEW n \in Numbers, ReadSegment(n) \/ WriteSegment(n) \/ Rename(n)
  PROVE  Own'
<1>0. /\ stage \in [Numbers -> Stages] /\ {content, data} \subseteq [Numbers -> Contents]
      /\ 1 \in Numbers
  BY NumberOne DEF OwnInv, Typed, TypeOK
<1>1. shared' = shared /\ Converting(n)
      /\ \E to \in Stages : stage' = [stage EXCEPT ![n] = to]
  BY DEF ReadSegment, WriteSegment, Rename, Move, Converting, Stages
<1>2. \A m \in Numbers \ {n} : /\ stage'[m] = stage[m]
                               /\ Converting(m) => m \in shared
  BY <1>0, <1>1 DEF OwnInv, Own
<1>3. \A l, m \in Numbers : Converting(l)' /\ Converting(m)' => l = m \/ m \in shared'
  <2>1. \A m \in Numbers \ {n} : Converting(m)' => Converting(m)
    BY <1>2 DEF Converting
  <2>2. \A m \in Numbers \ {n} : Converting(m) => n \in shared
    BY <1>1 DEF OwnInv, Own
  <2> QED BY <1>1, <1>2, <2>1, <2>2
<1>4. ASSUME NEW m \in Numbers \ {n} PROVE OwnAt(m)'
  <2>1. stage[m] \in {"read", "write", "rename"} => Converting(m)
    BY DEF Converting
  <2> QED BY <1>1, <1>2, <2>1 DEF OwnAt
<1>5. OwnAt(n)
  BY DEF OwnInv, Own
<1>6. CASE ReadSegment(n)
  <2>1. /\ content' = content /\ data'[n] = content[1]
        /\ \/ stage[n] = "read" /\ stage'[n] = "write"
           \/ stage'[n] = "writeOld"
    BY <1>0, <1>6 DEF ReadSegment, Move
  <2>2. OwnAt(n)'
    BY <1>1, <1>5, <2>1 DEF OwnAt
  <2>3. AnnotatedIsOwn'
    BY <1>1, <2>1 DEF OwnInv, Own, AnnotatedIsOwn
  <2> QED BY <1>3, <1>4, <2>2, <2>3 DEF Own
<1>7. CASE WriteSegment(n)
  <2> DEFINE new == IF data[n] = NoFile THEN Empty ELSE data[n]
  <2>1. /\ content' = [content EXCEPT ![1] = new]
        /\ \/ stage[n] = "write" /\ stage'[n] = "rename"
           \/ stage'[n] = "failed"
    BY <1>0, <1>7 DEF WriteSegment, Move
  <2>2. OwnAt(n)'
    <3>1. data[n] = n => new = n
      BY DEF NoFile, Numbers
    <3> HIDE DEF new
    <3> QED BY <1>0, <1>1, <1>5, <2>1, <3>1 DEF OwnAt
  <2>3. AnnotatedIsOwn'
    <3> HIDE DEF new
    <3>1. \A m \in Numbers \ {1} : content'[m] = content[m]
      BY <1>0, <2>1
    <3> QED BY <1>1, <3>1 DEF OwnInv, Own, AnnotatedIsOwn
  <2> QED BY <1>3, <1>4, <2>2, <2>3 DEF Own
<1>8. CASE Rename(n)
  <2>1. /\ stage[n] = "rename" /\ stage'[n] = "list"
        /\ content' = IF n = 1 \/ content[1] = NoFile THEN content
                      ELSE [content EXCEPT ![n] = content[1], ![1] = NoFile]
    BY <1>0, <1>8 DEF Rename, Move
  <2>2. OwnAt(n)'
    BY <2>1 DEF OwnAt
  <2>3. AnnotatedIsOwn'
    <3>1. \A m \in Numbers \ {1} : content'[m] = content[m] \/ (m = n /\ content'[m] = content[1])
      BY <1>0, <2>1
    <3>2. n \in shared \/ content[1] = n
      BY <1>5, <2>1 DEF OwnAt
    <3> QED BY <1>1, <3>1, <3>2 DEF OwnInv, Own, AnnotatedIsOwn
  <2> QED BY <1>3, <1>4, <2>2, <2>3 DEF Own
<1> QED BY <1>6, <1>7, <1>8

\* The annotated file of a segment holds that segment, unless its conversion and
\* another one overlapped: no failed conversion and no late read or write of
\* segment_1.m4s gets into it (executeDetectionJob).
THEOREM AnnotatedOwnHolds == Spec => []AnnotatedIsOwn
<1>1. Init => OwnInv
  <2> SUFFICES ASSUME Init PROVE Own
    BY TypedInit DEF OwnInv
  <2>1. \A n \in Numbers : stage[n] = "none" /\ content[n] = NoFile
    BY DEF Init
  <2> QED BY <2>1 DEF Own, OwnAt, Converting, AnnotatedIsOwn
<1>2. OwnInv /\ [Next]_vars => OwnInv'
  <2> SUFFICES ASSUME OwnInv, [Next]_vars PROVE Own'
    BY TypedNext DEF OwnInv
  <2>1. CASE \E n \in Numbers : Convert(n) \/ ConvertFails(n)
    BY <2>1, OwnStarts
  <2>2. CASE \E n \in Numbers : ReadSegment(n) \/ WriteSegment(n) \/ Rename(n)
    BY <2>2, OwnGoesOn
  <2>3. CASE \A n \in Numbers : ~(\/ Convert(n) \/ ConvertFails(n) \/ ReadSegment(n)
                                  \/ WriteSegment(n) \/ Rename(n))
    <3>1. /\ UNCHANGED <<content, data, shared>>
          /\ \A n \in Numbers : stage'[n] = stage[n] \/ ~Converting(n)'
      BY <2>3, FilesStay DEF OwnInv
    <3>2. \A n \in Numbers : Converting(n)' => Converting(n) /\ stage'[n] = stage[n]
      BY <3>1 DEF Converting
    <3>3. \A n \in Numbers : OwnAt(n)'
      <4>1. \A n \in Numbers : stage'[n] \in {"read", "write", "rename"} => Converting(n)'
        BY DEF Converting
      <4> QED BY <3>1, <3>2, <4>1 DEF OwnInv, Own, OwnAt
    <3> QED BY <3>1, <3>2, <3>3 DEF OwnInv, Own, AnnotatedIsOwn
  <2> QED BY <2>1, <2>2, <2>3
<1>3. OwnInv => AnnotatedIsOwn
  BY DEF OwnInv, Own
<1> QED BY <1>1, <1>2, <1>3, PTL DEF Spec
=============================================================================
