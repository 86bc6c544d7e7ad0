----------------------- MODULE StreamCommands_proofs -----------------------
(***************************************************************************)
(* What the operators of JobValidator and StreamCommands give for every    *)
(* specification that a client may send.                                   *)
(***************************************************************************)
EXTENDS StreamCommands, FiniteSetTheorems, SequenceTheorems,
        WellFoundedInduction, TLAPS

Verdicts == {"ok", "error", "panic"}

LessThan == {p \in Nat \X Nat : p[1] < p[2]}

\* A set of natural numbers has a least element.
LEMMA MinIn ==
  ASSUME NEW S \in SUBSET Nat, S # {}
  PROVE  Min(S) \in S /\ \A x \in S : Min(S) <= x
<1>1. LessThan = OpToRel(<, Nat)
  BY Zenon DEF LessThan, OpToRel
<1>2. PICK x \in S : \A y \in S : ~(<<y, x>> \in LessThan)
  BY <1>1, NatLessThanWellFounded, WFMin
<1>3. ASSUME NEW y \in S PROVE x <= y
  <2>1. x \in Nat /\ y \in Nat /\ <<y, x>> \notin LessThan
    BY <1>2
  <2>2. <<y, x>> \in LessThan <=> y < x
    BY <2>1 DEF LessThan
  <2> QED BY <2>1, <2>2
<1> QED BY <1>3 DEF Min

\* A list of checks passes when each of them does.
LEMMA FirstBadOk ==
  ASSUME NEW v \in Seq(Verdicts)
  PROVE  /\ FirstBad(v) \in Verdicts
         /\ FirstBad(v) = "ok" <=> \A i \in DOMAIN v : v[i] = "ok"
<1> DEFINE bad == {i \in DOMAIN v : v[i] # "ok"}
<1>1. /\ DOMAIN v = 1..Len(v) /\ Len(v) \in Nat
      /\ \A i \in DOMAIN v : v[i] \in Verdicts
  OBVIOUS
<1>2. CASE bad = {}
  BY <1>2 DEF FirstBad, Verdicts
<1>3. CASE bad # {}
  <2>1. bad \in SUBSET Nat
    BY <1>1
  <2>2. Min(bad) \in bad
    <3> HIDE DEF bad
    <3> QED BY <1>3, <2>1, MinIn
  <2> QED BY <1>1, <1>3, <2>2 DEF FirstBad
<1> QED BY <1>2, <1>3

(***************************************************************************)
(* Validate.                                                               *)
(***************************************************************************)
\* What the checks of a bitrate answer.
LEMMA RateVerdicts ==
  \A r \in Rates : /\ RateVerdict(r) \in Verdicts
                   /\ RateVerdict(r) = "ok" <=> r.form \in {"number", "nan"}
  BY DEF RateVerdict, Rates, Verdicts

\* A bitrate in range is bounded on both sides ("NaNk" counts as 0).
LEMMA InRangeBounds ==
  ASSUME NEW r \in Rates, NEW high \in Nat, InRange(r, high)
  PROVE  NotNegative(r) /\ r.kbps <= high
  BY DEF InRange, NotNegative, Rates

\* What is true of a video output that passes.
LEMMA VideoVerdictOk ==
  ASSUME NEW v \in VideoOutput
  PROVE  /\ VideoVerdict(v) \in Verdicts
         /\ VideoVerdict(v) = "ok" =>
              /\ \A r \in {v.bitrate, v.maxBitrate, v.bufSize} :
                   /\ r.form \in {"number", "nan"}
                   /\ NotNegative(r)
              /\ v.bitrate.kbps <= 10000
              /\ v.codec = "av1" <=> v.preset \in NumericPresets
<1> DEFINE codec == Require(v.codec \in {"h264", "h265", "av1"})
           framerate == Require(v.framerate \in 0..60)
           bitrate == RateVerdict(v.bitrate)
           size == Require(v.width \in 1..1920 /\ v.height \in 1..1080)
           range == Require(InRange(v.bitrate, 10000))
           maxBitrate == RateVerdict(v.maxBitrate)
           maxRange == Require(NotNegative(v.maxBitrate))
           bufSize == RateVerdict(v.bufSize)
           bufRange == Require(NotNegative(v.bufSize))
           encoder == EncoderVerdict(v)
<1>1. /\ v.bitrate \in Rates /\ v.maxBitrate \in Rates /\ v.bufSize \in Rates
  BY DEF VideoOutput
<1>2. /\ codec \in Verdicts /\ framerate \in Verdicts /\ size \in Verdicts
      /\ range \in Verdicts /\ maxRange \in Verdicts /\ bufRange \in Verdicts
      /\ encoder \in Verdicts
  BY DEF EncoderVerdict, Require, Verdicts
<1>3. bitrate \in Verdicts /\ maxBitrate \in Verdicts /\ bufSize \in Verdicts
  BY <1>1, RateVerdicts
<1>4. VideoVerdict(v) = FirstBad(<<codec, framerate, bitrate, size, range, maxBitrate,
                                   maxRange, bufSize, bufRange, encoder>>)
  BY DEF VideoVerdict
<1>5. /\ VideoVerdict(v) \in Verdicts
      /\ VideoVerdict(v) = "ok" =>
           /\ bitrate = "ok" /\ maxBitrate = "ok" /\ bufSize = "ok" /\ encoder = "ok"
           /\ range = "ok" /\ maxRange = "ok" /\ bufRange = "ok"
  <2> HIDE DEF codec, framerate, bitrate, size, range, maxBitrate, maxRange, bufSize,
               bufRange, encoder
  <2> DEFINE checks == <<codec, framerate, bitrate, size, range, maxBitrate, maxRange, bufSize,
                       bufRange, encoder>>
  <2>1. checks \in Seq(Verdicts) /\ DOMAIN checks = 1..10
    BY <1>2, <1>3
  <2>2. (\A i \in 1..10 : checks[i] = "ok") <=>
             /\ codec = "ok" /\ framerate = "ok" /\ bitrate = "ok" /\ size = "ok"
             /\ range = "ok" /\ maxBitrate = "ok" /\ maxRange = "ok" /\ bufSize = "ok"
             /\ bufRange = "ok" /\ encoder = "ok"
    OBVIOUS
  <2>3. VideoVerdict(v) = FirstBad(checks)
    BY <1>4
  <2> HIDE DEF checks
  <2> QED BY <2>1, <2>2, <2>3, FirstBadOk
<1>6. encoder = "ok" => (v.codec = "av1" <=> v.preset \in NumericPresets)
  BY DEF EncoderVerdict, Require, Presets, NumericPresets
<1>7. /\ range = "ok" => InRange(v.bitrate, 10000)
      /\ maxRange = "ok" => NotNegative(v.maxBitrate)
      /\ bufRange = "ok" => NotNegative(v.bufSize)
  BY DEF Require
<1>8. InRange(v.bitrate, 10000) => NotNegative(v.bitrate) /\ v.bitrate.kbps <= 10000
  BY <1>1, InRangeBounds
<1>9. /\ bitrate = "ok" => v.bitrate.form \in {"number", "nan"}
      /\ maxBitrate = "ok" => v.maxBitrate.form \in {"number", "nan"}
      /\ bufSize = "ok" => v.bufSize.form \in {"number", "nan"}
  BY <1>1, RateVerdicts
<1> HIDE DEF bitrate, size, range, maxBitrate, maxRange, bufSize, bufRange, encoder
<1> QED BY <1>5, <1>6, <1>7, <1>8, <1>9

\* What is true of an audio output that passes.
LEMMA AudioVerdictOk ==
  ASSUME NEW a \in AudioOutput
  PROVE  /\ AudioVerdict(a) \in Verdicts
         /\ AudioVerdict(a) = "ok" => a.bitrate.form \in {"number", "nan"}
<1> DEFINE codec == Require(a.codec \in {"aac", "mp3"})
           bitrate == RateVerdict(a.bitrate)
           range == Require(NotNegative(a.bitrate))
<1>1. a.bitrate \in Rates
  BY DEF AudioOutput
<1>2. codec \in Verdicts /\ range \in Verdicts
  BY DEF Require, Verdicts
<1>3. bitrate \in Verdicts /\ (bitrate = "ok" => a.bitrate.form \in {"number", "nan"})
  BY <1>1, RateVerdicts
<1>4. AudioVerdict(a) = FirstBad(<<codec, bitrate, range>>)
  BY DEF AudioVerdict
<1>5. AudioVerdict(a) \in Verdicts /\ (AudioVerdict(a) = "ok" => bitrate = "ok")
  <2> HIDE DEF codec, bitrate, range
  <2> DEFINE checks == <<codec, bitrate, range>>
  <2>1. checks \in Seq(Verdicts) /\ DOMAIN checks = 1..3
    BY <1>2, <1>3
  <2>2. (\A i \in 1..3 : checks[i] = "ok") <=>
             /\ codec = "ok" /\ bitrate = "ok" /\ range = "ok"
    OBVIOUS
  <2>3. AudioVerdict(a) = FirstBad(checks)
    BY <1>4
  <2> HIDE DEF checks
  <2> QED BY <2>1, <2>2, <2>3, FirstBadOk
<1> QED BY <1>3, <1>5

VideoVerdicts(s) == [i \in DOMAIN s.video |-> VideoVerdict(s.video[i])]
AudioVerdicts(s) == [i \in DOMAIN s.audio |-> AudioVerdict(s.audio[i])]

\* Validate accepts a specification when every check of it passes.
LEMMA VerdictOk ==
  ASSUME NEW s \in JobSpec
  PROVE  /\ Verdict(s) \in Verdicts
         /\ Verdict(s) = "ok" <=>
              /\ s.type \in {"hls", "dash"}
              /\ DrmVerdict(s) = "ok" /\ DetectionVerdict(s) = "ok"
              /\ s.bucket # "" /\ CountVerdict(s) = "ok"
              /\ \A i \in DOMAIN s.video : VideoVerdict(s.video[i]) = "ok"
              /\ Len(s.audio) <= 5
              /\ \A i \in DOMAIN s.audio : AudioVerdict(s.audio[i]) = "ok"
<1> DEFINE type == Require(s.type \in {"hls", "dash"})
           drm == DrmVerdict(s)
           detection == DetectionVerdict(s)
           bucket == Require(s.bucket # "")
           count == CountVerdict(s)
           video == FirstBad(VideoVerdicts(s))
           audioCount == Require(Len(s.audio) <= 5)
           audio == FirstBad(AudioVerdicts(s))
<1>1. s.video \in Seq(VideoOutput) /\ s.audio \in Seq(AudioOutput)
  BY DEF JobSpec
<1>2. /\ VideoVerdicts(s) \in Seq(Verdicts)
      /\ DOMAIN VideoVerdicts(s) = DOMAIN s.video
      /\ \A i \in DOMAIN s.video : VideoVerdicts(s)[i] = VideoVerdict(s.video[i])
  BY <1>1, VideoVerdictOk DEF VideoVerdicts
<1>3. /\ AudioVerdicts(s) \in Seq(Verdicts)
      /\ DOMAIN AudioVerdicts(s) = DOMAIN s.audio
      /\ \A i \in DOMAIN s.audio : AudioVerdicts(s)[i] = AudioVerdict(s.audio[i])
  BY <1>1, AudioVerdictOk DEF AudioVerdicts
<1>4. /\ type \in Verdicts /\ bucket \in Verdicts /\ audioCount \in Verdicts
      /\ drm \in Verdicts /\ detection \in Verdicts /\ count \in Verdicts
  BY DEF Require, Verdicts, DrmVerdict, DetectionVerdict, CountVerdict
<1>5. /\ video \in Verdicts
      /\ video = "ok" <=> \A i \in DOMAIN s.video : VideoVerdict(s.video[i]) = "ok"
  BY <1>2, FirstBadOk
<1>6. /\ audio \in Verdicts
      /\ audio = "ok" <=> \A i \in DOMAIN s.audio : AudioVerdict(s.audio[i]) = "ok"
  BY <1>3, FirstBadOk
<1>7. Verdict(s) = FirstBad(<<type, drm, detection, bucket, count, video,
                              audioCount, audio>>)
  BY DEF Verdict, Each, VideoVerdicts, AudioVerdicts
<1>8. /\ type = "ok" <=> s.type \in {"hls", "dash"}
      /\ bucket = "ok" <=> s.bucket # ""
      /\ audioCount = "ok" <=> Len(s.audio) <= 5
  BY DEF Require
<1>9. /\ Verdict(s) \in Verdicts
      /\ Verdict(s) = "ok" <=>
           /\ type = "ok" /\ drm = "ok" /\ detection = "ok" /\ bucket = "ok"
           /\ count = "ok" /\ video = "ok" /\ audioCount = "ok" /\ audio = "ok"
  <2> HIDE DEF type, drm, detection, bucket, count, video, audioCount, audio
  <2> DEFINE checks == <<type, drm, detection, bucket, count, video, audioCount,
                       audio>>
  <2>1. checks \in Seq(Verdicts) /\ DOMAIN checks = 1..8
    BY <1>4, <1>5, <1>6
  <2>2. (\A i \in 1..8 : checks[i] = "ok") <=>
             /\ type = "ok" /\ drm = "ok" /\ detection = "ok" /\ bucket = "ok"
             /\ count = "ok" /\ video = "ok" /\ audioCount = "ok" /\ audio = "ok"
    OBVIOUS
  <2>3. Verdict(s) = FirstBad(checks)
    BY <1>7
  <2> HIDE DEF checks
  <2> QED BY <2>1, <2>2, <2>3, FirstBadOk
<1> HIDE DEF type, bucket, video, audioCount, audio
<1> QED BY <1>5, <1>6, <1>8, <1>9

RaisedCrf(s) ==
  [s.detection EXCEPT !.crf = IF NeedObjectDetection(s) THEN AtLeast(@, 23) ELSE @]

\* What Validate writes, and that the specification keeps its form.
LEMMA NormalizedFields ==
  ASSUME NEW s \in JobSpec
  PROVE  /\ Normalized(s) \in JobSpec
         /\ Normalized(s).type = s.type /\ Normalized(s).drm = s.drm
         /\ Normalized(s).bucket = s.bucket /\ Normalized(s).video = s.video
         /\ Normalized(s).audio = s.audio /\ Normalized(s).apiTest = s.apiTest
         /\ Normalized(s).format = "fmp4"
         /\ Normalized(s).segment = SegmentOr4(s.segment)
         /\ Normalized(s).fragment = FragmentOr1(s)
         /\ Normalized(s).timeShift = AtMost(s.timeShift, 14400)
         /\ Normalized(s).detection = RaisedCrf(s)
<1>1. s.segment \in Int /\ s.fragment \in Int /\ s.timeShift \in Int
      /\ s.detection \in Detector
  BY DEF JobSpec
<1>2. SegmentOr4(s.segment) \in Int /\ FragmentOr1(s) \in Int
      /\ AtMost(s.timeShift, 14400) \in Int
  BY <1>1 DEF SegmentOr4, FragmentOr1, AtMost
<1>3. RaisedCrf(s) \in Detector
  BY <1>1 DEF Detector, AtLeast, RaisedCrf
<1>4. Normalized(s) = [s EXCEPT !.format = "fmp4", !.segment = SegmentOr4(s.segment),
                         !.fragment = FragmentOr1(s),
                         !.timeShift = AtMost(s.timeShift, 14400),
                         !.detection = RaisedCrf(s)]
  BY DEF Normalized, RaisedCrf, JobSpec
<1>5. DOMAIN s = {"type", "format", "segment", "fragment", "timeShift", "drm",
                  "detection", "bucket", "video", "audio", "apiTest"}
  BY DEF JobSpec
<1>6. /\ Normalized(s).type = s.type /\ Normalized(s).drm = s.drm
      /\ Normalized(s).bucket = s.bucket /\ Normalized(s).video = s.video
      /\ Normalized(s).audio = s.audio /\ Normalized(s).apiTest = s.apiTest
  BY <1>4, <1>5
<1>7. /\ Normalized(s).format = "fmp4"
      /\ Normalized(s).segment = SegmentOr4(s.segment)
      /\ Normalized(s).fragment = FragmentOr1(s)
  BY <1>4, <1>5
<1>8. /\ Normalized(s).timeShift = AtMost(s.timeShift, 14400)
      /\ Normalized(s).detection = RaisedCrf(s)
  BY <1>4, <1>5
<1>9. Normalized(s) \in JobSpec
  <2> DEFINE format == "fmp4"
             segment == SegmentOr4(s.segment)
             fragment == FragmentOr1(s)
             shift == AtMost(s.timeShift, 14400)
             detector == RaisedCrf(s)
  <2>1. /\ segment \in Int /\ fragment \in Int /\ shift \in Int
        /\ detector \in Detector
    BY <1>2, <1>3
  <2>4. format \in Formats
    BY DEF Formats
  <2>2. Normalized(s) = [s EXCEPT !.format = format, !.segment = segment,
                           !.fragment = fragment, !.timeShift = shift,
                           !.detection = detector]
    BY <1>4
  <2> HIDE DEF format, segment, fragment, shift, detector
  <2>3. [s EXCEPT !.format = format, !.segment = segment, !.fragment = fragment,
                  !.timeShift = shift, !.detection = detector] \in JobSpec
    BY <2>1, <2>4 DEF JobSpec
  <2> QED BY <2>2, <2>3
<1> QED BY <1>6, <1>7, <1>8, <1>9

\* Durations end up within their limits, and normalising again changes nothing.
LEMMA DurationLimits ==
  ASSUME NEW s \in JobSpec
  PROVE  /\ SegmentOr4(s.segment) \in 1..30
         /\ FragmentOr1(s) \in 1..10 /\ FragmentOr1(s) <= SegmentOr4(s.segment)
         /\ AtMost(s.timeShift, 14400) <= 14400
         /\ SegmentOr4(SegmentOr4(s.segment)) = SegmentOr4(s.segment)
         /\ AtMost(AtMost(s.timeShift, 14400), 14400) = AtMost(s.timeShift, 14400)
<1>1. s.segment \in Int /\ s.fragment \in Int /\ s.timeShift \in Int
  BY DEF JobSpec
<1> QED BY <1>1 DEF SegmentOr4, FragmentOr1, AtMost

\* The detector of an accepted specification, and that raising its crf leaves it
\* accepted and configured.
LEMMA DetectorNormal ==
  ASSUME NEW s \in JobSpec, DetectionVerdict(s) = "ok"
  PROVE  /\ NeedObjectDetection(Normalized(s)) <=> NeedObjectDetection(s)
         /\ NeedObjectDetection(s) => Normalized(s).detection.crf \in 23..51
         /\ DetectionVerdict(Normalized(s)) = "ok"
         /\ RaisedCrf(Normalized(s)) = Normalized(s).detection
<1> DEFINE n == Normalized(s)
           d == s.detection
<1>1. /\ d \in Detector
      /\ n.detection = RaisedCrf(s)
  BY NormalizedFields DEF JobSpec
<1> HIDE DEF n
<1>2. CASE ~NeedObjectDetection(s)
  <2>1. n.detection = d
    BY <1>1, <1>2 DEF Detector, RaisedCrf
  <2>2. ~NeedObjectDetection(n)
    BY <1>2, <2>1 DEF NeedObjectDetection
  <2>3. RaisedCrf(n) = n.detection
    BY <1>1, <2>1, <2>2 DEF RaisedCrf, Detector
  <2>4. DetectionVerdict(n) = "ok"
    BY <2>2 DEF DetectionVerdict, Require
  <2> QED BY <1>2, <2>2, <2>3, <2>4 DEF n
<1>3. CASE NeedObjectDetection(s)
  <2>1. /\ d.framerate \in 0..60 /\ d.codec \in {"h264", "h265"}
        /\ d.preset \in Presets /\ d.crf \in 1..51
    BY <1>3 DEF DetectionVerdict, Require
  <2>2. /\ n.detection \in Detector /\ n.detection.crf \in 23..51
        /\ n.detection.framerate = d.framerate /\ n.detection.codec = d.codec
        /\ n.detection.preset = d.preset
    BY <1>1, <1>3, <2>1 DEF Detector, AtLeast, RaisedCrf
  <2>3. NeedObjectDetection(n)
    <3>1. NoDetection.crf = 0 /\ n.detection.crf # 0
      BY <2>2 DEF NoDetection
    <3> QED BY <3>1 DEF NeedObjectDetection
  <2>4. DetectionVerdict(n) = "ok"
    BY <2>1, <2>2 DEF DetectionVerdict, Require
  <2>5. RaisedCrf(n) = n.detection
    BY <2>2 DEF AtLeast, RaisedCrf, Detector
  <2> QED BY <1>3, <2>2, <2>3, <2>4, <2>5 DEF n
<1> QED BY <1>2, <1>3

\* Two specifications with the same parts are the same.
LEMMA SpecsEqual ==
  ASSUME NEW a \in JobSpec, NEW b \in JobSpec,
         a.type = b.type, a.format = b.format, a.segment = b.segment,
         a.fragment = b.fragment, a.timeShift = b.timeShift, a.drm = b.drm,
         a.detection = b.detection, a.bucket = b.bucket, a.video = b.video,
         a.audio = b.audio, a.apiTest = b.apiTest
  PROVE  a = b
  BY DEF JobSpec

\* What Validate stores it would accept again, and leave as it is.
LEMMA NormalizedAccepted ==
  ASSUME NEW s \in JobSpec, Verdict(s) = "ok"
  PROVE  Verdict(Normalized(s)) = "ok" /\ Normalized(Normalized(s)) = Normalized(s)
<1> DEFINE n == Normalized(s)
<1>1. n \in JobSpec
  BY NormalizedFields
<1>2. DrmVerdict(n) = "ok" /\ CountVerdict(n) = "ok"
  <2>1. DrmVerdict(s) = "ok" /\ CountVerdict(s) = "ok" /\ DetectionVerdict(s) = "ok"
    BY VerdictOk
  <2>2. n.drm = s.drm /\ n.video = s.video
    BY NormalizedFields
  <2> QED BY <2>1, <2>2, DetectorNormal DEF DrmVerdict, DrmConfigured, CountVerdict, Require
<1>3. Verdict(n) = "ok"
  <2>1. /\ s.type \in {"hls", "dash"} /\ DetectionVerdict(s) = "ok"
        /\ s.bucket # ""
        /\ \A i \in DOMAIN s.video : VideoVerdict(s.video[i]) = "ok"
        /\ Len(s.audio) <= 5
        /\ \A i \in DOMAIN s.audio : AudioVerdict(s.audio[i]) = "ok"
    BY VerdictOk
  <2>2. /\ n.type = s.type /\ n.bucket = s.bucket
        /\ n.video = s.video /\ n.audio = s.audio
    BY NormalizedFields
  <2>3. DetectionVerdict(n) = "ok"
    BY <2>1, DetectorNormal
  <2> HIDE DEF n
  <2> QED BY <1>1, <1>2, <2>1, <2>2, <2>3, VerdictOk
<1>4. Normalized(n) = n
  <2> DEFINE m == Normalized(n)
  <2>1. DetectionVerdict(s) = "ok" /\ m \in JobSpec
    <3>1. DetectionVerdict(s) = "ok"
      BY VerdictOk
    <3> QED BY <1>1, <3>1, NormalizedFields
  <2>2. m.segment = n.segment /\ m.timeShift = n.timeShift
    BY <1>1, NormalizedFields, DurationLimits
  <2>3. m.fragment = n.fragment
    <3>1. /\ n.fragment \in 1..10 /\ n.segment \in 1..30 /\ n.fragment <= n.segment
          /\ SegmentOr4(n.segment) = n.segment
      BY NormalizedFields, DurationLimits
    <3> QED BY <1>1, <3>1, NormalizedFields DEF FragmentOr1, AtMost
  <2>4. m.detection = n.detection
    BY <1>1, <2>1, NormalizedFields, DetectorNormal
  <2>5. /\ m.type = n.type /\ m.drm = n.drm /\ m.bucket = n.bucket
        /\ m.video = n.video /\ m.audio = n.audio /\ m.apiTest = n.apiTest
        /\ m.format = n.format
    BY <1>1, NormalizedFields
  <2>6. m = n
    <3> HIDE DEF n, m
    <3> QED BY <1>1, <2>1, <2>2, <2>3, <2>4, <2>5, SpecsEqual
  <2> QED BY <2>6
<1> QED BY <1>3, <1>4

(***************************************************************************)
(* Renditions, ports and directories.                                      *)
(***************************************************************************)
DetectorAdded(s) ==
  /\ NeedObjectDetection(s)
  /\ \A i \in DOMAIN s.video : s.video[i].bitrate # s.detection.bitrate

\* The renditions are the client's, in order, and the detector's if it is added.
LEMMA RenditionList ==
  ASSUME NEW s \in JobSpec
  PROVE  /\ Len(s.video) \in Nat /\ Len(s.audio) \in Nat
         /\ DOMAIN s.video = 1..Len(s.video) /\ DOMAIN s.audio = 1..Len(s.audio)
         /\ Len(Renditions(s)) \in Nat
         /\ DOMAIN Renditions(s) = 1..Len(Renditions(s))
         /\ Len(Renditions(s)) = IF DetectorAdded(s) THEN Len(s.video) + 1
                                                     ELSE Len(s.video)
         /\ \A i \in DOMAIN s.video : Renditions(s)[i] = Encoded(s.video[i])
         /\ DetectorAdded(s) =>
              Renditions(s)[Len(s.video) + 1] = DetectionOutput(s)
<1> DEFINE own == OwnRenditions(s)
           S == {Encoded(v) : v \in VideoOutput} \cup {DetectionOutput(s)}
<1>1. s.video \in Seq(VideoOutput) /\ s.audio \in Seq(AudioOutput)
  BY DEF JobSpec
<1>2. own \in Seq(S) /\ Len(own) = Len(s.video)
      /\ \A i \in DOMAIN s.video : own[i] = Encoded(s.video[i])
  <2>1. \A i \in 1..Len(s.video) : Encoded(s.video[i]) \in S
    BY <1>1
  <2> HIDE DEF S
  <2> QED BY <1>1, <2>1 DEF OwnRenditions
<1>3. DetectionOutput(s) \in S
  OBVIOUS
<1>4. Renditions(s) = IF DetectorAdded(s) THEN Append(own, DetectionOutput(s)) ELSE own
  BY DEF Renditions, DetectorAdded
<1> HIDE DEF own, S
<1> QED BY <1>1, <1>2, <1>3, <1>4, AppendProperties, LenProperties

VideoInput(s, base, i) ==
  [port |-> base + i - 1, kind |-> "video", n |-> i, dir |-> Renditions(s)[i].bitrate]
AudioInput(s, base, k) ==
  [port |-> base + Len(Renditions(s)) + k - 1, kind |-> "audio", n |-> k,
   dir |-> s.audio[k].bitrate]

\* The inputs of the packager are the renditions.
LEMMA InputsAreRenditions ==
  ASSUME NEW s \in JobSpec, NEW base
  PROVE  PackagerInputs(s, base) =
           {VideoInput(s, base, i) : i \in 1..Len(Renditions(s))}
           \cup {AudioInput(s, base, k) : k \in 1..Len(s.audio)}
<1>1. DOMAIN Renditions(s) = 1..Len(Renditions(s)) /\ DOMAIN s.audio = 1..Len(s.audio)
  BY RenditionList
<1> QED BY <1>1 DEF PackagerInputs, VideoInput, AudioInput, VideoPort, AudioPort

\* What arrives at a port that the packager reads is one stream, the one that it
\* takes it for; neither another rendition nor ffprobe's copy of the source.
LEMMA OneStreamPerPort ==
  ASSUME NEW s \in JobSpec, NEW base \in Nat, Len(s.video) <= 10, Len(s.audio) <= 5,
         NEW in \in PackagerInputs(s, base)
  PROVE  {o \in FfmpegOutputs(s, base) : o.port = in.port} =
           {[port |-> in.port, kind |-> in.kind, n |-> in.n]}
<1> DEFINE R == Len(Renditions(s))
           A == Len(s.audio)
           video(i) == [port |-> base + i - 1, kind |-> "video", n |-> i]
           audio(k) == [port |-> base + R + k - 1, kind |-> "audio", n |-> k]
           source == [port |-> base + 1000, kind |-> "source", n |-> 1]
           wanted == [port |-> in.port, kind |-> in.kind, n |-> in.n]
<1>1. /\ R \in Nat /\ A \in Nat /\ R <= 11 /\ A <= 5
      /\ DOMAIN Renditions(s) = 1..R /\ DOMAIN s.audio = 1..A
  BY RenditionList
<1>2. FfmpegOutputs(s, base) =
        {video(i) : i \in 1..R} \cup {audio(k) : k \in 1..A} \cup {source}
  BY <1>1 DEF FfmpegOutputs, VideoPort, FfprobePort, FfprobeDistance
<1>3. \/ \E i \in 1..R : wanted = video(i)
      \/ \E k \in 1..A : wanted = audio(k)
  <2>1. \/ \E i \in 1..R : in = VideoInput(s, base, i)
        \/ \E k \in 1..A : in = AudioInput(s, base, k)
    BY InputsAreRenditions
  <2>2. ASSUME NEW i \in 1..R, in = VideoInput(s, base, i) PROVE wanted = video(i)
    BY <2>2 DEF VideoInput
  <2>3. ASSUME NEW k \in 1..A, in = AudioInput(s, base, k) PROVE wanted = audio(k)
    BY <2>3 DEF AudioInput
  <2> HIDE DEF R, A
  <2> QED BY <2>1, <2>2, <2>3
<1>4. wanted \in FfmpegOutputs(s, base) /\ wanted.port = in.port
  <2> HIDE DEF wanted
  <2>1. wanted \in FfmpegOutputs(s, base)
    BY <1>2, <1>3
  <2> QED BY <2>1 DEF wanted
<1> HIDE DEF R, A
<1>5. ASSUME NEW o \in FfmpegOutputs(s, base), o.port = in.port PROVE o = wanted
  <2>1. CASE \E i \in 1..R : wanted = video(i)
    <3>1. PICK i \in 1..R : wanted = video(i)
      BY <2>1
    <3>2. in.port = base + i - 1
      BY <3>1
    <3>3. CASE \E k \in 1..R : o = video(k)
      BY <1>1, <1>5, <3>1, <3>2, <3>3
    <3>4. CASE \E k \in 1..A : o = audio(k)
      BY <1>1, <1>5, <3>1, <3>2, <3>4
    <3>5. CASE o = source
      BY <1>1, <1>5, <3>1, <3>2, <3>5
    <3> QED BY <1>2, <3>3, <3>4, <3>5
  <2>2. CASE \E k \in 1..A : wanted = audio(k)
    <3>1. PICK k \in 1..A : wanted = audio(k)
      BY <2>2
    <3>2. in.port = base + R + k - 1
      BY <3>1
    <3>3. CASE \E i \in 1..R : o = video(i)
      BY <1>1, <1>5, <3>1, <3>2, <3>3
    <3>4. CASE \E i \in 1..A : o = audio(i)
      BY <1>1, <1>5, <3>1, <3>2, <3>4
    <3>5. CASE o = source
      BY <1>1, <1>5, <3>1, <3>2, <3>5
    <3> QED BY <1>2, <3>3, <3>4, <3>5
  <2> QED BY <1>3, <2>1, <2>2
<1> HIDE DEF wanted
<1> QED
  <2>1. {o \in FfmpegOutputs(s, base) : o.port = in.port} = {wanted}
    BY <1>4, <1>5
  <2> QED BY <2>1 DEF wanted

\* The ports of a job follow one another from its base.
LEMMA PortsInRange ==
  ASSUME NEW s \in JobSpec, NEW base \in Nat, NEW in \in PackagerInputs(s, base)
  PROVE  /\ in.port \in Nat /\ base <= in.port
         /\ in.port < base + Len(Renditions(s)) + Len(s.audio)
<1> DEFINE R == Len(Renditions(s))
           A == Len(s.audio)
<1>1. R \in Nat /\ A \in Nat
  BY RenditionList
<1>2. \/ \E i \in 1..R : in = VideoInput(s, base, i)
      \/ \E k \in 1..A : in = AudioInput(s, base, k)
  BY InputsAreRenditions
<1>3. ASSUME NEW i \in 1..R, in = VideoInput(s, base, i) PROVE in.port = base + i - 1
  BY <1>3 DEF VideoInput
<1>4. ASSUME NEW k \in 1..A, in = AudioInput(s, base, k) PROVE in.port = base + R + k - 1
  BY <1>4 DEF AudioInput
<1> HIDE DEF R, A
<1>5. in.port \in Nat /\ base <= in.port /\ in.port < base + R + A
  <2>1. \/ \E i \in 1..R : in.port = base + i - 1
        \/ \E k \in 1..A : in.port = base + R + k - 1
    BY <1>2, <1>3, <1>4
  <2> QED BY <1>1, <2>1
<1> QED BY <1>5 DEF R, A

BitratesOf(outputs) == {outputs[n].bitrate : n \in DOMAIN outputs}

\* Outputs with as many bitrates as there are outputs have one each.
LEMMA BitratesDiffer ==
  ASSUME NEW T, NEW outputs \in Seq(T), ~(Cardinality(BitratesOf(outputs)) < Len(outputs))
  PROVE  \A i, k \in DOMAIN outputs : outputs[i].bitrate = outputs[k].bitrate => i = k
<1> DEFINE f == [n \in DOMAIN outputs |-> outputs[n].bitrate]
           D == DOMAIN outputs
           B == BitratesOf(outputs)
<1>1. Len(outputs) \in Nat /\ D = 1..Len(outputs)
  OBVIOUS
<1>2. IsFiniteSet(D) /\ Cardinality(D) = Len(outputs)
  <2>1. IsFiniteSet(1..Len(outputs))
        /\ Cardinality(1..Len(outputs)) = IF 1 > Len(outputs) THEN 0 ELSE Len(outputs)-1+1
    BY <1>1, FS_Interval
  <2> QED BY <1>1, <2>1
<1>3. f \in Surjection(D, B)
  BY DEF Surjection, BitratesOf
<1>4. /\ IsFiniteSet(B) /\ Cardinality(B) <= Cardinality(D)
      /\ Cardinality(B) = Cardinality(D) => f \in Injection(D, B)
  <2> HIDE DEF f, D, B
  <2> QED BY <1>2, <1>3, FS_Surjection
<1>5. Cardinality(B) \in Nat
  <2> HIDE DEF B
  <2> QED BY <1>4, FS_CardinalityType
<1>6. Cardinality(B) = Cardinality(D)
  BY <1>1, <1>2, <1>4, <1>5
<1>7. f \in Injection(D, B)
  BY <1>4, <1>6
<1>8. \A i, k \in D : f[i] = f[k] => i = k
  <2> HIDE DEF f, D, B
  <2> QED BY <1>7 DEF Injection, IsInjective
<1> QED BY <1>8

\* Each rendition has a directory of its own, unless the client repeats a bitrate
\* or leaves the detector's to its default and asks for that one too.
LEMMA DirectoriesDiffer ==
  ASSUME NEW s \in JobSpec, NEW base,
         ~(Cardinality(BitratesOf(s.video)) < Len(s.video)),
         ~(Cardinality(BitratesOf(s.audio)) < Len(s.audio)),
         NeedObjectDetection(s) /\ s.detection.bitrate = NoRate
           => Kbps(150) \notin BitratesOf(s.video)
  PROVE  /\ \A i, k \in 1..Len(Renditions(s)) :
              Renditions(s)[i].bitrate = Renditions(s)[k].bitrate => i = k
         /\ \A a, b \in PackagerInputs(s, base) : a.kind = b.kind /\ a.dir = b.dir => a = b
<1> DEFINE R == Len(Renditions(s))
           V == Len(s.video)
           A == Len(s.audio)
<1>1. s.video \in Seq(VideoOutput) /\ s.audio \in Seq(AudioOutput)
  BY DEF JobSpec
<1>2. /\ \A i, k \in 1..V : s.video[i].bitrate = s.video[k].bitrate => i = k
      /\ \A i, k \in 1..A : s.audio[i].bitrate = s.audio[k].bitrate => i = k
  BY <1>1, BitratesDiffer, LenProperties
<1>3. /\ V \in Nat /\ R = IF DetectorAdded(s) THEN V + 1 ELSE V
      /\ \A i \in 1..V : Renditions(s)[i].bitrate = s.video[i].bitrate
      /\ DetectorAdded(s) => Renditions(s)[V + 1].bitrate = OrDefault(s.detection.bitrate, 150)
      /\ DOMAIN s.video = 1..V
  <2>1. \A v : Encoded(v).bitrate = v.bitrate
    BY DEF Encoded
  <2>2. DetectionOutput(s).bitrate = OrDefault(s.detection.bitrate, 150)
    BY DEF DetectionOutput
  <2> QED BY <2>1, <2>2, RenditionList
<1>4. DetectorAdded(s) =>
        \A i \in 1..V : s.video[i].bitrate # OrDefault(s.detection.bitrate, 150)
  BY <1>3 DEF DetectorAdded, OrDefault, BitratesOf
<1>5. ASSUME NEW i \in 1..R, NEW k \in 1..R,
             Renditions(s)[i].bitrate = Renditions(s)[k].bitrate
      PROVE  i = k
  <2> HIDE DEF R, V
  <2>1. CASE ~DetectorAdded(s)
    BY <1>2, <1>3, <1>5, <2>1
  <2>2. CASE DetectorAdded(s)
    <3>1. i \in 1..V \/ i = V + 1
      BY <1>3, <2>2
    <3>2. k \in 1..V \/ k = V + 1
      BY <1>3, <2>2
    <3> QED BY <1>2, <1>3, <1>4, <1>5, <2>2, <3>1, <3>2
  <2> QED BY <2>1, <2>2
<1>6. ASSUME NEW a \in PackagerInputs(s, base), NEW b \in PackagerInputs(s, base),
             a.kind = b.kind, a.dir = b.dir
      PROVE  a = b
  <2>1. \/ \E i \in 1..R : a = VideoInput(s, base, i)
        \/ \E k \in 1..A : a = AudioInput(s, base, k)
    BY InputsAreRenditions
  <2>2. \/ \E i \in 1..R : b = VideoInput(s, base, i)
        \/ \E k \in 1..A : b = AudioInput(s, base, k)
    BY InputsAreRenditions
  <2>3. /\ \A i : /\ VideoInput(s, base, i).kind = "video"
                  /\ VideoInput(s, base, i).dir = Renditions(s)[i].bitrate
        /\ \A k : /\ AudioInput(s, base, k).kind = "audio"
                  /\ AudioInput(s, base, k).dir = s.audio[k].bitrate
    BY DEF VideoInput, AudioInput
  <2> HIDE DEF R, A
  <2> QED BY <1>2, <1>5, <1>6, <2>1, <2>2, <2>3
<1> QED BY <1>5, <1>6

\* A rendition is kept for the detector, whatever its bitrate (isDetectionTarget).
LEMMA DetectorFed ==
  ASSUME NEW s \in JobSpec, NEW base, NeedObjectDetection(s)
  PROVE  \E in \in PackagerInputs(s, base) : IsDetectionTarget(in.dir, s.detection.bitrate)
<1> DEFINE R == Len(Renditions(s))
           V == Len(s.video)
           target == s.detection.bitrate
<1>1. /\ V \in Nat /\ R = IF DetectorAdded(s) THEN V + 1 ELSE V
      /\ \A i \in 1..V : Renditions(s)[i].bitrate = s.video[i].bitrate
      /\ DetectorAdded(s) => Renditions(s)[V + 1].bitrate = OrDefault(target, 150)
      /\ DOMAIN s.video = 1..V
  <2>1. \A v : Encoded(v).bitrate = v.bitrate
    BY DEF Encoded
  <2>2. DetectionOutput(s).bitrate = OrDefault(target, 150)
    BY DEF DetectionOutput
  <2> QED BY <2>1, <2>2, RenditionList
<1>2. PICK t \in 1..R : Renditions(s)[t].bitrate \in {target, OrDefault(target, 150)}
  <2>1. CASE DetectorAdded(s)
    <3>1. V + 1 \in 1..R
      BY <1>1, <2>1
    <3> QED BY <1>1, <2>1, <3>1
  <2>2. CASE ~DetectorAdded(s)
    BY <1>1, <2>2 DEF DetectorAdded
  <2> QED BY <2>1, <2>2
<1>3. VideoInput(s, base, t) \in PackagerInputs(s, base)
  BY InputsAreRenditions
<1>4. VideoInput(s, base, t).dir \in {target, OrDefault(target, 150)}
  BY <1>2 DEF VideoInput
<1>5. IsDetectionTarget(VideoInput(s, base, t).dir, target)
  BY <1>4 DEF IsDetectionTarget, OrDefault
<1> QED BY <1>3, <1>5

\* Just one rendition is kept for the detector, unless its bitrate is left out or
\* malformed, is the end of another's, or an audio rendition has it too
\* (isDetectionTarget).
LEMMA OneDetectionTarget ==
  ASSUME NEW s \in JobSpec, NEW base,
         ~(Cardinality(BitratesOf(s.video)) < Len(s.video)),
         ~(Cardinality(BitratesOf(s.audio)) < Len(s.audio)),
         NeedObjectDetection(s), s.detection.bitrate.form \notin {"empty", "malformed"},
         \A r \in (BitratesOf(s.video) \cup BitratesOf(s.audio)) \ {s.detection.bitrate} :
           ~EndsWith(r.kbps, s.detection.bitrate.kbps),
         s.detection.bitrate \notin BitratesOf(s.audio)
  PROVE  Cardinality({in \in PackagerInputs(s, base) :
                        IsDetectionTarget(in.dir, s.detection.bitrate)}) = 1
<1> DEFINE R == Len(Renditions(s))
           V == Len(s.video)
           A == Len(s.audio)
           target == s.detection.bitrate
           held == {in \in PackagerInputs(s, base) : IsDetectionTarget(in.dir, target)}
<1>0. target # NoRate /\ target.form # "malformed"
  BY DEF NoRate, RateOf
<1>1. /\ V \in Nat /\ A \in Nat /\ R = IF DetectorAdded(s) THEN V + 1 ELSE V
      /\ \A i \in 1..V : Renditions(s)[i].bitrate = s.video[i].bitrate
      /\ DetectorAdded(s) => Renditions(s)[V + 1].bitrate = target
      /\ DOMAIN s.video = 1..V /\ DOMAIN s.audio = 1..A
  <2>1. \A v : Encoded(v).bitrate = v.bitrate
    BY DEF Encoded
  <2>2. DetectionOutput(s).bitrate = target
    BY <1>0 DEF DetectionOutput, OrDefault
  <2> QED BY <2>1, <2>2, RenditionList
<1>2. \A i, k \in 1..R : Renditions(s)[i].bitrate = Renditions(s)[k].bitrate => i = k
  BY <1>0, DirectoriesDiffer
<1>3. PICK t \in 1..R : Renditions(s)[t].bitrate = target
  <2>1. CASE DetectorAdded(s)
    <3>1. V + 1 \in 1..R
      BY <1>1, <2>1
    <3> QED BY <1>1, <2>1, <3>1
  <2>2. CASE ~DetectorAdded(s)
    BY <1>1, <2>2 DEF DetectorAdded
  <2> QED BY <2>1, <2>2
<1>4. \A i \in 1..R : Renditions(s)[i].bitrate \in BitratesOf(s.video) \cup {target}
  <2>1. \A i \in 1..R : i \in 1..V \/ (DetectorAdded(s) /\ i = V + 1)
    <3> HIDE DEF R, V
    <3> QED BY <1>1
  <2> QED BY <1>1, <2>1 DEF BitratesOf
<1>5. \A k \in 1..A : s.audio[k].bitrate \in BitratesOf(s.audio)
  BY <1>1 DEF BitratesOf
<1>6. ASSUME NEW r \in BitratesOf(s.video) \cup BitratesOf(s.audio) \cup {target}
      PROVE  IsDetectionTarget(r, target) <=> r = target
  BY <1>0 DEF IsDetectionTarget
<1>7. VideoInput(s, base, t) \in held
  <2>1. VideoInput(s, base, t) \in PackagerInputs(s, base)
    BY InputsAreRenditions
  <2>2. VideoInput(s, base, t).dir = target
    BY <1>3 DEF VideoInput
  <2> QED BY <2>1, <2>2 DEF IsDetectionTarget
<1>8. ASSUME NEW in \in held PROVE in = VideoInput(s, base, t)
  <2>1. \/ \E i \in 1..R : in = VideoInput(s, base, i)
        \/ \E k \in 1..A : in = AudioInput(s, base, k)
    BY InputsAreRenditions
  <2>2. ASSUME NEW i \in 1..R, in = VideoInput(s, base, i)
        PROVE  in = VideoInput(s, base, t)
    <3>1. in.dir = Renditions(s)[i].bitrate
      BY <2>2 DEF VideoInput
    <3>2. in.dir = target
      BY <1>4, <1>6, <3>1
    <3> QED BY <1>2, <1>3, <2>2, <3>1, <3>2
  <2>3. ASSUME NEW k \in 1..A, in = AudioInput(s, base, k) PROVE FALSE
    <3>1. in.dir = s.audio[k].bitrate
      BY <2>3 DEF AudioInput
    <3> QED BY <1>5, <1>6, <3>1
  <2> QED BY <2>1, <2>2, <2>3
<1>9. held = {VideoInput(s, base, t)}
  BY <1>7, <1>8
<1> HIDE DEF held
<1>10. Cardinality(held) = 1
  BY <1>9, FS_Singleton
<1> QED BY <1>10 DEF held

=============================================================================
