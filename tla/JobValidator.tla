---------------------------- MODULE JobValidator ----------------------------
(***************************************************************************)
(* job.Validate: what a client may ask for, and what the API server makes  *)
(* of it.  A job specification is a record; Validate answers "ok", "error" *)
(* (a 400), or "panic" where it indexes an empty bitrate string, and       *)
(* replaces values out of range by defaults.  Its warnings are left out.   *)
(***************************************************************************)
EXTENDS Integers, SequencesExt

(***************************************************************************)
(* A bitrate is a string that ends in k or K.  Of a malformed one nothing  *)
(* but its form matters; "nan" stands for "NaNk", which ParseFloat reads   *)
(* and which no comparison rejects.                                        *)
(***************************************************************************)
Kbps(n) == [form |-> "number", kbps |-> n]
RateOf(form) == [form |-> form, kbps |-> 0]
NoRate == RateOf("empty")
Rates == {r \in [form : {"number", "nan", "malformed", "empty"}, kbps : Int] :
            r.form # "number" => r.kbps = 0}

Presets == {"placebo", "veryslow", "slower", "slow", "medium", "fast",
            "faster", "veryfast", "superfast", "ultrafast"}
NumericPresets == {"8", "12"}  \* stands for every string ParseInt reads

\* The zero value of a config section: it is not configured.
NoDrm == [system |-> "", scheme |-> "", disableClearKey |-> 0]
NoDetection == [framerate |-> 0, bitrate |-> NoRate, codec |-> "",
                preset |-> "", crf |-> 0]

NeedObjectDetection(s) == s.detection # NoDetection
DrmConfigured(s) == s.drm.system # "" \/ s.drm.scheme # ""

(***************************************************************************)
(* What a client sends, as far as anything depends on it.                  *)
(***************************************************************************)
Drm == [system : STRING, scheme : STRING, disableClearKey : Int]
Detector == [framerate : Int, bitrate : Rates, codec : STRING, preset : STRING,
             crf : Int]
VideoOutput == [codec : STRING, framerate : Int, width : Int, height : Int,
                bitrate : Rates, maxBitrate : Rates, bufSize : Rates,
                preset : STRING, crf : Int]
AudioOutput == [codec : STRING, bitrate : Rates]
Formats == {"fmp4", "ts"}  \* "ts" stands for whatever else is sent
JobSpec == [type : STRING, format : Formats, segment : Int, fragment : Int,
            timeShift : Int, drm : Drm, detection : Detector, bucket : STRING,
            video : Seq(VideoOutput), audio : Seq(AudioOutput), apiTest : Int]

(***************************************************************************)
(* The first check that fails decides.                                     *)
(***************************************************************************)
FirstBad(verdicts) ==
  LET bad == {i \in DOMAIN verdicts : verdicts[i] # "ok"} IN
  IF bad = {} THEN "ok" ELSE verdicts[Min(bad)]

Require(condition) == IF condition THEN "ok" ELSE "error"

RateVerdict(rate) ==
  [number |-> "ok", nan |-> "ok", malformed |-> "error",
   empty |-> "panic"][rate.form]

InRange(rate, high) == rate.form = "nan" \/ rate.kbps \in 0..high
NotNegative(rate) == rate.form = "nan" \/ rate.kbps >= 0

DrmVerdict(s) ==
  Require(DrmConfigured(s) =>
            /\ s.drm.disableClearKey = 0
            /\ s.drm.system \in {"FairPlay", "Fairplay", "fairplay"}
            /\ s.drm.scheme \in {"cbcs", "CBCS", "Cbcs"})

\* The rates and the size of the detector's input are never looked at.
DetectionVerdict(s) ==
  Require(NeedObjectDetection(s) =>
            /\ s.detection.framerate \in 0..60
            /\ s.detection.codec \in {"h264", "h265"}
            /\ s.detection.preset \in Presets
            /\ s.detection.crf \in 1..51)

CountVerdict(s) ==
  Require(/\ s.video = <<>> => NeedObjectDetection(s)
          /\ Len(s.video) <= 10)

EncoderVerdict(v) ==
  Require(IF v.codec = "av1"
          THEN v.preset \in NumericPresets /\ v.crf \in 0..63
          ELSE v.preset \in Presets /\ v.crf \in 0..51)

VideoVerdict(v) ==
  FirstBad(<<Require(v.codec \in {"h264", "h265", "av1"}),
             Require(v.framerate \in 0..60),
             RateVerdict(v.bitrate),
             Require(v.width \in 1..1920 /\ v.height \in 1..1080),
             Require(InRange(v.bitrate, 10000)),
             RateVerdict(v.maxBitrate),
             Require(NotNegative(v.maxBitrate)),
             RateVerdict(v.bufSize),
             Require(NotNegative(v.bufSize)),
             EncoderVerdict(v)>>)

AudioVerdict(a) ==
  FirstBad(<<Require(a.codec \in {"aac", "mp3"}),
             RateVerdict(a.bitrate),
             Require(NotNegative(a.bitrate))>>)

Each(outputs, Check(_)) ==
  FirstBad([i \in DOMAIN outputs |-> Check(outputs[i])])

Verdict(s) ==
  FirstBad(<<Require(s.type \in {"hls", "dash"}),
             DrmVerdict(s),
             DetectionVerdict(s),
             Require(s.bucket # ""),
             CountVerdict(s),
             Each(s.video, VideoVerdict),
             Require(Len(s.audio) <= 5),
             Each(s.audio, AudioVerdict)>>)

(***************************************************************************)
(* What Validate writes into a specification that it accepts.              *)
(***************************************************************************)
AtMost(n, high) == IF n > high THEN high ELSE n
AtLeast(n, low) == IF n < low THEN low ELSE n

SegmentOr4(n) == IF n \in 1..30 THEN n ELSE 4

\* Mutant: the fragment is compared with the segment before its default.
FragmentOr1Unlimited(s) ==
  IF s.fragment \in 1..10 THEN s.fragment ELSE 1

FragmentOr1(s) ==
  AtMost(IF s.fragment \in 1..10 THEN s.fragment ELSE 1,
         SegmentOr4(s.segment))

Normalized(s) ==
  [s EXCEPT
     !.format = "fmp4",
     !.segment = SegmentOr4(@),
     !.fragment = FragmentOr1(s),
     !.timeShift = AtMost(@, 14400),
     !.detection.crf = IF NeedObjectDetection(s) THEN AtLeast(@, 23) ELSE @]
=============================================================================
