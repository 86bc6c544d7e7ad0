--------------------------- MODULE MCStreamSetup ---------------------------
(***************************************************************************)
(* A small instance of StreamSetup for TLC.  The client of one job sends   *)
(* any of a wide range of specifications, that of the other one of two.    *)
(***************************************************************************)
EXTENDS StreamSetup, TLC

CONSTANTS wide, narrow

OnePort == <<1935>>

Video(kbps) ==
  [codec |-> "h264", framerate |-> 25, width |-> 640, height |-> 360,
   bitrate |-> Kbps(kbps), maxBitrate |-> Kbps(500), bufSize |-> Kbps(500),
   preset |-> "faster", crf |-> 25]
AV1Video == [Video(365) EXCEPT !.codec = "av1", !.preset = "12", !.crf = 40]
Audio(kbps) == [codec |-> "aac", bitrate |-> Kbps(kbps)]

Plain ==
  [type |-> "hls", format |-> "fmp4", segment |-> 4, fragment |-> 1,
   timeShift |-> 120, drm |-> NoDrm, detection |-> NoDetection,
   bucket |-> "bucket", video |-> <<Video(365)>>, audio |-> <<Audio(128)>>,
   apiTest |-> 0]

FairPlay == [system |-> "FairPlay", scheme |-> "cbcs", disableClearKey |-> 0]
Detect(rate) ==
  [framerate |-> 10, bitrate |-> rate, codec |-> "h264",
   preset |-> "veryfast", crf |-> 10]

\* Durations, sections and counts at and beyond their limits.
Limits ==
  {[Plain EXCEPT !.segment = n[1], !.fragment = n[2], !.timeShift = n[3]] :
     n \in {<<-1, 0, -1>>, <<30, 11, 14401>>, <<31, 10, 0>>, <<1, 2, 14400>>}}
  \cup {[Plain EXCEPT !.type = "mss"], [Plain EXCEPT !.bucket = ""],
        [Plain EXCEPT !.apiTest = 1], [Plain EXCEPT !.video = <<>>],
        [Plain EXCEPT !.video = [n \in 1..11 |-> Video(n)]],
        [Plain EXCEPT !.audio = [n \in 1..6 |-> Audio(n)]],
        [Plain EXCEPT !.format = "ts", !.segment = 0, !.audio = <<>>]}

\* One field of a rendition at a time.
Outputs1 ==
  {[Plain EXCEPT !.video[1] = v] :
     v \in {[Video(365) EXCEPT !.bitrate = r] :
              r \in {RateOf("empty"), RateOf("malformed"), RateOf("nan"),
                     Kbps(-1), Kbps(10001)}}
           \cup {[Video(365) EXCEPT !.maxBitrate = RateOf("empty")],
                 [Video(365) EXCEPT !.bufSize = Kbps(-1)],
                 [Video(365) EXCEPT !.width = 1921, !.maxBitrate = NoRate],
                 [Video(365) EXCEPT !.framerate = 61],
                 [Video(365) EXCEPT !.crf = 52],
                 [Video(365) EXCEPT !.preset = "12"],
                 [AV1Video EXCEPT !.preset = "faster"], AV1Video}}
  \cup {[Plain EXCEPT !.audio[1].bitrate = RateOf(f)] :
          f \in {"empty", "malformed"}}
  \cup {[Plain EXCEPT !.video = <<Video(365), Video(550)>>,
                      !.audio = <<Audio(128), Audio(64)>>],
        [Plain EXCEPT !.video = <<Video(365), Video(365)>>],
        [Plain EXCEPT !.video = <<AV1Video, Video(550)>>],
        [Plain EXCEPT !.type = "dash", !.video = <<AV1Video>>]}

Protection ==
  {[Plain EXCEPT !.drm = FairPlay],
   [Plain EXCEPT !.drm = FairPlay, !.type = "dash"],
   [Plain EXCEPT !.drm = FairPlay, !.video = <<AV1Video>>],
   [Plain EXCEPT !.drm = FairPlay, !.detection = Detect(Kbps(150))],
   [Plain EXCEPT !.drm = [FairPlay EXCEPT !.disableClearKey = 1]],
   [Plain EXCEPT !.drm = [FairPlay EXCEPT !.scheme = ""]],
   [Plain EXCEPT !.drm = [FairPlay EXCEPT !.system = ""]]}

Detection ==
  {[Plain EXCEPT !.detection = Detect(r)] :
     r \in {Kbps(150), Kbps(365), Kbps(65), Kbps(28), NoRate,
            RateOf("malformed")}}
  \cup {[Plain EXCEPT !.detection = Detect(Kbps(150)), !.video = <<>>],
        [Plain EXCEPT !.detection = Detect(NoRate), !.video[1] = Video(150)],
        [Plain EXCEPT !.detection = Detect(Kbps(150)),
                      !.video = <<AV1Video>>],
        [Plain EXCEPT !.detection = [Detect(NoRate) EXCEPT !.crf = 0]],
        [Plain EXCEPT !.detection = [Detect(NoRate) EXCEPT !.codec = "av1"]]}

\* The malformed bitrate is a text like "k".
Everywhere(rate, dir) == TRUE

SomeOfAll ==
  wide :> Limits \cup Outputs1 \cup Protection \cup Detection
  @@ narrow :> {Plain, [Plain EXCEPT !.drm = FairPlay, !.type = "dash"]}

\* Three launches show what ports and relaunches do to each other; for that
\* the specification matters little.
ThreeOrTwo(s) == IF s = Plain THEN 3 ELSE 2
=============================================================================
