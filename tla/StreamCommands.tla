--------------------------- MODULE StreamCommands ---------------------------
(***************************************************************************)
(* The commands worker_transcoder runs for a job: ffmpeg encodes each      *)
(* rendition and sends it to a UDP port of its own, the Shaka packager     *)
(* reads the ports, encrypts, and writes one directory per rendition.      *)
(* With an AV1 rendition ffmpeg does it all.  A command is kept as what    *)
(* its options connect; options that only tune an encoder are left out.    *)
(***************************************************************************)
EXTENDS JobValidator, FiniteSets

\* Whether the text of a malformed bitrate occurs in the path of the files of the
\* rendition that has this directory.
CONSTANT PartOf(_, _)

FfprobeDistance == 1000

HasAV1Output(s) == \E i \in DOMAIN s.video : s.video[i].codec = "av1"

OrDefault(rate, kbps) == IF rate = NoRate THEN Kbps(kbps) ELSE rate

\* The rendition for the detector, unless one has its very bitrate already.
DetectionOutput(s) ==
  [codec |-> s.detection.codec,
   bitrate |-> OrDefault(s.detection.bitrate, 150)]

Encoded(v) == [codec |-> v.codec, bitrate |-> v.bitrate]
OwnRenditions(s) == [i \in DOMAIN s.video |-> Encoded(s.video[i])]

\* Mutant: the detector's rendition is added whether or not it is there.
RenditionsAndDetector(s) ==
  IF NeedObjectDetection(s)
  THEN Append(OwnRenditions(s), DetectionOutput(s))
  ELSE OwnRenditions(s)

\* The renditions that are encoded, detection's included.
Renditions(s) ==
  IF /\ NeedObjectDetection(s)
     /\ \A i \in DOMAIN s.video : s.video[i].bitrate # s.detection.bitrate
  THEN Append(OwnRenditions(s), DetectionOutput(s))
  ELSE OwnRenditions(s)

(***************************************************************************)
(* Ports: video rendition i (from 1) at base + i - 1, then audio.          *)
(***************************************************************************)
VideoPort(base, i) == base + i - 1

\* Mutant: audio starts at the last video port.
AudioPortShared(s, base, k) == base + Len(Renditions(s)) + k - 2

AudioPort(s, base, k) == base + Len(Renditions(s)) + k - 1

FfprobePort(base) == base + FfprobeDistance

\* JobSpecToFFmpegArgs: the stream that is sent to each port.
FfmpegOutputs(s, base) ==
  {[port |-> VideoPort(base, i), kind |-> "video", n |-> i] :
     i \in DOMAIN Renditions(s)}
  \cup {[port |-> base + Len(Renditions(s)) + k - 1, kind |-> "audio",
         n |-> k] : k \in DOMAIN s.audio}
  \cup {[port |-> FfprobePort(base), kind |-> "source", n |-> 1]}

\* JobSpecToShakaPackagerArgs: the stream that is expected at each port, and
\* the directory that its label names.
PackagerInputs(s, base) ==
  {[port |-> VideoPort(base, i), kind |-> "video", n |-> i,
    dir |-> Renditions(s)[i].bitrate] : i \in DOMAIN Renditions(s)}
  \cup {[port |-> AudioPort(s, base, k), kind |-> "audio", n |-> k,
         dir |-> s.audio[k].bitrate] : k \in DOMAIN s.audio}

\* Mutant: the key is left out of the HLS options.
EncryptsNever(s, key, none) == FALSE

\* The key options are part of the HLS branch only.
Encrypts(s, key, none) ==
  key # none /\ s.type = "hls" /\ s.drm.disableClearKey = 0

(***************************************************************************)
(* JobSpecToEncoderArgs: ffmpeg alone.  A rendition that is not AV1 ends   *)
(* the arguments there, before any output.                                 *)
(***************************************************************************)
EncoderComplete(s) ==
  \A i \in DOMAIN Renditions(s) : Renditions(s)[i].codec = "av1"

(***************************************************************************)
(* isDetectionTarget: strings.Contains of the file's path.  A missing      *)
(* bitrate is part of every path; "150k" is part of "video_1150k/...".     *)
(* What a malformed one is part of depends on its text: "k" of every path, *)
(* "150" of some, "fast" of none but its own rendition's.                  *)
(***************************************************************************)
EndsWith(n, tail) ==
  \E d \in 1..5 :
    /\ tail < 10^d /\ (d = 1 \/ tail >= 10^(d-1))
    /\ n % 10^d = tail

IsDetectionTarget(dir, target) ==
  \/ target = NoRate
  \/ dir = target
  \/ target.form = "malformed" /\ PartOf(target, dir)
  \/ /\ {dir.form, target.form} = {"number"}
     /\ EndsWith(dir.kbps, target.kbps)
=============================================================================
