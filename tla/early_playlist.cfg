SPECIFICATION Spec
CONSTANTS
  Children = {"packager", "ffmpeg"}
  main = main
  Target = target
  Renditions = {main, target}
  Files <- TargetOnly
  MaxUploads = 2
  MaxRetries = 1
  MaxDetections = 1
  Faults = {}
  FaultLimit = 0
CHECK_DEADLOCK FALSE
INVARIANT PublishedIsUploaded
