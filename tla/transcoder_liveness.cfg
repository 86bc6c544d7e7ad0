SPECIFICATION FairSpec
CONSTANTS
  Children = {"packager", "ffmpeg"}
  main = main
  Target = target
  Renditions = {main, target}
  Files <- TwoAndThree
  MaxUploads = 1
  MaxRetries = 1
  MaxDetections = 1
  Faults = {"exit", "missed", "upload", "race", "merge", "detector", "convert"}
  FaultLimit = 2
CHECK_DEADLOCK FALSE
PROPERTIES
  UploadsEnd
  DeathSpreads
