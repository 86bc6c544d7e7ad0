SPECIFICATION Spec
CONSTANTS
  Children = {"packager", "ffmpeg"}
  main = main
  Target = target
  Renditions = {main, target}
  Files <- TwoAndFour
  MaxUploads = 2
  MaxRetries = 1
  MaxDetections = 1
  Faults = {"exit", "stop", "missed", "removed", "upload", "race", "merge", "detector", "convert"}
  FaultLimit = 1
CHECK_DEADLOCK FALSE
INVARIANTS
  TypeOK
  NoFileForgotten
  InitFollowsSegment
  DetectorLimit
  PublishedHandedOver
  AnnotatedIsOwn
