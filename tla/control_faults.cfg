SPECIFICATION Spec
CONSTANTS
  Jobs = {j1}
  Workers = {w1, w2}
  Handlers = {h1}
  NoJob = NoJob
  NoWorker = NoWorker
  NoCall = NoCall
  JobCpu = 1
  JobBandwidth = 20
  CpuCapacity = 1
  BandwidthCapacity = 20
  Bandwidths = {0}
  IngestThreshold = 10
  PollMultiplier = 1
  CallLimit <- CreateStop
  Faults = {"send", "redeliver", "launch", "exit", "reply", "report", "down", "restart"}
  FaultLimit = 2
SYMMETRY WorkerSymmetry
INVARIANTS
  TypeOK
  NoRequestLost
  LaunchNeverDropped
  OneInstancePerRequest
  WithinCapacity
  RecordBacked
