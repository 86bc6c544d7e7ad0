SPECIFICATION Spec
CONSTANTS
  Jobs = {j1}
  Workers = {w1, w2}
  Handlers = {h1, h2}
  NoJob = NoJob
  NoWorker = NoWorker
  NoCall = NoCall
  JobCpu = 1
  JobBandwidth = 20
  CpuCapacity = 2
  BandwidthCapacity = 40
  Bandwidths = {0}
  IngestThreshold = 10
  PollMultiplier = 2
  CallLimit <- OnceEach
  Faults = {}
  FaultLimit = 0
SYMMETRY Symmetry
INVARIANTS
  LaunchNeverDropped
  OneInstancePerRequest
  StoppedMeansSignalled
  RecordBacked
PROPERTY
  ServesOnce
