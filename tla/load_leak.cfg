SPECIFICATION Spec
CONSTANTS
  Jobs = {j1, j2}
  Workers = {w1}
  Handlers = {h1}
  NoJob = NoJob
  NoWorker = NoWorker
  NoCall = NoCall
  JobCpu = 1
  JobBandwidth = 20
  CpuCapacity = 2
  BandwidthCapacity = 40
  Bandwidths = {0}
  IngestThreshold = 10
  PollMultiplier = 2
  CallLimit <- TwoJobs
  Faults = {}
  FaultLimit = 0
INVARIANT LoadFreed
