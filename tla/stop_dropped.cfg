SPECIFICATION FairSpec
CONSTANTS
  Jobs = {j1}
  Workers = {w1}
  Handlers = {h1}
  NoJob = NoJob
  NoWorker = NoWorker
  NoCall = NoCall
  JobCpu = 1
  JobBandwidth = 20
  CpuCapacity = 2
  BandwidthCapacity = 40
  Bandwidths = {0}
  IngestThreshold = 10
  PollMultiplier = 2
  CallLimit <- CreateStop
  Faults = {}
  FaultLimit = 0
PROPERTY AcceptedStopStops
