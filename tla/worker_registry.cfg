SPECIFICATION FairSpec
CONSTANTS
  Hosts = {h1}
  Jobs = {j1, j2}
  NoHost = NoHost
  RemovalLimit = 1
  Capacity = 1
  Behind <- Lag
  IdLimit = 2
  LaunchLimit = 2
  Faults = {"registration", "crash", "exit"}
  FaultLimit = 1
INVARIANTS
  TypeOK
  WithinCapacity
  TwiceOnlyDisowned
PROPERTIES
  PurgedWasSilent
  LostUntilRestart
  UnclaimedGoes
  OrphanStops
