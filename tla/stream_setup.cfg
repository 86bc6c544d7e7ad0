SPECIFICATION Spec
CONSTANTS
  wide = wide
  narrow = narrow
  Jobs = {wide, narrow}
  Offered <- SomeOfAll
  RtmpPorts <- OnePort
  LaunchBound <- ThreeOrTwo
  PartOf <- Everywhere
  Faults = {"post", "keystore", "lost", "garbled", "get", "write", "send", "upload", "spawn", "early", "exit", "crash", "readings"}
  FaultLimit = 1
CHECK_DEADLOCK FALSE
INVARIANTS
  TypeOK
  AdmittedIsNormal
  KeyIsServed
  ClearOnlyIf
  KeyFileOpensStream
  RenditionsWired
  RenditionsApart
  UdpPortsApart
  RtmpPortExclusive
  PortLostOnlyUnstopped
  ListenersApart
