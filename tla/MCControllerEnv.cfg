SPECIFICATION Spec
CONSTANTS
  QueueCapacity = 3
  TargetCycles = 2
  DeviceHeartbeatTimeoutTicks = 3
INVARIANTS
  TypeOK
  Accounting
  CommandsOncePerPart
  ShutdownOncePerFault
PROPERTIES
  SilentAfterFault
