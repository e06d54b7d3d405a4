SPECIFICATION MainSpec
CONSTANTS
  QueueCapacity = 12
  BusCapacity = 12
  MaxDevices = 10
  MaxPasses = 24
  TargetCycles = 2
  DeviceHeartbeatTimeoutTicks = 3
  ControllerHeartbeatTimeoutTicks = 3
  PartIdLimit = 3
  Possible = {"VisionFault", "RobotPlaceFailure"}
  MaxTicks = 12
INVARIANTS
  PartsCountedOnce
  RunsAddUp
  EndsForAReason
PROPERTIES
  MainSettles
