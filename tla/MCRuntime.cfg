SPECIFICATION FairSpec
CONSTANTS
  QueueCapacity = 12
  BusCapacity = 12
  MaxDevices = 10
  MaxPasses = 40
  TargetCycles = 5
  DeviceHeartbeatTimeoutTicks = 3
  ControllerHeartbeatTimeoutTicks = 3
  PartIdLimit = 3
  Possible = {"ConveyorFault", "VisionFault", "VisionTimeout", "RobotPickFailure", "RobotPlaceFailure"}
INVARIANTS
  OneFramePerPart
  RobotHandlesInspectedPart
  Lockstep
  NoFalseAlarm
  ShutdownAllOrNothing
  NoFrameLost
PROPERTIES
  RunEnds
  ImplementsLine
