SPECIFICATION FairSpec
CONSTANTS
  QueueCapacity = 12
  BusCapacity = 12
  MaxDevices = 10
  MaxPasses = 40
  TargetCycles = 3
  DeviceHeartbeatTimeoutTicks = 3
  ControllerHeartbeatTimeoutTicks = 3
  PartIdLimit = 3
  Possible = {"ConveyorFault"}
INVARIANT DevicesShutDownAtPrompt
