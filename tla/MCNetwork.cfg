SPECIFICATION NetworkSpec
CONSTANTS
  QueueCapacity = 24
  BusCapacity = 60
  MaxDevices = 10
  MaxPasses = 40
  TargetCycles = 3
  DeviceHeartbeatTimeoutTicks = 3
  ControllerHeartbeatTimeoutTicks = 3
  PartIdLimit = 3
  Possible = {}
  MaxChanges = 2
  LastTick = 16
INVARIANTS
  AtMostOneFramePerPart
  AbsenceStopsController
  EveryDeviceShutsDown
  AbsentDeviceShutsDown
