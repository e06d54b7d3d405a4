SPECIFICATION Spec
CONSTANTS
  QueueCapacity = 8
  ControllerHeartbeatTimeoutTicks = 3
  PartIdLimit = 3
  MaxImages = 2
  Possible = {"ConveyorFault", "VisionFault", "VisionTimeout", "RobotPickFailure", "RobotPlaceFailure"}
INVARIANTS
  OneVerdictPerImage
  DeafDeviceStops
PROPERTIES
  StopsOnlyWithCause
  ShutDeviceStaysQuiet
