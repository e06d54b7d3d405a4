SPECIFICATION Spec
CONSTANTS
  QueueCapacity = 2
  BusCapacity = 2
  MaxDevices = 3
  Peers = {a, b, c}
  Answering = {b, c}
  MaxProcessingPasses = 2
  MaxSent = 3
SYMMETRY Symmetry
PROPERTIES
  ImplementsBroadcast
  AnswersWait
  ReturnsClean
