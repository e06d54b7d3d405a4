SPECIFICATION MCSpec
CONSTANTS
  Callers = {main, interrupt}
  Nobody = nobody
  Capacity = 3
  Values = {v1, v2}
  MaxRefused = 1
SYMMETRY Symmetry
INVARIANTS
  IndicesAgree
PROPERTIES
  ImplementsBoundedQueue
  ImplementsRingBuffer
