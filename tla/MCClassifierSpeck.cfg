SPECIFICATION Spec
CONSTANTS
  Levels <- MCLevels
  Boxes <- MCBoxes
  Some <- MCSome
  Shares = {0, 1, 5, 12, 33, 50, 75, 88, 89, 90, 99, 100}
INVARIANT SpeckIsNoHole
CHECK_DEADLOCK FALSE
