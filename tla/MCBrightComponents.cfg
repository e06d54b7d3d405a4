SPECIFICATION SearchSpec
CONSTANTS
  Width = 7
  Height = 6
  Pictures <- MCPictures
  MinComponentAreaPixels = 3
  CompactComponentMinArea = 4
  NonBorderFallbackMinArea = 4
INVARIANTS
  FillIsRegion
  FindsByRule
CHECK_DEADLOCK FALSE
