SPECIFICATION Spec
CONSTANTS
  Program <- MCEarlyProgram
  RegionStart <- MCRegionStart
  RegionSize <- MCRegionSize
  MaxDepth = 3
PROPERTIES
  CallerConnected
