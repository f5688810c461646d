SPECIFICATION Spec
CONSTANTS
  Program <- MCProgram
  RegionStart <- MCRegionStart
  RegionSize <- MCRegionSize
  MaxDepth = 6
INVARIANTS
  TypeOK
PROPERTIES
  GuardSpec
