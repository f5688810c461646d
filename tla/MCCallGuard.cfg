SPECIFICATION Spec
CONSTANTS
  Function <- MCFunction
  Main = "main"
  Calls <- MCCalls
  ReturnsLast <- MCFunction
  RegionStart <- MCRegionStart
  RegionSize <- MCRegionSize
  MaxDepth = 5
INVARIANTS
  TypeOK
  RunningOpen
  SavedIsCaller
  BodyConfined
PROPERTIES
  TransferThroughRegionTwo
