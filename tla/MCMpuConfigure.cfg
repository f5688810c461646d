SPECIFICATION Spec
CONSTANTS
  Requests <- MCRequests
  MpuCode <- MCMpuCode
INVARIANTS
  TypeOK
  SwitchCodeFetchable
  FaultsFollowEnable
  CallerProtected
PROPERTIES
  RegionsSpec
