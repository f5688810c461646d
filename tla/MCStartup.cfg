CONSTANTS
  DataSize = 2
  BssSize = 2
  HeapCell = 4
  Top = 8
  Junk = {7}
  Increments <- MCIncrements
SPECIFICATION BootSpec
INVARIANTS BootTypeOK MainSeesImage HeapAccounted HeapClearWhenGranted
PROPERTIES FaultIsFinal FaultShown
