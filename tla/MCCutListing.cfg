SPECIFICATION Spec
CONSTANTS
  Jobs = 1
  MaxEvents = 1
INVARIANTS
  ElfMeasured
