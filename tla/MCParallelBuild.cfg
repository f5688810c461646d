SPECIFICATION Spec
CONSTANTS
  Jobs = 2
  MaxEvents = 0
INVARIANTS
  ElfConsistent
