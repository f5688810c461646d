SPECIFICATION FairSpec
CONSTANTS
  Jobs = 1
  MaxEvents = 3
INVARIANTS
  TypeOK
  ElfConsistent
  ElfFresh
PROPERTIES
  MakeRecovers
