SPECIFICATION FairSpec
CONSTANTS
  Order <- MCOrder
  Programs <- MCPrograms
INVARIANTS
  TypeOK
  OnlyCoveredIsBuilt
  OnlyAdds
  GrowthBounded
  CallsGuarded
  CallerReadFirst
  ImageReached
PROPERTIES
  Terminates
