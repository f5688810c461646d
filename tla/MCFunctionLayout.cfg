SPECIFICATION Spec
CONSTANTS
  Names <- MCNames
  Listings <- MCListings
INVARIANTS
  TypeOK
  RegionsDisjoint
  RegionsAligned
  SizesEncoded
  LinkedAtRegion
