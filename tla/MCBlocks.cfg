SPECIFICATION MCSpec
CONSTANTS
  Order <- MCOrder
  Programs <- MCPrograms
  LayoutOrder <- MCLayoutOrder
  Listings <- MCListings
INVARIANTS
  Types
  AddressesExact
  PaddedToRegion
  PathsKept
  OneCallPerBlock
