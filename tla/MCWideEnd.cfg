SPECIFICATION Spec
CONSTANTS
  Names <- MCNames
  Listings <- MCWideListings
INVARIANTS
  FunctionsFit
