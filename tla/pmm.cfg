SPECIFICATION Spec
CONSTANTS
  NumPages = 8
  Reserved = {2}
  MaxOrder = 2
INVARIANTS
  TypeOK
  FreeListExact
  BlocksExact
PROPERTY
  OwnerSafety
