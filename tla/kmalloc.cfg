SPECIFICATION Spec
CONSTANTS
  SlabSizes <- Sizes
  PageSize = 11
  NumPages = 3
  MaxOrder = 1
  Requests = {2, 4, 9, 10}
  Width = 36
  MaxLive = 3
INVARIANTS
  TypeOK
  SlabListsExact
  HeadersIntact
  StatsExact
PROPERTY
  HeapSafety
