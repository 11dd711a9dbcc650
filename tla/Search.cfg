\* Three documents in every distribution over up to three tokens, windows that
\* start before, at and after the first match, are empty, or overflow.
\* The last document has the largest legal id.
SPECIFICATION FairSpec
CONSTANTS
  NumDocs = 3
  Illegal = 3
  Postings <- AllPostings
  NoDocs = nodocs
  MaxTokens = 3
  IntMax = 3
  Offsets <- SomeOffsets
  Limits = {0, 1, 2, 3}
INVARIANTS
  TotalIsExact
  WindowIsExact
  Inv
PROPERTIES
  SearchEnds
\* A finished query stops.
CHECK_DEADLOCK FALSE
