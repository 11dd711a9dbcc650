\* One run of the indexer and a second one that replaces its files, under
\* faults, a searchd that may start at any time, and queries on every mix of
\* what it may have read.
SPECIFICATION QuerySpec
CONSTANTS
  Index = Index
  Uint = Uint
  Strings = Strings
  Nowhere = Nowhere
  NoQuery = NoQuery
  KindOrder <- MCKindOrder
  FilterKinds <- MCFilterKinds
  ShownKinds <- MCShownKinds
  MaxRuns = 2
  DocCounts = {0, 1, 2}
  MaxId = 1
  Faults = TRUE
INVARIANTS
  ServesWholeIndex
  KindsCoverSummary
  Inv
  DocumentsAreWhole
  QueriesAreSafe
