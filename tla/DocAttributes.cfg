\* Every result of two rows for every configuration and order of columns.
SPECIFICATION Spec
CONSTANTS
  Strings <- MCStrings
  Hash <- MCHash
  Values <- MCValues
  Sources <- MCSources
  Headers <- MCHeaders
  Printed <- MCPrinted
  Filters <- MCFilters
  Formats <- MCFormats
  UChar = 8
  IntMax = 7
  MaxDocs = 2
INVARIANTS
  Inv
  PostingsExact
  HitsReadBack
  FiltersAreExact
  AnswersShowTheRow
\* The indexer ends.
CHECK_DEADLOCK FALSE
