\* Every script of two pre- and two post-queries and one query.
SPECIFICATION FairSpec
CONSTANTS
  Quiet = quiet
  NoResult = noresult
  Query <- MCQuery
  Queries <- MCQueries
INVARIANTS
  RowsAreOfQuery
  PostQueriesRun
PROPERTY
  RunEnds
\* A run ends.
CHECK_DEADLOCK FALSE
