\* Two searchds under one configuration, and no fault.
SPECIFICATION Spec
CONSTANTS
  Searchd1 = searchd1
  Searchd2 = searchd2
  Searchds <- MCSearchds
  Words <- MCWords
  Indexer = indexer
  Configurations <- MCUsual
  UShort = 3
  Absent = absent
  Broken = broken
  Nobody = nobody
  Faults = FALSE
INVARIANT
  ServerRuns
