\* A configuration whose indexes have no source.
SPECIFICATION Spec
CONSTANTS
  Searchd1 = searchd1
  Searchd2 = searchd2
  Searchds <- MCSearchds
  Words <- MCWords
  Indexer = indexer
  Configurations <- MCSkipped
  UShort = 3
  Absent = absent
  Broken = broken
  Nobody = nobody
  Faults = FALSE
INVARIANT
  SkippedOnly
