\* An indexer and two searchds under a configuration that is edited.
SPECIFICATION Spec
CONSTANTS
  Searchd1 = searchd1
  Searchd2 = searchd2
  Searchds <- MCSearchds
  Words <- MCWords
  Indexer = indexer
  Configurations <- MCConfigurations
  UShort = 3
  Absent = absent
  Broken = broken
  Nobody = nobody
  Faults = TRUE
SYMMETRY Symmetry
INVARIANTS
  ServesItsOwnIndex
  IndexerLeavesAll
