\* Three sections of two tags and three names; two sections and two items in
\* characters; eight characters of statements; three pieces of a request;
\* files of two tokens or two documents, torn at every byte.
SPECIFICATION TextsSpec
CONSTANTS
  Tags = {source, index}
  Names = {n1, n2, n3}
  NoName = noname
  a = a
  b = b
  v = v
  w = w
  Items = {a, b}
  Sections <- MCSections
  Malformed = malformed
  Blank = blank
  NoValue = novalue
  MaxSections = 3
  Characters <- MCCharacters
  MaxLength = 8
  Methods <- MCMethods
  Versions <- MCVersions
  Headers <- MCHeaders
  Begun <- MCBegun
  Chunks <- MCChunks
  KeyText <- MCKeyText
  Defaults <- MCDefaults
  MaxSent = 3
  Inverters <- MCInverters
  Summaries <- MCSummaries
  BUFF_SIZE = 3
  Id <- MCId
  Junk = 9
  Beyond <- MCBeyond
SYMMETRY Symmetry
INVARIANTS
  ValuesAccumulate
  SectionsAreSound
  SectionsAreRead
  StatementsAreRead
  RequestsAreRead
  FilesReadBack
\* Reading ends.
CHECK_DEADLOCK FALSE
