\* No section without its parent, over three sections of two tags and three names.
SPECIFICATION Spec
CONSTANTS
  Tags = {source, index}
  Names = {n1, n2, n3}
  NoName = noname
  a = a
  b = b
  v = v
  w = w
  Items = {a, b}
  Sections <- MCSections
  Malformed = malformed
  Blank = blank
  NoValue = novalue
  MaxSections = 3
SYMMETRY Symmetry
INVARIANTS
  ParentsDefined
\* Parsing ends.
CHECK_DEADLOCK FALSE
