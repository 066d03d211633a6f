\* A file that others may append to, or empty and write again, while it is
\* read; a third byte is clipped.
SPECIFICATION FairSpec
CONSTANTS
  Byte = {0, 1}
  MaxFile = 3
  UINT_MAX = 2
INVARIANTS
  TypeOK
  BufferIsPrefix
PROPERTIES
  ReturnsUnlessEmptied
