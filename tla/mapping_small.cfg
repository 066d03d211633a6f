\* Up to three entries, each with an empty, a short or a long string.
SPECIFICATION Spec
CONSTANTS
  Base = 3
  MaxInserts = 3
  Names <- MCNames
  MapIds <- MCMapIds
  DbBytes <- MCDbBytes
INVARIANTS
  TypeOK
  RoundTrip
  ReadsStayInTheMap
  BufferIsFull
