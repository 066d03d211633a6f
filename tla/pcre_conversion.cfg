\* One expression of two vertices, or two of one vertex each.
SPECIFICATION FairSpec
CONSTANTS
  Inner = {4, 5}
  MaxElements = 3
  LimitPatternCount = 2
  AllowVacuous = TRUE
  Vertices <- MCVertices
  MaxEdges <- MCMaxEdges
  Ids <- MCIds
INVARIANTS
  TypeOK
  ConversionIsConfluent
  ConnectionsAreEdges
  RejectionLeavesPrefix
PROPERTIES
  EnableOnlyUpgraded
  ReportOnlyLoosened
  DoneExpressionsUntouched
  ImplementsConversion
  Terminates
