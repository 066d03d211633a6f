\* Up to three nodes with every attribute, each leading to at most one node.
SPECIFICATION Spec
CONSTANTS
  MaxNodes = 3
  IdSpace = 4
  MaxSinks = 1
  good = good
  bad = bad
  r1 = r1
  Symbols = {good, bad}
  Malformed = {bad}
  Rids = {r1}
INVARIANTS
  TypeOK
  ReportIdsDense
  ReportsNameTheirNodes
PROPERTIES
  EntriesAreFinal
  ImplementsContract
