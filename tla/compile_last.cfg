\* One node that may report at the end of the data only.
SPECIFICATION Spec
CONSTANTS
  MaxNodes = 1
  IdSpace = 2
  MaxSinks = 0
  good = good
  bad = bad
  r1 = r1
  Symbols = {good, bad}
  Malformed = {bad}
  Rids = {r1}
INVARIANTS
  LastReportsAreLast
