\* The smallest run with --support and one report.
SPECIFICATION Spec
CONSTANTS
  CommandLines <- OneOfEach
  MaxReports = 1
  CounterSpace = 2
  MaxMatches = 1
INVARIANTS
  SupportsAreCounts
