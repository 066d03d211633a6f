\* Three databases and two inputs; counters that wrap and start from garbage.
SPECIFICATION Spec
CONSTANTS
  CommandLines <- MCCommandLines
  MaxReports = 2
  CounterSpace = 2
  MaxMatches = 2
INVARIANTS
  TypeOK
  EveryFileIsTaken
  ScanUsesLiveObjects
  ExitsLeave
  FreedOnce
  EveryPairIsScanned
  PrintsTheMatches
