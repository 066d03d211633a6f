\* Files of up to two rules, older files of one rule, and every failure.
SPECIFICATION Spec
CONSTANTS
  MaxElements = 3
  LimitPatternCount = 2
  MaxNodes = 4
  IdSpace = 5
  Malformed = {}
  Rids = {0, 1, 2}
  RuleFiles <- MCRuleFiles
  OldRules <- MCOldRules
  Symbols <- MCSymbols
  Shapes <- MCShapes
INVARIANTS
  TypeOK
  RulesAreKept
  MessageTellsWhatIsMissing
  FailureKeepsTheFile
  WholeOrUnreadable
  LookupsNameTheRule
  ChainRunsTheRules
