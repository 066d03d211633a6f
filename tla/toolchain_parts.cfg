\* Lines of every shape, also with one slash or with text before the first.
SPECIFICATION Spec
CONSTANTS
  MaxElements = 3
  LimitPatternCount = 2
  MaxNodes = 4
  IdSpace = 5
  Malformed = {}
  Rids = {0, 1, 2}
  RuleFiles <- MCRuleFiles
  OldRules <- MCOldRules
  Symbols <- MCSymbols
  Shapes <- MCShapes
INVARIANTS
  RulesHaveThreeParts
