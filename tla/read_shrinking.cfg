\* A file that hscompile may rewrite while it is read.
SPECIFICATION FairSpec
CONSTANTS
  Byte = {0}
  MaxFile = 2
  UINT_MAX = 2
PROPERTIES
  AlwaysReturns
