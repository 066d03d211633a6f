\* The class of the dot of a PCRE with the modifier s, printed and read back.
SPECIFICATION Spec
CONSTANTS
  Inputs <- MCAny
INVARIANTS
  PrintedClassesAreRead
