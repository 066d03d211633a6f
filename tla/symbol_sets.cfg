\* Classes with corners of every kind as they are printed, and texts by hand.
SPECIFICATION Spec
CONSTANTS
  Inputs <- MCInputs
INVARIANTS
  TypeOK
  ParsesToItsClass
  NothingIsOpen
