SPECIFICATION TreeSpec
CONSTANTS
  e1 = e1
  e2 = e2
  e3 = e3
  e4 = e4
  e5 = e5
  e6 = e6
  e7 = e7
  NULL = NULL
  Entries <- MCSeven
  Keys <- MCKeys
SYMMETRY SymSeven
INVARIANTS RedBlack WalkBothWays SearchFindsFirst
PROPERTIES ImplementsKeyedList
