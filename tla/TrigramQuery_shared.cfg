SPECIFICATION Spec
CONSTANTS
  Chars = {1}
  maxExact = 7
  maxSet = 20
  MaxClass = 100
  MaxWord = 6
  Nil = Nil
  Regexps <- Four
CHECK_DEADLOCK FALSE
INVARIANT QueryIsConservative
