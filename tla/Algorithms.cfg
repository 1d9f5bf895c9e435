SPECIFICATION AllSpec
CONSTANTS
  Max = 4
  BlockSize = 2
  MaxLength = 6
  MaxMatches = 2
  Nil = Nil
CHECK_DEADLOCK FALSE
INVARIANTS
  HasIsMembership
  SnippetsExact
  PartsExact
  SoundUnlessShared
PROPERTIES
  ImplementsOrder
  ParseEnds
