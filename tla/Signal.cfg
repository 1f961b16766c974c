CONSTANTS
  m1 = m1
  m2 = m2
  c1 = c1
  c2 = c2
  Unreadable = Unreadable
  Movers <- OneMover
  Browsers <- TwoBrowsers
  MaxMoves = 1
  MaxTokens = 9
  WriteMayFail = TRUE
SPECIFICATION LiveSpec
INVARIANTS TypeOK CurrentTokenMeansCurrent
PROPERTY MovesAreShown
