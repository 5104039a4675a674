\* Submissions and logins on two connections, a settlement, pages and the end.
SPECIFICATION Spec
CONSTANTS
  w1 = w1
  w2 = w2
  Players <- TwoPlayers
  Conns <- TwoConns
  Owner <- OneOwner
  Names <- ThreeNames
  UidName = 0
  NewName = 1
  Nickname = 2
  Submissions <- LowHigh
  Battles <- OneBattle
  Starts <- EdgeStarts
  Counts <- EdgeCounts
  MaxPage = 2
  MaxInt32 = 7
  MaxExact = 4
  MaxSubmits = 2
SYMMETRY ConnSymmetry
INVARIANTS
  BestIsHighest
  PageIsWindow
