\* Two connections unlock the same style.
SPECIFICATION Spec
CONSTANTS
  p1 = p1
  w1 = w1
  w2 = w2
  Players <- OnePlayer
  Conns <- TwoConns
  Owner <- OneOwner
  StyleIds <- ThreeStyles
  FreeStyle = 1
  GoldCost = 1
  Rewards <- OneReward
  Reports <- TwoReports
  NoReport <- EmptyReport
  MaxGold = 2
  MaxCharges = 1
INVARIANTS
  ChargedOnce
