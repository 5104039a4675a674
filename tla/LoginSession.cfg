\* Two connections of two users, two logins, every failure and crash.
SPECIFICATION Spec
CONSTANTS
  c1 = c1
  c2 = c2
  o1 = o1
  o2 = o2
  u1 = u1
  u2 = u2
  u3 = u3
  Conns <- TwoConns
  OpenIDs <- TwoUsers
  Uids <- ThreeIds
  Scores <- OneScore
  MaxLogins = 2
  RedisFails = TRUE
SYMMETRY Symmetry
INVARIANTS
  OnePlayerPerOpenID
  SessionsEnd
