\* Two connections of one user: the best score falls.
SPECIFICATION Spec
CONSTANTS
  c1 = c1
  c2 = c2
  o1 = o1
  o2 = o2
  u1 = u1
  u2 = u2
  u3 = u3
  Conns <- TwoConns
  OpenIDs <- OneUser
  Uids <- TwoIds
  Scores <- OneScore
  MaxLogins = 3
  RedisFails = FALSE
PROPERTIES
  BestScoreNeverFalls
