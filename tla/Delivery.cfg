\* One connection, three requests, a broadcast.
SPECIFICATION FairSpec
CONSTANTS
  p1 = p1
  c1 = c1
  Players <- OnePlayer
  Conns <- OneConn
  Owner <- OneOwner
  Sends <- Kinds
  BufSize = 2
  Limit = 1
  MaxRequests = 3
  MaxPushes = 1
CHECK_DEADLOCK FALSE
INVARIANTS
  TypeOK
  AnswersMatchRequests
  RefusedNotRun
PROPERTIES
  Answered
  NotLockedOut
