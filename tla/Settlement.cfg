\* Settlements of a player on two connections, with archives and stats written in
\* between.
SPECIFICATION Spec
CONSTANTS
  p1 = p1
  w1 = w1
  w2 = w2
  r1 = r1
  r2 = r2
  NotSettled = NotSettled
  NoRequest = NoRequest
  GoldPerKill = 5
  MaxInt32 = 225
  MaxInt64 = 60
  Players <- OnePlayer
  Runs <- AllRuns
  Results <- Sent
  Saves <- TwoSaves
  Reports <- OneReport
  Submissions <- OneSubmission
  Conns <- TwoConns
  Owner <- OneOwner
INVARIANTS
  TypeOK
  AnswersAgree
  OneFreshAnswer
  RecordPerRun
  NoDuplicateKey
  RankIsSettled
  RewardIsEarned
PROPERTIES
  SettledOnce
