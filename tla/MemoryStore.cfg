\* The development runtime with the probe and two connections of other clients.
SPECIFICATION ProbeSpec
CONSTANTS
  dev = dev
  w1 = w1
  w2 = w2
  r1 = r1
  r2 = r2
  o1 = o1
  mine = mine
  NotSettled = NotSettled
  NoPlayer = NoPlayer
  GoldPerKill = 5
  MaxInt32 = 30
  MaxInt64 = 21
  Runs <- AllRuns
  Requests <- Battles
  Saves <- Archives1
  Conns <- Clients
  OpenIds <- Codes
  MaxPlayers = 2
  Dev = dev
  Mine = mine
  ProbeArchive <- newProbeArchive
  ProbeRun <- Battle1
SYMMETRY Others2
INVARIANTS
  TypeOK
  IndexMatches
  EvidenceIsTrue
PROPERTIES
  SettledOnce
