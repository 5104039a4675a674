\* Two clients, one Start that shuts down when ListenAndServe fails, and one Shutdown
\* on a signal, at any time.
SPECIFICATION FairSpec
CONSTANTS
  c1 = c1
  c2 = c2
  boot = boot
  sig = sig
  Conns <- TwoConns
  Starters <- OneStarter
  Stoppers <- OneStopper
INVARIANTS
  TypeOK
  ShutdownDrains
  NoOrphanConnection
  NoLeak
  NoCircularWait
PROPERTIES
  NoAddDuringWait
  GatewayPromise
  ShutdownTerminates
  ConnectionCleanup
  HubCallsReturn
