------------------------------ MODULE Process ------------------------------
(***************************************************************************)
(* cmd/server: the process from the configuration file to its exit.  main  *)
(* loads the configuration, composes the runtime (development, or          *)
(* production with MySQL and Redis), runs the gateway in a goroutine of    *)
(* its own ("boot"), waits for a signal, shuts the gateway down, closes    *)
(* the stores and then the log file.  The gateway is taken by what it      *)
(* promises (Gateway), the logger as it is (Logger).                       *)
(***************************************************************************)
EXTENDS Naturals, Sequences, FiniteSets

CONSTANTS
  Conns,        \* connections of clients
  Files,        \* one log file for every Init
  Writers,      \* goroutines that log through zap.L()
  MaxInserts    \* bound: SubmitScore's background inserts under way

ASSUME FilesAssumption == Files \intersect {"off", "nop", "console"} = {}
ASSUME InsertsAssumption == MaxInserts \in Nat

Threads == {"main", "boot"}

VARIABLES
  main,         \* where main is
  boot,         \* where the goroutine is that calls Server.Start
  exit,         \* how the process ended, "running" before
  config,       \* the loaded configuration
  mysql, redis, \* the stores' clients: "absent", "open" or "closed"
  routes,       \* Kernel.handlers
  hooks,        \* Hooks.Before, in the order in which they run
  quit,         \* a signal is in the channel
  inserts,      \* goroutines of SubmitScore that have not yet written their record
  missed,       \* one of them found the store closed
  phase, live, back,                                \* Gateway
  global, zapL, restore, closed, handle, taken      \* Logger

G == INSTANCE Gateway WITH Callers <- Threads
L == INSTANCE Logger

gatewayVars == <<phase, live, back>>
loggerVars  == <<global, zapL, restore, closed, handle, taken>>
storeVars == <<mysql, redis, inserts, missed>>
setupVars == <<config, routes, hooks>>
mainVars  == <<main, boot, exit, quit>>
vars      == <<mainVars, setupVars, storeVars, gatewayVars, loggerVars>>

Settings == {"payment", "development", "logfile"}
Partial  == UNION {[S -> BOOLEAN] : S \in SUBSET Settings}

-----------------------------------------------------------------------------
(* Routes: the table of internal/protocol, and what main registers.         *)

canonicalRoutes ==
  {"Login", "Heartbeat", "SaveArchive", "LoadArchive", "GetRank", "SubmitScore",
   "CombatResult", "GetEnemyConfigs", "GetDungeonConfig", "GetStyleConfigs",
   "UnlockStyle", "GetPlayerStats", "UpdatePlayerStats", "CreateOrder", "GMCommand"}

OnlineSession == <<"Login", "Heartbeat", "SaveArchive", "LoadArchive">>

Registrations(development) ==
  <<"CreateOrder">> \o OnlineSession \o
    IF development
      THEN <<"CombatResult", "GetPlayerStats">>
      ELSE <<"GetRank", "SubmitScore", "CombatResult", "GetEnemyConfigs",
             "GetDungeonConfig", "GetStyleConfigs", "UnlockStyle",
             "GetPlayerStats", "UpdatePlayerStats", "GMCommand">>

Hooks(development) == IF development THEN <<"Auth">> ELSE <<"Auth", "RateLimit">>

\* Kernel.Register panics on a message that has a handler, or that no route knows.
Registers(ids) ==
  /\ Cardinality({ids[i] : i \in DOMAIN ids}) = Len(ids)
  /\ \A i \in DOMAIN ids : ids[i] \in canonicalRoutes

-----------------------------------------------------------------------------
TypeOK ==
  /\ main \in {"load", "log", "compose", "mysql", "redis", "register", "abort", "start",
               "notify", "wait", "unnotify", "stop", "drain", "close", "closelog", "end"}
  /\ boot \in {"none", "ready", "serving", "failing", "closing", "failed", "gone"}
  /\ exit \in {"running", "config", "panic", "init", "fatal", "killed", "clean"}
  /\ config \in [Settings -> BOOLEAN]
  /\ mysql \in {"absent", "open", "closed"} /\ redis \in {"absent", "open", "closed"}
  /\ routes \subseteq canonicalRoutes
  /\ hooks \in {<<>>, <<"Auth">>, <<"Auth", "RateLimit">>}
  /\ quit \in BOOLEAN
  /\ inserts \in 0..MaxInserts
  /\ missed \in BOOLEAN
  /\ G!TypeOK
  /\ L!TypeOK

Init ==
  /\ main = "load" /\ boot = "none" /\ exit = "running" /\ quit = FALSE
  /\ config = [s \in Settings |-> FALSE] /\ routes = {} /\ hooks = <<>>
  /\ mysql = "absent" /\ redis = "absent" /\ inserts = 0 /\ missed = FALSE
  /\ G!Init /\ L!Init

At(pc) == exit = "running" /\ main = pc
Exit(how) == exit' = how /\ UNCHANGED <<main, boot, quit>>
Goto(pc) == main' = pc /\ UNCHANGED <<boot, exit, quit>>

-----------------------------------------------------------------------------
(* Start                                                                    *)

\* An environment variable overrides a setting of the file; viper decodes the keys it
\* knows from the file, so a setting the file does not have keeps its zero value.
Effective(file, env) ==
  [s \in Settings |-> IF s \notin DOMAIN file THEN FALSE
                      ELSE IF s \in DOMAIN env THEN env[s] ELSE file[s]]

Load ==
  /\ At("load")
  /\ \/ /\ \E file, env \in Partial : config' = Effective(file, env)
        /\ Goto("log")
     \/ Exit("config") /\ UNCHANGED config    \* no file, no YAML, or a wrong type
  /\ UNCHANGED <<routes, hooks, storeVars, gatewayVars, loggerVars>>

InitLogger ==
  /\ At("log") /\ Goto("compose")
  /\ IF config["logfile"] THEN \E f \in Files : L!Configure(f)
                          ELSE L!Configure(L!Con)
  /\ UNCHANGED <<setupVars, storeVars, gatewayVars>>

\* newRuntime, up to the stores.
Compose ==
  /\ At("compose")
  /\ Goto(IF config["payment"] THEN "abort"
          ELSE IF config["development"] THEN "register" ELSE "mysql")
  /\ UNCHANGED <<setupVars, storeVars, gatewayVars, loggerVars>>

\* NewMySQLStore: the connection, then the migration, which closes it when it fails.
OpenMySQL ==
  /\ At("mysql")
  /\ \/ mysql' = "open" /\ Goto("redis")
     \/ mysql' \in {"absent", "closed"} /\ Goto("abort")
  /\ UNCHANGED <<setupVars, redis, inserts, missed, gatewayVars, loggerVars>>

\* mutant: MySQL stays open when Redis fails
OpenRedisKeepsMySQL ==
  /\ At("redis")
  /\ \/ redis' = "open" /\ Goto("register")
     \/ redis' = "closed" /\ Goto("abort")
  /\ UNCHANGED <<setupVars, mysql, inserts, missed, gatewayVars, loggerVars>>

\* NewRedisStore: a client that cannot PING is closed, and MySQL after it.
OpenRedis ==
  /\ At("redis")
  /\ \/ redis' = "open" /\ Goto("register") /\ UNCHANGED mysql
     \/ redis' = "closed" /\ mysql' = "closed" /\ Goto("abort")
  /\ UNCHANGED <<setupVars, inserts, missed, gatewayVars, loggerVars>>

\* Nobody sees the runtime before it is complete: all registrations are one step.
RegisterRoutes ==
  LET ids == Registrations(config["development"])
  IN  /\ At("register")
      /\ IF Registers(ids)
           THEN /\ routes' = {ids[i] : i \in DOMAIN ids}
                /\ hooks' = Hooks(config["development"])
                /\ Goto("start")
           ELSE Exit("panic") /\ UNCHANGED <<routes, hooks>>
      /\ UNCHANGED <<config, storeVars, gatewayVars, loggerVars>>

Abort ==
  /\ At("abort") /\ Exit("init")
  /\ L!Close
  /\ UNCHANGED <<setupVars, storeVars, gatewayVars>>

\* go func() { Start ... }
StartServer ==
  /\ At("start")
  /\ boot' = "ready" /\ main' = "notify" /\ UNCHANGED <<exit, quit>>
  /\ UNCHANGED <<setupVars, storeVars, gatewayVars, loggerVars>>

-----------------------------------------------------------------------------
(* The goroutine of Start.  It calls Shutdown itself before it returns.     *)

BootGoto(pc) == boot' = pc /\ UNCHANGED <<main, exit, quit>>

ServerStarts ==
  /\ exit = "running" /\ boot = "ready"
  /\ \/ G!Start /\ BootGoto("serving")
     \/ /\ phase \in {"stopping", "stopped"}      \* ErrServerClosed: not fatal
        /\ BootGoto("gone") /\ UNCHANGED gatewayVars
  /\ UNCHANGED <<setupVars, storeVars, loggerVars>>

BeginShutdown ==
  \/ G!Stop
  \/ phase \in {"stopping", "stopped"} /\ UNCHANGED gatewayVars

\* mutant: only the caller that does the work returns
ShutdownReturnsOnce(t) == G!Finish(t)

\* mutant: a second caller does not wait for the first, a flag instead of sync.Once
ShutdownReturnsAtOnce(t) ==
  \/ G!Finish(t)
  \/ back' = back \union {t} /\ UNCHANGED <<phase, live>>

ShutdownReturns(t) == G!Finish(t) \/ G!Return(t)

\* ListenAndServe returns: the port is taken, accepting fails, or Shutdown was called.
ServeReturns ==
  /\ exit = "running" /\ boot = "serving"
  /\ \/ BootGoto("failing")
     \/ phase # "running" /\ BootGoto("closing")
  /\ BeginShutdown
  /\ UNCHANGED <<setupVars, storeVars, loggerVars>>

StartReturns ==
  /\ exit = "running" /\ boot \in {"failing", "closing"}
  /\ ShutdownReturns("boot")
  /\ BootGoto(IF boot = "failing" THEN "failed" ELSE "gone")
  /\ UNCHANGED <<setupVars, storeVars, loggerVars>>

\* zap.L().Fatal
StartFatal ==
  /\ exit = "running" /\ boot = "failed" /\ Exit("fatal")
  /\ UNCHANGED <<setupVars, storeVars, gatewayVars, loggerVars>>

-----------------------------------------------------------------------------
(* main after the start                                                     *)

Notify ==
  /\ At("notify") /\ Goto("wait")
  /\ UNCHANGED <<setupVars, storeVars, gatewayVars, loggerVars>>

\* SIGINT or SIGTERM; the channel holds one, and without Notify it ends the process.
Signal ==
  /\ exit = "running"
  /\ IF main \in {"wait", "unnotify"}
       THEN quit' = TRUE /\ UNCHANGED <<main, boot, exit>>
       ELSE Exit("killed")
  /\ UNCHANGED <<setupVars, storeVars, gatewayVars, loggerVars>>

SignalReceived ==
  /\ At("wait") /\ quit
  /\ main' = "unnotify" /\ quit' = FALSE /\ UNCHANGED <<boot, exit>>
  /\ UNCHANGED <<setupVars, storeVars, gatewayVars, loggerVars>>

StopNotify ==
  /\ At("unnotify") /\ Goto("stop")
  /\ UNCHANGED <<setupVars, storeVars, gatewayVars, loggerVars>>

CallShutdown ==
  /\ At("stop") /\ Goto("drain")
  /\ BeginShutdown
  /\ UNCHANGED <<setupVars, storeVars, loggerVars>>

\* mutant: main does not wait for the gateway
DrainedEarly ==
  /\ At("drain") /\ Goto("close")
  /\ UNCHANGED <<setupVars, storeVars, gatewayVars, loggerVars>>

Drained ==
  /\ At("drain") /\ Goto("close")
  /\ ShutdownReturns("main")
  /\ UNCHANGED <<setupVars, storeVars, loggerVars>>

\* newRuntimeClose: Redis, then MySQL, whatever error the first returned.  The
\* development runtime has nothing to close.
CloseRedis ==
  /\ At("close") /\ redis = "open" /\ redis' = "closed"
  /\ UNCHANGED <<main, boot, exit, quit>>
  /\ UNCHANGED <<setupVars, mysql, inserts, missed, gatewayVars, loggerVars>>

CloseMySQL ==
  /\ At("close") /\ redis # "open"
  /\ mysql' = (IF mysql = "open" THEN "closed" ELSE mysql)
  /\ Goto("closelog")
  /\ UNCHANGED <<setupVars, redis, inserts, missed, gatewayVars, loggerVars>>

CloseLogger ==
  /\ At("closelog") /\ Goto("end")
  /\ L!Close
  /\ UNCHANGED <<setupVars, storeVars, gatewayVars>>

MainReturns ==
  /\ At("end") /\ Exit("clean")
  /\ UNCHANGED <<setupVars, storeVars, gatewayVars, loggerVars>>

-----------------------------------------------------------------------------
(* Everybody else                                                           *)

Client(c) ==
  /\ exit = "running" /\ (G!Admit(c) \/ G!Release(c))
  /\ UNCHANGED <<mainVars, setupVars, storeVars, loggerVars>>

\* SubmitScore answers and leaves the record to a goroutine that nobody waits for.
SubmitScore ==
  /\ exit = "running" /\ live # {} /\ "SubmitScore" \in routes
  /\ inserts < MaxInserts /\ inserts' = inserts + 1
  /\ UNCHANGED <<mainVars, setupVars, mysql, redis, missed, gatewayVars, loggerVars>>

CreateScoreRecord ==
  /\ exit = "running" /\ inserts > 0 /\ inserts' = inserts - 1
  /\ missed' = (missed \/ mysql # "open")
  /\ UNCHANGED <<mainVars, setupVars, mysql, redis, gatewayVars, loggerVars>>

\* main logs once the logger is there, and goroutines until the process has gone.
Log ==
  /\ exit = "running" /\ main # "load"
  /\ \/ L!WriteNow(global) \/ L!WriteNow(zapL)
     \/ boot # "none" /\ \E w \in Writers : L!Take(w) \/ L!WriteTaken(w)
  /\ UNCHANGED <<mainVars, setupVars, storeVars, gatewayVars>>

MainStep ==
  \/ Load \/ InitLogger \/ Compose \/ OpenMySQL \/ OpenRedis \/ RegisterRoutes \/ Abort
  \/ StartServer \/ Notify \/ SignalReceived \/ StopNotify \/ CallShutdown \/ Drained
  \/ CloseRedis \/ CloseMySQL \/ CloseLogger \/ MainReturns

BootStep == ServerStarts \/ ServeReturns \/ StartReturns \/ StartFatal

Next ==
  \/ MainStep \/ BootStep \/ Signal
  \/ SubmitScore \/ CreateScoreRecord \/ Log
  \/ \E c \in Conns : Client(c)

\* The scheduler runs main.  Once the server stops, every connection ends: that is
\* what Transport's ShutdownTerminates says of the gateway.
Fairness ==
  /\ WF_vars(MainStep)
  /\ \A c \in Conns : WF_vars(phase = "stopping" /\ Client(c))

Spec == Init /\ [][Next]_vars /\ Fairness

-----------------------------------------------------------------------------
(* Properties                                                               *)

\* A connection is served by a complete runtime: every message of the mode has its
\* handler, no message passes without Auth, production limits rates, payment is off,
\* and the stores are open as long as a connection lives (main closes them after it).
\* A background insert finds MySQL closed only when the gateway is drained.
ServedWithEverything ==
  /\ phase = "running" \/ live # {} =>
       /\ routes = {Registrations(config["development"])[i] :
                      i \in DOMAIN Registrations(config["development"])}
       /\ ~config["development"] => routes = canonicalRoutes
       /\ "CombatResult" \in routes /\ "GetPlayerStats" \in routes
       /\ hooks # <<>> /\ Head(hooks) = "Auth"
       /\ ~config["payment"]
       /\ ~config["development"] => mysql = "open" /\ redis = "open" /\ Len(hooks) = 2
  /\ missed => phase = "stopped" /\ live = {}

\* However the process ends by itself, nobody is being served then.  The three ways that
\* close what they opened leave no store and no log file open: a configuration or a
\* runtime that cannot be had, and a signal.  A failing listener does not: its goroutine
\* ends the process with zap's Fatal after it has drained the gateway, and leaves stores
\* and log file to the system.  A start with payment enabled opens no store (the test at
\* main_test.go 214 looks at its error only), and a failing Redis closes MySQL.
CleanExit ==
  /\ exit \notin {"running", "killed"} => live = {} /\ phase \in {"new", "stopped"}
  /\ exit \in {"config", "init", "clean"} =>
       mysql # "open" /\ redis # "open" /\ handle = {}
  /\ exit = "clean" => "main" \in back
  /\ exit = "fatal" => "boot" \in back
  /\ config["payment"] => mysql = "absent" /\ redis = "absent"

\* What closes in which order, also when the listener fails while a signal arrives and
\* main finds its Shutdown under way: a store that was open closes when Redis could not
\* be had, or when the gateway is drained and Shutdown has returned to main itself; and
\* the log file closes when no store is open any more.
ClosesInOrder ==
  [][/\ \/ mysql = "open" /\ mysql' # "open"
        \/ redis = "open" /\ redis' # "open"
          => main = "redis" \/ (phase = "stopped" /\ live = {} /\ "main" \in back)
     /\ handle \ handle' # {} => mysql # "open" /\ redis # "open"]_vars

\* Whoever logs, a file is open only while lines go to it: see Logger.
LogFileReleased == L!OnlyCurrentOpen

\* A signal that main waits for ends the process, also when Start fails at the same time.
SignalStops == (main = "wait" /\ quit) ~> exit # "running"

=============================================================================
