--------------------------- MODULE ProcessProofs ---------------------------
(***************************************************************************)
(* The process of cmd/server, for any number of clients, log files and     *)
(* goroutines that log: what is served is served by a complete runtime,    *)
(* the stores close after the gateway and the log file after them, and no  *)
(* late line opens a log file again.  The invariant says what holds at     *)
(* each place of main.                                                     *)
(***************************************************************************)
EXTENDS Process, TLAPS

\* Where main is when the gateway may run, when the runtime is complete with its stores
\* open, and when Shutdown has returned to main.
Up      == {"notify", "wait", "unnotify", "stop"}
Ready   == {"start", "drain"} \union Up
Closing == {"close", "closelog", "end"}

Mode == config["development"]

Registered(development) ==
  {Registrations(development)[i] : i \in DOMAIN Registrations(development)}

\* What newRuntime has composed.
RuntimeInv ==
  main \in Ready \union Closing =>
    routes = Registered(Mode) /\ hooks = Hooks(Mode) /\ ~config["payment"]

StoreInv ==
  /\ main \in {"load", "log", "compose", "mysql"} => mysql = "absent" /\ redis = "absent"
  /\ main = "redis" => mysql = "open" /\ redis = "absent"
  /\ main \in {"mysql", "redis"} => ~Mode
  /\ main \in {"mysql", "redis", "register"} => ~config["payment"]
  /\ main \in {"register"} \union Ready /\ ~Mode => mysql = "open" /\ redis = "open"
  /\ main \in {"abort", "closelog", "end"} => mysql # "open" /\ redis # "open"
  /\ config["payment"] \/ Mode => mysql = "absent" /\ redis = "absent"

\* How far the gateway can be when main is there.
GateInv ==
  /\ main \notin Up \union {"drain"} \union Closing => phase = "new" /\ boot = "none"
  /\ main = "drain" => phase \in {"stopping", "stopped"}
  /\ main \in Closing => phase = "stopped" /\ "main" \in back
  /\ boot \in {"failing", "closing"} => phase \in {"stopping", "stopped"}
  /\ boot = "failed" => phase = "stopped" /\ "boot" \in back
  /\ phase \in {"new", "stopped"} => live = {}

\* The background inserts are of production, and miss MySQL only when main closes it.
InsertInv ==
  /\ inserts > 0 => ~Mode /\ main \in Up \union {"drain"} \union Closing
  /\ missed => main \in Closing

\* Where a process is that has ended, and its logger before Init and after Close.
ExitInv ==
  /\ exit = "config" => main = "load"
  /\ exit = "panic" => main = "register"
  /\ exit = "init" => main = "abort" /\ global = L!Nop
  /\ exit = "fatal" => boot = "failed"
  /\ exit = "clean" => main = "end"
  /\ main \in {"load", "end"} => global = L!Nop

\* A logger that a goroutine still holds writes to the current file or to a closed one.
LogInv ==
  /\ L!OnlyCurrentOpen
  /\ restore = L!Off => zapL = L!Nop
  /\ \A w \in Writers : taken[w] \in Files => taken[w] \in closed \union {global}

Inv == TypeOK /\ RuntimeInv /\ StoreInv /\ GateInv /\ InsertInv /\ ExitInv /\ LogInv

-----------------------------------------------------------------------------
(* What main registers                                                       *)

Elements(s) == {s[i] : i \in DOMAIN s}

\* The elements of a concatenation.
LEMMA ElementsOfConcat ==
  ASSUME NEW S, NEW s \in Seq(S), NEW t \in Seq(S)
  PROVE  /\ s \o t \in Seq(S)
         /\ Elements(s \o t) = Elements(s) \union Elements(t)
<1>1. s \o t \in Seq(S)
  OBVIOUS
<1>2. \A i \in DOMAIN (s \o t) : (s \o t)[i] \in Elements(s) \union Elements(t)
  <2>1. TAKE i \in DOMAIN (s \o t)
  <2>2. CASE i <= Len(s)
    BY <2>2 DEF Elements
  <2>3. CASE i > Len(s)
    <3>1. i - Len(s) \in DOMAIN t /\ (s \o t)[i] = t[i - Len(s)]
      BY <2>3
    <3> QED
      BY <3>1 DEF Elements
  <2> QED
    BY <2>2, <2>3
<1>3. \A i \in DOMAIN s : s[i] \in Elements(s \o t)
  <2>1. TAKE i \in DOMAIN s
  <2>2. i \in DOMAIN (s \o t) /\ (s \o t)[i] = s[i]
    OBVIOUS
  <2> QED
    BY <2>2 DEF Elements
<1>4. \A i \in DOMAIN t : t[i] \in Elements(s \o t)
  <2>1. TAKE i \in DOMAIN t
  <2>2. i + Len(s) \in DOMAIN (s \o t) /\ (s \o t)[i + Len(s)] = t[i]
    OBVIOUS
  <2> QED
    BY <2>2 DEF Elements
<1> QED
  BY <1>1, <1>2, <1>3, <1>4 DEF Elements

\* Production has a handler for every route, development for some, among them no
\* SubmitScore.
LEMMA Registering ==
  /\ Registered(FALSE) = canonicalRoutes
  /\ Registered(TRUE) \subseteq canonicalRoutes
  /\ \A d \in BOOLEAN : {"CombatResult", "GetPlayerStats"} \subseteq Registered(d)
  /\ "SubmitScore" \notin Registered(TRUE)
<1> DEFINE Both == <<"CreateOrder">> \o OnlineSession
           Dev  == <<"CombatResult", "GetPlayerStats">>
           Prod == <<"GetRank", "SubmitScore", "CombatResult", "GetEnemyConfigs",
                     "GetDungeonConfig", "GetStyleConfigs", "UnlockStyle",
                     "GetPlayerStats", "UpdatePlayerStats", "GMCommand">>
<1>0. \A s, t \in Seq(canonicalRoutes) :
        /\ s \o t \in Seq(canonicalRoutes)
        /\ Elements(s \o t) = Elements(s) \union Elements(t)
  BY ElementsOfConcat
<1>1. /\ <<"CreateOrder">> \in Seq(canonicalRoutes)
      /\ Elements(<<"CreateOrder">>) = {"CreateOrder"}
  BY DEF canonicalRoutes, Elements
<1>2. OnlineSession \in Seq(canonicalRoutes)
  BY DEF canonicalRoutes, OnlineSession
<1>3. Elements(OnlineSession) = {"Login", "Heartbeat", "SaveArchive", "LoadArchive"}
  BY DEF Elements, OnlineSession
<1>4. Dev \in Seq(canonicalRoutes)
  BY DEF canonicalRoutes
<1>5. Elements(Dev) = {"CombatResult", "GetPlayerStats"}
  BY DEF Elements
<1>6. Prod \in Seq(canonicalRoutes)
  BY DEF canonicalRoutes
<1>7. Elements(Prod) = {"GetRank", "SubmitScore", "CombatResult", "GetEnemyConfigs",
                        "GetDungeonConfig", "GetStyleConfigs", "UnlockStyle",
                        "GetPlayerStats", "UpdatePlayerStats", "GMCommand"}
  BY DEF Elements
<1>8. /\ Both \in Seq(canonicalRoutes)
      /\ Elements(Both) = {"CreateOrder", "Login", "Heartbeat", "SaveArchive", "LoadArchive"}
  <2>1. /\ Both \in Seq(canonicalRoutes)
        /\ Elements(Both) = Elements(<<"CreateOrder">>) \union Elements(OnlineSession)
    BY <1>0, <1>1, <1>2, Zenon
  <2> QED
    BY <2>1, <1>1, <1>3
<1>9. Registered(FALSE) = Elements(Both) \union Elements(Prod)
  <2>1. Registrations(FALSE) = Both \o Prod
    BY DEF Registrations
  <2>2. Registered(FALSE) = Elements(Registrations(FALSE))
    BY DEF Registered, Elements
  <2> HIDE DEF Both, Prod
  <2> QED
    BY <2>1, <2>2, <1>0, <1>6, <1>8, Zenon
<1>10. Registered(TRUE) = Elements(Both) \union Elements(Dev)
  <2>1. Registrations(TRUE) = Both \o Dev
    BY DEF Registrations
  <2>2. Registered(TRUE) = Elements(Registrations(TRUE))
    BY DEF Registered, Elements
  <2> HIDE DEF Both, Dev
  <2> QED
    BY <2>1, <2>2, <1>0, <1>4, <1>8, Zenon
<1> HIDE DEF Both, Dev, Prod
<1> QED
  BY <1>5, <1>7, <1>8, <1>9, <1>10 DEF canonicalRoutes

-----------------------------------------------------------------------------
(* The logger                                                                *)

\* Only these steps touch the logger.
LEMMA LoggerSteps ==
  ASSUME [Next]_vars
  PROVE  InitLogger \/ Abort \/ CloseLogger \/ Log \/ UNCHANGED loggerVars
BY DEF Next, MainStep, BootStep, Load, Compose, OpenMySQL, OpenRedis, RegisterRoutes,
       StartServer, Notify, SignalReceived, StopNotify, CallShutdown, Drained, CloseRedis,
       CloseMySQL, MainReturns, ServerStarts, ServeReturns, StartReturns, StartFatal, Signal,
       SubmitScore, CreateScoreRecord, Client, vars

\* Init puts a new logger in the place of both globals, and closes the old file.
LEMMA ConfigureStep ==
  ASSUME L!TypeOK, LogInv, NEW new, L!Configure(new)
  PROVE  L!TypeOK' /\ LogInv'
<1> USE FilesAssumption DEF L!Nop, L!Con, L!Off, L!Loggers
<1>1. /\ new \in Files \union {L!Con}
      /\ new \in Files => new \notin closed \union {global}
      /\ global' = new /\ zapL' = new /\ taken' = taken
      /\ closed' = closed \union ({global} \intersect Files)
      /\ handle' = handle \ ({global} \intersect Files)
      /\ restore' = IF restore = L!Off THEN zapL ELSE restore
  BY DEF L!Configure, L!CloseFile
<1>2. L!TypeOK'
  <2>1. restore' \in {L!Off, L!Nop}
    BY <1>1 DEF L!TypeOK, LogInv
  <2> QED
    BY <1>1, <2>1 DEF L!TypeOK
<1>3. L!OnlyCurrentOpen'
  BY <1>1 DEF L!TypeOK, LogInv, L!OnlyCurrentOpen
<1>4. \A w \in Writers : taken'[w] \in Files => taken'[w] \in closed' \union {global'}
  BY <1>1 DEF L!TypeOK, LogInv
<1> QED
  BY <1>1, <1>2, <1>3, <1>4 DEF L!TypeOK, LogInv

\* Close puts back what zap had, and closes the file.
LEMMA CloseStep ==
  ASSUME L!TypeOK, LogInv, L!Close
  PROVE  L!TypeOK' /\ LogInv' /\ global' = L!Nop
<1> USE FilesAssumption DEF L!Nop, L!Con, L!Off, L!Loggers
<1>1. /\ global' = L!Nop /\ taken' = taken /\ restore' = L!Off
      /\ closed' = closed \union ({global} \intersect Files)
      /\ handle' = handle \ ({global} \intersect Files)
      /\ zapL' = IF restore = L!Off THEN zapL ELSE restore
  BY DEF L!Close, L!CloseFile
<1>2. zapL' = L!Nop
  BY <1>1 DEF L!TypeOK, LogInv
<1>3. L!TypeOK'
  BY <1>1, <1>2 DEF L!TypeOK
<1>4. L!OnlyCurrentOpen'
  BY <1>1, <1>2 DEF L!TypeOK, LogInv, L!OnlyCurrentOpen
<1>5. \A w \in Writers : taken'[w] \in Files => taken'[w] \in closed' \union {global'}
  BY <1>1 DEF L!TypeOK, LogInv
<1> QED
  BY <1>1, <1>2, <1>3, <1>4, <1>5 DEF LogInv

\* Whoever writes, and with whatever logger, only the current file can be opened.
LEMMA WriteStep ==
  ASSUME L!TypeOK, LogInv, Log
  PROVE  L!TypeOK' /\ LogInv' /\ global' = global
<1> USE FilesAssumption DEF L!Nop, L!Con, L!Off, L!Loggers
<1>1. ASSUME NEW logger \in {global, zapL}, L!WriteNow(logger)
      PROVE  L!TypeOK' /\ LogInv' /\ global' = global
  BY <1>1 DEF L!WriteNow, L!Write, L!TypeOK, LogInv, L!OnlyCurrentOpen
<1>2. ASSUME NEW w \in Writers, L!Take(w)
      PROVE  L!TypeOK' /\ LogInv' /\ global' = global
  BY <1>2 DEF L!Take, L!TypeOK, LogInv, L!OnlyCurrentOpen
<1>3. ASSUME NEW w \in Writers, L!WriteTaken(w)
      PROVE  L!TypeOK' /\ LogInv' /\ global' = global
  <2>1. taken[w] \in Files => taken[w] \in closed \union {global}
    BY DEF LogInv
  <2> QED
    BY <1>3, <2>1 DEF L!WriteTaken, L!Write, L!TypeOK, LogInv, L!OnlyCurrentOpen
<1> QED
  BY <1>1, <1>2, <1>3 DEF Log

\* The logger's part of the invariant.
LEMMA LogStep ==
  ASSUME L!TypeOK, LogInv, [Next]_vars
  PROVE  L!TypeOK' /\ LogInv'
<1>1. CASE InitLogger
  <2>1. \E new : L!Configure(new)
    BY <1>1 DEF InitLogger
  <2> QED
    BY <2>1, ConfigureStep
<1>2. CASE Abort \/ CloseLogger
  <2>1. L!Close
    BY <1>2 DEF Abort, CloseLogger
  <2> QED
    BY <2>1, CloseStep
<1>3. CASE Log
  BY <1>3, WriteStep
<1>4. CASE UNCHANGED loggerVars
  BY <1>4 DEF loggerVars, L!TypeOK, LogInv, L!OnlyCurrentOpen
<1> QED
  BY <1>1, <1>2, <1>3, <1>4, LoggerSteps

-----------------------------------------------------------------------------
(* Types                                                                     *)

\* The messages that main registers have routes; a connection is one of Conns.
LEMMA TypeStep ==
  ASSUME Inv, [Next]_vars
  PROVE  TypeOK'
<1> USE InsertsAssumption
<1> USE DEF TypeOK, G!TypeOK, At, Goto, Exit, BootGoto, mainVars, setupVars, storeVars,
            gatewayVars, Threads
<1>0. TypeOK /\ L!TypeOK'
  BY LogStep DEF Inv
<1>1. CASE Load
  <2>1. ASSUME NEW file \in Partial, NEW env \in Partial
        PROVE  Effective(file, env) \in [Settings -> BOOLEAN]
    <3>1. /\ \A t \in DOMAIN file : file[t] \in BOOLEAN
          /\ \A t \in DOMAIN env : env[t] \in BOOLEAN
      <4>1. PICK S \in SUBSET Settings : file \in [S -> BOOLEAN]
        BY DEF Partial
      <4>2. PICK S2 \in SUBSET Settings : env \in [S2 -> BOOLEAN]
        BY DEF Partial
      <4> QED
        BY <4>1, <4>2
    <3>2. \A t \in Settings : (IF t \notin DOMAIN file THEN FALSE
                             ELSE IF t \in DOMAIN env THEN env[t] ELSE file[t]) \in BOOLEAN
      BY <3>1, Zenon
    <3> QED
      BY <3>2, Zenon DEF Effective
  <2>2. config' \in [Settings -> BOOLEAN]
    BY <1>0, <1>1, <2>1, ZenonT(30) DEF Load
  <2> QED
    BY <1>0, <1>1, <2>2 DEF Load
<1>2. CASE InitLogger
  BY <1>0, <1>2 DEF InitLogger
<1>3. CASE Compose
  BY <1>0, <1>3 DEF Compose
<1>4. CASE OpenMySQL
  BY <1>0, <1>4 DEF OpenMySQL
<1>5. CASE OpenRedis
  BY <1>0, <1>5 DEF OpenRedis
<1>6. CASE RegisterRoutes
  <2>1. Mode \in BOOLEAN
    BY <1>0 DEF Mode, Settings
  <2>2. routes' \subseteq canonicalRoutes
    <3>1. routes' = Registered(Mode) \/ routes' = routes
      BY <1>6, Zenon DEF RegisterRoutes, Registered, Mode
    <3>2. CASE Mode = TRUE
      BY <1>0, <3>1, <3>2, Registering
    <3>3. CASE Mode = FALSE
      BY <1>0, <3>1, <3>3, Registering
    <3> QED
      BY <2>1, <3>2, <3>3, Zenon
  <2>3. hooks' \in {<<>>, <<"Auth">>, <<"Auth", "RateLimit">>}
    BY <1>0, <1>6 DEF RegisterRoutes, Hooks
  <2>4. main' \in {"register", "start"} /\ boot' = boot /\ exit' \in {"running", "panic"}
    BY <1>6 DEF RegisterRoutes
  <2>5. UNCHANGED <<quit, config, storeVars, gatewayVars>>
    BY <1>6 DEF RegisterRoutes
  <2> QED
    BY <1>0, <2>2, <2>3, <2>4, <2>5
<1>7. CASE Abort
  BY <1>0, <1>7 DEF Abort
<1>8. CASE StartServer
  BY <1>0, <1>8 DEF StartServer
<1>9. CASE Notify
  BY <1>0, <1>9 DEF Notify
<1>10. CASE SignalReceived
  BY ZenonT(40), <1>0, <1>10 DEF SignalReceived
<1>11. CASE StopNotify
  BY <1>0, <1>11 DEF StopNotify
<1>12. CASE CallShutdown
  BY ZenonT(40), <1>0, <1>12 DEF CallShutdown, BeginShutdown, G!Stop
<1>13. CASE Drained
  BY ZenonT(40), <1>0, <1>13 DEF Drained, ShutdownReturns, G!Finish, G!Return
<1>14. CASE CloseRedis
  BY <1>0, <1>14 DEF CloseRedis
<1>15. CASE CloseMySQL
  BY <1>0, <1>15 DEF CloseMySQL
<1>16. CASE CloseLogger
  BY <1>0, <1>16 DEF CloseLogger
<1>17. CASE MainReturns
  BY <1>0, <1>17 DEF MainReturns
<1>18. CASE ServerStarts
  BY <1>0, <1>18 DEF ServerStarts, G!Start
<1>19. CASE ServeReturns
  BY <1>0, <1>19 DEF ServeReturns, BeginShutdown, G!Stop
<1>20. CASE StartReturns
  <2>1. G!TypeOK'
    BY <1>0, <1>20 DEF StartReturns, ShutdownReturns, G!Finish, G!Return
  <2>2. boot' \in {"failed", "gone"} /\ UNCHANGED <<main, exit, quit, setupVars, storeVars>>
    BY <1>20 DEF StartReturns
  <2> HIDE DEF G!TypeOK
  <2> QED
    BY <1>0, <2>1, <2>2
<1>21. CASE StartFatal
  BY <1>0, <1>21 DEF StartFatal
<1>22. CASE Signal
  <2>1. /\ main' = main /\ boot' = boot /\ exit' \in {exit, "killed"}
        /\ quit' \in BOOLEAN /\ UNCHANGED <<setupVars, storeVars, gatewayVars>>
    BY <1>0, <1>22 DEF Signal
  <2> QED
    BY <1>0, <2>1
<1>23. CASE SubmitScore
  BY <1>0, <1>23 DEF SubmitScore
<1>24. CASE CreateScoreRecord
  BY <1>0, <1>24 DEF CreateScoreRecord
<1>25. CASE Log
  BY <1>0, <1>25 DEF Log
<1>26. ASSUME NEW c \in Conns, Client(c) PROVE TypeOK'
  <2>1. G!TypeOK'
    BY <1>0, <1>26 DEF Client, G!Admit, G!Release
  <2>2. UNCHANGED <<mainVars, setupVars, storeVars>>
    BY <1>26 DEF Client
  <2> HIDE DEF G!TypeOK
  <2> QED
    BY <1>0, <2>1, <2>2
<1>27. CASE UNCHANGED vars
  BY <1>0, <1>27 DEF vars
<1> QED
  BY <1>1, <1>2, <1>3, <1>4, <1>5, <1>6, <1>7, <1>8, <1>9, <1>10, <1>11, <1>12, <1>13, <1>14, <1>15, <1>16, <1>17, <1>18, <1>19, <1>20, <1>21, <1>22, <1>23, <1>24, <1>25, <1>26, <1>27
     DEF Next, MainStep, BootStep

-----------------------------------------------------------------------------
(* What holds at each place of main                                          *)

Places == RuntimeInv /\ StoreInv /\ GateInv /\ InsertInv /\ ExitInv

\* The steps of main.
LEMMA MainKeepsPlaces ==
  ASSUME Inv, MainStep
  PROVE  Places'
<1> USE DEF Places, RuntimeInv, StoreInv, GateInv, InsertInv, ExitInv, Mode, Up, Ready, Closing,
            At, Goto, Exit, mainVars, setupVars, storeVars, gatewayVars, loggerVars
<1>0. TypeOK /\ L!TypeOK /\ LogInv /\ Places
  BY DEF Inv, TypeOK
<1>1. CASE Load
  BY <1>0, <1>1 DEF Load
<1>2. CASE InitLogger
  BY <1>0, <1>2 DEF InitLogger
<1>3. CASE Compose
  BY <1>0, <1>3 DEF Compose
<1>4. CASE OpenMySQL
  BY <1>0, <1>4 DEF OpenMySQL
<1>5. CASE OpenRedis
  BY <1>0, <1>5 DEF OpenRedis
<1>6. CASE RegisterRoutes
  BY <1>0, <1>6 DEF RegisterRoutes, Registered
<1>7. CASE Abort
  BY <1>0, <1>7, CloseStep DEF Abort
<1>8. CASE StartServer
  BY <1>0, <1>8 DEF StartServer
<1>9. CASE Notify
  BY <1>0, <1>9 DEF Notify
<1>10. CASE SignalReceived
  BY <1>0, <1>10 DEF SignalReceived
<1>11. CASE StopNotify
  BY <1>0, <1>11 DEF StopNotify
<1>12. CASE CallShutdown
  BY <1>0, <1>12 DEF CallShutdown, BeginShutdown, G!Stop
<1>13. CASE Drained
  BY <1>0, <1>13 DEF Drained, ShutdownReturns, G!Finish, G!Return
<1>14. CASE CloseRedis
  BY <1>0, <1>14 DEF CloseRedis
<1>15. CASE CloseMySQL
  BY <1>0, <1>15 DEF CloseMySQL
<1>16. CASE CloseLogger
  BY <1>0, <1>16, CloseStep DEF CloseLogger
<1>17. CASE MainReturns
  BY <1>0, <1>17 DEF MainReturns
<1> QED
  BY <1>1, <1>2, <1>3, <1>4, <1>5, <1>6, <1>7, <1>8, <1>9, <1>10, <1>11, <1>12, <1>13, <1>14, <1>15, <1>16, <1>17
     DEF MainStep

\* The steps of everybody else.
LEMMA OthersKeepPlaces ==
  ASSUME Inv, [Next]_vars, ~MainStep
  PROVE  Places'
<1> USE DEF Places, RuntimeInv, StoreInv, GateInv, InsertInv, ExitInv, Mode, Up, Ready, Closing,
            At, Goto, Exit, BootGoto, mainVars, setupVars, storeVars, gatewayVars, loggerVars
<1>0. TypeOK /\ L!TypeOK /\ G!TypeOK /\ LogInv /\ Places /\ inserts \in Nat
  BY InsertsAssumption DEF Inv, TypeOK
<1>1. CASE ServerStarts
  BY <1>0, <1>1 DEF ServerStarts, G!Start
<1>2. CASE ServeReturns
  BY <1>0, <1>2 DEF ServeReturns, BeginShutdown, G!Stop
<1>3. CASE StartReturns
  BY <1>0, <1>3 DEF StartReturns, ShutdownReturns, G!Finish, G!Return
<1>4. CASE StartFatal
  BY <1>0, <1>4 DEF StartFatal
<1>5. CASE Signal
  BY <1>0, <1>5 DEF Signal
<1>6. CASE SubmitScore
  BY <1>0, <1>6, Registering DEF SubmitScore
<1>7. CASE CreateScoreRecord
  BY <1>0, <1>7 DEF CreateScoreRecord
<1>8. CASE Log
  BY <1>0, <1>8, WriteStep DEF Log
<1>9. ASSUME NEW c \in Conns, Client(c) PROVE Places'
  BY <1>0, <1>9 DEF Client, G!Admit, G!Release
<1>10. CASE UNCHANGED vars
  BY <1>0, <1>10 DEF vars
<1> QED
  BY <1>1, <1>2, <1>3, <1>4, <1>5, <1>6, <1>7, <1>8, <1>9, <1>10 DEF Next, BootStep

-----------------------------------------------------------------------------
\* The invariant, for any clients, files, goroutines and failures of the start.
THEOREM Invariance == Spec => []Inv
<1>1. Init => Inv
  <2>1. SUFFICES ASSUME Init PROVE Inv
    OBVIOUS
  <2>2. G!TypeOK
    BY <2>1 DEF Init, G!Init, G!TypeOK
  <2>3. L!TypeOK /\ LogInv
    BY <2>1, FilesAssumption
       DEF Init, L!Init, L!TypeOK, L!Loggers, L!Nop, L!Off, L!Con, LogInv, L!OnlyCurrentOpen
  <2>4. TypeOK
    <3>1. config \in [Settings -> BOOLEAN]
      BY <2>1, Zenon DEF Init
    <3>2. inserts \in 0..MaxInserts
      BY <2>1, InsertsAssumption DEF Init
    <3> QED
      BY <2>1, <2>2, <2>3, <3>1, <3>2, Zenon DEF Init, TypeOK
  <2>5. Places
    BY <2>1 DEF Init, G!Init, L!Init, Places, RuntimeInv, StoreInv, GateInv, InsertInv, ExitInv,
                Mode, Up, Ready, Closing, Settings
  <2> QED
    BY <2>3, <2>4, <2>5 DEF Inv, Places
<1>2. Inv /\ [Next]_vars => Inv'
  <2>1. SUFFICES ASSUME Inv, [Next]_vars PROVE Inv'
    OBVIOUS
  <2>2. Places'
    BY <2>1, MainKeepsPlaces, OthersKeepPlaces
  <2>3. TypeOK' /\ LogInv'
    BY <2>1, TypeStep, LogStep DEF Inv, TypeOK
  <2> QED
    BY <2>2, <2>3 DEF Inv, Places
<1> QED
  BY <1>1, <1>2, PTL DEF Spec

\* Every variable keeps its type; in particular no record is counted out twice.
THEOREM TypeCorrect == Spec => []TypeOK
<1>1. Inv => TypeOK
  BY DEF Inv
<1> QED
  BY <1>1, Invariance, PTL

\* A connection is served by a complete runtime with open stores.
THEOREM RuntimeIsComplete == Spec => []ServedWithEverything
<1>1. Inv => ServedWithEverything
  <2>1. SUFFICES ASSUME Inv PROVE ServedWithEverything
    OBVIOUS
  <2>2. config["development"] \in BOOLEAN
    BY <2>1 DEF Inv, TypeOK, Settings
  <2>3. ASSUME phase = "running" \/ live # {}
        PROVE  main \in Up \union {"drain"}
    BY <2>1, <2>3 DEF Inv, GateInv
  <2>4. ASSUME main \in Up \union {"drain"}
        PROVE  /\ routes = Registered(Mode) /\ hooks = Hooks(Mode) /\ ~config["payment"]
               /\ ~Mode => mysql = "open" /\ redis = "open"
    BY <2>1, <2>4 DEF Inv, RuntimeInv, StoreInv, Ready
  <2>5. missed => phase = "stopped" /\ live = {}
    BY <2>1 DEF Inv, InsertInv, GateInv
  <2>6. ~Mode => Registered(Mode) = canonicalRoutes
    BY <2>2, Registering DEF Mode
  <2>7. "CombatResult" \in Registered(Mode) /\ "GetPlayerStats" \in Registered(Mode)
    BY <2>2, Registering DEF Mode
  <2>8. Hooks(Mode) # <<>> /\ Head(Hooks(Mode)) = "Auth" /\ (~Mode => Len(Hooks(Mode)) = 2)
    BY <2>2 DEF Mode, Hooks
  <2> QED
    BY <2>3, <2>4, <2>5, <2>6, <2>7, <2>8 DEF ServedWithEverything, Registered, Mode
<1> QED
  BY <1>1, Invariance, PTL

\* Nobody is being served when the process ends by itself, and an end that closes what
\* was opened leaves no store and no log file open, at whatever step the start failed.
THEOREM ExitsAreClean == Spec => []CleanExit
<1>1. Inv => CleanExit
  <2>1. SUFFICES ASSUME Inv PROVE CleanExit
    OBVIOUS
  <2>2. exit \in {"config", "init", "clean"} => handle = {}
    BY <2>1, FilesAssumption
       DEF Inv, ExitInv, LogInv, L!OnlyCurrentOpen, TypeOK, L!TypeOK, L!Nop
  <2>3. exit \in {"config", "init", "clean"} => mysql # "open" /\ redis # "open"
    BY <2>1 DEF Inv, ExitInv, StoreInv
  <2>4. /\ exit \notin {"running", "killed"} => live = {} /\ phase \in {"new", "stopped"}
        /\ exit = "clean" => "main" \in back
        /\ exit = "fatal" => "boot" \in back
    BY <2>1 DEF Inv, ExitInv, GateInv, Closing, Up, TypeOK
  <2>5. config["payment"] => mysql = "absent" /\ redis = "absent"
    BY <2>1 DEF Inv, StoreInv
  <2> QED
    BY <2>2, <2>3, <2>4, <2>5 DEF CleanExit
<1> QED
  BY <1>1, Invariance, PTL

\* Only these steps change a store.
LEMMA StoreSteps ==
  ASSUME [Next]_vars
  PROVE  OpenMySQL \/ OpenRedis \/ CloseRedis \/ CloseMySQL \/ UNCHANGED <<mysql, redis>>
BY DEF Next, MainStep, BootStep, Load, InitLogger, Compose, RegisterRoutes, Abort, StartServer,
       Notify, SignalReceived, StopNotify, CallShutdown, Drained, CloseLogger, MainReturns,
       ServerStarts, ServeReturns, StartReturns, StartFatal, Signal, SubmitScore,
       CreateScoreRecord, Log, Client, vars, storeVars

\* A store that served connections closes after all of them and after Shutdown has
\* returned to main, and the log file closes after the stores.
THEOREM StoresCloseAfterGateway == Spec => ClosesInOrder
<1> DEFINE Store == \/ mysql = "open" /\ mysql' # "open"
                    \/ redis = "open" /\ redis' # "open"
           File  == handle \ handle' # {}
<1>1. ASSUME Inv, [Next]_vars, Store
      PROVE  main = "redis" \/ (phase = "stopped" /\ live = {} /\ "main" \in back)
  <2>1. main \in {"mysql", "redis", "close"}
    BY <1>1, StoreSteps DEF OpenMySQL, OpenRedis, CloseRedis, CloseMySQL, At
  <2>2. main # "mysql"
    BY <1>1 DEF Inv, StoreInv
  <2>3. main = "close" => phase = "stopped" /\ live = {} /\ "main" \in back
    BY <1>1 DEF Inv, GateInv, Closing
  <2> QED
    BY <2>1, <2>2, <2>3
<1>2. ASSUME Inv, [Next]_vars, File
      PROVE  mysql # "open" /\ redis # "open"
  <2>1. ~ UNCHANGED loggerVars
    BY <1>2 DEF loggerVars
  <2>2. ~ Log
    <3>1. SUFFICES ASSUME Log PROVE FALSE
      OBVIOUS
    <3>2. handle \subseteq handle'
      BY <3>1 DEF Log, L!WriteNow, L!WriteTaken, L!Take, L!Write
    <3> QED
      BY <1>2, <3>2
  <2>3. main \in {"log", "abort", "closelog"}
    BY <2>1, <2>2, <1>2, LoggerSteps DEF InitLogger, Abort, CloseLogger, At
  <2> QED
    BY <1>2, <2>3 DEF Inv, StoreInv
<1>3. Inv /\ [Next]_vars => [(Store => main = "redis" \/ (phase = "stopped" /\ live = {} /\ "main" \in back))
                             /\ (File => mysql # "open" /\ redis # "open")]_vars
  BY <1>1, <1>2
<1> QED
  BY <1>3, Invariance, PTL DEF Spec, ClosesInOrder

\* No late line opens a log file that was closed.
THEOREM LogFilesStayClosed == Spec => []LogFileReleased
<1>1. Inv => LogFileReleased
  BY DEF Inv, LogInv, LogFileReleased
<1> QED
  BY <1>1, Invariance, PTL

=============================================================================
