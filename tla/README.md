# Verification of game-server-go

This directory holds TLA+ models of the game server in `src/`, the TLC
configurations that check them on small instances, and TLAPS proofs of the
results that hold for every instance. `PROJECT.json` lists the runs, the
properties, which lines each definition translates, and the hazards the
properties are for.

## 1. The system

A WebSocket game server: clients send protobuf requests in binary frames, one
goroutine per connection reads and dispatches them, handlers work on MySQL
and Redis (or on one in-memory store in development), and replies and pushes
leave through a bounded queue per connection.

| Component | State it keeps | Operations | Hard behaviour | What makes it correct |
|---|---|---|---|---|
| transport gateway (`internal/transport`) | server state, WaitGroup of reservations, hub map and channels, `closed`/`done`/socket of each connection, send queue | Start, Shutdown, handleWebSocket, Register, Unregister, Broadcast, OnlineCount, readPump, writePump, stop | several callers of Shutdown, registrations and upgrades in flight, handlers that call the hub, three goroutines per connection | shutdown drains everything and ends; nothing is leaked or forgotten; nobody waits for ever |
| combat settlement (`internal/store/*settlement*.go`, `combat.CombatResult`) | `combat_settlements`, `player_archives`, `player_stats`, `score_records` | Settle (one transaction), UpdateRank after it | retries, concurrent requests of a player, statement failures, lost COMMIT answers, crashes | each run is rewarded once and every answer repeats the stored one; all tables or none; no overflow |
| combat handler (`internal/combat`) | the same rows, `player_styles` | UpdatePlayerStats, GetPlayerStats, UnlockStyle, configuration reads | read-modify-write without locks, several statements without a transaction | no lost update, no gold taken for nothing |
| game archive (`internal/game`) | `player_archives` | Save, Load | overwrites the row a settlement credits | a save and a settlement do not mix |
| kernel, pipeline, hooks, session (`internal/kernel`, ...) | handler table, uid of a connection, rate counters | Dispatch, Auth, RateLimit, Reply | replies dropped, pushes in between, limits across connections, Redis down | a reply per request with its seq, no protected handler without login |
| login (`internal/login`) | `players` row, Redis session | Login, Heartbeat | concurrent logins, heartbeat against login, second statement fails | one player per open id, newest token wins, sessions end |
| leaderboard (`internal/rank`) | Redis sorted set, `players.best_score`, `score_records` | SubmitScore, GetRank | three stores, a background insert, overwriting ZADD, logins that write rows back | the best score follows what is written, pages are right |
| development store (`memory_development.go`) | all of the above in maps | the repositories | one mutex | same promises as the MySQL store |
| process entry (`cmd/server`), configuration | the stores, the gateway, the routes and hooks | config.Load, newRuntime, main | a start that fails half way, a signal against a failing listener, goroutines that outlive their connection | a connection is served by a complete runtime; stores close after the gateway and the log file after them; main leaves nothing open |
| logger (`pkg/logger`) | the global logger, zap's global, the file | Init, Close, the logging functions | a line from a goroutine that outlives Close | a closed log file stays closed |
| development probe (`cmd/devprobe`) | its sequence number, the first answer | runProbe | other clients, a lost connection | its evidence is true |
| combat rules (`internal/combat/config.go`, `validator.go`) | none | validateCombatResult, GetDungeonConfig | float32, limits | no reward for an impossible run |
| GM, payment, codec, generated code | none that matters over time | | | |

Interactions. main runs `Server.Start` in a goroutine and calls
`Server.Shutdown` on a signal. `handleWebSocket` reserves the connection,
upgrades, registers with the hub and runs the two pumps. `readPump` calls
`kernel.Dispatch`, which calls the hooks (Redis) and the handler (MySQL, Redis,
or the hub for GM commands) in the read goroutine: requests of one connection
are sequential, those of different connections are not, and two connections may
belong to one player. Everything a handler sends goes through the
connection's queue to `writePump`.

## 2. Plan

In order of importance; all of it is done.

1. `Transport` - the life of the gateway. Every later module runs inside its read loop. `Gateway` is what it promises to main.
2. `SettleRules`, `SettleOnce`, `MySQLSettlement` - rewards, the one part where an error costs money: abstract promise, detailed transaction, refinement. `CombatRules` decides which runs may be settled.
3. `MemoryStore` - the development runtime as a second implementation of `SettleOnce` (atomic calls), so that both runtimes keep the same promise, with the index of its players under concurrent logins.
4. `Delivery` - frames, Dispatch with its hooks, the send queue and the writer: replies match requests, refusals have no effect, the rate counter ends.
5. `LoginSession`, `CodeExchange` - the exchange of a code, players' rows and Redis sessions under concurrent logins, heartbeats, SubmitScore's best score and expiry.
6. `Scores` - SubmitScore and CombatResult on the leaderboard, the background insert, the pages of GetRank, and the closing of the stores.
7. `Styles` - UnlockStyle, GetPlayerStats and UpdatePlayerStats: gold and player_styles.
8. `Process`, `Logger` - main in both modes, composed with what `Transport` promises about Shutdown and with the log file.
9. `Probe` - the development probe as a client of `MemoryStore`.

Which module uses which:

    Gateway <- Transport (implements)      Gateway, Logger <- Process
    SettleRules <- SettleOnce <- MySQLSettlement, MemoryStore (implement)
    CombatRules <- MySQLSettlement, MCProbe   CodeExchange <- LoginSession
    MemoryStore <- Probe

What would come next: the promise of `Delivery` towards the handlers as a module of its
own, so that the clients of `MySQLSettlement` could be composed with the frames they
send.

## 3. Modules

### Transport

One action is one step of one goroutine between two points where another can
observe it: a critical section of `Server.mu` or `Connection.mu`, a rendezvous on
one of the hub's unbuffered channels (a joint step of hub and caller), a close
of a channel, a return from a blocking call.

| Variables | Code |
|---|---|
| `state`, `httpSrv`, `once` | fields of `Server` |
| `listening`, `httpDown` | the listener, and `http.Server.Shutdown` having been called |
| `tpc` | each goroutine in Start or Shutdown, Shutdown being entered by CallShutdown or by ServeReturns with an error |
| `wg` | the WaitGroup `Server.connections` |
| `hub`, `hubArg`, `closeAll`, `members` | the hub's goroutine, the connection it just received from `unregister`, the two channels, the map |
| `pc`, `writer` | the HTTP handler that becomes `run()`, and `writePump` |
| `closed`, `closer`, `sockOpen` | `Connection.stop` in its two steps: the flag with `done`, then the socket |

The actions follow the code from `Accept` to `WriterExits` for a connection, and
from `StartServer` to `MarkStopped` for the server. A frame is abstracted to
`ReadFrame` and a handler to `CallHub`/`HandlerReturns`: a handler may call the hub
any number of times from the read loop. In `PushToUID`, `Broadcast` and
`OnlineCount` the hub sends without blocking (a full queue drops), hence it is
never waiting for a connection; this is what `HubServes` translates.

`Gateway` sees of all this the state of the server, the reservations that are held and
the callers to whom Shutdown has returned: connections come only while the server
runs, and Shutdown returns only when none is left. `GatewayPromise` maps
`HoldingConns` and `Returned` to them.

The test of `serverStopped` at the top of `Shutdown`'s once (server.go:145-148) is
never true inside the once and has no action.

### CombatRules

Pure: the tables of `config.go` and `validateCombatResult`, with the numbers of the
code. The density of a dungeon is a float32; it is modelled exactly, as a
multiple of the last place, and so is the product that caps the kills. What a
request says is kept as far as the validation tells it apart (a run id that is
`"blank"`, a survival time that was `"played"`). In `MySQLSettlement` clients send
`Results`, any set of whole requests, valid and invalid; `Requests` are those that the
handler's validation lets pass, cut down to what the settlement uses of them.
`MCSettlement` gives the results of its clients; `MCProbe` hands those that the rules
accept to the development store.

### SettleRules, SettleOnce, MySQLSettlement

`SettleRules` is `settleArchive`: a credit and what it answers. The archive has a
field for each kind of column: `gold` for the int32 amounts, `kills` and `games` for the
int64 totals, `best` for the maxima (the highest cleared dungeon, which only a victory
raises, is one of them; that condition is left out). A client saves its own archive and
no field of it is checked, so `Archives` holds every value a column can, also negative
ones; `KillsRoom` is the subtraction of settlement.go 33 with its wrap-around for a
negative total. `SettleOnce` is what the repository promises:
`Settle` credits the archive as it is at that moment and stores the response,
`Answer` repeats the stored response and only once says that it is fresh, `Save`
is the client's own archive.

`MySQLSettlement` is `CombatResult` and the transaction statement by statement, on
connections of which several may belong to one player, with `game.Save` and
`UpdatePlayerStats` as the other writers of its rows, and `rank.SubmitScore` as the
other writer of the leaderboard. An entry of the leaderboard is its score together with
`runs`, the runs whose settlement wrote that score there (none after `SubmitScore`); Redis
keeps the score only. A client may send any request
at any time, so a retry, also one with another payload, is just another
`CombatResult`. `Abort` may happen at every statement (a failing statement, an InnoDB
deadlock victim, a lock wait timeout, a refused overflow, a failing COMMIT);
`Commit` has a second branch where the transaction is committed and the handler
sees an error; `Crash` ends all handlers. MySQL itself is external and appears as
row locks (`Locked`), gap locks on rows that are not there yet, and all-or-nothing
commits; two transactions that deadlock on gap locks are aborted by InnoDB, which
is `Abort`. The writes are held in `resp` and `row` and reach the tables with the
commit, which no other transaction can tell apart from earlier because the rows
are locked until then and readers see committed data only.

The lookup after a duplicate key (mysql_settlement.go:106-118) has no action:
`NoDuplicateKey` says that it is never needed, because the row lock on the player
already excludes a second settlement.

### Delivery

A frame from the socket to the socket. The client numbers its frames; `inbox` is
what lies in the socket, `pc`, `frame` and `body` are `readPump` and `Dispatch`, `queue`
is `Connection.send`, `wire` what `writePump` has written. The kinds of frames are
what Dispatch tells apart: a text message (ignored), a frame that ends the
connection (`Fatal`), one that is answered with an error without running anything
(`BadInput`), the two `AuthFree` messages, and `play` for every message that needs a
login. `asked`, `ran` and `lost` record which requests were accepted, whose handler
ran, and whose answer was dropped; the code keeps none of them.

| Actions | Code |
|---|---|
| `ReadText` ... `ReadProtected` | `readPump`'s loop and the beginning of `Dispatch` |
| `Auth`, `RateLimit` | the two hooks; a failing Redis lets the request through |
| `Handle`, `Finish` | the handler, then `finish`/`sendError` down to `enqueue` |
| `Write`, `WriterReturns` | `writePump`: a frame written, a failing write, `done` |
| `Broadcast`, `HubStops` | what the hub does to a connection from outside |
| `SessionExpires`, `WindowEnds` | Redis removes keys |

Of a handler only what later requests see is kept: the session it stores and the
uid it binds. `RateLimit` is one script in Redis, hence one step. The counter stops
at `Limit + 1`, above which no code tells two values apart. A failing ping is
`HubStops` here: it closes the connection between two frames.

### LoginSession

Login and heartbeat, one statement of MySQL or command of Redis per action:
`Lookup`, `Create`, `Name`, `WriteToken`, `HSet`, `Expire` for a login; `GetSession`, `HSet`,
`Expire` for a heartbeat. `players` is the table, `live`/`token`/`ttl` the sessions, `hand`
the local variables of a handler, in particular the row it read and will write
back whole (`UpdatePlayer`). Every statement may fail without effect (`Fail`) or take
effect while its answer is lost (the second branch of `Then`); in both cases the
handler returns an error and the connection stays as it was. `SubmitScore` is the
other writer of the table. The column `token` of the row is written but never read
and is left out; the token in Redis and the one in the connection are kept. A
failing exchange of the code, or of the random generator, changes nothing and has
no action.

`CodeExchange` is the exchange in production: `Code2Session` for every answer that
WeChat (external) may give, `WechatExchange` with the codes that are refused without
asking, `classifyLoginError` for what the client is told. A login begins with one of
the open ids that come out of it (`Exchanged`), which is where an answer
without an open id would become a player that everybody shares. The test for a service
without a client, which main never builds, is left out.

### MemoryStore, Probe

The development runtime: the handlers over `MemoryDevelopmentStore`. One mutex is held for
the whole of each call of the store, so a call is one step, while what a handler does
with the result is another: other calls may come between. A login is a lookup,
`CreatePlayer`, `UpdatePlayer` and `SetSession`, the two calls of `UpdatePlayer` for a new
player being one step (`LoginLookup` ... `LoginBind`): both write the open id that the login
created the player with, and the columns between which they differ are not kept. Two
logins of one code may both find no player. `Settle`, `SettleDuplicate` and `Save` need the login
(`Authorised`); a handler's answer is `Reply`. `archive`, `found`, `settled`, `level` are the
maps of archives and settlements, `openID` and `idOf` the two maps of the players,
`sessions` the keys of the sessions. The level of a settlement request is
represented by its score, since both are numbers of the request of which the
store keeps the maximum; in `MCProbe` that number is the dungeon level.

`Probe` is `cmd/devprobe` as a client of that runtime, on a connection of its own: `Send` and
`Read` are the steps of `runProbe`, `Expected` what it demands of each answer, `Lose` a
failing dial, read or write or a timeout at any moment. `ServeLogin` ... `ServeCombat` are
the handlers on its connection, made of the actions of `MemoryStore`. Other clients do
anything at the same time, but they do not have its login code, which it draws at
random.

### Process, Logger

`Process` is main: `Load`, `InitLogger`, `Compose`, `OpenMySQL`, `OpenRedis`,
`RegisterRoutes`, `Abort` for the start, `StartServer` and the goroutine it makes
(`ServerStarts` ... `StartFatal`), then `Notify`, the signal, `CallShutdown`, `Drained`,
`CloseRedis`, `CloseMySQL`, `CloseLogger`, `MainReturns`. The gateway is a `Gateway` whose
callers of Shutdown are main and that goroutine; the logger is `Logger` with its actions, of
which main performs one Init and one Close. A failing listener ends the process through
zap's Fatal, after Shutdown and without main's closing: `CleanExit` says what is left open
then and that nothing is otherwise, `ClosesInOrder` what any closing of a store or of the
log file waits for. Of the configuration the settings are kept that decide what main does
(`Settings`), with the environment over the file (`Effective`). `Registers` is the panic of
`Kernel.Register` on a message that has a handler already or no route. All registrations are
one step, since nobody else runs yet. `SubmitScore` and `CreateScoreRecord` are the one kind
of goroutine that outlives its connection; `missed` records that one of them found MySQL
closed.

`Logger` keeps the two globals, what zap is restored to, which files were closed and
which ones lumberjack has open. A goroutine that called `zap.L()` keeps that logger
(`taken`) and may use it after Init or Close: `guardedLogFile.closed` is what keeps
lumberjack from opening the file again.

### Styles

`rows` and `gold` are `player_stats`, `owned` is `player_styles`. No handler here uses a
transaction, so each statement is an action. `DeductPlayerGold` is a conditional
UPDATE; a statement may fail, or be executed while its answer is lost. What the
handler ignores (a failing query in `FoundLocked`, a failing insert in `UnlockDefault`
and `Grant`) is a branch that goes on. `UnlockPlayerStyle` is gorm's FirstOrCreate, a
SELECT and an INSERT under a unique index: when another handler inserts in between
the INSERT fails, and the row is there either way, so one step that inserts or
fails shows all outcomes. `Settle` is the credit of a settlement, whose details are in
`MySQLSettlement`. `UpdatePlayerStats` tests level and health only, so what a client reports as
its gold may be negative. `charged`, `billed`, `confirmed`, `granted`, `indebted` record what
was deducted, what answers said was deducted, which styles answers called unlocked,
which ones a client reported through `UpdatePlayerStats`, and who reported a negative
balance; the code keeps none.

### Scores

A submitted score goes to the sorted set (`RankAndSpawn`), to `score_records`
(`CreateScoreRecord`, by a goroutine of its own that nobody waits for) and to
`players.best_score` (`UpdateBestScore`, `UpdateBestFails`, `Reread`). A login reads the
row (`ReadPlayer`) or creates it (`CreatePlayer`) and later writes the whole of it back
(`UpdatePlayer`), the best score included. `stored` records what was written to that
column since a login last replaced it, `told` what answers named since. The members of
the sorted set are `uid:nickname`, here pairs. Redis keeps a score as float64:
`Float` rounds above `MaxExact` (2^53 in the code), to the even number, as the
conversion does. `GetRank` changes nothing and is an operator on the board, cut out of
`Ranking` (ZREVRANGE: the sequence that lists the members in order) and checked
against the places that a definition by counting gives. `CloseStores` is what main
does after Shutdown has returned, which `ShutdownDrains` of `Transport` justifies:
no handler is running. `Restart` ends the process at any moment; MySQL and Redis
keep what they have.

## 4. Runs

| Run | Instance | Question |
|---|---|---|
| `transport` | 2 clients, a Start whose listener may fail and then shuts down, a Shutdown on a signal at any time | all safety properties of the gateway in every interleaving, that nobody waits in a circle, and that it implements `Gateway`; every call of Shutdown ends, whichever caller is inside the once, connections are cleaned up, hub calls return |
| `process` | 2 clients, one log file, 2 goroutines that log, 2 background inserts, both modes, every setting in file or environment | no connection is served by half a runtime or a closed store, stores close only after the gateway is drained and the log file after them, main's exits leave nothing open and a failing listener leaves stores and log file but no connection, a signal ends the process |
| `settlement` | one player on 2 connections, 2 runs, 13 requests of which 3 are accepted, 225 gold and totals of 60 at most, 2 archives a client saves, a negative report, a submitted score | all safety properties, no reward for an impossible run, no settlement on the leaderboard that was not made, and the refinement of `SettleOnce` |
| `settlement_stats` | the same | expected violation: the stats row loses totals |
| `delivery` | one connection, 3 requests of 8 kinds, a queue of two frames, one broadcast, a limit of one request | answers match requests, refusals have no effect, every request is answered or accounted for, nobody is locked out by the rate counter |
| `login` | 2 connections, 2 users, 3 ids, 2 logins | one player per open id, no endless session |
| `login_best` | 2 connections, one user, 3 logins | expected violation: a login restores an older best score |
| `styles` | one player on 2 connections, style 1 and 2 costly ones, gold at most 2, one charge per style before the last unlock starts, a client that reports gold and a style or a debt | no purchase overdraws a balance, no style without payment, confirmed styles stay, every billed cost was charged |
| `styles_charge` | the same | expected violation: a style is charged twice |
| `scores` | 2 players, 2 connections of one of them, 3 names, 2 submissions, logins, pages of 2 | the stored best score and the pages of the leaderboard |
| `scores_rank` | the same | expected violation: an entry of the leaderboard falls |
| `memory` | the probe and 2 connections that share an open id, 2 runs, 3 payloads, 2 players | the refinement of `SettleOnce`, the index under concurrent logins, and what the probe expects |

Bounds. Two connections suffice for every race in the code between connections: the hub
handles one message at a time and a connection touches no other; Start and the signal are
the two callers of Shutdown that main has, either of which may be inside the `once` while
the other waits (the proofs are for any number). Two connections of one player give a
settlement and its concurrent retry; two runs give a duplicate and a run that is not one; of
the three payloads two are for the same run, so that a retry with other numbers is told from
a repetition. The rules of different players never touch the same row, so one player is
enough for TLC; the proofs are for any number. `MaxInt32 = 225` holds the rewards of 15 and
30 kills at 5 gold, and not those of 30 and 30: the last credit overflows. `MaxInt64 = 60`
leaves room for one game and 15 kills in one of the archives that a client saves; the other
has negative fields. The frames in a socket and the calls of a handler are unbounded and
need no bound, since they leave no trace in the state.

For `delivery` one connection is enough because connections share only the two
entries in Redis, and what another connection does to them (a session appears or
goes, a counter is raised or removed) can also be done by one connection and time;
a queue of two frames holds two replies, or a reply and the broadcast, in every order, and
three requests fill it and leave one to be dropped. For `login` a
third id lets a second player of one user appear if the index allowed it, and two
connections give every pair of a read and a later write of a row; the number of
logins only bounds the tokens, a failed login may be repeated for ever.

For `styles` two costly styles are needed: one balance has to be spent on either.
`MaxCharges = 1` still lets both connections charge for the same style, because both may
have started before the first charge; `MaxGold = 2` pays for both. For `scores` two
submissions on two connections give a lower score that overtakes a higher, and a login on
one writes back what the other has raised; three names and a settlement give the board more
entries than a page. `MaxExact = 4` and the score 5 show the rounding, and `MaxInt32 = 7`
the guard of `rankWindow` (a start of 7 with one entry is the last that fits). The two
connections are interchangeable there and the run checks no liveness, so that they may be a
symmetry set. For `memory` the two connections have the same code, which gives the race of
two first logins; the probe is the second player. `MaxInt32 = 30` is again less than all
rewards together (7 of the archive, 10 and 20), and `MaxInt64 = 21` less than all kills (17
of the archive, 2 and 4). For `process` two clients let one be served while the other ends;
two goroutines that log give one with the old logger and one with the new; a second
background insert may find MySQL closed after the first found it open.

Fairness in `transport`. Weak fairness on each goroutine's enabled step is
what the Go scheduler gives. Two steps have strong fairness: a handler makes
finitely many calls of the hub before it returns, and a socket that was closed
holds finitely many frames before the read fails. Nothing is assumed of the
environment: clients need not connect, send, or leave, nobody need call Shutdown.
The calls of MySQL and Redis inside a handler are assumed to return; a handler that
never returns does hang Shutdown, which waits without a bound.

Fairness in `process`. Weak fairness on main's steps, and on a connection's end once the
server is stopping, which is what `ShutdownTerminates` shows of the gateway. The
goroutine of Start needs none: main does the work of Shutdown itself if nobody has.

Fairness in `delivery`. Weak fairness on the steps of the read goroutine (hooks and
handlers return), on `writePump` (a write ends within its deadline, with success or
an error) and on Redis removing an expired counter. Clients need not send.

Deadlock is checked in every run but `delivery`, where clients that have sent all their
frames may stop, and `process`, which ends; in `Transport` the state `Terminated` is the one
in which the process has ended.

Findings. `player_stats.go:16-18` declares highest score, total kills and total games
of a player. `UpdatePlayerStats` reads the row without a lock and writes back all
columns, so a settlement that commits in between loses its contribution
(`settlement_stats`).

`player.go:17` declares the best score ever. A login writes back the whole row it
read, so a score that another connection of the player submits in between is lost
(`login_best`).

`combat/handler.go:191` calls UnlockStyle idempotent. Its check, deduction and record are
three statements: two requests that both find the style locked both pay, and so
does the retry of a request whose last statement failed (`styles_charge`).

`store/redis.go:127` says of UpdateRank that the entry is updated if the score is higher.
Its ZADD is unconditional, as the comment in line 132 says: a lower score, submitted or
settled later, lowers the entry (`scores_rank`).

Seen while modelling and not run as findings, since the repository states nothing that
they contradict, or states it only as a design:

- The nickname is written by a second statement after the insert of a player. When
  that fails, or when a concurrent login writes back the row from before it, the
  player has no name and nothing gives it one later.
- The authentication hook asks for a session, not for its token: a connection stays
  authorised after another login replaced the token, and a heartbeat may write an
  older or an empty token back.
- A player has an entry on the leaderboard for each name it was seen under, and one
  under its uid from settlements or a failing query; they are not merged. A submitted
  score is what the client says, any number from 0, so the board shows settled scores and claims side by
  side.
- SubmitScore answers with the score just submitted also when the best one is higher:
  the conditional UPDATE is no error when it changes nothing (rank/handler.go 137;
  the comment at 100 says that the best score is returned). It never names a score above
  the best one, as long as no login writes the row back afterwards (`BestIsHighest`).
- The cap on kills is three times rooms times density (config.go 26), but the density is a
  float32 and the product is truncated: at dungeon levels 7, 8, 10 and 13 a run with
  every possible kill (114, 123, 141, 168) is refused. None passes that should not
  (`RewardIsEarned`; `KillsAreCapped` for every level).
- Reported gold, and every field of a saved archive, may be negative. A purchase takes no
  balance below zero (`NoOverdraft`) and a credit keeps it in its column.
- In development a second first login with one code fails when the other created the player
  between its lookup and its CreatePlayer; in production it fails on the unique key. The
  client may retry.
- The row of `score_records` is inserted in the background. It is lost when the stores are
  closed before it.
- A settlement whose handler dies, or loses the answer of COMMIT, before `UpdateRank` is
  not written to the leaderboard by the retry, which is a duplicate.

What the properties do not exclude: `Answered` allows an answer to be lost when the
queue is full or the response does not fit a frame. The handler has run then and the
client is not told; the code logs the first and reports success. `SessionsEnd`
allows a session without an end after EXPIRE failed, and a token that a heartbeat has
replaced by an older one.

## 5. Proofs

Checked by TLAPS for any sets of users, ids, clients, callers, players, runs, requests and
connections (finite where a cardinality is used: `ConnsAssumption`,
`RunsAssumption`, `StylesAssumption`). Every safety property that a run checks, invariant or
action property, and every refinement is proved, but for the four that the code violates.

`TransportProofs`. The invariant `Inv` is the type invariant with four parts:
`ShutdownInv` (how far the caller inside the once has come, and what is finished by
then), `HubInv` (the map against the connections' program counters, and what
holds once the hub is closing), `ConnInv` (a connection's goroutines against
`closed`, `closer` and the socket) and `WaitGroupInv` (the counter is the number of
connections that hold a reservation). The last is why the others are needed: that
the counter is zero when Wait returns says that *no* connection is left only
together with the counting, and the step from the counter to the set uses
cardinalities (`WaitGroupStep` and its lemmas). From it: `TypeCorrect`,
`ShutdownIsComplete`, `NoConnectionEscapes`, `NothingLeaks`, `WaitIsNotRaced`. `Refinement`
says that every step of any goroutine is a step of `Gateway` or invisible to it; the
interesting ones are the returns from Shutdown, where `ShutdownDrains` says that no
reservation is held.

`NobodyWaitsInACircle` is the part of `ShutdownTerminates` that needs no fairness:
`NoCircularWait` lists the guards of the steps that a goroutine can take without its client
(`Moves`, `HubMoves`), and says that whatever a caller of Shutdown waits for has such a step.
It rests on `WaitInv`: somebody is inside the once while it is busy, the hub runs as soon as
a reservation can be held or Shutdown waits for it, and a reader that waits for its writer
has one. A connection that idles in a read is moved by the hub's close of its socket; a
`stop` that closed `done` only would be the circle.

`SettlementProofs`. The properties are not inductive: that the commit stores a
correct archive depends on nothing having changed since it was read. `Inv` adds
`LockInv` (one handler of a player is inside the transaction), `ReadInv` (what a
transaction has read is still so), `ResponseInv` (a handler after its transaction
holds the stored response) and `FreshInv` (at most one handler is about to give
the first answer). `Refinement` proves `Spec => SettledOnce` with the identity
mapping: `Commit` is `Settle`, `Reply` is `Answer`, `SaveArchive` is `Save`,
everything else stutters. The assumptions are that a valid run id is a run
(`ResultsAssumption`), that the settlement pays what the handler's configuration says
(`PolicyAssumption`, from `settlementRewardPolicy`), that clients save archives of the right
type, that is, anything its columns hold (`SavesAssumption`), that a submitted score is
not negative (`SubmissionsAssumption`) and that a response is told from its absence.
`SettlementsAreFinal` follows from the refinement: a step of `SettleOnce` stores a response
where none is and repeats it in answers (`PromiseKeeps`); the development store has the same
theorem. `RankShowsSettledRuns` needs `ResponseInv`: what a handler is about to write to the
leaderboard is the score of the run it has settled; it says nothing of what `SubmitScore`
writes. `OnlyReportsLoseStats` bounds the finding `settlement_stats`: with `RowInv` (a
transaction that holds the stats lock has credited the row as it is) a settlement loses
nothing, and a total or best score falls in a step of `SaveStats` only.
`RewardsAreEarned` combines `RewardInv` (each stored reward is that of a request for its run)
with what the validation of a request implies (`ValidIsPossible`), that is, with
`KillsAreCapped`, which computes the cap on kills at every dungeon level, with the float32
density as an integer multiple of its last bit: in one case per side of density 2 and one
from level 15 on, where neither rooms nor density grow any more.

`DeliveryProofs`. The properties speak of the frames that were sent; the invariant
adds what is still to come: frames in the socket are numbered above all accepted
requests (`InboxInv`), the request in hand is the last accepted, above all answers,
and has not run before its handler (`HandInv`). Each step then appends one frame to
what was sent, takes one out (a failing write) or leaves it alone, and one lemma on
sequences for each (`AppendKeeps`, `DropKeeps`, `OutWritten`) carries both properties
over. The clients' numbering, which `ClientSends` assumes, is used here: a client
that numbered two requests alike would get two answers with that number.

These say that no answer is too many; `NoRequestIsForgotten` says that none is missing: on a
connection that lives, an accepted request is in hand, or its answer is queued, written or
recorded as lost. With `CountersExpire` (a rate counter always has a time to live) it is
what `Answered` and `NotLockedOut` need beside fairness.

`LoginSessionProofs`. That there is one player per open id needs `HandInv`: what a
handler knows of the row it is about to overwrite, in particular that the open id it
will write back is the one the row has. `SessionsEnd` is inductive with the types:
each step of another handler leaves the one that will call EXPIRE where it is
(`OthersStay`). `ExchangedIsOpenID` says of the exchange that an identity without an open id
never gets out of it, and `CodesAreBlamedRightly` that a client is told to get
another code exactly when its code was the reason. `OnlyLoginsLoseScores` bounds the finding
`login_best`: a best score falls only when a login writes back a row it read before
(`StaleWriteBack`); scores, heartbeats, failures and the creation of players lower none.

`StylesProofs`. That no answer names a cost that was not deducted is proved by counting:
`BillInv` says that what was billed plus the handlers between the deduction and the
answer (`InFlight`) is at most what was charged. It also gives that a style about to be
recorded was paid for (`InFlightPaid`), which `StylesArePaid` needs. That no purchase
overdraws (`PurchasesNeverOverdraw`) rests on the deduction testing and taking in one
statement, and on settlements only adding.

`ScoresProofs`. `IdInv` (submissions that are not yet handed to a goroutine have a number of
their own) gives that none is archived twice. `BestIsHighest` has two parts: the stored best
score (`StoredInv`) is inductive, and an answer names what has been stored or read since
(`AnswersInv`, `AnswerStep`); a login that writes the row back starts both anew.

`PagesAreWindows` is about the order. `Ahead` is a strict total order on members
(`AheadIsOrder`), so counting who is ahead gives each member of a finite board (`BoardInv`) a
place of its own, and every place a member (`PlaceIsBijection`). Hence a sorted listing
exists, the choice in `Ranking` is one (`RankingIsSorted`), the member at index `i` has
place `i` (`SortedPlaces`), and a page is what its window cuts out (`PageIsCut`).

`MemoryStoreProofs`. Each call is atomic, so the invariant is about the handlers between
two calls: a login holds the player whose open id it will write back, which the index
names; a settlement that has still to answer holds the stored response
(`ResponseInv`), and at most one handler is to give the first answer about a run
(`FreshInv`). `Refinement` maps `Settle`, `Reply`
and `SaveArchive` to the three actions of `SettleOnce`, under the same reading as in
`SettlementProofs`: both runtimes implement one promise. `ProbeIsClient` carries all of it
over to the system with the probe, and `ProbeEvidenceIsTrue` uses it: the probe's own
invariant (`ProbeInv`) says which player it has (`MineInv`), what that player owns after each
answer (`ArchiveInv`, `CombatInv`; `UsedInv` for the id it will get) and what an answer on its
way says (`AnswerInv`). That the steps of other clients keep it (`OthersStore`) is where the
assumption on the code enters: nobody else logs in with the probe's open id.

`ProcessProofs`. The invariant says what holds at each place of main: which stores are open
(`StoreInv`), what has been registered (`RuntimeInv`), how far the gateway can be
(`GateInv`), from where a background insert can find MySQL closed (`InsertInv`). The
gateway enters by what `Gateway` promises, so that this proof and the refinement in
`TransportProofs` together speak of the whole. `LogInv` says of a logger that some
goroutine still holds that its file is the current one or was closed; that is why
`guardedLogFile.closed` is enough. `Registering` computes what main registers from its
lists, so that adding a route without a handler would break the proof. `ExitsAreClean` and
`StoresCloseAfterGateway` follow from where main is when the process ends or a store
closes. The process reaches the gateway through the actions of `Gateway` only, which
`Transport` implements (`Refinement`).

Only model-checked: the liveness properties `ShutdownTerminates`, `ConnectionCleanup`,
`HubCallsReturn`, `SignalStops`, `Answered` and `NotLockedOut`, since temporal reasoning under
fairness is out of the prover's reach. What of them is a matter of states is proved:
`NobodyWaitsInACircle`, `NoRequestIsForgotten`, `CountersExpire`. The violations that the
runs `settlement_stats`, `login_best`, `scores_rank` and `styles_charge` find are TLC's as well.

## 6. Not modelled

See the components with status `not_modelled` in `PROJECT.json`, each with its
reason. Abstracted inside the modelled parts: the bytes of frames, log output,
ping and pong (a failing ping or a read deadline is `WriterStops` or `ReadEnds`), the
five-second limit of `http.Server.Shutdown` (it may return before all handlers have,
which `HttpShutdownReturns` allows), positions on the leaderboard beyond the range of
int32, the fields of an archive that no settlement touches, and the score metadata.
