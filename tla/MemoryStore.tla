---------------------------- MODULE MemoryStore ----------------------------
(***************************************************************************)
(* The development runtime: login, archives and settlements over           *)
(* MemoryDevelopmentStore, maps behind one mutex.  Each call of the store  *)
(* is one step; what a handler does with the answer comes later, when      *)
(* other connections may have made calls.  A login is several calls, and   *)
(* two of one open id may both find no player.  Nothing outlives the       *)
(* process.                                                                *)
(***************************************************************************)
EXTENDS SettleRules, FiniteSets

CONSTANTS
  Runs,
  Requests,     \* validated settlement requests: records [run, kills, score]
  Saves,        \* archives that clients send to game.Save
  Conns,        \* connections; the requests of each are handled one by one
  NotSettled,
  OpenIds,      \* what the development code exchanger returns
  NoPlayer,     \* no player, no open id
  MaxPlayers    \* bound on the players created

ASSUME MemoryAssumption ==
  /\ \A q \in Requests : q.run \in Runs /\ IsRequest(q)
  /\ Saves \subseteq Archives
  /\ NotSettled \notin Responses
  /\ MaxPlayers \in Nat
  /\ NoPlayer \notin OpenIds \union (1..MaxPlayers)

VARIABLES
  archive,    \* archivesByUID, an absent one being the empty archive
  found,      \* the players with an entry in archivesByUID
  settled,    \* settlements
  level,      \* playerLevels, 0 when there is none
  resp,       \* the response that the handler of a connection has still to send
  job,        \* the run it is about
  login,      \* how far the login on a connection is
  uid,        \* Session.uid
  told,       \* every response given about a run
  fresh,      \* how many of them were not marked as duplicates
  nextID,     \* nextPlayerID
  openID,     \* playersByID: the open id of each player
  idOf,       \* playerIDByOpenID
  sessions    \* the keys of sessionsByUID

settlements == <<archive, found, settled, level>>
handlers    == <<resp, job>>
logins      == <<login, uid, sessions>>
heard       == <<told, fresh>>
directory   == <<nextID, openID, idOf>>
vars        == <<settlements, handlers, logins, heard, directory>>

Ids == 1..MaxPlayers

\* What a connection's handler is about to answer; dup is response.Duplicate.
Jobs  == [run : Runs, dup : BOOLEAN, busy : {TRUE}]
NoJob == [busy |-> FALSE]

\* The next call of a login: of CreatePlayer, UpdatePlayer or SetSession.
Logins  == [at : {"none", "create", "update", "session"},
            open : OpenIds \union {NoPlayer}, id : Ids \union {NoPlayer}]
NoLogin == [at |-> "none", open |-> NoPlayer, id |-> NoPlayer]

TypeOK ==
  /\ archive \in [Ids -> Archives]
  /\ found \subseteq Ids
  /\ settled \in [Ids -> [Runs -> Responses \union {NotSettled}]]
  /\ level \in [Ids -> Nat]
  /\ resp \in [Conns -> Responses \union {NotSettled}]
  /\ job \in [Conns -> Jobs \union {NoJob}]
  /\ login \in [Conns -> Logins]
  /\ uid \in [Conns -> Ids \union {NoPlayer}]
  /\ told \in [Ids -> [Runs -> SUBSET Responses]]
  /\ fresh \in [Ids -> [Runs -> Nat]]
  /\ nextID \in 1..MaxPlayers + 1
  /\ openID \in [Ids -> OpenIds \union {NoPlayer}]
  /\ idOf \in [OpenIds -> Ids \union {NoPlayer}]
  /\ sessions \subseteq Ids
  /\ \A i \in Ids : openID[i] # NoPlayer <=> i < nextID

Init ==
  /\ archive = [p \in Ids |-> NewArchive]
  /\ found = {}
  /\ settled = [p \in Ids |-> [r \in Runs |-> NotSettled]]
  /\ level = [p \in Ids |-> 0]
  /\ resp = [c \in Conns |-> NotSettled]
  /\ job = [c \in Conns |-> NoJob]
  /\ login = [c \in Conns |-> NoLogin]
  /\ uid = [c \in Conns |-> NoPlayer]
  /\ told = [p \in Ids |-> [r \in Runs |-> {}]]
  /\ fresh = [p \in Ids |-> [r \in Runs |-> 0]]
  /\ nextID = 1
  /\ openID = [i \in Ids |-> NoPlayer]
  /\ idOf = [o \in OpenIds |-> NoPlayer]
  /\ sessions = {}

\* A connection whose last request has been answered.
Idle(c) == job[c] = NoJob /\ login[c].at = "none"

\* hooks.Auth: the connection is bound to a player with a session.
Authorised(c) == uid[c] # NoPlayer /\ uid[c] \in sessions

-----------------------------------------------------------------------------
(* Login                                                                      *)

\* CreatePlayer: the next id, for an open id that is not in use.
CreatePlayer(o) ==
  /\ nextID <= MaxPlayers
  /\ idOf[o] = NoPlayer
  /\ openID' = [openID EXCEPT ![nextID] = o]
  /\ idOf' = [idOf EXCEPT ![o] = nextID]
  /\ nextID' = nextID + 1

\* UpdatePlayer of a player that exists, with an open id that nobody else has: the new
\* one replaces the old one in the index.
UpdatePlayer(i, o) ==
  /\ openID[i] # NoPlayer
  /\ idOf[o] \in {i, NoPlayer}
  /\ openID' = [openID EXCEPT ![i] = o]
  /\ idOf' = [x \in OpenIds |-> IF x = o THEN i
                                ELSE IF x = openID[i] THEN NoPlayer ELSE idOf[x]]
  /\ UNCHANGED nextID

LoginAt(c, at, o, i) == login' = [login EXCEPT ![c] = [at |-> at, open |-> o, id |-> i]]

\* The code is an open id; the player is looked up.
LoginLookup(c, o) ==
  /\ Idle(c)
  /\ IF idOf[o] = NoPlayer THEN LoginAt(c, "create", o, NoPlayer)
                           ELSE LoginAt(c, "update", o, idOf[o])
  /\ UNCHANGED <<settlements, handlers, uid, sessions, heard, directory>>

\* mutant: CreatePlayer does not look whether the open id is in use
LoginCreateAnyway(c) ==
  LET o == login[c].open
  IN  /\ login[c].at = "create"
      /\ nextID <= MaxPlayers
      /\ openID' = [openID EXCEPT ![nextID] = o]
      /\ idOf' = [idOf EXCEPT ![o] = nextID]
      /\ nextID' = nextID + 1
      /\ LoginAt(c, "update", o, nextID)
      /\ UNCHANGED <<settlements, handlers, uid, sessions, heard>>

\* mutant: nextPlayerID is not incremented
LoginCreateSameID(c) ==
  LET o == login[c].open
  IN  /\ login[c].at = "create"
      /\ nextID <= MaxPlayers
      /\ idOf[o] = NoPlayer
      /\ openID' = [openID EXCEPT ![nextID] = o]
      /\ idOf' = [idOf EXCEPT ![o] = nextID]
      /\ LoginAt(c, "update", o, nextID)
      /\ UNCHANGED <<nextID, settlements, handlers, uid, sessions, heard>>

\* A new player, unless another connection created it since: then the login fails.
LoginCreate(c) ==
  LET o == login[c].open
  IN  /\ login[c].at = "create"
      /\ \/ CreatePlayer(o) /\ LoginAt(c, "update", o, nextID)
         \/ /\ idOf[o] # NoPlayer
            /\ login' = [login EXCEPT ![c] = NoLogin]
            /\ UNCHANGED directory
      /\ UNCHANGED <<settlements, handlers, uid, sessions, heard>>

\* The nickname and the token are written with the whole player, as it was read.
LoginUpdate(c) ==
  /\ login[c].at = "update"
  /\ UpdatePlayer(login[c].id, login[c].open)
  /\ LoginAt(c, "session", login[c].open, login[c].id)
  /\ UNCHANGED <<settlements, handlers, uid, sessions, heard>>

\* SetSession, and the end of Login: the connection is bound to the player.
LoginBind(c) ==
  /\ login[c].at = "session"
  /\ sessions' = sessions \union {login[c].id}
  /\ uid' = [uid EXCEPT ![c] = login[c].id]
  /\ login' = [login EXCEPT ![c] = NoLogin]
  /\ UNCHANGED <<settlements, handlers, heard, directory>>

\* The client leaves and another connection takes its place.
Reconnect(c) ==
  /\ Idle(c)
  /\ uid' = [uid EXCEPT ![c] = NoPlayer]
  /\ UNCHANGED <<login, sessions, settlements, handlers, heard, directory>>

-----------------------------------------------------------------------------
(* Archives                                                                   *)

Save(c, a) ==
  /\ Idle(c) /\ Authorised(c)
  /\ archive' = [archive EXCEPT ![uid[c]] = a]
  /\ found' = found \union {uid[c]}
  /\ UNCHANGED <<settled, level, handlers, logins, heard, directory>>

\* What LoadArchive answers.
Load(p) == [found |-> p \in found, archive |-> archive[p]]

-----------------------------------------------------------------------------
(* Settlements                                                               *)

\* The handler of a connection got this response, marked as dup or not.
Got(c, q, response, dup) ==
  /\ resp' = [resp EXCEPT ![c] = response]
  /\ job' = [job EXCEPT ![c] = [run |-> q.run, dup |-> dup, busy |-> TRUE]]

\* The run has been settled: its stored response.
SettleDuplicate(c, q) ==
  /\ Idle(c) /\ Authorised(c)
  /\ settled[uid[c]][q.run] # NotSettled
  /\ Got(c, q, settled[uid[c]][q.run], TRUE)
  /\ UNCHANGED <<settlements, logins, heard, directory>>

\* The level of the request stands for the same number as its score.
HigherLevel(q, before) == Larger(q.score, before)

\* mutant: the settlements are not looked up
SettleAgain(c, q) ==
  LET p == uid[c]
      response == Response(archive[p], q)
  IN  /\ Idle(c) /\ Authorised(c)
      /\ Fits(archive[p], q)
      /\ Got(c, q, response, FALSE)
      /\ archive' = [archive EXCEPT ![p] = response.archive]
      /\ found' = found \union {p}
      /\ level' = [level EXCEPT ![p] = HigherLevel(q, @)]
      /\ settled' = [settled EXCEPT ![p][q.run] = response]
      /\ UNCHANGED <<logins, heard, directory>>

\* A run for the first time: the archive, the level and the response are stored.  An
\* overflow is refused, and nothing is stored.  The key has the player and the run.
Settle(c, q) ==
  LET p == uid[c]
      response == Response(archive[p], q)
  IN  /\ Idle(c) /\ Authorised(c)
      /\ settled[p][q.run] = NotSettled
      /\ Fits(archive[p], q)
      /\ Got(c, q, response, FALSE)
      /\ archive' = [archive EXCEPT ![p] = response.archive]
      /\ found' = found \union {p}
      /\ level' = [level EXCEPT ![p] = HigherLevel(q, @)]
      /\ settled' = [settled EXCEPT ![p][q.run] = response]
      /\ UNCHANGED <<logins, heard, directory>>

\* CombatResult returns the response; there is no leaderboard to write.
Reply(c) ==
  LET p == uid[c]
      r == job[c].run
  IN  /\ job[c] # NoJob
      /\ told' = [told EXCEPT ![p][r] = @ \union {resp[c]}]
      /\ fresh' = [fresh EXCEPT ![p][r] = IF job[c].dup THEN @ ELSE @ + 1]
      /\ job' = [job EXCEPT ![c] = NoJob]
      /\ resp' = [resp EXCEPT ![c] = NotSettled]
      /\ UNCHANGED <<settlements, logins, directory>>

-----------------------------------------------------------------------------
\* What may happen on a connection whose client has the codes of these open ids.
Request(c, codes) ==
  \/ \E o \in codes : LoginLookup(c, o)
  \/ LoginCreate(c) \/ LoginUpdate(c) \/ LoginBind(c) \/ Reconnect(c)
  \/ \E a \in Saves : Save(c, a)
  \/ \E q \in Requests : Settle(c, q) \/ SettleDuplicate(c, q)
  \/ Reply(c)

Next == \E c \in Conns : Request(c, OpenIds)

Spec == Init /\ [][Next]_vars

-----------------------------------------------------------------------------
(* Safety                                                                     *)

\* The index is the inverse of the players' open ids, although a login looks the player
\* up in one call and creates it in another, and writes back a player it read before
\* (CreatePlayer, UpdatePlayer 75-119): two connections with one code share a player.
IndexMatches ==
  \A o \in OpenIds, i \in Ids : idOf[o] = i <=> openID[i] = o

\* A player's level is at least that of every settled run and stays so, whatever
\* archives the client saves (Settle 215-217).
LevelIsHighest ==
  [][\A p \in Ids :
       /\ level'[p] >= level[p]
       /\ settled'[p] # settled[p] => \E q \in Requests :
            settled'[p][q.run] # settled[p][q.run] /\ q.score <= level'[p]]_vars

\* Development and production keep the same promise: Settle is the settlement of
\* SettleOnce, and a retry is given what was stored, also when it overtakes the
\* answer to the first request.
Promise == INSTANCE SettleOnce WITH Players <- Ids

SettledOnce == Promise!Spec

=============================================================================
