---------------------------- MODULE LoginSession ----------------------------
(***************************************************************************)
(* Login and heartbeat.  A login looks the player up by open id, creates   *)
(* and names a player who is not there, writes a new token to the player's *)
(* row, and stores the session in Redis with two commands, HSET and        *)
(* EXPIRE; a heartbeat reads the session and stores it again.  No lock and *)
(* no transaction spans two of these statements, logins and heartbeats of  *)
(* one player run on several connections at once, and SubmitScore writes   *)
(* the same row.                                                           *)
(*                                                                         *)
(* The rows of MySQL and the keys of Redis are shared and survive a crash; *)
(* pc and hand are a handler's progress and its local variables.           *)
(***************************************************************************)
EXTENDS CodeExchange

CONSTANTS
  Conns,
  Uids,
  Scores,
  MaxLogins,    \* bound on the tokens that are generated
  RedisFails    \* whether Auth may find Redis failing

ASSUME ScoresAssumption == Scores \subseteq Nat
ASSUME MaxLoginsAssumption == MaxLogins \in Nat
ASSUME RedisFailsAssumption == RedisFails \in BOOLEAN

None == "none"
ASSUME NoneAssumption == None \notin OpenIDs /\ None \notin Uids

\* What the handlers read of a row of players.  The column token is written only.
Rows  == [openid : OpenIDs \union {None}, named : BOOLEAN, best : Nat]
NoRow == [openid |-> None, named |-> FALSE, best |-> 0]

\* Tokens are numbered in the order of their generation; 0 is the empty string.
Tokens == 0..MaxLogins

VARIABLES
  players,   \* the table, by id
  live,      \* ids whose session is in Redis
  token,     \* the session's token
  ttl,       \* sessions that Redis will remove
  issued,    \* tokens generated so far
  pc,        \* where the handler of each connection is
  hand,      \* its local variables: the id, the row as it read it, the token
  uid,       \* Session.uid
  tok,       \* Session.data["token"]
  unended    \* ids of which a SetSession ended after HSET and before EXPIRE

database == <<players, issued>>
redis    == <<live, token, ttl, unended>>
bound    == <<uid, tok>>
vars     == <<database, redis, pc, hand, bound>>

Hands  == [uid : Uids \union {None}, row : Rows, token : Tokens]
Holds(u, row, t) == [uid |-> u, row |-> row, token |-> t]
NoHand == Holds(None, NoRow, 0)

Exists(u) == players[u].openid # None

TypeOK ==
  /\ players \in [Uids -> Rows]
  /\ live \subseteq Uids
  /\ token \in [Uids -> Tokens]
  /\ ttl \subseteq live
  /\ issued \in Tokens
  /\ pc \in [Conns -> {"idle", "create", "name", "token", "hset", "expire", "rehset", "reexpire"}]
  /\ hand \in [Conns -> Hands]
  /\ uid \in [Conns -> Uids \union {None}]
  /\ tok \in [Conns -> Tokens]
  /\ unended \subseteq Uids

Init ==
  /\ players = [u \in Uids |-> NoRow]
  /\ live = {}
  /\ token = [u \in Uids |-> 0]
  /\ ttl = {}
  /\ issued = 0
  /\ pc = [c \in Conns |-> "idle"]
  /\ hand = [c \in Conns |-> NoHand]
  /\ uid = [c \in Conns |-> None]
  /\ tok = [c \in Conns |-> 0]
  /\ unended = {}

-----------------------------------------------------------------------------
(* The handler goes on, or it returns with an error although the statement   *)
(* took effect: the answer of MySQL or Redis was lost.                       *)

Goto(c, to) == pc' = [pc EXCEPT ![c] = to]

Then(c, to, local) ==
  \/ Goto(c, to) /\ hand' = [hand EXCEPT ![c] = local]
  \/ Goto(c, "idle") /\ hand' = [hand EXCEPT ![c] = NoHand]

\* A handler waiting for EXPIRE, by a login or a heartbeat.
Expiring(c) == pc[c] \in {"expire", "reexpire"}

\* Login: the code is exchanged for an open id, and the player read.
Lookup(c, o) ==
  /\ pc[c] = "idle"
  /\ \/ \E u \in Uids :
          /\ players[u].openid = o
          /\ Goto(c, "token")
          /\ hand' = [hand EXCEPT ![c] = Holds(u, players[u], 0)]
     \/ /\ \A u \in Uids : players[u].openid # o
        /\ Goto(c, "create")
        /\ hand' = [hand EXCEPT ![c] = Holds(None, [NoRow EXCEPT !.openid = o], 0)]
  /\ UNCHANGED <<database, redis, bound>>

\* mutant: the column open_id has no unique index
CreateDuplicate(c) ==
  /\ pc[c] = "create"
  /\ \E u \in Uids :
       /\ ~Exists(u)
       /\ players' = [players EXCEPT ![u] = hand[c].row]
       /\ Then(c, "name", [hand[c] EXCEPT !.uid = u])
  /\ UNCHANGED <<issued, redis, bound>>

\* CreatePlayer, with an id from the table's counter.  The unique index on open_id
\* refuses a second player; the login then fails (see Fail).
Create(c) ==
  /\ pc[c] = "create"
  /\ \A v \in Uids : players[v].openid # hand[c].row.openid
  /\ \E u \in Uids :
       /\ ~Exists(u)
       /\ players' = [players EXCEPT ![u] = hand[c].row]
       /\ Then(c, "name", [hand[c] EXCEPT !.uid = u])
  /\ UNCHANGED <<issued, redis, bound>>

\* UpdatePlayer writes every column but id and created_at.
UpdatePlayer(c, row) == players' = [players EXCEPT ![hand[c].uid] = row]

Name(c) ==
  LET row == [hand[c].row EXCEPT !.named = TRUE]
  IN  /\ pc[c] = "name"
      /\ UpdatePlayer(c, row)
      /\ Then(c, "token", [hand[c] EXCEPT !.row = row])
      /\ UNCHANGED <<issued, redis, bound>>

WriteToken(c) ==
  /\ pc[c] = "token"
  /\ issued < MaxLogins
  /\ issued' = issued + 1
  /\ UpdatePlayer(c, hand[c].row)
  /\ Then(c, "hset", [hand[c] EXCEPT !.token = issued'])
  /\ UNCHANGED <<redis, bound>>

\* Heartbeat: GetSession; a session that is gone is replaced by an empty one.
GetSession(c) ==
  /\ pc[c] = "idle" /\ uid[c] # None
  /\ Goto(c, "rehset")
  /\ hand' = [hand EXCEPT ![c] =
               Holds(uid[c], NoRow, IF uid[c] \in live THEN token[uid[c]] ELSE 0)]
  /\ UNCHANGED <<database, redis, bound>>

\* mutant: a heartbeat stores the session with HSET alone
HSetOnly(c) ==
  LET u == hand[c].uid
  IN  /\ pc[c] \in {"hset", "rehset"}
      /\ live' = live \union {u}
      /\ token' = [token EXCEPT ![u] = hand[c].token]
      /\ \/ pc[c] = "hset" /\ Goto(c, "expire") /\ UNCHANGED hand
         \/ pc[c] = "rehset" /\ Goto(c, "idle") /\ hand' = [hand EXCEPT ![c] = NoHand]
      /\ UNCHANGED <<ttl, unended, database, bound>>

\* SetSession, first command.
HSet(c) ==
  LET u == hand[c].uid
  IN  /\ pc[c] \in {"hset", "rehset"}
      /\ live' = live \union {u}
      /\ token' = [token EXCEPT ![u] = hand[c].token]
      /\ Then(c, IF pc[c] = "hset" THEN "expire" ELSE "reexpire", hand[c])
      /\ unended' = IF pc'[c] = "idle" THEN unended \union {u} ELSE unended
      /\ UNCHANGED <<ttl, database, bound>>

\* The end of Login.
Bind(c) ==
  /\ uid' = [uid EXCEPT ![c] = hand[c].uid]
  /\ tok' = [tok EXCEPT ![c] = hand[c].token]

\* SetSession, second command, and the end of the handler: a login binds the
\* connection, unless the answer of EXPIRE is lost.
Expire(c) ==
  LET u == hand[c].uid
  IN  /\ Expiring(c)
      /\ ttl' = ttl \union ({u} \intersect live)
      /\ unended' = unended \ {u}
      /\ \/ pc[c] = "expire" /\ Bind(c)
         \/ UNCHANGED bound
      /\ Goto(c, "idle")
      /\ hand' = [hand EXCEPT ![c] = NoHand]
      /\ UNCHANGED <<live, token, database>>

\* A statement fails, without effect: the handler returns with an error.
Fail(c) ==
  /\ pc[c] # "idle"
  /\ Goto(c, "idle")
  /\ hand' = [hand EXCEPT ![c] = NoHand]
  /\ unended' = IF Expiring(c) THEN unended \union {hand[c].uid} ELSE unended
  /\ UNCHANGED <<live, token, ttl, database, bound>>

\* hooks.Auth, for a handler that needs a login.
Authorised(c) == uid[c] # None /\ (uid[c] \in live \/ RedisFails)

\* SubmitScore, as far as it concerns the players' table: UpdateBestScore.
SubmitScore(c, score) ==
  /\ pc[c] = "idle" /\ Authorised(c)
  /\ players[uid[c]].best < score
  /\ players' = [players EXCEPT ![uid[c]].best = score]
  /\ UNCHANGED <<issued, redis, pc, hand, bound>>

\* The client connects anew.
Reconnect(c) ==
  /\ pc[c] = "idle"
  /\ uid' = [uid EXCEPT ![c] = None]
  /\ tok' = [tok EXCEPT ![c] = 0]
  /\ UNCHANGED <<database, redis, pc, hand>>

Crash ==
  /\ pc' = [c \in Conns |-> "idle"]
  /\ hand' = [c \in Conns |-> NoHand]
  /\ uid' = [c \in Conns |-> None]
  /\ tok' = [c \in Conns |-> 0]
  /\ unended' = unended \union {hand[c].uid : c \in {d \in Conns : Expiring(d)}}
  /\ UNCHANGED <<live, token, ttl, database>>

\* Redis removes a session whose time has come.
SessionExpires(u) ==
  /\ u \in ttl
  /\ live' = live \ {u}
  /\ ttl' = ttl \ {u}
  /\ token' = [token EXCEPT ![u] = 0]
  /\ UNCHANGED <<unended, database, pc, hand, bound>>

Next ==
  \/ \E c \in Conns :
       \/ \E o \in Exchanged : Lookup(c, o)
       \/ Create(c) \/ Name(c) \/ WriteToken(c)
       \/ GetSession(c) \/ HSet(c) \/ Expire(c)
       \/ Fail(c) \/ Reconnect(c)
       \/ \E score \in Scores : SubmitScore(c, score)
  \/ Crash
  \/ \E u \in Uids : SessionExpires(u)

Spec == Init /\ [][Next]_vars

-----------------------------------------------------------------------------
\* However many connections log a user in for the first time, and whatever fails,
\* there is one player per open id, no player is made of an answer of WeChat without
\* one, and every connection that is logged in is bound to a player of the table
\* (service.go 61-66, the index of player.go 13, wechat.go 84-110).
OnePlayerPerOpenID ==
  /\ \A u, v \in Uids : (Exists(u) /\ players[u].openid = players[v].openid) => u = v
  /\ \A u \in Uids : Exists(u) => players[u].openid \in OpenIDs
  /\ \A c \in Conns : uid[c] # None => Exists(uid[c])

\* A session without an end is one that a SetSession has yet to give its time to
\* live, or of which EXPIRE failed: no interleaving of logins, heartbeats and
\* expiry leaves another (redis.go 75-88).
SessionsEnd ==
  \A u \in live : u \in ttl \union unended \/ \E c \in Conns : Expiring(c) /\ hand[c].uid = u

\* Expected to fail.  player.go:17 calls the column best_score the best score ever.
BestScoreNeverFalls == [][\A u \in Uids : players'[u].best >= players[u].best]_vars

=============================================================================
