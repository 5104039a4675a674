------------------------------- MODULE Scores -------------------------------
(***************************************************************************)
(* Scores and the leaderboard: rank.SubmitScore with the goroutine that    *)
(* archives the score, rank.GetRank, the entry that CombatResult makes     *)
(* after a settlement, the logins of the players, which write back whole   *)
(* rows, and the closing of the stores when the server stops.  A score     *)
(* goes to three places, Redis, score_records and players.best_score, by   *)
(* statements of which each may fail, and with any number of connections   *)
(* of the same player at work.                                             *)
(*                                                                         *)
(* Members of the sorted set are pairs of a player and a name.  They, and  *)
(* with them players and names, are numbers, so that those with the same   *)
(* score are in some fixed order.                                          *)
(***************************************************************************)
EXTENDS Integers, Sequences, FiniteSets

CONSTANTS
  Players, Conns, Owner,
  Names,        \* nicknames
  UidName,      \* the uid in the place of a nickname
  NewName,      \* the nickname in a row that was just inserted
  Nickname,     \* the one that the login writes then
  Submissions,  \* scores that clients submit
  Battles,      \* scores of settled battles
  Starts, Counts,   \* parameters of GetRank
  MaxPage,      \* 100
  MaxInt32,
  MaxExact,     \* up to which a float64 holds every integer, a multiple of 4
  MaxSubmits    \* bound on the number of submissions

ASSUME ScoresAssumption ==
  /\ Owner \in [Conns -> Players]
  /\ Players \subseteq Nat /\ Names \subseteq Nat /\ {UidName, NewName, Nickname} \subseteq Names
  /\ Submissions \subseteq Nat /\ Battles \subseteq Nat
  /\ Starts \subseteq Int /\ Counts \subseteq Int
  /\ {MaxPage, MaxInt32, MaxExact, MaxSubmits} \subseteq Nat /\ MaxExact % 4 = 0

VARIABLES
  name,       \* players.nickname, NoName when there is no row
  best,       \* players.best_score
  records,    \* score_records: the submissions archived
  board,      \* rank:1, from members to scores
  open,       \* whether the stores are open
  pc,         \* where the handler is, SubmitScore or a login
  row,        \* the row that a login will write back
  job,        \* the submission that SubmitScore handles
  nick,       \* the nickname it read
  writers,    \* the submissions whose goroutine has still to archive them
  submits,    \* how many there were
  told,       \* the best score in the last answer to a connection, and
  stored      \* the scores written to best_score, since a row was last written whole

stores  == <<name, best, records, board, open>>
locals  == <<pc, row, job, nick>>
history == <<submits, told, stored>>
vars    == <<stores, locals, writers, history>>

Members == Players \X Names
Jobs    == [id : Nat, player : Players, score : Nat]
NoJob   == [id |-> 0, score |-> 0]
NoName  == -1
Rows    == [name : Names, best : Nat]
NoRow   == [name |-> UidName, best |-> 0]

\* A submission is being handled.
Submitting(c) == pc[c] \in {"name", "rank", "best", "reread"}

TypeOK ==
  /\ name \in [Players -> Names \union {NoName}]
  /\ best \in [Players -> Nat]
  /\ records \subseteq Jobs
  /\ DOMAIN board \subseteq Members
  /\ \A m \in DOMAIN board : board[m] \in Nat
  /\ open \in BOOLEAN
  /\ pc \in [Conns -> {"idle", "naming", "token", "name", "rank", "best", "reread"}]
  /\ row \in [Conns -> Rows]
  /\ job \in [Conns -> Jobs \union {NoJob}]
  /\ \A c \in Conns : Submitting(c) => job[c] \in Jobs
  /\ nick \in [Conns -> Names]
  /\ writers \subseteq Jobs
  /\ writers \intersect records = {}
  /\ submits \in 0..MaxSubmits
  /\ told \in [Conns -> Nat]
  /\ stored \in [Players -> SUBSET Nat]

Init ==
  /\ name \in [Players -> {NoName, Nickname}]
  /\ best = [p \in Players |-> 0]
  /\ records = {}
  /\ board = [m \in {} |-> 0]
  /\ open = TRUE
  /\ pc = [c \in Conns |-> "idle"]
  /\ row = [c \in Conns |-> NoRow]
  /\ job = [c \in Conns |-> NoJob]
  /\ nick = [c \in Conns |-> UidName]
  /\ writers = {}
  /\ submits = 0
  /\ told = [c \in Conns |-> 0]
  /\ stored = [p \in Players |-> {}]

Goto(c, from, to) == pc[c] = from /\ pc' = [pc EXCEPT ![c] = to]

-----------------------------------------------------------------------------
(* SubmitScore                                                               *)

\* A score that is not negative; a session is that of a player who has a row.
SubmitScore(c, score) ==
  LET p == Owner[c]
  IN  /\ open /\ name[p] # NoName /\ submits < MaxSubmits
      /\ Goto(c, "idle", "name")
      /\ submits' = submits + 1
      /\ job' = [job EXCEPT ![c] = [id |-> submits', player |-> p, score |-> score]]
      /\ UNCHANGED <<stores, row, nick, writers, told, stored>>

\* The nickname, or the uid when the query fails.
ReadNickname(c) ==
  /\ Goto(c, "name", "rank")
  /\ \E n \in {name[Owner[c]], UidName} \ {NoName} : nick' = [nick EXCEPT ![c] = n]
  /\ UNCHANGED <<stores, row, job, writers, history>>

\* The score as Redis holds it, a float64: between MaxExact and its double only even
\* numbers, an odd one becoming the multiple of 4 next to it.
Float(s) ==
  IF s <= MaxExact \/ s % 2 = 0 THEN s
  ELSE IF s % 4 = 1 THEN s - 1 ELSE s + 1

\* RedisStore.UpdateRank: ZADD, which replaces the score of a member.
UpdateRank(m, score) ==
  board' = [x \in DOMAIN board \union {m} |-> IF x = m THEN Float(score) ELSE board[x]]

\* Its failure is only logged.  The goroutine that archives the score is started.
RankAndSpawn(c) ==
  /\ Goto(c, "rank", "best")
  /\ UpdateRank(<<Owner[c], nick[c]>>, job[c].score) \/ UNCHANGED board
  /\ writers' = writers \union {job[c]}
  /\ UNCHANGED <<name, best, records, open, row, job, nick, history>>

\* mutant: the condition is missing
StoreLast(p, score) ==
  /\ best' = [best EXCEPT ![p] = score]
  /\ stored' = [stored EXCEPT ![p] = @ \union {score}]

\* The conditional UPDATE, which does nothing unless the score is higher.
StoreBest(p, score) ==
  /\ best' = [best EXCEPT ![p] = IF @ < score THEN score ELSE @]
  /\ stored' = [stored EXCEPT ![p] = @ \union {score}]

\* The handler answers and its local variables are gone.
Return(c, bestScore) ==
  /\ pc' = [pc EXCEPT ![c] = "idle"]
  /\ job' = [job EXCEPT ![c] = NoJob]
  /\ nick' = [nick EXCEPT ![c] = UidName]
  /\ told' = [told EXCEPT ![c] = bestScore]

\* No error: the answer names the score just submitted.
UpdateBestScore(c) ==
  /\ pc[c] = "best"
  /\ StoreBest(Owner[c], job[c].score)
  /\ Return(c, job[c].score)
  /\ UNCHANGED <<name, records, board, open, row, writers, submits>>

\* An error, with or without effect: the player is read again.
UpdateBestFails(c) ==
  /\ Goto(c, "best", "reread")
  /\ StoreBest(Owner[c], job[c].score) \/ UNCHANGED <<best, stored>>
  /\ UNCHANGED <<name, records, board, open, row, job, nick, writers, submits, told>>

\* When that fails too, the answer names 0.
Reread(c) ==
  /\ pc[c] = "reread"
  /\ \E score \in {best[Owner[c]], 0} : Return(c, score)
  /\ UNCHANGED <<stores, row, writers, submits, stored>>

\* The goroutine inserts the row, which may fail and does once the stores are closed.
CreateScoreRecord(j) ==
  /\ j \in writers
  /\ writers' = writers \ {j}
  /\ \/ open /\ records' = records \union {j}
     \/ UNCHANGED records
  /\ UNCHANGED <<name, best, board, open, locals, history>>

-----------------------------------------------------------------------------
(* GetRank, which changes nothing                                            *)

\* ZREVRANGE's order: by score, then by member, the highest first.
Ahead(m, n) ==
  \/ board[m] > board[n]
  \/ /\ board[m] = board[n]
     /\ m[1] > n[1] \/ (m[1] = n[1] /\ m[2] > n[2])

\* The members in that order.
Ranking ==
  LET ranks == 1..Cardinality(DOMAIN board)
  IN  CHOOSE order \in [ranks -> DOMAIN board] :
        \A i, j \in ranks : i < j => Ahead(order[i], order[j])

Count(count) == IF count <= 0 \/ count > MaxPage THEN MaxPage ELSE count
Start(start) == IF start < 0 THEN 0 ELSE start

\* mutant: the last position is not included
StopExclusive(start, count) == Start(start) + Count(count)

\* rankWindow: the 0-based position of the last entry, which must fit an int32.
Stop(start, count) == Start(start) + Count(count) - 1

\* The entries from start to stop, with their ranks.
GetRank(start, count) ==
  LET order == Ranking
      last  == IF Stop(start, count) < Len(order) THEN Stop(start, count) + 1 ELSE Len(order)
      Row(i) == [member |-> order[i], score |-> board[order[i]], rank |-> i]
  IN  [i \in 1..(last - Start(start)) |-> Row(Start(start) + i)]

-----------------------------------------------------------------------------
(* The rest of the server                                                     *)

\* A settlement was committed: its entry is the player's uid twice.
CombatResult(p, score) ==
  /\ open /\ name[p] # NoName
  /\ UpdateRank(<<p, UidName>>, score)
  /\ UNCHANGED <<name, best, records, open, locals, writers, submits, told, stored>>

\* A login reads the row of the player.
ReadPlayer(c) ==
  LET p == Owner[c]
  IN  /\ open /\ name[p] # NoName
      /\ Goto(c, "idle", "token")
      /\ row' = [row EXCEPT ![c] = [name |-> name[p], best |-> best[p]]]
      /\ UNCHANGED <<stores, job, nick, writers, history>>

\* There is none: it inserts one, and puts the nickname into its own copy.
CreatePlayer(c) ==
  LET p == Owner[c]
  IN  /\ open /\ name[p] = NoName
      /\ Goto(c, "idle", "naming")
      /\ name' = [name EXCEPT ![p] = NewName]
      /\ row' = [row EXCEPT ![c] = [name |-> Nickname, best |-> 0]]
      /\ UNCHANGED <<best, records, board, open, job, nick, writers, history>>

\* UpdatePlayer, after the insert and with the token: all columns of the copy.
WriteRow(c) ==
  LET p == Owner[c]
  IN  /\ name' = [name EXCEPT ![p] = row[c].name]
      /\ best' = [best EXCEPT ![p] = row[c].best]
      /\ stored' = [stored EXCEPT ![p] = {row[c].best}]
      /\ told' = [d \in Conns |-> IF Owner[d] = p THEN 0 ELSE told[d]]

\* Without an error the first is followed by the second; an error, with or without
\* effect, ends the login.
UpdatePlayer(c) ==
  /\ \/ Goto(c, "naming", "token") /\ WriteRow(c) /\ UNCHANGED row
     \/ /\ \E at \in {"naming", "token"} : Goto(c, at, "idle")
        /\ row' = [row EXCEPT ![c] = NoRow]
        /\ WriteRow(c) \/ UNCHANGED <<name, best, stored, told>>
  /\ UNCHANGED <<records, board, open, job, nick, writers, submits>>

\* Shutdown has waited for the handlers, not for the goroutines they started.
CloseStores ==
  /\ open
  /\ \A c \in Conns : pc[c] = "idle"
  /\ open' = FALSE
  /\ UNCHANGED <<name, best, records, board, locals, writers, history>>

\* The process ends, with whatever it was doing, and starts again.
Restart ==
  /\ open' = TRUE
  /\ pc' = [c \in Conns |-> "idle"]
  /\ row' = [c \in Conns |-> NoRow]
  /\ job' = [c \in Conns |-> NoJob]
  /\ nick' = [c \in Conns |-> UidName]
  /\ writers' = {}
  /\ UNCHANGED <<name, best, records, board, history>>

-----------------------------------------------------------------------------
HandlerStep(c) ==
  \/ ReadPlayer(c) \/ CreatePlayer(c) \/ UpdatePlayer(c)
  \/ ReadNickname(c) \/ RankAndSpawn(c)
  \/ UpdateBestScore(c) \/ UpdateBestFails(c) \/ Reread(c)

Next ==
  \/ \E c \in Conns : (\E s \in Submissions : SubmitScore(c, s)) \/ HandlerStep(c)
  \/ \E j \in writers : CreateScoreRecord(j)
  \/ \E p \in Players, s \in Battles : CombatResult(p, s)
  \/ CloseStores \/ Restart

Spec == Init /\ [][Next]_vars

-----------------------------------------------------------------------------
(* Safety                                                                    *)

\* Since a login last wrote the row of a player back whole, players.best_score is the
\* highest of what was written to it, the login's own value included, in whatever order
\* the connections of the player write (UpdateBestScore, mysql.go 193-197), and no
\* answer has named a higher one.  It may name a lower one, the score just submitted:
\* an UPDATE that matches no row is no error (handler.go 136).  What a login overwrites
\* is lost; that finding is LoginSession's.
BestIsHighest ==
  /\ \A p \in Players :
       /\ best[p] \in stored[p] \union {0}
       /\ \A s \in stored[p] : s <= best[p]
  /\ \A c \in Conns : told[c] <= best[Owner[c]]

\* "ZADD; if the score is higher it is updated" (redis.go 127): an entry never falls.
RankOnlyRises ==
  [][\A m \in DOMAIN board : m \in DOMAIN board' /\ board'[m] >= board[m]]_vars

\* An answer of GetRank has no more entries than were asked for, each with its place
\* on the whole board, and leaves out none of them (GetRank 36-96).
PageIsWindow ==
  \A s \in Starts, n \in Counts : Stop(s, n) <= MaxInt32 =>
    LET rows     == GetRank(s, n)
        Place(m) == 1 + Cardinality({x \in DOMAIN board : Ahead(x, m)})
        shown    == {m \in DOMAIN board : Place(m) \in Start(s) + 1 .. Start(s) + Count(n)}
    IN  /\ Len(rows) <= Count(n)
        /\ {rows[i] : i \in DOMAIN rows} =
             {[member |-> m, score |-> board[m], rank |-> Place(m)] : m \in shown}

=============================================================================
