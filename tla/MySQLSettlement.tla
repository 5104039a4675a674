-------------------------- MODULE MySQLSettlement --------------------------
(***************************************************************************)
(* The production settlement: combat.Handler.CombatResult and the          *)
(* transaction of MySQLCombatSettlementRepository.Settle, statement by     *)
(* statement, with the other handlers that write the same rows             *)
(* (game.Save, combat.UpdatePlayerStats) or the same entry of the          *)
(* leaderboard (rank.SubmitScore), on any number of connections, of which  *)
(* several may belong to the same player.  Clients retry a run as often as *)
(* they like, also with another payload.  Any statement may fail, the      *)
(* answer of COMMIT may be lost, and the server may crash.                 *)
(*                                                                         *)
(* MySQL (external) is modelled by what the transaction relies on: rows    *)
(* read FOR UPDATE stay locked until the transaction ends, also rows that  *)
(* do not exist yet (gap locks), a statement on a locked row waits, an     *)
(* aborted transaction leaves nothing.  The plain SELECT of the settlement *)
(* row is the transaction's first consistent read, hence its snapshot      *)
(* includes every transaction that held the player's row before.           *)
(***************************************************************************)
EXTENDS SettleRules, CombatRules, FiniteSets

CONSTANTS
  Players, Runs,
  Results,       \* what clients send as the result of a battle, valid or not
  Saves,         \* archives that clients send to game.Save
  Reports,       \* gold values that clients send to combat.UpdatePlayerStats
  Submissions,   \* scores that clients send to rank.SubmitScore
  Conns,         \* connections, each serving one request at a time
  Owner,         \* the player each is logged in as
  NotSettled,    \* marks the absence of a combat_settlements row
  NoRequest      \* what an idle connection handles

ASSUME ResultsAssumption == \A res \in Results : validRunID(res.RunId) => res.RunId \in Runs
ASSUME PolicyAssumption  == GoldPerKill = DefaultCombatConfig.GoldPerKill
ASSUME SavesAssumption  == Saves \subseteq Archives
ASSUME ReportsAssumption == Reports \subseteq Int
ASSUME SubmissionsAssumption == Submissions \subseteq Nat
ASSUME OwnerAssumption  == Owner \in [Conns -> Players]
ASSUME RunsAssumption   == IsFiniteSet(Runs)
ASSUME NotSettledAssumption == NotSettled \notin Responses

\* What the settlement uses of a result, and the results that the handler lets pass:
\* a request, first sent or sent again.
Battle(res) == [run |-> res.RunId, kills |-> res.Kills, score |-> res.Score]
Requests    == {Battle(res) : res \in {sent \in Results : validateCombatResult(sent)}}

VARIABLES
  archive,    \* player_archives, an absent row being the empty archive
  stats,      \* player_stats
  records,    \* how many rows of score_records come from settlements
  settled,    \* combat_settlements: the stored response, or NotSettled
  rank,       \* the player's entry uid:uid of leaderboard 1 in Redis
  pc,         \* where the handler of a connection is
  job,        \* the request it is handling
  resp,       \* its local response
  dup,        \* response.Duplicate
  row,        \* its local copy of the stats row
  told,       \* every response given about a run
  fresh       \* how many of them were not marked as duplicates

tables == <<archive, stats, records, settled>>
locals == <<job, resp, dup, row>>
heard  == <<told, fresh>>
vars   == <<tables, rank, pc, locals, heard>>

\* Which rows of its player a transaction has locked, by how far it is.
StatsLocked   == {"record", "save", "insert", "commit"}
ArchiveLocked == {"stats"} \union StatsLocked
PlayerLocked  == {"lookup", "found", "archive"} \union ArchiveLocked

Locked(p, rows) == \E w \in Conns : Owner[w] = p /\ pc[w] \in rows

\* exists is FALSE for a row that is not there, and for the local copy of one; games
\* stands for the total of kills too, since neither is below zero.
StatsRows == [exists : BOOLEAN, gold : Int, games : Nat, best : Nat]
NoStats   == [exists |-> FALSE, gold |-> 0, games |-> 0, best |-> 0]

\* The credit of updateSettlementStats, which creates the row if need be.
CreditStats(s, q) == [exists |-> TRUE,
                      gold   |-> s.gold + Reward(q),
                      games  |-> s.games + 1,
                      best   |-> Larger(q.score, s.best)]

\* An entry, with the run whose settlement wrote it; none if SubmitScore did, or nobody.
Entries == [score : Nat, runs : SUBSET Runs]
NoEntry == [score |-> 0, runs |-> {}]

TypeOK ==
  /\ archive \in [Players -> Archives]
  /\ stats \in [Players -> StatsRows]
  /\ records \in [Players -> Nat]
  /\ settled \in [Players -> [Runs -> Responses \union {NotSettled}]]
  /\ rank \in [Players -> Entries]
  /\ pc \in [Conns -> PlayerLocked \union {"idle", "lock", "rank", "reply", "report"}]
  /\ job \in [Conns -> Requests \union {NoRequest}]
  /\ \A w \in Conns : pc[w] \notin {"idle", "report"} => job[w] \in Requests
  /\ resp \in [Conns -> Responses \union {NotSettled}]
  /\ dup \in [Conns -> BOOLEAN]
  /\ row \in [Conns -> StatsRows]
  /\ told \in [Players -> [Runs -> SUBSET Responses]]
  /\ fresh \in [Players -> [Runs -> Nat]]

Init ==
  /\ archive = [p \in Players |-> NewArchive]
  /\ stats = [p \in Players |-> NoStats]
  /\ records = [p \in Players |-> 0]
  /\ settled = [p \in Players |-> [r \in Runs |-> NotSettled]]
  /\ rank = [p \in Players |-> NoEntry]
  /\ pc = [w \in Conns |-> "idle"]
  /\ job = [w \in Conns |-> NoRequest]
  /\ resp = [w \in Conns |-> NotSettled]
  /\ dup = [w \in Conns |-> FALSE]
  /\ row = [w \in Conns |-> NoStats]
  /\ told = [p \in Players |-> [r \in Runs |-> {}]]
  /\ fresh = [p \in Players |-> [r \in Runs |-> 0]]

Goto(w, from, to) == pc[w] = from /\ pc' = [pc EXCEPT ![w] = to]

\* The handler returns and its local variables are gone.
Return(w) ==
  /\ pc'   = [pc EXCEPT ![w] = "idle"]
  /\ job'  = [job EXCEPT ![w] = NoRequest]
  /\ resp' = [resp EXCEPT ![w] = NotSettled]
  /\ dup'  = [dup EXCEPT ![w] = FALSE]
  /\ row'  = [row EXCEPT ![w] = NoStats]

-----------------------------------------------------------------------------
(* CombatResult, up to the decision whether the run is a duplicate          *)

\* A result has passed the validation.
CombatResult(w, q) ==
  /\ Goto(w, "idle", "lock")
  /\ job' = [job EXCEPT ![w] = q]
  /\ UNCHANGED <<tables, rank, resp, dup, row, heard>>

\* mutant: the player is read without FOR UPDATE
LockNobody(w) ==
  /\ Goto(w, "lock", "lookup")
  /\ UNCHANGED <<tables, rank, locals, heard>>

\* SELECT the player FOR UPDATE: at most one settlement of a player at a time.
LockPlayer(w) ==
  /\ ~Locked(Owner[w], PlayerLocked)
  /\ Goto(w, "lock", "lookup")
  /\ UNCHANGED <<tables, rank, locals, heard>>

\* mutant: the answer to a retry is computed again from the archive
FoundDuplicateRecomputes(w) ==
  /\ Goto(w, "lookup", "found")
  /\ settled[Owner[w]][job[w].run] # NotSettled
  /\ Fits(archive[Owner[w]], job[w])
  /\ resp' = [resp EXCEPT ![w] = Response(archive[Owner[w]], job[w])]
  /\ dup' = [dup EXCEPT ![w] = TRUE]
  /\ UNCHANGED <<tables, rank, job, row, heard>>

\* mutant: the stored response is returned without marking it
FoundDuplicateUnmarked(w) ==
  /\ Goto(w, "lookup", "found")
  /\ settled[Owner[w]][job[w].run] # NotSettled
  /\ resp' = [resp EXCEPT ![w] = settled[Owner[w]][job[w].run]]
  /\ UNCHANGED <<tables, rank, job, dup, row, heard>>

\* The run has been settled: its stored response, marked as a duplicate, ...
FoundDuplicate(w) ==
  LET stored == settled[Owner[w]][job[w].run]
  IN  /\ Goto(w, "lookup", "found")
      /\ stored # NotSettled
      /\ resp' = [resp EXCEPT ![w] = stored]
      /\ dup' = [dup EXCEPT ![w] = TRUE]
      /\ UNCHANGED <<tables, rank, job, row, heard>>

\* ... is returned once the transaction has ended.
EndDuplicate(w) ==
  /\ Goto(w, "found", "reply")
  /\ UNCHANGED <<tables, rank, locals, heard>>

\* mutant: the lookup is skipped
FoundNothingUnchecked(w) ==
  /\ Goto(w, "lookup", "archive")
  /\ UNCHANGED <<tables, rank, locals, heard>>

FoundNothing(w) ==
  /\ Goto(w, "lookup", "archive")
  /\ settled[Owner[w]][job[w].run] = NotSettled
  /\ UNCHANGED <<tables, rank, locals, heard>>

-----------------------------------------------------------------------------
(* The writes of the transaction; they become visible with its commit       *)

\* SELECT the archive FOR UPDATE and settleArchive.
ReadArchive(w) ==
  /\ Goto(w, "archive", "stats")
  /\ Fits(archive[Owner[w]], job[w])
  /\ resp' = [resp EXCEPT ![w] = Response(archive[Owner[w]], job[w])]
  /\ dup' = [dup EXCEPT ![w] = FALSE]
  /\ UNCHANGED <<tables, rank, job, row, heard>>

\* SELECT the stats row FOR UPDATE, credit it and write it (updateSettlementStats).
UpdateSettlementStats(w) ==
  /\ stats[Owner[w]].games # MaxInt64
  /\ Goto(w, "stats", "record")
  /\ row' = [row EXCEPT ![w] = CreditStats(stats[Owner[w]], job[w])]
  /\ UNCHANGED <<tables, rank, job, resp, dup, heard>>

\* INSERT the score record, upsert the archive, INSERT the settlement row.  The
\* last may report a duplicate key; NoDuplicateKey says that it never does, so
\* the second lookup of Settle (lines 106-118) has no action.
InsertScoreRecord(w) ==
  /\ Goto(w, "record", "save")
  /\ UNCHANGED <<tables, rank, locals, heard>>

UpsertArchive(w) ==
  /\ Goto(w, "save", "insert")
  /\ UNCHANGED <<tables, rank, locals, heard>>

InsertSettlement(w) ==
  /\ Goto(w, "insert", "commit")
  /\ UNCHANGED <<tables, rank, locals, heard>>

\* The commit itself.  The handler learns of it and goes on, or sees an error
\* though the transaction is committed and answers ErrInternal.
Commit(w) ==
  LET p == Owner[w]
  IN  /\ pc[w] = "commit"
      /\ \/ Goto(w, "commit", "rank") /\ UNCHANGED locals
         \/ Return(w)
      /\ archive' = [archive EXCEPT ![p] = resp[w].archive]
      /\ stats'   = [stats EXCEPT ![p] = row[w]]
      /\ records' = [records EXCEPT ![p] = @ + 1]
      /\ settled' = [settled EXCEPT ![p][job[w].run] = resp[w]]
      /\ UNCHANGED <<rank, heard>>

\* mutant: the error of the transaction is only logged
AbortIgnored(w) ==
  /\ \E from \in PlayerLocked \union {"lock"} : Goto(w, from, "rank")
  /\ UNCHANGED <<tables, rank, locals, heard>>

\* A statement fails, InnoDB aborts the transaction as a deadlock victim, a lock
\* wait times out, COMMIT fails, or an overflow is refused: ROLLBACK, and
\* ErrInternal to the client.
Abort(w) ==
  /\ pc[w] \in PlayerLocked \union {"lock"}
  /\ Return(w)
  /\ UNCHANGED <<tables, rank, heard>>

-----------------------------------------------------------------------------
(* After the transaction                                                     *)

\* UpdateRank for a fresh settlement; its failure is only logged.
SyncRank(w) ==
  /\ Goto(w, "rank", "reply")
  /\ \/ rank' = [rank EXCEPT ![Owner[w]] = [score |-> job[w].score, runs |-> {job[w].run}]]
     \/ UNCHANGED rank
  /\ UNCHANGED <<tables, locals, heard>>

Reply(w) ==
  LET p == Owner[w]
      r == job[w].run
  IN  /\ pc[w] = "reply"
      /\ Return(w)
      /\ told' = [told EXCEPT ![p][r] = @ \union {resp[w]}]
      /\ fresh' = [fresh EXCEPT ![p][r] = IF dup[w] THEN @ ELSE @ + 1]
      /\ UNCHANGED <<tables, rank>>

-----------------------------------------------------------------------------
(* The other handlers that write the same rows                               *)

\* mutant: the settlement reads the archive without FOR UPDATE
SaveArchiveAnyTime(w, a) ==
  /\ pc[w] = "idle"
  /\ archive' = [archive EXCEPT ![Owner[w]] = a]
  /\ UNCHANGED <<stats, records, settled, rank, pc, locals, heard>>

\* game.Save: one upsert of the archive row.
SaveArchive(w, a) ==
  /\ pc[w] = "idle"
  /\ ~Locked(Owner[w], ArchiveLocked)
  /\ archive' = [archive EXCEPT ![Owner[w]] = a]
  /\ UNCHANGED <<stats, records, settled, rank, pc, locals, heard>>

\* combat.UpdatePlayerStats reads the stats row without a lock, replaces the
\* reported columns in its copy ...
ReadStats(w, gold) ==
  /\ Goto(w, "idle", "report")
  /\ row' = [row EXCEPT ![w] = [stats[Owner[w]] EXCEPT !.gold = gold]]
  /\ UNCHANGED <<tables, rank, job, resp, dup, heard>>

\* ... and writes all columns back.  It fails when it read no row and inserts one
\* that is there now, and when the statement fails.
SaveStats(w) ==
  /\ ~Locked(Owner[w], StatsLocked)
  /\ pc[w] = "report"
  /\ Return(w)
  /\ \/ /\ row[w].exists \/ ~stats[Owner[w]].exists
        /\ stats' = [stats EXCEPT ![Owner[w]] = [row[w] EXCEPT !.exists = TRUE]]
     \/ UNCHANGED stats
  /\ UNCHANGED <<archive, records, settled, rank, heard>>

\* rank.SubmitScore writes whatever score a client sends, to the same entry when the
\* player's nickname is its id or could not be read.
SubmitScore(w, score) ==
  /\ pc[w] = "idle"
  /\ rank' = [rank EXCEPT ![Owner[w]] = [score |-> score, runs |-> {}]]
  /\ UNCHANGED <<tables, pc, locals, heard>>

\* The server crashes and restarts; MySQL rolls the open transactions back.
Crash ==
  /\ pc'   = [w \in Conns |-> "idle"]
  /\ job'  = [w \in Conns |-> NoRequest]
  /\ resp' = [w \in Conns |-> NotSettled]
  /\ dup'  = [w \in Conns |-> FALSE]
  /\ row'  = [w \in Conns |-> NoStats]
  /\ UNCHANGED <<tables, rank, heard>>

-----------------------------------------------------------------------------
HandlerStep(w) ==
  \/ LockPlayer(w) \/ FoundDuplicate(w) \/ EndDuplicate(w) \/ FoundNothing(w)
  \/ ReadArchive(w) \/ UpdateSettlementStats(w) \/ InsertScoreRecord(w)
  \/ UpsertArchive(w) \/ InsertSettlement(w) \/ Commit(w) \/ Abort(w)
  \/ SyncRank(w) \/ Reply(w) \/ SaveStats(w)

Next ==
  \/ \E w \in Conns :
       \/ \E q \in Requests : CombatResult(w, q)
       \/ \E a \in Saves : SaveArchive(w, a)
       \/ \E gold \in Reports : ReadStats(w, gold)
       \/ \E score \in Submissions : SubmitScore(w, score)
       \/ HandlerStep(w)
  \/ Crash

Spec == Init /\ [][Next]_vars

-----------------------------------------------------------------------------
(* Safety                                                                     *)

\* Every answer about a run repeats the response stored with its settlement, also
\* when the retry carried another payload or ran on another connection at the
\* same time (Settle 49-60).
AnswersAgree ==
  \A p \in Players, r \in Runs : told[p][r] \subseteq {settled[p][r]}

\* At most one answer about a run says that it is the first: the reward is shown
\* and the leaderboard written once (CombatResult 62).
OneFreshAnswer == \A p \in Players, r \in Runs : fresh[p][r] <= 1

\* One score record for each settled run, whatever failed or crashed in between
\* (README: "one per game"): Settle 80-103 is all or nothing.
RecordPerRun ==
  \A p \in Players :
    records[p] = Cardinality({r \in Runs : settled[p][r] # NotSettled})

\* The unique key (player_id, run_id) never has to refuse the insert: the row lock
\* on the player already excludes a second settlement of the run (Settle 43, 98).
NoDuplicateKey ==
  \A w \in Conns : pc[w] = "insert" => settled[Owner[w]][job[w].run] = NotSettled

\* What a settlement writes to the leaderboard is the score of a run that was settled,
\* also when an answer was lost, the request is a retry or the server has crashed since
\* (CombatResult 58-66): never more than the best score that its response names.  The
\* other writer of the leaderboard, SubmitScore, shows what clients claim.
RankIsSettled ==
  \A p \in Players : \A r \in rank[p].runs :
    settled[p][r] # NotSettled /\ rank[p].score <= settled[p][r].archive.best

\* A reward that was paid is one that the run could have earned: of a result of that
\* run, in a dungeon that clients are told of, whose kills are at most rooms *
\* density * 3 (config.go 26) without any rounding, and whose score is at most 10000
\* a level.  A float32 that is rounded up must not let one kill more pass.
RewardIsEarned ==
  \A p \in Players, r \in Runs :
    settled[p][r] # NotSettled =>
      \E res \in Results :
        LET answer == DungeonAnswer(res.DungeonLevel)
        IN  /\ res.RunId = r
            /\ settled[p][r].gold = DefaultCombatConfig.GoldPerKill * res.Kills
            /\ answer.found /\ answer.dungeon.BossId \in answer.enemies
            /\ 20 * res.Kills <= answer.dungeon.RoomCount * Twentieths(res.DungeonLevel) * 3
            /\ res.Score <= 10000 * res.DungeonLevel
            /\ getStyleConfig(res.StyleId)

\* The best score and the totals of the stats row are those of all games played
\* (player_stats.go 16-18): they never fall.  UpdatePlayerStats breaks it.
StatsAccumulate ==
  [][\A p \in Players : stats'[p].best >= stats[p].best /\ stats'[p].games >= stats[p].games]_vars

\* The transaction implements the promise to the game: its commit credits the
\* archive as it is at that moment, although the archive was read earlier and a
\* client may save its own archive at any time.
Promise == INSTANCE SettleOnce

SettledOnce == Promise!Spec

=============================================================================
