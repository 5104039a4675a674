-------------------------- MODULE SettlementProofs --------------------------
(***************************************************************************)
(* The settlement of MySQLSettlement, for any number of players, runs and  *)
(* connections: its safety properties, that it implements SettleOnce, what *)
(* no step may change, and that a reward was earned, because the cap on    *)
(* kills is right although it is computed with a float32.                  *)
(***************************************************************************)
EXTENDS MySQLSettlement, FiniteSetTheorems, TLAPS

USE DEF PlayerLocked, ArchiveLocked, StatsLocked

-----------------------------------------------------------------------------
(* The inductive invariant                                                   *)

\* At most one transaction of a player has passed the lock on its row.
LockInv ==
  \A v, w \in Conns :
    (Owner[v] = Owner[w] /\ pc[v] \in PlayerLocked /\ pc[w] \in PlayerLocked) => v = w

\* What a transaction has read is still so when it commits.
ReadInv ==
  \A w \in Conns :
    /\ pc[w] \in {"archive"} \union ArchiveLocked => settled[Owner[w]][job[w].run] = NotSettled
    /\ pc[w] \in ArchiveLocked =>
         /\ Fits(archive[Owner[w]], job[w])
         /\ resp[w] = Response(archive[Owner[w]], job[w])
         /\ ~dup[w]

\* After the transaction the handler holds what the table holds.
ResponseInv ==
  \A w \in Conns :
    /\ pc[w] \in {"found", "rank", "reply"} =>
         resp[w] # NotSettled /\ resp[w] = settled[Owner[w]][job[w].run]
    /\ pc[w] = "found" => dup[w]
    /\ pc[w] = "rank" => ~dup[w] /\ job[w].score <= resp[w].archive.best

\* A handler that is about to give the first answer about a run.
FirstAnswer(w) == pc[w] \in {"rank", "reply"} /\ ~dup[w]

\* One handler at most is about to, and none once it has been given.
FreshInv ==
  /\ \A p \in Players, r \in Runs : settled[p][r] = NotSettled => fresh[p][r] = 0
  /\ \A w \in Conns : FirstAnswer(w) => fresh[Owner[w]][job[w].run] = 0
  /\ \A v, w \in Conns :
       (FirstAnswer(v) /\ FirstAnswer(w) /\ Owner[v] = Owner[w] /\ job[v].run = job[w].run)
         => v = w

Inv == /\ TypeOK /\ LockInv /\ ReadInv /\ ResponseInv
       /\ FreshInv /\ AnswersAgree /\ OneFreshAnswer /\ RecordPerRun /\ RankIsSettled

-----------------------------------------------------------------------------
(* Data                                                                      *)

\* What has passed the validation is a request (validateCombatResult).
LEMMA RequestsAreValid == \A q \in Requests : q.run \in Runs /\ IsRequest(q)
<1> SUFFICES ASSUME NEW res \in Results, validateCombatResult(res)
             PROVE  Battle(res).run \in Runs /\ IsRequest(Battle(res))
  BY DEF Requests
<1>1. res.RunId \in Runs
  BY ResultsAssumption DEF validateCombatResult
<1>2. res.Kills \in Nat /\ res.Score \in Nat
  BY DEF validateCombatResult
<1> QED
  BY <1>1, <1>2 DEF Battle, IsRequest

\* A number of kills that fits does not take the total beyond its column.
LEMMA KillsFit ==
  ASSUME NEW total \in Int64, NEW kills \in Nat, kills <= KillsRoom(total)
  PROVE  total \in Nat /\ total + kills \in Int64
BY RulesAssumption DEF Int64, KillsRoom

\* A request names a run and its reward is a natural number.
LEMMA RequestType ==
  ASSUME NEW q \in Requests
  PROVE  q.run \in Runs /\ q.kills \in Nat /\ q.score \in Nat /\ Reward(q) \in Nat
<1>1. q.run \in Runs /\ q.kills \in Nat /\ q.score \in Nat
  BY RequestsAreValid DEF IsRequest
<1>2. Reward(q) \in Nat
  BY <1>1, RulesAssumption DEF Reward
<1> QED
  BY <1>1, <1>2

\* A credit that fits is an archive again (settlement.go 24-46).
LEMMA ResponseType ==
  ASSUME NEW a \in Archives, NEW q \in Requests, Fits(a, q)
  PROVE  /\ Response(a, q) \in Responses
         /\ Response(a, q).archive = Credit(a, q)
         /\ q.score <= Response(a, q).archive.best
<1>1. q.kills \in Nat /\ q.score \in Nat /\ Reward(q) \in Nat
  BY RequestType
<1>2. /\ a = [gold |-> a.gold, kills |-> a.kills, games |-> a.games, best |-> a.best]
      /\ a.gold \in Int32 /\ a.kills \in Int64 /\ a.games \in Int64 /\ a.best \in Int
  BY DEF Archives
<1>3. Credit(a, q) \in Archives
  <2>1. a.gold + Reward(q) \in Int32
    BY <1>1, <1>2, RulesAssumption DEF Fits, Int32
  <2>2. a.kills + q.kills \in Int64
    BY <1>1, <1>2, KillsFit DEF Fits
  <2>3. a.games + 1 \in Int64
    BY <1>2, RulesAssumption DEF Fits, Int64
  <2>4. Larger(q.score, a.best) \in Int
    BY <1>1, <1>2 DEF Larger
  <2> QED
    BY <2>1, <2>2, <2>3, <2>4 DEF Credit, Archives
<1>4. Reward(q) \in 0..MaxInt32
  BY <1>1, RulesAssumption DEF Fits
<1>5. q.score <= Credit(a, q).best
  BY <1>1, <1>2 DEF Credit, Larger
<1> QED
  BY <1>3, <1>4, <1>5 DEF Response, Responses

-----------------------------------------------------------------------------
(* Types                                                                     *)

\* SaveStats writes back the row it read, and the row then exists.
LEMMA SavedRowType ==
  ASSUME NEW s \in StatsRows
  PROVE  [s EXCEPT !.exists = TRUE] \in StatsRows
BY DEF StatsRows

\* Every step keeps the types; a commit stores an archive that fits.
LEMMA TypeStep ==
  ASSUME Inv, [Next]_vars
  PROVE  TypeOK'
<1> USE OwnerAssumption DEF TypeOK
<1> USE DEF Inv
<1>1. ASSUME NEW w \in Conns, NEW q \in Requests, CombatResult(w, q) PROVE TypeOK'
  BY <1>1 DEF CombatResult, Goto, tables, heard
<1>2. ASSUME NEW w \in Conns, LockPlayer(w) PROVE TypeOK'
  <2>1. pc[w] = "lock" /\ pc' = [pc EXCEPT ![w] = "lookup"] /\ UNCHANGED <<tables, rank, locals, heard>>
    BY <1>2 DEF LockPlayer, Goto
  <2> QED
    BY <2>1 DEF tables, locals, heard
<1>3. ASSUME NEW w \in Conns, FoundDuplicate(w) PROVE TypeOK'
  <2>1. job[w] \in Requests /\ job[w].run \in Runs /\ Owner[w] \in Players
    BY <1>3, RequestType DEF FoundDuplicate, Goto
  <2>2. settled[Owner[w]][job[w].run] \in Responses \union {NotSettled}
    BY <2>1
  <2> QED
    BY <2>1, <2>2, <1>3 DEF FoundDuplicate, Goto, tables, heard
<1>4. ASSUME NEW w \in Conns, EndDuplicate(w) PROVE TypeOK'
  BY <1>4 DEF EndDuplicate, Goto, tables, locals, heard
<1>5. ASSUME NEW w \in Conns, FoundNothing(w) PROVE TypeOK'
  BY <1>5 DEF FoundNothing, Goto, tables, locals, heard
<1>6. ASSUME NEW w \in Conns, ReadArchive(w) PROVE TypeOK'
  <2>1. archive[Owner[w]] \in Archives /\ job[w] \in Requests
    BY <1>6 DEF ReadArchive, Goto
  <2>2. Response(archive[Owner[w]], job[w]) \in Responses
    BY <2>1, <1>6, ResponseType DEF ReadArchive
  <2> QED
    BY <2>1, <2>2, <1>6 DEF ReadArchive, Goto, tables, heard
<1>7. ASSUME NEW w \in Conns, UpdateSettlementStats(w) PROVE TypeOK'
  <2>1. stats[Owner[w]] \in StatsRows /\ job[w] \in Requests
    BY <1>7 DEF UpdateSettlementStats, Goto
  <2>2. CreditStats(stats[Owner[w]], job[w]) \in StatsRows
    BY <2>1, RequestType DEF CreditStats, StatsRows, Larger
  <2> QED
    BY <2>1, <2>2, <1>7 DEF UpdateSettlementStats, Goto, tables, heard
<1>8. ASSUME NEW w \in Conns, InsertScoreRecord(w) PROVE TypeOK'
  BY <1>8 DEF InsertScoreRecord, Goto, tables, locals, heard
<1>9. ASSUME NEW w \in Conns, UpsertArchive(w) PROVE TypeOK'
  BY <1>9 DEF UpsertArchive, Goto, tables, locals, heard
<1>10. ASSUME NEW w \in Conns, InsertSettlement(w) PROVE TypeOK'
  BY <1>10 DEF InsertSettlement, Goto, tables, locals, heard
<1>11. ASSUME NEW w \in Conns, Commit(w) PROVE TypeOK'
  <2>1. /\ archive[Owner[w]] \in Archives /\ job[w] \in Requests /\ job[w].run \in Runs
        /\ Owner[w] \in Players
    BY <1>11, RequestType DEF Commit
  <2>2. resp[w] \in Responses /\ resp[w].archive \in Archives
    BY <2>1, <1>11, ResponseType DEF Commit, ReadInv, Responses
  <2>3. /\ archive' \in [Players -> Archives]
        /\ stats' \in [Players -> StatsRows]
        /\ records' \in [Players -> Nat]
        /\ settled' \in [Players -> [Runs -> Responses \union {NotSettled}]]
        /\ rank' \in [Players -> Entries]
        /\ told' \in [Players -> [Runs -> SUBSET Responses]]
        /\ fresh' \in [Players -> [Runs -> Nat]]
    BY <2>1, <2>2, <1>11 DEF Commit, heard
  <2>4. CASE Goto(w, "commit", "rank") /\ UNCHANGED locals
    BY <2>3, <2>4 DEF Goto, locals
  <2>5. CASE Return(w)
    BY <2>3, <2>5 DEF Return, NoStats, StatsRows
  <2> QED
    BY <2>4, <2>5, <1>11 DEF Commit
<1>12. ASSUME NEW w \in Conns, Abort(w) PROVE TypeOK'
  BY <1>12 DEF Abort, Return, tables, heard, NoStats, StatsRows
<1>13. ASSUME NEW w \in Conns, SyncRank(w) PROVE TypeOK'
  <2>1. job[w] \in Requests /\ job[w].score \in Nat /\ job[w].run \in Runs
    BY <1>13, RequestType DEF SyncRank, Goto
  <2>2. [score |-> job[w].score, runs |-> {job[w].run}] \in Entries
    BY <2>1 DEF Entries
  <2>3. rank' \in [Players -> Entries]
    BY <2>2, <1>13 DEF SyncRank
  <2> QED
    BY <2>3, <1>13 DEF SyncRank, Goto, tables, locals, heard
<1>14. ASSUME NEW w \in Conns, Reply(w) PROVE TypeOK'
  <2>1. job[w] \in Requests /\ job[w].run \in Runs /\ Owner[w] \in Players
    BY <1>14, RequestType DEF Reply
  <2>2. resp[w] \in Responses
    BY <1>14 DEF Reply, ResponseInv
  <2>3. told' \in [Players -> [Runs -> SUBSET Responses]]
    BY <2>1, <2>2, <1>14 DEF Reply
  <2>4. fresh' \in [Players -> [Runs -> Nat]]
    BY <2>1, <1>14 DEF Reply
  <2> QED
    BY <2>3, <2>4, <1>14 DEF Reply, Return, tables, NoStats, StatsRows
<1>15. ASSUME NEW w \in Conns, NEW a \in Saves, SaveArchive(w, a) PROVE TypeOK'
  BY <1>15, SavesAssumption DEF SaveArchive, locals, heard
<1>16. ASSUME NEW w \in Conns, NEW gold \in Reports, ReadStats(w, gold) PROVE TypeOK'
  <2>1. stats[Owner[w]] \in StatsRows
    OBVIOUS
  <2>2. [stats[Owner[w]] EXCEPT !.gold = gold] \in StatsRows
    BY <2>1, ReportsAssumption DEF StatsRows
  <2> QED
    BY <2>2, <1>16 DEF ReadStats, Goto, tables, heard
<1>17. ASSUME NEW w \in Conns, SaveStats(w) PROVE TypeOK'
  <2>0. row[w] \in StatsRows
    OBVIOUS
  <2>1. [row[w] EXCEPT !.exists = TRUE] \in StatsRows
    BY <2>0, SavedRowType
  <2>2. stats' = stats \/ stats' = [stats EXCEPT ![Owner[w]] = [row[w] EXCEPT !.exists = TRUE]]
    BY <1>17 DEF SaveStats
  <2>3. stats' \in [Players -> StatsRows]
    BY <2>1, <2>2
  <2> QED
    BY <2>3, <1>17 DEF SaveStats, Return, heard, NoStats, StatsRows
<1>18. CASE Crash
  BY <1>18 DEF Crash, tables, heard, NoStats, StatsRows
<1>19. CASE UNCHANGED vars
  BY <1>19 DEF vars, tables, locals, heard
<1>20. ASSUME NEW w \in Conns, NEW score \in Submissions, SubmitScore(w, score) PROVE TypeOK'
  <2>1. [score |-> score, runs |-> {}] \in Entries
    BY SubmissionsAssumption DEF Entries
  <2> QED
    BY <1>20, <2>1 DEF SubmitScore, tables, locals, heard
<1> QED
  BY <1>1, <1>2, <1>3, <1>4, <1>5, <1>6, <1>7, <1>8, <1>9, <1>10,
     <1>11, <1>12, <1>13, <1>14, <1>15, <1>16, <1>17, <1>18, <1>19, <1>20 DEF Next, HandlerStep

-----------------------------------------------------------------------------
(* The lock on the player and what it protects                               *)

\* A handler enters the transaction only when no other of its player is in it.
LEMMA LockStep ==
  ASSUME Inv, [Next]_vars
  PROVE  LockInv'
<1> USE OwnerAssumption DEF TypeOK, LockInv
<1> USE DEF Inv
<1>1. ASSUME NEW w \in Conns, NEW q \in Requests, CombatResult(w, q) PROVE LockInv'
  BY <1>1 DEF CombatResult, Goto, tables, heard
<1>2. ASSUME NEW w \in Conns, LockPlayer(w) PROVE LockInv'
  BY <1>2 DEF LockPlayer, Locked, Goto, tables, locals, heard
<1>3. ASSUME NEW w \in Conns, FoundDuplicate(w) PROVE LockInv'
  BY <1>3 DEF FoundDuplicate, Goto, tables, heard
<1>4. ASSUME NEW w \in Conns, EndDuplicate(w) PROVE LockInv'
  BY <1>4 DEF EndDuplicate, Goto, tables, locals, heard
<1>5. ASSUME NEW w \in Conns, FoundNothing(w) PROVE LockInv'
  BY <1>5 DEF FoundNothing, Goto, tables, locals, heard
<1>6. ASSUME NEW w \in Conns, ReadArchive(w) PROVE LockInv'
  BY <1>6 DEF ReadArchive, Goto, tables, heard
<1>7. ASSUME NEW w \in Conns, UpdateSettlementStats(w) PROVE LockInv'
  BY <1>7 DEF UpdateSettlementStats, Goto, tables, heard
<1>8. ASSUME NEW w \in Conns, InsertScoreRecord(w) PROVE LockInv'
  BY <1>8 DEF InsertScoreRecord, Goto, tables, locals, heard
<1>9. ASSUME NEW w \in Conns, UpsertArchive(w) PROVE LockInv'
  BY <1>9 DEF UpsertArchive, Goto, tables, locals, heard
<1>10. ASSUME NEW w \in Conns, InsertSettlement(w) PROVE LockInv'
  BY <1>10 DEF InsertSettlement, Goto, tables, locals, heard
<1>11. ASSUME NEW w \in Conns, Commit(w) PROVE LockInv'
  BY ZenonT(40), <1>11 DEF Commit, Goto, Return, locals, heard
<1>12. ASSUME NEW w \in Conns, Abort(w) PROVE LockInv'
  BY <1>12 DEF Abort, Return, tables, heard
<1>13. ASSUME NEW w \in Conns, SyncRank(w) PROVE LockInv'
  BY <1>13 DEF SyncRank, Goto, tables, locals, heard
<1>14. ASSUME NEW w \in Conns, Reply(w) PROVE LockInv'
  BY <1>14 DEF Reply, Return, tables
<1>15. ASSUME NEW w \in Conns, NEW a \in Saves, SaveArchive(w, a) PROVE LockInv'
  BY <1>15 DEF SaveArchive, locals, heard
<1>16. ASSUME NEW w \in Conns, NEW gold \in Reports, ReadStats(w, gold) PROVE LockInv'
  BY <1>16 DEF ReadStats, Goto, tables, heard
<1>17. ASSUME NEW w \in Conns, SaveStats(w) PROVE LockInv'
  BY <1>17 DEF SaveStats, Return, heard
<1>18. CASE Crash
  BY <1>18 DEF Crash, tables, heard
<1>19. CASE UNCHANGED vars
  BY <1>19 DEF vars, tables, locals, heard
<1>20. ASSUME NEW w \in Conns, NEW score \in Submissions, SubmitScore(w, score) PROVE LockInv'
  BY <1>20 DEF SubmitScore, tables, locals, heard
<1> QED
  BY <1>1, <1>2, <1>3, <1>4, <1>5, <1>6, <1>7, <1>8, <1>9, <1>10,
     <1>11, <1>12, <1>13, <1>14, <1>15, <1>16, <1>17, <1>18, <1>19, <1>20 DEF Next, HandlerStep

\* The rows a transaction has read change only with its own commit: the others of
\* its player are outside of the transaction, and a client's save waits for it.
LEMMA ReadStep ==
  ASSUME Inv, [Next]_vars
  PROVE  ReadInv'
<1> USE OwnerAssumption DEF TypeOK, ReadInv
<1> USE DEF Inv
<1>1. ASSUME NEW w \in Conns, NEW q \in Requests, CombatResult(w, q) PROVE ReadInv'
  BY <1>1 DEF CombatResult, Goto, tables, heard
<1>2. ASSUME NEW w \in Conns, LockPlayer(w) PROVE ReadInv'
  BY <1>2 DEF LockPlayer, Goto, tables, locals, heard
<1>3. ASSUME NEW w \in Conns, FoundDuplicate(w) PROVE ReadInv'
  BY <1>3 DEF FoundDuplicate, Goto, tables, heard
<1>4. ASSUME NEW w \in Conns, EndDuplicate(w) PROVE ReadInv'
  BY <1>4 DEF EndDuplicate, Goto, tables, locals, heard
<1>5. ASSUME NEW w \in Conns, FoundNothing(w) PROVE ReadInv'
  BY <1>5 DEF FoundNothing, Goto, tables, locals, heard
<1>6. ASSUME NEW w \in Conns, ReadArchive(w) PROVE ReadInv'
  BY <1>6 DEF ReadArchive, Goto, tables, heard
<1>7. ASSUME NEW w \in Conns, UpdateSettlementStats(w) PROVE ReadInv'
  BY <1>7 DEF UpdateSettlementStats, Goto, tables, heard
<1>8. ASSUME NEW w \in Conns, InsertScoreRecord(w) PROVE ReadInv'
  BY <1>8 DEF InsertScoreRecord, Goto, tables, locals, heard
<1>9. ASSUME NEW w \in Conns, UpsertArchive(w) PROVE ReadInv'
  BY <1>9 DEF UpsertArchive, Goto, tables, locals, heard
<1>10. ASSUME NEW w \in Conns, InsertSettlement(w) PROVE ReadInv'
  BY <1>10 DEF InsertSettlement, Goto, tables, locals, heard
<1>11. ASSUME NEW w \in Conns, Commit(w) PROVE ReadInv'
  <2> SUFFICES ASSUME NEW v \in Conns, pc'[v] \in {"archive"} \union ArchiveLocked
              PROVE  /\ settled'[Owner[v]][job'[v].run] = NotSettled
                     /\ pc'[v] \in ArchiveLocked =>
                          /\ Fits(archive'[Owner[v]], job'[v])
                          /\ resp'[v] = Response(archive'[Owner[v]], job'[v])
                          /\ ~dup'[v]
    OBVIOUS
  <2>1. v # w
    BY <1>11 DEF Commit, Goto, Return
  <2>2. pc[v] = pc'[v] /\ job[v] = job'[v] /\ resp[v] = resp'[v] /\ dup[v] = dup'[v]
    BY <2>1, <1>11 DEF Commit, Goto, Return, locals
  <2>3. Owner[v] # Owner[w]
    BY <2>1, <2>2, <1>11 DEF Commit, LockInv
  <2>4. archive'[Owner[v]] = archive[Owner[v]] /\ settled'[Owner[v]] = settled[Owner[v]]
    BY <2>3, <1>11 DEF Commit
  <2> QED
    BY <2>2, <2>4
<1>12. ASSUME NEW w \in Conns, Abort(w) PROVE ReadInv'
  BY <1>12 DEF Abort, Return, tables, heard
<1>13. ASSUME NEW w \in Conns, SyncRank(w) PROVE ReadInv'
  BY <1>13 DEF SyncRank, Goto, tables, locals, heard
<1>14. ASSUME NEW w \in Conns, Reply(w) PROVE ReadInv'
  BY <1>14 DEF Reply, Return, tables
<1>15. ASSUME NEW w \in Conns, NEW a \in Saves, SaveArchive(w, a) PROVE ReadInv'
  <2>1. \A v \in Conns : pc[v] \in ArchiveLocked => Owner[v] # Owner[w]
    BY <1>15 DEF SaveArchive, Locked
  <2> QED
    BY <2>1, <1>15 DEF SaveArchive, tables, locals, heard
<1>16. ASSUME NEW w \in Conns, NEW gold \in Reports, ReadStats(w, gold) PROVE ReadInv'
  BY <1>16 DEF ReadStats, Goto, tables, heard
<1>17. ASSUME NEW w \in Conns, SaveStats(w) PROVE ReadInv'
  BY <1>17 DEF SaveStats, Return, heard
<1>18. CASE Crash
  BY <1>18 DEF Crash, tables, heard
<1>19. CASE UNCHANGED vars
  BY <1>19 DEF vars, tables, locals, heard
<1>20. ASSUME NEW w \in Conns, NEW score \in Submissions, SubmitScore(w, score) PROVE ReadInv'
  BY <1>20 DEF SubmitScore, tables, locals, heard
<1> QED
  BY <1>1, <1>2, <1>3, <1>4, <1>5, <1>6, <1>7, <1>8, <1>9, <1>10,
     <1>11, <1>12, <1>13, <1>14, <1>15, <1>16, <1>17, <1>18, <1>19, <1>20 DEF Next, HandlerStep

-----------------------------------------------------------------------------
(* What a handler tells                                                      *)

\* The response of a handler whose transaction has ended is the stored one: a
\* settlement row never changes once it is there.
LEMMA ResponseStep ==
  ASSUME Inv, [Next]_vars
  PROVE  ResponseInv'
<1> USE OwnerAssumption DEF TypeOK, ResponseInv
<1> USE DEF Inv
<1>1. ASSUME NEW w \in Conns, NEW q \in Requests, CombatResult(w, q) PROVE ResponseInv'
  BY <1>1 DEF CombatResult, Goto, tables, heard
<1>2. ASSUME NEW w \in Conns, LockPlayer(w) PROVE ResponseInv'
  BY <1>2 DEF LockPlayer, Goto, tables, locals, heard
<1>3. ASSUME NEW w \in Conns, FoundDuplicate(w) PROVE ResponseInv'
  BY <1>3 DEF FoundDuplicate, Goto, tables, heard
<1>4. ASSUME NEW w \in Conns, EndDuplicate(w) PROVE ResponseInv'
  BY <1>4 DEF EndDuplicate, Goto, tables, locals, heard
<1>5. ASSUME NEW w \in Conns, FoundNothing(w) PROVE ResponseInv'
  BY <1>5 DEF FoundNothing, Goto, tables, locals, heard
<1>6. ASSUME NEW w \in Conns, ReadArchive(w) PROVE ResponseInv'
  BY <1>6 DEF ReadArchive, Goto, tables, heard
<1>7. ASSUME NEW w \in Conns, UpdateSettlementStats(w) PROVE ResponseInv'
  BY <1>7 DEF UpdateSettlementStats, Goto, tables, heard
<1>8. ASSUME NEW w \in Conns, InsertScoreRecord(w) PROVE ResponseInv'
  BY <1>8 DEF InsertScoreRecord, Goto, tables, locals, heard
<1>9. ASSUME NEW w \in Conns, UpsertArchive(w) PROVE ResponseInv'
  BY <1>9 DEF UpsertArchive, Goto, tables, locals, heard
<1>10. ASSUME NEW w \in Conns, InsertSettlement(w) PROVE ResponseInv'
  BY <1>10 DEF InsertSettlement, Goto, tables, locals, heard
<1>11. ASSUME NEW w \in Conns, Commit(w) PROVE ResponseInv'
  <2>1. /\ archive[Owner[w]] \in Archives /\ job[w] \in Requests /\ job[w].run \in Runs
        /\ Owner[w] \in Players
    BY <1>11, RequestType DEF Commit
  <2>2. /\ settled[Owner[w]][job[w].run] = NotSettled
        /\ resp[w] \in Responses /\ job[w].score <= resp[w].archive.best /\ ~dup[w]
    BY <2>1, <1>11, ResponseType DEF Commit, ReadInv
  <2>3. settled'[Owner[w]][job[w].run] = resp[w] /\ resp[w] # NotSettled
    BY <2>1, <2>2, <1>11, NotSettledAssumption DEF Commit
  <2> SUFFICES ASSUME NEW v \in Conns, pc'[v] \in {"found", "rank", "reply"}
              PROVE  /\ resp'[v] # NotSettled
                     /\ resp'[v] = settled'[Owner[v]][job'[v].run]
                     /\ pc'[v] = "found" => dup'[v]
                     /\ pc'[v] = "rank" => ~dup'[v] /\ job'[v].score <= resp'[v].archive.best
    OBVIOUS
  <2>4. CASE v = w
    <3>1. pc'[w] = "rank" /\ UNCHANGED locals
      BY <2>4, <1>11 DEF Commit, Goto, Return
    <3> QED
      BY <2>2, <2>3, <2>4, <3>1 DEF locals
  <2>5. CASE v # w
    <3>1. pc[v] = pc'[v] /\ job[v] = job'[v] /\ resp[v] = resp'[v] /\ dup[v] = dup'[v]
      BY <2>5, <1>11 DEF Commit, Goto, Return, locals
    <3>2. job[v].run \in Runs /\ Owner[v] \in Players
      BY <3>1, RequestType
    <3>3. settled[Owner[v]][job[v].run] # NotSettled
      BY <3>1
    <3>4. settled'[Owner[v]][job[v].run] = settled[Owner[v]][job[v].run]
      BY <2>1, <2>2, <3>2, <3>3, <1>11 DEF Commit
    <3> QED
      BY <3>1, <3>4
  <2> QED
    BY <2>4, <2>5
<1>12. ASSUME NEW w \in Conns, Abort(w) PROVE ResponseInv'
  BY <1>12 DEF Abort, Return, tables, heard
<1>13. ASSUME NEW w \in Conns, SyncRank(w) PROVE ResponseInv'
  BY <1>13 DEF SyncRank, Goto, tables, locals, heard
<1>14. ASSUME NEW w \in Conns, Reply(w) PROVE ResponseInv'
  BY <1>14 DEF Reply, Return, tables
<1>15. ASSUME NEW w \in Conns, NEW a \in Saves, SaveArchive(w, a) PROVE ResponseInv'
  BY <1>15 DEF SaveArchive, locals, heard
<1>16. ASSUME NEW w \in Conns, NEW gold \in Reports, ReadStats(w, gold) PROVE ResponseInv'
  BY <1>16 DEF ReadStats, Goto, tables, heard
<1>17. ASSUME NEW w \in Conns, SaveStats(w) PROVE ResponseInv'
  BY <1>17 DEF SaveStats, Return, heard
<1>18. CASE Crash
  BY <1>18 DEF Crash, tables, heard
<1>19. CASE UNCHANGED vars
  BY <1>19 DEF vars, tables, locals, heard
<1>20. ASSUME NEW w \in Conns, NEW score \in Submissions, SubmitScore(w, score) PROVE ResponseInv'
  BY <1>20 DEF SubmitScore, tables, locals, heard
<1> QED
  BY <1>1, <1>2, <1>3, <1>4, <1>5, <1>6, <1>7, <1>8, <1>9, <1>10,
     <1>11, <1>12, <1>13, <1>14, <1>15, <1>16, <1>17, <1>18, <1>19, <1>20 DEF Next, HandlerStep

\* The handler that commits a run is the only one to give its first answer: the run
\* was not settled, hence nobody else had its response.
LEMMA FreshStep ==
  ASSUME Inv, [Next]_vars
  PROVE  FreshInv' /\ OneFreshAnswer'
<1> USE OwnerAssumption DEF TypeOK, FreshInv, OneFreshAnswer, FirstAnswer
<1> USE DEF Inv
<1>1. ASSUME NEW w \in Conns, NEW q \in Requests, CombatResult(w, q) PROVE FreshInv' /\ OneFreshAnswer'
  BY <1>1 DEF CombatResult, Goto, tables, heard
<1>2. ASSUME NEW w \in Conns, LockPlayer(w) PROVE FreshInv' /\ OneFreshAnswer'
  BY <1>2 DEF LockPlayer, Goto, tables, locals, heard
<1>3. ASSUME NEW w \in Conns, FoundDuplicate(w) PROVE FreshInv' /\ OneFreshAnswer'
  BY <1>3 DEF FoundDuplicate, Goto, tables, heard
<1>4. ASSUME NEW w \in Conns, EndDuplicate(w) PROVE FreshInv' /\ OneFreshAnswer'
  BY <1>4 DEF EndDuplicate, ResponseInv, Goto, tables, locals, heard
<1>5. ASSUME NEW w \in Conns, FoundNothing(w) PROVE FreshInv' /\ OneFreshAnswer'
  BY <1>5 DEF FoundNothing, Goto, tables, locals, heard
<1>6. ASSUME NEW w \in Conns, ReadArchive(w) PROVE FreshInv' /\ OneFreshAnswer'
  BY <1>6 DEF ReadArchive, Goto, tables, heard
<1>7. ASSUME NEW w \in Conns, UpdateSettlementStats(w) PROVE FreshInv' /\ OneFreshAnswer'
  BY <1>7 DEF UpdateSettlementStats, Goto, tables, heard
<1>8. ASSUME NEW w \in Conns, InsertScoreRecord(w) PROVE FreshInv' /\ OneFreshAnswer'
  BY <1>8 DEF InsertScoreRecord, Goto, tables, locals, heard
<1>9. ASSUME NEW w \in Conns, UpsertArchive(w) PROVE FreshInv' /\ OneFreshAnswer'
  BY <1>9 DEF UpsertArchive, Goto, tables, locals, heard
<1>10. ASSUME NEW w \in Conns, InsertSettlement(w) PROVE FreshInv' /\ OneFreshAnswer'
  BY <1>10 DEF InsertSettlement, Goto, tables, locals, heard
<1>11. ASSUME NEW w \in Conns, Commit(w) PROVE FreshInv' /\ OneFreshAnswer'
  <2>1. /\ job[w] \in Requests /\ job[w].run \in Runs /\ Owner[w] \in Players
        /\ settled[Owner[w]][job[w].run] = NotSettled
    BY <1>11, RequestType DEF Commit, ReadInv
  <2>2. fresh[Owner[w]][job[w].run] = 0 /\ fresh' = fresh
    BY <2>1, <1>11 DEF Commit, heard
  <2>3. \A v \in Conns : FirstAnswer(v) =>
          Owner[v] # Owner[w] \/ job[v].run # job[w].run
    BY <2>1 DEF ResponseInv
  <2>4. \A v \in Conns \ {w} : pc'[v] = pc[v] /\ job'[v] = job[v] /\ dup'[v] = dup[v]
    BY <1>11 DEF Commit, Goto, Return, locals
  <2>5. FirstAnswer(w)' => job'[w] = job[w]
    BY <1>11 DEF Commit, Goto, Return, locals
  <2>6. \A p \in Players, r \in Runs : settled'[p][r] = NotSettled => settled[p][r] = NotSettled
    BY <2>1, <1>11 DEF Commit
  <2>7. \A p \in Players, r \in Runs : settled'[p][r] = NotSettled => fresh'[p][r] = 0
    BY <2>2, <2>6
  <2>8. \A v \in Conns : FirstAnswer(v)' => fresh'[Owner[v]][job'[v].run] = 0
    BY ZenonT(40), <2>2, <2>4, <2>5
  <2>9. \A u, v \in Conns :
          (FirstAnswer(u)' /\ FirstAnswer(v)' /\ Owner[u] = Owner[v] /\ job'[u].run = job'[v].run)
            => u = v
    <3> SUFFICES ASSUME NEW u \in Conns, NEW v \in Conns, FirstAnswer(u)', FirstAnswer(v)',
                        Owner[u] = Owner[v], job'[u].run = job'[v].run
                PROVE  u = v
      OBVIOUS
    <3>1. CASE u = w \/ v = w
      BY <2>3, <2>4, <2>5, <3>1
    <3>2. CASE u # w /\ v # w
      BY <2>4, <3>2
    <3> QED
      BY <3>1, <3>2
  <2> QED
    BY <2>2, <2>7, <2>8, <2>9
<1>12. ASSUME NEW w \in Conns, Abort(w) PROVE FreshInv' /\ OneFreshAnswer'
  BY <1>12 DEF Abort, Return, tables, heard
<1>13. ASSUME NEW w \in Conns, SyncRank(w) PROVE FreshInv' /\ OneFreshAnswer'
  BY <1>13 DEF SyncRank, Goto, tables, locals, heard
<1>14. ASSUME NEW w \in Conns, Reply(w) PROVE FreshInv' /\ OneFreshAnswer'
  <2>1. job[w] \in Requests /\ job[w].run \in Runs /\ Owner[w] \in Players
    BY <1>14, RequestType DEF Reply
  <2>2. settled[Owner[w]][job[w].run] # NotSettled /\ settled' = settled
    BY <1>14 DEF Reply, ResponseInv, tables
  <2>3. /\ pc'[w] = "idle"
        /\ \A v \in Conns \ {w} : pc'[v] = pc[v] /\ job'[v] = job[v] /\ dup'[v] = dup[v]
    BY <1>14 DEF Reply, Return
  <2>4. CASE dup[w]
    <3>1. fresh' = fresh
      BY <2>1, <2>4, <1>14 DEF Reply
    <3>2. \A v \in Conns : FirstAnswer(v)' => FirstAnswer(v) /\ job'[v] = job[v]
      BY <2>3
    <3>3. \A v \in Conns : FirstAnswer(v)' => fresh'[Owner[v]][job'[v].run] = 0
      BY <3>1, <3>2
    <3>4. \A u, v \in Conns :
            (FirstAnswer(u)' /\ FirstAnswer(v)' /\ Owner[u] = Owner[v] /\ job'[u].run = job'[v].run)
              => u = v
      BY <3>2
    <3> QED
      BY <2>2, <3>1, <3>3, <3>4
  <2>5. CASE ~dup[w]
    <3>1. FirstAnswer(w)
      BY <2>5, <1>14 DEF Reply
    <3>2. fresh[Owner[w]][job[w].run] = 0
      BY <3>1
    <3>3. fresh' = [fresh EXCEPT ![Owner[w]][job[w].run] = 1]
      BY <2>1, <2>5, <3>2, <1>14 DEF Reply
    <3>4. \A p \in Players, r \in Runs :
            (p # Owner[w] \/ r # job[w].run) => fresh'[p][r] = fresh[p][r]
      BY <2>1, <3>3
    <3>5. \A v \in Conns : FirstAnswer(v)' =>
            FirstAnswer(v) /\ (Owner[v] # Owner[w] \/ job[v].run # job[w].run)
      BY <2>3, <3>1
    <3>6. \A v \in Conns : FirstAnswer(v)' => job'[v] = job[v] /\ job[v].run \in Runs
      BY <2>3, RequestType
    <3>7. ASSUME NEW v \in Conns, FirstAnswer(v)' PROVE fresh'[Owner[v]][job'[v].run] = 0
      <4>1. fresh[Owner[v]][job[v].run] = 0
        BY <3>5, <3>7
      <4>2. job'[v].run = job[v].run /\ job[v].run \in Runs /\ Owner[v] \in Players
        BY <3>6, <3>7
      <4>3. Owner[v] # Owner[w] \/ job[v].run # job[w].run
        BY <3>5, <3>7
      <4> QED
        BY <3>4, <4>1, <4>2, <4>3
    <3>8. \A u, v \in Conns :
            (FirstAnswer(u)' /\ FirstAnswer(v)' /\ Owner[u] = Owner[v] /\ job'[u].run = job'[v].run)
              => u = v
      BY <3>5, <3>6
    <3>9. /\ \A p \in Players, r \in Runs : settled'[p][r] = NotSettled => fresh'[p][r] = 0
          /\ \A p \in Players, r \in Runs : fresh'[p][r] <= 1
      BY <2>1, <2>2, <3>3
    <3> QED
      BY <3>7, <3>8, <3>9
  <2> QED
    BY <2>4, <2>5
<1>15. ASSUME NEW w \in Conns, NEW a \in Saves, SaveArchive(w, a) PROVE FreshInv' /\ OneFreshAnswer'
  BY <1>15 DEF SaveArchive, locals, heard
<1>16. ASSUME NEW w \in Conns, NEW gold \in Reports, ReadStats(w, gold) PROVE FreshInv' /\ OneFreshAnswer'
  BY <1>16 DEF ReadStats, Goto, tables, heard
<1>17. ASSUME NEW w \in Conns, SaveStats(w) PROVE FreshInv' /\ OneFreshAnswer'
  BY <1>17 DEF SaveStats, Return, heard
<1>18. CASE Crash
  BY <1>18 DEF Crash, tables, heard
<1>19. CASE UNCHANGED vars
  BY <1>19 DEF vars, tables, locals, heard
<1>20. ASSUME NEW w \in Conns, NEW score \in Submissions, SubmitScore(w, score) PROVE FreshInv' /\ OneFreshAnswer'
  BY <1>20 DEF SubmitScore, tables, locals, heard
<1> QED
  BY <1>1, <1>2, <1>3, <1>4, <1>5, <1>6, <1>7, <1>8, <1>9, <1>10,
     <1>11, <1>12, <1>13, <1>14, <1>15, <1>16, <1>17, <1>18, <1>19, <1>20 DEF Next, HandlerStep

\* What was told stays what is stored.
LEMMA AnswersStep ==
  ASSUME Inv, [Next]_vars
  PROVE  AnswersAgree'
<1> USE OwnerAssumption DEF TypeOK, AnswersAgree
<1> USE DEF Inv
<1>1. ASSUME NEW w \in Conns, NEW q \in Requests, CombatResult(w, q) PROVE AnswersAgree'
  BY <1>1 DEF CombatResult, Goto, tables, heard
<1>2. ASSUME NEW w \in Conns, LockPlayer(w) PROVE AnswersAgree'
  BY <1>2 DEF LockPlayer, Goto, tables, locals, heard
<1>3. ASSUME NEW w \in Conns, FoundDuplicate(w) PROVE AnswersAgree'
  BY <1>3 DEF FoundDuplicate, Goto, tables, heard
<1>4. ASSUME NEW w \in Conns, EndDuplicate(w) PROVE AnswersAgree'
  BY <1>4 DEF EndDuplicate, Goto, tables, locals, heard
<1>5. ASSUME NEW w \in Conns, FoundNothing(w) PROVE AnswersAgree'
  BY <1>5 DEF FoundNothing, Goto, tables, locals, heard
<1>6. ASSUME NEW w \in Conns, ReadArchive(w) PROVE AnswersAgree'
  BY <1>6 DEF ReadArchive, Goto, tables, heard
<1>7. ASSUME NEW w \in Conns, UpdateSettlementStats(w) PROVE AnswersAgree'
  BY <1>7 DEF UpdateSettlementStats, Goto, tables, heard
<1>8. ASSUME NEW w \in Conns, InsertScoreRecord(w) PROVE AnswersAgree'
  BY <1>8 DEF InsertScoreRecord, Goto, tables, locals, heard
<1>9. ASSUME NEW w \in Conns, UpsertArchive(w) PROVE AnswersAgree'
  BY <1>9 DEF UpsertArchive, Goto, tables, locals, heard
<1>10. ASSUME NEW w \in Conns, InsertSettlement(w) PROVE AnswersAgree'
  BY <1>10 DEF InsertSettlement, Goto, tables, locals, heard
<1>11. ASSUME NEW w \in Conns, Commit(w) PROVE AnswersAgree'
  <2>1. /\ job[w].run \in Runs /\ Owner[w] \in Players
        /\ settled[Owner[w]][job[w].run] = NotSettled
    BY <1>11, RequestType DEF Commit, ReadInv
  <2>2. told[Owner[w]][job[w].run] = {}
    BY <2>1, NotSettledAssumption
  <2> QED
    BY <2>1, <2>2, <1>11 DEF Commit, heard
<1>12. ASSUME NEW w \in Conns, Abort(w) PROVE AnswersAgree'
  BY <1>12 DEF Abort, Return, tables, heard
<1>13. ASSUME NEW w \in Conns, SyncRank(w) PROVE AnswersAgree'
  BY <1>13 DEF SyncRank, Goto, tables, locals, heard
<1>14. ASSUME NEW w \in Conns, Reply(w) PROVE AnswersAgree'
  <2>1. job[w].run \in Runs /\ Owner[w] \in Players
    BY <1>14, RequestType DEF Reply
  <2>2. resp[w] = settled[Owner[w]][job[w].run]
    BY <1>14 DEF Reply, ResponseInv
  <2> QED
    BY <2>1, <2>2, <1>14 DEF Reply, tables
<1>15. ASSUME NEW w \in Conns, NEW a \in Saves, SaveArchive(w, a) PROVE AnswersAgree'
  BY <1>15 DEF SaveArchive, locals, heard
<1>16. ASSUME NEW w \in Conns, NEW gold \in Reports, ReadStats(w, gold) PROVE AnswersAgree'
  BY <1>16 DEF ReadStats, Goto, tables, heard
<1>17. ASSUME NEW w \in Conns, SaveStats(w) PROVE AnswersAgree'
  BY <1>17 DEF SaveStats, Return, heard
<1>18. CASE Crash
  BY <1>18 DEF Crash, tables, heard
<1>19. CASE UNCHANGED vars
  BY <1>19 DEF vars, tables, locals, heard
<1>20. ASSUME NEW w \in Conns, NEW score \in Submissions, SubmitScore(w, score) PROVE AnswersAgree'
  BY <1>20 DEF SubmitScore, tables, locals, heard
<1> QED
  BY <1>1, <1>2, <1>3, <1>4, <1>5, <1>6, <1>7, <1>8, <1>9, <1>10,
     <1>11, <1>12, <1>13, <1>14, <1>15, <1>16, <1>17, <1>18, <1>19, <1>20 DEF Next, HandlerStep

-----------------------------------------------------------------------------
(* What the tables hold                                                      *)

SettledRuns(p) == {r \in Runs : settled[p][r] # NotSettled}

\* A commit adds one record and one settled run.
LEMMA RecordStep ==
  ASSUME Inv, [Next]_vars
  PROVE  RecordPerRun'
<1> USE OwnerAssumption DEF TypeOK, RecordPerRun
<1> USE DEF Inv
<1>1. ASSUME NEW w \in Conns, NEW q \in Requests, CombatResult(w, q) PROVE RecordPerRun'
  BY <1>1 DEF CombatResult, Goto, tables, heard
<1>2. ASSUME NEW w \in Conns, LockPlayer(w) PROVE RecordPerRun'
  BY <1>2 DEF LockPlayer, Goto, tables, locals, heard
<1>3. ASSUME NEW w \in Conns, FoundDuplicate(w) PROVE RecordPerRun'
  BY <1>3 DEF FoundDuplicate, Goto, tables, heard
<1>4. ASSUME NEW w \in Conns, EndDuplicate(w) PROVE RecordPerRun'
  BY <1>4 DEF EndDuplicate, Goto, tables, locals, heard
<1>5. ASSUME NEW w \in Conns, FoundNothing(w) PROVE RecordPerRun'
  BY <1>5 DEF FoundNothing, Goto, tables, locals, heard
<1>6. ASSUME NEW w \in Conns, ReadArchive(w) PROVE RecordPerRun'
  BY <1>6 DEF ReadArchive, Goto, tables, heard
<1>7. ASSUME NEW w \in Conns, UpdateSettlementStats(w) PROVE RecordPerRun'
  BY <1>7 DEF UpdateSettlementStats, Goto, tables, heard
<1>8. ASSUME NEW w \in Conns, InsertScoreRecord(w) PROVE RecordPerRun'
  BY <1>8 DEF InsertScoreRecord, Goto, tables, locals, heard
<1>9. ASSUME NEW w \in Conns, UpsertArchive(w) PROVE RecordPerRun'
  BY <1>9 DEF UpsertArchive, Goto, tables, locals, heard
<1>10. ASSUME NEW w \in Conns, InsertSettlement(w) PROVE RecordPerRun'
  BY <1>10 DEF InsertSettlement, Goto, tables, locals, heard
<1>11. ASSUME NEW w \in Conns, Commit(w) PROVE RecordPerRun'
  <2>1. /\ job[w].run \in Runs /\ Owner[w] \in Players /\ job[w] \in Requests
        /\ archive[Owner[w]] \in Archives
    BY <1>11, RequestType DEF Commit
  <2>2. settled[Owner[w]][job[w].run] = NotSettled /\ resp[w] # NotSettled
    BY <2>1, <1>11, ResponseType, NotSettledAssumption DEF Commit, ReadInv
  <2> SUFFICES ASSUME NEW p \in Players
              PROVE  records'[p] = Cardinality(SettledRuns(p)')
    BY DEF SettledRuns
  <2>3. CASE p = Owner[w]
    <3>1. /\ SettledRuns(p)' = SettledRuns(p) \union {job[w].run}
          /\ job[w].run \notin SettledRuns(p)
      BY <2>1, <2>2, <2>3, <1>11 DEF SettledRuns, Commit
    <3>2. IsFiniteSet(SettledRuns(p))
      BY RunsAssumption, FS_Subset DEF SettledRuns
    <3>3. Cardinality(SettledRuns(p) \union {job[w].run}) = Cardinality(SettledRuns(p)) + 1
      BY <3>1, <3>2, FS_AddElement
    <3>4. records'[p] = records[p] + 1
      BY <2>1, <2>3, <1>11 DEF Commit
    <3>5. records[p] = Cardinality(SettledRuns(p))
      BY DEF SettledRuns
    <3> QED
      BY <3>1, <3>3, <3>4, <3>5
  <2>4. CASE p # Owner[w]
    <3>1. records'[p] = records[p] /\ settled'[p] = settled[p]
      BY <2>4, <1>11 DEF Commit
    <3> QED
      BY <3>1 DEF SettledRuns
  <2> QED
    BY <2>3, <2>4
<1>12. ASSUME NEW w \in Conns, Abort(w) PROVE RecordPerRun'
  BY <1>12 DEF Abort, Return, tables, heard
<1>13. ASSUME NEW w \in Conns, SyncRank(w) PROVE RecordPerRun'
  BY <1>13 DEF SyncRank, Goto, tables, locals, heard
<1>14. ASSUME NEW w \in Conns, Reply(w) PROVE RecordPerRun'
  BY <1>14 DEF Reply, Return, tables
<1>15. ASSUME NEW w \in Conns, NEW a \in Saves, SaveArchive(w, a) PROVE RecordPerRun'
  BY <1>15 DEF SaveArchive, locals, heard
<1>16. ASSUME NEW w \in Conns, NEW gold \in Reports, ReadStats(w, gold) PROVE RecordPerRun'
  BY <1>16 DEF ReadStats, Goto, tables, heard
<1>17. ASSUME NEW w \in Conns, SaveStats(w) PROVE RecordPerRun'
  BY <1>17 DEF SaveStats, Return, heard
<1>18. CASE Crash
  BY <1>18 DEF Crash, tables, heard
<1>19. CASE UNCHANGED vars
  BY <1>19 DEF vars, tables, locals, heard
<1>20. ASSUME NEW w \in Conns, NEW score \in Submissions, SubmitScore(w, score) PROVE RecordPerRun'
  BY <1>20 DEF SubmitScore, tables, locals, heard
<1> QED
  BY <1>1, <1>2, <1>3, <1>4, <1>5, <1>6, <1>7, <1>8, <1>9, <1>10,
     <1>11, <1>12, <1>13, <1>14, <1>15, <1>16, <1>17, <1>18, <1>19, <1>20 DEF Next, HandlerStep

\* The settlement of a run that has been committed puts its score on the leaderboard.
LEMMA RankStep ==
  ASSUME Inv, [Next]_vars
  PROVE  RankIsSettled'
<1> USE OwnerAssumption DEF TypeOK, RankIsSettled
<1> USE DEF Inv
<1>1. ASSUME NEW w \in Conns, NEW q \in Requests, CombatResult(w, q) PROVE RankIsSettled'
  BY <1>1 DEF CombatResult, Goto, tables, heard
<1>2. ASSUME NEW w \in Conns, LockPlayer(w) PROVE RankIsSettled'
  BY <1>2 DEF LockPlayer, Goto, tables, locals, heard
<1>3. ASSUME NEW w \in Conns, FoundDuplicate(w) PROVE RankIsSettled'
  BY <1>3 DEF FoundDuplicate, Goto, tables, heard
<1>4. ASSUME NEW w \in Conns, EndDuplicate(w) PROVE RankIsSettled'
  BY <1>4 DEF EndDuplicate, Goto, tables, locals, heard
<1>5. ASSUME NEW w \in Conns, FoundNothing(w) PROVE RankIsSettled'
  BY <1>5 DEF FoundNothing, Goto, tables, locals, heard
<1>6. ASSUME NEW w \in Conns, ReadArchive(w) PROVE RankIsSettled'
  BY <1>6 DEF ReadArchive, Goto, tables, heard
<1>7. ASSUME NEW w \in Conns, UpdateSettlementStats(w) PROVE RankIsSettled'
  BY <1>7 DEF UpdateSettlementStats, Goto, tables, heard
<1>8. ASSUME NEW w \in Conns, InsertScoreRecord(w) PROVE RankIsSettled'
  BY <1>8 DEF InsertScoreRecord, Goto, tables, locals, heard
<1>9. ASSUME NEW w \in Conns, UpsertArchive(w) PROVE RankIsSettled'
  BY <1>9 DEF UpsertArchive, Goto, tables, locals, heard
<1>10. ASSUME NEW w \in Conns, InsertSettlement(w) PROVE RankIsSettled'
  BY <1>10 DEF InsertSettlement, Goto, tables, locals, heard
<1>11. ASSUME NEW w \in Conns, Commit(w) PROVE RankIsSettled'
  <2>1. /\ job[w].run \in Runs /\ Owner[w] \in Players
        /\ settled[Owner[w]][job[w].run] = NotSettled
    BY <1>11, RequestType DEF Commit, ReadInv
  <2>2. \A p \in Players, r \in Runs :
          settled[p][r] # NotSettled => settled'[p][r] = settled[p][r]
    BY <2>1, <1>11 DEF Commit
  <2>3. rank' = rank
    BY <1>11 DEF Commit
  <2>4. \A p \in Players : rank[p].runs \subseteq Runs
    BY DEF Entries
  <2> SUFFICES ASSUME NEW p \in Players, NEW r \in rank[p].runs
              PROVE  settled'[p][r] # NotSettled /\ rank[p].score <= settled'[p][r].archive.best
    BY <2>3
  <2>5. settled'[p][r] = settled[p][r]
    BY <2>2, <2>4
  <2> QED
    BY <2>5
<1>12. ASSUME NEW w \in Conns, Abort(w) PROVE RankIsSettled'
  BY <1>12 DEF Abort, Return, tables, heard
<1>13. ASSUME NEW w \in Conns, SyncRank(w) PROVE RankIsSettled'
  <2>1. job[w].run \in Runs /\ Owner[w] \in Players
    BY <1>13, RequestType DEF SyncRank, Goto
  <2>2. /\ settled[Owner[w]][job[w].run] # NotSettled
        /\ job[w].score <= settled[Owner[w]][job[w].run].archive.best
    BY <1>13 DEF SyncRank, Goto, ResponseInv
  <2>3. /\ settled' = settled
        /\ \/ rank' = [rank EXCEPT ![Owner[w]] = [score |-> job[w].score, runs |-> {job[w].run}]]
           \/ rank' = rank
    BY <1>13 DEF SyncRank, tables
  <2> SUFFICES ASSUME NEW p \in Players, NEW r \in rank'[p].runs
              PROVE  settled[p][r] # NotSettled /\ rank'[p].score <= settled[p][r].archive.best
    BY <2>3
  <2>4. CASE rank'[p] = rank[p]
    BY <2>4
  <2>5. CASE rank'[p] # rank[p]
    <3>1. p = Owner[w] /\ rank'[p] = [score |-> job[w].score, runs |-> {job[w].run}]
      BY <2>1, <2>3, <2>5
    <3> QED
      BY <2>2, <3>1
  <2> QED
    BY <2>4, <2>5
<1>14. ASSUME NEW w \in Conns, Reply(w) PROVE RankIsSettled'
  BY <1>14 DEF Reply, Return, tables
<1>15. ASSUME NEW w \in Conns, NEW a \in Saves, SaveArchive(w, a) PROVE RankIsSettled'
  BY <1>15 DEF SaveArchive, locals, heard
<1>16. ASSUME NEW w \in Conns, NEW gold \in Reports, ReadStats(w, gold) PROVE RankIsSettled'
  BY <1>16 DEF ReadStats, Goto, tables, heard
<1>17. ASSUME NEW w \in Conns, SaveStats(w) PROVE RankIsSettled'
  BY <1>17 DEF SaveStats, Return, heard
<1>18. CASE Crash
  BY <1>18 DEF Crash, tables, heard
<1>19. CASE UNCHANGED vars
  BY <1>19 DEF vars, tables, locals, heard
<1>20. ASSUME NEW w \in Conns, NEW score \in Submissions, SubmitScore(w, score) PROVE RankIsSettled'
  <2>1. /\ settled' = settled
        /\ rank' = [rank EXCEPT ![Owner[w]] = [score |-> score, runs |-> {}]]
    BY <1>20 DEF SubmitScore, tables
  <2>2. \A p \in Players : rank'[p].runs = {} \/ rank'[p] = rank[p]
    BY <2>1
  <2> QED
    BY <2>1, <2>2
<1> QED
  BY <1>1, <1>2, <1>3, <1>4, <1>5, <1>6, <1>7, <1>8, <1>9, <1>10,
     <1>11, <1>12, <1>13, <1>14, <1>15, <1>16, <1>17, <1>18, <1>19, <1>20 DEF Next, HandlerStep

-----------------------------------------------------------------------------
(* The theorems                                                              *)

LEMMA InitInv ==
  ASSUME Init
  PROVE  Inv
<1>1. NewArchive \in Archives
  BY RulesAssumption DEF NewArchive, Archives, Int32, Int64
<1>2. NoStats \in StatsRows
  BY DEF NoStats, StatsRows
<1>3. TypeOK
  BY <1>1, <1>2 DEF Init, TypeOK, Entries, NoEntry
<1>4. LockInv /\ ReadInv /\ ResponseInv /\ FreshInv
  BY OwnerAssumption DEF Init, LockInv, ReadInv, ResponseInv, FreshInv, FirstAnswer
<1>5. AnswersAgree /\ OneFreshAnswer /\ RankIsSettled
  BY DEF Init, AnswersAgree, OneFreshAnswer, RankIsSettled, NoEntry
<1>6. RecordPerRun
  <2> SUFFICES ASSUME NEW p \in Players
              PROVE  records[p] = Cardinality(SettledRuns(p))
    BY DEF RecordPerRun, SettledRuns
  <2>1. SettledRuns(p) = {} /\ records[p] = 0
    BY DEF Init, SettledRuns
  <2> QED
    BY <2>1, FS_EmptySet
<1> QED
  BY <1>3, <1>4, <1>5, <1>6 DEF Inv

THEOREM Invariance == Spec => []Inv
<1>1. Init => Inv
  BY InitInv
<1>2. Inv /\ [Next]_vars => Inv'
  BY TypeStep, LockStep, ReadStep, ResponseStep, FreshStep, AnswersStep, RecordStep, RankStep
     DEF Inv
<1> QED
  BY <1>1, <1>2, PTL DEF Spec

\* Every table and every handler's local holds a value of its type; an archive that
\* is stored fits its columns.
THEOREM TypeCorrect == Spec => []TypeOK
<1>1. Inv => TypeOK
  BY DEF Inv
<1> QED
  BY <1>1, Invariance, PTL

\* All answers about a run are the stored one, also those to a retry with another
\* payload.
THEOREM SettlementsAreIdempotent == Spec => []AnswersAgree
<1>1. Inv => AnswersAgree
  BY DEF Inv
<1> QED
  BY <1>1, Invariance, PTL

\* At most one answer about a run claims to be the first, whatever failed or crashed.
THEOREM FirstAnswerIsUnique == Spec => []OneFreshAnswer
<1>1. Inv => OneFreshAnswer
  BY DEF Inv
<1> QED
  BY <1>1, Invariance, PTL

\* Score records and settlement rows are written together or not at all.
THEOREM TransactionIsAtomic == Spec => []RecordPerRun
<1>1. Inv => RecordPerRun
  BY DEF Inv
<1> QED
  BY <1>1, Invariance, PTL

\* The insert of the settlement row never meets a duplicate key.
THEOREM UniqueKeyNeverRefuses == Spec => []NoDuplicateKey
<1>1. Inv => NoDuplicateKey
  BY DEF Inv, ReadInv, NoDuplicateKey
<1> QED
  BY <1>1, Invariance, PTL

\* What a settlement puts on the leaderboard is the score of a run that is settled, and
\* stays so until another score is written; only SubmitScore shows others.
THEOREM RankShowsSettledRuns == Spec => []RankIsSettled
<1>1. Inv => RankIsSettled
  BY DEF Inv
<1> QED
  BY <1>1, Invariance, PTL

-----------------------------------------------------------------------------
(* Refinement                                                                *)

LEMMA InitPromise ==
  ASSUME Init
  PROVE  Promise!Init
BY DEF Init, Promise!Init, NewArchive, Promise!NewArchive

\* A commit is the promised Settle, an answer is an Answer, a client's save a Save;
\* everything else is invisible.
LEMMA NextPromise ==
  ASSUME Inv, [Next]_vars
  PROVE  [Promise!Next]_(Promise!vars)
<1> USE OwnerAssumption DEF Inv, TypeOK
<1>1. ASSUME NEW w \in Conns, NEW q \in Requests, CombatResult(w, q) PROVE [Promise!Next]_(Promise!vars)
  BY <1>1 DEF CombatResult, Goto, tables, heard, Promise!vars
<1>2. ASSUME NEW w \in Conns, LockPlayer(w) PROVE [Promise!Next]_(Promise!vars)
  BY <1>2 DEF LockPlayer, Goto, tables, locals, heard, Promise!vars
<1>3. ASSUME NEW w \in Conns, FoundDuplicate(w) PROVE [Promise!Next]_(Promise!vars)
  BY <1>3 DEF FoundDuplicate, Goto, tables, heard, Promise!vars
<1>4. ASSUME NEW w \in Conns, EndDuplicate(w) PROVE [Promise!Next]_(Promise!vars)
  BY <1>4 DEF EndDuplicate, Goto, tables, locals, heard, Promise!vars
<1>5. ASSUME NEW w \in Conns, FoundNothing(w) PROVE [Promise!Next]_(Promise!vars)
  BY <1>5 DEF FoundNothing, Goto, tables, locals, heard, Promise!vars
<1>6. ASSUME NEW w \in Conns, ReadArchive(w) PROVE [Promise!Next]_(Promise!vars)
  BY <1>6 DEF ReadArchive, Goto, tables, heard, Promise!vars
<1>7. ASSUME NEW w \in Conns, UpdateSettlementStats(w) PROVE [Promise!Next]_(Promise!vars)
  BY <1>7 DEF UpdateSettlementStats, Goto, tables, heard, Promise!vars
<1>8. ASSUME NEW w \in Conns, InsertScoreRecord(w) PROVE [Promise!Next]_(Promise!vars)
  BY <1>8 DEF InsertScoreRecord, Goto, tables, locals, heard, Promise!vars
<1>9. ASSUME NEW w \in Conns, UpsertArchive(w) PROVE [Promise!Next]_(Promise!vars)
  BY <1>9 DEF UpsertArchive, Goto, tables, locals, heard, Promise!vars
<1>10. ASSUME NEW w \in Conns, InsertSettlement(w) PROVE [Promise!Next]_(Promise!vars)
  BY <1>10 DEF InsertSettlement, Goto, tables, locals, heard, Promise!vars
<1>11. ASSUME NEW w \in Conns, Commit(w) PROVE [Promise!Next]_(Promise!vars)
  <2>1. /\ job[w] \in Requests /\ Owner[w] \in Players /\ archive[Owner[w]] \in Archives
    BY <1>11 DEF Commit
  <2>2. /\ settled[Owner[w]][job[w].run] = NotSettled
        /\ Fits(archive[Owner[w]], job[w])
        /\ resp[w] = Response(archive[Owner[w]], job[w])
    BY <1>11 DEF Commit, ReadInv
  <2>3. resp[w].archive = Credit(archive[Owner[w]], job[w])
    BY <2>1, <2>2, ResponseType
  <2>4. Promise!Settle(Owner[w], job[w])
    BY <2>2, <2>3, <1>11 DEF Commit, heard, Promise!Settle, Fits, Promise!Fits, Reward, Promise!Reward,
       KillsRoom, Promise!KillsRoom,
       Response, Promise!Response, Credit, Promise!Credit, Larger, Promise!Larger
  <2> QED
    BY <2>1, <2>4 DEF Promise!Next
<1>12. ASSUME NEW w \in Conns, Abort(w) PROVE [Promise!Next]_(Promise!vars)
  BY <1>12 DEF Abort, Return, tables, heard, Promise!vars
<1>13. ASSUME NEW w \in Conns, SyncRank(w) PROVE [Promise!Next]_(Promise!vars)
  BY <1>13 DEF SyncRank, Goto, tables, locals, heard, Promise!vars
<1>14. ASSUME NEW w \in Conns, Reply(w) PROVE [Promise!Next]_(Promise!vars)
  <2>1. job[w].run \in Runs /\ Owner[w] \in Players
    BY <1>14, RequestType DEF Reply
  <2>2. settled[Owner[w]][job[w].run] # NotSettled /\ resp[w] = settled[Owner[w]][job[w].run]
    BY <1>14 DEF Reply, ResponseInv
  <2>3. told' = [told EXCEPT ![Owner[w]][job[w].run] = {settled[Owner[w]][job[w].run]}]
    <3>1. told[Owner[w]][job[w].run] \subseteq {settled[Owner[w]][job[w].run]}
      BY <2>1 DEF AnswersAgree
    <3>2. told[Owner[w]][job[w].run] \union {resp[w]} = {settled[Owner[w]][job[w].run]}
      BY <2>2, <3>1
    <3> QED
      BY <2>1, <3>2, <1>14 DEF Reply
  <2>4. CASE dup[w]
    <3>1. fresh' = fresh
      BY <2>1, <2>4, <1>14 DEF Reply
    <3>2. Promise!Answer(Owner[w], job[w].run)
      BY <2>2, <2>3, <3>1, <1>14 DEF Promise!Answer, Reply, tables
    <3> QED
      BY <2>1, <3>2 DEF Promise!Next
  <2>5. CASE ~dup[w]
    <3>1. fresh[Owner[w]][job[w].run] = 0
      BY <2>5, <1>14 DEF Reply, FreshInv, FirstAnswer
    <3>2. fresh' = [fresh EXCEPT ![Owner[w]][job[w].run] = 1]
      BY <2>1, <2>5, <3>1, <1>14 DEF Reply
    <3>3. Promise!Answer(Owner[w], job[w].run)
      BY <2>2, <2>3, <3>1, <3>2, <1>14 DEF Promise!Answer, Reply, tables
    <3> QED
      BY <2>1, <3>3 DEF Promise!Next
  <2> QED
    BY <2>4, <2>5
<1>15. ASSUME NEW w \in Conns, NEW a \in Saves, SaveArchive(w, a) PROVE [Promise!Next]_(Promise!vars)
  <2>1. Promise!Save(Owner[w], a)
    BY <1>15 DEF SaveArchive, heard, Promise!Save
  <2> QED
    BY <2>1 DEF Promise!Next
<1>16. ASSUME NEW w \in Conns, NEW gold \in Reports, ReadStats(w, gold) PROVE [Promise!Next]_(Promise!vars)
  BY <1>16 DEF ReadStats, Goto, tables, heard, Promise!vars
<1>17. ASSUME NEW w \in Conns, SaveStats(w) PROVE [Promise!Next]_(Promise!vars)
  BY <1>17 DEF SaveStats, Return, heard, Promise!vars
<1>18. CASE Crash
  BY <1>18 DEF Crash, tables, heard, Promise!vars
<1>19. CASE UNCHANGED vars
  BY <1>19 DEF vars, tables, heard, Promise!vars
<1>20. ASSUME NEW w \in Conns, NEW score \in Submissions, SubmitScore(w, score) PROVE [Promise!Next]_(Promise!vars)
  BY <1>20 DEF SubmitScore, tables, heard, Promise!vars
<1> QED
  BY <1>1, <1>2, <1>3, <1>4, <1>5, <1>6, <1>7, <1>8, <1>9, <1>10,
     <1>11, <1>12, <1>13, <1>14, <1>15, <1>16, <1>17, <1>18, <1>19, <1>20 DEF Next, HandlerStep

\* The transaction, statement by statement and with every failure, does what
\* SettleOnce promises to the game.
THEOREM Refinement == Spec => SettledOnce
<1>1. Init => Promise!Init
  BY InitPromise
<1>2. Inv /\ [Next]_vars => [Promise!Next]_(Promise!vars)
  BY NextPromise
<1> QED
  BY <1>1, <1>2, Invariance, PTL DEF Spec, SettledOnce, Promise!Spec

\* What was stored for a run and what was told about it stay.
Kept ==
  \A p \in Players, r \in Runs :
    /\ settled[p][r] # NotSettled => settled'[p][r] = settled[p][r]
    /\ told[p][r] # {} => told'[p][r] = told[p][r]

\* Settle is for runs that are not settled, and an Answer repeats what is stored.
LEMMA PromiseKeeps ==
  ASSUME Inv, [Promise!Next]_(Promise!vars)
  PROVE  Kept
<1> SUFFICES ASSUME NEW p \in Players, NEW r \in Runs
             PROVE  /\ settled[p][r] # NotSettled => settled'[p][r] = settled[p][r]
                    /\ told[p][r] # {} => told'[p][r] = told[p][r]
  BY DEF Kept
<1>0. /\ settled \in [Players -> [Runs -> Responses \union {NotSettled}]]
      /\ told \in [Players -> [Runs -> SUBSET Responses]]
      /\ told[p][r] \subseteq {settled[p][r]}
  BY DEF Inv, TypeOK, AnswersAgree
<1>1. ASSUME NEW x \in Players, NEW q \in Requests, Promise!Settle(x, q)
      PROVE  /\ settled[p][r] # NotSettled => settled'[p][r] = settled[p][r]
             /\ told[p][r] # {} => told'[p][r] = told[p][r]
  BY <1>0, <1>1, RequestType DEF Promise!Settle
<1>2. ASSUME NEW x \in Players, NEW y \in Runs, Promise!Answer(x, y)
      PROVE  /\ settled[p][r] # NotSettled => settled'[p][r] = settled[p][r]
             /\ told[p][r] # {} => told'[p][r] = told[p][r]
  <2>1. settled' = settled /\ told' = [told EXCEPT ![x][y] = {settled[x][y]}]
    BY <1>2 DEF Promise!Answer
  <2>2. CASE x = p /\ y = r
    <3>1. told'[p][r] = {settled[p][r]}
      BY <1>0, <2>1, <2>2
    <3>2. told[p][r] # {} => told[p][r] = {settled[p][r]}
      BY <1>0
    <3> QED
      BY <2>1, <3>1, <3>2
  <2>3. CASE ~(x = p /\ y = r)
    BY <1>0, <2>1, <2>3
  <2> QED
    BY <2>2, <2>3
<1>3. ASSUME NEW x \in Players, NEW a \in Saves, Promise!Save(x, a)
      PROVE  settled' = settled /\ told' = told
  BY <1>3 DEF Promise!Save
<1>4. CASE UNCHANGED Promise!vars
  BY <1>4 DEF Promise!vars
<1> QED
  BY <1>1, <1>2, <1>3, <1>4 DEF Promise!Next

\* Once a client has been told of a run, it is never told anything else, and the
\* settlement is never changed: not by a retry, a crash or another connection.
THEOREM SettlementsAreFinal == Spec => [][Kept]_vars
<1>1. Inv /\ [Next]_vars => Kept
  BY NextPromise, PromiseKeeps
<1> QED
  BY <1>1, Invariance, PTL DEF Spec

-----------------------------------------------------------------------------
(* The stats row                                                             *)

\* The credit that a transaction has computed is that of the row as it is.
RowInv ==
  \A w \in Conns : pc[w] \in StatsLocked => row[w] = CreditStats(stats[Owner[w]], job[w])

\* A row of stats is changed by the commit of a player's transaction, which excludes
\* the others, or by a report, which waits for it.
LEMMA RowStep ==
  ASSUME Inv, RowInv, [Next]_vars
  PROVE  RowInv'
<1> USE OwnerAssumption DEF Inv, TypeOK, RowInv
<1>1. ASSUME NEW w \in Conns, UpdateSettlementStats(w) PROVE RowInv'
  <2>1. /\ pc[w] = "stats" /\ pc' = [pc EXCEPT ![w] = "record"]
        /\ row' = [row EXCEPT ![w] = CreditStats(stats[Owner[w]], job[w])]
        /\ UNCHANGED <<stats, job>>
    BY <1>1 DEF UpdateSettlementStats, Goto, tables
  <2> QED
    BY <2>1
<1>2. ASSUME NEW w \in Conns, Commit(w) PROVE RowInv'
  <2> SUFFICES ASSUME NEW v \in Conns, pc'[v] \in StatsLocked
               PROVE  row'[v] = CreditStats(stats'[Owner[v]], job'[v])
    OBVIOUS
  <2>1. v # w
    BY <1>2 DEF Commit, Goto, Return
  <2>2. pc[v] = pc'[v] /\ job[v] = job'[v] /\ row[v] = row'[v]
    BY <2>1, <1>2 DEF Commit, Goto, Return, locals
  <2>3. Owner[v] # Owner[w]
    BY <2>1, <2>2, <1>2 DEF Commit, LockInv
  <2>4. stats'[Owner[v]] = stats[Owner[v]]
    BY <2>3, <1>2 DEF Commit
  <2> QED
    BY <2>2, <2>4
<1>3. ASSUME NEW w \in Conns, SaveStats(w) PROVE RowInv'
  <2> SUFFICES ASSUME NEW v \in Conns, pc'[v] \in StatsLocked
               PROVE  row'[v] = CreditStats(stats'[Owner[v]], job'[v])
    OBVIOUS
  <2>1. v # w
    BY <1>3 DEF SaveStats, Return
  <2>2. pc[v] = pc'[v] /\ job[v] = job'[v] /\ row[v] = row'[v]
    BY <2>1, <1>3 DEF SaveStats, Return
  <2>3. Owner[v] # Owner[w]
    BY <2>2, <1>3 DEF SaveStats, Locked
  <2>4. stats'[Owner[v]] = stats[Owner[v]]
    BY <2>3, <1>3 DEF SaveStats
  <2> QED
    BY <2>2, <2>4
<1>4. ASSUME NEW w \in Conns, UNCHANGED <<stats, job, row>>,
             \E to \in PlayerLocked \union {"reply"} : pc' = [pc EXCEPT ![w] = to],
             pc[w] \in StatsLocked \/ pc'[w] \notin StatsLocked
      PROVE  RowInv'
  BY <1>4
<1>5. ASSUME NEW w \in Conns,
             \/ LockPlayer(w) \/ EndDuplicate(w) \/ FoundNothing(w)
             \/ InsertScoreRecord(w) \/ UpsertArchive(w) \/ InsertSettlement(w) \/ SyncRank(w)
             \/ FoundDuplicate(w) \/ ReadArchive(w)
      PROVE  RowInv'
  <2>1. CASE \/ LockPlayer(w) \/ EndDuplicate(w) \/ FoundNothing(w)
             \/ FoundDuplicate(w) \/ ReadArchive(w) \/ SyncRank(w)
    BY <1>4, <2>1 DEF LockPlayer, EndDuplicate, FoundNothing, FoundDuplicate, ReadArchive,
       SyncRank, Goto, tables, locals
  <2>2. CASE InsertScoreRecord(w) \/ UpsertArchive(w) \/ InsertSettlement(w)
    BY <1>4, <2>2 DEF InsertScoreRecord, UpsertArchive, InsertSettlement, Goto, tables, locals
  <2> QED
    BY <1>5, <2>1, <2>2
<1>6. ASSUME NEW w \in Conns, Abort(w) \/ Reply(w) PROVE RowInv'
  <2>1. CASE Abort(w)
    BY <2>1 DEF Abort, Return, tables
  <2>2. CASE Reply(w)
    BY <2>2 DEF Reply, Return, tables
  <2> QED
    BY <1>6, <2>1, <2>2
<1>7. ASSUME NEW w \in Conns, NEW q \in Requests, CombatResult(w, q) PROVE RowInv'
  BY <1>7 DEF CombatResult, Goto, tables
<1>8. ASSUME NEW w \in Conns, NEW gold \in Reports, ReadStats(w, gold) PROVE RowInv'
  BY <1>8 DEF ReadStats, Goto, tables
<1>9. ASSUME NEW w \in Conns, NEW a \in Saves, SaveArchive(w, a) PROVE RowInv'
  BY <1>9 DEF SaveArchive, locals
<1>10. CASE Crash
  BY <1>10 DEF Crash, tables
<1>11. CASE UNCHANGED vars
  BY <1>11 DEF vars, tables, locals
<1>12. ASSUME NEW w \in Conns, NEW score \in Submissions, SubmitScore(w, score) PROVE RowInv'
  BY <1>12 DEF SubmitScore, tables, locals
<1> QED
  BY <1>1, <1>2, <1>3, <1>5, <1>6, <1>7, <1>8, <1>9, <1>10, <1>11, <1>12 DEF Next, HandlerStep

\* A settlement credits the row as it is when it commits, and what makes a best score
\* or a total fall is the write of a report.
StatsStep ==
  /\ \A w \in Conns : Commit(w) => stats'[Owner[w]] = CreditStats(stats[Owner[w]], job[w])
  /\ \A p \in Players :
       (stats'[p].best < stats[p].best \/ stats'[p].games < stats[p].games) =>
         \E w \in Conns : Owner[w] = p /\ SaveStats(w)

\* No settlement loses what another one, or a report, has written to the stats row;
\* only UpdatePlayerStats does (the violation of StatsAccumulate has no other cause).
THEOREM OnlyReportsLoseStats == Spec => [][StatsStep]_vars
<1>1. Init => RowInv
  BY DEF Init, RowInv
<1>2. Inv /\ RowInv /\ [Next]_vars => RowInv'
  BY RowStep
<1>3. Inv /\ RowInv /\ [Next]_vars => StatsStep
  <2> SUFFICES ASSUME Inv, RowInv, [Next]_vars PROVE StatsStep
    OBVIOUS
  <2> USE OwnerAssumption
  <2>0. \A p \in Players : stats[p] \in StatsRows
    BY DEF Inv, TypeOK
  <2>1. ASSUME NEW w \in Conns, Commit(w)
        PROVE  /\ stats'[Owner[w]] = CreditStats(stats[Owner[w]], job[w])
               /\ \A p \in Players \ {Owner[w]} : stats'[p] = stats[p]
    BY <2>1 DEF Commit, RowInv, Inv, TypeOK
  <2>2. ASSUME NEW w \in Conns, Commit(w), NEW p \in Players
        PROVE  ~(stats'[p].best < stats[p].best) /\ ~(stats'[p].games < stats[p].games)
    <3>1. stats[p].best \in Nat /\ stats[p].games \in Nat
      BY <2>0 DEF StatsRows
    <3>2. job[w].score \in Nat
      BY <2>2, RequestType DEF Commit, Inv, TypeOK
    <3>3. CASE p = Owner[w]
      <4>1. stats'[p].best = Larger(job[w].score, stats[p].best) /\ stats'[p].games = stats[p].games + 1
        <5>1. stats'[p] = CreditStats(stats[p], job[w])
          BY <2>1, <2>2, <3>3
        <5>2. ASSUME NEW x, NEW q PROVE CreditStats(x, q).best = Larger(q.score, x.best)
          BY DEF CreditStats
        <5>3. ASSUME NEW x, NEW q PROVE CreditStats(x, q).games = x.games + 1
          BY DEF CreditStats
        <5> QED
          BY <5>1, <5>2, <5>3, Zenon
      <4> QED
        BY <3>1, <3>2, <4>1 DEF Larger
    <3>4. CASE p # Owner[w]
      BY <2>1, <2>2, <3>1, <3>4
    <3> QED
      BY <3>3, <3>4
  <2>3. ASSUME UNCHANGED stats, NEW p \in Players
        PROVE  ~(stats'[p].best < stats[p].best) /\ ~(stats'[p].games < stats[p].games)
    <3>1. stats[p].best \in Nat /\ stats[p].games \in Nat
      BY <2>0 DEF StatsRows
    <3> QED
      BY <2>3, <3>1
  <2>4. ASSUME NEW w \in Conns, SaveStats(w), NEW p \in Players, p # Owner[w]
        PROVE  ~(stats'[p].best < stats[p].best) /\ ~(stats'[p].games < stats[p].games)
    <3>1. stats[p].best \in Nat /\ stats[p].games \in Nat
      BY <2>0 DEF StatsRows
    <3>2. stats'[p] = stats[p]
      BY <2>4 DEF SaveStats, Inv, TypeOK
    <3> QED
      BY <3>1, <3>2
  <2>5. ASSUME NEW w \in Conns,
               \/ LockPlayer(w) \/ FoundDuplicate(w) \/ EndDuplicate(w) \/ FoundNothing(w)
               \/ ReadArchive(w) \/ UpdateSettlementStats(w) \/ InsertScoreRecord(w)
               \/ UpsertArchive(w) \/ InsertSettlement(w) \/ Abort(w) \/ SyncRank(w) \/ Reply(w)
        PROVE  UNCHANGED stats
    BY <2>5 DEF LockPlayer, FoundDuplicate, EndDuplicate, FoundNothing, ReadArchive,
       UpdateSettlementStats, InsertScoreRecord, UpsertArchive, InsertSettlement, Abort,
       SyncRank, Reply, tables
  <2>6. ASSUME \/ \E w \in Conns, q \in Requests : CombatResult(w, q)
               \/ \E w \in Conns, a \in Saves : SaveArchive(w, a)
               \/ \E w \in Conns, gold \in Reports : ReadStats(w, gold)
               \/ \E w \in Conns, score \in Submissions : SubmitScore(w, score)
               \/ Crash \/ UNCHANGED vars
        PROVE  UNCHANGED stats
    BY <2>6 DEF CombatResult, SaveArchive, ReadStats, SubmitScore, Crash, vars, tables
  <2>7. \/ \E w \in Conns : Commit(w)
        \/ \E w \in Conns : SaveStats(w)
        \/ UNCHANGED stats
    BY <2>5, <2>6 DEF Next, HandlerStep
  <2> QED
    BY <2>1, <2>2, <2>3, <2>4, <2>7 DEF StatsStep
<1> QED
  BY <1>1, <1>2, <1>3, Invariance, PTL DEF Spec

-----------------------------------------------------------------------------
(* The cap on kills                                                          *)

\* The cap on kills, three times the rooms times the density, without any rounding.
ExactMaxKills(level) == (GetDungeonConfig(level).RoomCount * Twentieths(level) * 3) \div 20

\* The levels at which the rounding of the density costs a kill.
RoundedDown == {7, 8, 10, 13}

\* The cap in terms of the rooms and the density.
LEMMA CapAt ==
  ASSUME NEW level \in Levels, NEW rooms \in Nat, NEW density \in Nat,
         rooms = Smaller(8 + 2 * level, 20), density = EnemyDensity(level)
  PROVE  /\ MaxKills(level) = (rooms * density * 3) \div 8388608
         /\ ExactMaxKills(level) = (rooms * Twentieths(level) * 3) \div 20
<1>1. GetDungeonConfig(level).RoomCount = rooms /\ GetDungeonConfig(level).EnemyDensity = density
  BY DEF GetDungeonConfig
<1>2. DefaultCombatConfig.MaxKillsMultiplier = 3
  BY DEF DefaultCombatConfig
<1> QED
  BY <1>1, <1>2 DEF MaxKills, ExactMaxKills, One

\* The rooms stop growing at level 6, the density at level 15.
LEMMA Config ==
  ASSUME NEW level \in Levels
  PROVE  /\ level \in 1..14 => Twentieths(level) = 17 + 3 * level
         /\ level \in 15..100 => Twentieths(level) = 60
         /\ level \in 1..6 => Smaller(8 + 2 * level, 20) = 8 + 2 * level
         /\ level \in 6..100 => Smaller(8 + 2 * level, 20) = 20
BY DEF Twentieths, Smaller, Levels, maxDungeonLevel

\* The density in units of one Ulp: below 2, and above.
LEMMA Density ==
  ASSUME NEW level \in Levels
  PROVE  /\ Twentieths(level) < 40 =>
              EnemyDensity(level) = (Twentieths(level) * 4194304 + 5) \div 10
         /\ Twentieths(level) >= 40 =>
              EnemyDensity(level) = 2 * ((Twentieths(level) * 2097152 + 5) \div 10)
<1>1. Twentieths(level) \in Nat
  BY DEF Twentieths, Smaller, Levels, maxDungeonLevel
<1>2. One \div 4 = 2097152 /\ One \div 8 = 1048576
  BY DEF One
<1> QED
  BY <1>1, <1>2 DEF EnemyDensity, Ulp, Rounded

\* At no dungeon level does a rounded density let a kill more pass than config.go 26
\* allows, and it refuses the last one at four of them (validateCombatResult).
THEOREM KillsAreCapped ==
  \A level \in Levels :
    MaxKills(level) = ExactMaxKills(level) - (IF level \in RoundedDown THEN 1 ELSE 0)
<1> SUFFICES ASSUME NEW level \in Levels
             PROVE  MaxKills(level) =
                      ExactMaxKills(level) - (IF level \in RoundedDown THEN 1 ELSE 0)
  OBVIOUS
<1> DEFINE rooms == Smaller(8 + 2 * level, 20)
           density == EnemyDensity(level)
<1>1. rooms \in Nat /\ density \in Nat
  BY Config, Density DEF Levels, maxDungeonLevel
<1>2. /\ MaxKills(level) = (rooms * density * 3) \div 8388608
      /\ ExactMaxKills(level) = (rooms * Twentieths(level) * 3) \div 20
  BY <1>1, CapAt
<1> HIDE DEF rooms, density
<1> USE Config, Density DEF rooms, density, RoundedDown
<1>3. CASE level \in 1..7
  <2>1. /\ Twentieths(level) = 17 + 3 * level
        /\ rooms = IF level = 7 THEN 20 ELSE 8 + 2 * level
        /\ density = ((17 + 3 * level) * 4194304 + 5) \div 10
    BY <1>3
  <2>2. level = 1 \/ level = 2 \/ level = 3 \/ level = 4 \/ level = 5 \/ level = 6 \/ level = 7
    BY <1>3
  <2> QED
    BY SMTT(30), <1>2, <2>1, <2>2
<1>4. CASE level \in 8..14
  <2>1. rooms = 20 /\ Twentieths(level) = 17 + 3 * level
    BY <1>4
  <2>2. density = 2 * (((17 + 3 * level) * 2097152 + 5) \div 10)
    BY <1>4, <2>1
  <2>3. MaxKills(level) = (60 * density) \div 8388608
    <3>1. rooms * density * 3 = 60 * density
      BY SMTT(30), <1>1, <2>1
    <3> QED
      BY SMTT(30), <1>2, <3>1
  <2>4. ExactMaxKills(level) = 3 * (17 + 3 * level)
    <3>1. (20 * (17 + 3 * level) * 3) \div 20 = 3 * (17 + 3 * level)
      BY SMTT(30), <1>4
    <3> QED
      BY SMTT(30), <1>2, <2>1, <3>1
  <2> QED
    BY SMTT(30), <1>4, <2>2, <2>3, <2>4
<1>5. CASE level \in 15..100
  <2>1. rooms = 20 /\ Twentieths(level) = 60 /\ density = 25165824
    BY <1>5
  <2> QED
    BY SMTT(30), <1>2, <1>5, <2>1
<1> QED
  BY <1>3, <1>4, <1>5 DEF Levels, maxDungeonLevel

-----------------------------------------------------------------------------
(* What is paid                                                              *)

\* What is stored for a run was computed from a request of that run.
RewardInv ==
  \A p \in Players, r \in Runs : settled[p][r] # NotSettled =>
    \E q \in Requests : q.run = r /\ settled[p][r].gold = Reward(q)

\* Only a commit stores a response, and it is the one to its request.
LEMMA RewardStep ==
  ASSUME Inv, RewardInv, [Next]_vars
  PROVE  RewardInv'
<1> USE OwnerAssumption DEF Inv, TypeOK
<1>1. ASSUME NEW w \in Conns, Commit(w) PROVE RewardInv'
  <2>1. job[w] \in Requests /\ Owner[w] \in Players
    BY <1>1 DEF Commit
  <2>2. resp[w].gold = Reward(job[w])
    BY <1>1 DEF Commit, ReadInv, Response
  <2>3. settled' = [settled EXCEPT ![Owner[w]][job[w].run] = resp[w]]
    BY <1>1 DEF Commit
  <2> SUFFICES ASSUME NEW p \in Players, NEW r \in Runs, settled'[p][r] # NotSettled
               PROVE  \E q \in Requests : q.run = r /\ settled'[p][r].gold = Reward(q)
    BY DEF RewardInv
  <2>4. CASE p = Owner[w] /\ r = job[w].run
    BY <2>1, <2>2, <2>3, <2>4
  <2>5. CASE ~(p = Owner[w] /\ r = job[w].run)
    <3>1. settled'[p][r] = settled[p][r]
      BY <2>1, <2>3, <2>5
    <3> QED
      BY <3>1 DEF RewardInv
  <2> QED
    BY <2>4, <2>5
<1>2. ASSUME UNCHANGED settled PROVE RewardInv'
  BY <1>2 DEF RewardInv
<1>3. ASSUME NEW w \in Conns,
             \/ LockPlayer(w) \/ FoundDuplicate(w) \/ EndDuplicate(w) \/ FoundNothing(w)
             \/ ReadArchive(w) \/ UpdateSettlementStats(w) \/ InsertScoreRecord(w)
             \/ UpsertArchive(w) \/ InsertSettlement(w) \/ Abort(w)
             \/ SyncRank(w) \/ Reply(w) \/ SaveStats(w)
      PROVE  UNCHANGED settled
  BY <1>3 DEF LockPlayer, FoundDuplicate, EndDuplicate, FoundNothing, ReadArchive,
     UpdateSettlementStats, InsertScoreRecord, UpsertArchive, InsertSettlement, Abort,
     SyncRank, Reply, SaveStats, tables
<1>4. ASSUME \/ \E w \in Conns, q \in Requests : CombatResult(w, q)
             \/ \E w \in Conns, a \in Saves : SaveArchive(w, a)
             \/ \E w \in Conns, gold \in Reports : ReadStats(w, gold)
             \/ \E w \in Conns, score \in Submissions : SubmitScore(w, score)
             \/ Crash \/ UNCHANGED vars
      PROVE  UNCHANGED settled
  BY <1>4 DEF CombatResult, SaveArchive, ReadStats, SubmitScore, Crash, vars, tables
<1> QED
  BY <1>1, <1>2, <1>3, <1>4 DEF Next, HandlerStep

\* A result that passes the validation is one that its dungeon allows, with the exact
\* density for the float32.
LEMMA ValidIsPossible ==
  ASSUME NEW res \in Results, validateCombatResult(res)
  PROVE  LET answer == DungeonAnswer(res.DungeonLevel)
         IN  /\ answer.found /\ answer.dungeon.BossId \in answer.enemies
             /\ 20 * res.Kills <= answer.dungeon.RoomCount * Twentieths(res.DungeonLevel) * 3
             /\ res.Score <= 10000 * res.DungeonLevel
             /\ getStyleConfig(res.StyleId)
<1> DEFINE level == res.DungeonLevel
           answer == DungeonAnswer(level)
           cap == GetDungeonConfig(level).RoomCount * Twentieths(level) * 3
<1>1. /\ level \in Levels /\ res.Kills \in 0..MaxKills(level)
      /\ res.Score \in 0..MaxScore(level) /\ res.StyleId \in 1..5
  BY DEF validateCombatResult
<1>2. level \in 1..100
  BY <1>1 DEF Levels, maxDungeonLevel
<1>3. /\ answer.found /\ answer.dungeon = GetDungeonConfig(level)
      /\ answer.enemies = EnemyIds /\ GetDungeonConfig(level).BossId = 4
  BY <1>2 DEF DungeonAnswer, GetDungeonConfig
<1>4. 20 * res.Kills <= cap
  <2>1. cap \in Nat
    <3>1. GetDungeonConfig(level).RoomCount = Smaller(8 + 2 * level, 20)
      BY DEF GetDungeonConfig
    <3>2. GetDungeonConfig(level).RoomCount \in Nat /\ Twentieths(level) \in Nat
      BY <1>2, <3>1 DEF Smaller, Twentieths
    <3> QED
      BY <3>2
  <2>2. ExactMaxKills(level) = cap \div 20
    BY DEF ExactMaxKills
  <2>3. MaxKills(level) = ExactMaxKills(level) - (IF level \in RoundedDown THEN 1 ELSE 0)
    BY <1>1, KillsAreCapped
  <2> HIDE DEF cap
  <2>4. cap \div 20 \in Nat /\ 20 * (cap \div 20) <= cap
    BY <2>1
  <2>5. MaxKills(level) \in Int /\ MaxKills(level) <= cap \div 20
    BY <2>2, <2>3, <2>4
  <2>6. res.Kills \in Nat /\ res.Kills <= cap \div 20
    BY <1>1, <2>4, <2>5
  <2> QED
    BY <2>1, <2>4, <2>6
<1>5. res.Score <= 10000 * level
  BY <1>1, <1>2 DEF MaxScore, DefaultCombatConfig
<1> QED
  BY <1>1, <1>3, <1>4, <1>5 DEF EnemyIds, StyleIds, getStyleConfig

\* Every reward that was paid could have been earned in a dungeon that clients are told
\* of, at every level, whatever the clients send and the float32 rounds.
THEOREM RewardsAreEarned == Spec => []RewardIsEarned
<1>1. Init => RewardInv
  BY DEF Init, RewardInv
<1>2. Inv /\ RewardInv /\ [Next]_vars => RewardInv'
  BY RewardStep
<1>3. RewardInv => RewardIsEarned
  <2> SUFFICES ASSUME NEW p \in Players, NEW r \in Runs,
                      NEW res \in Results, validateCombatResult(res),
                      Battle(res).run = r, settled[p][r].gold = Reward(Battle(res))
               PROVE  /\ res.RunId = r
                      /\ settled[p][r].gold = DefaultCombatConfig.GoldPerKill * res.Kills
    BY ValidIsPossible DEF RewardInv, RewardIsEarned, Requests
  <2>1. Battle(res).run = res.RunId /\ Battle(res).kills = res.Kills
    BY DEF Battle
  <2>2. res.Kills \in Nat /\ DefaultCombatConfig.GoldPerKill = 5
    BY DEF validateCombatResult, DefaultCombatConfig
  <2>3. res.Kills * GoldPerKill = DefaultCombatConfig.GoldPerKill * res.Kills
    BY <2>2, PolicyAssumption
  <2> QED
    BY <2>1, <2>3 DEF Reward
<1> QED
  BY <1>1, <1>2, <1>3, Invariance, PTL DEF Spec

=============================================================================
