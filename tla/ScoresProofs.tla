---------------------------- MODULE ScoresProofs ----------------------------
(***************************************************************************)
(* Proofs about Scores, for any players, names, connections and scores.    *)
(*                                                                         *)
(* That no record is archived twice needs that submissions in hand are     *)
(* told apart from those archived (IdInv).  That a page is a window needs  *)
(* that the board is finite and its order total: the place of a member is  *)
(* then its index in the sorted board.                                     *)
(***************************************************************************)
EXTENDS Scores, FiniteSetTheorems, TLAPS

\* Submissions are numbered, and one whose goroutine has not been started has a number
\* of its own.
IdInv ==
  /\ \A j \in writers \union records : j.id <= submits
  /\ \A c \in Conns : Submitting(c) => job[c].id <= submits
  /\ \A c \in Conns : pc[c] \in {"name", "rank"} =>
       /\ \A j \in writers \union records : j.id # job[c].id
       /\ \A d \in Conns : Submitting(d) /\ job[d].id = job[c].id => d = c

\* The two parts of BestIsHighest.
StoredInv ==
  \A p \in Players :
    /\ best[p] \in stored[p] \union {0}
    /\ \A s \in stored[p] : s <= best[p]

AnswersInv == \A c \in Conns : told[c] <= best[Owner[c]]

Inv == TypeOK /\ IdInv /\ StoredInv

PCs == {"idle", "naming", "token", "name", "rank", "best", "reread"}

-----------------------------------------------------------------------------
\* What Redis holds for a score is a score.
LEMMA FloatType == ASSUME NEW s \in Nat PROVE Float(s) \in Nat
<1>1. CASE s % 4 = 1
  <2>1. s >= 1
    BY <1>1
  <2> QED
    BY <1>1, <2>1 DEF Float
<1>2. CASE s % 4 # 1
  BY <1>2 DEF Float
<1> QED
  BY <1>1, <1>2

\* ZADD changes one member.
LEMMA RankStep ==
  ASSUME TypeOK, NEW m \in Members, NEW s \in Nat, UpdateRank(m, s)
  PROVE  /\ DOMAIN board' = DOMAIN board \union {m} /\ DOMAIN board' \subseteq Members
         /\ board'[m] = Float(s)
         /\ \A x \in DOMAIN board' : x # m => x \in DOMAIN board /\ board'[x] = board[x]
         /\ \A x \in DOMAIN board' : board'[x] \in Nat
<1>1. DOMAIN board \subseteq Members /\ \A x \in DOMAIN board : board[x] \in Nat
  BY DEF TypeOK
<1> QED
  BY <1>1, FloatType DEF UpdateRank

\* The submission in hand, and where its score goes.
LEMMA InHand ==
  ASSUME Inv, NEW c \in Conns, Submitting(c)
  PROVE  /\ Owner[c] \in Players
         /\ job[c] \in Jobs /\ job[c].score \in Nat
         /\ <<Owner[c], nick[c]>> \in Members
BY ScoresAssumption DEF Inv, TypeOK, Jobs, Members

\* The handler has gone.
LEMMA ReturnTypes ==
  ASSUME TypeOK, NEW c \in Conns, NEW score \in Nat, Return(c, score)
  PROVE  /\ pc' \in [Conns -> PCs] /\ pc'[c] = "idle"
         /\ job' \in [Conns -> Jobs \union {NoJob}]
         /\ nick' \in [Conns -> Names]
         /\ told' \in [Conns -> Nat]
         /\ \A d \in Conns \ {c} : pc'[d] = pc[d] /\ job'[d] = job[d]
<1>1. /\ pc \in [Conns -> PCs] /\ job \in [Conns -> Jobs \union {NoJob}]
      /\ nick \in [Conns -> Names] /\ told \in [Conns -> Nat] /\ UidName \in Names
  BY ScoresAssumption DEF TypeOK, PCs
<1> QED
  BY <1>1 DEF Return, PCs

\* A conditional UPDATE.
LEMMA StoreStep ==
  ASSUME Inv, NEW p \in Players, NEW score \in Nat, StoreBest(p, score)
  PROVE  /\ best' \in [Players -> Nat] /\ stored' \in [Players -> SUBSET Nat]
         /\ StoredInv'
<1>1. best \in [Players -> Nat] /\ stored \in [Players -> SUBSET Nat]
  BY DEF Inv, TypeOK
<1>2. best' \in [Players -> Nat]
  BY <1>1 DEF StoreBest
<1>3. stored' \in [Players -> SUBSET Nat]
  <2>1. stored[p] \union {score} \in SUBSET Nat
    BY <1>1
  <2> QED
    BY <1>1, <2>1 DEF StoreBest
<1>4. ASSUME NEW x \in Players
      PROVE  best'[x] \in stored'[x] \union {0} /\ \A s \in stored'[x] : s <= best'[x]
  <2>1. best[x] \in stored[x] \union {0} /\ \A s \in stored[x] : s <= best[x]
    BY DEF Inv, StoredInv
  <2>2. CASE x = p
    <3>1. stored'[x] = stored[x] \union {score}
          /\ best'[x] = IF best[x] < score THEN score ELSE best[x]
      BY <1>1, <2>2 DEF StoreBest
    <3>2. best[x] \in Nat /\ stored[x] \subseteq Nat
      BY <1>1
    <3>3. CASE best[x] < score
      BY <2>1, <3>1, <3>2, <3>3
    <3>4. CASE ~(best[x] < score)
      BY <2>1, <3>1, <3>2, <3>4
    <3> QED
      BY <3>3, <3>4
  <2>3. CASE x # p
    BY <1>1, <2>1, <2>3 DEF StoreBest
  <2> QED
    BY <2>2, <2>3
<1> QED
  BY <1>2, <1>3, <1>4 DEF StoredInv

-----------------------------------------------------------------------------
(* Each step keeps the invariant                                             *)

LEMMA SubmitStep ==
  ASSUME Inv, NEW c \in Conns, NEW score \in Submissions, SubmitScore(c, score)
  PROVE  Inv'
<1> USE ScoresAssumption
<1> DEFINE new == [id |-> submits + 1, player |-> Owner[c], score |-> score]
<1>0. TypeOK /\ IdInv /\ StoredInv
  BY DEF Inv
<1>1. /\ new \in Jobs /\ new.id = submits + 1 /\ new.score = score
      /\ score \in Nat /\ Owner[c] \in Players /\ submits \in Nat /\ submits < MaxSubmits
  BY <1>0 DEF SubmitScore, TypeOK, Jobs
<1>2. /\ pc[c] = "idle" /\ pc' = [pc EXCEPT ![c] = "name"]
      /\ submits' = submits + 1 /\ job' = [job EXCEPT ![c] = new]
      /\ UNCHANGED <<stores, row, nick, writers, told, stored>>
  BY DEF SubmitScore, Goto
<1> HIDE DEF new
<1>3. /\ pc'[c] = "name" /\ job'[c] = new
      /\ \A d \in Conns \ {c} : pc'[d] = pc[d] /\ job'[d] = job[d]
      /\ pc' \in [Conns -> PCs] /\ job' \in [Conns -> Jobs \union {NoJob}]
  BY <1>0, <1>1, <1>2 DEF TypeOK, PCs
<1>4. \A d \in Conns : (Submitting(d))' => job'[d] \in Jobs
  BY <1>0, <1>1, <1>3 DEF TypeOK, Submitting
<1>5. TypeOK'
  BY <1>0, <1>1, <1>2, <1>3, <1>4 DEF TypeOK, PCs, stores
<1>7. IdInv'
  <2>1. \A j \in writers \union records : j.id \in Nat /\ j.id <= submits
    BY <1>0 DEF TypeOK, IdInv, Jobs
  <2>2. \A d \in Conns : Submitting(d) => job[d].id \in Nat /\ job[d].id <= submits
    BY <1>0 DEF TypeOK, IdInv, Jobs
  <2>3. UNCHANGED <<writers, records>>
    BY <1>2 DEF stores
  <2> QED
    BY <1>0, <1>1, <1>3, <1>2, <2>1, <2>2, <2>3 DEF IdInv, Submitting
<1>8. StoredInv'
  BY <1>0, <1>2 DEF StoredInv, stores
<1> QED
  BY <1>5, <1>7, <1>8 DEF Inv

LEMMA NicknameStep == ASSUME Inv, NEW c \in Conns, ReadNickname(c) PROVE Inv'
<1> USE ScoresAssumption DEF Inv, Submitting
<1>1. pc[c] = "name" /\ pc' = [pc EXCEPT ![c] = "rank"] /\ nick' \in [Conns -> Names]
      /\ UNCHANGED <<stores, row, job, writers, history>>
  <2>1. \E n \in {name[Owner[c]], UidName} \ {NoName} : nick' = [nick EXCEPT ![c] = n]
    BY DEF ReadNickname
  <2>2. name[Owner[c]] \in Names \union {NoName} /\ UidName \in Names /\ nick \in [Conns -> Names]
    BY DEF TypeOK
  <2>3. nick' \in [Conns -> Names]
    BY <2>1, <2>2
  <2> QED
    BY <2>3 DEF ReadNickname, Goto
<1>2. TypeOK'
  BY <1>1 DEF TypeOK, stores, history
<1>4. IdInv'
  BY <1>1 DEF IdInv, TypeOK, stores, history
<1>5. StoredInv'
  BY <1>1 DEF StoredInv, stores, history
<1> QED
  BY <1>2, <1>4, <1>5

LEMMA SpawnStep == ASSUME Inv, NEW c \in Conns, RankAndSpawn(c) PROVE Inv'
<1> USE ScoresAssumption DEF Submitting
<1>0. TypeOK /\ IdInv /\ StoredInv
  BY DEF Inv
<1>1. pc[c] = "rank" /\ pc' = [pc EXCEPT ![c] = "best"] /\ writers' = writers \union {job[c]}
      /\ UNCHANGED <<name, best, records, open, row, job, nick, history>>
  BY DEF RankAndSpawn, Goto
<1>2. /\ Owner[c] \in Players /\ job[c] \in Jobs /\ job[c].score \in Nat
      /\ <<Owner[c], nick[c]>> \in Members
  BY <1>1, InHand
<1>3. DOMAIN board' \subseteq Members /\ \A x \in DOMAIN board' : board'[x] \in Nat
  <2>1. CASE UpdateRank(<<Owner[c], nick[c]>>, job[c].score)
    BY <1>0, <1>2, <2>1, RankStep
  <2>2. CASE UNCHANGED board
    BY <1>0, <2>2 DEF TypeOK
  <2> QED
    BY <2>1, <2>2 DEF RankAndSpawn
<1>4. job[c] \notin records
  BY <1>0, <1>1 DEF IdInv
<1>5. TypeOK'
  BY <1>0, <1>1, <1>2, <1>3, <1>4 DEF TypeOK, history
<1>7. IdInv'
  BY <1>0, <1>1 DEF IdInv, TypeOK, history
<1>8. StoredInv'
  BY <1>0, <1>1 DEF StoredInv, history
<1> QED
  BY <1>5, <1>7, <1>8 DEF Inv

\* The last part of SubmitScore.
LEMMA BestStep ==
  ASSUME Inv, NEW c \in Conns, UpdateBestScore(c) \/ UpdateBestFails(c) \/ Reread(c)
  PROVE  Inv'
<1> USE ScoresAssumption DEF Submitting
<1>0. TypeOK /\ IdInv /\ StoredInv
  BY DEF Inv
<1>1. UNCHANGED <<name, records, board, open, row, writers, submits>> /\ Submitting(c)
  BY DEF UpdateBestScore, UpdateBestFails, Reread, Goto, stores
<1>2. Owner[c] \in Players /\ job[c] \in Jobs /\ job[c].score \in Nat
  BY <1>1, InHand
<1>3. /\ best' \in [Players -> Nat] /\ stored' \in [Players -> SUBSET Nat]
      /\ StoredInv'
  <2>1. CASE StoreBest(Owner[c], job[c].score)
    BY <1>2, <2>1, StoreStep
  <2>2. CASE UNCHANGED <<best, stored>>
    BY <1>0, <2>2 DEF TypeOK, StoredInv
  <2> QED
    BY <2>1, <2>2 DEF UpdateBestScore, UpdateBestFails, Reread, stores
<1>4. /\ pc' \in [Conns -> PCs] /\ job' \in [Conns -> Jobs \union {NoJob}]
      /\ nick' \in [Conns -> Names] /\ told' \in [Conns -> Nat]
      /\ pc'[c] \in {"idle", "reread"} /\ (pc'[c] = "reread" => job'[c] = job[c])
      /\ \A d \in Conns \ {c} : pc'[d] = pc[d] /\ job'[d] = job[d]
  <2>1. CASE UpdateBestScore(c)
    BY <1>0, <1>2, <2>1, ReturnTypes DEF UpdateBestScore
  <2>2. CASE UpdateBestFails(c)
    <3>1. pc' = [pc EXCEPT ![c] = "reread"] /\ UNCHANGED <<job, nick, told>>
      BY <2>2 DEF UpdateBestFails, Goto
    <3> QED
      BY <1>0, <3>1 DEF TypeOK, PCs
  <2>3. CASE Reread(c)
    <3>1. PICK score \in {best[Owner[c]], 0} : Return(c, score)
      BY <2>3 DEF Reread
    <3>2. score \in Nat
      <4>1. best[Owner[c]] \in Nat
        BY <1>0, <1>2 DEF TypeOK
      <4> QED
        BY <3>1, <4>1
    <3> QED
      BY <1>0, <3>1, <3>2, ReturnTypes
  <2> QED
    BY <2>1, <2>2, <2>3
<1>5. \A d \in Conns : (Submitting(d))' => job'[d] \in Jobs
  BY <1>0, <1>2, <1>4 DEF TypeOK
<1>6. TypeOK'
  BY <1>0, <1>1, <1>3, <1>4, <1>5 DEF TypeOK, PCs
<1>7. IdInv'
  BY <1>0, <1>1, <1>4 DEF IdInv
<1> QED
  BY <1>3, <1>6, <1>7 DEF Inv

LEMMA RecordStep == ASSUME Inv, NEW j \in writers, CreateScoreRecord(j) PROVE Inv'
<1> USE ScoresAssumption DEF Inv, Submitting
<1>1. writers' = writers \ {j} /\ (records' = records \union {j} \/ UNCHANGED records)
      /\ UNCHANGED <<name, best, board, open, locals, history>>
  BY DEF CreateScoreRecord
<1>2. TypeOK'
  BY <1>1 DEF TypeOK, locals, history
<1>3. IdInv' /\ StoredInv'
  BY <1>1 DEF IdInv, StoredInv, locals, history
<1> QED
  BY <1>2, <1>3

LEMMA BattleStep ==
  ASSUME Inv, NEW p \in Players, NEW score \in Battles, CombatResult(p, score)
  PROVE  Inv'
<1> USE ScoresAssumption DEF Submitting
<1>0. TypeOK /\ IdInv /\ StoredInv
  BY DEF Inv
<1>1. /\ UpdateRank(<<p, UidName>>, score)
      /\ UNCHANGED <<name, best, records, open, locals, writers, history>>
  BY DEF CombatResult, history
<1>2. DOMAIN board' \subseteq Members /\ \A x \in DOMAIN board' : board'[x] \in Nat
  <2>1. <<p, UidName>> \in Members /\ score \in Nat
    BY DEF Members
  <2> QED
    BY <1>0, <1>1, <2>1, RankStep
<1>3. TypeOK'
  BY <1>0, <1>1, <1>2 DEF TypeOK, locals, history
<1>4. IdInv' /\ StoredInv'
  BY <1>0, <1>1 DEF IdInv, StoredInv, locals, history
<1> QED
  BY <1>3, <1>4 DEF Inv

\* What a login writes back becomes the best score, and all that counts as written.
LEMMA WriteStep ==
  ASSUME Inv, NEW c \in Conns, WriteRow(c)
  PROVE  /\ name' \in [Players -> Names \union {NoName}]
         /\ best' \in [Players -> Nat] /\ stored' \in [Players -> SUBSET Nat]
         /\ told' \in [Conns -> Nat]
         /\ StoredInv'
         /\ \A d \in Conns :
              IF Owner[d] = Owner[c] THEN told'[d] = 0
              ELSE told'[d] = told[d] /\ best'[Owner[d]] = best[Owner[d]]
<1> USE ScoresAssumption
<1>1. /\ TypeOK /\ StoredInv /\ Owner[c] \in Players
      /\ row[c] \in Rows /\ row[c].name \in Names /\ row[c].best \in Nat
  BY DEF Inv, TypeOK, Rows
<1>2. /\ name' \in [Players -> Names \union {NoName}]
      /\ best' \in [Players -> Nat] /\ stored' \in [Players -> SUBSET Nat]
      /\ told' \in [Conns -> Nat]
  BY <1>1 DEF WriteRow, TypeOK
<1>3. ASSUME NEW x \in Players
      PROVE  best'[x] \in stored'[x] \union {0} /\ \A s \in stored'[x] : s <= best'[x]
  <2>1. CASE x = Owner[c]
    BY <1>1, <2>1 DEF WriteRow, TypeOK
  <2>2. CASE x # Owner[c]
    BY <1>1, <2>2 DEF WriteRow, TypeOK, StoredInv
  <2> QED
    BY <2>1, <2>2
<1>4. \A d \in Conns :
        IF Owner[d] = Owner[c] THEN told'[d] = 0
        ELSE told'[d] = told[d] /\ best'[Owner[d]] = best[Owner[d]]
  BY <1>1 DEF WriteRow, TypeOK
<1> QED
  BY <1>2, <1>3, <1>4 DEF StoredInv

\* A login moves between places at which no submission is in hand.
LEMMA LoginStep ==
  ASSUME Inv, NEW c \in Conns, ReadPlayer(c) \/ CreatePlayer(c) \/ UpdatePlayer(c)
  PROVE  Inv'
<1> USE ScoresAssumption DEF Submitting
<1>0. TypeOK /\ IdInv /\ StoredInv /\ Owner[c] \in Players
  BY DEF Inv, TypeOK
<1>1. /\ pc[c] \in {"idle", "naming", "token"}
      /\ \E to \in {"idle", "naming", "token"} : pc' = [pc EXCEPT ![c] = to]
      /\ UNCHANGED <<records, board, open, job, nick, writers, submits>>
  BY DEF ReadPlayer, CreatePlayer, UpdatePlayer, Goto, stores, history
<1>2. /\ pc' \in [Conns -> PCs] /\ pc'[c] \in {"idle", "naming", "token"}
      /\ \A d \in Conns \ {c} : pc'[d] = pc[d]
  BY <1>0, <1>1 DEF TypeOK, PCs
<1>3. row' \in [Conns -> Rows]
  <2>1. CASE ReadPlayer(c)
    <3>1. [name |-> name[Owner[c]], best |-> best[Owner[c]]] \in Rows
      BY <1>0, <2>1 DEF ReadPlayer, TypeOK, Rows
    <3> QED
      BY <1>0, <2>1, <3>1 DEF ReadPlayer, TypeOK
  <2>2. CASE CreatePlayer(c)
    <3>1. [name |-> Nickname, best |-> 0] \in Rows
      BY DEF Rows
    <3> QED
      BY <1>0, <2>2, <3>1 DEF CreatePlayer, TypeOK
  <2>3. CASE UpdatePlayer(c)
    <3>1. NoRow \in Rows
      BY DEF NoRow, Rows
    <3> QED
      BY <1>0, <2>3, <3>1 DEF UpdatePlayer, TypeOK
  <2> QED
    BY <2>1, <2>2, <2>3
<1>4. /\ name' \in [Players -> Names \union {NoName}]
      /\ best' \in [Players -> Nat] /\ stored' \in [Players -> SUBSET Nat]
      /\ told' \in [Conns -> Nat]
      /\ StoredInv'
  <2>1. CASE WriteRow(c)
    BY <2>1, WriteStep
  <2>2. CASE UNCHANGED <<best, stored, told>> /\ name' = [name EXCEPT ![Owner[c]] = NewName]
    BY <1>0, <2>2 DEF TypeOK, StoredInv
  <2>3. CASE UNCHANGED <<name, best, stored, told>>
    BY <1>0, <2>3 DEF TypeOK, StoredInv
  <2> QED
    BY <2>1, <2>2, <2>3 DEF ReadPlayer, CreatePlayer, UpdatePlayer, stores, history
<1>5. TypeOK'
  BY <1>0, <1>1, <1>2, <1>3, <1>4 DEF TypeOK, PCs
<1>6. IdInv'
  BY <1>0, <1>1, <1>2 DEF IdInv
<1> QED
  BY <1>4, <1>5, <1>6 DEF Inv

\* The end of the stores and a new process.
LEMMA ServerStep == ASSUME Inv, CloseStores \/ Restart \/ UNCHANGED vars PROVE Inv'
<1> USE ScoresAssumption DEF Inv, Submitting, stores, locals, history
<1>2. CASE CloseStores
  BY <1>2 DEF CloseStores, TypeOK, IdInv, StoredInv
<1>3. CASE Restart
  BY <1>3 DEF Restart, TypeOK, IdInv, StoredInv, Rows, NoRow
<1>4. CASE UNCHANGED vars
  BY <1>4 DEF vars, TypeOK, IdInv, StoredInv
<1> QED
  BY <1>2, <1>3, <1>4

-----------------------------------------------------------------------------
\* Only a login lowers a best score, and an answer names one that is stored by then.
LEMMA AnswerStep == Inv /\ AnswersInv /\ [Next]_vars => AnswersInv'
<1> SUFFICES ASSUME Inv, AnswersInv, [Next]_vars, NEW d \in Conns
             PROVE  told'[d] <= best'[Owner[d]]
  BY DEF AnswersInv
<1> USE ScoresAssumption
<1>0. /\ best \in [Players -> Nat] /\ told \in [Conns -> Nat]
      /\ Owner[d] \in Players /\ told[d] <= best[Owner[d]]
      /\ told[d] \in Nat /\ best[Owner[d]] \in Nat
  BY DEF Inv, TypeOK, AnswersInv
\* No answer, and the best score is not lowered.
<1>a. ASSUME told'[d] = told[d], best[Owner[d]] <= best'[Owner[d]], best'[Owner[d]] \in Nat
      PROVE  told'[d] <= best'[Owner[d]]
  <2> DEFINE t == told[d]
             b == best[Owner[d]]
             n == best'[Owner[d]]
  <2>1. t \in Nat /\ b \in Nat /\ n \in Nat /\ t <= b /\ b <= n
    BY <1>0, <1>a
  <2>2. t <= n
    <3> HIDE DEF t, b, n
    <3> QED
      BY <2>1
  <2> QED
    BY <1>a, <2>2
<1>1. ASSUME NEW p \in Players, NEW score \in Nat, StoreBest(p, score)
      PROVE  /\ \A x \in Players : best'[x] \in Nat /\ best[x] <= best'[x]
             /\ score <= best'[p]
  <2>1. best' = [best EXCEPT ![p] = IF best[p] < score THEN score ELSE best[p]]
    BY <1>1 DEF StoreBest
  <2>2. \A x \in Players : best[x] \in Nat
    BY <1>0
  <2>3. CASE best[p] < score
    BY <1>0, <2>1, <2>2, <2>3
  <2>4. CASE ~(best[p] < score)
    BY <1>0, <2>1, <2>2, <2>4
  <2> QED
    BY <2>3, <2>4
<1>2. ASSUME NEW c \in Conns, UpdateBestScore(c) PROVE told'[d] <= best'[Owner[d]]
  <2>1. job[c].score \in Nat /\ Owner[c] \in Players
    BY <1>2, InHand DEF UpdateBestScore, Submitting
  <2>2. /\ \A x \in Players : best'[x] \in Nat /\ best[x] <= best'[x]
        /\ job[c].score <= best'[Owner[c]]
    BY <1>1, <1>2, <2>1 DEF UpdateBestScore
  <2>3. told' = [told EXCEPT ![c] = job[c].score]
    BY <1>2 DEF UpdateBestScore, Return
  <2>4. CASE d = c
    BY <1>0, <2>2, <2>3, <2>4
  <2>5. CASE d # c
    BY <1>0, <1>a, <2>2, <2>3, <2>5
  <2> QED
    BY <2>4, <2>5
<1>3. ASSUME NEW c \in Conns, UpdateBestFails(c) PROVE told'[d] <= best'[Owner[d]]
  <2>1. job[c].score \in Nat /\ Owner[c] \in Players
    BY <1>3, InHand DEF UpdateBestFails, Goto, Submitting
  <2>2. UNCHANGED told
    BY <1>3 DEF UpdateBestFails
  <2>3. CASE StoreBest(Owner[c], job[c].score)
    BY <1>0, <1>1, <1>a, <2>1, <2>2, <2>3
  <2>4. CASE UNCHANGED <<best, stored>>
    BY <1>0, <2>2, <2>4
  <2> QED
    BY <1>3, <2>3, <2>4 DEF UpdateBestFails
<1>4. ASSUME NEW c \in Conns, Reread(c) PROVE told'[d] <= best'[Owner[d]]
  <2>1. UNCHANGED best /\ Owner[c] \in Players
    BY <1>4 DEF Reread, stores
  <2>2. PICK score \in {best[Owner[c]], 0} : told' = [told EXCEPT ![c] = score]
    BY <1>4 DEF Reread, Return
  <2>3. CASE d = c
    BY <1>0, <2>1, <2>2, <2>3
  <2>4. CASE d # c
    BY <1>0, <2>1, <2>2, <2>4
  <2> QED
    BY <2>3, <2>4
<1>5. ASSUME UNCHANGED <<best, told>> PROVE told'[d] <= best'[Owner[d]]
  BY <1>0, <1>5
<1>6. ASSUME NEW c \in Conns,
             (\E s \in Submissions : SubmitScore(c, s)) \/ ReadNickname(c) \/ RankAndSpawn(c)
      PROVE  UNCHANGED <<best, told>>
  BY <1>6 DEF SubmitScore, ReadNickname, RankAndSpawn, stores, history
<1>7. ASSUME \/ \E j \in writers : CreateScoreRecord(j)
             \/ \E p \in Players, s \in Battles : CombatResult(p, s)
             \/ CloseStores \/ Restart \/ UNCHANGED vars
      PROVE  UNCHANGED <<best, told>>
  BY <1>7 DEF CreateScoreRecord, CombatResult, CloseStores, Restart, vars, stores, history
<1>8. ASSUME NEW c \in Conns, ReadPlayer(c) \/ CreatePlayer(c) \/ UpdatePlayer(c)
      PROVE  told'[d] <= best'[Owner[d]]
  <2>1. CASE WriteRow(c)
    <3>1. best'[Owner[d]] \in Nat
      BY <1>0, <2>1, WriteStep
    <3>2. IF Owner[d] = Owner[c] THEN told'[d] = 0
          ELSE told'[d] = told[d] /\ best'[Owner[d]] = best[Owner[d]]
      BY <2>1, WriteStep
    <3> QED
      BY <1>0, <3>1, <3>2
  <2>2. CASE UNCHANGED <<best, told>>
    BY <1>5, <2>2
  <2> QED
    BY <1>8, <2>1, <2>2 DEF ReadPlayer, CreatePlayer, UpdatePlayer, stores, history
<1> QED
  BY <1>2, <1>3, <1>4, <1>5, <1>6, <1>7, <1>8 DEF Next, HandlerStep

-----------------------------------------------------------------------------
(* The pages of GetRank: a member's place is one more than the number of those  *)
(* ahead of it.  Places tell the members apart, so that a sorted order exists,  *)
(* and in any sorted order the member at i has the place i.                     *)

BoardInv == IsFiniteSet(DOMAIN board)

Size     == Cardinality(DOMAIN board)
Lead(m)  == {x \in DOMAIN board : Ahead(x, m)}
Place(m) == 1 + Cardinality(Lead(m))

IsSorted(order) ==
  /\ order \in [1..Size -> DOMAIN board]
  /\ \A i, j \in 1..Size : i < j => Ahead(order[i], order[j])

\* The order is strict and total, on pairs of numbers with numbers for scores.
LEMMA AheadIsOrder ==
  ASSUME TypeOK, NEW a \in DOMAIN board, NEW b \in DOMAIN board, NEW c \in DOMAIN board
  PROVE  /\ ~Ahead(a, a)
         /\ Ahead(a, b) /\ Ahead(b, c) => Ahead(a, c)
         /\ a # b => Ahead(a, b) \/ Ahead(b, a)
<1>1. ASSUME NEW m \in DOMAIN board
      PROVE  m = <<m[1], m[2]>> /\ m[1] \in Nat /\ m[2] \in Nat /\ board[m] \in Nat
  <2>1. m \in Players \X Names /\ board[m] \in Nat
    BY <1>1 DEF TypeOK, Members
  <2>2. \A p \in Players : p \in Nat
    BY ScoresAssumption
  <2>3. \A n \in Names : n \in Nat
    BY ScoresAssumption
  <2> QED
    BY <2>1, <2>2, <2>3
<1>2. ~Ahead(a, a)
  BY <1>1 DEF Ahead
<1>3. Ahead(a, b) /\ Ahead(b, c) => Ahead(a, c)
  BY <1>1 DEF Ahead
<1>4. a # b => a[1] # b[1] \/ a[2] # b[2]
  BY <1>1
<1>5. a # b => Ahead(a, b) \/ Ahead(b, a)
  BY <1>1, <1>4 DEF Ahead
<1> QED
  BY <1>2, <1>3, <1>5

\* A place is a position on the board.
LEMMA PlaceType ==
  ASSUME TypeOK, BoardInv, NEW m \in DOMAIN board
  PROVE  /\ Size \in Nat /\ IsFiniteSet(Lead(m)) /\ Cardinality(Lead(m)) \in Nat
         /\ Place(m) \in 1..Size
<1>1. Size \in Nat
  BY FS_CardinalityType DEF Size, BoardInv
<1>2. Lead(m) \in SUBSET DOMAIN board /\ m \notin Lead(m)
  BY AheadIsOrder DEF Lead
<1>3. IsFiniteSet(Lead(m)) /\ Cardinality(Lead(m)) <= Size /\ Cardinality(Lead(m)) # Size
  BY <1>2, FS_Subset DEF Size, BoardInv
<1>4. Cardinality(Lead(m)) \in Nat
  BY <1>3, FS_CardinalityType
<1> QED
  BY <1>1, <1>3, <1>4 DEF Place

\* Who is ahead has the smaller place.
LEMMA PlaceFollowsOrder ==
  ASSUME TypeOK, BoardInv, NEW a \in DOMAIN board, NEW b \in DOMAIN board, Ahead(a, b)
  PROVE  Place(a) < Place(b)
<1>1. \A x \in Lead(a) : x \in Lead(b)
  BY AheadIsOrder DEF Lead
<1>2. a \in Lead(b) /\ a \notin Lead(a)
  BY AheadIsOrder DEF Lead
<1>3. Lead(a) \in SUBSET Lead(b) /\ Lead(a) # Lead(b)
  BY <1>1, <1>2
<1>4. IsFiniteSet(Lead(b)) /\ Cardinality(Lead(a)) \in Nat /\ Cardinality(Lead(b)) \in Nat
  BY PlaceType
<1>5. Cardinality(Lead(a)) <= Cardinality(Lead(b)) /\ Cardinality(Lead(a)) # Cardinality(Lead(b))
  BY <1>3, <1>4, FS_Subset
<1> QED
  BY <1>4, <1>5 DEF Place

\* Every position is the place of one member.
LEMMA PlaceIsBijection ==
  ASSUME TypeOK, BoardInv
  PROVE  /\ \A a, b \in DOMAIN board : Place(a) = Place(b) => a = b
         /\ \A i \in 1..Size : \E m \in DOMAIN board : Place(m) = i
<1> DEFINE place == [m \in DOMAIN board |-> Place(m)]
<1>1. \A m \in DOMAIN board : Place(m) \in 1..Size
  BY PlaceType
<1>2. \A a, b \in DOMAIN board : Place(a) = Place(b) => a = b
  <2>1. ASSUME NEW a \in DOMAIN board, NEW b \in DOMAIN board, a # b PROVE Place(a) # Place(b)
    <3>1. Place(a) \in Int /\ Place(b) \in Int
      BY <1>1
    <3> QED
      BY <2>1, <3>1, AheadIsOrder, PlaceFollowsOrder
  <2> QED
    BY <2>1
<1>3. Size \in Nat
  BY FS_CardinalityType DEF Size, BoardInv
<1>4. IsFiniteSet(1..Size) /\ Cardinality(1..Size) = Cardinality(DOMAIN board)
  BY <1>3, FS_Interval DEF Size
<1>5. place \in Injection(DOMAIN board, 1..Size)
  BY <1>1, <1>2 DEF Injection, IsInjective
<1>6. place \in Surjection(DOMAIN board, 1..Size)
  BY <1>4, <1>5, FS_Injection
<1>7. \A i \in 1..Size : \E m \in DOMAIN board : Place(m) = i
  BY <1>6 DEF Surjection
<1> QED
  BY <1>2, <1>7

\* The members can be put in order, so that Ranking does.
LEMMA RankingIsSorted == ASSUME TypeOK, BoardInv PROVE IsSorted(Ranking)
<1> DEFINE order == [i \in 1..Size |-> CHOOSE m \in DOMAIN board : Place(m) = i]
<1>1. \A i \in 1..Size : order[i] \in DOMAIN board /\ Place(order[i]) = i
  BY PlaceIsBijection
<1>2. order \in [1..Size -> DOMAIN board]
  BY <1>1
<1> HIDE DEF order
<1>3. ASSUME NEW i \in 1..Size, NEW j \in 1..Size, i < j PROVE Ahead(order[i], order[j])
  <2>1. order[i] \in DOMAIN board /\ order[j] \in DOMAIN board
        /\ Place(order[i]) = i /\ Place(order[j]) = j
    BY <1>1
  <2>2. order[i] # order[j]
    BY <1>3, <2>1
  <2>3. ~Ahead(order[j], order[i])
    <3>1. Ahead(order[j], order[i]) => Place(order[j]) < Place(order[i])
      BY <2>1, PlaceFollowsOrder
    <3> QED
      BY <1>3, <2>1, <3>1
  <2> QED
    BY <2>1, <2>2, <2>3, AheadIsOrder
<1>4. \E o \in [1..Size -> DOMAIN board] : \A i, j \in 1..Size : i < j => Ahead(o[i], o[j])
  BY <1>2, <1>3
<1> QED
  BY <1>4 DEF Ranking, IsSorted, Size

\* In a sorted order the member at i is the one with the place i.
LEMMA SortedPlaces ==
  ASSUME TypeOK, BoardInv, NEW order, IsSorted(order)
  PROVE  /\ \A i \in 1..Size : Place(order[i]) = i
         /\ \A m \in DOMAIN board : order[Place(m)] = m
<1>1. order \in [1..Size -> DOMAIN board] /\ Size \in Nat
  BY FS_CardinalityType DEF IsSorted, Size, BoardInv
<1>2. \A i, j \in 1..Size : i < j => Ahead(order[i], order[j])
  BY DEF IsSorted
<1>3. \A i, j \in 1..Size : Ahead(order[j], order[i]) => j < i
  <2>1. ASSUME NEW i \in 1..Size, NEW j \in 1..Size, Ahead(order[j], order[i]), ~(j < i)
        PROVE  FALSE
    <3>1. order[i] \in DOMAIN board /\ order[j] \in DOMAIN board
      BY <1>1
    <3>2. CASE i = j
      BY <2>1, <3>1, <3>2, AheadIsOrder
    <3>3. CASE i < j
      BY <1>2, <2>1, <3>1, <3>3, AheadIsOrder
    <3> QED
      BY <2>1, <3>2, <3>3
  <2> QED
    BY <2>1
<1>4. \A i, j \in 1..Size : order[i] = order[j] => i = j
  <2>1. ASSUME NEW i \in 1..Size, NEW j \in 1..Size, i < j PROVE order[i] # order[j]
    BY <1>1, <1>2, <2>1, AheadIsOrder
  <2> QED
    BY <2>1
<1>5. \A m \in DOMAIN board : \E i \in 1..Size : order[i] = m
  <2>1. order \in Injection(1..Size, DOMAIN board)
    BY <1>1, <1>4 DEF Injection, IsInjective
  <2>2. Cardinality(1..Size) = Cardinality(DOMAIN board)
    BY <1>1, FS_Interval DEF Size
  <2>3. order \in Surjection(1..Size, DOMAIN board)
    BY <2>1, <2>2, FS_Injection DEF BoardInv
  <2> QED
    BY <2>3 DEF Surjection
<1>6. ASSUME NEW i \in 1..Size PROVE Place(order[i]) = i
  <2> DEFINE before == [j \in 1..(i - 1) |-> order[j]]
  <2>1. i - 1 \in Nat /\ 1..(i - 1) \subseteq 1..Size
    BY <1>1
  <2>2. Lead(order[i]) \subseteq {order[j] : j \in 1..(i - 1)}
    <3>1. ASSUME NEW m \in Lead(order[i]) PROVE m \in {order[j] : j \in 1..(i - 1)}
      <4>1. m \in DOMAIN board /\ Ahead(m, order[i])
        BY <3>1 DEF Lead
      <4>2. PICK j \in 1..Size : order[j] = m
        BY <1>5, <4>1
      <4>3. j < i
        BY <1>3, <4>1, <4>2
      <4> QED
        BY <1>1, <4>2, <4>3
    <3> QED
      BY <3>1
  <2>3. \A j \in 1..(i - 1) : order[j] \in Lead(order[i])
    BY <1>1, <1>2, <2>1 DEF Lead
  <2>4. before \in Bijection(1..(i - 1), Lead(order[i]))
    <3>1. before \in [1..(i - 1) -> Lead(order[i])]
      BY <2>3
    <3>2. IsInjective(before)
      BY <1>4, <2>1 DEF IsInjective
    <3>3. \A m \in Lead(order[i]) : \E j \in 1..(i - 1) : before[j] = m
      BY <2>2
    <3> QED
      BY <3>1, <3>2, <3>3 DEF Bijection, Injection, Surjection
  <2>5. Cardinality(Lead(order[i])) = i - 1
    BY <2>1, <2>4, FS_CountingElements DEF ExistsBijection
  <2> QED
    BY <2>1, <2>5 DEF Place
<1>7. \A m \in DOMAIN board : order[Place(m)] = m
  BY <1>5, <1>6
<1> QED
  BY <1>6, <1>7

\* The board stays finite: a step adds one member at most.
LEMMA BoardIsFinite == BoardInv /\ [Next]_vars => BoardInv'
<1> SUFFICES ASSUME BoardInv, [Next]_vars PROVE BoardInv'
  OBVIOUS
<1> USE DEF stores, history
<1>1. ASSUME NEW m, NEW s, UpdateRank(m, s) PROVE BoardInv'
  <2>1. DOMAIN board' = DOMAIN board \union {m}
    BY <1>1 DEF UpdateRank
  <2> QED
    BY <2>1, FS_AddElement DEF BoardInv
<1>2. CASE UNCHANGED board
  BY <1>2 DEF BoardInv
<1>3. ASSUME NEW c \in Conns, RankAndSpawn(c) PROVE BoardInv'
  BY <1>1, <1>2, <1>3 DEF RankAndSpawn
<1>4. ASSUME NEW p \in Players, NEW s \in Battles, CombatResult(p, s) PROVE BoardInv'
  BY <1>1, <1>4 DEF CombatResult
<1>5. ASSUME NEW c \in Conns,
             \/ \E s \in Submissions : SubmitScore(c, s)
             \/ ReadPlayer(c) \/ CreatePlayer(c) \/ UpdatePlayer(c)
             \/ ReadNickname(c) \/ UpdateBestScore(c) \/ UpdateBestFails(c) \/ Reread(c)
      PROVE  UNCHANGED board
  BY <1>5 DEF SubmitScore, ReadPlayer, CreatePlayer, UpdatePlayer, ReadNickname,
              UpdateBestScore, UpdateBestFails, Reread
<1>6. ASSUME \/ \E j \in writers : CreateScoreRecord(j)
             \/ CloseStores \/ Restart \/ UNCHANGED vars
      PROVE  UNCHANGED board
  BY <1>6 DEF CreateScoreRecord, CloseStores, Restart, vars
<1> QED
  BY <1>2, <1>3, <1>4, <1>5, <1>6 DEF Next, HandlerStep

\* A page is the part of the board that was asked for, cut at its end.
LEMMA PageIsCut ==
  ASSUME TypeOK, BoardInv, NEW s \in Int, NEW n \in Int
  PROVE  LET rows  == GetRank(s, n)
             shown == {m \in DOMAIN board : Place(m) \in Start(s) + 1 .. Start(s) + Count(n)}
         IN  /\ Len(rows) <= Count(n)
             /\ {rows[i] : i \in DOMAIN rows} =
                  {[member |-> m, score |-> board[m], rank |-> Place(m)] : m \in shown}
<1> DEFINE order  == Ranking
           first  == Start(s)
           count  == Count(n)
           last   == IF first + count - 1 < Size THEN first + count ELSE Size
           len    == IF last < first THEN 0 ELSE last - first
           Row(i) == [member |-> order[i], score |-> board[order[i]], rank |-> i]
           rows   == GetRank(s, n)
           shown  == {m \in DOMAIN board : Place(m) \in first + 1 .. first + count}
<1>1. first \in Nat /\ count \in Nat /\ Size \in Nat
  BY ScoresAssumption, FS_CardinalityType DEF Start, Count, Size, BoardInv
<1>2. order \in [1..Size -> DOMAIN board] /\ Len(order) = Size
  <2>1. order \in [1..Size -> DOMAIN board]
    BY RankingIsSorted DEF IsSorted
  <2> QED
    BY <1>1, <2>1
<1>3. /\ \A i \in 1..Size : Place(order[i]) = i
      /\ \A m \in DOMAIN board : order[Place(m)] = m /\ Place(m) \in 1..Size
  BY RankingIsSorted, SortedPlaces, PlaceType
<1>4. last \in Nat /\ len \in Nat /\ len <= count /\ 1..(last - first) = 1..len
  BY <1>1
<1>5. rows = [i \in 1..len |-> Row(first + i)]
  <2>1. Stop(s, n) = first + count - 1
    BY DEF Stop
  <2>2. (IF Stop(s, n) < Len(order) THEN Stop(s, n) + 1 ELSE Len(order)) = last
    BY <1>1, <1>2, <2>1
  <2>3. GetRank(s, n) = [i \in 1..(last - first) |-> Row(first + i)]
    BY <2>2 DEF GetRank
  <2> QED
    BY <1>4, <2>3
<1> HIDE DEF rows, order, first, count, last, len
<1>6. Len(rows) = len /\ DOMAIN rows = 1..len
  BY <1>4, <1>5
<1>7. ASSUME NEW i \in 1..len
      PROVE  \E m \in shown : Row(first + i) = [member |-> m, score |-> board[m], rank |-> Place(m)]
  <2>1. first + i \in 1..Size /\ first + i \in first + 1 .. first + count
    BY <1>1, <1>4 DEF len, last
  <2>2. order[first + i] \in DOMAIN board /\ Place(order[first + i]) = first + i
    BY <1>2, <1>3, <2>1
  <2> QED
    BY <2>1, <2>2
<1>8. ASSUME NEW m \in shown
      PROVE  \E i \in 1..len : Row(first + i) = [member |-> m, score |-> board[m], rank |-> Place(m)]
  <2>1. Place(m) \in 1..Size /\ order[Place(m)] = m /\ Place(m) \in first + 1 .. first + count
    BY <1>3
  <2>2. Place(m) - first \in 1..len /\ first + (Place(m) - first) = Place(m)
    BY <1>1, <2>1 DEF len, last
  <2> QED
    BY <2>1, <2>2
<1>9. {rows[i] : i \in DOMAIN rows} = {Row(first + i) : i \in 1..len}
  BY <1>5, <1>6
<1>10. {rows[i] : i \in DOMAIN rows} =
         {[member |-> m, score |-> board[m], rank |-> Place(m)] : m \in shown}
  <2> HIDE DEF Row, shown
  <2> QED
    BY <1>7, <1>8, <1>9
<1> QED
  BY <1>4, <1>6, <1>10 DEF rows, first, count

-----------------------------------------------------------------------------
\* For any players, names, connections and scores.
THEOREM Invariance == Spec => []Inv
<1>1. Init => Inv
  BY ScoresAssumption DEF Init, Inv, TypeOK, IdInv, StoredInv, Submitting, Rows, NoRow
<1>2. Inv /\ [Next]_vars => Inv'
  BY SubmitStep, NicknameStep, SpawnStep, BestStep, RecordStep, BattleStep, LoginStep,
     ServerStep
  DEF Next, HandlerStep
<1> QED
  BY <1>1, <1>2, PTL DEF Spec

\* Everything keeps its type, and no submission is archived twice.
THEOREM TypeCorrect == Spec => []TypeOK
BY Invariance, PTL DEF Inv

\* Since a login last wrote the row, the best score is the highest that was written to
\* it, in whatever order, and no answer has named a higher one.
THEOREM BestScoreIsHighest == Spec => []BestIsHighest
<1>1. Init => AnswersInv
  BY ScoresAssumption DEF Init, AnswersInv
<1>2. Inv /\ AnswersInv /\ [Next]_vars => AnswersInv'
  BY AnswerStep
<1>3. StoredInv /\ AnswersInv => BestIsHighest
  BY DEF StoredInv, AnswersInv, BestIsHighest
<1> QED
  BY <1>1, <1>2, <1>3, Invariance, PTL DEF Spec, Inv

\* Every page is the right part of the board, in the order of the scores, for any
\* number of members and any start, count and limits.
THEOREM PagesAreWindows == Spec => []PageIsWindow
<1>1. Init => BoardInv
  BY FS_EmptySet DEF Init, BoardInv
<1>2. BoardInv /\ [Next]_vars => BoardInv'
  BY BoardIsFinite
<1>3. TypeOK /\ BoardInv => PageIsWindow
  <2> SUFFICES ASSUME TypeOK, BoardInv, NEW s \in Starts, NEW n \in Counts
               PROVE  LET rows  == GetRank(s, n)
                          P(m)  == 1 + Cardinality({x \in DOMAIN board : Ahead(x, m)})
                          shown == {m \in DOMAIN board : P(m) \in Start(s) + 1 .. Start(s) + Count(n)}
                      IN  /\ Len(rows) <= Count(n)
                          /\ {rows[i] : i \in DOMAIN rows} =
                               {[member |-> m, score |-> board[m], rank |-> P(m)] : m \in shown}
    BY DEF PageIsWindow
  <2>1. s \in Int /\ n \in Int
    BY ScoresAssumption
  <2> QED
    BY <2>1, PageIsCut DEF Place, Lead
<1> QED
  BY <1>1, <1>2, <1>3, TypeCorrect, PTL DEF Spec

=============================================================================
