----------------------------- MODULE SettleOnce -----------------------------
(***************************************************************************)
(* What CombatSettlementRepository promises to the game: a run of a player *)
(* is settled at most once, the credit is computed from the archive at     *)
(* that moment and nothing comes between, and every answer about the run,  *)
(* the first and those to retries, is the one that was stored with it.     *)
(***************************************************************************)
EXTENDS SettleRules

CONSTANTS
  Players, Runs,
  Requests,     \* what a player may report about a run: [run, kills, score]
  Saves,        \* archives that clients save themselves
  NotSettled    \* marks a run that has not been settled

VARIABLES
  archive,   \* the player's archive
  settled,   \* the response stored for each run of a player, or NotSettled
  told,      \* every response ever given to the player about the run
  fresh      \* how many answers said that they were the first (Duplicate = false)

vars == <<archive, settled, told, fresh>>

Init ==
  /\ archive = [p \in Players |-> NewArchive]
  /\ settled = [p \in Players |-> [r \in Runs |-> NotSettled]]
  /\ told    = [p \in Players |-> [r \in Runs |-> {}]]
  /\ fresh   = [p \in Players |-> [r \in Runs |-> 0]]

Settle(p, q) ==
  /\ settled[p][q.run] = NotSettled
  /\ Fits(archive[p], q)
  /\ settled' = [settled EXCEPT ![p][q.run] = Response(archive[p], q)]
  /\ archive' = [archive EXCEPT ![p] = Credit(archive[p], q)]
  /\ UNCHANGED <<told, fresh>>

\* Any number of answers repeats the stored response; one of them may be fresh.
Answer(p, r) ==
  /\ settled[p][r] # NotSettled
  /\ told' = [told EXCEPT ![p][r] = {settled[p][r]}]
  /\ \/ fresh' = fresh
     \/ fresh[p][r] = 0 /\ fresh' = [fresh EXCEPT ![p][r] = 1]
  /\ UNCHANGED <<archive, settled>>

\* The client saves its own archive over the stored one (game.Save).
Save(p, a) ==
  /\ archive' = [archive EXCEPT ![p] = a]
  /\ UNCHANGED <<settled, told, fresh>>

Next ==
  \E p \in Players :
    \/ \E q \in Requests : Settle(p, q)
    \/ \E r \in Runs : Answer(p, r)
    \/ \E a \in Saves : Save(p, a)

Spec == Init /\ [][Next]_vars

=============================================================================
