---------------------------- MODULE SettleRules ----------------------------
(***************************************************************************)
(* What one settled battle does to a player's archive: settleArchive of    *)
(* internal/store/settlement.go, and the same credit on the stats row      *)
(* (updateSettlementStats).  Of the archive's fields, gold stands for      *)
(* the amounts that must fit an int32 (exp too), kills and games are the   *)
(* int64 totals, best stands for the maxima (highest_cleared_dungeon, which *)
(* only a victory raises, and level on the stats row).                     *)
(***************************************************************************)
EXTENDS Integers

CONSTANTS
  GoldPerKill,   \* CombatRewardPolicy
  MaxInt32,      \* the largest amount an archive can hold
  MaxInt64       \* the largest total

ASSUME RulesAssumption ==
  GoldPerKill \in Nat /\ MaxInt32 \in Nat /\ MaxInt64 \in Nat

Int32 == (0 - MaxInt32 - 1)..MaxInt32
Int64 == (0 - MaxInt64 - 1)..MaxInt64

\* No field of an archive that a client saves is checked.
Archives == [gold : Int32, kills : Int64, games : Int64, best : Int]

\* A player without an archive row starts from the empty archive.
NewArchive == [gold |-> 0, kills |-> 0, games |-> 0, best |-> 0]

\* A validated request: which run, and what happened in it.
IsRequest(q) == q.kills \in Nat /\ q.score \in Nat

Reward(q) == q.kills * GoldPerKill

\* How many kills more the total holds.  The subtraction wraps around for a total
\* below zero, and the room is negative.
KillsRoom(total) ==
  IF total < 0 THEN 0 - MaxInt64 - 2 - total ELSE MaxInt64 - total

\* mutant: the new balance is not checked
FitsReward(a, q) ==
  /\ Reward(q) <= MaxInt32
  /\ q.kills <= KillsRoom(a.kills) /\ a.games # MaxInt64

\* Neither the reward, the new balance nor a total overflows.
Fits(a, q) ==
  /\ Reward(q) <= MaxInt32
  /\ a.gold + Reward(q) <= MaxInt32
  /\ q.kills <= KillsRoom(a.kills) /\ a.games # MaxInt64

Larger(m, n) == IF m > n THEN m ELSE n

Credit(a, q) == [gold  |-> a.gold + Reward(q),
                 kills |-> a.kills + q.kills,
                 games |-> a.games + 1,
                 best  |-> Larger(q.score, a.best)]

\* The response: the reward and a snapshot of the archive after it.
Response(a, q) == [gold |-> Reward(q), archive |-> Credit(a, q)]

Responses == [gold : 0..MaxInt32, archive : Archives]

=============================================================================
