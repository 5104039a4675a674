---------------------------- MODULE CombatRules ----------------------------
(***************************************************************************)
(* What the combat handler decides without touching any state: the tables  *)
(* of internal/combat/config.go that it hands to clients, and the          *)
(* validation of a battle's result against them, with the constants of the *)
(* code.  Names, descriptions and the parameters of enemies and styles     *)
(* that the server never reads are left out.                               *)
(*                                                                         *)
(* The density of a dungeon is a float32.  It is modelled exactly, as an   *)
(* integer multiple of one Ulp: 24 significant bits leave 23 of them       *)
(* behind the point for 1 <= density < 2 and 22 for 2 <= density < 4.      *)
(***************************************************************************)
LOCAL INSTANCE Integers

DefaultCombatConfig ==
  [MaxHp |-> 100, MaxStamina |-> 100, BaseAttackPower |-> 10,
   GoldPerKill |-> 5, ExpPerKill |-> 10,
   MaxScorePerLevel |-> 10000, MaxKillsMultiplier |-> 3]

EnemyIds == 1..4     \* grunt, archer, elite, boss
StyleIds == 1..5     \* blade, seal, poison, blood, sword

maxPlayerLevel  == 100
maxDungeonLevel == 100

Levels == 1..maxDungeonLevel

Smaller(m, n) == IF m < n THEN m ELSE n

-----------------------------------------------------------------------------
(* GetDungeonConfig                                                         *)

Ulp == 1           \* of a density below 2; above, float32 has every other one
One == 8388608     \* 2^23 of them

\* n / d, rounded to the nearest integer.
Rounded(n, d) == (2 * n + d) \div (2 * d)

\* 1 + (level - 1) * 0.15, at most 3, in twentieths ...
Twentieths(level) == Smaller(17 + 3 * level, 60)

\* ... and as a float32.
EnemyDensity(level) ==
  LET n == Twentieths(level)
  IN  IF n < 40 THEN Ulp * Rounded(n * (One \div 4), 5)
                ELSE 2 * Ulp * Rounded(n * (One \div 8), 5)

GetDungeonConfig(level) ==
  [Level        |-> level,
   RoomCount    |-> Smaller(8 + 2 * level, 20),
   EnemyDensity |-> EnemyDensity(level),
   BossId       |-> 4]

\* Handler.GetDungeonConfig: what a client is told, with every enemy.
DungeonAnswer(level) ==
  IF level <= 0 THEN [found |-> FALSE]
                ELSE [found |-> TRUE, dungeon |-> GetDungeonConfig(level), enemies |-> EnemyIds]

-----------------------------------------------------------------------------
(* validateCombatResult                                                     *)

\* mutant: the product is rounded up
MaxKillsUp(level) ==
  LET cfg == GetDungeonConfig(level)
      kills == cfg.RoomCount * cfg.EnemyDensity * DefaultCombatConfig.MaxKillsMultiplier
  IN  kills \div One + 1

\* The product, truncated to an int32.
MaxKills(level) ==
  LET cfg == GetDungeonConfig(level)
      kills == cfg.RoomCount * cfg.EnemyDensity * DefaultCombatConfig.MaxKillsMultiplier
  IN  kills \div One

MaxScore(level) == DefaultCombatConfig.MaxScorePerLevel * level

\* "blank" stands for a run id that is empty, padded with blanks or too long.
validRunID(id) == id # "blank"

\* A survival time is "played" when it is between 0 and 7200 seconds; NaN, an
\* infinity and every other number are not.
validateCombatResult(req) ==
  /\ validRunID(req.RunId)
  /\ req.Outcome \in {"victory", "defeat"}
  /\ req.PlayerLevel \in 1..maxPlayerLevel
  /\ req.DungeonLevel \in Levels
  /\ req.Score \in 0..MaxScore(req.DungeonLevel)
  /\ req.Kills \in 0..MaxKills(req.DungeonLevel)
  /\ req.SurvivalTime = "played"
  /\ req.StyleId \in 1..5

\* UpgradeStyle takes the styles of the table, see Styles.
getStyleConfig(id) == id \in StyleIds

=============================================================================
