---------------------------- MODULE MCSettlement ----------------------------
(* Two connections of one player: a run, its retry with another payload, and  *)
(* a second run, all of dungeon level 1, where 30 kills are possible, and     *)
(* requests that are refused.  An archive holds 225 gold: the rewards of 15   *)
(* and 30 kills fit it together, those of 30 and 30 do not.  Of the archives  *)
(* that clients save, the totals of one have room for one game and 15 kills,  *)
(* the gold, the kills and the best score of the other are negative.          *)
EXTENDS MySQLSettlement, TLC

CONSTANTS p1, w1, w2, r1, r2

OnePlayer == {p1}
TwoConns  == {w1, w2}
OneOwner  == (w1 :> p1) @@ (w2 :> p1)
AllRuns   == {r1, r2}

Played(run, kills, score) ==
  [RunId |-> run, Outcome |-> "victory", PlayerLevel |-> 1, DungeonLevel |-> 1,
   Score |-> score, Kills |-> kills, SurvivalTime |-> "played", StyleId |-> 1]

\* What the clients send: results on the limits, past each of them, and malformed.
Sent ==
  LET last == Played(r1, 30, 10000)
  IN  {Played(r1, 15, 5000), last, Played(r2, 30, 5000)}
      \union {Played(r1, 31, 0), Played(r1, 0 - 1, 0), Played(r1, 0, 10001),
              [last EXCEPT !.DungeonLevel = 0], [last EXCEPT !.DungeonLevel = 101],
              [last EXCEPT !.PlayerLevel = 101], [last EXCEPT !.StyleId = 6],
              [last EXCEPT !.RunId = "blank"], [last EXCEPT !.Outcome = "unspecified"],
              [last EXCEPT !.SurvivalTime = "NaN"]}

TwoSaves == {[gold |-> 0, kills |-> 45, games |-> 59, best |-> 0],
             [gold |-> 0 - 226, kills |-> 0 - 1, games |-> 0, best |-> 0 - 1]}

OneReport     == {0 - 1}
OneSubmission == {20000}

=============================================================================
