------------------------------ MODULE MCProbe ------------------------------
(* The probe, with its archive and its run, and two connections that share a  *)
(* player and may both be the first to log in; they settle runs, one with the *)
(* id of the probe's, retry one with another payload, and save archives.  An  *)
(* archive holds 30 gold, so that a credit may overflow.                      *)
EXTENDS Probe, CombatRules, TLC

CONSTANTS dev, w1, w2, r1, r2, o1, mine

Clients  == {dev, w1, w2}
AllRuns  == {r1, r2}
Codes    == {o1, mine}

\* A validated request, the dungeon level standing for every maximum.
Battle(q) == [run |-> q.RunId, kills |-> q.Kills, score |-> q.DungeonLevel]

Sent ==
  LET last == newProbeCombatResult(r1)
  IN  {last, [last EXCEPT !.Kills = 4, !.DungeonLevel = 5],
       [last EXCEPT !.RunId = r2, !.Kills = 4, !.DungeonLevel = 1]}

Battles  == {Battle(q) : q \in {sent1 \in Sent : validateCombatResult(sent1)}}
Battle1  == Battle(newProbeCombatResult(r1))
Archives1 == {newProbeArchive}
Others2  == Permutations({w1, w2})

=============================================================================
