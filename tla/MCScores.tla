------------------------------ MODULE MCScores ------------------------------
(* Two connections of a player.  Scores above 4 lose their last bit in Redis,  *)
(* so that 5 becomes 4; pages are of at most two entries.                      *)
EXTENDS Scores, TLC

CONSTANTS w1, w2

TwoPlayers == {7, 8}
TwoConns   == {w1, w2}
OneOwner   == (w1 :> 7) @@ (w2 :> 7)
ThreeNames == 0..2
LowHigh    == {1, 5}
OneBattle  == {3}
EdgeStarts == {-1, 1, 7}
EdgeCounts == {0, 1, 3}
ConnSymmetry == Permutations(TwoConns)

=============================================================================
