--------------------------- MODULE MCLoginSession ---------------------------
(* Two connections; one user or two, and an id more than there are users, for *)
(* a player that the unique index has to refuse; one score.                   *)
EXTENDS LoginSession, TLC

CONSTANTS c1, c2, o1, o2, u1, u2, u3

TwoConns == {c1, c2}
OneUser  == {o1}
TwoUsers == {o1, o2}
TwoIds   == {u1, u2}
ThreeIds == {u1, u2, u3}
OneScore == {1}

Symmetry ==
  Permutations(TwoConns) \union Permutations(TwoUsers) \union Permutations(ThreeIds)

=============================================================================
