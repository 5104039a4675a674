------------------------------ MODULE MCStyles ------------------------------
(* Two connections of a player, style 1 and two that cost 1, settlements worth *)
(* 1 up to a balance of 2, and a client that reports a balance and a style, or *)
(* a debt.                                                                     *)
EXTENDS Styles, TLC

CONSTANTS p1, w1, w2

OnePlayer   == {p1}
TwoConns    == {w1, w2}
OneOwner    == (w1 :> p1) @@ (w2 :> p1)
ThreeStyles == 1..3
OneReward   == {1}
TwoReports  == {[gold |-> 1, styles |-> {2}], [gold |-> -1, styles |-> {}]}
EmptyReport == [gold |-> 0, styles |-> {}]

=============================================================================
