---------------------------- MODULE MCTransport ----------------------------
(* A gateway with two clients and the two goroutines of main that may shut it *)
(* down: the one that calls Start, when its listener fails, and main itself,  *)
(* on a signal.                                                               *)
EXTENDS Transport

CONSTANTS c1, c2, boot, sig

TwoConns   == {c1, c2}
OneStarter == {boot}
OneStopper == {sig}

=============================================================================
