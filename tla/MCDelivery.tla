----------------------------- MODULE MCDelivery -----------------------------
(* One connection with a queue of two frames, in which replies of any kind     *)
(* wait behind each other and beside a broadcast, and every kind of request.   *)
(* Connections share nothing but the entries in Redis.                         *)
EXTENDS Delivery, TLC

CONSTANTS p1, c1

OnePlayer == {p1}
OneConn   == {c1}
OneOwner  == c1 :> p1

=============================================================================
