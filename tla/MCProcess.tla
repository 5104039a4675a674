----------------------------- MODULE MCProcess -----------------------------
(* Process on a small instance: clients, a log file, a goroutine that logs. *)
EXTENDS Process
=============================================================================
