------------------------------ MODULE Gateway ------------------------------
(***************************************************************************)
(* What the WebSocket gateway promises to main, which closes the stores    *)
(* after it: connections come only while the server runs, and a call of    *)
(* Shutdown returns only when none is left.  Transport implements it, and  *)
(* Process relies on it.                                                   *)
(***************************************************************************)
CONSTANTS
  Conns,    \* connections
  Callers   \* goroutines that may call Shutdown, Start being one of them

VARIABLES
  phase,    \* Server.state
  live,     \* connections that hold a reservation, with all their goroutines
  back      \* callers to whom Shutdown has returned

gatewayVars == <<phase, live, back>>

TypeOK ==
  /\ phase \in {"new", "running", "stopping", "stopped"}
  /\ live \subseteq Conns
  /\ back \subseteq Callers

Init == phase = "new" /\ live = {} /\ back = {}

\* Start, the first time and unless Shutdown was called before.
Start ==
  /\ phase = "new" /\ phase' = "running"
  /\ UNCHANGED <<live, back>>

\* A client connects; its connection lives until its goroutines have ended.
Admit(c) ==
  /\ phase = "running" /\ c \notin live
  /\ live' = live \union {c}
  /\ UNCHANGED <<phase, back>>

Release(c) ==
  /\ c \in live
  /\ live' = live \ {c}
  /\ UNCHANGED <<phase, back>>

\* Shutdown begins, also before Start.
Stop ==
  /\ phase \in {"new", "running"} /\ phase' = "stopping"
  /\ UNCHANGED <<live, back>>

\* The first caller of Shutdown ends it and returns, and the others after it.
Finish(t) ==
  /\ phase = "stopping" /\ live = {}
  /\ phase' = "stopped"
  /\ back' = back \union {t}
  /\ UNCHANGED live

Return(t) ==
  /\ phase = "stopped"
  /\ back' = back \union {t}
  /\ UNCHANGED <<phase, live>>

Next ==
  \/ Start \/ Stop
  \/ \E c \in Conns : Admit(c) \/ Release(c)
  \/ \E t \in Callers : Finish(t) \/ Return(t)

Spec == Init /\ [][Next]_gatewayVars

=============================================================================
