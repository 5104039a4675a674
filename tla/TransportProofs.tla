-------------------------- MODULE TransportProofs --------------------------
(***************************************************************************)
(* Proofs about Transport for any finite set of connections and any sets   *)
(* of threads.  The inductive invariant has four parts beside TypeOK: who  *)
(* is inside the body of shutdownOnce and what it has reached              *)
(* (ShutdownInv), how the hub's map, the flags and the goroutines of one   *)
(* connection fit together (ConnInv), and that the counter of the          *)
(* WaitGroup is the number of reservations held (WaitGroupInv).  That      *)
(* nobody waits in a circle needs WaitInv beside them.                     *)
(***************************************************************************)
EXTENDS Transport, FiniteSetTheorems, TLAPS

ShutdownInv ==
  /\ \A t \in Threads : tpc[t] \in Body => once = "busy"
  /\ \A t, u \in Threads : tpc[t] \in Body /\ tpc[u] \in Body => t = u
  /\ \A t \in Threads : tpc[t] \in AfterMark => state = "stopping"
  /\ \A t \in Threads : tpc[t] \in {"connwait", "markstopped"} => hub = "done"
  /\ \A t \in Threads : tpc[t] = "markstopped" => wg = 0
  /\ \A t \in Threads : tpc[t] = "returned" => once = "done"
  /\ once = "done" <=> state = "stopped"
  /\ state = "stopped" => hub = "done" /\ wg = 0

\* Where a connection has never been stopped, and where it must have been.
NeverStopped == {"idle", "accepted", "refused", "upgrading", "registering"}
Ended        == {"stopping", "waitwriter", "released"}

HubInv ==
  /\ hub = "drop" => hubArg \in Conns /\ pc[hubArg] \in Ended
  /\ hub \in {"closing", "done"} => closeAll
  /\ hub = "done" => members = {} /\ HubFree

ConnInv ==
  \A c \in Conns :
    /\ pc[c] \in Registered /\ ~closed[c] => c \in members
    /\ c \in members => pc[c] \in Registered \union Ended
    /\ c \in members /\ pc[c] \in Ended => closeAll \/ (hub = "drop" /\ hubArg = c)
    /\ pc[c] \in NeverStopped => ~closed[c]
    /\ pc[c] \in {"idle", "accepted", "refused", "upgrading"} => ~sockOpen[c]
    /\ pc[c] \in {"rejecting", "waitwriter"} => closed[c]
    /\ pc[c] = "released" => closed[c] \/ ~sockOpen[c]
    /\ writer[c] \in {"running", "stopped"} =>
         pc[c] \in (Registered \ {"registered"}) \union {"stopping", "waitwriter"}
    /\ closed[c] /\ sockOpen[c] => closer[c] # None
    /\ closer[c] # None => closed[c]
    /\ closer[c] = "writer" => writer[c] = "stopped"
    /\ closer[c] = "conn" => pc[c] \in {"rejecting", "waitwriter"}

WaitGroupInv == wg = Cardinality(HoldingConns)

Inv == TypeOK /\ ShutdownInv /\ HubInv /\ ConnInv /\ WaitGroupInv

-----------------------------------------------------------------------------
(* The counter of the WaitGroup                                             *)

\* The reservations are finitely many.
LEMMA HoldingFinite ==
  IsFiniteSet(HoldingConns) /\ Cardinality(HoldingConns) \in Nat
BY ConnsAssumption, FS_Subset, FS_CardinalityType DEF HoldingConns

\* A counter of zero means that nobody holds a reservation.
LEMMA NobodyHolds ==
  ASSUME WaitGroupInv, wg = 0
  PROVE  \A c \in Conns : pc[c] \notin Holding
<1>1. HoldingConns = {}
  BY HoldingFinite, FS_EmptySet DEF WaitGroupInv
<1> QED
  BY <1>1 DEF HoldingConns

\* A connection that takes a reservation adds one to the number held.
LEMMA TakesReservation ==
  ASSUME NEW c \in Conns, TypeOK, WaitGroupInv,
         pc[c] \notin Holding, pc'[c] \in Holding,
         pc' = [pc EXCEPT ![c] = pc'[c]], wg' = wg + 1
  PROVE  WaitGroupInv'
<1>1. HoldingConns' = HoldingConns \union {c} /\ c \notin HoldingConns
  BY DEF HoldingConns, TypeOK
<1>2. Cardinality(HoldingConns \union {c}) = Cardinality(HoldingConns) + 1
  BY <1>1, HoldingFinite, FS_AddElement
<1> QED
  BY <1>1, <1>2 DEF WaitGroupInv

\* A connection that gives its reservation back takes one from the number held.
LEMMA GivesReservationBack ==
  ASSUME NEW c \in Conns, TypeOK, WaitGroupInv,
         pc[c] \in Holding, pc'[c] \notin Holding,
         pc' = [pc EXCEPT ![c] = pc'[c]], wg' = wg - 1
  PROVE  WaitGroupInv'
<1>1. HoldingConns' = HoldingConns \ {c} /\ c \in HoldingConns
  BY DEF HoldingConns, TypeOK
<1>2. Cardinality(HoldingConns \ {c}) = Cardinality(HoldingConns) - 1
  BY <1>1, HoldingFinite, FS_RemoveElement
<1> QED
  BY <1>1, <1>2 DEF WaitGroupInv

\* Every other step moves connections only among the places that hold one, or
\* only among those that do not.
LEMMA KeepsReservations ==
  ASSUME WaitGroupInv, wg' = wg,
         \A c \in Conns : pc'[c] \in Holding <=> pc[c] \in Holding
  PROVE  WaitGroupInv'
<1>1. HoldingConns' = HoldingConns
  BY DEF HoldingConns
<1> QED
  BY <1>1 DEF WaitGroupInv

\* The number of reservations held is the counter in every step: whichever way a
\* request or a connection ends, Done is called exactly once for it.
LEMMA WaitGroupStep ==
  ASSUME TypeOK, WaitGroupInv, [Next]_vars
  PROVE  WaitGroupInv'
<1> USE DEF TypeOK, Holding, Registered, connVars
<1>1. ASSUME NEW t \in Threads, StartStep(t) \/ CallShutdown(t) \/ ShutdownStep(t)
      PROVE  WaitGroupInv'
  <2>1. UNCHANGED <<wg, pc>>
    BY <1>1 DEF StartStep, StartServer, Listen, ServeReturns, CallShutdown, ShutdownStep,
         EnterOnce, MarkStopping, HttpShutdown, HttpShutdownReturns, HubShutdown,
         HubShutdownReturns, ConnectionsDrained, MarkStopped
  <2> QED
    BY <2>1, KeepsReservations
<1>2. ASSUME NEW c \in Conns, Reserve(c)
      PROVE  WaitGroupInv'
  <2>1. CASE state = "running"
    <3>1. /\ pc[c] \notin Holding /\ pc'[c] \in Holding
          /\ pc' = [pc EXCEPT ![c] = pc'[c]] /\ wg' = wg + 1
      BY <1>2, <2>1 DEF Reserve
    <3> QED
      BY <3>1, TakesReservation
  <2>2. CASE state # "running"
    BY <1>2, <2>2, KeepsReservations DEF Reserve
  <2> QED
    BY <2>1, <2>2
<1>3. ASSUME NEW c \in Conns, UpgradeFails(c) \/ Rejected(c) \/ RunReturns(c)
      PROVE  WaitGroupInv'
  <2>1. /\ pc[c] \in Holding /\ pc'[c] \notin Holding
        /\ pc' = [pc EXCEPT ![c] = pc'[c]] /\ wg' = wg - 1
    BY <1>3 DEF UpgradeFails, Rejected, RunReturns
  <2> QED
    BY <2>1, GivesReservationBack
<1>4. ASSUME NEW c \in Conns,
             \/ Accept(c) \/ Upgrade(c) \/ Register(c) \/ RegisterRefused(c) \/ Run(c)
             \/ ReadFrame(c) \/ CallHub(c) \/ HubServes(c) \/ HubCallAborts(c)
             \/ HandlerReturns(c) \/ ReadEnds(c) \/ Unregister(c) \/ UnregisterAborts(c)
             \/ ReaderStops(c) \/ WriterStep(c) \/ CloseSocket(c) \/ HubStops(c)
      PROVE  WaitGroupInv'
  <2>1. wg' = wg /\ \A d \in Conns : pc'[d] \in Holding <=> pc[d] \in Holding
    BY <1>4 DEF Accept, Upgrade, Register, RegisterRefused, Run, ReadFrame, CallHub,
         HubServes, HubCallAborts, HandlerReturns, ReadEnds, Unregister,
         UnregisterAborts, ReaderStops, WriterStep, WriterStops, WriterExits,
         CloseSocket, HubStops
  <2> QED
    BY <2>1, KeepsReservations
<1>5. CASE HubDrop \/ HubCloses \/ HubExits \/ UNCHANGED vars
  <2>1. UNCHANGED <<wg, pc>>
    BY <1>5 DEF HubDrop, HubCloses, HubExits, vars
  <2> QED
    BY <2>1, KeepsReservations
<1> QED
  BY <1>1, <1>2, <1>3, <1>4, <1>5
     DEF Next, HandshakeStep, ReaderStep, HubStep, Terminated

-----------------------------------------------------------------------------
(* One lemma for each other part of the invariant, one step for each kind of  *)
(* action that can disturb it.                                                *)

\* Types; that wg stays a natural number is a consequence of WaitGroupInv.
LEMMA TypeStep ==
  ASSUME TypeOK, WaitGroupInv', [Next]_vars
  PROVE  TypeOK'
<1> USE DEF TypeOK, Holding, Registered, serverVars, hubVars, connVars,
     sockVars
<1>1. wg' \in Nat
  <2>1. HoldingConns' \subseteq Conns
    BY DEF HoldingConns
  <2>2. IsFiniteSet(HoldingConns')
    BY <2>1, ConnsAssumption, FS_Subset
  <2> QED
    BY <2>2, FS_CardinalityType DEF WaitGroupInv
<1>2. ASSUME NEW t \in Threads, StartServer(t)
      PROVE  TypeOK'
  BY ZenonT(40), <1>2, <1>1 DEF StartServer, HubStarted
<1>3. ASSUME NEW t \in Threads, Listen(t)
      PROVE  TypeOK'
  <2>1. listening' \in BOOLEAN
    BY <1>3 DEF Listen
  <2>2. tpc' = [tpc EXCEPT ![t] = tpc'[t]] /\ tpc'[t] \in {"serving", "shutdown"}
    BY <1>3 DEF Listen
  <2> QED
    BY <1>3, <1>1, <2>1, <2>2 DEF Listen
<1>4. ASSUME NEW t \in Threads, ServeReturns(t)
      PROVE  TypeOK'
  BY <1>4, <1>1 DEF ServeReturns
<1>5. ASSUME NEW t \in Threads, CallShutdown(t)
      PROVE  TypeOK'
  BY <1>5, <1>1 DEF CallShutdown
<1>6. ASSUME NEW t \in Threads, EnterOnce(t)
      PROVE  TypeOK'
  BY <1>6, <1>1 DEF EnterOnce
<1>7. ASSUME NEW t \in Threads, MarkStopping(t)
      PROVE  TypeOK'
  BY <1>7, <1>1 DEF MarkStopping
<1>8. ASSUME NEW t \in Threads, HttpShutdown(t)
      PROVE  TypeOK'
  BY <1>8, <1>1 DEF HttpShutdown
<1>9. ASSUME NEW t \in Threads, HttpShutdownReturns(t)
      PROVE  TypeOK'
  BY <1>9, <1>1 DEF HttpShutdownReturns
<1>10. ASSUME NEW t \in Threads, HubShutdown(t)
      PROVE  TypeOK'
  BY <1>10, <1>1 DEF HubShutdown, HubStarted
<1>11. ASSUME NEW t \in Threads, HubShutdownReturns(t)
      PROVE  TypeOK'
  BY <1>11, <1>1 DEF HubShutdownReturns
<1>12. ASSUME NEW t \in Threads, ConnectionsDrained(t)
      PROVE  TypeOK'
  BY <1>12, <1>1 DEF ConnectionsDrained
<1>13. ASSUME NEW t \in Threads, MarkStopped(t)
      PROVE  TypeOK'
  BY <1>13, <1>1 DEF MarkStopped
<1>14. ASSUME NEW c \in Conns, Accept(c)
      PROVE  TypeOK'
  BY <1>14, <1>1 DEF Accept
<1>15. ASSUME NEW c \in Conns, Reserve(c)
      PROVE  TypeOK'
  BY <1>15, <1>1 DEF Reserve
<1>16. ASSUME NEW c \in Conns, UpgradeFails(c)
      PROVE  TypeOK'
  BY <1>16, <1>1 DEF UpgradeFails
<1>17. ASSUME NEW c \in Conns, Upgrade(c)
      PROVE  TypeOK'
  BY <1>17, <1>1 DEF Upgrade
<1>18. ASSUME NEW c \in Conns, Register(c)
      PROVE  TypeOK'
  BY <1>18, <1>1 DEF Register
<1>19. ASSUME NEW c \in Conns, RegisterRefused(c)
      PROVE  TypeOK'
  BY ZenonT(40), <1>19, <1>1 DEF RegisterRefused, Stop
<1>20. ASSUME NEW c \in Conns, Rejected(c)
      PROVE  TypeOK'
  BY <1>20, <1>1 DEF Rejected
<1>21. ASSUME NEW c \in Conns, Run(c)
      PROVE  TypeOK'
  BY <1>21, <1>1 DEF Run
<1>22. ASSUME NEW c \in Conns, ReadFrame(c)
      PROVE  TypeOK'
  BY <1>22, <1>1 DEF ReadFrame
<1>23. ASSUME NEW c \in Conns, CallHub(c)
      PROVE  TypeOK'
  BY <1>23, <1>1 DEF CallHub
<1>24. ASSUME NEW c \in Conns, HubServes(c)
      PROVE  TypeOK'
  BY <1>24, <1>1 DEF HubServes
<1>25. ASSUME NEW c \in Conns, HubCallAborts(c)
      PROVE  TypeOK'
  BY <1>25, <1>1 DEF HubCallAborts
<1>26. ASSUME NEW c \in Conns, HandlerReturns(c)
      PROVE  TypeOK'
  BY <1>26, <1>1 DEF HandlerReturns
<1>27. ASSUME NEW c \in Conns, ReadEnds(c)
      PROVE  TypeOK'
  BY <1>27, <1>1 DEF ReadEnds
<1>28. ASSUME NEW c \in Conns, Unregister(c)
      PROVE  TypeOK'
  BY <1>28, <1>1 DEF Unregister
<1>29. ASSUME NEW c \in Conns, UnregisterAborts(c)
      PROVE  TypeOK'
  BY <1>29, <1>1 DEF UnregisterAborts
<1>30. ASSUME NEW c \in Conns, ReaderStops(c)
      PROVE  TypeOK'
  BY ZenonT(40), <1>30, <1>1 DEF ReaderStops, Stop
<1>31. ASSUME NEW c \in Conns, RunReturns(c)
      PROVE  TypeOK'
  BY <1>31, <1>1 DEF RunReturns
<1>32. ASSUME NEW c \in Conns, WriterStops(c)
      PROVE  TypeOK'
  BY ZenonT(40), <1>32, <1>1 DEF WriterStops, Stop
<1>33. ASSUME NEW c \in Conns, WriterExits(c)
      PROVE  TypeOK'
  BY <1>33, <1>1 DEF WriterExits
<1>34. ASSUME NEW c \in Conns, CloseSocket(c)
      PROVE  TypeOK'
  BY <1>34, <1>1 DEF CloseSocket, None
<1>35. ASSUME NEW c \in Conns, HubStops(c)
      PROVE  TypeOK'
  BY <1>35, <1>1 DEF HubStops, Stop
<1>36. CASE HubDrop
  BY <1>36, <1>1 DEF HubDrop, Stop
<1>37. CASE HubCloses
  BY <1>37, <1>1 DEF HubCloses
<1>38. CASE HubExits
  BY <1>38, <1>1 DEF HubExits
<1>39. CASE UNCHANGED vars
  BY <1>39, <1>1 DEF vars
<1> QED
  BY <1>2, <1>3, <1>4, <1>5, <1>6, <1>7, <1>8, <1>9, <1>10, <1>11, <1>12,
       <1>13, <1>14, <1>15, <1>16, <1>17, <1>18, <1>19, <1>20, <1>21, <1>22,
       <1>23, <1>24, <1>25, <1>26, <1>27, <1>28, <1>29, <1>30, <1>31, <1>32,
       <1>33, <1>34, <1>35, <1>36, <1>37, <1>38, <1>39
     DEF Next, Terminated, StartStep, ShutdownStep, HandshakeStep, ReaderStep, WriterStep, HubStep

\* Who is in the body of shutdownOnce: nobody adds a reservation after state has
\* left "running", and nobody is left when the counter is zero.
LEMMA ShutdownStepInv ==
  ASSUME TypeOK, WaitGroupInv, ShutdownInv, [Next]_vars
  PROVE  ShutdownInv'
<1> USE DEF TypeOK, ShutdownInv, Body, AfterMark, serverVars, hubVars,
     connVars, sockVars
<1>1. ASSUME NEW t \in Threads, StartServer(t)
      PROVE  ShutdownInv'
  BY <1>1 DEF StartServer, HubStarted
<1>2. ASSUME NEW t \in Threads, Listen(t)
      PROVE  ShutdownInv'
  BY <1>2 DEF Listen
<1>3. ASSUME NEW t \in Threads, ServeReturns(t)
      PROVE  ShutdownInv'
  BY <1>3 DEF ServeReturns
<1>4. ASSUME NEW t \in Threads, CallShutdown(t)
      PROVE  ShutdownInv'
  BY <1>4 DEF CallShutdown
<1>5. ASSUME NEW t \in Threads, EnterOnce(t)
      PROVE  ShutdownInv'
  BY <1>5 DEF EnterOnce
<1>6. ASSUME NEW t \in Threads, MarkStopping(t)
      PROVE  ShutdownInv'
  BY <1>6 DEF MarkStopping
<1>7. ASSUME NEW t \in Threads, HttpShutdown(t)
      PROVE  ShutdownInv'
  BY <1>7 DEF HttpShutdown
<1>8. ASSUME NEW t \in Threads, HttpShutdownReturns(t)
      PROVE  ShutdownInv'
  BY <1>8 DEF HttpShutdownReturns
<1>9. ASSUME NEW t \in Threads, HubShutdown(t)
      PROVE  ShutdownInv'
  BY <1>9 DEF HubShutdown, HubStarted
<1>10. ASSUME NEW t \in Threads, HubShutdownReturns(t)
      PROVE  ShutdownInv'
  BY <1>10 DEF HubShutdownReturns
<1>11. ASSUME NEW t \in Threads, ConnectionsDrained(t)
      PROVE  ShutdownInv'
  BY <1>11 DEF ConnectionsDrained
<1>12. ASSUME NEW t \in Threads, MarkStopped(t)
      PROVE  ShutdownInv'
  BY <1>12 DEF MarkStopped
<1>13. ASSUME NEW c \in Conns, Reserve(c)
      PROVE  ShutdownInv'
  BY <1>13 DEF Reserve
<1>14. ASSUME NEW c \in Conns, UpgradeFails(c) \/ Rejected(c) \/ RunReturns(c)
      PROVE  ShutdownInv'
  BY <1>14, NobodyHolds DEF UpgradeFails, Rejected, RunReturns, Holding,
       Registered
<1>15. ASSUME NEW c \in Conns,
             \/ Accept(c) \/ Upgrade(c) \/ Register(c)
             \/ RegisterRefused(c) \/ Run(c)
      PROVE  ShutdownInv'
  BY <1>15 DEF Accept, Upgrade, Register, RegisterRefused, Run
<1>16. ASSUME NEW c \in Conns,
             \/ ReadFrame(c) \/ CallHub(c) \/ HubServes(c)
             \/ HubCallAborts(c) \/ HandlerReturns(c) \/ ReadEnds(c)
      PROVE  ShutdownInv'
  BY <1>16 DEF ReadFrame, CallHub, HubServes, HubCallAborts, HandlerReturns,
       ReadEnds
<1>17. ASSUME NEW c \in Conns, Unregister(c) \/ UnregisterAborts(c) \/ ReaderStops(c)
      PROVE  ShutdownInv'
  BY <1>17 DEF Unregister, UnregisterAborts, ReaderStops
<1>18. ASSUME NEW c \in Conns,
             \/ WriterStops(c) \/ WriterExits(c) \/ CloseSocket(c)
             \/ HubStops(c)
      PROVE  ShutdownInv'
  BY <1>18 DEF WriterStops, WriterExits, CloseSocket, HubStops
<1>19. CASE HubDrop \/ HubCloses \/ HubExits
  BY <1>19 DEF HubDrop, HubCloses, HubExits
<1>20. CASE UNCHANGED vars
  BY <1>20 DEF vars
<1> QED
  BY <1>1, <1>2, <1>3, <1>4, <1>5, <1>6, <1>7, <1>8, <1>9, <1>10, <1>11,
       <1>12, <1>13, <1>14, <1>15, <1>16, <1>17, <1>18, <1>19, <1>20
     DEF Next, Terminated, StartStep, ShutdownStep, HandshakeStep, ReaderStep, WriterStep, HubStep

\* The hub's own state: it ends with an empty map and no socket left to close.
LEMMA HubStepInv ==
  ASSUME TypeOK, HubInv, ConnInv, [Next]_vars
  PROVE  HubInv'
<1> USE DEF TypeOK, HubInv, ConnInv, HubFree, Ended, serverVars, hubVars,
     connVars, sockVars
<1>1. ASSUME NEW t \in Threads, StartServer(t) \/ HubShutdown(t)
      PROVE  HubInv'
  BY <1>1 DEF StartServer, HubShutdown, HubStarted
<1>2. ASSUME NEW t \in Threads,
             \/ Listen(t) \/ ServeReturns(t) \/ CallShutdown(t)
             \/ EnterOnce(t) \/ MarkStopping(t) \/ HttpShutdown(t)
             \/ HttpShutdownReturns(t) \/ HubShutdownReturns(t) \/ ConnectionsDrained(t)
             \/ MarkStopped(t)
      PROVE  HubInv'
  BY <1>2 DEF Listen, ServeReturns, CallShutdown, EnterOnce, MarkStopping,
       HttpShutdown, HttpShutdownReturns, HubShutdownReturns,
       ConnectionsDrained, MarkStopped
<1>3. ASSUME NEW c \in Conns,
             \/ Accept(c) \/ Reserve(c) \/ UpgradeFails(c)
             \/ Upgrade(c) \/ Rejected(c) \/ Run(c)
      PROVE  HubInv'
  BY <1>3 DEF Accept, Reserve, UpgradeFails, Upgrade, Rejected, Run
<1>4. ASSUME NEW c \in Conns, Register(c)
      PROVE  HubInv'
  BY <1>4 DEF Register
<1>5. ASSUME NEW c \in Conns, RegisterRefused(c) \/ ReaderStops(c) \/ WriterStops(c)
      PROVE  HubInv'
  BY <1>5 DEF RegisterRefused, ReaderStops, WriterStops, Stop
<1>6. ASSUME NEW c \in Conns,
             \/ ReadFrame(c) \/ CallHub(c) \/ HubServes(c)
             \/ HubCallAborts(c) \/ HandlerReturns(c) \/ ReadEnds(c)
      PROVE  HubInv'
  BY <1>6 DEF ReadFrame, CallHub, HubServes, HubCallAborts, HandlerReturns,
       ReadEnds
<1>7. ASSUME NEW c \in Conns, Unregister(c)
      PROVE  HubInv'
  BY <1>7 DEF Unregister
<1>8. ASSUME NEW c \in Conns, UnregisterAborts(c) \/ RunReturns(c) \/ WriterExits(c)
      PROVE  HubInv'
  BY <1>8 DEF UnregisterAborts, RunReturns, WriterExits
<1>9. ASSUME NEW c \in Conns, CloseSocket(c)
      PROVE  HubInv'
  BY <1>9 DEF CloseSocket, None
<1>10. ASSUME NEW c \in Conns, HubStops(c)
      PROVE  HubInv'
  BY <1>10 DEF HubStops, Stop
<1>11. CASE HubDrop
  BY <1>11 DEF HubDrop, Stop
<1>12. CASE HubCloses
  BY <1>12 DEF HubCloses
<1>13. CASE HubExits
  BY <1>13 DEF HubExits
<1>14. CASE UNCHANGED vars
  BY <1>14 DEF vars
<1> QED
  BY <1>1, <1>2, <1>3, <1>4, <1>5, <1>6, <1>7, <1>8, <1>9, <1>10, <1>11,
       <1>12, <1>13, <1>14
     DEF Next, Terminated, StartStep, ShutdownStep, HandshakeStep, ReaderStep, WriterStep, HubStep

\* One connection: its goroutines, its flags and its place in the hub's map.
LEMMA ConnStepInv ==
  ASSUME TypeOK, HubInv, ConnInv, [Next]_vars
  PROVE  ConnInv'
<1> USE DEF TypeOK, HubInv, ConnInv, Registered, Ended, NeverStopped, None,
     serverVars, hubVars, connVars, sockVars
<1>1. ASSUME NEW t \in Threads, StartServer(t) \/ HubShutdown(t)
      PROVE  ConnInv'
  BY <1>1 DEF StartServer, HubShutdown, HubStarted
<1>2. ASSUME NEW t \in Threads,
             \/ Listen(t) \/ ServeReturns(t) \/ CallShutdown(t)
             \/ EnterOnce(t) \/ MarkStopping(t) \/ HttpShutdown(t)
             \/ HttpShutdownReturns(t) \/ HubShutdownReturns(t) \/ ConnectionsDrained(t)
             \/ MarkStopped(t)
      PROVE  ConnInv'
  BY <1>2 DEF Listen, ServeReturns, CallShutdown, EnterOnce, MarkStopping,
       HttpShutdown, HttpShutdownReturns, HubShutdownReturns,
       ConnectionsDrained, MarkStopped
<1>3. ASSUME NEW c \in Conns, Accept(c)
      PROVE  ConnInv'
  BY <1>3 DEF Accept
<1>4. ASSUME NEW c \in Conns, Reserve(c)
      PROVE  ConnInv'
  BY <1>4 DEF Reserve
<1>5. ASSUME NEW c \in Conns, UpgradeFails(c)
      PROVE  ConnInv'
  BY <1>5 DEF UpgradeFails
<1>6. ASSUME NEW c \in Conns, Upgrade(c)
      PROVE  ConnInv'
  BY <1>6 DEF Upgrade
<1>7. ASSUME NEW c \in Conns, Register(c)
      PROVE  ConnInv'
  BY <1>7 DEF Register, HubFree, HubIsClosing
<1>8. ASSUME NEW c \in Conns, RegisterRefused(c)
      PROVE  ConnInv'
  BY <1>8 DEF RegisterRefused, Stop, HubFree, HubIsClosing
<1>9. ASSUME NEW c \in Conns, Rejected(c)
      PROVE  ConnInv'
  BY <1>9 DEF Rejected
<1>10. ASSUME NEW c \in Conns, Run(c)
      PROVE  ConnInv'
  BY <1>10 DEF Run
<1>11. ASSUME NEW c \in Conns, ReadFrame(c)
      PROVE  ConnInv'
  BY <1>11 DEF ReadFrame
<1>12. ASSUME NEW c \in Conns, CallHub(c)
      PROVE  ConnInv'
  BY <1>12 DEF CallHub
<1>13. ASSUME NEW c \in Conns, HubServes(c)
      PROVE  ConnInv'
  BY <1>13 DEF HubServes
<1>14. ASSUME NEW c \in Conns, HubCallAborts(c)
      PROVE  ConnInv'
  BY <1>14 DEF HubCallAborts
<1>15. ASSUME NEW c \in Conns, HandlerReturns(c)
      PROVE  ConnInv'
  BY <1>15 DEF HandlerReturns
<1>16. ASSUME NEW c \in Conns, ReadEnds(c)
      PROVE  ConnInv'
  BY <1>16 DEF ReadEnds
<1>17. ASSUME NEW c \in Conns, Unregister(c)
      PROVE  ConnInv'
  BY <1>17 DEF Unregister, HubFree, HubIsClosing
<1>18. ASSUME NEW c \in Conns, UnregisterAborts(c)
      PROVE  ConnInv'
  BY <1>18 DEF UnregisterAborts, HubFree, HubIsClosing
<1>19. ASSUME NEW c \in Conns, ReaderStops(c)
      PROVE  ConnInv'
  BY <1>19 DEF ReaderStops, Stop
<1>20. ASSUME NEW c \in Conns, RunReturns(c)
      PROVE  ConnInv'
  BY <1>20 DEF RunReturns
<1>21. ASSUME NEW c \in Conns, WriterStops(c)
      PROVE  ConnInv'
  BY <1>21 DEF WriterStops, Stop
<1>22. ASSUME NEW c \in Conns, WriterExits(c)
      PROVE  ConnInv'
  BY <1>22 DEF WriterExits
<1>23. ASSUME NEW c \in Conns, CloseSocket(c)
      PROVE  ConnInv'
  BY <1>23 DEF CloseSocket
<1>24. ASSUME NEW c \in Conns, HubStops(c)
      PROVE  ConnInv'
  BY <1>24 DEF HubStops, Stop
<1>25. CASE HubDrop
  BY <1>25 DEF HubDrop, Stop
<1>26. CASE HubCloses
  BY <1>26 DEF HubCloses
<1>27. CASE HubExits
  BY <1>27 DEF HubExits, HubFree
<1>28. CASE UNCHANGED vars
  BY <1>28 DEF vars
<1> QED
  BY <1>1, <1>2, <1>3, <1>4, <1>5, <1>6, <1>7, <1>8, <1>9, <1>10, <1>11,
       <1>12, <1>13, <1>14, <1>15, <1>16, <1>17, <1>18, <1>19, <1>20, <1>21,
       <1>22, <1>23, <1>24, <1>25, <1>26, <1>27, <1>28
     DEF Next, Terminated, StartStep, ShutdownStep, HandshakeStep, ReaderStep, WriterStep, HubStep

-----------------------------------------------------------------------------
(* The invariant and what follows from it                                    *)

LEMMA InitInv ==
  Init => Inv
<1> SUFFICES ASSUME Init PROVE Inv
  OBVIOUS
<1>1. TypeOK
  BY DEF Init, TypeOK, Holding, Registered
<1>2. ShutdownInv
  BY DEF Init, ShutdownInv, Body, AfterMark
<1>3. HubInv /\ ConnInv
  BY DEF Init, HubInv, ConnInv, HubFree, Registered, Ended, NeverStopped, None
<1>4. WaitGroupInv
  <2>1. HoldingConns = {}
    BY DEF Init, HoldingConns, Holding, Registered
  <2> QED
    BY <2>1, FS_EmptySet DEF Init, WaitGroupInv
<1> QED
  BY <1>1, <1>2, <1>3, <1>4 DEF Inv

LEMMA NextInv ==
  Inv /\ [Next]_vars => Inv'
<1> SUFFICES ASSUME Inv, [Next]_vars PROVE Inv'
  OBVIOUS
<1> USE DEF Inv
<1>1. WaitGroupInv'
  BY WaitGroupStep
<1>2. TypeOK'
  BY <1>1, TypeStep
<1>3. ShutdownInv' /\ HubInv' /\ ConnInv'
  BY ShutdownStepInv, HubStepInv, ConnStepInv
<1> QED
  BY <1>1, <1>2, <1>3

\* The invariant holds in every state of every behaviour.
THEOREM Invariance == Spec => []Inv
BY InitInv, NextInv, PTL DEF Spec

\* Every variable keeps its type; the counter of the WaitGroup is never negative,
\* whichever way a handshake or a connection ends.
THEOREM TypeCorrect == Spec => []TypeOK
<1>1. Inv => TypeOK
  BY DEF Inv
<1> QED
  BY <1>1, Invariance, PTL

\* Server.Shutdown and Start return only when no goroutine of a connection is
\* left, every socket is closed and the hub has ended.
THEOREM ShutdownIsComplete == Spec => []ShutdownDrains
<1>1. Inv => ShutdownDrains
  <2> SUFFICES ASSUME Inv, NEW t \in Threads, tpc[t] = "returned"
               PROVE  state = "stopped" /\ Drained
    BY DEF ShutdownDrains
  <2> USE DEF Inv
  <2>1. state = "stopped" /\ hub = "done" /\ wg = 0
    BY DEF ShutdownInv
  <2>2. \A c \in Conns : pc[c] \notin Holding
    BY <2>1, NobodyHolds
  <2>3. members = {} /\ HubFree
    BY <2>1 DEF HubInv
  <2>4. ASSUME NEW c \in Conns
        PROVE  writer[c] \in {None, "done"} /\ ~sockOpen[c]
    BY <2>2, <2>3 DEF ConnInv, TypeOK, HubFree, Holding, Registered, None
  <2> QED
    BY <2>1, <2>2, <2>3, <2>4 DEF Drained
<1> QED
  BY <1>1, Invariance, PTL

\* Once the hub has ended, every registered connection has been stopped, however
\* its registration was interleaved with the close.
THEOREM NoConnectionEscapes == Spec => []NoOrphanConnection
<1>1. Inv => NoOrphanConnection
  BY DEF Inv, NoOrphanConnection, HubInv, ConnInv
<1> QED
  BY <1>1, Invariance, PTL

\* A connection whose reader has ended leaves the hub's map, and its socket is
\* closed when its goroutines have ended.
THEOREM NothingLeaks == Spec => []NoLeak
<1>1. Inv => NoStaleMember
  BY DEF Inv, NoStaleMember, ConnInv, Ended, TypeOK
<1>2. Inv => SocketNotLeaked
  BY DEF Inv, SocketNotLeaked, ConnInv, TypeOK, Holding, Registered, None
<1> QED
  BY <1>1, <1>2, Invariance, PTL DEF NoLeak

\* No reservation is added while Shutdown waits for the WaitGroup.
THEOREM WaitIsNotRaced == Spec => NoAddDuringWait
<1>1. Inv /\ [Next]_vars =>
        [(\E t \in Threads : tpc[t] \in {"connwait", "markstopped"}) => wg' <= wg]_vars
  <2> SUFFICES ASSUME Inv, Next, NEW t \in Threads, tpc[t] \in {"connwait", "markstopped"}
               PROVE  wg' <= wg
    OBVIOUS
  <2>1. state = "stopping" /\ wg \in Nat
    BY DEF Inv, ShutdownInv, AfterMark, TypeOK
  <2>2. wg' = wg \/ wg' = wg - 1
    BY <2>1 DEF Next, Terminated, StartStep, StartServer, Listen, ServeReturns, CallShutdown,
         ShutdownStep, EnterOnce, MarkStopping, HttpShutdown, HttpShutdownReturns,
         HubShutdown, HubShutdownReturns, ConnectionsDrained, MarkStopped, Accept, Reserve,
         HandshakeStep, UpgradeFails, Upgrade, Register, RegisterRefused, Rejected, Run,
         ReaderStep, ReadFrame, CallHub, HubServes, HubCallAborts, HandlerReturns, ReadEnds,
         Unregister, UnregisterAborts, ReaderStops, RunReturns, WriterStep, WriterStops,
         WriterExits, CloseSocket, HubStep, HubDrop, HubCloses, HubExits, HubStops,
         vars, connVars
  <2> QED
    BY <2>1, <2>2
<1> QED
  BY <1>1, Invariance, PTL DEF Spec, NoAddDuringWait

-----------------------------------------------------------------------------
(* Who waits for whom.  WaitInv needs Inv beside it, and Inv does not need it. *)

BodyIsRun == once = "busy" => \E u \in Threads : tpc[u] \in Body

HubIsOn ==
  /\ \A t \in Threads : tpc[t] = "hubwait" => closeAll
  /\ closeAll \/ state = "running" => hub # "off"
  /\ \A c \in Conns : pc[c] \in Holding => hub # "off"

WriterIsOn ==
  \A c \in Conns :
    pc[c] \in (Registered \ {"registered"}) \union {"stopping", "waitwriter"} =>
      writer[c] # None

WaitInv == BodyIsRun /\ HubIsOn /\ WriterIsOn

\* The first caller of Shutdown stays in the body until it frees the others.
LEMMA BodyIsRunStep ==
  ASSUME TypeOK, BodyIsRun, [Next]_vars
  PROVE  BodyIsRun'
<1> USE DEF TypeOK, Body, AfterMark, serverVars
<1>1. CASE UNCHANGED <<once, tpc>>
  BY <1>1 DEF BodyIsRun
<1>2. ASSUME NEW t \in Threads, EnterOnce(t)
      PROVE  BodyIsRun'
  <2>1. CASE once = "free"
    <3>1. tpc'[t] \in Body
      BY <1>2, <2>1 DEF EnterOnce
    <3> QED
      BY <3>1 DEF BodyIsRun
  <2>2. CASE once = "done"
    <3>1. once' = "done"
      BY <1>2, <2>2 DEF EnterOnce
    <3> QED
      BY <3>1 DEF BodyIsRun
  <2> QED
    BY <1>2, <2>1, <2>2 DEF EnterOnce
<1>3. ASSUME NEW t \in Threads, MarkStopped(t)
      PROVE  BodyIsRun'
  <2>1. once' = "done"
    BY <1>3 DEF MarkStopped
  <2> QED
    BY <2>1 DEF BodyIsRun
<1>4. ASSUME NEW t \in Threads,
             \/ MarkStopping(t) \/ HttpShutdown(t) \/ HttpShutdownReturns(t)
             \/ HubShutdown(t) \/ HubShutdownReturns(t) \/ ConnectionsDrained(t)
      PROVE  BodyIsRun'
  <2>1. tpc'[t] \in Body
    BY <1>4 DEF MarkStopping, HttpShutdown, HttpShutdownReturns, HubShutdown,
       HubShutdownReturns, ConnectionsDrained
  <2> QED
    BY <2>1 DEF BodyIsRun
<1>5. ASSUME NEW t \in Threads,
             StartServer(t) \/ Listen(t) \/ ServeReturns(t) \/ CallShutdown(t)
      PROVE  BodyIsRun'
  <2>1. /\ once' = once /\ tpc[t] \notin Body
        /\ \A u \in Threads : u # t => tpc'[u] = tpc[u]
    BY <1>5 DEF StartServer, Listen, ServeReturns, CallShutdown
  <2>2. ASSUME NEW u \in Threads, tpc[u] \in Body
        PROVE  tpc'[u] \in Body
    BY <2>1, <2>2
  <2> QED
    BY <2>1, <2>2 DEF BodyIsRun
<1>6. ASSUME NEW c \in Conns,
             \/ Accept(c) \/ Reserve(c) \/ HandshakeStep(c) \/ ReaderStep(c)
             \/ WriterStep(c) \/ CloseSocket(c) \/ HubStops(c)
      PROVE  UNCHANGED <<once, tpc>>
  BY <1>6 DEF Accept, Reserve, HandshakeStep, UpgradeFails, Upgrade, Register,
     RegisterRefused, Rejected, Run, ReaderStep, ReadFrame, CallHub, HubServes,
     HubCallAborts, HandlerReturns, ReadEnds, Unregister, UnregisterAborts, ReaderStops,
     RunReturns, WriterStep, WriterStops, WriterExits, CloseSocket, HubStops
<1>7. CASE HubDrop \/ HubCloses \/ HubExits \/ UNCHANGED vars
  BY <1>1, <1>7 DEF HubDrop, HubCloses, HubExits, vars
<1> QED
  BY <1>1, <1>2, <1>3, <1>4, <1>5, <1>6, <1>7
     DEF Next, Terminated, StartStep, ShutdownStep, HubStep

\* The hub runs as soon as a connection can be reserved or Shutdown waits for it.
LEMMA HubIsOnStep ==
  ASSUME TypeOK, HubIsOn, [Next]_vars
  PROVE  HubIsOn'
<1> USE DEF TypeOK, HubIsOn, Holding, Registered, HubStarted, serverVars, hubVars, connVars
<1>1. ASSUME NEW t \in Threads, StartStep(t) \/ CallShutdown(t)
      PROVE  HubIsOn'
  BY <1>1 DEF StartStep, StartServer, Listen, ServeReturns, CallShutdown
<1>2. ASSUME NEW t \in Threads,
             \/ EnterOnce(t) \/ MarkStopping(t) \/ HttpShutdown(t)
             \/ HttpShutdownReturns(t) \/ HubShutdown(t)
      PROVE  HubIsOn'
  BY <1>2 DEF EnterOnce, MarkStopping, HttpShutdown, HttpShutdownReturns, HubShutdown
<1>3. ASSUME NEW t \in Threads,
             HubShutdownReturns(t) \/ ConnectionsDrained(t) \/ MarkStopped(t)
      PROVE  HubIsOn'
  BY <1>3 DEF HubShutdownReturns, ConnectionsDrained, MarkStopped
<1>4. ASSUME NEW c \in Conns,
             \/ Accept(c) \/ Reserve(c) \/ HandshakeStep(c) \/ ReaderStep(c)
             \/ WriterStep(c) \/ CloseSocket(c) \/ HubStops(c)
      PROVE  HubIsOn'
  <2>1. UNCHANGED <<tpc, closeAll, state>> /\ (hub # "off" => hub' # "off")
    BY <1>4 DEF Accept, Reserve, HandshakeStep, UpgradeFails, Upgrade, Register,
       RegisterRefused, Rejected, Run, ReaderStep, ReadFrame, CallHub, HubServes,
       HubCallAborts, HandlerReturns, ReadEnds, Unregister, UnregisterAborts, ReaderStops,
       RunReturns, WriterStep, WriterStops, WriterExits, CloseSocket, HubStops
  <2>2. ASSUME NEW d \in Conns, pc'[d] \in Holding
        PROVE  pc[d] \in Holding \/ state = "running"
    BY <1>4, <2>2 DEF Accept, Reserve, HandshakeStep, UpgradeFails, Upgrade, Register,
       RegisterRefused, Rejected, Run, ReaderStep, ReadFrame, CallHub, HubServes,
       HubCallAborts, HandlerReturns, ReadEnds, Unregister, UnregisterAborts, ReaderStops,
       RunReturns, WriterStep, WriterStops, WriterExits, CloseSocket, HubStops
  <2> QED
    BY <2>1, <2>2
<1>5. CASE HubDrop \/ HubCloses \/ HubExits \/ UNCHANGED vars
  BY <1>5 DEF HubDrop, HubCloses, HubExits, vars
<1> QED
  BY <1>1, <1>2, <1>3, <1>4, <1>5 DEF Next, Terminated, ShutdownStep, HubStep

\* run() starts the writer before it reads, and nobody takes it back.
LEMMA WriterIsOnStep ==
  ASSUME TypeOK, WriterIsOn, [Next]_vars
  PROVE  WriterIsOn'
<1> USE DEF TypeOK, WriterIsOn, Holding, Registered, None, connVars
<1>1. ASSUME NEW t \in Threads, StartStep(t) \/ CallShutdown(t) \/ ShutdownStep(t)
      PROVE  UNCHANGED <<pc, writer>>
  BY <1>1 DEF StartStep, StartServer, Listen, ServeReturns, CallShutdown, ShutdownStep,
     EnterOnce, MarkStopping, HttpShutdown, HttpShutdownReturns, HubShutdown,
     HubShutdownReturns, ConnectionsDrained, MarkStopped
<1>2. ASSUME NEW c \in Conns, Accept(c) \/ Reserve(c) \/ HandshakeStep(c)
      PROVE  WriterIsOn'
  BY <1>2 DEF Accept, Reserve, HandshakeStep, UpgradeFails, Upgrade, Register,
     RegisterRefused, Rejected, Run
<1>3. ASSUME NEW c \in Conns, ReaderStep(c)
      PROVE  WriterIsOn'
  BY <1>3 DEF ReaderStep, ReadFrame, CallHub, HubServes,
     HubCallAborts, HandlerReturns, ReadEnds, Unregister, UnregisterAborts, ReaderStops,
     RunReturns
<1>4. ASSUME NEW c \in Conns, WriterStep(c) \/ CloseSocket(c) \/ HubStops(c)
      PROVE  WriterIsOn'
  BY <1>4 DEF WriterStep, WriterStops, WriterExits, CloseSocket, HubStops
<1>5. CASE HubDrop \/ HubCloses \/ HubExits \/ UNCHANGED vars
  BY <1>5 DEF HubDrop, HubCloses, HubExits, vars
<1> QED
  BY <1>1, <1>2, <1>3, <1>4, <1>5 DEF Next, Terminated, HubStep

\* Beside Inv, WaitInv is inductive.
LEMMA WaitInvariance == Spec => []WaitInv
<1>1. Init => WaitInv
  BY DEF Init, WaitInv, BodyIsRun, HubIsOn, WriterIsOn, Holding, Registered
<1>2. Inv /\ WaitInv /\ [Next]_vars => WaitInv'
  BY BodyIsRunStep, HubIsOnStep, WriterIsOnStep DEF WaitInv, Inv
<1> QED
  BY <1>1, <1>2, Invariance, PTL DEF Spec

\* A connection that does not wait for its client can go on, or the hub can.
LEMMA ConnectionMoves ==
  ASSUME Inv, WaitInv, NEW c \in Conns, pc[c] \in Holding
  PROVE  Moves(c) \/ HubMoves \/ (pc[c] = "reading" /\ ~closed[c])
<1> USE DEF Inv, TypeOK, None
<1>1. CASE pc[c] \in {"upgrading", "registered", "handling", "stopping"}
  BY <1>1 DEF Moves
<1>2. CASE pc[c] \in {"registering", "hubcall", "unregister"}
  <2>1. hub # "off"
    BY DEF WaitInv, HubIsOn
  <2> QED
    BY <1>2, <2>1 DEF Moves, HubMoves, HubIsClosing
<1>3. CASE pc[c] = "reading" /\ closed[c]
  BY <1>3 DEF ConnInv, Moves
<1>4. CASE pc[c] = "rejecting"
  BY <1>4 DEF Moves
<1>5. CASE pc[c] = "waitwriter"
  <2>1. closed[c]
    BY <1>5 DEF ConnInv
  <2>2. writer[c] # None
    BY <1>5 DEF WaitInv, WriterIsOn
  <2> QED
    BY <1>5, <2>1, <2>2 DEF Moves
<1> QED
  BY <1>1, <1>2, <1>3, <1>4, <1>5 DEF Holding, Registered

\* No goroutine of the gateway waits in a circle: whatever Shutdown waits for can go on,
\* with any number of connections and callers.  That it does go on is fairness, and
\* ShutdownTerminates.
THEOREM NobodyWaitsInACircle == Spec => []NoCircularWait
<1>1. Inv /\ WaitInv => NoCircularWait
  <2>1. SUFFICES ASSUME Inv, WaitInv PROVE NoCircularWait
    OBVIOUS
  <2>2. ASSUME NEW t \in Threads, tpc[t] = "hubwait", hub # "done"
        PROVE  HubMoves
    BY <2>1, <2>2 DEF WaitInv, HubIsOn, HubMoves, Inv, TypeOK
  <2>3. ASSUME NEW t \in Threads, tpc[t] = "connwait", wg # 0
        PROVE  HoldingConns # {} /\ \A c \in HoldingConns : Moves(c)
    <3>1. hub = "done" /\ closeAll
      BY <2>1, <2>3 DEF Inv, ShutdownInv, HubInv
    <3>2. HoldingConns # {}
      BY <2>1, <2>3, FS_EmptySet DEF Inv, WaitGroupInv
    <3>3. ASSUME NEW c \in HoldingConns
          PROVE  Moves(c)
      <4>1. c \in Conns /\ pc[c] \in Holding
        BY <3>3 DEF HoldingConns
      <4>2. ~HubMoves
        BY <3>1 DEF HubMoves
      <4>3. ~(pc[c] = "reading" /\ ~closed[c])
        BY <2>1, <3>1, <4>1 DEF Inv, HubInv, ConnInv, Registered
      <4> QED
        BY <2>1, <4>1, <4>2, <4>3, ConnectionMoves
    <3> QED
      BY <3>2, <3>3
  <2> QED
    BY <2>1, <2>2, <2>3, ConnectionMoves DEF NoCircularWait, WaitInv, BodyIsRun
<1> QED
  BY <1>1, Invariance, WaitInvariance, PTL

-----------------------------------------------------------------------------
(* The refinement of Gateway                                                *)

LEMMA InitPromise == Init => Promise!Init
BY DEF Init, Promise!Init, HoldingConns, Holding, Registered, Returned

\* A step of Start, Shutdown or their callers: only the end of shutdownOnce, and a
\* caller that finds it ended, return.
LEMMA ThreadPromise ==
  ASSUME Inv, NEW t \in Threads, StartStep(t) \/ CallShutdown(t) \/ ShutdownStep(t)
  PROVE  [Promise!Next]_(Promise!gatewayVars)
<1> USE DEF Promise!gatewayVars
<1>1. HoldingConns' = HoldingConns
  BY DEF StartStep, CallShutdown, ShutdownStep, StartServer, Listen, ServeReturns,
         EnterOnce, MarkStopping, HttpShutdown, HttpShutdownReturns, HubShutdown,
         HubShutdownReturns, ConnectionsDrained, MarkStopped, HoldingConns, connVars
<1>2. ASSUME NEW p \in {"refused", "listen", "serving", "shutdown", "mark", "http",
                        "httpwait", "hub", "hubwait", "connwait", "markstopped"},
             tpc' = [tpc EXCEPT ![t] = p], tpc[t] # "returned"
      PROVE  Returned' = Returned
  BY <1>2 DEF Returned, Inv, TypeOK
<1>3. ASSUME tpc' = [tpc EXCEPT ![t] = "returned"]
      PROVE  Returned' = Returned \union {t}
  BY <1>3 DEF Returned, Inv, TypeOK
<1>4. CASE StartServer(t)
  <2>1. Returned' = Returned
    BY <1>2, <1>4 DEF StartServer
  <2> QED
    BY <1>1, <1>4, <2>1 DEF StartServer, Promise!Next, Promise!Start
<1>5. CASE Listen(t) \/ ServeReturns(t) \/ CallShutdown(t) \/ HttpShutdown(t)
           \/ HttpShutdownReturns(t) \/ HubShutdown(t) \/ HubShutdownReturns(t)
           \/ ConnectionsDrained(t)
  <2>1. Returned' = Returned
    BY <1>2, <1>5 DEF Listen, ServeReturns, CallShutdown, HttpShutdown,
         HttpShutdownReturns, HubShutdown, HubShutdownReturns, ConnectionsDrained
  <2>2. state' = state
    BY <1>5 DEF Listen, ServeReturns, CallShutdown, HttpShutdown,
         HttpShutdownReturns, HubShutdown, HubShutdownReturns, ConnectionsDrained
  <2> QED
    BY <1>1, <2>1, <2>2
<1>6. CASE EnterOnce(t)
  <2>1. CASE once = "free" /\ tpc' = [tpc EXCEPT ![t] = "mark"]
    BY <1>1, <1>2, <1>6, <2>1 DEF EnterOnce
  <2>2. CASE once = "done" /\ tpc' = [tpc EXCEPT ![t] = "returned"]
    BY <1>1, <1>3, <1>6, <2>2
       DEF EnterOnce, Inv, ShutdownInv, Promise!Next, Promise!Return
  <2> QED
    BY <1>6, <2>1, <2>2 DEF EnterOnce
<1>7. CASE MarkStopping(t)
  <2>1. Returned' = Returned
    BY <1>2, <1>7 DEF MarkStopping
  <2>2. state \in {"new", "running", "stopping"}
    BY <1>7 DEF MarkStopping, Inv, TypeOK, ShutdownInv, Body, AfterMark
  <2> QED
    BY <1>1, <1>7, <2>1, <2>2 DEF MarkStopping, Promise!Next, Promise!Stop
<1>8. CASE MarkStopped(t)
  <2>1. wg = 0 /\ state = "stopping"
    BY <1>8 DEF MarkStopped, Inv, ShutdownInv, Body, AfterMark
  <2>2. HoldingConns = {}
    BY <2>1, NobodyHolds DEF Inv, HoldingConns
  <2> QED
    BY <1>1, <1>3, <1>8, <2>1, <2>2 DEF MarkStopped, Promise!Next, Promise!Finish
<1> QED
  BY <1>4, <1>5, <1>6, <1>7, <1>8 DEF StartStep, ShutdownStep

\* A step of a connection: it is admitted by Reserve, and released at one of three ends.
LEMMA ConnPromise ==
  ASSUME Inv, NEW c \in Conns,
         \/ Accept(c) \/ Reserve(c) \/ HandshakeStep(c) \/ ReaderStep(c)
         \/ WriterStep(c) \/ CloseSocket(c)
  PROVE  [Promise!Next]_(Promise!gatewayVars)
<1> USE DEF Promise!gatewayVars
<1>1. state' = state /\ Returned' = Returned
  BY DEF Accept, Reserve, HandshakeStep, ReaderStep, WriterStep, CloseSocket,
         UpgradeFails, Upgrade, Register, RegisterRefused, Rejected, Run, ReadFrame,
         CallHub, HubServes, HubCallAborts, HandlerReturns, ReadEnds, Unregister,
         UnregisterAborts, ReaderStops, RunReturns, WriterStops, WriterExits,
         serverVars, Returned
<1>2. CASE Reserve(c) /\ state = "running"
  <2>1. HoldingConns' = HoldingConns \union {c} /\ c \notin HoldingConns
    BY <1>2 DEF Reserve, HoldingConns, Holding, Registered, Inv, TypeOK
  <2> QED
    BY <1>1, <1>2, <2>1 DEF Promise!Next, Promise!Admit
<1>3. CASE UpgradeFails(c) \/ Rejected(c) \/ RunReturns(c)
  <2>1. HoldingConns' = HoldingConns \ {c} /\ c \in HoldingConns
    BY <1>3 DEF UpgradeFails, Rejected, RunReturns, HoldingConns, Holding, Registered,
                Inv, TypeOK
  <2> QED
    BY <1>1, <2>1 DEF Promise!Next, Promise!Release
<1>4. CASE Accept(c) \/ (Reserve(c) /\ state # "running") \/ Upgrade(c) \/ Register(c)
           \/ RegisterRefused(c) \/ Run(c)
  <2>1. HoldingConns' = HoldingConns
    BY <1>4 DEF Accept, Reserve, Upgrade, Register, RegisterRefused, Run, HoldingConns,
                Holding, Registered, Inv, TypeOK
  <2> QED
    BY <1>1, <2>1
<1>5. CASE ReadFrame(c) \/ CallHub(c) \/ HubServes(c) \/ HubCallAborts(c)
           \/ HandlerReturns(c) \/ ReadEnds(c) \/ Unregister(c) \/ UnregisterAborts(c)
           \/ ReaderStops(c)
  <2>1. HoldingConns' = HoldingConns
    BY <1>5 DEF ReadFrame, CallHub, HubServes, HubCallAborts, HandlerReturns, ReadEnds,
                Unregister, UnregisterAborts, ReaderStops, HoldingConns, Holding,
                Registered, Inv, TypeOK
  <2> QED
    BY <1>1, <2>1
<1>6. CASE WriterStep(c) \/ CloseSocket(c)
  <2>1. pc' = pc
    BY <1>6 DEF WriterStep, WriterStops, WriterExits, CloseSocket
  <2> QED
    BY <1>1, <2>1 DEF HoldingConns
<1> QED
  BY <1>2, <1>3, <1>4, <1>5, <1>6 DEF HandshakeStep, ReaderStep

LEMMA NextPromise == Inv /\ [Next]_vars => [Promise!Next]_(Promise!gatewayVars)
<1> SUFFICES ASSUME Inv, [Next]_vars
             PROVE  [Promise!Next]_(Promise!gatewayVars)
  OBVIOUS
<1>1. CASE HubStep \/ Terminated \/ UNCHANGED vars
  <2>1. state' = state /\ pc' = pc /\ tpc' = tpc
    BY <1>1 DEF HubStep, HubDrop, HubCloses, HubExits, HubStops, Terminated, vars,
                serverVars, connVars
  <2> QED
    BY <2>1 DEF Promise!gatewayVars, HoldingConns, Returned
<1> QED
  BY <1>1, ThreadPromise, ConnPromise DEF Next

\* The gateway, with all its goroutines, keeps the promise that main relies on.
THEOREM Refinement == Spec => GatewayPromise
<1> QED
  BY InitPromise, NextPromise, Invariance, PTL
     DEF Spec, GatewayPromise, Promise!Spec

=============================================================================
