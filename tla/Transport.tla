----------------------------- MODULE Transport -----------------------------
(***************************************************************************)
(* The life of the WebSocket gateway (internal/transport): the server's    *)
(* state machine, the hub's event loop, and the goroutines of every        *)
(* connection, from the accepted TCP connection to connections.Done().     *)
(*                                                                         *)
(* Every action is one step of one goroutine between two points where      *)
(* another goroutine can observe it: a critical section of Server.mu or    *)
(* Connection.mu, a rendezvous on one of the hub's unbuffered channels     *)
(* (a joint step of the caller and of the hub), a close of a channel, or a *)
(* return from a blocking call.  The bytes that travel are left out here;  *)
(* Delivery models the send buffer.                                        *)
(***************************************************************************)
EXTENDS Naturals, FiniteSets

CONSTANTS
  Conns,       \* the TCP connections clients open, each with its goroutines
  Starters,    \* goroutines that call Server.Start
  Stoppers     \* goroutines that call Server.Shutdown themselves

ASSUME ThreadsAssumption == Starters \intersect Stoppers = {}
ASSUME ConnsAssumption   == IsFiniteSet(Conns)

Threads == Starters \union Stoppers

VARIABLES
  state,       \* Server.state
  httpSrv,     \* TRUE once Start has published Server.httpSrv
  listening,   \* the HTTP listener accepts TCP connections
  httpDown,    \* http.Server.Shutdown has been called
  once,        \* Server.shutdownOnce: "free", "busy" or "done"
  tpc,         \* where each goroutine of Threads is
  wg,          \* the counter of Server.connections (a sync.WaitGroup)
  hub,         \* where the hub's goroutine is
  hubArg,      \* the connection it received from h.unregister
  closeAll,    \* h.closeAll is closed
  members,     \* h.connections
  pc,          \* where the HTTP handler, then the run() goroutine, of a connection is
  writer,      \* where its writePump is
  closed,      \* Connection.closed, and Connection.done closed with it
  closer,      \* the goroutine that set closed and has not yet closed the socket
  sockOpen     \* the WebSocket is open on our side

serverVars == <<state, httpSrv, listening, httpDown, once, tpc>>
hubVars    == <<hub, hubArg, closeAll, members>>
sockVars   == <<closed, closer, sockOpen>>
connVars   == <<wg, pc, writer, sockVars>>
vars       == <<serverVars, hubVars, connVars>>

None == "none"

\* Where run() or the handler before it holds a reservation of the WaitGroup.
Registered == {"registered", "reading", "handling", "hubcall", "unregister"}
Holding    == {"upgrading", "registering", "rejecting", "stopping", "waitwriter"}
                \union Registered

TypeOK ==
  /\ state \in {"new", "running", "stopping", "stopped"}
  /\ httpSrv \in BOOLEAN /\ listening \in BOOLEAN /\ httpDown \in BOOLEAN
  /\ once \in {"free", "busy", "done"}
  /\ tpc \in [Threads -> {"start", "refused", "listen", "serving", "shutdown",
                          "mark", "http", "httpwait", "hub", "hubwait",
                          "connwait", "markstopped", "returned"}]
  /\ wg \in Nat
  /\ hub \in {"off", "loop", "drop", "closing", "done"}
  /\ hubArg \in Conns \union {None}
  /\ closeAll \in BOOLEAN
  /\ members \subseteq Conns
  /\ pc \in [Conns -> Holding \union {"idle", "accepted", "refused", "released"}]
  /\ writer \in [Conns -> {None, "running", "stopped", "done"}]
  /\ closed \in [Conns -> BOOLEAN]
  /\ closer \in [Conns -> {None, "conn", "writer", "hub"}]
  /\ sockOpen \in [Conns -> BOOLEAN]

Init ==
  /\ state = "new" /\ httpSrv = FALSE /\ listening = FALSE /\ httpDown = FALSE
  /\ once = "free"
  /\ tpc = [t \in Threads |-> "start"]
  /\ wg = 0
  /\ hub = "off" /\ hubArg = None /\ closeAll = FALSE /\ members = {}
  /\ pc = [c \in Conns |-> "idle"]
  /\ writer = [c \in Conns |-> None]
  /\ closed = [c \in Conns |-> FALSE]
  /\ closer = [c \in Conns |-> None]
  /\ sockOpen = [c \in Conns |-> FALSE]

-----------------------------------------------------------------------------
(* Connection.stop: the first caller sets closed and closes done under the  *)
(* connection's lock, releases the lock and then closes the socket          *)
(* (CloseSocket); every later caller returns at once, also when the first   *)
(* has not closed the socket yet.                                           *)

\* mutant: done is closed and the socket left open
StopKeepsSocket(c, agent) ==
  /\ closed' = [closed EXCEPT ![c] = TRUE]
  /\ UNCHANGED <<closer, sockOpen>>

Stop(c, agent) ==
  IF closed[c]
    THEN UNCHANGED sockVars
    ELSE /\ closed' = [closed EXCEPT ![c] = TRUE]
         /\ closer' = [closer EXCEPT ![c] = agent]
         /\ UNCHANGED sockOpen

CloseSocket(c) ==
  /\ closer[c] # None
  /\ closer' = [closer EXCEPT ![c] = None]
  /\ sockOpen' = [sockOpen EXCEPT ![c] = FALSE]
  /\ UNCHANGED <<serverVars, hubVars, wg, pc, writer, closed>>

\* A goroutine in the middle of stop() does nothing else.
HubFree == \A c \in Conns : closer[c] # "hub"

\* h.start(), which every entry point of the hub calls first.
HubStarted == IF hub = "off" THEN "loop" ELSE hub

\* The two channels besides its own that a caller of the hub selects on.
HubIsClosing == closeAll \/ hub = "done"

-----------------------------------------------------------------------------
(* Server.Start                                                            *)

StartServer(t) ==
  /\ t \in Starters /\ tpc[t] = "start"
  /\ \/ /\ state = "new"
        /\ state' = "running" /\ httpSrv' = TRUE
        /\ hub' = HubStarted
        /\ tpc' = [tpc EXCEPT ![t] = "listen"]
     \/ /\ state # "new"          \* ErrServerClosed or errServerAlreadyStarted
        /\ tpc' = [tpc EXCEPT ![t] = "refused"]
        /\ UNCHANGED <<state, httpSrv, hub>>
  /\ UNCHANGED <<listening, httpDown, once, hubArg, closeAll, members, connVars>>

\* ListenAndServe binds, unless the server was shut down in between or the bind fails.
Listen(t) ==
  /\ tpc[t] = "listen"
  /\ \/ /\ ~httpDown
        /\ listening' = TRUE
        /\ tpc' = [tpc EXCEPT ![t] = "serving"]
     \/ /\ tpc' = [tpc EXCEPT ![t] = "shutdown"]
        /\ UNCHANGED listening
  /\ UNCHANGED <<state, httpSrv, httpDown, once, hubVars, connVars>>

\* ListenAndServe returns: after Shutdown, or by an accept error at any time.
ServeReturns(t) ==
  /\ tpc[t] = "serving"
  /\ listening' = FALSE
  /\ tpc' = [tpc EXCEPT ![t] = "shutdown"]
  /\ UNCHANGED <<state, httpSrv, httpDown, once, hubVars, connVars>>

-----------------------------------------------------------------------------
(* Server.Shutdown                                                          *)

\* Somebody, the signal handler of main say, calls Shutdown.
CallShutdown(t) ==
  /\ t \in Stoppers /\ tpc[t] = "start"
  /\ tpc' = [tpc EXCEPT ![t] = "shutdown"]
  /\ UNCHANGED <<state, httpSrv, listening, httpDown, once, hubVars, connVars>>

\* mutant: a second caller does not wait for the first
EnterOnceLeaves(t) ==
  /\ tpc[t] = "shutdown"
  /\ \/ once = "free" /\ once' = "busy" /\ tpc' = [tpc EXCEPT ![t] = "mark"]
     \/ once # "free" /\ tpc' = [tpc EXCEPT ![t] = "returned"] /\ UNCHANGED once
  /\ UNCHANGED <<state, httpSrv, listening, httpDown, hubVars, connVars>>

\* shutdownOnce.Do: the first caller runs the body, the others wait for its end.
EnterOnce(t) ==
  /\ tpc[t] = "shutdown"
  /\ \/ /\ once = "free"
        /\ once' = "busy"
        /\ tpc' = [tpc EXCEPT ![t] = "mark"]
     \/ /\ once = "done"
        /\ tpc' = [tpc EXCEPT ![t] = "returned"]
        /\ UNCHANGED once
  /\ UNCHANGED <<state, httpSrv, listening, httpDown, hubVars, connVars>>

\* The first critical section.  Its test for serverStopped can never hold: only
\* the end of this same body, which runs once, sets that state.
MarkStopping(t) ==
  /\ tpc[t] = "mark"
  /\ state' = "stopping"
  /\ tpc' = [tpc EXCEPT ![t] = IF httpSrv THEN "http" ELSE "hub"]
  /\ UNCHANGED <<httpSrv, listening, httpDown, once, hubVars, connVars>>

HttpShutdown(t) ==
  /\ tpc[t] = "http"
  /\ listening' = FALSE /\ httpDown' = TRUE
  /\ tpc' = [tpc EXCEPT ![t] = "httpwait"]
  /\ UNCHANGED <<state, httpSrv, once, hubVars, connVars>>

\* httpSrv.Shutdown returns: its requests have ended (a hijacked connection does
\* not count) or the 5 second context has expired; the error is only logged.
HttpShutdownReturns(t) ==
  /\ tpc[t] = "httpwait"
  /\ tpc' = [tpc EXCEPT ![t] = "hub"]
  /\ UNCHANGED <<state, httpSrv, listening, httpDown, once, hubVars, connVars>>

\* hub.Shutdown: start the loop if nobody did, close closeAll, wait for done.
HubShutdown(t) ==
  /\ tpc[t] = "hub"
  /\ hub' = HubStarted
  /\ closeAll' = TRUE
  /\ tpc' = [tpc EXCEPT ![t] = "hubwait"]
  /\ UNCHANGED <<state, httpSrv, listening, httpDown, once, hubArg, members, connVars>>

HubShutdownReturns(t) ==
  /\ tpc[t] = "hubwait" /\ hub = "done"
  /\ tpc' = [tpc EXCEPT ![t] = "connwait"]
  /\ UNCHANGED <<state, httpSrv, listening, httpDown, once, hubVars, connVars>>

\* mutant: Shutdown does not wait for the connections
ConnectionsNotDrained(t) ==
  /\ tpc[t] = "connwait"
  /\ tpc' = [tpc EXCEPT ![t] = "markstopped"]
  /\ UNCHANGED <<state, httpSrv, listening, httpDown, once, hubVars, connVars>>

\* s.connections.Wait()
ConnectionsDrained(t) ==
  /\ tpc[t] = "connwait" /\ wg = 0
  /\ tpc' = [tpc EXCEPT ![t] = "markstopped"]
  /\ UNCHANGED <<state, httpSrv, listening, httpDown, once, hubVars, connVars>>

MarkStopped(t) ==
  /\ tpc[t] = "markstopped"
  /\ state' = "stopped" /\ once' = "done"
  /\ tpc' = [tpc EXCEPT ![t] = "returned"]
  /\ UNCHANGED <<httpSrv, listening, httpDown, hubVars, connVars>>

-----------------------------------------------------------------------------
(* Server.handleWebSocket                                                   *)

\* A client connects; its upgrade request may come at any time after.
Accept(c) ==
  /\ listening /\ pc[c] = "idle"
  /\ pc' = [pc EXCEPT ![c] = "accepted"]
  /\ UNCHANGED <<serverVars, hubVars, wg, writer, sockVars>>

\* mutant: the test of the state is dropped
ReserveUnguarded(c) ==
  /\ pc[c] = "accepted"
  /\ wg' = wg + 1
  /\ pc' = [pc EXCEPT ![c] = "upgrading"]
  /\ UNCHANGED <<serverVars, hubVars, writer, sockVars>>

\* reserveConnection: the test of the state and wg.Add(1) under Server.mu.
Reserve(c) ==
  /\ pc[c] = "accepted"
  /\ \/ /\ state = "running"
        /\ wg' = wg + 1
        /\ pc' = [pc EXCEPT ![c] = "upgrading"]
     \/ /\ state # "running"
        /\ pc' = [pc EXCEPT ![c] = "refused"]
        /\ UNCHANGED wg
  /\ UNCHANGED <<serverVars, hubVars, writer, sockVars>>

\* mutant: the deferred Done on top of an explicit one
UpgradeFailsDoneTwice(c) ==
  /\ pc[c] = "upgrading"
  /\ pc' = [pc EXCEPT ![c] = "released"]
  /\ wg' = wg - 2
  /\ UNCHANGED <<serverVars, hubVars, writer, sockVars>>

\* mutant: an early return that does not give the reservation back
UpgradeFailsNoDone(c) ==
  /\ pc[c] = "upgrading"
  /\ pc' = [pc EXCEPT ![c] = "released"]
  /\ UNCHANGED <<serverVars, hubVars, wg, writer, sockVars>>

UpgradeFails(c) ==
  /\ pc[c] = "upgrading"
  /\ pc' = [pc EXCEPT ![c] = "released"]
  /\ wg' = wg - 1
  /\ UNCHANGED <<serverVars, hubVars, writer, sockVars>>

Upgrade(c) ==
  /\ pc[c] = "upgrading"
  /\ pc' = [pc EXCEPT ![c] = "registering"]
  /\ sockOpen' = [sockOpen EXCEPT ![c] = TRUE]
  /\ UNCHANGED <<serverVars, hubVars, wg, writer, closed, closer>>

\* hub.Register: the rendezvous on h.register.  A Go select takes any of its ready
\* cases, so it may still happen after closeAll is closed.
Register(c) ==
  /\ pc[c] = "registering"
  /\ hub = "loop" /\ HubFree
  /\ members' = members \union {c}
  /\ pc' = [pc EXCEPT ![c] = "registered"]
  /\ UNCHANGED <<serverVars, hub, hubArg, closeAll, wg, writer, sockVars>>

\* mutant: the result of hub.Register is ignored
RegisterRefusedIgnored(c) ==
  /\ pc[c] = "registering" /\ HubIsClosing
  /\ pc' = [pc EXCEPT ![c] = "registered"]
  /\ UNCHANGED <<serverVars, hubVars, wg, writer, sockVars>>

\* hub.Register returns false; handleWebSocket stops the connection ...
RegisterRefused(c) ==
  /\ pc[c] = "registering" /\ HubIsClosing
  /\ pc' = [pc EXCEPT ![c] = "rejecting"]
  /\ Stop(c, "conn")
  /\ UNCHANGED <<serverVars, hubVars, wg, writer>>

\* ... and its deferred function gives the reservation back.
Rejected(c) ==
  /\ pc[c] = "rejecting" /\ closer[c] # "conn"
  /\ pc' = [pc EXCEPT ![c] = "released"]
  /\ wg' = wg - 1
  /\ UNCHANGED <<serverVars, hubVars, writer, sockVars>>

\* go c.run(): the goroutine takes the reservation over and starts its writePump.
Run(c) ==
  /\ pc[c] = "registered"
  /\ pc' = [pc EXCEPT ![c] = "reading"]
  /\ writer' = [writer EXCEPT ![c] = "running"]
  /\ UNCHANGED <<serverVars, hubVars, wg, sockVars>>

-----------------------------------------------------------------------------
(* Connection.readPump, then the end of run                                 *)

\* ReadMessage returns a frame, a buffered one also after the socket was closed,
\* and the kernel's Dispatch runs its handler on this goroutine.
ReadFrame(c) ==
  /\ pc[c] = "reading"
  /\ pc' = [pc EXCEPT ![c] = "handling"]
  /\ UNCHANGED <<serverVars, hubVars, wg, writer, sockVars>>

\* The handler calls Broadcast, PushToUID or OnlineCount (the GM commands do).
CallHub(c) ==
  /\ pc[c] = "handling"
  /\ pc' = [pc EXCEPT ![c] = "hubcall"]
  /\ UNCHANGED <<serverVars, hubVars, wg, writer, sockVars>>

\* The call meets the hub's loop, which answers on a channel of capacity one.
HubServes(c) ==
  /\ pc[c] = "hubcall"
  /\ hub = "loop" /\ HubFree
  /\ pc' = [pc EXCEPT ![c] = "handling"]
  /\ UNCHANGED <<serverVars, hubVars, wg, writer, sockVars>>

\* mutant: the call selects on the hub's channel alone
HubCallNeverAborts(c) == FALSE /\ UNCHANGED vars

HubCallAborts(c) ==
  /\ pc[c] = "hubcall" /\ HubIsClosing
  /\ pc' = [pc EXCEPT ![c] = "handling"]
  /\ UNCHANGED <<serverVars, hubVars, wg, writer, sockVars>>

\* Dispatch returns nil: every later error has been answered or logged.
HandlerReturns(c) ==
  /\ pc[c] = "handling"
  /\ pc' = [pc EXCEPT ![c] = "reading"]
  /\ UNCHANGED <<serverVars, hubVars, wg, writer, sockVars>>

\* The loop ends: our side closed the socket, the client went away, no pong came
\* before the read deadline, or Dispatch found a frame that does not decode or
\* carries seq 0 (ErrFatalProtocol).
ReadEnds(c) ==
  /\ pc[c] = "reading"
  /\ pc' = [pc EXCEPT ![c] = "unregister"]
  /\ UNCHANGED <<serverVars, hubVars, wg, writer, sockVars>>

\* hub.Unregister: the rendezvous on h.unregister, then sess.Close().
Unregister(c) ==
  /\ pc[c] = "unregister"
  /\ hub = "loop" /\ HubFree
  /\ hub' = "drop" /\ hubArg' = c
  /\ pc' = [pc EXCEPT ![c] = "stopping"]
  /\ UNCHANGED <<serverVars, closeAll, members, wg, writer, sockVars>>

\* mutant: Unregister sends to the hub without the other two cases
UnregisterNeverAborts(c) == FALSE /\ UNCHANGED vars

UnregisterAborts(c) ==
  /\ pc[c] = "unregister" /\ HubIsClosing
  /\ pc' = [pc EXCEPT ![c] = "stopping"]
  /\ UNCHANGED <<serverVars, hubVars, wg, writer, sockVars>>

\* The deferred c.stop() of readPump; the one run() calls next finds closed set.
ReaderStops(c) ==
  /\ pc[c] = "stopping"
  /\ pc' = [pc EXCEPT ![c] = "waitwriter"]
  /\ Stop(c, "conn")
  /\ UNCHANGED <<serverVars, hubVars, wg, writer>>

\* <-writerDone, then the deferred connections.Done().
RunReturns(c) ==
  /\ pc[c] = "waitwriter" /\ closer[c] # "conn"
  /\ writer[c] = "done"
  /\ pc' = [pc EXCEPT ![c] = "released"]
  /\ wg' = wg - 1
  /\ UNCHANGED <<serverVars, hubVars, writer, sockVars>>

-----------------------------------------------------------------------------
(* Connection.writePump                                                     *)

\* It returns because done is closed, or because a write or a ping failed, which
\* may happen at any time; its deferred function calls c.stop().
WriterStops(c) ==
  /\ writer[c] = "running"
  /\ writer' = [writer EXCEPT ![c] = "stopped"]
  /\ Stop(c, "writer")
  /\ UNCHANGED <<serverVars, hubVars, wg, pc>>

WriterExits(c) ==
  /\ writer[c] = "stopped" /\ closer[c] # "writer"
  /\ writer' = [writer EXCEPT ![c] = "done"]
  /\ UNCHANGED <<serverVars, hubVars, wg, pc, sockVars>>

-----------------------------------------------------------------------------
(* Hub.run                                                                  *)

\* mutant: the connection is stopped and stays in the map
HubDropKeeps ==
  /\ hub = "drop"
  /\ hub' = "loop" /\ hubArg' = None
  /\ IF hubArg \in members THEN Stop(hubArg, "hub") ELSE UNCHANGED sockVars
  /\ UNCHANGED <<serverVars, closeAll, members, wg, pc, writer>>

\* case <-h.unregister, after the rendezvous: a no-op for a connection it no
\* longer has.
HubDrop ==
  /\ hub = "drop"
  /\ hub' = "loop" /\ hubArg' = None
  /\ members' = members \ {hubArg}
  /\ IF hubArg \in members THEN Stop(hubArg, "hub") ELSE UNCHANGED sockVars
  /\ UNCHANGED <<serverVars, closeAll, wg, pc, writer>>

\* case <-h.closeAll
HubCloses ==
  /\ hub = "loop" /\ HubFree /\ closeAll
  /\ hub' = "closing"
  /\ UNCHANGED <<serverVars, hubArg, closeAll, members, connVars>>

HubStops(c) ==
  /\ hub = "closing" /\ HubFree
  /\ c \in members
  /\ members' = members \ {c}
  /\ Stop(c, "hub")
  /\ UNCHANGED <<serverVars, hub, hubArg, closeAll, wg, pc, writer>>

HubExits ==
  /\ hub = "closing" /\ HubFree
  /\ members = {}
  /\ hub' = "done"
  /\ UNCHANGED <<serverVars, hubArg, closeAll, members, connVars>>

-----------------------------------------------------------------------------
StartStep(t) == StartServer(t) \/ Listen(t) \/ ServeReturns(t)

ShutdownStep(t) ==
  \/ EnterOnce(t) \/ MarkStopping(t) \/ HttpShutdown(t) \/ HttpShutdownReturns(t)
  \/ HubShutdown(t) \/ HubShutdownReturns(t) \/ ConnectionsDrained(t) \/ MarkStopped(t)

HandshakeStep(c) ==
  \/ UpgradeFails(c) \/ Upgrade(c) \/ Register(c)
  \/ RegisterRefused(c) \/ Rejected(c) \/ Run(c)

ReaderStep(c) ==
  \/ ReadFrame(c) \/ CallHub(c) \/ HubServes(c) \/ HubCallAborts(c)
  \/ HandlerReturns(c) \/ ReadEnds(c)
  \/ Unregister(c) \/ UnregisterAborts(c) \/ ReaderStops(c) \/ RunReturns(c)

WriterStep(c) == WriterStops(c) \/ WriterExits(c)

HubStep == HubDrop \/ HubCloses \/ HubExits \/ \E c \in Conns : HubStops(c)

\* Everything has ended: the process may now exit.
Terminated ==
  /\ \A t \in Threads : tpc[t] \in {"returned", "refused"}
  /\ \A c \in Conns : pc[c] \in {"idle", "refused", "released"}
  /\ UNCHANGED vars

Next ==
  \/ \E t \in Threads : StartStep(t) \/ CallShutdown(t) \/ ShutdownStep(t)
  \/ \E c \in Conns :
       \/ Accept(c) \/ Reserve(c) \/ HandshakeStep(c) \/ ReaderStep(c) \/ WriterStep(c)
       \/ CloseSocket(c)
  \/ HubStep
  \/ Terminated

Spec == Init /\ [][Next]_vars

-----------------------------------------------------------------------------
(* What the Go scheduler and the code guarantee.  Goroutines that can run do  *)
(* run.  Not assumed: that anybody calls Start or Shutdown, that a client     *)
(* connects, sends its upgrade request or leaves, that a write fails.  Frames *)
(* buffered before the socket was closed are finitely many, and a handler     *)
(* makes finitely many calls before it returns: hence the two SF.             *)

Fairness ==
  /\ \A t \in Threads :
       WF_vars(Listen(t) \/ (httpDown /\ ServeReturns(t)) \/ ShutdownStep(t))
  /\ \A c \in Conns :
       /\ WF_vars(HandshakeStep(c) \/ (ReaderStep(c) /\ pc[c] # "reading"))
       /\ SF_vars(HandlerReturns(c))
       /\ SF_vars(~sockOpen[c] /\ ReadEnds(c))
       /\ WF_vars((closed[c] /\ WriterStops(c)) \/ WriterExits(c))
       /\ WF_vars(CloseSocket(c))
  /\ WF_vars(HubStep)

FairSpec == Spec /\ Fairness

-----------------------------------------------------------------------------
(* Safety                                                                     *)

\* No goroutine of a connection is left, no socket is open, the hub has ended.
Drained ==
  /\ \A c \in Conns : /\ pc[c] \notin Holding
                      /\ writer[c] \in {None, "done"}
                      /\ ~sockOpen[c]
  /\ hub = "done" /\ members = {}

\* A call of Shutdown, the first or a concurrent one that waits for it, and the
\* Shutdown at the end of Start, return only when everything is drained: main
\* closes the stores after it (server.go 141-167).
ShutdownDrains == \A t \in Threads : tpc[t] = "returned" => state = "stopped" /\ Drained

\* A connection whose registration races the close of the hub is not forgotten:
\* once the hub has ended, every connection with a reader has been stopped
\* (Hub.run 113-120 against Hub.Register 143-153).
NoOrphanConnection ==
  hub = "done" => \A c \in Conns : pc[c] \in Registered => closed[c]

\* While the hub is not closing, a connection whose reader has ended is not kept
\* in the hub's map (Hub.run 79-87), so OnlineCount does not count it for ever.
NoStaleMember ==
  \A c \in members :
    pc[c] \in {"stopping", "waitwriter", "released"} =>
      closeAll \/ (hub = "drop" /\ hubArg = c)

\* When the goroutines of a connection have ended, its socket is closed or the
\* hub is on its way to close it (Connection.stop 128-140 with its three callers).
SocketNotLeaked ==
  \A c \in Conns : pc[c] = "released" /\ sockOpen[c] => closer[c] = "hub"

\* The contract of sync.WaitGroup: no Add runs concurrently with the Wait of
\* Shutdown, whatever requests are still in flight (reserveConnection 125-133).
NoAddDuringWait ==
  [][(\E t \in Threads : tpc[t] \in {"connwait", "markstopped"}) => wg' <= wg]_vars

\* The hub forgets a connection that has ended, and its socket is closed.
NoLeak == NoStaleMember /\ SocketNotLeaked

\* The reservations that are held, and the callers to whom Shutdown has returned.
HoldingConns == {c \in Conns : pc[c] \in Holding}
Returned     == {t \in Threads : tpc[t] = "returned"}

Promise == INSTANCE Gateway WITH Callers <- Threads, phase <- state,
                                 live <- HoldingConns, back <- Returned

\* What the process relies on: a connection is admitted only while the server runs, and
\* a call of Shutdown returns, as the first or a later one, only when none is left.
GatewayPromise == Promise!Spec

\* The body of shutdownOnce.Do, before and after state is set to stopping.
AfterMark == {"http", "httpwait", "hub", "hubwait", "connwait", "markstopped"}
Body      == AfterMark \union {"mark"}

\* The hub has a step to take that needs no caller: it is dropping a connection, closing
\* all of them, about to see closeAll, or closing a socket.
HubMoves ==
  \/ hub \in {"drop", "closing"}
  \/ hub = "loop" /\ (closeAll \/ ~HubFree)

\* So has a goroutine of the connection, whatever its client does.
Moves(c) ==
  \/ pc[c] \in {"upgrading", "registered", "handling", "stopping"}
  \/ /\ pc[c] \in {"registering", "hubcall", "unregister"}
     /\ HubIsClosing \/ (hub = "loop" /\ HubFree)
  \/ pc[c] = "reading" /\ ~sockOpen[c]
  \/ pc[c] = "rejecting" /\ closer[c] # "conn"
  \/ pc[c] = "waitwriter" /\ closer[c] # "conn" /\ writer[c] = "done"
  \/ writer[c] = "running" /\ closed[c]
  \/ writer[c] = "stopped" /\ closer[c] # "writer"
  \/ closer[c] # None

\* Nobody waits in a circle.  Unless it waits for its client, a connection or the hub it
\* needs can go on; and what a caller of Shutdown waits for goes on: the first caller, the
\* hub, then every connection that is left, the idle one too, whose socket is closed
\* (server.go 141-167, hub.go 113-120, connection.go 128-151).
NoCircularWait ==
  /\ \A c \in Conns : pc[c] \in Holding =>
       Moves(c) \/ HubMoves \/ (pc[c] = "reading" /\ ~closed[c])
  /\ \A t \in Threads :
       /\ tpc[t] = "shutdown" /\ once = "busy" => \E u \in Threads : tpc[u] \in Body
       /\ tpc[t] = "hubwait" /\ hub # "done" => HubMoves
       /\ tpc[t] = "connwait" /\ wg # 0 =>
            HoldingConns # {} /\ \A c \in HoldingConns : Moves(c)

(* Liveness                                                                   *)

\* A shutdown that has begun ends, for every caller (server.go 141-167).
ShutdownTerminates ==
  \A t \in Threads : tpc[t] \in {"shutdown", "mark"} ~> tpc[t] = "returned"

\* A connection that was stopped, or whose reader has ended, leaves nothing behind.
ConnectionCleanup ==
  \A c \in Conns : (closed[c] \/ pc[c] = "unregister") ~>
    (pc[c] = "released" /\ ~sockOpen[c] /\ c \notin members)

\* A handler that calls the hub from inside readPump is always answered: the hub
\* never waits for a connection, so the two cannot wait for each other.
HubCallsReturn == \A c \in Conns : pc[c] = "hubcall" ~> pc[c] # "hubcall"

=============================================================================
