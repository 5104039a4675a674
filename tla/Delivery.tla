------------------------------ MODULE Delivery ------------------------------
(***************************************************************************)
(* What happens to a frame between the socket and the socket: readPump     *)
(* reads it, Kernel.Dispatch decodes it, runs the hooks (hooks.Auth, then  *)
(* hooks.RateLimit) and the handler, and the answer goes through the       *)
(* connection's bounded queue to writePump, together with the pushes of    *)
(* the hub.  Requests of a connection are handled one after the other,     *)
(* those of different connections of a player at the same time, against    *)
(* one session and one counter in Redis.                                   *)
(*                                                                         *)
(* Transport models the goroutines' life; of it only the flag closed and   *)
(* the ends of the two pumps are needed here.                              *)
(***************************************************************************)
EXTENDS Naturals, Sequences

CONSTANTS
  Conns,
  Players,
  Owner,         \* the player whose credentials each client has
  Sends,         \* the kinds of frames that clients send
  BufSize,       \* sendBufSize
  Limit,         \* requests of a player in one window
  MaxRequests,   \* bound on the frames a client sends
  MaxPushes      \* bound on the hub's broadcasts

ASSUME OwnerAssumption == Owner \in [Conns -> Players]
ASSUME SizesAssumption ==
  BufSize \in Nat \ {0} /\ Limit \in Nat /\ MaxRequests \in Nat /\ MaxPushes \in Nat

\* What Dispatch tells apart: a text message, a frame that Decode refuses, one with
\* seq 0, a type without a handler, a body that does not parse, the two messages
\* registered as AuthFree and all others, which need a login.
Kinds    == {"text", "broken", "noseq", "unknown", "garbled", "login", "heartbeat", "play"}
Fatal    == {"broken", "noseq"}
BadInput == {"unknown", "garbled"}
AuthFree == {"login", "heartbeat"}

ASSUME SendsAssumption == Sends \subseteq Kinds

None    == "none"
Frames  == [seq : Nat, kind : Kinds \union {None}]
NoFrame == [seq |-> 0, kind |-> None]

\* Frames to the client: the response, an error of the handler (or one that the
\* kernel found in the frame), a refusal by a hook, or a push.
Bodies  == {"response", "error", "refused", "push"}
Answers == [seq : Nat, body : Bodies]

VARIABLES
  sent,       \* how many frames the client has sent
  inbox,      \* frames in the socket
  pc,         \* where readPump and Dispatch are
  frame,      \* the frame in hand
  body,       \* what the answer to it will be
  uid,        \* Session.uid
  queue,      \* Connection.send
  wire,       \* frames written to the socket
  closed,     \* Connection.closed
  writing,    \* writePump runs
  session,    \* players whose session is in Redis
  count,      \* the rate counter of each player in Redis, 0 when there is none
  ttl,        \* whether it has a time to live
  pushes,     \* broadcasts so far
  asked,      \* the seq of each request that Dispatch accepted
  ran,        \* those whose handler ran
  lost        \* those whose answer could not be encoded or found the queue full

socket  == <<sent, inbox>>
reader  == <<pc, frame, body, uid>>
outward == <<queue, wire, closed, writing, pushes>>
redis   == <<session, count, ttl>>
history == <<asked, ran, lost>>
vars    == <<socket, reader, outward, redis, history>>

TypeOK ==
  /\ sent \in [Conns -> 0..MaxRequests]
  /\ inbox \in [Conns -> Seq(Frames)]
  /\ pc \in [Conns -> {"reading", "auth", "limit", "handler", "finish", "ended", "stopped"}]
  /\ frame \in [Conns -> Frames]
  /\ body \in [Conns -> Bodies \union {None}]
  /\ uid \in [Conns -> Players \union {None}]
  /\ queue \in [Conns -> Seq(Answers)]
  /\ \A c \in Conns : Len(queue[c]) <= BufSize
  /\ wire \in [Conns -> Seq(Answers)]
  /\ closed \in [Conns -> BOOLEAN]
  /\ writing \in [Conns -> BOOLEAN]
  /\ session \subseteq Players
  /\ count \in [Players -> Nat]
  /\ ttl \in [Players -> BOOLEAN]
  /\ pushes \in 0..MaxPushes
  /\ asked \in [Conns -> SUBSET Nat]
  /\ ran \in [Conns -> SUBSET Nat]
  /\ lost \in [Conns -> SUBSET Nat]

Init ==
  /\ sent = [c \in Conns |-> 0]
  /\ inbox = [c \in Conns |-> <<>>]
  /\ pc = [c \in Conns |-> "reading"]
  /\ frame = [c \in Conns |-> NoFrame]
  /\ body = [c \in Conns |-> None]
  /\ uid = [c \in Conns |-> None]
  /\ queue = [c \in Conns |-> <<>>]
  /\ wire = [c \in Conns |-> <<>>]
  /\ closed = [c \in Conns |-> FALSE]
  /\ writing = [c \in Conns |-> TRUE]
  /\ session = {}
  /\ count = [p \in Players |-> 0]
  /\ ttl = [p \in Players |-> FALSE]
  /\ pushes = 0
  /\ asked = [c \in Conns |-> {}]
  /\ ran = [c \in Conns |-> {}]
  /\ lost = [c \in Conns |-> {}]

-----------------------------------------------------------------------------
(* The client                                                                *)

\* Clients number their requests from 1; seq 0 is a violation of the protocol.
ClientSends(c, kind) ==
  LET n == sent[c] + 1
  IN  /\ sent[c] < MaxRequests
      /\ sent' = [sent EXCEPT ![c] = n]
      /\ inbox' = [inbox EXCEPT ![c] =
                     Append(@, [seq |-> IF kind = "noseq" THEN 0 ELSE n, kind |-> kind])]
      /\ UNCHANGED <<reader, outward, redis, history>>

-----------------------------------------------------------------------------
(* readPump and Dispatch                                                     *)

Goto(c, from, to) == pc[c] = from /\ pc' = [pc EXCEPT ![c] = to]

\* The next frame, of one of these kinds, leaves the socket.
Takes(c, kinds) ==
  /\ inbox[c] # <<>>
  /\ Head(inbox[c]).kind \in kinds
  /\ inbox' = [inbox EXCEPT ![c] = Tail(@)]
  /\ UNCHANGED sent

\* What the answer to the request in hand will be.
Answer(c, with) == body' = [body EXCEPT ![c] = with]

ReadText(c) ==
  /\ pc[c] = "reading" /\ Takes(c, {"text"})
  /\ UNCHANGED <<reader, outward, redis, history>>

\* Decode fails or seq is 0: ErrFatalProtocol ends the loop, without an answer.
ReadFatal(c) ==
  /\ Goto(c, "reading", "ended") /\ Takes(c, Fatal)
  /\ UNCHANGED <<frame, body, uid, outward, redis, history>>

\* A request is accepted: its seq is to be answered.
Accepts(c, kinds) ==
  /\ Takes(c, kinds)
  /\ frame' = [frame EXCEPT ![c] = Head(inbox[c])]
  /\ asked' = [asked EXCEPT ![c] = @ \union {Head(inbox[c]).seq}]
  /\ UNCHANGED <<uid, outward, redis, ran, lost>>

\* mutant: the branch for a bad body returns without sending the error
ReadBadInputSilently(c) ==
  /\ pc[c] = "reading"
  /\ Takes(c, BadInput)
  /\ asked' = [asked EXCEPT ![c] = @ \union {Head(inbox[c]).seq}]
  /\ UNCHANGED <<reader, outward, redis, ran, lost>>

\* The type has no handler or the body does not parse: an error.
ReadBadInput(c) ==
  Accepts(c, BadInput) /\ Goto(c, "reading", "finish") /\ Answer(c, "error")

\* Both hooks let the AuthFree messages through.
ReadAuthFree(c) ==
  Accepts(c, AuthFree) /\ Goto(c, "reading", "handler") /\ UNCHANGED body

ReadProtected(c) ==
  Accepts(c, {"play"}) /\ Goto(c, "reading", "auth") /\ UNCHANGED body

Full(c) == Len(queue[c]) = BufSize

\* mutant: the queue is not bounded
EnqueuedUnbounded(c, a) ==
  IF closed[c] THEN queue[c] ELSE Append(queue[c], a)

\* Connection.enqueue, for a reply and for a push.
Enqueued(c, a) ==
  IF closed[c] \/ Full(c) THEN queue[c] ELSE Append(queue[c], a)

\* mutant: a hook's error is sent but does not end Dispatch
AuthGoesOn(c) ==
  /\ Goto(c, "auth", "handler")
  /\ \/ /\ uid[c] = None
        /\ queue' = [queue EXCEPT ![c] = Enqueued(c, [seq |-> frame[c].seq, body |-> "refused"])]
     \/ uid[c] # None /\ UNCHANGED queue
  /\ UNCHANGED <<frame, body, uid, wire, closed, writing, pushes, socket, redis, history>>

\* hooks.Auth: no login on this connection, no session in Redis, or let through;
\* a failing Redis lets through too.
Auth(c) ==
  /\ \/ /\ uid[c] = None \/ uid[c] \notin session
        /\ Goto(c, "auth", "finish") /\ Answer(c, "refused")
     \/ uid[c] # None /\ Goto(c, "auth", "limit") /\ UNCHANGED body
  /\ UNCHANGED <<frame, uid, socket, outward, redis, history>>

\* mutant: INCR and EXPIRE are two commands, of which the second may be lost
IncrThenExpire(p) ==
  /\ count' = [count EXCEPT ![p] = IF @ > Limit THEN @ ELSE @ + 1]
  /\ \/ ttl' = [ttl EXCEPT ![p] = @ \/ count[p] = 0]
     \/ UNCHANGED ttl

\* The script of CheckRateLimit: INCR, with EXPIRE when the counter is new.  Above
\* Limit + 1 the value makes no difference (the model stops counting there).
Increment(p) ==
  /\ count' = [count EXCEPT ![p] = IF @ > Limit THEN @ ELSE @ + 1]
  /\ ttl' = [ttl EXCEPT ![p] = @ \/ count[p] = 0]

\* hooks.RateLimit, for a connection that is bound; a failing Redis lets through.
RateLimit(c) ==
  /\ pc[c] = "limit"
  /\ \/ /\ Increment(uid[c])
        /\ \/ count[uid[c]] < Limit /\ Goto(c, "limit", "handler") /\ UNCHANGED body
           \/ count[uid[c]] >= Limit /\ Goto(c, "limit", "finish") /\ Answer(c, "refused")
     \/ Goto(c, "limit", "handler") /\ UNCHANGED <<body, count, ttl>>
  /\ UNCHANGED <<frame, uid, session, socket, outward, history>>

\* The handler runs and returns a response or an error.  A login stores the session
\* and binds the connection; a heartbeat of a bound connection stores the session
\* again.  An error may come before or after the session was stored.
Handle(c) ==
  /\ Goto(c, "handler", "finish")
  /\ ran' = [ran EXCEPT ![c] = @ \union {frame[c].seq}]
  /\ \E ok \in BOOLEAN :
       /\ Answer(c, IF ok THEN "response" ELSE "error")
       /\ uid' = IF ok /\ frame[c].kind = "login" THEN [uid EXCEPT ![c] = Owner[c]] ELSE uid
       /\ \/ /\ ~ok \/ frame[c].kind = "play" \/ uid'[c] = None
             /\ UNCHANGED session
          \/ /\ frame[c].kind = "login" \/ (frame[c].kind = "heartbeat" /\ uid[c] # None)
             /\ session' = session \union {Owner[c]}
  /\ UNCHANGED <<frame, count, ttl, socket, outward, asked, lost>>

\* finish, sendError, sendMessage: a response beyond MaxFrameSize is not sent, a
\* full queue drops the answer, and either way the loop goes on.
Finish(c) ==
  /\ Goto(c, "finish", "reading")
  /\ \/ /\ queue' = [queue EXCEPT ![c] = Enqueued(c, [seq |-> frame[c].seq, body |-> body[c]])]
        /\ lost' = IF Full(c) THEN [lost EXCEPT ![c] = @ \union {frame[c].seq}] ELSE lost
     \/ /\ body[c] = "response"
        /\ lost' = [lost EXCEPT ![c] = @ \union {frame[c].seq}]
        /\ UNCHANGED queue
  /\ frame' = [frame EXCEPT ![c] = NoFrame]
  /\ body' = [body EXCEPT ![c] = None]
  /\ UNCHANGED <<uid, wire, closed, writing, pushes, socket, redis, asked, ran>>

\* The client has gone or the socket is closed.
ReadFails(c) ==
  /\ Goto(c, "reading", "ended")
  /\ UNCHANGED <<frame, body, uid, socket, outward, redis, history>>

\* readPump's deferred stop.
ReaderStops(c) ==
  /\ Goto(c, "ended", "stopped")
  /\ closed' = [closed EXCEPT ![c] = TRUE]
  /\ UNCHANGED <<frame, body, uid, queue, wire, writing, pushes, socket, redis, history>>

-----------------------------------------------------------------------------
(* writePump, the hub and Redis                                              *)

\* One frame is written, or the write fails and the connection is stopped.
Write(c) ==
  /\ writing[c] /\ queue[c] # <<>>
  /\ queue' = [queue EXCEPT ![c] = Tail(@)]
  /\ \/ /\ wire' = [wire EXCEPT ![c] = Append(@, Head(queue[c]))]
        /\ UNCHANGED <<closed, writing>>
     \/ /\ writing' = [writing EXCEPT ![c] = FALSE]
        /\ closed' = [closed EXCEPT ![c] = TRUE]
        /\ UNCHANGED wire
  /\ UNCHANGED <<reader, pushes, socket, redis, history>>

\* done is closed: writePump may return although frames are queued.
WriterReturns(c) ==
  /\ writing[c] /\ closed[c]
  /\ writing' = [writing EXCEPT ![c] = FALSE]
  /\ UNCHANGED <<reader, queue, wire, closed, pushes, socket, redis, history>>

\* The hub's loop handles a broadcast, or closes the connection.
Broadcast ==
  /\ pushes < MaxPushes
  /\ pushes' = pushes + 1
  /\ queue' = [c \in Conns |-> Enqueued(c, [seq |-> 0, body |-> "push"])]
  /\ UNCHANGED <<reader, wire, closed, writing, socket, redis, history>>

HubStops(c) ==
  /\ closed' = [closed EXCEPT ![c] = TRUE]
  /\ UNCHANGED <<reader, queue, wire, writing, pushes, socket, redis, history>>

\* Redis removes keys whose time has come.
SessionExpires(p) ==
  /\ session' = session \ {p}
  /\ UNCHANGED <<reader, outward, count, ttl, socket, history>>

WindowEnds(p) ==
  /\ ttl[p]
  /\ count' = [count EXCEPT ![p] = 0]
  /\ ttl' = [ttl EXCEPT ![p] = FALSE]
  /\ UNCHANGED <<reader, outward, session, socket, history>>

-----------------------------------------------------------------------------
ReaderStep(c) ==
  \/ ReadText(c) \/ ReadFatal(c) \/ ReadBadInput(c) \/ ReadAuthFree(c) \/ ReadProtected(c)
  \/ Auth(c) \/ RateLimit(c) \/ Handle(c) \/ Finish(c) \/ ReaderStops(c)

Next ==
  \/ \E c \in Conns :
       \/ \E kind \in Sends : ClientSends(c, kind)
       \/ ReaderStep(c) \/ ReadFails(c) \/ Write(c) \/ WriterReturns(c) \/ HubStops(c)
  \/ Broadcast
  \/ \E p \in Players : SessionExpires(p) \/ WindowEnds(p)

Spec == Init /\ [][Next]_vars

\* The goroutines run, hooks and handlers return, a write ends with success or an
\* error (its deadline is writeWait), and Redis removes expired counters.
Fairness ==
  /\ \A c \in Conns : WF_vars(ReaderStep(c)) /\ WF_vars(Write(c))
  /\ \A p \in Players : WF_vars(WindowEnds(p))

FairSpec == Spec /\ Fairness

-----------------------------------------------------------------------------
(* Safety                                                                    *)

\* All frames to a client, in the order in which they are written.
Out(c) == wire[c] \o queue[c]

\* Whatever the hooks, the handlers and the hub do at the same time: every answer
\* carries the seq of an accepted request, no request is answered twice, answers
\* are in the order of the requests, and a push is never taken for an answer
\* (README 54: "responses and errors echo the exact request seq; pushes use seq 0").
AnswersMatchRequests ==
  \A c \in Conns : \A i \in DOMAIN Out(c) :
    /\ Out(c)[i].seq = 0 <=> Out(c)[i].body = "push"
    /\ Out(c)[i].seq # 0 => Out(c)[i].seq \in asked[c] \ lost[c]
    /\ \A j \in DOMAIN Out(c) :
         (i < j /\ Out(c)[i].seq # 0 /\ Out(c)[j].seq # 0) => Out(c)[i].seq < Out(c)[j].seq

\* A refusal means that nothing was done, a response that the handler ran: the
\* client may send a refused request again (Dispatch 109-113).
RefusedNotRun ==
  \A c \in Conns : \A i \in DOMAIN Out(c) :
    /\ Out(c)[i].body = "refused" => Out(c)[i].seq \notin ran[c]
    /\ Out(c)[i].body = "response" => Out(c)[i].seq \in ran[c]

(* Liveness                                                                  *)

\* An accepted request is answered unless the connection ends, or its answer could
\* not be encoded or found the queue full (connection.go 96-112).
Answered ==
  \A c \in Conns, n \in 1..MaxRequests :
    n \in asked[c] ~>
      \/ closed[c] \/ n \in lost[c]
      \/ \E i \in DOMAIN wire[c] : wire[c][i].seq = n

\* A player who was refused for too many requests is not refused for ever: the
\* counter never stays without a time to live (redis.go 178-189).
NotLockedOut == \A p \in Players : count[p] > Limit ~> count[p] <= Limit

=============================================================================
