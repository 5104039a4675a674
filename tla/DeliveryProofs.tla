--------------------------- MODULE DeliveryProofs ---------------------------
(***************************************************************************)
(* Proofs about Delivery: for any connections, players, requests and sizes *)
(* of the queue, every answer belongs to one accepted request, in order,   *)
(* and a refused request had no effect.                                    *)
(*                                                                         *)
(* The properties speak of what has been sent (Out); to be inductive they  *)
(* need what is still to come: the frames in the socket are numbered above *)
(* all requests accepted so far, and the request in hand is the last one   *)
(* accepted, above all answers, and has not run before its handler does.   *)
(* The other half is NoRequestIsForgotten: on a connection that lives each *)
(* accepted request is in hand, sent, or known to be lost.                 *)
(***************************************************************************)
EXTENDS Delivery, SequenceTheorems, TLAPS

Busy == {"auth", "limit", "handler", "finish"}

\* The parts of the two properties, for a sequence of frames.
Matches(out, seqs) ==
  \A i \in DOMAIN out :
    /\ out[i].seq = 0 <=> out[i].body = "push"
    /\ out[i].seq # 0 => out[i].seq \in seqs
    /\ \A j \in DOMAIN out :
         (i < j /\ out[i].seq # 0 /\ out[j].seq # 0) => out[i].seq < out[j].seq

Effects(out, done) ==
  \A i \in DOMAIN out :
    /\ out[i].body = "refused" => out[i].seq \notin done
    /\ out[i].body = "response" => out[i].seq \in done

Below(out, n) == \A i \in DOMAIN out : out[i].seq < n

\* Frames in the socket are numbered in order, above what was accepted.
InboxInv(c) ==
  \A i \in DOMAIN inbox[c] :
    /\ inbox[c][i].seq <= sent[c]
    /\ inbox[c][i].seq = 0 <=> inbox[c][i].kind = "noseq"
    /\ \A n \in asked[c] : inbox[c][i].seq # 0 => n < inbox[c][i].seq
    /\ \A j \in DOMAIN inbox[c] :
         (i < j /\ inbox[c][i].seq # 0 /\ inbox[c][j].seq # 0) => inbox[c][i].seq < inbox[c][j].seq

\* The request in hand.
HandInv(c) ==
  /\ asked[c] \subseteq 1..sent[c]
  /\ ran[c] \subseteq asked[c]
  /\ lost[c] \subseteq asked[c]
  /\ pc[c] \in Busy =>
       /\ frame[c].seq \in asked[c] \ lost[c]
       /\ \A n \in asked[c] : n <= frame[c].seq
       /\ Below(Out(c), frame[c].seq)
  /\ pc[c] \in {"auth", "limit", "handler"} => frame[c].seq \notin ran[c]
  /\ pc[c] = "finish" =>
       /\ body[c] \in {"response", "error", "refused"}
       /\ body[c] = "refused" => frame[c].seq \notin ran[c]
       /\ body[c] = "response" => frame[c].seq \in ran[c]

OutInv(c) == Matches(Out(c), asked[c] \ lost[c]) /\ Effects(Out(c), ran[c])

Good(c) == InboxInv(c) /\ HandInv(c) /\ OutInv(c)

Inv == TypeOK /\ \A c \in Conns : Good(c)

-----------------------------------------------------------------------------
\* Sequences: one frame added at the end, or one taken out of the middle.
LEMMA OutWritten ==
  ASSUME NEW S, NEW s \in Seq(S), NEW t \in Seq(S), t # <<>>
  PROVE  Append(s, Head(t)) \o Tail(t) = s \o t
<1>1. /\ Head(t) \in S /\ Tail(t) \in Seq(S) /\ Len(Tail(t)) = Len(t) - 1
      /\ \A i \in 1..Len(Tail(t)) : Tail(t)[i] = t[i + 1]
  BY HeadTailProperties
<1>2. /\ Append(s, Head(t)) \in Seq(S) /\ Len(Append(s, Head(t))) = Len(s) + 1
      /\ \A i \in 1..Len(s) : Append(s, Head(t))[i] = s[i]
      /\ Append(s, Head(t))[Len(s) + 1] = Head(t)
  BY <1>1
<1>3. Head(t) = t[1] /\ Len(t) \in Nat \ {0} /\ Len(s) \in Nat
  BY EmptySeq
<1> DEFINE l == Append(s, Head(t)) \o Tail(t)
           r == s \o t
<1>4. /\ l \in Seq(S) /\ Len(l) = Len(s) + 1 + Len(Tail(t))
      /\ \A i \in 1..(Len(s) + 1 + Len(Tail(t))) :
           l[i] = IF i <= Len(s) + 1 THEN Append(s, Head(t))[i] ELSE Tail(t)[i - (Len(s) + 1)]
  BY <1>1, <1>2, ConcatProperties
<1>5. /\ r \in Seq(S) /\ Len(r) = Len(s) + Len(t)
      /\ \A i \in 1..(Len(s) + Len(t)) : r[i] = IF i <= Len(s) THEN s[i] ELSE t[i - Len(s)]
  BY ConcatProperties
<1>6. ASSUME NEW i \in 1..Len(l) PROVE l[i] = r[i]
  <2>1. CASE i <= Len(s)
    BY <1>1, <1>2, <1>3, <1>4, <1>5, <2>1
  <2>2. CASE i = Len(s) + 1
    BY <1>1, <1>2, <1>3, <1>4, <1>5, <2>2
  <2>3. CASE i > Len(s) + 1
    <3>1. i - (Len(s) + 1) \in 1..Len(Tail(t)) /\ (i - (Len(s) + 1)) + 1 = i - Len(s)
      BY <1>1, <1>3, <1>4, <2>3
    <3>2. l[i] = Tail(t)[i - (Len(s) + 1)] /\ r[i] = t[i - Len(s)]
      BY <1>1, <1>3, <1>4, <1>5, <2>3
    <3> QED
      BY <1>1, <3>1, <3>2
  <2> QED
    BY <1>3, <1>4, <2>1, <2>2, <2>3
<1>7. Len(l) = Len(r)
  BY <1>1, <1>3, <1>4, <1>5
<1> QED
  BY <1>4, <1>5, <1>6, <1>7, SeqEqual

LEMMA OutAppended ==
  ASSUME NEW s \in Seq(Answers), NEW t \in Seq(Answers), NEW a \in Answers
  PROVE  s \o Append(t, a) = Append(s \o t, a)
<1>1. Append(t, a) = t \o <<a>> /\ <<a>> \in Seq(Answers)
  OBVIOUS
<1>2. s \o t \in Seq(Answers)
  BY ConcatProperties
<1>3. Append(s \o t, a) = (s \o t) \o <<a>>
  BY <1>2
<1> QED
  BY <1>1, <1>3, ConcatAssociative

\* Taking a frame out keeps the others and their order.
LEMMA DropKeeps ==
  ASSUME NEW s \in Seq(Answers), NEW t \in Seq(Answers), t # <<>>, NEW seqs, NEW done, NEW n
  PROVE  /\ s \o Tail(t) \in Seq(Answers)
         /\ Matches(s \o t, seqs) => Matches(s \o Tail(t), seqs)
         /\ Effects(s \o t, done) => Effects(s \o Tail(t), done)
         /\ Below(s \o t, n) => Below(s \o Tail(t), n)
<1> DEFINE l == s \o Tail(t)
           r == s \o t
           f(i) == IF i <= Len(s) THEN i ELSE i + 1
<1>1. /\ Tail(t) \in Seq(Answers) /\ Len(Tail(t)) = Len(t) - 1
      /\ \A i \in 1..Len(Tail(t)) : Tail(t)[i] = t[i + 1]
  BY HeadTailProperties
<1>2. Len(t) \in Nat \ {0} /\ Len(s) \in Nat
  BY EmptySeq
<1>3. /\ l \in Seq(Answers) /\ Len(l) = Len(s) + Len(Tail(t)) /\ DOMAIN l = 1..Len(l)
      /\ \A i \in 1..(Len(s) + Len(Tail(t))) : l[i] = IF i <= Len(s) THEN s[i] ELSE Tail(t)[i - Len(s)]
  BY <1>1, ConcatProperties, LenProperties
<1>4. /\ r \in Seq(Answers) /\ Len(r) = Len(s) + Len(t) /\ DOMAIN r = 1..Len(r)
      /\ \A i \in 1..(Len(s) + Len(t)) : r[i] = IF i <= Len(s) THEN s[i] ELSE t[i - Len(s)]
  BY ConcatProperties, LenProperties
<1>5. ASSUME NEW i \in DOMAIN l PROVE f(i) \in DOMAIN r /\ l[i] = r[f(i)]
  <2>1. CASE i <= Len(s)
    BY <1>1, <1>2, <1>3, <1>4, <2>1
  <2>2. CASE i > Len(s)
    <3>1. i - Len(s) \in 1..Len(Tail(t)) /\ (i - Len(s)) + 1 = (i + 1) - Len(s) /\ i + 1 \in 1..Len(r)
      BY <1>1, <1>2, <1>3, <1>4, <2>2
    <3>2. l[i] = Tail(t)[i - Len(s)] /\ r[i + 1] = t[(i + 1) - Len(s)]
      BY <1>1, <1>2, <1>3, <1>4, <2>2, <3>1
    <3> QED
      BY <1>1, <1>2, <1>4, <2>2, <3>1, <3>2
  <2> QED
    BY <1>2, <1>3, <2>1, <2>2
<1>6. ASSUME NEW i \in DOMAIN l, NEW j \in DOMAIN l, i < j PROVE f(i) < f(j)
  BY <1>2, <1>3, <1>6
<1> HIDE DEF l, r, f
<1>7. Matches(r, seqs) => Matches(l, seqs)
  BY <1>5, <1>6 DEF Matches
<1>8. Effects(r, done) => Effects(l, done)
  BY <1>5 DEF Effects
<1>9. Below(r, n) => Below(l, n)
  BY <1>5 DEF Below
<1> QED
  BY <1>3, <1>7, <1>8, <1>9 DEF l, r

\* A push, or the answer to a request above all that were answered.
LEMMA AppendKeeps ==
  ASSUME NEW out \in Seq(Answers), NEW a \in Answers, NEW seqs, NEW done,
         Matches(out, seqs), Effects(out, done),
         \/ a.seq = 0 /\ a.body = "push"
         \/ /\ a.seq # 0 /\ a.body # "push" /\ a.seq \in seqs /\ Below(out, a.seq)
            /\ a.body = "refused" => a.seq \notin done
            /\ a.body = "response" => a.seq \in done
  PROVE  /\ Append(out, a) \in Seq(Answers)
         /\ Matches(Append(out, a), seqs)
         /\ Effects(Append(out, a), done)
<1> DEFINE new == Append(out, a)
<1>1. /\ new \in Seq(Answers) /\ DOMAIN new = 1..(Len(out) + 1)
      /\ DOMAIN out = 1..Len(out) /\ Len(out) \in Nat
      /\ \A i \in 1..Len(out) : new[i] = out[i]
      /\ new[Len(out) + 1] = a
  BY LenProperties
<1>2. \A i \in DOMAIN new : i \in DOMAIN out \/ i = Len(out) + 1
  BY <1>1
<1> HIDE DEF new
<1>3. Matches(new, seqs)
  <2> SUFFICES ASSUME NEW i \in DOMAIN new
               PROVE  /\ new[i].seq = 0 <=> new[i].body = "push"
                      /\ new[i].seq # 0 => new[i].seq \in seqs
                      /\ \A j \in DOMAIN new :
                           (i < j /\ new[i].seq # 0 /\ new[j].seq # 0) => new[i].seq < new[j].seq
    BY DEF Matches
  <2>1. CASE i \in DOMAIN out
    BY <1>1, <1>2, <2>1 DEF Matches, Below
  <2>2. CASE i = Len(out) + 1
    BY <1>1, <1>2, <2>2
  <2> QED
    BY <1>2, <2>1, <2>2
<1>4. Effects(new, done)
  BY <1>1, <1>2 DEF Effects
<1> QED
  BY <1>1, <1>3, <1>4 DEF new

-----------------------------------------------------------------------------
\* What is in the queue, and what is sent.
LEMMA EnqueuedType ==
  ASSUME TypeOK, NEW c \in Conns, NEW a \in Answers
  PROVE  /\ Enqueued(c, a) \in Seq(Answers)
         /\ Len(Enqueued(c, a)) <= BufSize
<1>1. queue[c] \in Seq(Answers) /\ Len(queue[c]) <= BufSize /\ Len(queue[c]) \in Nat /\ BufSize \in Nat
  BY SizesAssumption DEF TypeOK
<1>2. CASE closed[c] \/ Full(c)
  BY <1>1, <1>2 DEF Enqueued
<1>3. CASE ~closed[c] /\ ~Full(c)
  BY <1>1, <1>3 DEF Enqueued, Full
<1> QED
  BY <1>2, <1>3

\* The frame that leaves the socket.
LEMMA TakenType ==
  ASSUME TypeOK, NEW c \in Conns, NEW kinds, Takes(c, kinds)
  PROVE  /\ inbox' \in [Conns -> Seq(Frames)]
         /\ Head(inbox[c]) \in Frames
         /\ Tail(inbox[c]) \in Seq(Frames)
         /\ inbox'[c] = Tail(inbox[c])
<1>1. inbox[c] \in Seq(Frames) /\ inbox[c] # <<>>
  BY DEF TypeOK, Takes
<1>2. Head(inbox[c]) \in Frames /\ Tail(inbox[c]) \in Seq(Frames)
  BY <1>1, HeadTailProperties
<1> QED
  BY <1>2 DEF TypeOK, Takes

LEMMA AnswerTypes ==
  ASSUME NEW n \in Nat, NEW b \in Bodies
  PROVE  [seq |-> n, body |-> b] \in Answers
BY DEF Answers

LEMMA TypeStep == Inv /\ [Next]_vars => TypeOK'
<1> SUFFICES ASSUME Inv, [Next]_vars PROVE TypeOK'
  OBVIOUS
<1> USE DEF Inv
<1>1. ASSUME NEW c \in Conns, NEW kind \in Sends, ClientSends(c, kind) PROVE TypeOK'
  <2>1. sent[c] + 1 \in 0..MaxRequests /\ kind \in Kinds
    BY <1>1, SizesAssumption, SendsAssumption DEF TypeOK, ClientSends
  <2>2. [seq |-> IF kind = "noseq" THEN 0 ELSE sent[c] + 1, kind |-> kind] \in Frames
    BY <2>1 DEF Frames
  <2>3. Append(inbox[c], [seq |-> IF kind = "noseq" THEN 0 ELSE sent[c] + 1, kind |-> kind]) \in Seq(Frames)
    BY <2>2 DEF TypeOK
  <2> QED
    BY <1>1, <2>1, <2>3 DEF TypeOK, ClientSends, reader, outward, redis, history
<1>2. ASSUME NEW c \in Conns, ReadText(c) PROVE TypeOK'
  BY <1>2, TakenType DEF TypeOK, ReadText, Takes, reader, outward, redis, history
<1>3. ASSUME NEW c \in Conns, ReadFatal(c) PROVE TypeOK'
  BY <1>3, TakenType DEF TypeOK, ReadFatal, Goto, Takes, outward, redis, history
<1>4. ASSUME NEW c \in Conns, ReadBadInput(c) \/ ReadAuthFree(c) \/ ReadProtected(c) PROVE TypeOK'
  <2>1. PICK kinds : Accepts(c, kinds)
    BY <1>4 DEF ReadBadInput, ReadAuthFree, ReadProtected
  <2>2. Head(inbox[c]) \in Frames /\ inbox' \in [Conns -> Seq(Frames)]
    BY <2>1, TakenType DEF Accepts
  <2>3. pc' \in [Conns -> {"reading", "auth", "limit", "handler", "finish", "ended", "stopped"}]
    BY <1>4 DEF ReadBadInput, ReadAuthFree, ReadProtected, Goto, TypeOK
  <2>4. body' \in [Conns -> Bodies \union {None}]
    BY <1>4 DEF ReadBadInput, ReadAuthFree, ReadProtected, Answer, Bodies, TypeOK
  <2>5. Head(inbox[c]).seq \in Nat
    BY <2>2 DEF Frames
  <2> QED
    BY <2>1, <2>2, <2>3, <2>4, <2>5 DEF TypeOK, Accepts, Takes, outward, redis
<1>5. ASSUME NEW c \in Conns, Auth(c) PROVE TypeOK'
  BY <1>5 DEF TypeOK, Auth, Goto, Answer, Bodies, socket, outward, redis, history
<1>6. ASSUME NEW c \in Conns, RateLimit(c) PROVE TypeOK'
  <2>1. /\ pc' \in [Conns -> {"reading", "auth", "limit", "handler", "finish", "ended", "stopped"}]
        /\ body' \in [Conns -> Bodies \union {None}]
    BY <1>6 DEF TypeOK, RateLimit, Goto, Answer, Bodies
  <2>2. count' \in [Players -> Nat] /\ ttl' \in [Players -> BOOLEAN]
    <3>1. CASE UNCHANGED <<count, ttl>>
      BY <3>1 DEF TypeOK
    <3>2. CASE Increment(uid[c])
      <4>1. count' \in [Players -> Nat]
        <5>1. count' = [count EXCEPT ![uid[c]] = IF @ > Limit THEN @ ELSE @ + 1]
          BY <3>2 DEF Increment
        <5>2. ASSUME NEW p \in Players PROVE count'[p] \in Nat
          <6>1. count[p] \in Nat /\ Limit \in Nat
            BY SizesAssumption DEF TypeOK
          <6>2. count'[p] = count[p] \/ count'[p] = count[p] + 1
            BY <5>1 DEF TypeOK
          <6> QED
            BY <6>1, <6>2
        <5> QED
          BY <5>1, <5>2 DEF TypeOK
      <4>2. ttl' \in [Players -> BOOLEAN]
        BY <3>2, Zenon DEF TypeOK, Increment
      <4> QED
        BY <4>1, <4>2
    <3> QED
      BY <1>6, <3>1, <3>2 DEF RateLimit
  <2> QED
    BY <1>6, <2>1, <2>2 DEF TypeOK, RateLimit, socket, outward, history
<1>7. ASSUME NEW c \in Conns, Handle(c) PROVE TypeOK'
  <2>1. PICK ok \in BOOLEAN :
          /\ Answer(c, IF ok THEN "response" ELSE "error")
          /\ uid' = IF ok /\ frame[c].kind = "login" THEN [uid EXCEPT ![c] = Owner[c]] ELSE uid
          /\ session' = session \/ session' = session \union {Owner[c]}
    BY <1>7 DEF Handle
  <2>2. Owner[c] \in Players
    BY OwnerAssumption
  <2>3. /\ pc' \in [Conns -> {"reading", "auth", "limit", "handler", "finish", "ended", "stopped"}]
        /\ body' \in [Conns -> Bodies \union {None}]
        /\ uid' \in [Conns -> Players \union {None}]
        /\ session' \subseteq Players
    BY <1>7, <2>1, <2>2 DEF TypeOK, Handle, Goto, Answer, Bodies
  <2>4. frame[c].seq \in Nat
    BY DEF TypeOK, Frames
  <2> QED
    BY <1>7, <2>3, <2>4 DEF TypeOK, Handle, socket, outward
<1>8. ASSUME NEW c \in Conns, Finish(c) PROVE TypeOK'
  <2>1. frame[c].seq \in Nat /\ body[c] \in Bodies
    BY <1>8 DEF TypeOK, Frames, Finish, Goto, Good, HandInv, Busy, Bodies
  <2>2. [seq |-> frame[c].seq, body |-> body[c]] \in Answers
    BY <2>1, AnswerTypes
  <2>3. queue' \in [Conns -> Seq(Answers)] /\ \A d \in Conns : Len(queue'[d]) <= BufSize
    <3> DEFINE q == Enqueued(c, [seq |-> frame[c].seq, body |-> body[c]])
    <3>1. q \in Seq(Answers) /\ Len(q) <= BufSize
      BY <2>2, EnqueuedType
    <3>2. queue' = [queue EXCEPT ![c] = q] \/ queue' = queue
      BY <1>8 DEF Finish
    <3> HIDE DEF q
    <3> QED
      BY <3>1, <3>2 DEF TypeOK
  <2>4. NoFrame \in Frames
    BY DEF NoFrame, Frames
  <2>5. lost' \in [Conns -> SUBSET Nat]
    <3>1. lost' = [lost EXCEPT ![c] = lost[c] \union {frame[c].seq}] \/ lost' = lost
      BY <1>8 DEF Finish
    <3>2. lost[c] \union {frame[c].seq} \in SUBSET Nat
      BY <2>1 DEF TypeOK
    <3> QED
      BY <3>1, <3>2 DEF TypeOK
  <2>6. /\ pc' = [pc EXCEPT ![c] = "reading"]
        /\ frame' = [frame EXCEPT ![c] = NoFrame]
        /\ body' = [body EXCEPT ![c] = None]
        /\ UNCHANGED <<uid, wire, closed, writing, pushes, socket, redis, asked, ran>>
    BY <1>8 DEF Finish, Goto
  <2> QED
    BY <2>3, <2>4, <2>5, <2>6 DEF TypeOK, socket, redis
<1>9. ASSUME NEW c \in Conns, ReadFails(c) \/ ReaderStops(c) PROVE TypeOK'
  BY <1>9 DEF TypeOK, ReadFails, ReaderStops, Goto, socket, outward, redis, history
<1>10. ASSUME NEW c \in Conns, Write(c) PROVE TypeOK'
  <2>1. queue[c] \in Seq(Answers) /\ queue[c] # <<>> /\ wire[c] \in Seq(Answers)
    BY <1>10 DEF TypeOK, Write
  <2>2. /\ Head(queue[c]) \in Answers /\ Tail(queue[c]) \in Seq(Answers)
        /\ Len(Tail(queue[c])) = Len(queue[c]) - 1 /\ Len(queue[c]) \in Nat
    BY <2>1, HeadTailProperties
  <2>3. Len(Tail(queue[c])) <= BufSize
    BY <2>2, SizesAssumption DEF TypeOK
  <2>4. queue' \in [Conns -> Seq(Answers)] /\ \A d \in Conns : Len(queue'[d]) <= BufSize
    BY <1>10, <2>2, <2>3 DEF TypeOK, Write
  <2>5. wire' \in [Conns -> Seq(Answers)]
    <3>1. wire' = [wire EXCEPT ![c] = Append(wire[c], Head(queue[c]))] \/ wire' = wire
      BY <1>10 DEF Write
    <3>2. Append(wire[c], Head(queue[c])) \in Seq(Answers)
      BY <2>1, <2>2
    <3> QED
      BY <3>1, <3>2 DEF TypeOK
  <2> QED
    BY <1>10, <2>4, <2>5 DEF TypeOK, Write, reader, socket, redis, history
<1>11. ASSUME NEW c \in Conns, WriterReturns(c) \/ HubStops(c) PROVE TypeOK'
  BY <1>11 DEF TypeOK, WriterReturns, HubStops, reader, socket, redis, history
<1>12. CASE Broadcast
  <2>1. [seq |-> 0, body |-> "push"] \in Answers
    BY AnswerTypes DEF Bodies
  <2>2. queue' \in [Conns -> Seq(Answers)] /\ \A d \in Conns : Len(queue'[d]) <= BufSize
    BY <1>12, <2>1, EnqueuedType DEF Broadcast
  <2> QED
    BY <1>12, <2>2, SizesAssumption DEF TypeOK, Broadcast, reader, socket, redis, history
<1>13. ASSUME NEW p \in Players, SessionExpires(p) \/ WindowEnds(p) PROVE TypeOK'
  <2>1. CASE SessionExpires(p)
    BY <2>1 DEF TypeOK, SessionExpires, reader, outward, socket, history
  <2>2. CASE WindowEnds(p)
    <3>1. count' \in [Players -> Nat] /\ ttl' \in [Players -> BOOLEAN]
      BY <2>2 DEF TypeOK, WindowEnds
    <3> QED
      BY <2>2, <3>1 DEF TypeOK, WindowEnds, reader, outward, socket, history
  <2> QED
    BY <1>13, <2>1, <2>2
<1>14. CASE UNCHANGED vars
  BY <1>14 DEF TypeOK, vars, socket, reader, outward, redis, history
<1> QED
  BY <1>1, <1>2, <1>3, <1>4, <1>5, <1>6, <1>7, <1>8, <1>9, <1>10, <1>11, <1>12, <1>13, <1>14
     DEF Next, ReaderStep

-----------------------------------------------------------------------------
\* What a connection's invariant speaks of.
View(c) == <<sent[c], inbox[c], pc[c], frame[c], body[c], queue[c], wire[c], asked[c], ran[c], lost[c]>>

LEMMA ViewStays ==
  ASSUME NEW c \in Conns, Good(c), UNCHANGED View(c)
  PROVE  Good(c)'
BY DEF View, Good, InboxInv, HandInv, OutInv, Out

\* Nobody but the hub's broadcast and the connection's own goroutines changes it.
StepOf(c) ==
  \/ \E kind \in Sends : ClientSends(c, kind)
  \/ ReaderStep(c) \/ ReadFails(c) \/ Write(c) \/ WriterReturns(c) \/ HubStops(c)

LEMMA OthersStay ==
  ASSUME TypeOK, NEW c \in Conns, NEW d \in Conns, StepOf(d), c # d
  PROVE  UNCHANGED View(c)
<1>1. UNCHANGED <<sent[c], inbox[c]>>
  BY DEF TypeOK, StepOf, ReaderStep, ClientSends, ReadText, ReadFatal, ReadBadInput, ReadAuthFree, ReadProtected,
         Accepts, Takes, Auth, RateLimit, Handle, Finish, ReaderStops, ReadFails, Write, WriterReturns,
         HubStops, socket
<1>2. UNCHANGED <<pc[c], frame[c], body[c]>>
  BY DEF TypeOK, StepOf, ReaderStep, ClientSends, ReadText, ReadFatal, ReadBadInput, ReadAuthFree, ReadProtected,
         Accepts, Goto, Answer, Auth, RateLimit, Handle, Finish, ReaderStops, ReadFails, Write, WriterReturns,
         HubStops, reader
<1>3. UNCHANGED <<queue[c], wire[c]>>
  BY DEF TypeOK, StepOf, ReaderStep, ClientSends, ReadText, ReadFatal, ReadBadInput, ReadAuthFree, ReadProtected,
         Accepts, Auth, RateLimit, Handle, Finish, ReaderStops, ReadFails, Write, WriterReturns,
         HubStops, outward
<1>4. UNCHANGED <<asked[c], ran[c], lost[c]>>
  BY DEF TypeOK, StepOf, ReaderStep, ClientSends, ReadText, ReadFatal, ReadBadInput, ReadAuthFree, ReadProtected,
         Accepts, Auth, RateLimit, Handle, Finish, ReaderStops, ReadFails, Write, WriterReturns,
         HubStops, history
<1> QED
  BY <1>1, <1>2, <1>3, <1>4 DEF View

\* A frame leaves the socket: those behind it are numbered above it.
LEMMA TakenOrder ==
  ASSUME Inv, NEW c \in Conns, NEW kinds, Takes(c, kinds)
  PROVE  /\ sent'[c] = sent[c]
         /\ Head(inbox[c]).seq <= sent[c]
         /\ Head(inbox[c]).seq = 0 <=> Head(inbox[c]).kind = "noseq"
         /\ \A n \in asked[c] : Head(inbox[c]).seq # 0 => n < Head(inbox[c]).seq
         /\ \A i \in DOMAIN inbox'[c] :
              /\ inbox'[c][i].seq <= sent[c]
              /\ inbox'[c][i].seq = 0 <=> inbox'[c][i].kind = "noseq"
              /\ \A n \in asked[c] : inbox'[c][i].seq # 0 => n < inbox'[c][i].seq
              /\ (inbox'[c][i].seq # 0 /\ Head(inbox[c]).seq # 0) => Head(inbox[c]).seq < inbox'[c][i].seq
              /\ \A j \in DOMAIN inbox'[c] :
                   (i < j /\ inbox'[c][i].seq # 0 /\ inbox'[c][j].seq # 0) => inbox'[c][i].seq < inbox'[c][j].seq
<1> DEFINE q == inbox[c]
           t == Tail(inbox[c])
<1>1. /\ q \in Seq(Frames) /\ q # <<>> /\ inbox'[c] = t /\ sent'[c] = sent[c]
  BY TakenType DEF Inv, TypeOK, Takes
<1>2. /\ t \in Seq(Frames) /\ Len(t) = Len(q) - 1 /\ Len(q) \in Nat \ {0}
      /\ \A i \in 1..Len(t) : t[i] = q[i + 1]
      /\ DOMAIN q = 1..Len(q) /\ DOMAIN t = 1..Len(t)
      /\ Head(q) = q[1]
  BY <1>1, HeadTailProperties, LenProperties, EmptySeq
<1>3. 1 \in DOMAIN q /\ \A i \in DOMAIN t : i \in Nat /\ i + 1 \in DOMAIN q /\ 1 < i + 1 /\ t[i] = q[i + 1]
  BY <1>2
<1>4. \A i, j \in DOMAIN t : i < j => i + 1 < j + 1
  BY <1>3
<1>5. InboxInv(c)
  BY DEF Inv, Good
<1>6. q[1] = Head(q)
  BY <1>2
<1> HIDE DEF q, t
<1>7. inbox[c] = q
  BY DEF q
<1> QED
  BY <1>1, <1>3, <1>4, <1>5, <1>6, <1>7 DEF InboxInv

-----------------------------------------------------------------------------
\* One lemma for each kind of step of a connection.

LEMMA OutTyped == ASSUME TypeOK, NEW c \in Conns PROVE Out(c) \in Seq(Answers)
BY ConcatProperties DEF Out, TypeOK

LEMMA SendGood == ASSUME Inv, NEW c \in Conns, NEW kind \in Sends, ClientSends(c, kind) PROVE Good(c)'
<1> DEFINE q == inbox[c]
           n == sent[c] + 1
           x == [seq |-> IF kind = "noseq" THEN 0 ELSE n, kind |-> kind]
<1>1. /\ q \in Seq(Frames) /\ sent[c] \in Nat /\ Good(c)
      /\ inbox'[c] = Append(q, x) /\ sent'[c] = n
      /\ UNCHANGED <<pc, frame, body, queue, wire, asked, ran, lost>>
  BY DEF Inv, TypeOK, ClientSends, reader, outward, history
<1>2. x \in Frames /\ (x.seq = 0 <=> x.kind = "noseq") /\ (x.seq # 0 => x.seq = n) /\ x.seq <= n
  BY <1>1, SendsAssumption DEF Frames
<1> HIDE DEF x
<1>3. /\ DOMAIN inbox'[c] = 1..(Len(q) + 1) /\ DOMAIN q = 1..Len(q) /\ Len(q) \in Nat
      /\ \A i \in 1..Len(q) : inbox'[c][i] = q[i]
      /\ inbox'[c][Len(q) + 1] = x
  BY <1>1, <1>2, LenProperties
<1>4. /\ \A i \in DOMAIN inbox'[c] : (i \in DOMAIN q /\ inbox'[c][i] = q[i]) \/ (i = Len(q) + 1 /\ inbox'[c][i] = x)
      /\ \A i \in DOMAIN q : q[i] \in Frames /\ i < Len(q) + 1
  BY <1>1, <1>3, ElementOfSeq
<1>5. \A i \in DOMAIN q : q[i].seq \in Nat /\ q[i].seq < n
  BY <1>1, <1>4 DEF Good, InboxInv, Frames
<1>6. asked[c] \subseteq 1..sent[c]
  BY <1>1 DEF Good, HandInv
<1>7. InboxInv(c)'
  <2> SUFFICES ASSUME NEW i \in DOMAIN inbox'[c]
               PROVE  /\ inbox'[c][i].seq <= n
                      /\ inbox'[c][i].seq = 0 <=> inbox'[c][i].kind = "noseq"
                      /\ \A m \in asked[c] : inbox'[c][i].seq # 0 => m < inbox'[c][i].seq
                      /\ \A j \in DOMAIN inbox'[c] :
                           (i < j /\ inbox'[c][i].seq # 0 /\ inbox'[c][j].seq # 0) => inbox'[c][i].seq < inbox'[c][j].seq
    BY <1>1 DEF InboxInv
  <2> HIDE DEF q, n
  <2>1. InboxInv(c) /\ inbox[c] = q /\ sent[c] \in Nat /\ n = sent[c] + 1
    BY <1>1 DEF Good, q, n
  <2>2. CASE i \in DOMAIN q /\ inbox'[c][i] = q[i]
    <3>1. q[i].seq <= n /\ (q[i].seq = 0 <=> q[i].kind = "noseq") /\ \A m \in asked[c] : q[i].seq # 0 => m < q[i].seq
      BY <1>5, <2>1, <2>2 DEF InboxInv
    <3>2. ASSUME NEW j \in DOMAIN inbox'[c], i < j, q[i].seq # 0, inbox'[c][j].seq # 0
          PROVE  q[i].seq < inbox'[c][j].seq
      BY <1>2, <1>4, <1>5, <2>1, <2>2, <3>2 DEF InboxInv
    <3> QED
      BY <2>2, <3>1, <3>2
  <2>3. CASE i = Len(q) + 1 /\ inbox'[c][i] = x
    <3>1. \A m \in asked[c] : m < n
      BY <1>6, <2>1
    <3>2. \A j \in DOMAIN inbox'[c] : ~(i < j)
      BY <1>3, <2>3
    <3> QED
      BY <1>2, <2>1, <2>3, <3>1, <3>2
  <2> QED
    BY <1>4, <2>2, <2>3
<1>8. HandInv(c)'
  BY <1>1 DEF Good, HandInv, Out
<1>9. OutInv(c)'
  BY <1>1 DEF Good, OutInv, Out
<1> QED
  BY <1>7, <1>8, <1>9 DEF Good

\* A frame that is read and needs no answer.
LEMMA SkipGood == ASSUME Inv, NEW c \in Conns, ReadText(c) \/ ReadFatal(c) PROVE Good(c)'
<1>1. PICK kinds : Takes(c, kinds)
  BY DEF ReadText, ReadFatal
<1>2. /\ UNCHANGED <<frame, body, queue, wire, asked, ran, lost>>
      /\ pc[c] = "reading" /\ pc'[c] \notin Busy
      /\ Good(c) /\ UNCHANGED sent
  BY DEF Inv, TypeOK, ReadText, ReadFatal, Goto, Busy, Takes, reader, outward, history
<1>3. InboxInv(c)'
  BY <1>1, <1>2, TakenOrder DEF InboxInv
<1>4. HandInv(c)'
  BY <1>2 DEF Good, HandInv, Busy
<1>5. OutInv(c)'
  BY <1>2 DEF Good, OutInv, Out
<1> QED
  BY <1>3, <1>4, <1>5 DEF Good

\* A request that is accepted is the last one, and nothing was done about it yet.
LEMMA AcceptGood ==
  ASSUME Inv, NEW c \in Conns, ReadBadInput(c) \/ ReadAuthFree(c) \/ ReadProtected(c)
  PROVE  Good(c)'
<1>1. PICK kinds : Accepts(c, kinds) /\ "noseq" \notin kinds
  BY DEF ReadBadInput, ReadAuthFree, ReadProtected, BadInput, AuthFree
<1> DEFINE x == Head(inbox[c])
<1>2. /\ Takes(c, kinds) /\ x.kind # "noseq" /\ x \in Frames
  BY <1>1, TakenType DEF Accepts, Takes, Inv
<1>3. /\ frame'[c] = x
      /\ asked'[c] = asked[c] \union {x.seq}
      /\ UNCHANGED <<sent, queue, wire, ran, lost>>
  BY <1>1 DEF Accepts, Takes, Inv, TypeOK, outward
<1>4. /\ pc'[c] \in Busy
      /\ pc'[c] = "finish" => body'[c] = "error"
  <2>1. pc \in [Conns -> {"reading", "auth", "limit", "handler", "finish", "ended", "stopped"}]
        /\ body \in [Conns -> Bodies \union {None}]
    BY DEF Inv, TypeOK
  <2>2. CASE ReadBadInput(c)
    BY <2>1, <2>2 DEF ReadBadInput, Goto, Answer, Busy
  <2>3. CASE ReadAuthFree(c) \/ ReadProtected(c)
    BY <2>1, <2>3 DEF ReadAuthFree, ReadProtected, Goto, Busy
  <2> QED
    BY <2>2, <2>3
<1>5. x.seq \in Nat \ {0} /\ x.seq <= sent[c] /\ sent[c] \in Nat /\ \A n \in asked[c] : n < x.seq
  <2>1. x.seq \in Nat /\ sent[c] \in Nat
    BY <1>2 DEF Frames, Inv, TypeOK
  <2>2. x.seq <= sent[c] /\ x.seq # 0 /\ \A n \in asked[c] : x.seq # 0 => n < x.seq
    BY <1>2, TakenOrder
  <2> QED
    BY <2>1, <2>2
<1>6. Good(c) /\ asked[c] \subseteq Nat
  BY DEF Inv, TypeOK
<1>7. InboxInv(c)'
  BY <1>2, <1>3, <1>5, TakenOrder DEF InboxInv
<1>8. Below(Out(c), x.seq)
  <2> SUFFICES ASSUME NEW i \in DOMAIN Out(c) PROVE Out(c)[i].seq < x.seq
    BY DEF Below
  <2>1. Out(c)[i].seq = 0 \/ Out(c)[i].seq \in asked[c]
    BY <1>6 DEF Good, OutInv, Matches
  <2> QED
    BY <1>5, <2>1
<1>9. HandInv(c)'
  <2>1. asked'[c] \subseteq 1..sent'[c]
    BY <1>3, <1>5, <1>6 DEF Good, HandInv
  <2>2. ran'[c] \subseteq asked'[c] /\ lost'[c] \subseteq asked'[c]
    BY <1>3, <1>6 DEF Good, HandInv
  <2>3. x.seq \notin ran[c] /\ x.seq \notin lost[c]
    BY <1>5, <1>6 DEF Good, HandInv
  <2>4. frame'[c].seq \in asked'[c] \ lost'[c] /\ frame'[c].seq \notin ran'[c]
    BY <1>3, <2>3
  <2>5. \A n \in asked'[c] : n <= frame'[c].seq
    BY <1>3, <1>5, <1>6
  <2>6. Below(Out(c), frame[c].seq)'
    BY <1>3, <1>8 DEF Below, Out
  <2> QED
    BY <1>4, <2>1, <2>2, <2>4, <2>5, <2>6 DEF HandInv, Busy
<1>10. OutInv(c)'
  BY <1>3, <1>6 DEF Good, OutInv, Out, Matches, Effects
<1> QED
  BY <1>7, <1>9, <1>10 DEF Good

\* The hooks, and the ends of the two pumps: nothing is sent or run.
LEMMA HookGood ==
  ASSUME Inv, NEW c \in Conns,
         Auth(c) \/ RateLimit(c) \/ ReadFails(c) \/ ReaderStops(c) \/ WriterReturns(c) \/ HubStops(c)
  PROVE  Good(c)'
<1>1. Good(c) /\ UNCHANGED <<sent, inbox, frame, queue, wire, asked, ran, lost>>
  BY DEF Inv, Auth, RateLimit, ReadFails, ReaderStops, WriterReturns, HubStops, socket, reader, outward, history
<1>2. \/ UNCHANGED <<pc[c], body[c]>>
      \/ pc[c] \in {"auth", "limit"} /\ pc'[c] \in {"limit", "handler"} /\ UNCHANGED body[c]
      \/ pc[c] \in {"auth", "limit"} /\ pc'[c] = "finish" /\ body'[c] = "refused"
      \/ pc'[c] \notin Busy
  BY DEF Inv, TypeOK, Auth, RateLimit, ReadFails, ReaderStops, WriterReturns, HubStops, Goto, Answer, Busy, reader
<1>3. InboxInv(c)' /\ OutInv(c)'
  BY <1>1 DEF Good, InboxInv, OutInv, Out
<1>4. HandInv(c)'
  BY <1>1, <1>2 DEF Good, HandInv, Out, Busy
<1> QED
  BY <1>3, <1>4 DEF Good

\* The handler runs: the requests answered before it are others.
LEMMA HandleGood == ASSUME Inv, NEW c \in Conns, Handle(c) PROVE Good(c)'
<1>1. /\ Good(c) /\ pc[c] = "handler" /\ pc'[c] = "finish"
      /\ ran'[c] = ran[c] \union {frame[c].seq}
      /\ body'[c] \in {"response", "error"}
      /\ UNCHANGED <<sent, inbox, frame, queue, wire, asked, lost>>
  BY DEF Inv, TypeOK, Handle, Goto, Answer, socket, outward
<1>2. InboxInv(c)'
  BY <1>1 DEF Good, InboxInv
<1>3. HandInv(c)'
  BY <1>1 DEF Good, HandInv, Out, Busy
<1>4. Out(c) \in Seq(Answers) /\ frame[c].seq \in Nat
  BY OutTyped DEF Inv, TypeOK, Frames
<1>5. \A i \in DOMAIN Out(c) : Out(c)[i].seq # frame[c].seq
  <2>1. Below(Out(c), frame[c].seq)
    BY <1>1 DEF Good, HandInv, Busy
  <2>2. \A i \in DOMAIN Out(c) : Out(c)[i].seq \in Nat
    <3>1. DOMAIN Out(c) = 1..Len(Out(c)) /\ \A i \in 1..Len(Out(c)) : Out(c)[i] \in Answers
      BY <1>4, LenProperties, ElementOfSeq
    <3> QED
      BY <3>1 DEF Answers
  <2> QED
    BY <1>4, <2>1, <2>2 DEF Below
<1>6. OutInv(c)'
  <2>1. Matches(Out(c), asked[c] \ lost[c]) /\ Effects(Out(c), ran[c])
    BY <1>1 DEF Good, OutInv
  <2>2. Effects(Out(c), ran[c] \union {frame[c].seq})
    BY <1>5, <2>1 DEF Effects
  <2>3. Out(c)' = Out(c)
    BY <1>1 DEF Out
  <2> QED
    BY <1>1, <2>1, <2>2, <2>3 DEF OutInv
<1> QED
  BY <1>2, <1>3, <1>6 DEF Good

\* The answer joins the queue, or is lost and recorded as lost.
LEMMA FinishGood == ASSUME Inv, NEW c \in Conns, Finish(c) PROVE Good(c)'
<1> DEFINE n == frame[c].seq
           a == [seq |-> n, body |-> body[c]]
<1>1. /\ Good(c) /\ pc[c] = "finish" /\ pc'[c] = "reading"
      /\ UNCHANGED <<sent, inbox, wire, asked, ran>>
  BY DEF Inv, TypeOK, Finish, Goto, socket
<1>2. /\ n \in asked[c] \ lost[c] /\ n \in Nat \ {0} /\ Below(Out(c), n)
      /\ body[c] \in {"response", "error", "refused"}
      /\ body[c] = "refused" => n \notin ran[c]
      /\ body[c] = "response" => n \in ran[c]
      /\ asked[c] \subseteq 1..sent[c] /\ sent[c] \in Nat
  BY <1>1 DEF Good, HandInv, Busy, Inv, TypeOK
<1>3. a \in Answers /\ a.seq = n /\ a.body = body[c]
  BY <1>2 DEF Answers, Bodies
<1>4. /\ Out(c) \in Seq(Answers) /\ wire[c] \in Seq(Answers) /\ queue[c] \in Seq(Answers)
      /\ lost[c] \subseteq asked[c]
      /\ Matches(Out(c), asked[c] \ lost[c]) /\ Effects(Out(c), ran[c])
  BY <1>1, OutTyped DEF Good, OutInv, HandInv, Inv, TypeOK
<1> HIDE DEF n, a
\* Either the answer is appended and not lost, or nothing is sent.
<1>5. \/ queue'[c] = Append(queue[c], a) /\ lost'[c] = lost[c]
      \/ queue'[c] = queue[c] /\ lost'[c] \in {lost[c], lost[c] \union {n}}
  <2>1. lost \in [Conns -> SUBSET Nat] /\ queue \in [Conns -> Seq(Answers)]
    BY DEF Inv, TypeOK
  <2>2. \/ /\ queue'[c] = Enqueued(c, a)
           /\ lost'[c] = IF Full(c) THEN lost[c] \union {n} ELSE lost[c]
        \/ queue'[c] = queue[c] /\ lost'[c] = lost[c] \union {n}
    BY <2>1 DEF Finish, n, a
  <2> QED
    BY <2>2 DEF Enqueued
<1>6. lost'[c] \subseteq asked[c] /\ lost'[c] \in {lost[c], lost[c] \union {n}}
  BY <1>2, <1>4, <1>5
<1>7. InboxInv(c)'
  BY <1>1 DEF Good, InboxInv
<1>8. HandInv(c)'
  BY <1>1, <1>6 DEF Good, HandInv, Busy
<1>9. OutInv(c)'
  <2>1. CASE queue'[c] = Append(queue[c], a) /\ lost'[c] = lost[c]
    <3>1. Out(c)' = Append(Out(c), a)
      <4>1. wire[c] \o Append(queue[c], a) = Append(wire[c] \o queue[c], a)
        BY <1>3, <1>4, OutAppended
      <4> QED
        BY <1>1, <2>1, <4>1 DEF Out
    <3>2. Matches(Append(Out(c), a), asked[c] \ lost[c]) /\ Effects(Append(Out(c), a), ran[c])
      BY <1>2, <1>3, <1>4, AppendKeeps
    <3> QED
      BY <1>1, <2>1, <3>1, <3>2 DEF OutInv
  <2>2. CASE queue'[c] = queue[c]
    <3>1. Out(c)' = Out(c)
      BY <1>1, <2>2 DEF Out
    <3>2. \A i \in DOMAIN Out(c) : Out(c)[i].seq # n
      <4>1. DOMAIN Out(c) = 1..Len(Out(c)) /\ \A i \in 1..Len(Out(c)) : Out(c)[i] \in Answers
        BY <1>4, LenProperties, ElementOfSeq
      <4> QED
        BY <1>2, <4>1 DEF Below, Answers
    <3>3. Matches(Out(c), asked[c] \ lost'[c])
      BY <1>4, <1>6, <3>2 DEF Matches
    <3> QED
      BY <1>1, <1>4, <3>1, <3>3 DEF OutInv
  <2> QED
    BY <1>5, <2>1, <2>2
<1> QED
  BY <1>7, <1>8, <1>9 DEF Good

\* A frame is written, or is the one whose write fails.
LEMMA WriteGood == ASSUME Inv, NEW c \in Conns, Write(c) PROVE Good(c)'
<1> DEFINE s == wire[c]
           t == queue[c]
<1>1. /\ Good(c) /\ UNCHANGED <<sent, inbox, pc, frame, body, asked, ran, lost>>
      /\ s \in Seq(Answers) /\ t \in Seq(Answers) /\ t # <<>>
      /\ queue'[c] = Tail(t)
      /\ wire'[c] = Append(s, Head(t)) \/ wire'[c] = s
  BY DEF Inv, TypeOK, Write, socket, reader, history
<1>2. InboxInv(c)'
  BY <1>1 DEF Good, InboxInv
<1>3. Out(c)' = Out(c) \/ Out(c)' = s \o Tail(t)
  BY <1>1, OutWritten DEF Out
<1>4. /\ Matches(Out(c)', asked[c] \ lost[c]) /\ Effects(Out(c)', ran[c])
      /\ Below(Out(c), frame[c].seq) => Below(Out(c)', frame[c].seq)
  <2>1. Out(c) = s \o t /\ Matches(Out(c), asked[c] \ lost[c]) /\ Effects(Out(c), ran[c])
    BY <1>1 DEF Out, Good, OutInv
  <2>2. /\ Matches(s \o Tail(t), asked[c] \ lost[c]) /\ Effects(s \o Tail(t), ran[c])
        /\ Below(Out(c), frame[c].seq) => Below(s \o Tail(t), frame[c].seq)
    BY <1>1, <2>1, DropKeeps
  <2> QED
    BY <1>3, <2>1, <2>2
<1>5. HandInv(c)'
  BY <1>1, <1>4 DEF Good, HandInv
<1>6. OutInv(c)'
  BY <1>1, <1>4 DEF OutInv
<1> QED
  BY <1>2, <1>5, <1>6 DEF Good

\* A push may come at any moment, also between a request and its answer.
LEMMA BroadcastGood == ASSUME Inv, NEW c \in Conns, Broadcast PROVE Good(c)'
<1> DEFINE a == [seq |-> 0, body |-> "push"]
<1>1. /\ Good(c) /\ UNCHANGED <<sent, inbox, pc, frame, body, wire, asked, ran, lost>>
      /\ queue'[c] \in {queue[c], Append(queue[c], a)}
  BY DEF Inv, Broadcast, Enqueued, socket, reader, history
<1>2. /\ a \in Answers /\ a.seq = 0 /\ a.body = "push"
      /\ Out(c) \in Seq(Answers) /\ wire[c] \in Seq(Answers) /\ queue[c] \in Seq(Answers)
  BY OutTyped DEF Answers, Bodies, Inv, TypeOK
<1> HIDE DEF a
<1>3. InboxInv(c)'
  BY <1>1 DEF Good, InboxInv
<1>4. CASE queue'[c] = queue[c]
  <2>1. Out(c)' = Out(c)
    BY <1>1, <1>4 DEF Out
  <2> QED
    BY <1>1, <1>3, <2>1 DEF Good, HandInv, OutInv
<1>5. CASE queue'[c] = Append(queue[c], a)
  <2>1. Out(c)' = Append(Out(c), a)
    <3>1. wire[c] \o Append(queue[c], a) = Append(wire[c] \o queue[c], a)
      BY <1>2, OutAppended
    <3> QED
      BY <1>1, <1>5, <3>1 DEF Out
  <2>2. Matches(Append(Out(c), a), asked[c] \ lost[c]) /\ Effects(Append(Out(c), a), ran[c])
    BY <1>1, <1>2, AppendKeeps DEF Good, OutInv
  <2>3. OutInv(c)'
    BY <1>1, <2>1, <2>2 DEF OutInv
  <2>4. pc[c] \in Busy => Below(Append(Out(c), a), frame[c].seq)
    <3> SUFFICES ASSUME pc[c] \in Busy, NEW i \in DOMAIN Append(Out(c), a)
                 PROVE  Append(Out(c), a)[i].seq < frame[c].seq
      BY DEF Below
    <3>1. /\ Below(Out(c), frame[c].seq) /\ frame[c].seq \in asked[c]
          /\ asked[c] \subseteq 1..sent[c] /\ sent[c] \in Nat
      BY <1>1 DEF Good, HandInv, Inv, TypeOK
    <3>2. /\ DOMAIN Append(Out(c), a) = 1..(Len(Out(c)) + 1) /\ DOMAIN Out(c) = 1..Len(Out(c))
          /\ Len(Out(c)) \in Nat
          /\ \A j \in 1..Len(Out(c)) : Append(Out(c), a)[j] = Out(c)[j]
          /\ Append(Out(c), a)[Len(Out(c)) + 1] = a
      BY <1>2, LenProperties
    <3>3. CASE i \in DOMAIN Out(c)
      BY <3>1, <3>2, <3>3 DEF Below
    <3>4. CASE i = Len(Out(c)) + 1
      BY <1>2, <3>1, <3>2, <3>4
    <3> QED
      BY <3>2, <3>3, <3>4
  <2>5. HandInv(c)'
    BY <1>1, <2>1, <2>4 DEF Good, HandInv
  <2> QED
    BY <1>3, <2>3, <2>5 DEF Good
<1> QED
  BY <1>1, <1>4, <1>5

-----------------------------------------------------------------------------
LEMMA GoodStep == ASSUME Inv, [Next]_vars, NEW c \in Conns PROVE Good(c)'
<1>1. Good(c)
  BY DEF Inv
<1>2. ASSUME NEW d \in Conns, StepOf(d), c # d PROVE Good(c)'
  BY <1>1, <1>2, OthersStay, ViewStays DEF Inv
<1>3. CASE StepOf(c)
  BY <1>3, SendGood, SkipGood, AcceptGood, HookGood, HandleGood, FinishGood, WriteGood
     DEF StepOf, ReaderStep
<1>4. CASE Broadcast
  BY <1>4, BroadcastGood
<1>5. CASE (\E p \in Players : SessionExpires(p) \/ WindowEnds(p)) \/ UNCHANGED vars
  <2>1. UNCHANGED View(c)
    BY <1>5 DEF View, SessionExpires, WindowEnds, vars, socket, reader, outward, history
  <2> QED
    BY <1>1, <2>1, ViewStays
<1> QED
  BY <1>2, <1>3, <1>4, <1>5 DEF Next, StepOf

\* For any connections, players, kinds of requests and sizes.
THEOREM Invariance == Spec => []Inv
<1>1. Init => Inv
  <2> SUFFICES ASSUME Init PROVE Inv
    OBVIOUS
  <2>1. TypeOK
    BY SizesAssumption DEF Init, TypeOK, NoFrame, Frames
  <2>2. ASSUME NEW c \in Conns PROVE Good(c)
    <3>1. Out(c) = <<>> /\ inbox[c] = <<>> /\ DOMAIN Out(c) = {} /\ DOMAIN inbox[c] = {}
      BY DEF Init, Out
    <3> QED
      BY <3>1 DEF Init, Good, InboxInv, HandInv, OutInv, Matches, Effects, Busy
  <2> QED
    BY <2>1, <2>2 DEF Inv
<1>2. Inv /\ [Next]_vars => Inv'
  BY TypeStep, GoodStep DEF Inv
<1> QED
  BY <1>1, <1>2, PTL DEF Spec

\* The queue never holds more than its buffer, and everything has its type.
THEOREM TypeCorrect == Spec => []TypeOK
BY Invariance, PTL DEF Inv

\* Every answer carries the seq of one accepted request, none twice, in the order of
\* the requests, whatever the hub pushes in between.
THEOREM AnswersAreInOrder == Spec => []AnswersMatchRequests
<1>1. Inv => AnswersMatchRequests
  BY DEF Inv, Good, OutInv, Matches, AnswersMatchRequests
<1> QED
  BY <1>1, Invariance, PTL

\* A refused request had no effect and a response means that its handler ran.
THEOREM RefusalsAreClean == Spec => []RefusedNotRun
<1>1. Inv => RefusedNotRun
  BY DEF Inv, Good, OutInv, Effects, RefusedNotRun
<1> QED
  BY <1>1, Invariance, PTL

-----------------------------------------------------------------------------
(* Nothing is forgotten: what Answered and NotLockedOut need beside fairness  *)

Has(out, n) == \E i \in DOMAIN out : out[i].seq = n

\* Where the answer to an accepted request is.
Accounted(c) ==
  \A n \in asked[c] :
    \/ closed[c] \/ n \in lost[c]
    \/ pc[c] \in Busy /\ frame[c].seq = n
    \/ Has(Out(c), n)

NoneForgotten == \A c \in Conns : Accounted(c)

CountersEnd == \A p \in Players : count[p] > 0 => ttl[p]

\* A frame that joins the others is among them, and they stay.
LEMMA AppendHas ==
  ASSUME NEW out \in Seq(Answers), NEW a \in Answers
  PROVE  /\ Has(Append(out, a), a.seq)
         /\ \A n : Has(out, n) => Has(Append(out, a), n)
<1>1. /\ DOMAIN Append(out, a) = 1..(Len(out) + 1) /\ DOMAIN out = 1..Len(out)
      /\ Len(out) \in Nat
      /\ \A i \in 1..Len(out) : Append(out, a)[i] = out[i]
      /\ Append(out, a)[Len(out) + 1] = a
  BY LenProperties
<1> QED
  BY <1>1 DEF Has

\* A push, or an answer, joins what is sent unless the queue is full.
LEMMA EnqueuedHas ==
  ASSUME TypeOK, NEW c \in Conns, NEW a \in Answers, wire'[c] = wire[c],
         queue'[c] = Enqueued(c, a)
  PROVE  /\ closed[c] \/ Full(c) \/ Has(Out(c)', a.seq)
         /\ \A n : Has(Out(c), n) => Has(Out(c)', n)
<1>1. wire[c] \in Seq(Answers) /\ queue[c] \in Seq(Answers) /\ Out(c) \in Seq(Answers)
  BY OutTyped DEF TypeOK
<1>2. CASE closed[c] \/ Full(c)
  <2>1. Out(c)' = Out(c)
    BY <1>2 DEF Out, Enqueued
  <2> QED
    BY <1>2, <2>1
<1>3. CASE ~(closed[c] \/ Full(c))
  <2>1. Out(c)' = wire[c] \o Append(queue[c], a)
    BY <1>3 DEF Out, Enqueued
  <2>2. wire[c] \o Append(queue[c], a) = Append(Out(c), a)
    BY <1>1, OutAppended DEF Out
  <2> QED
    BY <1>1, <2>1, <2>2, AppendHas
<1> QED
  BY <1>2, <1>3

\* Nobody opens a connection again.
LEMMA StaysClosed ==
  ASSUME TypeOK, [Next]_vars, NEW c \in Conns, closed[c]
  PROVE  closed'[c]
BY ZenonT(40) DEF TypeOK, Next, ReaderStep, ClientSends, ReadText, ReadFatal, ReadBadInput,
       ReadAuthFree, ReadProtected, Accepts, Auth, RateLimit, Handle, Finish, ReaderStops,
       ReadFails, Write, WriterReturns, HubStops, Broadcast, SessionExpires, WindowEnds,
       outward, vars

\* A frame that is read, accepted, or handled, before its answer.
LEMMA ReaderAccounts ==
  ASSUME Inv, NEW c \in Conns, Accounted(c), closed[c] => closed'[c],
         \/ \E kind \in Sends : ClientSends(c, kind)
         \/ ReadText(c) \/ ReadFatal(c) \/ Auth(c) \/ RateLimit(c) \/ Handle(c)
         \/ ReadFails(c) \/ ReaderStops(c) \/ WriterReturns(c) \/ HubStops(c)
  PROVE  Accounted(c)'
<1>1. UNCHANGED <<queue, wire, frame, asked, lost>>
  BY DEF ClientSends, ReadText, ReadFatal, Auth, RateLimit, Handle, ReadFails, ReaderStops,
         WriterReturns, HubStops, reader, outward, history
<1>2. pc[c] \in Busy => pc'[c] \in Busy
  BY DEF Inv, TypeOK, ClientSends, ReadText, ReadFatal, Auth, RateLimit, Handle, ReadFails,
         ReaderStops, WriterReturns, HubStops, Goto, Busy, reader
<1>3. Out(c)' = Out(c)
  BY <1>1 DEF Out
<1> QED
  BY <1>1, <1>2, <1>3 DEF Accounted

\* A request that is accepted is in hand; before it none was.
LEMMA AcceptAccounts ==
  ASSUME Inv, NEW c \in Conns, Accounted(c), closed[c] => closed'[c],
         ReadBadInput(c) \/ ReadAuthFree(c) \/ ReadProtected(c)
  PROVE  Accounted(c)'
<1>1. PICK kinds : Accepts(c, kinds)
  BY DEF ReadBadInput, ReadAuthFree, ReadProtected
<1>2. /\ frame'[c] = Head(inbox[c]) /\ asked'[c] = asked[c] \union {Head(inbox[c]).seq}
      /\ UNCHANGED <<queue, wire, lost>>
  BY <1>1 DEF Accepts, Inv, TypeOK, outward
<1>3. pc[c] = "reading" /\ pc'[c] \in Busy
  BY DEF Inv, TypeOK, ReadBadInput, ReadAuthFree, ReadProtected, Goto, Busy
<1>4. Out(c)' = Out(c)
  BY <1>2 DEF Out
<1>5. ASSUME NEW n \in asked[c]
      PROVE  closed'[c] \/ n \in lost'[c] \/ Has(Out(c)', n)
  BY <1>2, <1>3, <1>4 DEF Accounted, Busy
<1> QED
  BY <1>2, <1>3, <1>5 DEF Accounted

\* The answer is sent, or recorded as lost, or nobody reads it any more.
LEMMA FinishAccounts ==
  ASSUME Inv, NEW c \in Conns, Accounted(c), closed[c] => closed'[c], Finish(c)
  PROVE  Accounted(c)'
<1> DEFINE a == [seq |-> frame[c].seq, body |-> body[c]]
<1>1. /\ pc[c] = "finish" /\ UNCHANGED <<wire, asked, closed>>
      /\ lost \in [Conns -> SUBSET Nat] /\ queue \in [Conns -> Seq(Answers)]
  BY DEF Finish, Goto, Inv, TypeOK
<1>2. a \in Answers /\ a.seq = frame[c].seq
  <2>1. frame[c].seq \in Nat /\ body[c] \in Bodies
    BY <1>1 DEF Inv, TypeOK, Frames, Good, HandInv, Bodies
  <2> QED
    BY <2>1, AnswerTypes
<1>3. \/ /\ queue'[c] = Enqueued(c, a)
         /\ lost'[c] = IF Full(c) THEN lost[c] \union {a.seq} ELSE lost[c]
      \/ queue'[c] = queue[c] /\ lost'[c] = lost[c] \union {a.seq}
  BY <1>1, <1>2 DEF Finish
<1> HIDE DEF a
<1>4. /\ closed[c] \/ a.seq \in lost'[c] \/ Has(Out(c)', a.seq)
      /\ \A n : Has(Out(c), n) => Has(Out(c)', n)
      /\ lost[c] \subseteq lost'[c]
  <2>1. CASE /\ queue'[c] = Enqueued(c, a)
             /\ lost'[c] = IF Full(c) THEN lost[c] \union {a.seq} ELSE lost[c]
    <3>1. /\ closed[c] \/ Full(c) \/ Has(Out(c)', a.seq)
          /\ \A n : Has(Out(c), n) => Has(Out(c)', n)
      BY <1>1, <1>2, <2>1, EnqueuedHas DEF Inv
    <3> QED
      BY <2>1, <3>1
  <2>2. CASE queue'[c] = queue[c] /\ lost'[c] = lost[c] \union {a.seq}
    <3>1. Out(c)' = Out(c)
      BY <1>1, <2>2 DEF Out
    <3> QED
      BY <2>2, <3>1
  <2> QED
    BY <1>3, <2>1, <2>2
<1>5. ASSUME NEW n \in asked[c]
      PROVE  closed'[c] \/ n \in lost'[c] \/ Has(Out(c)', n)
  <2>1. closed[c] \/ n \in lost[c] \/ n = a.seq \/ Has(Out(c), n)
    BY <1>2 DEF Accounted
  <2> QED
    BY <1>4, <2>1
<1> QED
  BY <1>1, <1>5 DEF Accounted

\* A frame that is written is still among those sent; a failing write closes.
LEMMA WriteAccounts ==
  ASSUME Inv, NEW c \in Conns, Accounted(c), Write(c)
  PROVE  Accounted(c)'
<1>1. /\ wire[c] \in Seq(Answers) /\ queue[c] \in Seq(Answers) /\ queue[c] # <<>>
      /\ queue'[c] = Tail(queue[c]) /\ UNCHANGED <<pc, frame, asked, lost>>
      /\ closed'[c] \/ (wire'[c] = Append(wire[c], Head(queue[c])) /\ closed'[c] = closed[c])
  BY DEF Inv, TypeOK, Write, reader, history
<1>2. CASE closed'[c]
  BY <1>2 DEF Accounted
<1>3. CASE wire'[c] = Append(wire[c], Head(queue[c])) /\ closed'[c] = closed[c]
  <2>1. Out(c)' = Out(c)
    BY <1>1, <1>3, OutWritten DEF Out
  <2> QED
    BY <1>1, <1>3, <2>1 DEF Accounted
<1> QED
  BY <1>1, <1>2, <1>3

LEMMA AccountedStep ==
  ASSUME Inv, [Next]_vars, NEW c \in Conns, Accounted(c)
  PROVE  Accounted(c)'
<1>0. closed[c] => closed'[c]
  BY StaysClosed DEF Inv
<1>1. CASE UNCHANGED View(c)
  BY <1>0, <1>1 DEF View, Accounted, Out
<1>2. ASSUME NEW d \in Conns, StepOf(d), c # d
      PROVE  Accounted(c)'
  BY <1>1, <1>2, OthersStay DEF Inv
<1>3. CASE StepOf(c)
  BY <1>0, <1>3, ReaderAccounts, AcceptAccounts, FinishAccounts, WriteAccounts
     DEF StepOf, ReaderStep
<1>4. CASE Broadcast
  <2> DEFINE a == [seq |-> 0, body |-> "push"]
  <2>1. a \in Answers
    BY AnswerTypes DEF Bodies
  <2>2. /\ queue'[c] = Enqueued(c, a) /\ wire'[c] = wire[c]
        /\ UNCHANGED <<pc, frame, asked, lost>>
    BY <1>4 DEF Broadcast, reader, history
  <2>3. \A n : Has(Out(c), n) => Has(Out(c)', n)
    BY <2>1, <2>2, EnqueuedHas DEF Inv
  <2> QED
    BY <1>0, <2>2, <2>3 DEF Accounted
<1>5. CASE (\E p \in Players : SessionExpires(p) \/ WindowEnds(p)) \/ UNCHANGED vars
  <2>1. UNCHANGED View(c)
    BY <1>5 DEF View, SessionExpires, WindowEnds, vars, socket, reader, outward, history
  <2> QED
    BY <1>1, <2>1
<1> QED
  BY <1>2, <1>3, <1>4, <1>5 DEF Next, StepOf

\* On a connection that lives, an accepted request is in hand, or its answer is queued or
\* written, or recorded as lost: no path of Dispatch drops a request silently.
THEOREM NoRequestIsForgotten == Spec => []NoneForgotten
<1>1. Init => NoneForgotten
  BY DEF Init, NoneForgotten, Accounted
<1>2. Inv /\ NoneForgotten /\ [Next]_vars => NoneForgotten'
  BY AccountedStep DEF NoneForgotten
<1> QED
  BY <1>1, <1>2, Invariance, PTL DEF Spec

\* The rate counter of a player has a time to live as long as it is there: the script of
\* Redis sets both in one step.
THEOREM CountersExpire == Spec => []CountersEnd
<1>1. Init => CountersEnd
  BY DEF Init, CountersEnd
<1>2. TypeOK /\ CountersEnd /\ [Next]_vars => CountersEnd'
  <2> SUFFICES ASSUME TypeOK, CountersEnd, [Next]_vars, NEW p \in Players, count'[p] > 0
               PROVE  ttl'[p]
    BY DEF CountersEnd
  <2>1. ASSUME NEW c \in Conns, Increment(uid[c])
        PROVE  ttl'[p]
    <3>1. count[p] \in Nat
      BY DEF TypeOK
    <3>2. CASE p = uid[c]
      <4>1. ttl'[p] = (ttl[p] \/ count[p] = 0)
        BY <2>1, <3>2, Zenon DEF Increment, TypeOK
      <4>2. count[p] = 0 \/ ttl[p]
        BY <3>1 DEF CountersEnd
      <4> QED
        BY <4>1, <4>2, Zenon
    <3>3. CASE p # uid[c]
      <4>1. ttl'[p] = ttl[p]
        BY <2>1, <3>3, Zenon DEF Increment, TypeOK
      <4>2. count'[p] = count[p]
        BY <2>1, <3>3 DEF Increment, TypeOK
      <4>3. ttl[p]
        BY <4>2 DEF CountersEnd
      <4> QED
        BY <4>1, <4>3, Zenon
    <3> QED
      BY <3>2, <3>3
  <2>2. ASSUME NEW q \in Players, WindowEnds(q)
        PROVE  ttl'[p]
    <3>1. p # q
      BY <2>2 DEF WindowEnds, TypeOK
    <3>2. ttl'[p] = ttl[p]
      BY <2>2, <3>1, Zenon DEF WindowEnds, TypeOK
    <3>3. count'[p] = count[p]
      BY <2>2, <3>1 DEF WindowEnds, TypeOK
    <3>4. ttl[p]
      BY <3>3 DEF CountersEnd
    <3> QED
      BY <3>2, <3>4, Zenon
  <2>3. CASE UNCHANGED <<count, ttl>>
    BY <2>3 DEF CountersEnd
  <2>4. ASSUME NEW c \in Conns, RateLimit(c)
        PROVE  Increment(uid[c]) \/ UNCHANGED <<count, ttl>>
    BY <2>4 DEF RateLimit
  <2> QED
    BY <2>1, <2>2, <2>3, <2>4
       DEF Next, ReaderStep, ClientSends, ReadText, ReadFatal, ReadBadInput, ReadAuthFree,
           ReadProtected, Accepts, Auth, Handle, Finish, ReaderStops, ReadFails, Write,
           WriterReturns, HubStops, Broadcast, SessionExpires, redis, vars
<1> QED
  BY <1>1, <1>2, TypeCorrect, PTL DEF Spec

=============================================================================
