------------------------- MODULE LoginSessionProofs -------------------------
(***************************************************************************)
(* Proofs about LoginSession, for any connections, users, ids and scores.  *)
(*                                                                         *)
(* One player per open id is inductive only with HandInv, which says what  *)
(* a handler knows of the row it is about to overwrite: that the row is    *)
(* there, and has the open id that the handler will write back.  A best    *)
(* score falls only when such a handler writes back an older one.          *)
(***************************************************************************)
EXTENDS LoginSession, TLAPS

KnowsRow(c) ==
  /\ pc[c] = "create" => hand[c].row.openid \in OpenIDs
  /\ pc[c] \notin {"idle", "create"} => hand[c].uid \in Uids /\ Exists(hand[c].uid)
  /\ pc[c] \in {"name", "token"} => hand[c].row.openid = players[hand[c].uid].openid

HandInv == \A c \in Conns : KnowsRow(c)

Inv == TypeOK /\ HandInv /\ OnePlayerPerOpenID

\* The step of connection c, without the choices it makes.
StepOf(c) ==
  \/ \E o \in OpenIDs : Lookup(c, o)
  \/ Create(c) \/ Name(c) \/ WriteToken(c)
  \/ GetSession(c) \/ HSet(c) \/ Expire(c)
  \/ Fail(c) \/ Reconnect(c)
  \/ \E score \in Scores : SubmitScore(c, score)

\* A row, once there, keeps its open id: what the steps of a handler mean for the
\* others.
OpenIdsKept == \A u \in Uids : Exists(u) => players'[u].openid = players[u].openid

-----------------------------------------------------------------------------
\* Whatever WeChat answers, a login goes on with an open id only.
LEMMA ExchangedIsOpenID == \A o \in Exchanged : o \in OpenIDs
<1> SUFFICES ASSUME NEW code \in Codes, NEW reply \in Replies,
                    WechatExchange(code, reply).err = "none"
             PROVE  WechatExchange(code, reply).openid \in OpenIDs
  BY DEF Exchanged
<1>1. WechatExchange(code, reply) = Identity(reply.openid) /\ reply.openid # Missing
  BY DEF WechatExchange, Code2Session, Unspecific, Failed
<1> QED
  BY <1>1 DEF Identity, Replies

\* A client is told that its code is invalid exactly when the code is one for the
\* development runtime, blank, or refused by WeChat: never because WeChat is down,
\* busy or answers nonsense (handler.go 67-75), which a new code would not repair.
THEOREM CodesAreBlamedRightly ==
  ASSUME NEW code \in Codes, NEW reply \in Replies
  PROVE  LET result == WechatExchange(code, reply)
             refused == reply.arrived /\ reply.ok /\ reply.json /\ reply.errcode = InvalidCode
         IN  result.err # "none" =>
               (classifyLoginError(result) = "ErrLoginInvalidCode" <=>
                  code.dev \/ code.blank \/ refused)
<1>1. CASE code.dev \/ code.blank
  BY <1>1 DEF WechatExchange, Failed, classifyLoginError
<1>2. CASE ~code.dev /\ ~code.blank
  BY <1>2 DEF WechatExchange, Code2Session, Unspecific, Failed, Identity, classifyLoginError
<1> QED
  BY <1>1, <1>2

PCs == {"idle", "create", "name", "token", "hset", "expire", "rehset", "reexpire"}

\* Whatever a handler keeps, and wherever it goes, is of the right type.
LEMMA LocalTypes ==
  ASSUME TypeOK, NEW c \in Conns, NEW to \in PCs, NEW local \in Hands,
         Then(c, to, local) \/ (Goto(c, to) /\ hand' = [hand EXCEPT ![c] = local])
  PROVE  /\ hand' \in [Conns -> Hands]
         /\ pc' \in [Conns -> PCs]
<1>1. NoHand \in Hands
  BY MaxLoginsAssumption DEF Holds, NoHand, Hands, NoRow, Rows, Tokens
<1> QED
  BY <1>1 DEF Then, Goto, TypeOK, PCs

\* The types are kept by every step: sessions and handlers only ever name ids of
\* the table.
LEMMA TypeStep == TypeOK /\ HandInv /\ [Next]_vars => TypeOK'
<1> SUFFICES ASSUME TypeOK, HandInv, [Next]_vars PROVE TypeOK'
  OBVIOUS
<1> USE MaxLoginsAssumption
<1>a. NoHand \in Hands /\ "idle" \in PCs
  BY DEF Holds, NoHand, Hands, NoRow, Rows, Tokens, PCs
<1>1. ASSUME NEW c \in Conns, NEW o \in OpenIDs, Lookup(c, o) PROVE TypeOK'
  <2>1. hand' \in [Conns -> Hands] /\ pc' \in [Conns -> PCs]
    <3>1. CASE \A u \in Uids : players[u].openid # o
      <4>1. [NoRow EXCEPT !.openid = o] \in Rows
        BY DEF NoRow, Rows
      <4>2. Holds(None, [NoRow EXCEPT !.openid = o], 0) \in Hands
        BY <4>1 DEF Holds, Hands, Tokens
      <4> QED
        BY <1>1, <3>1, <4>2, LocalTypes DEF Lookup, PCs
    <3>2. ASSUME NEW u \in Uids, Goto(c, "token"),
                 hand' = [hand EXCEPT ![c] = Holds(u, players[u], 0)]
          PROVE  hand' \in [Conns -> Hands] /\ pc' \in [Conns -> PCs]
      <4>1. Holds(u, players[u], 0) \in Hands
        BY DEF Holds, NoHand, Hands, Tokens, TypeOK
      <4> QED
        BY <3>2, <4>1, LocalTypes DEF PCs
    <3> QED
      BY <1>1, <3>1, <3>2 DEF Lookup
  <2> QED
    BY <1>1, <2>1 DEF TypeOK, Lookup, PCs, database, redis, bound
<1>2. ASSUME NEW c \in Conns, Create(c) PROVE TypeOK'
  <2>1. PICK u \in Uids : /\ players' = [players EXCEPT ![u] = hand[c].row]
                          /\ Then(c, "name", [hand[c] EXCEPT !.uid = u])
    BY <1>2 DEF Create
  <2>2. [hand[c] EXCEPT !.uid = u] \in Hands
    BY DEF Hands, TypeOK
  <2>3. hand' \in [Conns -> Hands] /\ pc' \in [Conns -> PCs]
    BY <2>1, <2>2, LocalTypes DEF PCs
  <2> QED
    BY <1>2, <2>1, <2>3 DEF TypeOK, Create, Hands, PCs, redis, bound
<1>3. ASSUME NEW c \in Conns, Name(c) PROVE TypeOK'
  <2>1. [hand[c].row EXCEPT !.named = TRUE] \in Rows
    BY DEF Hands, Rows, TypeOK
  <2>2. [hand[c] EXCEPT !.row = [hand[c].row EXCEPT !.named = TRUE]] \in Hands
    BY <2>1 DEF Hands, TypeOK
  <2>3. hand' \in [Conns -> Hands] /\ pc' \in [Conns -> PCs]
    BY <1>3, <2>2, LocalTypes DEF Name, PCs
  <2> QED
    BY <1>3, <2>1, <2>3 DEF TypeOK, Name, UpdatePlayer, PCs, redis, bound
<1>4. ASSUME NEW c \in Conns, WriteToken(c) PROVE TypeOK'
  <2>1. issued' \in Tokens
    BY <1>4 DEF WriteToken, TypeOK, Tokens
  <2>2. [hand[c] EXCEPT !.token = issued'] \in Hands
    BY <2>1 DEF Hands, TypeOK
  <2>3. hand' \in [Conns -> Hands] /\ pc' \in [Conns -> PCs]
    BY <1>4, <2>2, LocalTypes DEF WriteToken, PCs
  <2>4. hand[c].row \in Rows
    BY DEF Hands, TypeOK
  <2> QED
    BY <1>4, <2>1, <2>3, <2>4 DEF TypeOK, WriteToken, UpdatePlayer, PCs, redis, bound
<1>5. ASSUME NEW c \in Conns, GetSession(c) PROVE TypeOK'
  <2> DEFINE local == Holds(uid[c], NoRow, IF uid[c] \in live THEN token[uid[c]] ELSE 0)
  <2>1. local \in Hands
    BY <1>5 DEF Holds, NoHand, Hands, NoRow, Rows, Tokens, TypeOK
  <2>2. hand' \in [Conns -> Hands] /\ pc' \in [Conns -> PCs]
    BY <1>5, <2>1, LocalTypes DEF GetSession, PCs
  <2> QED
    BY <1>5, <2>2 DEF TypeOK, GetSession, PCs, database, redis, bound
<1>6. ASSUME NEW c \in Conns, HSet(c) PROVE TypeOK'
  <2>1. hand[c].uid \in Uids
    BY <1>6 DEF HSet, HandInv, KnowsRow
  <2>2. hand[c] \in Hands /\ hand[c].token \in Tokens
    BY DEF TypeOK, Hands
  <2>3. hand' \in [Conns -> Hands] /\ pc' \in [Conns -> PCs]
    BY <1>6, <2>2, LocalTypes DEF HSet, PCs
  <2> QED
    BY <1>6, <2>1, <2>2, <2>3 DEF TypeOK, HSet, PCs, database, bound
<1>7. ASSUME NEW c \in Conns, Expire(c) PROVE TypeOK'
  <2>1. hand[c].uid \in Uids
    BY <1>7 DEF Expire, Expiring, HandInv, KnowsRow
  <2>2. hand' \in [Conns -> Hands] /\ pc' \in [Conns -> PCs]
    BY <1>7, <1>a, LocalTypes DEF Expire
  <2>3. uid' \in [Conns -> Uids \union {None}] /\ tok' \in [Conns -> Tokens]
    BY <1>7, <2>1 DEF Expire, Bind, bound, TypeOK, Hands
  <2>4. /\ ttl' = ttl \union ({hand[c].uid} \intersect live)
        /\ unended' = unended \ {hand[c].uid}
        /\ UNCHANGED <<live, token, players, issued>>
    BY <1>7 DEF Expire, database
  <2> QED
    BY <2>1, <2>2, <2>3, <2>4 DEF TypeOK, PCs
<1>8. ASSUME NEW c \in Conns, Fail(c) PROVE TypeOK'
  <2>1. Expiring(c) => hand[c].uid \in Uids
    BY DEF Expiring, HandInv, KnowsRow
  <2>2. hand' \in [Conns -> Hands] /\ pc' \in [Conns -> PCs]
    BY <1>8, <1>a, LocalTypes DEF Fail
  <2> QED
    BY <1>8, <2>1, <2>2 DEF TypeOK, Fail, PCs, database, bound
<1>9. ASSUME NEW c \in Conns, Reconnect(c) PROVE TypeOK'
  BY <1>9 DEF TypeOK, Reconnect, Tokens, database, redis
<1>10. ASSUME NEW c \in Conns, NEW score \in Scores, SubmitScore(c, score) PROVE TypeOK'
  BY <1>10, ScoresAssumption DEF TypeOK, SubmitScore, Authorised, Rows, redis, bound
<1>11. CASE Crash
  <2>1. {hand[c].uid : c \in {d \in Conns : Expiring(d)}} \subseteq Uids
    BY DEF Expiring, HandInv, KnowsRow
  <2> QED
    BY <1>11, <1>a, <2>1 DEF TypeOK, Crash, Tokens, database
<1>12. ASSUME NEW u \in Uids, SessionExpires(u) PROVE TypeOK'
  BY <1>12 DEF TypeOK, SessionExpires, Tokens, database, bound
<1>13. CASE UNCHANGED vars
  BY <1>13 DEF TypeOK, vars, database, redis, bound
<1> QED
  BY <1>1, <1>2, <1>3, <1>4, <1>5, <1>6, <1>7, <1>8, <1>9, <1>10, <1>11, <1>12, <1>13,
     ExchangedIsOpenID DEF Next

-----------------------------------------------------------------------------
\* Whoever writes a row writes back the open id it has.
LEMMA OpenIdStep == TypeOK /\ HandInv /\ [Next]_vars => OpenIdsKept
<1> SUFFICES ASSUME TypeOK, HandInv, [Next]_vars PROVE OpenIdsKept
  OBVIOUS
<1>1. ASSUME NEW c \in Conns, Create(c) PROVE OpenIdsKept
  BY <1>1 DEF Create, OpenIdsKept, TypeOK
<1>2. ASSUME NEW c \in Conns, Name(c) PROVE OpenIdsKept
  BY <1>2 DEF Name, UpdatePlayer, OpenIdsKept, HandInv, KnowsRow, TypeOK, Hands, Rows
<1>3. ASSUME NEW c \in Conns, WriteToken(c) PROVE OpenIdsKept
  BY <1>3 DEF WriteToken, UpdatePlayer, OpenIdsKept, HandInv, KnowsRow, TypeOK, Hands, Rows
<1>4. ASSUME NEW c \in Conns, NEW score \in Scores, SubmitScore(c, score) PROVE OpenIdsKept
  BY <1>4 DEF SubmitScore, Authorised, OpenIdsKept, TypeOK, Rows
<1>5. CASE UNCHANGED players
  BY <1>5 DEF OpenIdsKept
<1>6. ASSUME NEW c \in Conns, NEW o \in OpenIDs, Lookup(c, o) PROVE UNCHANGED players
  BY <1>6 DEF Lookup, database
<1>7. ASSUME NEW c \in Conns, GetSession(c) \/ HSet(c) \/ Expire(c) \/ Fail(c) \/ Reconnect(c)
      PROVE  UNCHANGED players
  BY <1>7 DEF GetSession, HSet, Expire, Fail, Reconnect, database
<1>8. ASSUME Crash \/ (\E u \in Uids : SessionExpires(u)) \/ UNCHANGED vars PROVE UNCHANGED players
  BY <1>8 DEF Crash, SessionExpires, vars, database
<1> QED
  BY <1>1, <1>2, <1>3, <1>4, <1>5, <1>6, <1>7, <1>8, ExchangedIsOpenID DEF Next

-----------------------------------------------------------------------------
\* A step of one connection leaves the handlers of the others alone.
LEMMA OthersStay ==
  ASSUME TypeOK, NEW c \in Conns, NEW d \in Conns, StepOf(c), c # d
  PROVE  UNCHANGED <<pc[d], hand[d]>>
BY DEF StepOf, Lookup, Create, Name, WriteToken, GetSession, HSet, Expire, Fail, Reconnect,
       SubmitScore, Then, Goto, TypeOK

\* What a handler knows of its row survives its own steps and those of the others.
LEMMA HandStep == TypeOK /\ HandInv /\ OnePlayerPerOpenID /\ [Next]_vars => HandInv'
<1> SUFFICES ASSUME TypeOK, HandInv, OnePlayerPerOpenID, [Next]_vars,
                    NEW d \in Conns
             PROVE  KnowsRow(d)'
  BY DEF HandInv
<1> USE NoneAssumption
<1>1. OpenIdsKept
  BY OpenIdStep
\* Another connection's step leaves pc[d] and hand[d] alone.
<1>2. ASSUME UNCHANGED <<pc[d], hand[d]>> PROVE KnowsRow(d)'
  <2>1. pc[d] \notin {"idle", "create"} => hand[d].uid \in Uids /\ Exists(hand[d].uid)
    BY DEF HandInv, KnowsRow
  <2>2. pc[d] \notin {"idle", "create"} =>
          /\ players'[hand[d].uid].openid = players[hand[d].uid].openid
          /\ Exists(hand[d].uid)'
    BY <1>1, <1>2, <2>1 DEF OpenIdsKept, Exists
  <2> QED
    BY <1>2, <2>1, <2>2 DEF HandInv, KnowsRow, Exists
\* A handler that ends knows nothing.
<1>3. ASSUME pc'[d] = "idle" PROVE KnowsRow(d)'
  BY <1>3 DEF KnowsRow
<1>4. ASSUME NEW c \in Conns, StepOf(c), c # d PROVE UNCHANGED <<pc[d], hand[d]>>
  BY <1>4, OthersStay
<1>5. ASSUME NEW o \in OpenIDs, Lookup(d, o) PROVE KnowsRow(d)'
  BY <1>5 DEF KnowsRow, Lookup, Goto, Holds, NoRow, Exists, TypeOK, database
<1>6. CASE Create(d)
  <2>1. PICK u \in Uids : /\ ~Exists(u)
                          /\ players' = [players EXCEPT ![u] = hand[d].row]
                          /\ Then(d, "name", [hand[d] EXCEPT !.uid = u])
    BY <1>6 DEF Create
  <2>2. hand[d] \in Hands /\ hand[d].row.openid \in OpenIDs
    BY <1>6 DEF TypeOK, Create, HandInv, KnowsRow
  <2>3. CASE pc'[d] = "name" /\ hand'[d] = [hand[d] EXCEPT !.uid = u]
    BY <2>1, <2>2, <2>3 DEF KnowsRow, Exists, Hands, TypeOK
  <2> QED
    BY <1>3, <2>1, <2>3 DEF Then, Goto, TypeOK
<1>7. CASE Name(d)
  <2> DEFINE row == [hand[d].row EXCEPT !.named = TRUE]
             local == [hand[d] EXCEPT !.row = row]
  <2>1. /\ hand[d] \in Hands /\ hand[d].row \in Rows
        /\ hand[d].uid \in Uids /\ Exists(hand[d].uid)
        /\ hand[d].row.openid = players[hand[d].uid].openid
    BY <1>7 DEF TypeOK, Name, HandInv, KnowsRow, Hands
  <2>2. row.openid = hand[d].row.openid
    BY <2>1 DEF Rows
  <2>3. local.uid = hand[d].uid /\ local.row = row
    BY <2>1 DEF Hands
  <2>4. players'[hand[d].uid] = row
    BY <1>7, <2>1 DEF Name, UpdatePlayer, TypeOK
  <2> HIDE DEF row, local
  <2>5. CASE pc'[d] = "token" /\ hand'[d] = local
    BY <2>1, <2>2, <2>3, <2>4, <2>5 DEF KnowsRow, Exists
  <2>6. Then(d, "token", local)
    BY <1>7 DEF Name, row, local
  <2> QED
    BY <1>3, <2>5, <2>6 DEF Then, Goto, TypeOK
<1>8. CASE WriteToken(d)
  <2>1. hand[d] \in Hands /\ hand[d].uid \in Uids /\ Exists(hand[d].uid)
    BY <1>8 DEF TypeOK, WriteToken, HandInv, KnowsRow
  <2>2. players'[hand[d].uid].openid # None
    BY <1>1, <2>1 DEF OpenIdsKept, Exists
  <2>3. CASE pc'[d] = "hset" /\ hand'[d] = [hand[d] EXCEPT !.token = issued']
    BY <2>1, <2>2, <2>3 DEF KnowsRow, Hands, Exists
  <2> QED
    BY <1>3, <1>8, <2>3 DEF WriteToken, Then, Goto, TypeOK
<1>9. CASE GetSession(d)
  BY <1>9 DEF KnowsRow, GetSession, Goto, Holds, Exists, TypeOK, OnePlayerPerOpenID, database
<1>10. CASE HSet(d)
  <2>1. hand[d].uid \in Uids /\ Exists(hand[d].uid) /\ UNCHANGED players
    BY <1>10 DEF HSet, HandInv, KnowsRow, database
  <2>2. CASE pc'[d] \in {"expire", "reexpire"} /\ hand'[d] = hand[d]
    BY <2>1, <2>2 DEF KnowsRow, Exists
  <2> QED
    BY <1>3, <1>10, <2>2 DEF HSet, Then, Goto, TypeOK
<1>11. CASE Expire(d) \/ Fail(d)
  BY <1>3, <1>11 DEF Expire, Fail, Goto, TypeOK
<1>12. CASE Reconnect(d) \/ \E score \in Scores : SubmitScore(d, score)
  BY <1>2, <1>12 DEF Reconnect, SubmitScore
<1>13. CASE Crash
  BY <1>3, <1>13 DEF Crash
<1>14. CASE (\E u \in Uids : SessionExpires(u)) \/ UNCHANGED vars
  BY <1>2, <1>14 DEF SessionExpires, vars
<1>15. ASSUME NEW c \in Conns, StepOf(c) PROVE KnowsRow(d)'
  <2>1. CASE c # d
    BY <1>2, <1>4, <1>15, <2>1
  <2>2. CASE c = d
    BY <1>5, <1>6, <1>7, <1>8, <1>9, <1>10, <1>11, <1>12, <1>15, <2>2 DEF StepOf
  <2> QED
    BY <2>1, <2>2
<1> QED
  BY <1>13, <1>14, <1>15, ExchangedIsOpenID DEF Next, StepOf

-----------------------------------------------------------------------------
\* The unique index refuses the second insert, and no other statement gives a row
\* an open id; a connection is bound to the row its handler worked on.
LEMMA UniqueStep == Inv /\ [Next]_vars => OnePlayerPerOpenID'
<1> SUFFICES ASSUME Inv, [Next]_vars PROVE OnePlayerPerOpenID'
  OBVIOUS
<1> USE DEF Inv
<1>1. OpenIdsKept
  BY OpenIdStep
<1> DEFINE Unique == \A u, v \in Uids : (Exists(u) /\ players[u].openid = players[v].openid) => u = v
           Bound  == \A c \in Conns : uid[c] # None => Exists(uid[c])
\* The rows.
<1>2. Unique'
  <2>1. CASE \A u \in Uids : Exists(u) \/ players'[u] = players[u]
    BY <1>1, <2>1 DEF OpenIdsKept, Exists, OnePlayerPerOpenID
  <2>2. ASSUME NEW c \in Conns, Create(c) PROVE Unique'
    <3>1. PICK w \in Uids : ~Exists(w) /\ players' = [players EXCEPT ![w] = hand[c].row]
      BY <2>2 DEF Create
    <3>2. \A v \in Uids : players[v].openid # hand[c].row.openid
      BY <2>2 DEF Create
    <3>3. \A u \in Uids : players'[u] = IF u = w THEN hand[c].row ELSE players[u]
      BY <3>1 DEF TypeOK
    <3> QED
      BY <3>2, <3>3 DEF Exists, OnePlayerPerOpenID
  <2>3. ASSUME NEW c \in Conns, Name(c) \/ WriteToken(c) \/ \E score \in Scores : SubmitScore(c, score)
        PROVE  \A u \in Uids : Exists(u) \/ players'[u] = players[u]
    <3>1. PICK w : Exists(w) /\ \E row : players' = [players EXCEPT ![w] = row]
      <4>1. CASE Name(c) \/ WriteToken(c)
        BY <4>1 DEF Name, WriteToken, UpdatePlayer, HandInv, KnowsRow
      <4>2. CASE \E score \in Scores : SubmitScore(c, score)
        BY <4>2, NoneAssumption DEF SubmitScore, Authorised, OnePlayerPerOpenID
      <4> QED
        BY <2>3, <4>1, <4>2
    <3> QED
      BY <3>1 DEF TypeOK
  <2>4. ASSUME UNCHANGED players PROVE \A u \in Uids : Exists(u) \/ players'[u] = players[u]
    BY <2>4
  <2>5. ASSUME NEW c \in Conns,
               \/ \E o \in OpenIDs : Lookup(c, o)
               \/ GetSession(c) \/ HSet(c) \/ Expire(c) \/ Fail(c) \/ Reconnect(c)
        PROVE  UNCHANGED players
    BY <2>5 DEF Lookup, GetSession, HSet, Expire, Fail, Reconnect, database
  <2>6. ASSUME Crash \/ (\E u \in Uids : SessionExpires(u)) \/ UNCHANGED vars PROVE UNCHANGED players
    BY <2>6 DEF Crash, SessionExpires, vars, database
  <2> QED
    BY <2>1, <2>2, <2>3, <2>4, <2>5, <2>6, ExchangedIsOpenID DEF Next
\* The connections.
<1>3. Bound'
  <2> SUFFICES ASSUME NEW d \in Conns, uid'[d] # None
               PROVE  players'[uid'[d]].openid # None
    BY DEF Exists
  <2>1. CASE uid'[d] = uid[d]
    <3>1. uid[d] \in Uids /\ Exists(uid[d])
      BY <2>1 DEF TypeOK, OnePlayerPerOpenID
    <3> QED
      BY <1>1, <2>1, <3>1 DEF OpenIdsKept, Exists
  <2>2. CASE uid'[d] = hand[d].uid /\ Expiring(d)
    <3>1. hand[d].uid \in Uids /\ Exists(hand[d].uid)
      BY <2>2 DEF HandInv, KnowsRow, Expiring
    <3> QED
      BY <1>1, <2>2, <3>1 DEF OpenIdsKept, Exists
  <2>3. ASSUME NEW c \in Conns, Expire(c) PROVE uid'[d] = uid[d] \/ (uid'[d] = hand[d].uid /\ Expiring(d))
    BY <2>3 DEF Expire, Bind, bound, TypeOK
  <2>4. ASSUME NEW c \in Conns, Reconnect(c) PROVE uid'[d] = uid[d]
    BY <2>4 DEF Reconnect, TypeOK
  <2>5. ASSUME NEW c \in Conns,
               \/ \E o \in OpenIDs : Lookup(c, o)
               \/ Create(c) \/ Name(c) \/ WriteToken(c) \/ GetSession(c) \/ HSet(c) \/ Fail(c)
               \/ \E score \in Scores : SubmitScore(c, score)
        PROVE  uid'[d] = uid[d]
    BY <2>5 DEF Lookup, Create, Name, WriteToken, GetSession, HSet, Fail, SubmitScore, bound
  <2>6. ASSUME (\E u \in Uids : SessionExpires(u)) \/ UNCHANGED vars PROVE uid'[d] = uid[d]
    BY <2>6 DEF SessionExpires, vars, bound
  <2>7. ASSUME Crash PROVE FALSE
    BY <2>7 DEF Crash
  <2> QED
    BY <2>1, <2>2, <2>3, <2>4, <2>5, <2>6, <2>7, ExchangedIsOpenID DEF Next
\* The open ids.
<1>4. (\A u \in Uids : Exists(u) => players[u].openid \in OpenIDs)'
  <2>1. TypeOK'
    BY TypeStep
  <2> QED
    BY <2>1 DEF TypeOK, Rows, Exists
<1> QED
  BY <1>2, <1>3, <1>4 DEF OnePlayerPerOpenID

-----------------------------------------------------------------------------
\* Whoever makes a session goes on to EXPIRE or leaves a mark, and so does whoever
\* stops before EXPIRE.
LEMMA SessionStep == TypeOK /\ SessionsEnd /\ [Next]_vars => SessionsEnd'
<1> SUFFICES ASSUME TypeOK, SessionsEnd, [Next]_vars,
                    NEW u, u \in live', u \notin ttl' \union unended'
             PROVE  \E c \in Conns : Expiring(c)' /\ hand'[c].uid = u
  BY DEF SessionsEnd
<1> DEFINE Witness == \E c \in Conns : Expiring(c)' /\ hand'[c].uid = u
\* An id without an end before the step has a witness, and it remains one unless
\* its own handler takes the step.
<1>1. ASSUME u \in live, u \notin ttl \union unended
      PROVE  \E d \in Conns : Expiring(d) /\ hand[d].uid = u
  BY <1>1 DEF SessionsEnd
<1>2. ASSUME NEW d \in Conns, Expiring(d), hand[d].uid = u, UNCHANGED <<pc[d], hand[d]>>
      PROVE  Witness
  BY <1>2 DEF Expiring
<1>3. ASSUME NEW c \in Conns, StepOf(c),
             UNCHANGED <<live, ttl>>, unended \subseteq unended', ~Expiring(c)
      PROVE  Witness
  <2>1. PICK d \in Conns : Expiring(d) /\ hand[d].uid = u
    BY <1>1, <1>3
  <2>2. UNCHANGED <<pc[d], hand[d]>>
    BY <1>3, <2>1, OthersStay
  <2> QED
    BY <1>2, <2>1, <2>2
<1>4. ASSUME NEW c \in Conns,
             \/ \E o \in OpenIDs : Lookup(c, o)
             \/ Create(c) \/ Name(c) \/ WriteToken(c) \/ GetSession(c) \/ Reconnect(c)
             \/ \E score \in Scores : SubmitScore(c, score)
      PROVE  Witness
  <2>1. StepOf(c) /\ UNCHANGED redis /\ ~Expiring(c)
    BY <1>4 DEF StepOf, Lookup, Create, Name, WriteToken, GetSession, Reconnect, SubmitScore, Expiring
  <2> QED
    BY <1>3, <2>1 DEF redis
<1>5. ASSUME NEW c \in Conns, HSet(c) PROVE Witness
  <2>1. /\ live' = live \union {hand[c].uid}
        /\ UNCHANGED ttl
        /\ pc[c] \in {"hset", "rehset"}
        /\ Then(c, IF pc[c] = "hset" THEN "expire" ELSE "reexpire", hand[c])
        /\ unended' = IF pc'[c] = "idle" THEN unended \union {hand[c].uid} ELSE unended
    BY <1>5 DEF HSet
  <2>2. CASE u = hand[c].uid
    <3>1. pc'[c] # "idle"
      BY <2>1, <2>2
    <3>2. pc'[c] \in {"expire", "reexpire"} /\ hand'[c] = hand[c]
      BY <2>1, <3>1 DEF Then, Goto, TypeOK
    <3> QED
      BY <2>2, <3>2 DEF Expiring
  <2>3. CASE u # hand[c].uid
    <3>1. PICK d \in Conns : Expiring(d) /\ hand[d].uid = u
      BY <1>1, <2>1, <2>3
    <3>2. UNCHANGED <<pc[d], hand[d]>>
      BY <1>5, <2>3, <3>1, OthersStay DEF StepOf
    <3> QED
      BY <1>2, <3>1, <3>2
  <2> QED
    BY <2>2, <2>3
<1>6. ASSUME NEW c \in Conns, Expire(c) PROVE Witness
  <2>1. /\ ttl' = ttl \union ({hand[c].uid} \intersect live)
        /\ unended' = unended \ {hand[c].uid}
        /\ UNCHANGED live
    BY <1>6 DEF Expire
  <2>2. u # hand[c].uid /\ u \in live /\ u \notin ttl \union unended
    BY <2>1
  <2>3. PICK d \in Conns : Expiring(d) /\ hand[d].uid = u
    BY <1>1, <2>2
  <2>4. UNCHANGED <<pc[d], hand[d]>>
    BY <1>6, <2>2, <2>3, OthersStay DEF StepOf
  <2> QED
    BY <1>2, <2>3, <2>4
<1>7. ASSUME NEW c \in Conns, Fail(c) PROVE Witness
  <2>1. /\ UNCHANGED <<live, ttl>>
        /\ unended' = IF Expiring(c) THEN unended \union {hand[c].uid} ELSE unended
    BY <1>7 DEF Fail
  <2>2. PICK d \in Conns : Expiring(d) /\ hand[d].uid = u
    BY <1>1, <2>1
  <2>3. d # c
    BY <2>1, <2>2
  <2>4. UNCHANGED <<pc[d], hand[d]>>
    BY <1>7, <2>3, OthersStay DEF StepOf
  <2> QED
    BY <1>2, <2>2, <2>4
<1>8. CASE Crash
  <2>1. /\ UNCHANGED <<live, ttl>>
        /\ unended' = unended \union {hand[c].uid : c \in {d \in Conns : Expiring(d)}}
    BY <1>8 DEF Crash
  <2>2. PICK d \in Conns : Expiring(d) /\ hand[d].uid = u
    BY <1>1, <2>1
  <2> QED
    BY <2>1, <2>2
<1>9. ASSUME NEW v \in Uids, SessionExpires(v) PROVE Witness
  <2>1. /\ live' = live \ {v} /\ ttl' = ttl \ {v}
        /\ UNCHANGED <<unended, pc, hand>>
    BY <1>9 DEF SessionExpires
  <2> QED
    BY <1>1, <1>2, <2>1
<1>10. CASE UNCHANGED vars
  BY <1>1, <1>2, <1>10 DEF vars, redis
<1> QED
  BY <1>4, <1>5, <1>6, <1>7, <1>8, <1>9, <1>10, ExchangedIsOpenID DEF Next

-----------------------------------------------------------------------------
\* For any connections, users and ids, with every failure, lost answer and crash.
THEOREM Invariance == Spec => []Inv
<1>1. Init => Inv
  <2> SUFFICES ASSUME Init PROVE Inv
    OBVIOUS
  <2>1. NoHand \in Hands /\ NoRow \in Rows
    BY MaxLoginsAssumption DEF NoHand, Holds, Hands, NoRow, Rows, Tokens
  <2>2. TypeOK
    BY <2>1, MaxLoginsAssumption DEF Init, TypeOK, Tokens
  <2> QED
    BY <2>2 DEF Init, Inv, HandInv, KnowsRow, OnePlayerPerOpenID, Exists, NoRow
<1>2. Inv /\ [Next]_vars => Inv'
  BY TypeStep, HandStep, UniqueStep DEF Inv
<1> QED
  BY <1>1, <1>2, PTL DEF Spec

\* Handlers, rows and sessions keep their types.
THEOREM TypeCorrect == Spec => []TypeOK
BY Invariance, PTL DEF Inv

\* There is at most one player per open id, and who is logged in is logged in as a
\* player of the table.
THEOREM AccountsAreUnique == Spec => []OnePlayerPerOpenID
BY Invariance, PTL DEF Inv

\* A session has an end, is about to get one, or lacks it because EXPIRE failed.
THEOREM NoEndlessSession == Spec => []SessionsEnd
<1>1. Init => SessionsEnd
  BY DEF Init, SessionsEnd
<1>2. TypeOK /\ SessionsEnd /\ [Next]_vars => SessionsEnd'
  BY SessionStep
<1> QED
  BY <1>1, <1>2, TypeCorrect, PTL DEF Spec

-----------------------------------------------------------------------------
(* The best score                                                            *)

\* An id that is not in use has no score.
BlankInv == \A u \in Uids : ~Exists(u) => players[u].best = 0

\* What makes a best score fall: a login writes back the row it had read before.
StaleWriteBack ==
  \A u \in Uids : players'[u].best < players[u].best =>
    \E c \in Conns : /\ Name(c) \/ WriteToken(c)
                     /\ hand[c].uid = u /\ hand[c].row.best < players[u].best

\* A statement of a login or a score that is higher; nothing else writes a row.
LEMMA RowStep ==
  ASSUME Inv, [Next]_vars
  PROVE  \/ UNCHANGED players
         \/ \E c \in Conns, u \in Uids :
              Create(c) /\ ~Exists(u) /\ players' = [players EXCEPT ![u] = hand[c].row]
         \/ \E c \in Conns, row \in Rows :
              /\ (Name(c) \/ WriteToken(c)) /\ hand[c].uid \in Uids /\ Exists(hand[c].uid)
              /\ row.openid # None /\ row.best = hand[c].row.best
              /\ players' = [players EXCEPT ![hand[c].uid] = row]
         \/ \E c \in Conns, score \in Scores :
              /\ uid[c] \in Uids /\ Exists(uid[c]) /\ players[uid[c]].best < score
              /\ players' = [players EXCEPT ![uid[c]].best = score]
<1> USE NoneAssumption DEF Inv
<1>1. ASSUME NEW c \in Conns, Create(c)
      PROVE  \E u \in Uids : ~Exists(u) /\ players' = [players EXCEPT ![u] = hand[c].row]
  BY <1>1 DEF Create
<1>2. ASSUME NEW c \in Conns, Name(c) \/ WriteToken(c)
      PROVE  \E row \in Rows :
               /\ hand[c].uid \in Uids /\ Exists(hand[c].uid)
               /\ row.openid # None /\ row.best = hand[c].row.best
               /\ players' = [players EXCEPT ![hand[c].uid] = row]
  <2>1. /\ hand[c].uid \in Uids /\ Exists(hand[c].uid)
        /\ hand[c].row \in Rows /\ hand[c].row.openid # None
    BY <1>2 DEF Name, WriteToken, TypeOK, Hands, HandInv, KnowsRow, Exists
  <2>2. CASE Name(c)
    <3> DEFINE row == [hand[c].row EXCEPT !.named = TRUE]
    <3>1. row \in Rows /\ row.openid = hand[c].row.openid /\ row.best = hand[c].row.best
      BY <2>1 DEF Rows
    <3>2. players' = [players EXCEPT ![hand[c].uid] = row]
      BY <2>2 DEF Name, UpdatePlayer
    <3> HIDE DEF row
    <3> QED
      BY <2>1, <3>1, <3>2
  <2>3. CASE WriteToken(c)
    BY <2>1, <2>3 DEF WriteToken, UpdatePlayer
  <2> QED
    BY <1>2, <2>2, <2>3
<1>3. ASSUME NEW c \in Conns, NEW score \in Scores, SubmitScore(c, score)
      PROVE  /\ uid[c] \in Uids /\ Exists(uid[c]) /\ players[uid[c]].best < score
             /\ players' = [players EXCEPT ![uid[c]].best = score]
  BY <1>3 DEF SubmitScore, Authorised, TypeOK, OnePlayerPerOpenID
<1>4. ASSUME NEW c \in Conns,
             \/ \E o \in OpenIDs : Lookup(c, o)
             \/ GetSession(c) \/ HSet(c) \/ Expire(c) \/ Fail(c) \/ Reconnect(c)
      PROVE  UNCHANGED players
  BY <1>4 DEF Lookup, GetSession, HSet, Expire, Fail, Reconnect, database
<1>5. ASSUME Crash \/ (\E u \in Uids : SessionExpires(u)) \/ UNCHANGED vars PROVE UNCHANGED players
  BY <1>5 DEF Crash, SessionExpires, vars, database
<1> QED
  BY <1>1, <1>2, <1>3, <1>4, <1>5, ExchangedIsOpenID DEF Next

\* A best score falls only when a login writes back an older row (the violation of
\* BestScoreNeverFalls has no other cause): never by a score that is submitted, a
\* heartbeat, another player's login, a failure or a crash.
THEOREM OnlyLoginsLoseScores == Spec => [][StaleWriteBack]_vars
<1>1. Init => BlankInv
  BY DEF Init, BlankInv, Exists, NoRow
<1>2. Inv /\ BlankInv /\ [Next]_vars => BlankInv'
  <2> SUFFICES ASSUME Inv, BlankInv, [Next]_vars, NEW u \in Uids, players'[u].openid = None
               PROVE  players'[u].best = 0
    BY DEF BlankInv, Exists
  <2>1. TypeOK /\ OpenIdsKept
    BY OpenIdStep DEF Inv
  <2>2. ~Exists(u) /\ players[u].best = 0
    BY <2>1 DEF OpenIdsKept, Exists, BlankInv
  <2>3. CASE UNCHANGED players
    BY <2>2, <2>3
  <2>4. ASSUME NEW c \in Conns, NEW v \in Uids, Create(c), players' = [players EXCEPT ![v] = hand[c].row]
        PROVE  players'[u].best = 0
    <3>1. hand[c].row.openid # None
      BY <2>4, NoneAssumption DEF Create, Inv, HandInv, KnowsRow
    <3> QED
      BY <2>1, <2>2, <2>4, <3>1 DEF TypeOK
  <2>5. ASSUME NEW v, Exists(v), NEW row, players' = [players EXCEPT ![v] = row]
        PROVE  players'[u].best = 0
    BY <2>1, <2>2, <2>5 DEF TypeOK
  <2> QED
    BY <2>3, <2>4, <2>5, RowStep
<1>3. Inv /\ BlankInv /\ [Next]_vars => StaleWriteBack
  <2> SUFFICES ASSUME Inv, BlankInv, [Next]_vars,
                      NEW u \in Uids, players'[u].best < players[u].best
               PROVE  \E c \in Conns : /\ Name(c) \/ WriteToken(c)
                                       /\ hand[c].uid = u /\ hand[c].row.best < players[u].best
    BY DEF StaleWriteBack
  <2>1. players \in [Uids -> Rows] /\ players[u].best \in Nat
    BY DEF Inv, TypeOK, Rows
  <2>2. players'[u] # players[u]
    BY <2>1
  <2>3. ASSUME NEW c \in Conns, NEW v \in Uids, ~Exists(v), players' = [players EXCEPT ![v] = hand[c].row]
        PROVE  FALSE
    <3>1. v = u /\ players[u].best = 0
      BY <2>1, <2>2, <2>3 DEF BlankInv
    <3>2. players'[u].best \in Nat
      BY <2>1, <2>3, <3>1 DEF Inv, TypeOK, Hands, Rows
    <3> QED
      BY <3>1, <3>2
  <2>4. ASSUME NEW c \in Conns, NEW row \in Rows, Name(c) \/ WriteToken(c),
               row.best = hand[c].row.best, players' = [players EXCEPT ![hand[c].uid] = row]
        PROVE  hand[c].uid = u /\ hand[c].row.best < players[u].best
    BY <2>1, <2>2, <2>4
  <2>5. ASSUME NEW c \in Conns, NEW score \in Scores, uid[c] \in Uids, players[uid[c]].best < score,
               players' = [players EXCEPT ![uid[c]].best = score]
        PROVE  FALSE
    <3>1. uid[c] = u
      BY <2>1, <2>2, <2>5
    <3>2. players'[u].best = score /\ score \in Nat
      BY <2>1, <2>5, <3>1, ScoresAssumption DEF Rows
    <3> QED
      BY <2>1, <2>5, <3>1, <3>2
  <2> QED
    BY <2>2, <2>3, <2>4, <2>5, RowStep
<1> QED
  BY <1>1, <1>2, <1>3, Invariance, PTL DEF Spec

=============================================================================
