------------------------- MODULE MemoryStoreProofs -------------------------
(***************************************************************************)
(* Proofs about MemoryStore and Probe, for any connections, runs,          *)
(* requests, open ids and limits: the development store implements         *)
(* SettleOnce like the transaction does, its index of players is right     *)
(* although logins race, and the probe is a client like any other.         *)
(***************************************************************************)
EXTENDS Probe, TLAPS

\* A handler that is about to answer holds what the store holds.
ResponseInv ==
  \A c \in Conns : job[c] # NoJob =>
    resp[c] # NotSettled /\ resp[c] = settled[uid[c]][job[c].run]

\* It is about to give the first answer about a run.
FirstAnswer(c) == job[c] # NoJob /\ ~job[c].dup

\* One handler at most is about to, and none once it has been given.
FreshInv ==
  /\ \A p \in Ids, r \in Runs : settled[p][r] = NotSettled => fresh[p][r] = 0
  /\ \A c \in Conns : FirstAnswer(c) => fresh[uid[c]][job[c].run] = 0
  /\ \A c, d \in Conns :
       (FirstAnswer(c) /\ FirstAnswer(d) /\ uid[c] = uid[d] /\ job[c].run = job[d].run)
         => c = d

\* Every answer was the stored response.
ToldInv ==
  \A p \in Ids, r \in Runs :
    /\ told[p][r] \subseteq {settled[p][r]}
    /\ told[p][r] # {} => settled[p][r] # NotSettled

\* A handler that is about to answer belongs to a player, and no login runs beside it.
BusyInv == \A c \in Conns : job[c] # NoJob => uid[c] \in Ids /\ login[c].at = "none"

\* A login holds an open id and, from the lookup or the creation on, its player.
LoginInv ==
  \A c \in Conns :
    /\ login[c].at = "create" => login[c].open \in OpenIds
    /\ login[c].at \in {"update", "session"} =>
         /\ login[c].open \in OpenIds /\ login[c].id \in Ids
         /\ openID[login[c].id] = login[c].open

Inv == /\ TypeOK /\ ResponseInv /\ FreshInv /\ ToldInv /\ IndexMatches
       /\ BusyInv /\ LoginInv

-----------------------------------------------------------------------------
(* Data                                                                      *)

\* A number of kills that fits does not take the total beyond its column.
LEMMA KillsFit ==
  ASSUME NEW total \in Int64, NEW kills \in Nat, kills <= KillsRoom(total)
  PROVE  total \in Nat /\ total + kills \in Int64
BY RulesAssumption DEF Int64, KillsRoom

LEMMA RequestType ==
  ASSUME NEW q \in Requests
  PROVE  q.run \in Runs /\ q.kills \in Nat /\ q.score \in Nat /\ Reward(q) \in Nat
<1>1. q.run \in Runs /\ q.kills \in Nat /\ q.score \in Nat
  BY MemoryAssumption DEF IsRequest
<1> QED
  BY <1>1, RulesAssumption DEF Reward

\* A credit that fits is an archive again.
LEMMA ResponseType ==
  ASSUME NEW a \in Archives, NEW q \in Requests, Fits(a, q)
  PROVE  /\ Response(a, q) \in Responses
         /\ Response(a, q).archive = Credit(a, q)
         /\ Credit(a, q) \in Archives
<1>1. q.kills \in Nat /\ q.score \in Nat /\ Reward(q) \in Nat
  BY RequestType
<1>2. /\ a = [gold |-> a.gold, kills |-> a.kills, games |-> a.games, best |-> a.best]
      /\ a.gold \in Int32 /\ a.kills \in Int64 /\ a.games \in Int64 /\ a.best \in Int
  BY DEF Archives
<1>3. Credit(a, q) \in Archives
  <2>1. a.gold + Reward(q) \in Int32
    BY <1>1, <1>2, RulesAssumption DEF Fits, Int32
  <2>2. a.kills + q.kills \in Int64
    BY <1>1, <1>2, KillsFit DEF Fits
  <2>3. a.games + 1 \in Int64
    BY <1>2, RulesAssumption DEF Fits, Int64
  <2>4. Larger(q.score, a.best) \in Int
    BY <1>1, <1>2 DEF Larger
  <2> QED
    BY <2>1, <2>2, <2>3, <2>4 DEF Credit, Archives
<1>4. Reward(q) \in 0..MaxInt32
  BY <1>1, RulesAssumption DEF Fits
<1> QED
  BY <1>3, <1>4 DEF Response, Responses

\* A busy handler answers about a run of a player.
LEMMA JobType ==
  ASSUME TypeOK, BusyInv, NEW c \in Conns, job[c] # NoJob
  PROVE  job[c] \in Jobs /\ job[c].run \in Runs /\ job[c].dup \in BOOLEAN /\ uid[c] \in Ids
BY DEF TypeOK, BusyInv, Jobs

\* Who may ask for something is a player.
LEMMA AuthorisedType ==
  ASSUME TypeOK, NEW c \in Conns, Authorised(c)
  PROVE  uid[c] \in Ids
BY DEF TypeOK, Authorised

\* What a handler got makes it busy with the run.
LEMMA GotType ==
  ASSUME TypeOK, NEW c \in Conns, NEW q \in Requests, NEW response \in Responses,
         NEW dup \in BOOLEAN, Got(c, q, response, dup)
  PROVE  /\ resp' = [resp EXCEPT ![c] = response] /\ resp'[c] = response
         /\ job' \in [Conns -> Jobs \union {NoJob}]
         /\ resp' \in [Conns -> Responses \union {NotSettled}]
         /\ job'[c] # NoJob /\ job'[c].run = q.run /\ job'[c].dup = dup
         /\ \A d \in Conns \ {c} : job'[d] = job[d] /\ resp'[d] = resp[d]
<1> DEFINE new == [run |-> q.run, dup |-> dup, busy |-> TRUE]
<1>1. new \in Jobs /\ new # NoJob /\ new.run = q.run /\ new.dup = dup
  BY RequestType DEF Jobs, NoJob
<1>2. job' = [job EXCEPT ![c] = new] /\ resp' = [resp EXCEPT ![c] = response]
  BY DEF Got
<1> HIDE DEF new
<1> QED
  BY <1>1, <1>2 DEF TypeOK

-----------------------------------------------------------------------------
(* Types                                                                     *)

\* The actions of a connection.
LEMMA NextActions ==
  ASSUME Next
  PROVE  \E c \in Conns :
           \/ \E o \in OpenIds : LoginLookup(c, o)
           \/ LoginCreate(c) \/ LoginUpdate(c) \/ LoginBind(c) \/ Reconnect(c)
           \/ \E a \in Saves : Save(c, a)
           \/ \E q \in Requests : Settle(c, q)
           \/ \E q \in Requests : SettleDuplicate(c, q)
           \/ Reply(c)
BY DEF Next, Request

\* A login's record is one.
LEMMA LoginAtType ==
  ASSUME TypeOK, NEW c \in Conns, NEW at \in {"none", "create", "update", "session"},
         NEW o \in OpenIds, NEW i \in Ids \union {NoPlayer}, LoginAt(c, at, o, i)
  PROVE  /\ login' \in [Conns -> Logins]
         /\ login'[c].at = at /\ login'[c].open = o /\ login'[c].id = i
         /\ \A d \in Conns \ {c} : login'[d] = login[d]
<1> DEFINE new == [at |-> at, open |-> o, id |-> i]
<1>1. new \in Logins /\ new.at = at /\ new.open = o /\ new.id = i
  BY DEF Logins
<1>2. login' = [login EXCEPT ![c] = new]
  BY DEF LoginAt
<1> HIDE DEF new
<1> QED
  BY <1>1, <1>2 DEF TypeOK

\* A login that ends leaves no record.
LEMMA LoginEnds ==
  ASSUME TypeOK, NEW c \in Conns, login' = [login EXCEPT ![c] = NoLogin]
  PROVE  /\ login' \in [Conns -> Logins] /\ login'[c].at = "none"
         /\ \A d \in Conns \ {c} : login'[d] = login[d]
<1>1. NoLogin \in Logins /\ NoLogin.at = "none"
  BY DEF NoLogin, Logins
<1> QED
  BY <1>1 DEF TypeOK

\* A creation takes the next id, which was free.
LEMMA CreateType ==
  ASSUME TypeOK, NEW o \in OpenIds, CreatePlayer(o)
  PROVE  /\ nextID \in Ids /\ openID[nextID] = NoPlayer /\ idOf[o] = NoPlayer
         /\ nextID' \in 1..MaxPlayers + 1
         /\ openID' = [openID EXCEPT ![nextID] = o] /\ idOf' = [idOf EXCEPT ![o] = nextID]
         /\ openID' \in [Ids -> OpenIds \union {NoPlayer}]
         /\ idOf' \in [OpenIds -> Ids \union {NoPlayer}]
         /\ \A i \in Ids : openID'[i] # NoPlayer <=> i < nextID'
<1> USE MemoryAssumption
<1>1. nextID \in Ids /\ nextID' = nextID + 1
  BY DEF CreatePlayer, TypeOK, Ids
<1>2. openID' = [openID EXCEPT ![nextID] = o] /\ idOf' = [idOf EXCEPT ![o] = nextID]
  BY DEF CreatePlayer
<1>3. /\ openID' \in [Ids -> OpenIds \union {NoPlayer}]
      /\ idOf' \in [OpenIds -> Ids \union {NoPlayer}]
  BY <1>1, <1>2 DEF TypeOK
<1>4. ASSUME NEW i \in Ids PROVE openID'[i] # NoPlayer <=> i < nextID'
  BY <1>1, <1>2 DEF TypeOK, Ids
<1>5. openID[nextID] = NoPlayer /\ nextID' \in 1..MaxPlayers + 1
  BY <1>1 DEF TypeOK, Ids
<1> QED
  BY <1>1, <1>2, <1>3, <1>4, <1>5 DEF CreatePlayer

LEMMA TypeStep == Inv /\ [Next]_vars => TypeOK'
<1> SUFFICES ASSUME Inv, [Next]_vars PROVE TypeOK'
  OBVIOUS
<1> USE MemoryAssumption DEF settlements, handlers, logins, heard, directory
<1>0. TypeOK
  BY DEF Inv
<1>1. ASSUME NEW c \in Conns, NEW q \in Requests, Settle(c, q) PROVE TypeOK'
  <2> DEFINE response == Response(archive[uid[c]], q)
  <2>1. uid[c] \in Ids /\ q.run \in Runs /\ q.score \in Nat /\ archive[uid[c]] \in Archives
    BY <1>0, <1>1, RequestType, AuthorisedType DEF Settle, TypeOK
  <2>2. response \in Responses /\ response.archive \in Archives
    BY <2>1, <1>1, ResponseType DEF Settle
  <2>3. /\ Got(c, q, response, FALSE)
        /\ archive' = [archive EXCEPT ![uid[c]] = response.archive]
        /\ found' = found \union {uid[c]}
        /\ level' = [level EXCEPT ![uid[c]] = HigherLevel(q, level[uid[c]])]
        /\ settled' = [settled EXCEPT ![uid[c]][q.run] = response]
        /\ UNCHANGED <<logins, heard, directory>>
    BY <1>1 DEF Settle
  <2> HIDE DEF response
  <2>4. HigherLevel(q, level[uid[c]]) \in Nat
    BY <1>0, <2>1 DEF TypeOK, HigherLevel, Larger
  <2>5. job' \in [Conns -> Jobs \union {NoJob}] /\ resp' \in [Conns -> Responses \union {NotSettled}]
    BY <1>0, <2>2, <2>3, GotType
  <2>6. settled' \in [Ids -> [Runs -> Responses \union {NotSettled}]]
    BY <1>0, <2>1, <2>2, <2>3 DEF TypeOK
  <2>7. archive' \in [Ids -> Archives] /\ level' \in [Ids -> Nat] /\ found' \subseteq Ids
    BY <1>0, <2>1, <2>2, <2>3, <2>4 DEF TypeOK
  <2> QED
    BY <1>0, <2>3, <2>5, <2>6, <2>7 DEF TypeOK
<1>2. ASSUME NEW c \in Conns, NEW q \in Requests, SettleDuplicate(c, q) PROVE TypeOK'
  <2>1. uid[c] \in Ids /\ settled[uid[c]][q.run] \in Responses
    BY <1>0, <1>2, RequestType, AuthorisedType DEF SettleDuplicate, TypeOK
  <2>2. job' \in [Conns -> Jobs \union {NoJob}] /\ resp' \in [Conns -> Responses \union {NotSettled}]
    BY <1>0, <1>2, <2>1, GotType DEF SettleDuplicate
  <2> QED
    BY <1>0, <1>2, <2>2 DEF SettleDuplicate, TypeOK
<1>3. ASSUME NEW c \in Conns, Reply(c) PROVE TypeOK'
  <2>1. job[c].run \in Runs /\ uid[c] \in Ids
    BY <1>0, <1>3, JobType DEF Reply, Inv
  <2>2. resp[c] \in Responses
    BY <1>0, <1>3 DEF Reply, Inv, ResponseInv, TypeOK
  <2>3. told' \in [Ids -> [Runs -> SUBSET Responses]]
    BY <1>0, <1>3, <2>1, <2>2 DEF Reply, TypeOK
  <2>4. fresh' \in [Ids -> [Runs -> Nat]]
    BY <1>0, <1>3, <2>1 DEF Reply, TypeOK
  <2>5. job' \in [Conns -> Jobs \union {NoJob}] /\ resp' \in [Conns -> Responses \union {NotSettled}]
    BY <1>0, <1>3 DEF Reply, TypeOK
  <2> QED
    BY <1>0, <1>3, <2>3, <2>4, <2>5 DEF Reply, TypeOK
<1>4. ASSUME NEW c \in Conns, NEW a \in Saves, Save(c, a) PROVE TypeOK'
  <2>1. uid[c] \in Ids
    BY <1>0, <1>4, AuthorisedType DEF Save
  <2>2. archive' \in [Ids -> Archives] /\ found' \subseteq Ids
    BY <1>0, <1>4, <2>1 DEF Save, TypeOK
  <2> QED
    BY <1>0, <1>4, <2>2 DEF Save, TypeOK
<1>5. ASSUME NEW c \in Conns, NEW o \in OpenIds, LoginLookup(c, o) PROVE TypeOK'
  <2>1. idOf[o] \in Ids \union {NoPlayer}
    BY <1>0 DEF TypeOK
  <2>2. \E at \in {"create", "update"} : LoginAt(c, at, o, idOf[o])
    BY <1>5 DEF LoginLookup
  <2>3. login' \in [Conns -> Logins]
    BY <1>0, <2>1, <2>2, LoginAtType
  <2> QED
    BY <1>0, <1>5, <2>3 DEF LoginLookup, TypeOK
<1>6. ASSUME NEW c \in Conns, LoginCreate(c) PROVE TypeOK'
  <2>1. login[c].open \in OpenIds
    BY <1>6 DEF LoginCreate, Inv, LoginInv
  <2>2. CASE CreatePlayer(login[c].open) /\ LoginAt(c, "update", login[c].open, nextID)
    <3>1. /\ nextID \in Ids
          /\ nextID' \in 1..MaxPlayers + 1
          /\ openID' \in [Ids -> OpenIds \union {NoPlayer}]
          /\ idOf' \in [OpenIds -> Ids \union {NoPlayer}]
          /\ \A i \in Ids : openID'[i] # NoPlayer <=> i < nextID'
      BY <1>0, <2>1, <2>2, CreateType
    <3>2. login' \in [Conns -> Logins]
      BY <1>0, <2>1, <2>2, <3>1, LoginAtType
    <3> QED
      BY <1>0, <1>6, <3>1, <3>2 DEF LoginCreate, TypeOK
  <2>3. CASE login' = [login EXCEPT ![c] = NoLogin] /\ UNCHANGED directory
    <3>1. login' \in [Conns -> Logins]
      BY <1>0, <2>3, LoginEnds
    <3> QED
      BY <1>0, <1>6, <2>3, <3>1 DEF LoginCreate, TypeOK
  <2> QED
    BY <1>6, <2>2, <2>3 DEF LoginCreate
<1>7. ASSUME NEW c \in Conns, LoginUpdate(c) PROVE TypeOK'
  <2>1. login[c].open \in OpenIds /\ login[c].id \in Ids
    BY <1>7 DEF LoginUpdate, Inv, LoginInv
  <2>2. login' \in [Conns -> Logins]
    BY <1>0, <1>7, <2>1, LoginAtType DEF LoginUpdate
  <2>3. openID' \in [Ids -> OpenIds \union {NoPlayer}]
    BY <1>0, <1>7, <2>1 DEF LoginUpdate, UpdatePlayer, TypeOK
  <2>4. idOf' \in [OpenIds -> Ids \union {NoPlayer}]
    BY <1>0, <1>7, <2>1 DEF LoginUpdate, UpdatePlayer, TypeOK
  <2>5. \A i \in Ids : openID'[i] # NoPlayer <=> i < nextID'
    BY <1>0, <1>7, <2>1 DEF LoginUpdate, UpdatePlayer, TypeOK
  <2> QED
    BY <1>0, <1>7, <2>2, <2>3, <2>4, <2>5 DEF LoginUpdate, UpdatePlayer, TypeOK
<1>8. ASSUME NEW c \in Conns, LoginBind(c) PROVE TypeOK'
  <2>1. login[c].id \in Ids
    BY <1>8 DEF LoginBind, Inv, LoginInv
  <2>2. login' \in [Conns -> Logins]
    BY <1>0, <1>8, LoginEnds DEF LoginBind
  <2>3. sessions' \subseteq Ids /\ uid' \in [Conns -> Ids \union {NoPlayer}]
    BY <1>0, <1>8, <2>1 DEF LoginBind, TypeOK
  <2> QED
    BY <1>0, <1>8, <2>2, <2>3 DEF LoginBind, TypeOK
<1>9. ASSUME NEW c \in Conns, Reconnect(c) PROVE TypeOK'
  <2>1. uid' \in [Conns -> Ids \union {NoPlayer}]
    BY <1>0, <1>9 DEF Reconnect, TypeOK
  <2> QED
    BY <1>0, <1>9, <2>1 DEF Reconnect, TypeOK
<1>10. CASE UNCHANGED vars
  BY <1>0, <1>10 DEF vars, TypeOK
<1> QED
  BY <1>1, <1>2, <1>3, <1>4, <1>5, <1>6, <1>7, <1>8, <1>9, <1>10, NextActions

-----------------------------------------------------------------------------
(* Answers                                                                   *)

\* A settlement is about a run that nobody is busy with, answers or was told about.
LEMMA AnswerStep == Inv /\ [Next]_vars => ResponseInv' /\ FreshInv' /\ ToldInv'
<1> SUFFICES ASSUME Inv, [Next]_vars PROVE ResponseInv' /\ FreshInv' /\ ToldInv'
  OBVIOUS
<1> USE MemoryAssumption DEF settlements, handlers, logins, heard, directory
<1>0. TypeOK /\ ResponseInv /\ FreshInv /\ ToldInv /\ BusyInv
  BY DEF Inv
<1>1. ASSUME NEW c \in Conns, NEW q \in Requests, Settle(c, q)
      PROVE  ResponseInv' /\ FreshInv' /\ ToldInv'
  <2> DEFINE response == Response(archive[uid[c]], q)
             p == uid[c]
             r == q.run
  <2>1. p \in Ids /\ r \in Runs /\ archive[p] \in Archives
    BY <1>0, <1>1, RequestType, AuthorisedType DEF Settle, TypeOK
  <2>2. response \in Responses /\ response # NotSettled
    BY <2>1, <1>1, ResponseType DEF Settle
  <2>3. Got(c, q, response, FALSE) /\ settled[p][r] = NotSettled
        /\ settled' = [settled EXCEPT ![p][r] = response] /\ UNCHANGED <<told, fresh, uid>>
        /\ job[c] = NoJob
    BY <1>1 DEF Settle, Idle
  <2>4. /\ resp'[c] = response
        /\ job'[c] # NoJob /\ job'[c].run = r /\ ~job'[c].dup
        /\ \A d \in Conns \ {c} : job'[d] = job[d] /\ resp'[d] = resp[d]
    BY <1>0, <2>2, <2>3, GotType
  <2>5. /\ settled'[p][r] = response
        /\ \A x \in Ids, y \in Runs : x # p \/ y # r => settled'[x][y] = settled[x][y]
    BY <1>0, <2>1, <2>3 DEF TypeOK
  <2> HIDE DEF response, p, r
  <2>6. \A d \in Conns : job[d] # NoJob => uid[d] # p \/ job[d].run # r
    BY <1>0, <2>3 DEF ResponseInv
  <2>7. \A d \in Conns : job[d] # NoJob => uid[d] \in Ids /\ job[d].run \in Runs
    BY <1>0, JobType
  <2>8. ResponseInv'
    BY <1>0, <2>2, <2>3, <2>4, <2>5, <2>6, <2>7 DEF ResponseInv, p
  <2>9. FreshInv'
    BY <1>0, <2>1, <2>2, <2>3, <2>4, <2>5, <2>6, <2>7 DEF FreshInv, FirstAnswer, p
  <2>10. told[p][r] = {}
    BY <1>0, <2>1, <2>3 DEF ToldInv
  <2>11. ToldInv'
    BY <1>0, <2>1, <2>3, <2>5, <2>10 DEF ToldInv
  <2> QED
    BY <2>8, <2>9, <2>11
<1>2. ASSUME NEW c \in Conns, NEW q \in Requests, SettleDuplicate(c, q)
      PROVE  ResponseInv' /\ FreshInv' /\ ToldInv'
  <2>1. settled[uid[c]][q.run] \in Responses /\ settled[uid[c]][q.run] # NotSettled
    BY <1>0, <1>2, RequestType, AuthorisedType DEF SettleDuplicate, TypeOK
  <2>2. UNCHANGED <<settled, told, fresh, uid>>
    BY <1>2 DEF SettleDuplicate
  <2>3. /\ resp'[c] = settled[uid[c]][q.run]
        /\ job'[c] # NoJob /\ job'[c].run = q.run /\ job'[c].dup
        /\ \A d \in Conns \ {c} : job'[d] = job[d] /\ resp'[d] = resp[d]
    <3>1. Got(c, q, settled[uid[c]][q.run], TRUE)
      BY <1>2 DEF SettleDuplicate
    <3>2. /\ resp'[c] = settled[uid[c]][q.run]
          /\ job'[c] # NoJob /\ job'[c].run = q.run /\ job'[c].dup = TRUE
          /\ \A d \in Conns \ {c} : job'[d] = job[d] /\ resp'[d] = resp[d]
      BY <1>0, <2>1, <3>1, GotType
    <3> QED
      BY <3>2
  <2>4. ResponseInv'
    <3>1. ASSUME NEW d \in Conns \ {c}, job'[d] # NoJob
          PROVE  resp'[d] # NotSettled /\ resp'[d] = settled'[uid'[d]][job'[d].run]
      BY <1>0, <2>2, <2>3, <3>1 DEF ResponseInv
    <3>2. resp'[c] # NotSettled /\ resp'[c] = settled'[uid'[c]][job'[c].run]
      BY <2>1, <2>2, <2>3
    <3> QED
      BY <3>1, <3>2 DEF ResponseInv
  <2>5. FreshInv'
    BY <1>0, <2>2, <2>3 DEF FreshInv, FirstAnswer
  <2>6. ToldInv'
    BY <1>0, <2>2 DEF ToldInv
  <2> QED
    BY <2>4, <2>5, <2>6
<1>3. ASSUME NEW c \in Conns, Reply(c)
      PROVE  ResponseInv' /\ FreshInv' /\ ToldInv'
  <2> DEFINE p == uid[c]
             r == job[c].run
  <2>1. p \in Ids /\ r \in Runs /\ job[c] # NoJob
    BY <1>0, <1>3, JobType DEF Reply
  <2>2. resp[c] = settled[p][r] /\ settled[p][r] # NotSettled
    BY <1>0, <2>1 DEF ResponseInv
  <2>3. /\ told' = [told EXCEPT ![p][r] = @ \union {resp[c]}]
        /\ fresh' = [fresh EXCEPT ![p][r] = IF job[c].dup THEN @ ELSE @ + 1]
        /\ UNCHANGED <<settled, uid>>
    BY <1>3 DEF Reply
  <2>4. job'[c] = NoJob /\ \A d \in Conns \ {c} : job'[d] = job[d] /\ resp'[d] = resp[d]
    BY <1>0, <1>3 DEF Reply, TypeOK
  <2>5. /\ \A x \in Ids, y \in Runs : x # p \/ y # r => fresh'[x][y] = fresh[x][y]
        /\ ~FirstAnswer(c) => fresh'[p][r] = fresh[p][r]
    BY <1>0, <2>1, <2>3 DEF TypeOK, FirstAnswer
  <2>6. \A d \in Conns : job[d] # NoJob => uid[d] \in Ids /\ job[d].run \in Runs
    BY <1>0, JobType
  <2>7. /\ told'[p][r] \subseteq {settled[p][r]}
        /\ \A x \in Ids, y \in Runs : x # p \/ y # r => told'[x][y] = told[x][y]
    BY <1>0, <2>1, <2>2, <2>3 DEF TypeOK, ToldInv
  <2>8. ResponseInv'
    BY <1>0, <2>3, <2>4 DEF ResponseInv
  <2>9. ToldInv'
    BY <1>0, <2>2, <2>3, <2>7 DEF ToldInv
  <2>10. ASSUME NEW x \in Ids, NEW y \in Runs, settled'[x][y] = NotSettled PROVE fresh'[x][y] = 0
    BY <1>0, <2>2, <2>3, <2>5, <2>10 DEF FreshInv
  <2>11. ASSUME NEW d \in Conns, FirstAnswer(d)' PROVE fresh'[uid'[d]][job'[d].run] = 0
    <3>1. d # c /\ FirstAnswer(d) /\ job'[d] = job[d]
      BY <2>4, <2>11 DEF FirstAnswer
    <3>2. fresh[uid[d]][job[d].run] = 0
      BY <1>0, <3>1 DEF FreshInv
    <3>3. CASE uid[d] = p /\ job[d].run = r
      <4>1. ~FirstAnswer(c)
        BY <1>0, <3>1, <3>3 DEF FreshInv
      <4> QED
        BY <2>3, <2>5, <3>1, <3>2, <3>3, <4>1
    <3>4. CASE ~(uid[d] = p /\ job[d].run = r)
      BY <2>3, <2>5, <2>6, <3>1, <3>2, <3>4 DEF FirstAnswer
    <3> QED
      BY <3>3, <3>4
  <2>12. ASSUME NEW d \in Conns, NEW e \in Conns, FirstAnswer(d)', FirstAnswer(e)',
                uid'[d] = uid'[e], job'[d].run = job'[e].run
         PROVE  d = e
    BY <1>0, <2>3, <2>4, <2>12 DEF FreshInv, FirstAnswer
  <2>13. FreshInv'
    BY <2>10, <2>11, <2>12 DEF FreshInv
  <2> QED
    BY <2>8, <2>9, <2>13
<1>4. ASSUME UNCHANGED <<settled, resp, job, told, fresh>>,
             \A d \in Conns : job[d] # NoJob => uid'[d] = uid[d]
      PROVE  ResponseInv' /\ FreshInv' /\ ToldInv'
  BY <1>0, <1>4 DEF ResponseInv, FreshInv, FirstAnswer, ToldInv
<1>5. ASSUME NEW c \in Conns, LoginBind(c) \/ Reconnect(c)
      PROVE  ResponseInv' /\ FreshInv' /\ ToldInv'
  <2>1. job[c] = NoJob
    BY <1>0, <1>5 DEF LoginBind, Reconnect, Idle, BusyInv
  <2>2. UNCHANGED <<settled, resp, job, told, fresh>>
    BY <1>5 DEF LoginBind, Reconnect
  <2>3. \A d \in Conns : d # c => uid'[d] = uid[d]
    BY <1>0, <1>5 DEF LoginBind, Reconnect, TypeOK
  <2> QED
    BY <1>4, <2>1, <2>2, <2>3
<1>6. \/ \E c \in Conns, q \in Requests : Settle(c, q) \/ SettleDuplicate(c, q)
      \/ \E c \in Conns : Reply(c) \/ LoginBind(c) \/ Reconnect(c)
      \/ UNCHANGED <<settled, resp, job, told, fresh, uid>>
  BY NextActions DEF Save, LoginLookup, LoginCreate, LoginUpdate, vars
<1> QED
  BY <1>1, <1>2, <1>3, <1>4, <1>5, <1>6

-----------------------------------------------------------------------------
(* The index                                                                 *)

LEMMA IndexStep == Inv /\ [Next]_vars => IndexMatches'
<1> SUFFICES ASSUME Inv, [Next]_vars, NEW o \in OpenIds, NEW i \in Ids
             PROVE  idOf'[o] = i <=> openID'[i] = o
  BY DEF IndexMatches
<1> USE MemoryAssumption DEF Ids
<1>0. TypeOK /\ IndexMatches
  BY DEF Inv
<1>1. ASSUME NEW n \in OpenIds, CreatePlayer(n) PROVE idOf'[o] = i <=> openID'[i] = o
  <2>1. /\ openID' = [openID EXCEPT ![nextID] = n] /\ idOf' = [idOf EXCEPT ![n] = nextID]
        /\ idOf[n] = NoPlayer /\ nextID \in Ids /\ openID[nextID] = NoPlayer
    BY <1>0, <1>1 DEF CreatePlayer, TypeOK
  <2>2. NoPlayer \notin OpenIds /\ NoPlayer \notin Ids
    OBVIOUS
  <2>3. CASE o = n
    BY <1>0, <2>1, <2>2, <2>3 DEF IndexMatches, TypeOK
  <2>4. CASE o # n
    BY <1>0, <2>1, <2>2, <2>4 DEF IndexMatches, TypeOK
  <2> QED
    BY <2>3, <2>4
<1>2. ASSUME NEW n \in OpenIds, NEW j \in Ids, UpdatePlayer(j, n) PROVE idOf'[o] = i <=> openID'[i] = o
  <2>1. /\ openID' = [openID EXCEPT ![j] = n]
        /\ idOf'[o] = IF o = n THEN j ELSE IF o = openID[j] THEN NoPlayer ELSE idOf[o]
        /\ idOf[n] \in {j, NoPlayer}
    BY <1>2 DEF UpdatePlayer
  <2>2. NoPlayer \notin OpenIds /\ NoPlayer \notin Ids
    OBVIOUS
  <2>3. CASE o = n
    BY <1>0, <2>1, <2>2, <2>3 DEF IndexMatches, TypeOK
  <2>4. CASE o # n
    BY <1>0, <2>1, <2>2, <2>4 DEF IndexMatches, TypeOK
  <2> QED
    BY <2>3, <2>4
<1>3. CASE UNCHANGED <<openID, idOf>>
  BY <1>0, <1>3 DEF IndexMatches
<1>4. \/ \E c \in Conns : LoginCreate(c) \/ LoginUpdate(c)
      \/ UNCHANGED <<openID, idOf>>
  BY NextActions DEF Settle, SettleDuplicate, Reply, Save, LoginLookup, LoginBind, Reconnect,
                     vars, directory
<1>5. ASSUME NEW c \in Conns, LoginCreate(c) PROVE idOf'[o] = i <=> openID'[i] = o
  <2>1. login[c].open \in OpenIds
    BY <1>5 DEF LoginCreate, Inv, LoginInv
  <2> QED
    BY <1>1, <1>3, <1>5, <2>1 DEF LoginCreate, directory
<1>6. ASSUME NEW c \in Conns, LoginUpdate(c) PROVE idOf'[o] = i <=> openID'[i] = o
  <2>1. login[c].open \in OpenIds /\ login[c].id \in 1..MaxPlayers
    BY <1>6 DEF LoginUpdate, Inv, LoginInv
  <2> QED
    BY <1>2, <1>6, <2>1 DEF LoginUpdate
<1> QED
  BY <1>3, <1>4, <1>5, <1>6

-----------------------------------------------------------------------------
(* Connections                                                               *)

LEMMA BusyStep == Inv /\ [Next]_vars => BusyInv'
<1> SUFFICES ASSUME Inv, [Next]_vars PROVE BusyInv'
  OBVIOUS
<1> USE DEF settlements, handlers, logins, heard, directory
<1>0. TypeOK /\ BusyInv
  BY DEF Inv
<1>1. ASSUME NEW c \in Conns, \A d \in Conns \ {c} : job'[d] = job[d], UNCHANGED <<login, uid>>,
             Idle(c), uid[c] \in Ids
      PROVE  BusyInv'
  BY <1>0, <1>1 DEF BusyInv, Idle
<1>2. ASSUME NEW c \in Conns, NEW q \in Requests, Settle(c, q) \/ SettleDuplicate(c, q)
      PROVE  BusyInv'
  <2>1. uid[c] \in Ids /\ Idle(c) /\ UNCHANGED <<login, uid>>
    BY <1>0, <1>2, AuthorisedType DEF Settle, SettleDuplicate
  <2>2. \A d \in Conns \ {c} : job'[d] = job[d]
    BY <1>0, <1>2 DEF Settle, SettleDuplicate, Got, TypeOK
  <2> QED
    BY <1>1, <2>1, <2>2
<1>3. ASSUME NEW c \in Conns, Reply(c) PROVE BusyInv'
  BY <1>0, <1>3 DEF Reply, BusyInv, TypeOK
<1>4. ASSUME NEW c \in Conns, job[c] = NoJob, UNCHANGED job,
             \A d \in Conns \ {c} : login'[d] = login[d] /\ uid'[d] = uid[d]
      PROVE  BusyInv'
  BY <1>0, <1>4 DEF BusyInv
<1>5. ASSUME NEW c \in Conns, NEW o \in OpenIds, LoginLookup(c, o) PROVE BusyInv'
  <2>1. job[c] = NoJob /\ UNCHANGED <<job, uid>>
    BY <1>5 DEF LoginLookup, Idle
  <2>2. \A d \in Conns \ {c} : login'[d] = login[d]
    BY <1>0, <1>5 DEF LoginLookup, LoginAt, TypeOK
  <2> QED
    BY <1>4, <2>1, <2>2
<1>6. ASSUME NEW c \in Conns, LoginCreate(c) \/ LoginUpdate(c) \/ LoginBind(c) \/ Reconnect(c)
      PROVE  BusyInv'
  <2>1. job[c] = NoJob
    BY <1>0, <1>6 DEF LoginCreate, LoginUpdate, LoginBind, Reconnect, Idle, BusyInv
  <2>2. UNCHANGED job
    BY <1>6 DEF LoginCreate, LoginUpdate, LoginBind, Reconnect
  <2>3. \A d \in Conns \ {c} : login'[d] = login[d]
    BY <1>0, <1>6 DEF LoginCreate, LoginUpdate, LoginBind, Reconnect, LoginAt, TypeOK
  <2>4. \A d \in Conns \ {c} : uid'[d] = uid[d]
    BY <1>0, <1>6 DEF LoginCreate, LoginUpdate, LoginBind, Reconnect, TypeOK
  <2> QED
    BY <1>4, <2>1, <2>2, <2>3, <2>4
<1>7. CASE UNCHANGED <<job, login, uid>>
  BY <1>0, <1>7 DEF BusyInv
<1>8. \/ \E c \in Conns, q \in Requests : Settle(c, q) \/ SettleDuplicate(c, q)
      \/ \E c \in Conns : Reply(c)
      \/ \E c \in Conns, o \in OpenIds : LoginLookup(c, o)
      \/ \E c \in Conns : LoginCreate(c) \/ LoginUpdate(c) \/ LoginBind(c) \/ Reconnect(c)
      \/ UNCHANGED <<job, login, uid>>
  BY NextActions DEF Save, vars
<1> QED
  BY <1>2, <1>3, <1>5, <1>6, <1>7, <1>8

\* What a login holds stays true: a player's open id never changes, and ids are given once.
LEMMA LoginStep == Inv /\ [Next]_vars => LoginInv'
<1> SUFFICES ASSUME Inv, [Next]_vars PROVE LoginInv'
  OBVIOUS
<1> USE MemoryAssumption DEF settlements, handlers, logins, heard, directory
<1>0. TypeOK /\ LoginInv /\ IndexMatches
  BY DEF Inv
<1> DEFINE Holds(d) ==
      /\ login'[d].at = "create" => login'[d].open \in OpenIds
      /\ login'[d].at \in {"update", "session"} =>
           /\ login'[d].open \in OpenIds /\ login'[d].id \in Ids
           /\ openID'[login'[d].id] = login'[d].open
<1>1. ASSUME NEW c \in Conns, \A d \in Conns \ {c} : login'[d] = login[d],
             \A i \in Ids : openID[i] # NoPlayer => openID'[i] = openID[i],
             Holds(c)
      PROVE  LoginInv'
  <2>1. ASSUME NEW d \in Conns \ {c} PROVE Holds(d)
    <3>1. \A i \in Ids : openID[i] \in OpenIds => openID'[i] = openID[i]
      BY <1>1
    <3> QED
      BY <1>0, <1>1, <2>1, <3>1 DEF LoginInv
  <2> QED
    BY <1>1, <2>1 DEF LoginInv
<1>2. ASSUME NEW c \in Conns, NEW o \in OpenIds, LoginLookup(c, o) PROVE LoginInv'
  <2>1. idOf[o] \in Ids \union {NoPlayer}
    BY <1>0 DEF TypeOK
  <2>2. UNCHANGED openID /\ \E at \in {"create", "update"} :
          LoginAt(c, at, o, idOf[o]) /\ (at = "update" => idOf[o] # NoPlayer)
    BY <1>2 DEF LoginLookup
  <2>3. /\ login'[c].open = o /\ login'[c].id = idOf[o]
        /\ login'[c].at \in {"create", "update"}
        /\ login'[c].at = "update" => idOf[o] # NoPlayer
        /\ \A d \in Conns \ {c} : login'[d] = login[d]
    BY <1>0, <2>1, <2>2, LoginAtType
  <2>4. idOf[o] # NoPlayer => idOf[o] \in Ids /\ openID[idOf[o]] = o
    BY <1>0, <2>1 DEF IndexMatches
  <2>5. Holds(c)
    BY <2>2, <2>3, <2>4
  <2> QED
    BY <1>1, <2>2, <2>3, <2>5
<1>3. ASSUME NEW c \in Conns, LoginCreate(c) PROVE LoginInv'
  <2> DEFINE o == login[c].open
  <2>1. o \in OpenIds
    BY <1>0, <1>3 DEF LoginCreate, LoginInv
  <2>2. CASE CreatePlayer(o) /\ LoginAt(c, "update", o, nextID)
    <3> HIDE DEF o
    <3>1. /\ nextID \in Ids /\ openID[nextID] = NoPlayer
          /\ openID' = [openID EXCEPT ![nextID] = o]
      BY <1>0, <2>1, <2>2, CreateType
    <3>2. openID'[nextID] = o /\ \A i \in Ids : openID[i] # NoPlayer => openID'[i] = openID[i]
      BY <1>0, <3>1 DEF TypeOK
    <3>3. /\ login'[c].at = "update" /\ login'[c].open = o /\ login'[c].id = nextID
          /\ \A d \in Conns \ {c} : login'[d] = login[d]
      BY <1>0, <2>1, <2>2, <3>1, LoginAtType
    <3>4. Holds(c)
      BY <2>1, <3>1, <3>2, <3>3
    <3> QED
      BY <1>1, <3>2, <3>3, <3>4
  <2>3. CASE login' = [login EXCEPT ![c] = NoLogin] /\ UNCHANGED directory
    <3>1. login'[c].at = "none" /\ \A d \in Conns \ {c} : login'[d] = login[d]
      BY <1>0, <2>3, LoginEnds
    <3> QED
      BY <1>1, <2>3, <3>1
  <2> QED
    BY <1>3, <2>2, <2>3 DEF LoginCreate
<1>4. ASSUME NEW c \in Conns, LoginUpdate(c) PROVE LoginInv'
  <2> DEFINE o == login[c].open
             i == login[c].id
  <2>1. o \in OpenIds /\ i \in Ids /\ openID[i] = o
    BY <1>0, <1>4 DEF LoginUpdate, LoginInv
  <2>2. openID' = [openID EXCEPT ![i] = o] /\ LoginAt(c, "session", o, i)
    BY <1>4 DEF LoginUpdate, UpdatePlayer
  <2> HIDE DEF o, i
  <2>3. UNCHANGED openID
    BY <1>0, <2>1, <2>2 DEF TypeOK
  <2>4. /\ login'[c].at = "session" /\ login'[c].open = o /\ login'[c].id = i
        /\ \A d \in Conns \ {c} : login'[d] = login[d]
    BY <1>0, <2>1, <2>2, LoginAtType
  <2>5. Holds(c)
    BY <2>1, <2>3, <2>4
  <2> QED
    BY <1>1, <2>3, <2>4, <2>5
<1>5. ASSUME NEW c \in Conns, LoginBind(c) PROVE LoginInv'
  <2>1. login'[c].at = "none" /\ \A d \in Conns \ {c} : login'[d] = login[d]
    BY <1>0, <1>5, LoginEnds DEF LoginBind
  <2> QED
    BY <1>1, <1>5, <2>1 DEF LoginBind
<1>6. CASE UNCHANGED <<login, openID>>
  BY <1>0, <1>6 DEF LoginInv
<1>7. \/ \E c \in Conns, o \in OpenIds : LoginLookup(c, o)
      \/ \E c \in Conns : LoginCreate(c) \/ LoginUpdate(c) \/ LoginBind(c)
      \/ UNCHANGED <<login, openID>>
  BY NextActions DEF Settle, SettleDuplicate, Reply, Save, Reconnect, vars
<1> QED
  BY <1>2, <1>3, <1>4, <1>5, <1>6, <1>7

-----------------------------------------------------------------------------
\* For any players, connections, runs, requests, limits and open ids.
THEOREM Invariance == Spec => []Inv
<1>1. Init => Inv
  <2> SUFFICES ASSUME Init PROVE Inv
    OBVIOUS
  <2> USE MemoryAssumption, RulesAssumption
  <2>1. NewArchive \in Archives
    BY RulesAssumption DEF NewArchive, Archives, Int32, Int64
  <2>2. TypeOK
    BY <2>1 DEF Init, TypeOK, Ids, NoLogin, Logins
  <2>3. ResponseInv /\ FreshInv /\ ToldInv
    BY DEF Init, ResponseInv, FreshInv, FirstAnswer, ToldInv
  <2>4. IndexMatches
    BY DEF Init, IndexMatches, Ids
  <2>5. BusyInv /\ LoginInv
    BY DEF Init, BusyInv, LoginInv, NoLogin
  <2> QED
    BY <2>2, <2>3, <2>4, <2>5 DEF Inv
<1>2. Inv /\ [Next]_vars => Inv'
  BY TypeStep, AnswerStep, IndexStep, BusyStep, LoginStep DEF Inv
<1> QED
  BY <1>1, <1>2, PTL DEF Spec

\* Archives stay within their limits and the maps name players that exist.
THEOREM TypeCorrect == Spec => []TypeOK
BY Invariance, PTL DEF Inv

\* The index by open id is the inverse of the players' open ids.
THEOREM IndexIsInverse == Spec => []IndexMatches
BY Invariance, PTL DEF Inv

\* No settlement lowers a level or leaves it below its own.
THEOREM LevelsRise == Spec => LevelIsHighest
<1>1. Inv /\ [Next]_vars =>
        [\A p \in Ids :
           /\ level'[p] >= level[p]
           /\ settled'[p] # settled[p] => \E q \in Requests :
                settled'[p][q.run] # settled[p][q.run] /\ q.score <= level'[p]]_vars
  <2> SUFFICES ASSUME Inv, Next, NEW p \in Ids
               PROVE  /\ level'[p] >= level[p]
                      /\ settled'[p] # settled[p] => \E q \in Requests :
                           settled'[p][q.run] # settled[p][q.run] /\ q.score <= level'[p]
    OBVIOUS
  <2> USE MemoryAssumption DEF settlements
  <2>0. TypeOK /\ level[p] \in Nat
    BY DEF Inv, TypeOK
  <2>1. ASSUME NEW c \in Conns, NEW q \in Requests, Settle(c, q), uid[c] = p
        PROVE  /\ level'[p] >= level[p] /\ q.score <= level'[p]
               /\ settled'[p][q.run] # settled[p][q.run]
    <3>1. q.run \in Runs /\ q.score \in Nat /\ archive[p] \in Archives
      BY <2>0, RequestType DEF TypeOK
    <3>2. level'[p] = HigherLevel(q, level[p])
      BY <2>0, <2>1 DEF Settle, TypeOK
    <3>3. level'[p] >= level[p] /\ q.score <= level'[p]
      BY <2>0, <3>1, <3>2 DEF HigherLevel, Larger
    <3>4. Response(archive[p], q) \in Responses
      BY <2>1, <3>1, ResponseType DEF Settle
    <3>5. settled[p][q.run] = NotSettled /\ settled'[p][q.run] = Response(archive[p], q)
      BY <2>0, <2>1, <3>1 DEF Settle, TypeOK
    <3> QED
      BY <3>3, <3>4, <3>5
  <2>2. ASSUME NEW c \in Conns, NEW q \in Requests, Settle(c, q), uid[c] # p
        PROVE  level'[p] = level[p] /\ settled'[p] = settled[p]
    BY <2>0, <2>2 DEF Settle, TypeOK
  <2>3. (\E c \in Conns, q \in Requests : Settle(c, q)) \/ UNCHANGED <<level, settled>>
    BY NextActions DEF SettleDuplicate, Reply, Save, LoginLookup, LoginCreate, LoginUpdate,
                       LoginBind, Reconnect
  <2> QED
    BY <2>0, <2>1, <2>2, <2>3
<1> QED
  BY <1>1, Invariance, PTL DEF Spec, LevelIsHighest

-----------------------------------------------------------------------------
(* Refinement                                                                *)

\* A call of Settle is the promised Settle, an answer is an Answer, a client's save a
\* Save; everything else is invisible.
LEMMA NextPromise ==
  ASSUME Inv, [Next]_vars
  PROVE  [Promise!Next]_(Promise!vars)
<1> USE MemoryAssumption DEF settlements, handlers, logins, heard, directory
<1>0. TypeOK /\ ResponseInv /\ FreshInv /\ ToldInv /\ BusyInv
  BY DEF Inv
<1>1. ASSUME NEW c \in Conns, NEW q \in Requests, Settle(c, q) PROVE [Promise!Next]_(Promise!vars)
  <2>1. uid[c] \in Ids /\ archive[uid[c]] \in Archives
    BY <1>0, <1>1, AuthorisedType DEF Settle, TypeOK
  <2>2. Response(archive[uid[c]], q).archive = Credit(archive[uid[c]], q)
    BY <2>1, <1>1, ResponseType DEF Settle
  <2>3. Promise!Settle(uid[c], q)
    BY <2>2, <1>1 DEF Settle, Promise!Settle, Fits, Promise!Fits, Reward, Promise!Reward,
       KillsRoom, Promise!KillsRoom,
       Response, Promise!Response, Credit, Promise!Credit, Larger, Promise!Larger
  <2> QED
    BY <2>1, <2>3 DEF Promise!Next
<1>2. ASSUME NEW c \in Conns, Reply(c) PROVE [Promise!Next]_(Promise!vars)
  <2> DEFINE p == uid[c]
             r == job[c].run
  <2>1. p \in Ids /\ r \in Runs /\ job[c] # NoJob
    BY <1>0, <1>2, JobType DEF Reply
  <2>2. resp[c] = settled[p][r] /\ settled[p][r] # NotSettled
    BY <1>0, <2>1 DEF ResponseInv
  <2>3. /\ told' = [told EXCEPT ![p][r] = told[p][r] \union {resp[c]}]
        /\ fresh' = [fresh EXCEPT ![p][r] = IF job[c].dup THEN fresh[p][r] ELSE fresh[p][r] + 1]
        /\ UNCHANGED <<archive, settled>>
    BY <1>2 DEF Reply
  <2>4. told[p][r] \union {resp[c]} = {settled[p][r]}
    BY <1>0, <2>1, <2>2 DEF ToldInv
  <2>5. told' = [told EXCEPT ![p][r] = {settled[p][r]}]
    BY <2>3, <2>4
  <2>6. fresh' = fresh \/ (fresh[p][r] = 0 /\ fresh' = [fresh EXCEPT ![p][r] = 1])
    <3>1. CASE job[c].dup
      BY <1>0, <2>1, <2>3, <3>1 DEF TypeOK
    <3>2. CASE ~job[c].dup
      <4>1. fresh[p][r] = 0
        BY <1>0, <2>1, <3>2 DEF FreshInv, FirstAnswer
      <4> QED
        BY <2>3, <3>2, <4>1
    <3> QED
      BY <3>1, <3>2
  <2>7. Promise!Answer(p, r)
    BY <2>2, <2>3, <2>5, <2>6 DEF Promise!Answer
  <2> QED
    BY <2>1, <2>7 DEF Promise!Next
<1>3. ASSUME NEW c \in Conns, NEW a \in Saves, Save(c, a) PROVE [Promise!Next]_(Promise!vars)
  <2>1. Promise!Save(uid[c], a)
    BY <1>3 DEF Save, Promise!Save
  <2>2. uid[c] \in Ids
    BY <1>0, <1>3, AuthorisedType DEF Save
  <2> QED
    BY <2>1, <2>2 DEF Promise!Next
<1>4. CASE UNCHANGED <<archive, settled, told, fresh>>
  BY <1>4 DEF Promise!vars
<1>5. \/ \E c \in Conns, q \in Requests : Settle(c, q)
      \/ \E c \in Conns : Reply(c)
      \/ \E c \in Conns, a \in Saves : Save(c, a)
      \/ UNCHANGED <<archive, settled, told, fresh>>
  BY NextActions DEF SettleDuplicate, LoginLookup, LoginCreate, LoginUpdate, LoginBind,
                     Reconnect, vars
<1> QED
  BY <1>1, <1>2, <1>3, <1>4, <1>5

\* The development store does what SettleOnce promises to the game.
THEOREM Refinement == Spec => SettledOnce
<1>1. Init => Promise!Init
  BY DEF Init, Promise!Init, NewArchive, Promise!NewArchive
<1>2. Inv /\ [Next]_vars => [Promise!Next]_(Promise!vars)
  BY NextPromise
<1> QED
  BY <1>1, <1>2, Invariance, PTL DEF Spec, SettledOnce, Promise!Spec

\* What was stored for a run and what was told about it stay.
Kept ==
  \A p \in Ids, r \in Runs :
    /\ settled[p][r] # NotSettled => settled'[p][r] = settled[p][r]
    /\ told[p][r] # {} => told'[p][r] = told[p][r]

\* Settle is for runs that are not settled, and an Answer repeats what is stored.
LEMMA PromiseKeeps ==
  ASSUME Inv, [Promise!Next]_(Promise!vars)
  PROVE  Kept
<1> SUFFICES ASSUME NEW p \in Ids, NEW r \in Runs
             PROVE  /\ settled[p][r] # NotSettled => settled'[p][r] = settled[p][r]
                    /\ told[p][r] # {} => told'[p][r] = told[p][r]
  BY DEF Kept
<1>0. /\ settled \in [Ids -> [Runs -> Responses \union {NotSettled}]]
      /\ told \in [Ids -> [Runs -> SUBSET Responses]]
      /\ told[p][r] \subseteq {settled[p][r]}
  BY DEF Inv, TypeOK, ToldInv
<1>1. ASSUME NEW x \in Ids, NEW q \in Requests, Promise!Settle(x, q)
      PROVE  /\ settled[p][r] # NotSettled => settled'[p][r] = settled[p][r]
             /\ told[p][r] # {} => told'[p][r] = told[p][r]
  BY <1>0, <1>1, RequestType DEF Promise!Settle
<1>2. ASSUME NEW x \in Ids, NEW y \in Runs, Promise!Answer(x, y)
      PROVE  /\ settled[p][r] # NotSettled => settled'[p][r] = settled[p][r]
             /\ told[p][r] # {} => told'[p][r] = told[p][r]
  <2>1. settled' = settled /\ told' = [told EXCEPT ![x][y] = {settled[x][y]}]
    BY <1>2 DEF Promise!Answer
  <2>2. CASE x = p /\ y = r
    <3>1. told'[p][r] = {settled[p][r]}
      BY <1>0, <2>1, <2>2
    <3>2. told[p][r] # {} => told[p][r] = {settled[p][r]}
      BY <1>0
    <3> QED
      BY <2>1, <3>1, <3>2
  <2>3. CASE ~(x = p /\ y = r)
    BY <1>0, <2>1, <2>3
  <2> QED
    BY <2>2, <2>3
<1>3. ASSUME NEW x \in Ids, NEW a \in Saves, Promise!Save(x, a)
      PROVE  settled' = settled /\ told' = told
  BY <1>3 DEF Promise!Save
<1>4. CASE UNCHANGED Promise!vars
  BY <1>4 DEF Promise!vars
<1> QED
  BY <1>1, <1>2, <1>3, <1>4 DEF Promise!Next

\* As in production: what a client was told about a run it is told for ever, also when
\* the next login moves the player to another connection.
THEOREM SettlementsAreFinal == Spec => [][Kept]_vars
<1>1. Inv /\ [Next]_vars => Kept
  BY NextPromise, PromiseKeeps
<1> QED
  BY <1>1, Invariance, PTL DEF Spec

-----------------------------------------------------------------------------
(* The probe                                                                 *)

LEMMA ProbeStep ==
  ASSUME [ProbeNext]_probeVars
  PROVE  [Next]_vars
<1> USE ProbeAssumption
<1>1. ASSUME NEW c \in Conns, Request(c, OpenIds) PROVE Next
  BY <1>1 DEF Next
<1>2. CASE Send \/ Read \/ Lose \/ ServeLoad \/ UNCHANGED probeVars
  BY <1>2 DEF Send, Read, Lose, ServeLoad, Refuse, probeVars
<1>3. CASE ServeLogin
  <2>1. LoginLookup(Dev, Mine) \/ LoginCreate(Dev) \/ LoginUpdate(Dev) \/ LoginBind(Dev)
    BY <1>3 DEF ServeLogin
  <2> QED
    BY <1>1, <2>1 DEF Request
<1>4. CASE ServeSave
  BY <1>1, <1>4 DEF ServeSave, Refuse, Request
<1>5. CASE ServeCombat
  BY <1>1, <1>5 DEF ServeCombat, Refuse, Request
<1>6. CASE Others
  <2>1. PICK c \in Conns \ {Dev} : Request(c, OpenIds \ {Mine})
    BY <1>6 DEF Others
  <2>2. Request(c, OpenIds)
    BY <2>1 DEF Request
  <2> QED
    BY <1>1, <2>2
<1> QED
  BY <1>2, <1>3, <1>4, <1>5, <1>6 DEF ProbeNext

\* The probe is a client like any other: what holds of the runtime holds beside it.
THEOREM ProbeIsClient == ProbeSpec => Spec
<1>1. ProbeInit => Init
  BY DEF ProbeInit
<1> QED
  BY <1>1, ProbeStep, PTL DEF ProbeSpec, Spec

-----------------------------------------------------------------------------
(* The probe's evidence                                                      *)

\* What the settlement of the probe's run stores.
Settlement == Response(ProbeArchive, ProbeRun)

\* Only the probe logs in with its open id, and has a player from the answer on.
MineInv ==
  /\ login[Dev].at # "none" => login[Dev].open = Mine /\ sent = 1 /\ served = 0
  /\ login[Dev].at = "create" => idOf[Mine] = NoPlayer
  /\ \A c \in Conns \ {Dev} :
       /\ login[c].at # "none" => login[c].open # Mine
       /\ uid[c] # NoPlayer => openID[uid[c]] \in OpenIds \ {Mine}
  /\ served = 0 => uid[Dev] = NoPlayer
  /\ served > 0 => uid[Dev] \in sessions /\ openID[uid[Dev]] = Mine

\* An id that has not been given out has no archive and no settlement.
UsedInv ==
  \A i \in Ids : openID[i] = NoPlayer => i \notin found /\ \A r \in Runs : settled[i][r] = NotSettled

\* The probe's player has what the requests answered so far have left.
ArchiveInv ==
  \A i \in Ids : openID[i] = Mine =>
    /\ served < 3 => i \notin found
    /\ served \in {3, 4} /\ job[Dev] = NoJob => i \in found /\ archive[i] = ProbeArchive
    /\ served < 5 /\ job[Dev] = NoJob => \A r \in Runs : settled[i][r] = NotSettled
    /\ served \in {5, 6} \/ job[Dev] # NoJob =>
         settled[i][ProbeRun.run] = Settlement /\ archive[i] = Settlement.archive

\* The handler on the probe's connection is busy with its run, the second time as a
\* duplicate.
CombatInv ==
  job[Dev] # NoJob =>
    /\ served \in {4, 5} /\ sent = served + 1
    /\ job[Dev].run = ProbeRun.run /\ (job[Dev].dup <=> served = 5)

\* One request at a time.
PlaceInv ==
  /\ sent \in 0..6 /\ served \in {sent - 1, sent} /\ served \in 0..6
  /\ waiting => sent >= 1
  /\ verdict \in {"running", "passed", "lost"}
  /\ verdict = "running" /\ ~waiting => served = sent /\ answer = NoAnswer /\ sent < 6
  /\ served < sent => answer = NoAnswer
  /\ verdict = "passed" => served = 6

\* What the server answers to the n-th request.
Right(n, body) ==
  /\ n = 1 => body.id \in Ids
  /\ n = 2 => ~body.found
  /\ n = 3 => body.success
  /\ n = 4 => body.found /\ body.archive = ProbeArchive
  /\ n = 5 => ~body.dup /\ body.response = Settlement
  /\ n = 6 => body.dup /\ body.response = Settlement

AnswerInv ==
  /\ answer # NoAnswer =>
       served = sent /\ answer.seq = sent /\ answer.ok /\ Right(sent, answer.body)
  /\ sent = 6 \/ (sent = 5 /\ ~waiting) => first.response = Settlement

StoreInv == MineInv /\ UsedInv /\ ArchiveInv /\ CombatInv
DialogueInv == PlaceInv /\ AnswerInv
ProbeInv == StoreInv /\ DialogueInv

\* Which request is which.
LEMMA ScriptIs ==
  ASSUME NEW n \in 1..6
  PROVE  /\ Script[n] = "login"  <=> n = 1
         /\ Script[n] = "load"   <=> n = 2
         /\ Script[n] = "save"   <=> n = 3
         /\ Script[n] = "reload" <=> n = 4
         /\ Script[n] = "combat" <=> n = 5
         /\ Script[n] = "again"  <=> n = 6
<1>1. /\ Script[1] = "login" /\ Script[2] = "load" /\ Script[3] = "save"
      /\ Script[4] = "reload" /\ Script[5] = "combat" /\ Script[6] = "again"
  BY DEF Script
<1>2. n = 1 \/ n = 2 \/ n = 3 \/ n = 4 \/ n = 5 \/ n = 6
  OBVIOUS
<1> QED
  BY <1>1, <1>2

LEMMA SettlementType ==
  /\ ProbeArchive \in Archives /\ ProbeRun \in Requests /\ ProbeRun.run \in Runs
  /\ Settlement # NotSettled /\ Settlement.archive = Credit(ProbeArchive, ProbeRun)
<1>1. ProbeArchive \in Archives /\ ProbeRun \in Requests /\ Fits(ProbeArchive, ProbeRun)
  BY ProbeAssumption, MemoryAssumption
<1>2. Settlement \in Responses /\ Settlement.archive = Credit(ProbeArchive, ProbeRun)
  BY <1>1, ResponseType DEF Settlement
<1> QED
  BY <1>1, <1>2, RequestType, MemoryAssumption

\* Once it has an answer to its login, the probe's player is the one with its open id.
LEMMA MyPlayer ==
  ASSUME TypeOK, IndexMatches, MineInv, served > 0
  PROVE  /\ uid[Dev] \in Ids /\ Authorised(Dev) /\ openID[uid[Dev]] = Mine
         /\ \A i \in Ids : openID[i] = Mine <=> i = uid[Dev]
<1>1. uid[Dev] \in sessions /\ openID[uid[Dev]] = Mine /\ sessions \subseteq Ids
  BY DEF MineInv, TypeOK
<1>2. uid[Dev] \in Ids /\ uid[Dev] # NoPlayer
  BY <1>1, MemoryAssumption DEF Ids
<1>3. \A i \in Ids : openID[i] = Mine => i = uid[Dev]
  BY <1>1, <1>2, ProbeAssumption DEF IndexMatches
<1> QED
  BY <1>1, <1>2, <1>3 DEF Authorised

\* A login writes back the player it holds, whose open id never changes.
LEMMA UpdateKeeps ==
  ASSUME Inv, NEW c \in Conns, LoginUpdate(c)
  PROVE  openID' = openID /\ idOf' = idOf
<1>1. TypeOK /\ IndexMatches /\ LoginInv
  BY DEF Inv
<1> DEFINE i == login[c].id
           o == login[c].open
<1>2. i \in Ids /\ o \in OpenIds /\ openID[i] = o
  BY <1>1 DEF LoginUpdate, LoginInv
<1>3. /\ openID' = [openID EXCEPT ![i] = o]
      /\ idOf' = [x \in OpenIds |-> IF x = o THEN i
                                    ELSE IF x = openID[i] THEN NoPlayer ELSE idOf[x]]
  BY DEF LoginUpdate, UpdatePlayer
<1>4. idOf[o] = i
  BY <1>1, <1>2 DEF IndexMatches
<1>5. openID' = openID
  BY <1>1, <1>2, <1>3 DEF TypeOK
<1>6. idOf' = idOf
  BY <1>1, <1>2, <1>3, <1>4 DEF TypeOK
<1> QED
  BY <1>5, <1>6

\* A step reaches the archive or the settlements of a player.
Touches(i) ==
  \/ archive'[i] # archive[i] \/ settled'[i] # settled[i]
  \/ ~(i \in found' <=> i \in found)

\* A request reaches those of the connection's own player only.
LEMMA RequestTouches ==
  ASSUME Inv, NEW c \in Conns, NEW codes \in SUBSET OpenIds, Request(c, codes),
         NEW i \in Ids, i # uid[c]
  PROVE  ~Touches(i)
<1> USE DEF settlements
<1>0. TypeOK
  BY DEF Inv
<1>1. ASSUME NEW a \in Saves, Save(c, a) PROVE ~Touches(i)
  BY <1>0, <1>1 DEF Save, Touches, TypeOK
<1>2. ASSUME NEW q \in Requests, Settle(c, q) PROVE ~Touches(i)
  BY <1>0, <1>2 DEF Settle, Touches, TypeOK
<1>3. CASE UNCHANGED <<archive, settled, found>>
  BY <1>3 DEF Touches
<1>4. \/ \E a \in Saves : Save(c, a)
      \/ \E q \in Requests : Settle(c, q)
      \/ UNCHANGED <<archive, settled, found>>
  BY DEF Request, LoginLookup, LoginCreate, LoginUpdate, LoginBind, Reconnect,
         SettleDuplicate, Reply
<1> QED
  BY <1>1, <1>2, <1>3, <1>4

\* A request changes nothing of another connection, and ends no session.
LEMMA RequestMoves ==
  ASSUME Inv, NEW c \in Conns, NEW codes \in SUBSET OpenIds, Request(c, codes)
  PROVE  /\ \A d \in Conns \ {c} : /\ login'[d] = login[d] /\ uid'[d] = uid[d]
                                   /\ job'[d] = job[d] /\ resp'[d] = resp[d]
         /\ sessions \subseteq sessions'
<1> USE DEF settlements, handlers, logins
<1>0. TypeOK
  BY DEF Inv
<1>1. ASSUME NEW d \in Conns \ {c}
      PROVE  /\ login'[d] = login[d] /\ uid'[d] = uid[d]
             /\ job'[d] = job[d] /\ resp'[d] = resp[d]
  <2>0. d # c
    OBVIOUS
  <2>1. login'[d] = login[d]
    BY <1>0, <2>0 DEF Request, LoginLookup, LoginCreate, LoginUpdate, LoginBind, Reconnect,
                      LoginAt, Save, Settle, SettleDuplicate, Reply, TypeOK
  <2>2. uid'[d] = uid[d]
    BY <1>0, <2>0 DEF Request, LoginLookup, LoginCreate, LoginUpdate, LoginBind, Reconnect,
                      Save, Settle, SettleDuplicate, Reply, TypeOK
  <2>3. job'[d] = job[d] /\ resp'[d] = resp[d]
    <3>1. ASSUME NEW q \in Requests, NEW x, NEW y, Got(c, q, x, y)
          PROVE  job'[d] = job[d] /\ resp'[d] = resp[d]
      BY <1>0, <2>0, <3>1 DEF Got, TypeOK
    <3>2. CASE Reply(c)
      BY <1>0, <2>0, <3>2 DEF Reply, TypeOK
    <3>3. CASE UNCHANGED <<job, resp>>
      BY <3>3
    <3>4. \/ \E q \in Requests : \E x, y : Got(c, q, x, y)
          \/ Reply(c)
          \/ UNCHANGED <<job, resp>>
      BY DEF Request, LoginLookup, LoginCreate, LoginUpdate, LoginBind, Reconnect,
             Save, Settle, SettleDuplicate
    <3> QED
      BY <3>1, <3>2, <3>3, <3>4
  <2> QED
    BY <2>1, <2>2, <2>3
<1>2. sessions \subseteq sessions'
  BY DEF Request, LoginLookup, LoginCreate, LoginUpdate, LoginBind, Reconnect,
         Save, Settle, SettleDuplicate, Reply
<1> QED
  BY <1>1, <1>2

\* Ids are given out and never taken back, and the probe's only by the probe.
LEMMA OthersDirectory ==
  ASSUME Inv, MineInv, NEW c \in Conns \ {Dev}, Request(c, OpenIds \ {Mine})
  PROVE  /\ \A i \in Ids : openID[i] # NoPlayer => openID'[i] = openID[i]
         /\ \A i \in Ids : openID'[i] = Mine <=> openID[i] = Mine
         /\ idOf'[Mine] = idOf[Mine]
<1> USE ProbeAssumption, MemoryAssumption DEF directory
<1>0. TypeOK /\ LoginInv
  BY DEF Inv
<1>1. CASE UNCHANGED <<openID, idOf>>
  BY <1>1
<1>2. CASE LoginCreate(c) /\ CreatePlayer(login[c].open)
  <2> DEFINE o == login[c].open
  <2>1. o \in OpenIds /\ o # Mine
    BY <1>0, <1>2 DEF LoginCreate, LoginInv, MineInv
  <2> HIDE DEF o
  <2>2. CreatePlayer(o)
    BY <1>2 DEF o
  <2>3. /\ nextID \in Ids /\ openID[nextID] = NoPlayer
        /\ openID' = [openID EXCEPT ![nextID] = o] /\ idOf' = [idOf EXCEPT ![o] = nextID]
    BY <1>0, <2>1, <2>2, CreateType
  <2> QED
    BY <1>0, <2>1, <2>3 DEF TypeOK
<1>3. CASE LoginUpdate(c)
  BY <1>3, UpdateKeeps
<1>4. UNCHANGED <<openID, idOf>> \/ (LoginCreate(c) /\ CreatePlayer(login[c].open)) \/ LoginUpdate(c)
  BY DEF Request, LoginLookup, LoginCreate, LoginBind, Reconnect, Save, Settle,
         SettleDuplicate, Reply
<1> QED
  BY <1>1, <1>2, <1>3, <1>4

\* Whoever has not got the probe's code neither logs in with it nor gets its player.
LEMMA OthersMine ==
  ASSUME Inv, MineInv, NEW c \in Conns \ {Dev}, Request(c, OpenIds \ {Mine}),
         UNCHANGED probe
  PROVE  MineInv'
<1> USE ProbeAssumption, MemoryAssumption DEF logins
<1> DEFINE Theirs(d) ==
             /\ login[d].at # "none" => login[d].open # Mine
             /\ uid[d] # NoPlayer => openID[uid[d]] \in OpenIds \ {Mine}
<1>0. TypeOK /\ LoginInv /\ \A d \in Conns \ {Dev} : Theirs(d)
  BY DEF Inv, MineInv
<1>1. UNCHANGED <<sent, served>>
  BY DEF probe
<1>2. /\ login'[Dev] = login[Dev] /\ uid'[Dev] = uid[Dev] /\ sessions \subseteq sessions'
      /\ \A i \in Ids : openID[i] # NoPlayer => openID'[i] = openID[i]
      /\ idOf'[Mine] = idOf[Mine]
  BY RequestMoves, OthersDirectory
<1>3. ASSUME NEW i, i \in Ids, openID[i] \in OpenIds \ {Mine}
      PROVE  openID'[i] \in OpenIds \ {Mine}
  BY <1>2, <1>3
<1>4. ASSUME NEW d \in Conns \ {Dev}, login'[d].at # "none" => login'[d].open # Mine,
             uid'[d] = uid[d]
      PROVE  Theirs(d)'
  <2>1. uid[d] # NoPlayer => uid[d] \in Ids
    BY <1>0 DEF TypeOK
  <2> QED
    BY <1>0, <1>3, <1>4, <2>1
<1>5. \A d \in Conns \ {Dev, c} : Theirs(d)'
  BY <1>0, <1>4, RequestMoves
<1>6. Theirs(c)'
  <2>1. CASE \E o \in OpenIds \ {Mine} : LoginLookup(c, o)
    <3>1. PICK o \in OpenIds \ {Mine} : LoginLookup(c, o)
      BY <2>1
    <3>2. idOf[o] \in Ids \union {NoPlayer}
      BY <1>0 DEF TypeOK
    <3>3. \E at \in {"create", "update"} : LoginAt(c, at, o, idOf[o])
      BY <3>1, <1>0 DEF LoginLookup
    <3>4. login'[c].open = o /\ uid' = uid
      BY <1>0, <3>1, <3>2, <3>3, LoginAtType DEF LoginLookup
    <3> QED
      BY <1>4, <3>4
  <2>2. CASE LoginCreate(c)
    <3>1. login[c].open \in OpenIds \ {Mine} /\ uid' = uid
      BY <1>0, <2>2 DEF LoginCreate, LoginInv
    <3>2. CASE CreatePlayer(login[c].open) /\ LoginAt(c, "update", login[c].open, nextID)
      <4>1. nextID \in Ids
        BY <1>0, <3>1, <3>2, CreateType
      <4>2. login'[c].open = login[c].open
        BY <1>0, <3>1, <3>2, <4>1, LoginAtType
      <4> QED
        BY <1>4, <3>1, <4>2
    <3>3. CASE login' = [login EXCEPT ![c] = NoLogin]
      <4>1. login'[c].at = "none"
        BY <1>0, <3>3, LoginEnds
      <4> QED
        BY <1>4, <3>1, <4>1
    <3> QED
      BY <2>2, <3>2, <3>3 DEF LoginCreate
  <2>3. CASE LoginUpdate(c)
    <3>1. login[c].open \in OpenIds \ {Mine} /\ login[c].id \in Ids /\ uid' = uid
      BY <1>0, <2>3 DEF LoginUpdate, LoginInv
    <3>2. login'[c].open = login[c].open
      BY <1>0, <2>3, <3>1, LoginAtType DEF LoginUpdate
    <3> QED
      BY <1>4, <3>1, <3>2
  <2>4. CASE LoginBind(c)
    <3>1. /\ login[c].id \in Ids
          /\ openID[login[c].id] \in OpenIds \ {Mine}
      BY <1>0, <2>4 DEF LoginBind, LoginInv
    <3>2. login'[c].at = "none" /\ uid'[c] = login[c].id
      BY <1>0, <2>4, LoginEnds DEF LoginBind, TypeOK
    <3> QED
      BY <1>3, <3>1, <3>2
  <2>5. CASE Reconnect(c)
    <3>1. login' = login /\ uid'[c] = NoPlayer
      BY <1>0, <2>5 DEF Reconnect, TypeOK
    <3> QED
      BY <1>0, <3>1
  <2>6. CASE UNCHANGED <<login, uid>>
    BY <1>0, <1>4, <2>6
  <2>7. \/ \E o \in OpenIds \ {Mine} : LoginLookup(c, o)
        \/ LoginCreate(c) \/ LoginUpdate(c) \/ LoginBind(c) \/ Reconnect(c)
        \/ UNCHANGED <<login, uid>>
    BY DEF Request, Save, Settle, SettleDuplicate, Reply
  <2> QED
    BY <2>1, <2>2, <2>3, <2>4, <2>5, <2>6, <2>7
<1>7. served > 0 => openID'[uid[Dev]] = openID[uid[Dev]]
  BY <1>0, <1>2 DEF MineInv, TypeOK
<1> QED
  BY <1>1, <1>2, <1>5, <1>6, <1>7 DEF MineInv

\* What the others do is not about the probe's player, nor about one that nobody is.
LEMMA OthersStore ==
  ASSUME Inv, StoreInv, NEW c \in Conns \ {Dev}, Request(c, OpenIds \ {Mine}),
         UNCHANGED probe
  PROVE  StoreInv'
<1> USE ProbeAssumption, MemoryAssumption
<1>0. TypeOK /\ MineInv /\ UsedInv /\ ArchiveInv /\ CombatInv
  BY DEF Inv, StoreInv
<1>1. UNCHANGED <<sent, served>> /\ job'[Dev] = job[Dev]
  BY RequestMoves DEF probe
<1>2. /\ \A i \in Ids : openID[i] # NoPlayer => openID'[i] = openID[i]
      /\ \A i \in Ids : openID'[i] = Mine <=> openID[i] = Mine
  BY <1>0, OthersDirectory
<1>3. ASSUME NEW i \in Ids, openID[i] = Mine \/ openID[i] = NoPlayer
      PROVE  archive'[i] = archive[i] /\ settled'[i] = settled[i] /\ (i \in found' <=> i \in found)
  <2>1. i # uid[c]
    BY <1>0, <1>3 DEF MineInv, Ids
  <2> QED
    BY <2>1, RequestTouches DEF Touches
<1>4. MineInv'
  BY <1>0, OthersMine
<1>5. UsedInv'
  <2>1. \A i \in Ids : openID'[i] = NoPlayer => openID[i] = NoPlayer
    BY <1>2
  <2> QED
    BY <1>0, <1>3, <2>1 DEF UsedInv
<1>6. ArchiveInv'
  BY <1>0, <1>1, <1>2, <1>3 DEF ArchiveInv
<1>7. CombatInv'
  BY <1>0, <1>1 DEF CombatInv
<1> QED
  BY <1>4, <1>5, <1>6, <1>7 DEF StoreInv

\* The probe expects what is right.
LEMMA RightIsExpected ==
  ASSUME NEW n \in 1..6, NEW body, Right(n, body), n = 6 => first.response = Settlement
  PROVE  Expected(Script[n], body)
<1>1. n = 1 \/ n = 2 \/ n = 3 \/ n = 4 \/ n = 5 \/ n = 6
  OBVIOUS
<1>2. CASE n = 1
  BY <1>2, ScriptIs DEF Expected, Right
<1>3. CASE n = 2
  BY <1>3, ScriptIs DEF Expected, Right
<1>4. CASE n = 3
  BY <1>4, ScriptIs DEF Expected, Right
<1>5. CASE n = 4
  BY <1>5, ScriptIs DEF Expected, Right
<1>6. CASE n = 5
  BY <1>6, ScriptIs DEF Expected, Right
<1>7. CASE n = 6
  BY <1>7, ScriptIs DEF Expected, Right
<1> QED
  BY <1>1, <1>2, <1>3, <1>4, <1>5, <1>6, <1>7

\* The probe sends, reads or gives up: the server does nothing.
LEMMA DialogueStep ==
  ASSUME Inv, ProbeInv, Send \/ Read \/ Lose
  PROVE  ProbeInv'
<1>0. StoreInv /\ PlaceInv /\ AnswerInv
  BY DEF ProbeInv, DialogueInv
<1>1. CASE Send
  <2>1. /\ served = sent /\ answer = NoAnswer /\ sent \in 0..5
        /\ sent' = sent + 1 /\ waiting' /\ verdict = "running"
        /\ UNCHANGED <<vars, served, answer, first, verdict>>
    BY <1>0, <1>1 DEF Send, PlaceInv
  <2>2. login[Dev].at = "none" /\ job[Dev] = NoJob
    BY <1>0, <2>1 DEF StoreInv, MineInv, CombatInv
  <2>3. StoreInv'
    BY <1>0, <2>1, <2>2 DEF StoreInv, MineInv, UsedInv, ArchiveInv, CombatInv, vars,
       settlements, handlers, logins, directory
  <2>4. PlaceInv'
    BY <1>0, <2>1 DEF PlaceInv
  <2>5. AnswerInv'
    BY <1>0, <1>1, <2>1 DEF AnswerInv, Send
  <2> QED
    BY <2>3, <2>4, <2>5 DEF ProbeInv, DialogueInv
<1>2. CASE Read
  <2>1. /\ verdict = "running" /\ waiting /\ answer # NoAnswer
        /\ answer' = NoAnswer /\ ~waiting' /\ UNCHANGED <<vars, sent, served>>
        /\ first' = IF Script[sent] = "combat" THEN answer.body ELSE first
        /\ verdict' = IF ~Agrees THEN "mismatch"
                      ELSE IF sent = Len(Script) THEN "passed" ELSE "running"
    BY <1>2 DEF Read
  <2>2. /\ sent \in 1..6 /\ served = sent /\ answer.seq = sent /\ answer.ok
        /\ Right(sent, answer.body)
        /\ sent = 6 => first.response = Settlement
    BY <1>0, <2>1 DEF PlaceInv, AnswerInv
  <2>3. Expected(Script[sent], answer.body)
    BY <2>2, RightIsExpected
  <2>4. Len(Script) = 6
    BY DEF Script
  <2>5. verdict' = IF sent = 6 THEN "passed" ELSE "running"
    BY <2>1, <2>2, <2>3, <2>4 DEF Agrees
  <2>6. StoreInv'
    BY <1>0, <2>1 DEF StoreInv, MineInv, UsedInv, ArchiveInv, CombatInv, vars,
       settlements, handlers, logins, directory
  <2>7. PlaceInv'
    BY <1>0, <2>1, <2>2, <2>5 DEF PlaceInv
  <2>8. sent = 5 \/ sent = 6 => first'.response = Settlement
    BY <2>1, <2>2, ScriptIs DEF Right
  <2>9. AnswerInv'
    BY <2>1, <2>8 DEF AnswerInv
  <2> QED
    BY <2>6, <2>7, <2>9 DEF ProbeInv, DialogueInv
<1>3. CASE Lose
  <2>1. StoreInv'
    BY <1>0, <1>3 DEF Lose, StoreInv, MineInv, UsedInv, ArchiveInv, CombatInv, vars,
       settlements, handlers, logins, directory
  <2>2. PlaceInv' /\ AnswerInv'
    BY <1>0, <1>3 DEF Lose, PlaceInv, AnswerInv
  <2> QED
    BY <2>1, <2>2 DEF ProbeInv, DialogueInv
<1> QED
  BY <1>1, <1>2, <1>3

\* The server answers the request that the probe waits for.
LEMMA AnswerGiven ==
  ASSUME DialogueInv, served < sent, NEW body, Answer(TRUE, body), Right(sent, body)
  PROVE  DialogueInv'
<1>0. PlaceInv /\ AnswerInv
  BY DEF DialogueInv
<1>1. /\ served' = sent /\ answer' = [seq |-> sent, ok |-> TRUE, body |-> body]
      /\ UNCHANGED <<sent, waiting, first, verdict>>
  BY DEF Answer
<1>2. answer'.seq = sent /\ answer'.ok /\ answer'.body = body
  BY <1>1
<1>3. (sent \in 1..6 /\ waiting) \/ verdict # "running"
  BY <1>0 DEF PlaceInv
<1>4. PlaceInv'
  BY <1>0, <1>1, <1>3 DEF PlaceInv
<1>5. Right(sent', answer'.body)
  BY <1>1, <1>2
<1>6. AnswerInv'
  BY <1>0, <1>1, <1>2, <1>5 DEF AnswerInv
<1> QED
  BY <1>4, <1>6 DEF DialogueInv

\* A step without an answer.
LEMMA NoAnswerGiven ==
  ASSUME DialogueInv, UNCHANGED probe
  PROVE  DialogueInv'
BY DEF DialogueInv, PlaceInv, AnswerInv, probe

\* The others' part of MineInv, when the probe's request is served.
LEMMA TheirsKept ==
  ASSUME Inv, MineInv, NEW codes \in SUBSET OpenIds, Request(Dev, codes),
         \A i \in Ids : openID[i] # NoPlayer => openID'[i] = openID[i]
  PROVE  \A c \in Conns \ {Dev} :
           /\ login'[c].at # "none" => login'[c].open # Mine
           /\ uid'[c] # NoPlayer => openID'[uid'[c]] \in OpenIds \ {Mine}
<1> SUFFICES ASSUME NEW c \in Conns \ {Dev}
             PROVE  /\ login'[c].at # "none" => login'[c].open # Mine
                    /\ uid'[c] # NoPlayer => openID'[uid'[c]] \in OpenIds \ {Mine}
  OBVIOUS
<1>1. login'[c] = login[c] /\ uid'[c] = uid[c]
  BY ProbeAssumption, RequestMoves
<1>2. uid[c] # NoPlayer => uid[c] \in Ids /\ openID[uid[c]] \in OpenIds \ {Mine}
  BY DEF Inv, TypeOK, MineInv
<1>3. uid[c] # NoPlayer => openID[uid[c]] # NoPlayer
  BY <1>2, MemoryAssumption
<1> QED
  BY <1>1, <1>2, <1>3 DEF MineInv

\* The probe's login creates its player, which has no archive and no settlements.
LEMMA LoginServed ==
  ASSUME Inv, ProbeInv, ServeLogin
  PROVE  ProbeInv'
<1> USE ProbeAssumption, MemoryAssumption DEF settlements, handlers, logins, directory
<1>0. /\ TypeOK /\ LoginInv /\ IndexMatches
      /\ StoreInv /\ MineInv /\ UsedInv /\ ArchiveInv /\ CombatInv /\ DialogueInv /\ PlaceInv
  BY DEF Inv, ProbeInv, StoreInv, DialogueInv
<1>1. sent = 1 /\ served = 0
  <2>1. served < sent /\ Script[sent] = "login" /\ sent \in 1..6
    BY <1>0 DEF ServeLogin, Pending, PlaceInv
  <2> QED
    BY <1>0, <2>1, ScriptIs DEF PlaceInv
<1>2. uid[Dev] = NoPlayer /\ job[Dev] = NoJob
  BY <1>0, <1>1 DEF MineInv, CombatInv
<1>3. CASE LoginLookup(Dev, Mine) /\ UNCHANGED probe
  <2>1. Request(Dev, OpenIds) /\ UNCHANGED <<settlements, handlers, uid, sessions, directory>>
    BY <1>3 DEF Request, LoginLookup
  <2>2. idOf[Mine] \in Ids \union {NoPlayer}
    BY <1>0 DEF TypeOK
  <2>3. \E at \in {"create", "update"} : /\ LoginAt(Dev, at, Mine, idOf[Mine])
                                         /\ at = "create" => idOf[Mine] = NoPlayer
    BY <1>3 DEF LoginLookup
  <2>4. login'[Dev].open = Mine /\ (login'[Dev].at = "create" => idOf[Mine] = NoPlayer)
    BY <1>0, <2>2, <2>3, LoginAtType
  <2>5. UNCHANGED <<sent, served>>
    BY <1>3 DEF probe
  <2>6. MineInv'
    BY <1>0, <1>1, <1>2, <2>1, <2>4, <2>5, TheirsKept DEF MineInv
  <2>7. UsedInv' /\ ArchiveInv' /\ CombatInv'
    BY <1>0, <2>1, <2>5 DEF UsedInv, ArchiveInv, CombatInv
  <2> QED
    BY <1>0, <1>3, <2>6, <2>7, NoAnswerGiven DEF ProbeInv, StoreInv
<1>4. CASE LoginCreate(Dev) /\ IF login'[Dev] = NoLogin THEN Answer(FALSE, [ok |-> FALSE])
                                                       ELSE UNCHANGED probe
  <2>1. Request(Dev, OpenIds) /\ UNCHANGED <<settlements, handlers, uid, sessions>>
    BY <1>4 DEF Request, LoginCreate
  <2>2. login[Dev].at = "create" /\ login[Dev].open = Mine /\ idOf[Mine] = NoPlayer
    BY <1>0, <1>4 DEF LoginCreate, MineInv
  <2>3. CreatePlayer(Mine) /\ LoginAt(Dev, "update", Mine, nextID)
    BY <1>4, <2>2 DEF LoginCreate
  <2>4. nextID \in Ids /\ openID[nextID] = NoPlayer /\ openID' = [openID EXCEPT ![nextID] = Mine]
    BY <1>0, <2>3, CreateType
  <2>5. login'[Dev].at = "update" /\ login'[Dev].open = Mine
    BY <1>0, <2>3, <2>4, LoginAtType
  <2>6. login'[Dev] # NoLogin
    BY <2>5 DEF NoLogin
  <2>7. UNCHANGED probe /\ UNCHANGED <<sent, served>>
    BY <1>4, <2>6 DEF probe
  <2>8. /\ \A i \in Ids : openID[i] # NoPlayer => openID'[i] = openID[i]
        /\ \A i \in Ids : openID'[i] = Mine => i = nextID
    <3>1. \A i \in Ids : openID[i] # Mine
      BY <1>0, <2>2 DEF IndexMatches, Ids
    <3> QED
      BY <1>0, <2>4, <3>1 DEF TypeOK
  <2>9. MineInv'
    BY <1>0, <1>1, <1>2, <2>1, <2>5, <2>7, <2>8, TheirsKept DEF MineInv
  <2>10. UsedInv'
    BY <1>0, <2>1, <2>8 DEF UsedInv
  <2>11. ArchiveInv'
    BY <1>0, <1>1, <1>2, <2>1, <2>4, <2>7, <2>8 DEF ArchiveInv, UsedInv
  <2>12. CombatInv'
    BY <1>0, <2>1, <2>7 DEF CombatInv
  <2> QED
    BY <1>0, <2>7, <2>9, <2>10, <2>11, <2>12, NoAnswerGiven DEF ProbeInv, StoreInv
<1>5. CASE LoginUpdate(Dev) /\ UNCHANGED probe
  <2>1. Request(Dev, OpenIds) /\ UNCHANGED <<settlements, handlers, uid, sessions>>
    BY <1>5 DEF Request, LoginUpdate
  <2>2. openID' = openID /\ idOf' = idOf /\ UNCHANGED <<sent, served>>
    BY <1>5, UpdateKeeps DEF probe
  <2>3. login[Dev].open = Mine /\ login[Dev].id \in Ids
    BY <1>0, <1>5 DEF LoginUpdate, MineInv, LoginInv
  <2>4. login'[Dev].at = "session" /\ login'[Dev].open = Mine
    BY <1>0, <1>5, <2>3, LoginAtType DEF LoginUpdate
  <2>5. MineInv'
    BY <1>0, <1>1, <1>2, <2>1, <2>2, <2>4, TheirsKept DEF MineInv
  <2>6. UsedInv' /\ ArchiveInv' /\ CombatInv'
    BY <1>0, <2>1, <2>2 DEF UsedInv, ArchiveInv, CombatInv
  <2> QED
    BY <1>0, <1>5, <2>5, <2>6, NoAnswerGiven DEF ProbeInv, StoreInv
<1>6. CASE LoginBind(Dev) /\ Answer(TRUE, [id |-> login[Dev].id])
  <2>1. Request(Dev, OpenIds) /\ UNCHANGED <<settlements, handlers, directory>>
    BY <1>6 DEF Request, LoginBind
  <2>2. /\ login[Dev].id \in Ids /\ openID[login[Dev].id] = Mine
    BY <1>0, <1>6 DEF LoginBind, MineInv, LoginInv
  <2>3. login'[Dev].at = "none" /\ uid'[Dev] = login[Dev].id /\ login[Dev].id \in sessions'
    BY <1>0, <1>6, LoginEnds DEF LoginBind, TypeOK
  <2>4. sent' = 1 /\ served' = 1
    BY <1>1, <1>6 DEF Answer
  <2>5. MineInv'
    BY <1>0, <2>1, <2>2, <2>3, <2>4, TheirsKept DEF MineInv
  <2>6. UsedInv' /\ ArchiveInv' /\ CombatInv'
    BY <1>0, <1>1, <1>2, <2>1, <2>4 DEF UsedInv, ArchiveInv, CombatInv
  <2>7. DialogueInv'
    <3> DEFINE body == [id |-> login[Dev].id]
    <3>1. body.id \in Ids
      BY <2>2
    <3> HIDE DEF body
    <3>2. Right(sent, body)
      BY <1>1, <3>1 DEF Right
    <3>3. Answer(TRUE, body)
      BY <1>6 DEF body
    <3>4. served < sent
      BY <1>1
    <3> QED
      BY <1>0, <3>2, <3>3, <3>4, AnswerGiven
  <2> QED
    BY <2>5, <2>6, <2>7 DEF ProbeInv, StoreInv
<1> QED
  BY <1>3, <1>4, <1>5, <1>6 DEF ServeLogin

\* The archive is absent the first time, and what the probe saved the second time.
LEMMA LoadServed ==
  ASSUME Inv, ProbeInv, ServeLoad
  PROVE  ProbeInv'
<1>0. /\ TypeOK /\ IndexMatches
      /\ StoreInv /\ MineInv /\ ArchiveInv /\ CombatInv /\ DialogueInv /\ PlaceInv
  BY DEF Inv, ProbeInv, StoreInv, DialogueInv
<1>1. served < sent /\ ((sent = 2 /\ served = 1) \/ (sent = 4 /\ served = 3))
  <2>1. served < sent /\ sent \in 1..6 /\ (Script[sent] = "load" \/ Script[sent] = "reload")
    BY <1>0 DEF ServeLoad, Pending, PlaceInv
  <2>2. sent = 2 \/ sent = 4
    BY <2>1, ScriptIs
  <2>3. served = sent - 1
    BY <1>0, <2>1 DEF PlaceInv
  <2> QED
    BY <2>1, <2>2, <2>3
<1>2. /\ uid[Dev] \in Ids /\ Authorised(Dev) /\ openID[uid[Dev]] = Mine
      /\ job[Dev] = NoJob /\ login[Dev].at = "none"
  BY <1>0, <1>1, MyPlayer DEF CombatInv, MineInv
<1> DEFINE body == Load(uid[Dev])
<1>3. Answer(TRUE, body) /\ UNCHANGED vars
  BY <1>2 DEF ServeLoad
<1>4. body.found <=> uid[Dev] \in found
  BY DEF Load
<1>5. body.archive = archive[uid[Dev]]
  BY DEF Load
<1> HIDE DEF body
<1>6. Right(sent, body)
  BY <1>0, <1>1, <1>2, <1>4, <1>5 DEF ArchiveInv, Right
<1>7. DialogueInv'
  BY <1>0, <1>1, <1>3, <1>6, AnswerGiven
<1>8. served' = sent /\ sent' = sent
  BY <1>3 DEF Answer
<1>9. StoreInv'
  BY <1>0, <1>1, <1>2, <1>3, <1>8 DEF StoreInv, MineInv, UsedInv, ArchiveInv, CombatInv, vars,
     settlements, handlers, logins, directory
<1> QED
  BY <1>7, <1>9 DEF ProbeInv

\* A step on the probe's connection that logs nobody in.
LEMMA MineKept ==
  ASSUME Inv, MineInv, NEW codes \in SUBSET OpenIds, Request(Dev, codes),
         UNCHANGED <<logins, directory>>, sent' = sent,
         served > 0, served' > 0, login[Dev].at = "none"
  PROVE  MineInv'
<1> USE DEF logins, directory
<1>1. \A i \in Ids : openID[i] # NoPlayer => openID'[i] = openID[i]
  OBVIOUS
<1>2. \A c \in Conns \ {Dev} :
        /\ login'[c].at # "none" => login'[c].open # Mine
        /\ uid'[c] # NoPlayer => openID'[uid'[c]] \in OpenIds \ {Mine}
  BY <1>1, TheirsKept
<1>3. served' # 0
  OBVIOUS
<1> QED
  BY <1>2, <1>3 DEF MineInv

LEMMA SaveServed ==
  ASSUME Inv, ProbeInv, ServeSave
  PROVE  ProbeInv'
<1> USE ProbeAssumption DEF logins, directory, handlers
<1>0. /\ TypeOK /\ IndexMatches
      /\ StoreInv /\ MineInv /\ UsedInv /\ ArchiveInv /\ CombatInv /\ DialogueInv /\ PlaceInv
  BY DEF Inv, ProbeInv, StoreInv, DialogueInv
<1>1. served < sent /\ sent = 3 /\ served = 2
  <2>1. served < sent /\ sent \in 1..6 /\ Script[sent] = "save"
    BY <1>0 DEF ServeSave, Pending, PlaceInv
  <2>2. sent = 3
    BY <2>1, ScriptIs
  <2> QED
    BY <1>0, <2>1, <2>2 DEF PlaceInv
<1>2. /\ uid[Dev] \in Ids /\ Authorised(Dev) /\ openID[uid[Dev]] = Mine
      /\ \A i \in Ids : openID[i] = Mine <=> i = uid[Dev]
      /\ job[Dev] = NoJob /\ login[Dev].at = "none"
  BY <1>0, <1>1, MyPlayer DEF CombatInv, MineInv
<1> DEFINE body == [success |-> TRUE]
<1>3. Save(Dev, ProbeArchive) /\ Answer(TRUE, body)
  BY <1>2 DEF ServeSave
<1>4. body.success
  OBVIOUS
<1> HIDE DEF body
<1>5. Right(sent, body)
  BY <1>1, <1>4 DEF Right
<1>6. DialogueInv'
  BY <1>0, <1>1, <1>3, <1>5, AnswerGiven
<1>7. served' = 3 /\ sent' = 3
  BY <1>1, <1>3 DEF Answer
<1>8. Request(Dev, OpenIds) /\ UNCHANGED <<logins, directory, settled, job>>
  BY <1>3 DEF Request, Save
<1>9. MineInv'
  BY <1>0, <1>1, <1>2, <1>7, <1>8, MineKept
<1>10. archive'[uid[Dev]] = ProbeArchive /\ found' = found \union {uid[Dev]}
  BY <1>0, <1>2, <1>3 DEF Save, TypeOK
<1>11. UsedInv'
  BY <1>0, <1>2, <1>8, <1>10, MemoryAssumption DEF UsedInv
<1>12. ArchiveInv'
  BY <1>0, <1>1, <1>2, <1>7, <1>8, <1>10 DEF ArchiveInv
<1>13. CombatInv'
  BY <1>2, <1>8 DEF CombatInv
<1> QED
  BY <1>6, <1>9, <1>11, <1>12, <1>13 DEF ProbeInv, StoreInv

\* The first request settles the run, the second is given what it stored.
LEMMA CombatServed ==
  ASSUME Inv, ProbeInv, ServeCombat
  PROVE  ProbeInv'
<1> USE ProbeAssumption DEF logins, directory
<1>0. /\ TypeOK /\ IndexMatches /\ ResponseInv /\ BusyInv
      /\ StoreInv /\ MineInv /\ UsedInv /\ ArchiveInv /\ CombatInv /\ DialogueInv /\ PlaceInv
  BY DEF Inv, ProbeInv, StoreInv, DialogueInv
<1>1. served < sent /\ ((sent = 5 /\ served = 4) \/ (sent = 6 /\ served = 5))
  <2>1. served < sent /\ sent \in 1..6 /\ (Script[sent] = "combat" \/ Script[sent] = "again")
    BY <1>0 DEF ServeCombat, Pending, PlaceInv
  <2>2. sent = 5 \/ sent = 6
    BY <2>1, ScriptIs
  <2>3. served = sent - 1
    BY <1>0, <2>1 DEF PlaceInv
  <2> QED
    BY <2>1, <2>2, <2>3
<1> DEFINE me == uid[Dev]
<1>2. /\ me \in Ids /\ Authorised(Dev) /\ openID[me] = Mine
      /\ \A i \in Ids : openID[i] = Mine <=> i = me
      /\ login[Dev].at = "none"
  BY <1>0, <1>1, MyPlayer DEF MineInv
<1>3. /\ job[Dev] = NoJob /\ served = 4 =>
           archive[me] = ProbeArchive /\ settled[me][ProbeRun.run] = NotSettled
      /\ served = 5 \/ job[Dev] # NoJob =>
           settled[me][ProbeRun.run] = Settlement /\ archive[me] = Settlement.archive
  BY <1>0, <1>2, SettlementType DEF ArchiveInv
<1> HIDE DEF me
<1>4. ASSUME job[Dev] = NoJob, Settle(Dev, ProbeRun), UNCHANGED probe PROVE ProbeInv'
  <2>1. served = 4 /\ sent = 5 /\ archive[me] = ProbeArchive /\ UNCHANGED <<sent, served>>
    BY <1>1, <1>3, <1>4, SettlementType DEF Settle, me, probe
  <2>2. /\ Got(Dev, ProbeRun, Settlement, FALSE)
        /\ archive' = [archive EXCEPT ![me] = Settlement.archive]
        /\ found' = found \union {me}
        /\ settled' = [settled EXCEPT ![me][ProbeRun.run] = Settlement]
        /\ UNCHANGED <<logins, directory>>
    BY <1>4, <2>1 DEF Settle, Settlement, me
  <2>3. Settlement \in Responses
    BY SettlementType, ResponseType DEF Settlement
  <2>4. job'[Dev] # NoJob /\ job'[Dev].run = ProbeRun.run /\ job'[Dev].dup = FALSE
    BY <1>0, <2>2, <2>3, GotType
  <2>5. /\ archive'[me] = Settlement.archive /\ settled'[me][ProbeRun.run] = Settlement
        /\ \A i \in Ids \ {me} : settled'[i] = settled[i] /\ archive'[i] = archive[i]
    BY <1>0, <1>2, <2>2, SettlementType DEF TypeOK
  <2>6. Request(Dev, OpenIds)
    BY <1>4 DEF Request
  <2>7. MineInv'
    BY <1>0, <1>2, <2>1, <2>2, <2>6, MineKept
  <2>8. UsedInv'
    BY <1>0, <1>2, <2>2, <2>5, MemoryAssumption DEF UsedInv
  <2>9. ArchiveInv'
    BY <1>2, <2>1, <2>2, <2>4, <2>5 DEF ArchiveInv
  <2>10. CombatInv'
    BY <2>1, <2>4 DEF CombatInv
  <2> QED
    BY <1>0, <1>4, <2>7, <2>8, <2>9, <2>10, NoAnswerGiven DEF ProbeInv, StoreInv
<1>5. ASSUME job[Dev] = NoJob, SettleDuplicate(Dev, ProbeRun), UNCHANGED probe PROVE ProbeInv'
  <2>1. served = 5 /\ sent = 6 /\ settled[me][ProbeRun.run] = Settlement /\ UNCHANGED <<sent, served>>
    BY <1>1, <1>3, <1>5 DEF SettleDuplicate, me, probe
  <2>2. Got(Dev, ProbeRun, Settlement, TRUE) /\ UNCHANGED <<settlements, logins, directory>>
    BY <1>5, <2>1 DEF SettleDuplicate, me
  <2>3. Settlement \in Responses
    BY SettlementType, ResponseType DEF Settlement
  <2>4. job'[Dev] # NoJob /\ job'[Dev].run = ProbeRun.run /\ job'[Dev].dup = TRUE
    BY <1>0, <2>2, <2>3, GotType
  <2>5. Request(Dev, OpenIds)
    BY <1>5 DEF Request
  <2>6. MineInv'
    BY <1>0, <1>2, <2>1, <2>2, <2>5, MineKept
  <2>7. UsedInv' /\ ArchiveInv'
    BY <1>0, <2>1, <2>2 DEF UsedInv, ArchiveInv, settlements
  <2>8. CombatInv'
    BY <2>1, <2>4 DEF CombatInv
  <2> QED
    BY <1>0, <1>5, <2>6, <2>7, <2>8, NoAnswerGiven DEF ProbeInv, StoreInv
<1>6. ASSUME job[Dev] # NoJob, Reply(Dev),
             Answer(TRUE, [dup |-> job[Dev].dup, response |-> resp[Dev]])
      PROVE  ProbeInv'
  <2>1. /\ job[Dev].run = ProbeRun.run /\ (job[Dev].dup <=> served = 5)
        /\ resp[Dev] = Settlement
    BY <1>0, <1>3, <1>6 DEF CombatInv, ResponseInv, me
  <2> DEFINE body == [dup |-> job[Dev].dup, response |-> resp[Dev]]
  <2>2. body.dup = job[Dev].dup /\ body.response = resp[Dev]
    OBVIOUS
  <2>3. Answer(TRUE, body)
    BY <1>6
  <2> HIDE DEF body
  <2>4. (body.dup <=> served = 5) /\ body.response = Settlement
    BY <2>1, <2>2
  <2>5. Right(sent, body)
    BY <1>1, <2>4 DEF Right
  <2>6. DialogueInv'
    BY <1>0, <1>1, <2>3, <2>5, AnswerGiven
  <2>7. served' = sent /\ sent' = sent
    BY <2>3 DEF Answer
  <2>8. Request(Dev, OpenIds) /\ UNCHANGED <<settlements, logins, directory>>
    BY <1>6 DEF Request, Reply
  <2>9. job'[Dev] = NoJob
    BY <1>0, <1>6 DEF Reply, TypeOK
  <2>10. MineInv'
    BY <1>0, <1>1, <1>2, <2>7, <2>8, MineKept
  <2>11. UsedInv'
    BY <1>0, <2>8 DEF UsedInv, settlements
  <2>12. ArchiveInv'
    BY <1>1, <1>2, <1>3, <1>6, <2>7, <2>8, <2>9 DEF ArchiveInv, settlements
  <2>13. CombatInv'
    BY <2>9 DEF CombatInv
  <2> QED
    BY <2>6, <2>10, <2>11, <2>12, <2>13 DEF ProbeInv, StoreInv
<1>7. ~Refused
  <2>1. CASE served = 4 /\ job[Dev] = NoJob
    BY <1>2, <1>3, <2>1 DEF Refused, me
  <2>2. CASE served = 5 \/ job[Dev] # NoJob
    BY <1>2, <1>3, <2>2, SettlementType DEF Refused, me
  <2> QED
    BY <1>1, <2>1, <2>2
<1>8. CASE Idle(Dev)
  BY <1>4, <1>5, <1>7, <1>8 DEF ServeCombat, Idle
<1>9. CASE ~Idle(Dev)
  <2>1. job[Dev] # NoJob
    BY <1>2, <1>9 DEF Idle
  <2> QED
    BY <1>6, <1>9, <2>1 DEF ServeCombat
<1> QED
  BY <1>8, <1>9

\* The probe never meets an answer it does not expect, and what it reports is true.
THEOREM ProbeEvidenceIsTrue == ProbeSpec => []EvidenceIsTrue
<1>1. ProbeInit => ProbeInv
  <2> SUFFICES ASSUME ProbeInit PROVE ProbeInv
    OBVIOUS
  <2> USE ProbeAssumption, MemoryAssumption DEF ProbeInit, Init
  <2>1. MineInv
    BY DEF MineInv, NoLogin
  <2>2. UsedInv /\ ArchiveInv /\ CombatInv
    BY DEF UsedInv, ArchiveInv, CombatInv
  <2>3. PlaceInv /\ AnswerInv
    BY DEF PlaceInv, AnswerInv
  <2> QED
    BY <2>1, <2>2, <2>3 DEF ProbeInv, StoreInv, DialogueInv
<1>2. Inv /\ ProbeInv /\ [ProbeNext]_probeVars => ProbeInv'
  <2> SUFFICES ASSUME Inv, ProbeInv, [ProbeNext]_probeVars PROVE ProbeInv'
    OBVIOUS
  <2>1. CASE Others
    <3>1. PICK c \in Conns \ {Dev} : Request(c, OpenIds \ {Mine}) /\ UNCHANGED probe
      BY <2>1 DEF Others
    <3> QED
      BY <3>1, OthersStore, NoAnswerGiven DEF ProbeInv
  <2>2. CASE UNCHANGED probeVars
    BY <2>2 DEF probeVars, probe, vars, settlements, handlers, logins, directory, ProbeInv,
       StoreInv, MineInv, UsedInv, ArchiveInv, CombatInv, DialogueInv, PlaceInv, AnswerInv
  <2> QED
    BY <2>1, <2>2, DialogueStep, LoginServed, LoadServed, SaveServed, CombatServed DEF ProbeNext
<1>3. Inv /\ ProbeInv => EvidenceIsTrue
  <2> SUFFICES ASSUME Inv, ProbeInv PROVE EvidenceIsTrue
    OBVIOUS
  <2>0. /\ TypeOK /\ IndexMatches
        /\ MineInv /\ ArchiveInv /\ PlaceInv
    BY DEF Inv, ProbeInv, StoreInv, DialogueInv
  <2>1. verdict # "mismatch"
    BY <2>0 DEF PlaceInv
  <2>2. ASSUME verdict = "passed"
        PROVE  /\ settled[idOf[Mine]][ProbeRun.run] = Settlement
               /\ archive[idOf[Mine]] = Settlement.archive
    <3>1. served = 6
      BY <2>0, <2>2 DEF PlaceInv
    <3>2. uid[Dev] \in Ids /\ openID[uid[Dev]] = Mine
      BY <2>0, <3>1, MyPlayer
    <3>3. idOf[Mine] = uid[Dev]
      BY <2>0, <3>2, ProbeAssumption DEF IndexMatches
    <3> QED
      BY <2>0, <3>1, <3>2, <3>3 DEF ArchiveInv
  <2> QED
    BY <2>1, <2>2, SettlementType DEF EvidenceIsTrue, Settlement
<1> QED
  BY <1>1, <1>2, <1>3, ProbeIsClient, Invariance, PTL DEF ProbeSpec

=============================================================================
