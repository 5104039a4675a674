------------------------------- MODULE Probe -------------------------------
(***************************************************************************)
(* cmd/devprobe against the development runtime.  The probe logs in with   *)
(* an identity of its own, loads, saves and reloads an archive, settles a  *)
(* run twice, and compares every answer with what it expects; it ends with *)
(* evidence, with the loss of its connection (a failing dial, read or      *)
(* write, a timeout) or with a mismatch.  Other clients use the server at  *)
(* the same time, with other identities.                                   *)
(***************************************************************************)
EXTENDS MemoryStore, Sequences

CONSTANTS
  Dev,            \* the probe's connection
  Mine,           \* its open id, which it has drawn at random
  ProbeArchive,
  ProbeRun

ASSUME ProbeAssumption ==
  /\ Dev \in Conns /\ Mine \in OpenIds
  /\ ProbeArchive \in Saves /\ ProbeRun \in Requests
  /\ Fits(ProbeArchive, ProbeRun)

\* newProbeArchive and newProbeCombatResult: what the probe saves and settles.
newProbeArchive == [gold |-> 7, kills |-> 17, games |-> 2, best |-> 4]
newProbeCombatResult(run) ==
  [RunId |-> run, Outcome |-> "victory", PlayerLevel |-> 1, DungeonLevel |-> 2,
   Score |-> 100, Kills |-> 2, SurvivalTime |-> "played", StyleId |-> 1]

\* The requests of runProbe, in order; the number of a request is its seq.
Script == <<"login", "load", "save", "reload", "combat", "again">>

VARIABLES
  sent,      \* probe.seq
  served,    \* the requests that the server has answered
  answer,    \* the frame on its way to the probe
  waiting,   \* the probe reads
  first,     \* firstSettlement
  verdict    \* how the probe ends

probe     == <<sent, served, answer, waiting, first, verdict>>
probeVars == <<vars, probe>>

NoAnswer == [seq |-> 0]
NoFirst  == [dup |-> TRUE]

ProbeInit ==
  /\ Init
  /\ sent = 0 /\ served = 0
  /\ answer = NoAnswer /\ waiting = FALSE
  /\ first = NoFirst
  /\ verdict = "running"

-----------------------------------------------------------------------------
(* The probe                                                                  *)

\* The next request, when the answer to the last one has been read.
Send ==
  /\ verdict = "running" /\ ~waiting
  /\ sent' = sent + 1
  /\ waiting' = TRUE
  /\ UNCHANGED <<vars, served, answer, first, verdict>>

\* What runProbe demands of the answer to its request.
Expected(what, body) ==
  CASE what = "login"  -> body.id \in Ids
    [] what = "load"   -> ~body.found
    [] what = "save"   -> body.success
    [] what = "reload" -> body.found /\ body.archive = ProbeArchive
    [] what = "combat" -> ~body.dup
    [] what = "again"  -> body.dup /\ body.response = first.response

\* read: the frame has the seq of the request and is no error; then its body.
Agrees == answer.seq = sent /\ answer.ok /\ Expected(Script[sent], answer.body)

Read ==
  /\ verdict = "running" /\ waiting /\ answer # NoAnswer
  /\ verdict' = IF ~Agrees THEN "mismatch"
                ELSE IF sent = Len(Script) THEN "passed" ELSE "running"
  /\ first' = IF Script[sent] = "combat" THEN answer.body ELSE first
  /\ answer' = NoAnswer
  /\ waiting' = FALSE
  /\ UNCHANGED <<vars, sent, served>>

\* Dial, a write or a read fails, or takes longer than probeTimeout.
Lose ==
  /\ verdict = "running"
  /\ verdict' = "lost"
  /\ UNCHANGED <<vars, sent, served, answer, waiting, first>>

-----------------------------------------------------------------------------
(* The server, on the probe's connection                                      *)

Pending(what) == served < sent /\ Script[sent] = what

\* The handler's answer; one that is refused carries no body.
Answer(ok, body) ==
  /\ served' = sent
  /\ answer' = [seq |-> sent, ok |-> ok, body |-> body]
  /\ UNCHANGED <<sent, waiting, first, verdict>>

Refuse == Answer(FALSE, [ok |-> FALSE]) /\ UNCHANGED vars

ServeLogin ==
  /\ Pending("login")
  /\ \/ LoginLookup(Dev, Mine) /\ UNCHANGED probe
     \/ LoginCreate(Dev) /\ IF login'[Dev] = NoLogin THEN Answer(FALSE, [ok |-> FALSE])
                                                    ELSE UNCHANGED probe
     \/ LoginUpdate(Dev) /\ UNCHANGED probe
     \/ LoginBind(Dev) /\ Answer(TRUE, [id |-> login[Dev].id])

\* LoadArchive: the answer to "load" and to "reload".
ServeLoad ==
  /\ Pending("load") \/ Pending("reload")
  /\ IF Authorised(Dev) THEN Answer(TRUE, Load(uid[Dev])) /\ UNCHANGED vars ELSE Refuse

ServeSave ==
  /\ Pending("save")
  /\ IF Authorised(Dev) THEN Save(Dev, ProbeArchive) /\ Answer(TRUE, [success |-> TRUE])
                        ELSE Refuse

\* A settlement that is refused: without a login, or one that would overflow.
Refused ==
  \/ ~Authorised(Dev)
  \/ settled[uid[Dev]][ProbeRun.run] = NotSettled /\ ~Fits(archive[uid[Dev]], ProbeRun)

ServeCombat ==
  /\ Pending("combat") \/ Pending("again")
  /\ IF Idle(Dev)
     THEN IF Refused THEN Refuse
          ELSE (Settle(Dev, ProbeRun) \/ SettleDuplicate(Dev, ProbeRun)) /\ UNCHANGED probe
     ELSE Reply(Dev) /\ Answer(TRUE, [dup |-> job[Dev].dup, response |-> resp[Dev]])

\* mutant: the probe's open id is no secret, another client may log in with it
OthersAnyCode == \E c \in Conns \ {Dev} : Request(c, OpenIds) /\ UNCHANGED probe

\* Everybody else; nobody has the probe's code.
Others == \E c \in Conns \ {Dev} : Request(c, OpenIds \ {Mine}) /\ UNCHANGED probe

ProbeNext ==
  \/ Send \/ Read \/ Lose
  \/ ServeLogin \/ ServeLoad \/ ServeSave \/ ServeCombat
  \/ Others

ProbeSpec == ProbeInit /\ [][ProbeNext]_probeVars

-----------------------------------------------------------------------------
\* Whatever other clients do meanwhile, the probe never meets an answer it does not
\* expect, and its evidence is true: the player it created owns the archive it saved
\* with the reward of its run, once (runProbe 36-126).
EvidenceIsTrue ==
  /\ verdict # "mismatch"
  /\ verdict = "passed" =>
       LET me == idOf[Mine]
       IN  /\ settled[me][ProbeRun.run] = Response(ProbeArchive, ProbeRun)
           /\ archive[me] = Credit(ProbeArchive, ProbeRun)

=============================================================================
