------------------------------- MODULE Styles -------------------------------
(***************************************************************************)
(* Gold and combat styles: combat.UnlockStyle, which charges for a style   *)
(* and then records it, with the other handlers that write player_stats    *)
(* and player_styles (GetPlayerStats for a new player, UpdatePlayerStats,  *)
(* the settlement's credit).  None of them uses a transaction: any two of  *)
(* their statements may have another handler's in between, any statement   *)
(* may fail, with or without effect, and the server may crash.             *)
(*                                                                         *)
(* UnlockPlayerStyle is gorm's FirstOrCreate, a SELECT and an INSERT       *)
(* under a unique index: a row that another handler inserts in between     *)
(* makes the INSERT fail, hence it is one step that inserts or fails.      *)
(***************************************************************************)
EXTENDS Integers, FiniteSets

CONSTANTS
  Players, Conns, Owner,
  StyleIds,      \* GetStyleConfigs
  FreeStyle,     \* style 1, which every player has
  GoldCost,      \* what any other style costs
  Rewards,       \* gold of one settlement
  Reports,       \* snapshots that clients send: [gold, styles]
  NoReport,
  MaxGold,       \* bound: no settlement credits beyond it
  MaxCharges     \* bound: no unlock of a style starts after so many charges

\* No amount of a snapshot is checked: a client may report any balance.
Snapshots == [gold : Int, styles : SUBSET StyleIds]

ASSUME StylesAssumption ==
  /\ IsFiniteSet(Conns)
  /\ Owner \in [Conns -> Players]
  /\ FreeStyle \in StyleIds
  /\ GoldCost \in Nat \ {0}
  /\ Rewards \subseteq Nat
  /\ Reports \subseteq Snapshots
  /\ NoReport = [gold |-> 0, styles |-> {}]

VARIABLES
  rows,       \* players with a player_stats row
  gold,       \* its gold
  owned,      \* player_styles
  pc,         \* where the handler of a connection is
  want,       \* the style it unlocks
  report,     \* the snapshot it stores, less the styles it is through with
  found,      \* whether it read a player_stats row
  charged,    \* how often the player paid for a style
  billed,     \* how often an answer said so
  confirmed,  \* styles that an answer called unlocked
  granted,    \* styles that a report called unlocked
  indebted    \* players of whom a negative balance was reported and stored

tables  == <<rows, gold, owned>>
locals  == <<want, report, found>>
history == <<charged, billed, confirmed, granted, indebted>>
vars    == <<tables, pc, locals, history>>

Counters == [Players -> [StyleIds -> Nat]]

TypeOK ==
  /\ rows \subseteq Players
  /\ gold \in [Players -> Int]
  /\ owned \in [Players -> SUBSET StyleIds]
  /\ pc \in [Conns -> {"idle", "styles", "deduct", "unlock", "list", "default", "save", "grant"}]
  /\ want \in [Conns -> StyleIds]
  /\ report \in [Conns -> Snapshots]
  /\ found \in [Conns -> BOOLEAN]
  /\ charged \in Counters
  /\ billed \in Counters
  /\ confirmed \in [Players -> SUBSET StyleIds]
  /\ granted \in [Players -> SUBSET StyleIds]
  /\ indebted \subseteq Players

Init ==
  /\ rows = {}
  /\ gold = [p \in Players |-> 0]
  /\ owned = [p \in Players |-> {}]
  /\ pc = [c \in Conns |-> "idle"]
  /\ want = [c \in Conns |-> FreeStyle]
  /\ report = [c \in Conns |-> NoReport]
  /\ found = [c \in Conns |-> FALSE]
  /\ charged = [p \in Players |-> [s \in StyleIds |-> 0]]
  /\ billed = [p \in Players |-> [s \in StyleIds |-> 0]]
  /\ confirmed = [p \in Players |-> {}]
  /\ granted = [p \in Players |-> {}]
  /\ indebted = {}

Goto(c, from, to) == pc[c] = from /\ pc' = [pc EXCEPT ![c] = to]

\* The handler returns and its local variables are gone.
Return(c) ==
  /\ pc' = [pc EXCEPT ![c] = "idle"]
  /\ want' = [want EXCEPT ![c] = FreeStyle]
  /\ report' = [report EXCEPT ![c] = NoReport]
  /\ found' = [found EXCEPT ![c] = FALSE]

\* An answer says that these styles are unlocked.
Confirm(p, styles) == confirmed' = [confirmed EXCEPT ![p] = @ \union styles]

\* FirstOrCreate of the row (p, s), which is there afterwards or not.
FirstOrCreate(p, s) == owned' = [owned EXCEPT ![p] = @ \union {s}]

-----------------------------------------------------------------------------
(* UnlockStyle                                                               *)

\* The style is configured.
UnlockStyle(c, s) ==
  /\ Goto(c, "idle", "styles")
  /\ charged[Owner[c]][s] < MaxCharges
  /\ want' = [want EXCEPT ![c] = s]
  /\ UNCHANGED <<tables, report, found, history>>

\* The style is unlocked already: success, for nothing.
FoundUnlocked(c) ==
  /\ pc[c] = "styles"
  /\ want[c] \in owned[Owner[c]]
  /\ Confirm(Owner[c], {want[c]})
  /\ Return(c)
  /\ UNCHANGED <<tables, charged, billed, granted, indebted>>

\* It is not, or the query failed, which is only logged.
FoundLocked(c) ==
  /\ Goto(c, "styles", IF want[c] = FreeStyle THEN "unlock" ELSE "deduct")
  /\ UNCHANGED <<tables, locals, history>>

Charge(p, s) ==
  /\ gold' = [gold EXCEPT ![p] = @ - GoldCost]
  /\ charged' = [charged EXCEPT ![p][s] = @ + 1]

\* mutant: UPDATE without the condition on the balance
DeductUnconditionally(c) ==
  /\ Goto(c, "deduct", "unlock")
  /\ Charge(Owner[c], want[c])
  /\ UNCHANGED <<rows, owned, locals, billed, confirmed, granted, indebted>>

\* mutant: a failed deduction is only logged
DeductFailureLogged(c) ==
  /\ Goto(c, "deduct", "unlock")
  /\ \/ gold[Owner[c]] >= GoldCost /\ Charge(Owner[c], want[c])
     \/ UNCHANGED <<gold, charged>>
  /\ UNCHANGED <<rows, owned, locals, billed, confirmed, granted, indebted>>

\* The conditional UPDATE charges the player.
DeductPlayerGold(c) ==
  /\ Owner[c] \in rows /\ gold[Owner[c]] >= GoldCost
  /\ Charge(Owner[c], want[c])
  /\ Goto(c, "deduct", "unlock")
  /\ UNCHANGED <<rows, owned, locals, billed, confirmed, granted, indebted>>

\* It finds too little gold or no row, or fails: an error to the client.
DeductRefused(c) ==
  /\ pc[c] = "deduct" /\ Return(c)
  /\ UNCHANGED <<tables, history>>

\* It was executed and its answer is lost: the same error.
DeductAnswerLost(c) ==
  /\ Owner[c] \in rows /\ gold[Owner[c]] >= GoldCost
  /\ Charge(Owner[c], want[c])
  /\ pc[c] = "deduct" /\ Return(c)
  /\ UNCHANGED <<rows, owned, billed, confirmed, granted, indebted>>

Bill(c) ==
  LET p == Owner[c]
  IN  billed' = IF want[c] = FreeStyle THEN billed
                ELSE [billed EXCEPT ![p][want[c]] = @ + 1]

\* mutant: a failure to record the style is only logged
UnlockFailureLogged(c) ==
  /\ pc[c] = "unlock" /\ Return(c)
  /\ FirstOrCreate(Owner[c], want[c]) \/ UNCHANGED owned
  /\ Bill(c) /\ Confirm(Owner[c], {want[c]})
  /\ UNCHANGED <<rows, gold, charged, granted, indebted>>

\* The style is recorded: success, with its cost.
UnlockPlayerStyle(c) ==
  /\ pc[c] = "unlock" /\ Return(c)
  /\ FirstOrCreate(Owner[c], want[c])
  /\ Bill(c) /\ Confirm(Owner[c], {want[c]})
  /\ UNCHANGED <<rows, gold, charged, granted, indebted>>

\* That fails, or only its answer is lost: an error to the client.
UnlockFails(c) ==
  /\ pc[c] = "unlock" /\ Return(c)
  /\ FirstOrCreate(Owner[c], want[c]) \/ UNCHANGED owned
  /\ UNCHANGED <<rows, gold, history>>

-----------------------------------------------------------------------------
(* GetPlayerStats                                                            *)

\* A new player gets a row with no gold; its INSERT may fail, which is only logged.
GetPlayerStats(c) ==
  /\ Goto(c, "idle", "list")
  /\ rows' = rows \union {Owner[c]} \/ UNCHANGED rows
  /\ UNCHANGED <<gold, owned, locals, history>>

ListStyles(c) ==
  /\ pc[c] = "list" /\ Return(c)
  /\ owned[Owner[c]] # {}
  /\ Confirm(Owner[c], owned[Owner[c]])
  /\ UNCHANGED <<tables, charged, billed, granted, indebted>>

\* There are none, or the query failed: style 1 is what the answer will say.
NoStyles(c) ==
  /\ Goto(c, "list", "default")
  /\ UNCHANGED <<tables, locals, history>>

\* Whether it was recorded is not looked at.
UnlockDefault(c) ==
  /\ pc[c] = "default" /\ Return(c)
  /\ FirstOrCreate(Owner[c], FreeStyle) \/ UNCHANGED owned
  /\ Confirm(Owner[c], {FreeStyle})
  /\ UNCHANGED <<rows, gold, charged, billed, granted, indebted>>

-----------------------------------------------------------------------------
(* UpdatePlayerStats, the settlement, the server                             *)

\* A snapshot that passes the checks arrives; the row is read.
UpdatePlayerStats(c, snapshot) ==
  /\ Goto(c, "idle", "save")
  /\ report' = [report EXCEPT ![c] = snapshot]
  /\ found' = [found EXCEPT ![c] = Owner[c] \in rows]
  /\ UNCHANGED <<tables, want, history>>

\* All columns are written, or a row inserted, which fails when there is one now.  The
\* handler learns of it and goes on, or its answer is lost and the handler returns.
SaveStats(c) ==
  /\ found[c] \/ Owner[c] \notin rows
  /\ rows' = rows \union {Owner[c]}
  /\ gold' = [gold EXCEPT ![Owner[c]] = report[c].gold]
  /\ indebted' = IF report[c].gold < 0 THEN indebted \union {Owner[c]} ELSE indebted
  /\ \/ Goto(c, "save", "grant") /\ UNCHANGED locals
     \/ pc[c] = "save" /\ Return(c)
  /\ UNCHANGED <<owned, charged, billed, confirmed, granted>>

SaveStatsFails(c) ==
  /\ pc[c] = "save" /\ Return(c)
  /\ UNCHANGED <<tables, history>>

\* The next style of the snapshot; whether it was recorded is not looked at.
Grant(c, s) ==
  /\ pc[c] = "grant"
  /\ s \in report[c].styles
  /\ report' = [report EXCEPT ![c].styles = @ \ {s}]
  /\ FirstOrCreate(Owner[c], s) \/ UNCHANGED owned
  /\ granted' = [granted EXCEPT ![Owner[c]] = @ \union {s}]
  /\ UNCHANGED <<rows, gold, pc, want, found, charged, billed, confirmed, indebted>>

GrantsDone(c) ==
  /\ pc[c] = "grant" /\ Return(c)
  /\ report[c].styles = {}
  /\ UNCHANGED <<tables, history>>

\* A settlement is committed; it locks the row while it adds to it.
Settle(p, reward) ==
  /\ gold[p] + reward <= MaxGold
  /\ rows' = rows \union {p}
  /\ gold' = [gold EXCEPT ![p] = @ + reward]
  /\ UNCHANGED <<owned, pc, locals, history>>

Crash ==
  /\ pc' = [c \in Conns |-> "idle"]
  /\ want' = [c \in Conns |-> FreeStyle]
  /\ report' = [c \in Conns |-> NoReport]
  /\ found' = [c \in Conns |-> FALSE]
  /\ UNCHANGED <<tables, history>>

-----------------------------------------------------------------------------
HandlerStep(c) ==
  \/ FoundUnlocked(c) \/ FoundLocked(c)
  \/ DeductPlayerGold(c) \/ DeductRefused(c) \/ DeductAnswerLost(c)
  \/ UnlockPlayerStyle(c) \/ UnlockFails(c)
  \/ ListStyles(c) \/ NoStyles(c) \/ UnlockDefault(c)
  \/ SaveStats(c) \/ SaveStatsFails(c)
  \/ \E s \in StyleIds : Grant(c, s)
  \/ GrantsDone(c)

Next ==
  \/ \E c \in Conns :
       \/ \E s \in StyleIds : UnlockStyle(c, s)
       \/ GetPlayerStats(c)
       \/ \E snapshot \in Reports : UpdatePlayerStats(c, snapshot)
       \/ HandlerStep(c)
  \/ \E p \in Players, reward \in Rewards : Settle(p, reward)
  \/ Crash

Spec == Init /\ [][Next]_vars

-----------------------------------------------------------------------------
(* Safety                                                                    *)

\* No style without payment: whatever failed, raced or crashed, a costly style that
\* the player owns has been paid for, unless the player's client reported it
\* (UnlockStyle 208-218 charges first and stops when that fails).
StylesArePaid ==
  \A p \in Players : \A s \in owned[p] \ (granted[p] \union {FreeStyle}) : charged[p][s] > 0

\* No purchase overdraws a balance, however many unlocks, reports and settlements of a
\* player run at once (DeductPlayerGold, mysql.go 318-329): a negative one is what the
\* client reported, since UpdatePlayerStats 304-309 checks level and health only, or
\* what is left of that after settlements.
NoOverdraft == \A p \in Players : gold[p] < 0 => p \in indebted

\* What an answer called unlocked stays unlocked; only style 1 may be announced
\* without having been recorded (GetPlayerStats 251-254).
ConfirmedStaysUnlocked ==
  \A p \in Players : confirmed[p] \subseteq owned[p] \union {FreeStyle}

\* Every cost that an answer names was deducted, each by a deduction of its own, also
\* when requests for the same style run at the same time (UnlockStyle 208-224).
BilledIsCharged ==
  \A p \in Players, s \in StyleIds : billed[p][s] <= charged[p][s]

\* Unlocking a style again is free ("idempotent", UnlockStyle 191).  The code breaks it.
ChargedOnce == \A p \in Players, s \in StyleIds : charged[p][s] <= 1

=============================================================================
