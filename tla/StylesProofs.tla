---------------------------- MODULE StylesProofs ----------------------------
(***************************************************************************)
(* Proofs about Styles, for any players, connections, styles and snapshots.*)
(*                                                                         *)
(* What was billed is not more than what was charged only because every    *)
(* handler between the deduction and its answer stands for a charge of its *)
(* own: BillInv counts those handlers.  It is also why a style that is     *)
(* about to be recorded has been paid for.  No purchase overdraws a        *)
(* balance since the deduction tests and takes in one statement.           *)
(***************************************************************************)
EXTENDS Styles, FiniteSetTheorems, TLAPS

\* Handlers that will record style s of player p and answer.
InFlight(p, s) == {c \in Conns : Owner[c] = p /\ pc[c] = "unlock" /\ want[c] = s}

BillInv ==
  \A p \in Players, s \in StyleIds :
    IF s = FreeStyle THEN billed[p][s] = 0
    ELSE billed[p][s] + Cardinality(InFlight(p, s)) <= charged[p][s]

Inv == TypeOK /\ BillInv /\ StylesArePaid /\ NoOverdraft /\ ConfirmedStaysUnlocked

-----------------------------------------------------------------------------
\* What happens to pc and the local variables when a handler returns.
LEMMA ReturnTypes ==
  ASSUME TypeOK, NEW c \in Conns, Return(c)
  PROVE  /\ pc' \in [Conns -> {"idle", "styles", "deduct", "unlock", "list", "default", "save", "grant"}]
         /\ want' \in [Conns -> StyleIds]
         /\ report' \in [Conns -> Snapshots]
         /\ found' \in [Conns -> BOOLEAN]
<1>1. NoReport \in Snapshots
  BY StylesAssumption DEF Snapshots
<1> QED
  BY <1>1, StylesAssumption DEF Return, TypeOK

LEMMA ChargeTypes ==
  ASSUME TypeOK, NEW c \in Conns, Charge(Owner[c], want[c])
  PROVE  gold' \in [Players -> Int] /\ charged' \in Counters
<1>1. Owner[c] \in Players /\ want[c] \in StyleIds /\ GoldCost \in Nat
  BY StylesAssumption DEF TypeOK
<1>2. gold[Owner[c]] - GoldCost \in Int
  BY <1>1 DEF TypeOK
<1>3. [charged[Owner[c]] EXCEPT ![want[c]] = @ + 1] \in [StyleIds -> Nat]
  BY <1>1 DEF TypeOK, Counters
<1> QED
  BY <1>1, <1>2, <1>3 DEF Charge, TypeOK, Counters

\* Every step keeps the types.
LEMMA TypeStep == TypeOK /\ [Next]_vars => TypeOK'
<1> SUFFICES ASSUME TypeOK, [Next]_vars PROVE TypeOK'
  OBVIOUS
<1> USE StylesAssumption DEF tables, locals, history, Goto
<1>1. ASSUME NEW c \in Conns, NEW s \in StyleIds, UnlockStyle(c, s) PROVE TypeOK'
  BY <1>1 DEF TypeOK, UnlockStyle
<1>2. ASSUME NEW c \in Conns, GetPlayerStats(c) PROVE TypeOK'
  BY <1>2 DEF TypeOK, GetPlayerStats
<1>3. ASSUME NEW c \in Conns, NEW snapshot \in Reports, UpdatePlayerStats(c, snapshot) PROVE TypeOK'
  BY <1>3 DEF TypeOK, UpdatePlayerStats
<1>4. ASSUME NEW c \in Conns, FoundUnlocked(c) \/ DeductRefused(c) \/ ListStyles(c)
                              \/ SaveStatsFails(c) \/ GrantsDone(c)
      PROVE  TypeOK'
  <2>1. Return(c) /\ UNCHANGED <<rows, gold, owned, charged, billed, granted, indebted>>
    BY <1>4 DEF FoundUnlocked, DeductRefused, ListStyles, SaveStatsFails, GrantsDone
  <2>2. confirmed' \in [Players -> SUBSET StyleIds]
    BY <1>4 DEF FoundUnlocked, DeductRefused, ListStyles, SaveStatsFails, GrantsDone, Confirm, TypeOK
  <2> QED
    BY <2>1, <2>2, ReturnTypes DEF TypeOK
<1>5. ASSUME NEW c \in Conns, FoundLocked(c) \/ NoStyles(c) PROVE TypeOK'
  BY <1>5 DEF TypeOK, FoundLocked, NoStyles
<1>6. ASSUME NEW c \in Conns, DeductPlayerGold(c) \/ DeductAnswerLost(c) PROVE TypeOK'
  <2>1. gold' \in [Players -> Int] /\ charged' \in Counters
    BY <1>6, ChargeTypes DEF DeductPlayerGold, DeductAnswerLost
  <2>2. CASE DeductPlayerGold(c)
    BY <2>1, <2>2 DEF TypeOK, DeductPlayerGold
  <2>3. CASE DeductAnswerLost(c)
    BY <2>1, <2>3, ReturnTypes DEF TypeOK, DeductAnswerLost
  <2> QED
    BY <1>6, <2>2, <2>3
<1>7. ASSUME NEW c \in Conns, UnlockPlayerStyle(c) \/ UnlockFails(c) \/ UnlockDefault(c) PROVE TypeOK'
  <2>1. Return(c) /\ UNCHANGED <<rows, gold, charged, granted, indebted>>
    BY <1>7 DEF UnlockPlayerStyle, UnlockFails, UnlockDefault
  <2>2. owned' \in [Players -> SUBSET StyleIds] /\ confirmed' \in [Players -> SUBSET StyleIds]
    <3>1. \/ UNCHANGED owned
          \/ \E s \in StyleIds : owned' = [owned EXCEPT ![Owner[c]] = @ \union {s}]
      BY <1>7 DEF UnlockPlayerStyle, UnlockFails, UnlockDefault, FirstOrCreate, TypeOK
    <3>2. \/ UNCHANGED confirmed
          \/ \E s \in StyleIds : confirmed' = [confirmed EXCEPT ![Owner[c]] = @ \union {s}]
      BY <1>7 DEF UnlockPlayerStyle, UnlockFails, UnlockDefault, Confirm, TypeOK
    <3>3. owned' \in [Players -> SUBSET StyleIds]
      <4>1. ASSUME NEW s \in StyleIds, owned' = [owned EXCEPT ![Owner[c]] = @ \union {s}]
            PROVE  owned' \in [Players -> SUBSET StyleIds]
        BY <4>1 DEF TypeOK
      <4> QED
        BY <3>1, <4>1 DEF TypeOK
    <3>4. confirmed' \in [Players -> SUBSET StyleIds]
      <4>1. ASSUME NEW s \in StyleIds, confirmed' = [confirmed EXCEPT ![Owner[c]] = @ \union {s}]
            PROVE  confirmed' \in [Players -> SUBSET StyleIds]
        BY <4>1 DEF TypeOK
      <4> QED
        BY <3>2, <4>1 DEF TypeOK
    <3> QED
      BY <3>3, <3>4
  <2>3. billed' \in Counters
    <3>1. [billed[Owner[c]] EXCEPT ![want[c]] = @ + 1] \in [StyleIds -> Nat]
      BY DEF TypeOK, Counters
    <3> QED
      BY <1>7, <3>1 DEF UnlockPlayerStyle, UnlockFails, UnlockDefault, Bill, TypeOK, Counters
  <2> QED
    BY <2>1, <2>2, <2>3, ReturnTypes DEF TypeOK
<1>8. ASSUME NEW c \in Conns, SaveStats(c) PROVE TypeOK'
  <2>1. rows' \subseteq Players /\ gold' \in [Players -> Int] /\ indebted' \subseteq Players
    BY <1>8 DEF SaveStats, TypeOK, Snapshots
  <2>2. CASE Goto(c, "save", "grant") /\ UNCHANGED locals
    BY <1>8, <2>1, <2>2 DEF SaveStats, TypeOK
  <2>3. CASE Return(c)
    BY <1>8, <2>1, <2>3, ReturnTypes DEF SaveStats, TypeOK
  <2> QED
    BY <1>8, <2>2, <2>3 DEF SaveStats
<1>9. ASSUME NEW c \in Conns, NEW s \in StyleIds, Grant(c, s) PROVE TypeOK'
  <2>1. report' \in [Conns -> Snapshots]
    <3>1. [report[c] EXCEPT !.styles = @ \ {s}] \in Snapshots
      BY DEF TypeOK, Snapshots
    <3> QED
      BY <1>9, <3>1 DEF Grant, TypeOK
  <2> QED
    BY <1>9, <2>1 DEF TypeOK, Grant, FirstOrCreate
<1>10. ASSUME NEW p \in Players, NEW reward \in Rewards, Settle(p, reward) PROVE TypeOK'
  <2>1. gold[p] + reward \in Int
    BY DEF TypeOK
  <2>2. gold' \in [Players -> Int] /\ rows' \subseteq Players
    BY <1>10, <2>1 DEF TypeOK, Settle
  <2>3. UNCHANGED <<owned, pc, locals, history>>
    BY <1>10 DEF Settle
  <2> QED
    BY <2>2, <2>3 DEF TypeOK, locals, history
<1>11. CASE Crash
  <2>1. NoReport \in Snapshots
    BY DEF Snapshots
  <2> QED
    BY <1>11, <2>1 DEF TypeOK, Crash
<1>12. CASE UNCHANGED vars
  BY <1>12 DEF TypeOK, vars
<1> QED
  BY <1>1, <1>2, <1>3, <1>4, <1>5, <1>6, <1>7, <1>8, <1>9, <1>10, <1>11, <1>12
  DEF Next, HandlerStep

-----------------------------------------------------------------------------
(* Charges and answers                                                       *)

LEMMA InFlightFinite ==
  ASSUME NEW p, NEW s
  PROVE  IsFiniteSet(InFlight(p, s)) /\ Cardinality(InFlight(p, s)) \in Nat
BY StylesAssumption, FS_Subset, FS_CardinalityType DEF InFlight

\* Nobody charges or bills, and nobody comes between a charge and its answer.
LEMMA NoNewInFlight ==
  ASSUME TypeOK, BillInv, UNCHANGED <<charged, billed>>,
         \A c \in Conns : pc'[c] = "unlock" /\ want'[c] # FreeStyle =>
                            pc[c] = "unlock" /\ want'[c] = want[c]
  PROVE  BillInv'
<1> SUFFICES ASSUME NEW p \in Players, NEW s \in StyleIds, s # FreeStyle
             PROVE  billed[p][s] + Cardinality(InFlight(p, s)') <= charged[p][s]
  BY DEF BillInv
<1>1. InFlight(p, s)' \subseteq InFlight(p, s)
  BY DEF InFlight
<1>2. Cardinality(InFlight(p, s)') <= Cardinality(InFlight(p, s))
  BY <1>1, InFlightFinite, FS_Subset
<1>3. Cardinality(InFlight(p, s)') \in Nat
  BY <1>1, InFlightFinite, FS_Subset, FS_CardinalityType
<1> QED
  BY <1>2, <1>3, InFlightFinite DEF BillInv, TypeOK, Counters

\* A deduction puts one handler, and one charge, in flight.
LEMMA DeductionCounts ==
  ASSUME TypeOK, BillInv, NEW c \in Conns, DeductPlayerGold(c)
  PROVE  BillInv'
<1> USE StylesAssumption
<1>1. Owner[c] \in Players /\ want[c] \in StyleIds
  BY DEF TypeOK
<1>2. /\ pc[c] = "deduct" /\ pc' = [pc EXCEPT ![c] = "unlock"]
      /\ want' = want /\ billed' = billed
      /\ charged' = [charged EXCEPT ![Owner[c]][want[c]] = @ + 1]
  BY DEF DeductPlayerGold, Goto, Charge, locals
<1> SUFFICES ASSUME NEW p \in Players, NEW s \in StyleIds, s # FreeStyle
             PROVE  billed[p][s] + Cardinality(InFlight(p, s)') <= charged'[p][s]
  BY <1>2 DEF BillInv
<1>3. CASE p = Owner[c] /\ s = want[c]
  <2>1. InFlight(p, s)' = InFlight(p, s) \union {c} /\ c \notin InFlight(p, s)
    BY <1>2, <1>3 DEF InFlight, TypeOK
  <2>2. Cardinality(InFlight(p, s)') = Cardinality(InFlight(p, s)) + 1
    BY <2>1, InFlightFinite, FS_AddElement
  <2>3. charged'[p][s] = charged[p][s] + 1
    BY <1>2, <1>3, <1>1 DEF TypeOK, Counters
  <2> QED
    BY <2>2, <2>3, InFlightFinite DEF BillInv, TypeOK, Counters
<1>4. CASE ~(p = Owner[c] /\ s = want[c])
  <2>1. InFlight(p, s)' = InFlight(p, s)
    BY <1>2, <1>4 DEF InFlight, TypeOK
  <2>2. charged'[p][s] = charged[p][s]
    BY <1>2, <1>4, <1>1 DEF TypeOK, Counters
  <2> QED
    BY <2>1, <2>2 DEF BillInv
<1> QED
  BY <1>3, <1>4

\* An answer takes a handler out of flight for the cost that it names.
LEMMA AnswerCounts ==
  ASSUME TypeOK, BillInv, NEW c \in Conns, UnlockPlayerStyle(c)
  PROVE  BillInv'
<1> USE StylesAssumption
<1>1. Owner[c] \in Players /\ want[c] \in StyleIds
  BY DEF TypeOK
<1>2. /\ pc[c] = "unlock" /\ pc' = [pc EXCEPT ![c] = "idle"]
      /\ want' = [want EXCEPT ![c] = FreeStyle]
      /\ charged' = charged
  BY DEF UnlockPlayerStyle, Return
<1>3. CASE want[c] = FreeStyle
  <2>1. billed' = billed
    BY <1>3 DEF UnlockPlayerStyle, Bill
  <2> QED
    BY <1>2, <2>1, NoNewInFlight DEF TypeOK
<1>4. CASE want[c] # FreeStyle
  <2>1. billed' = [billed EXCEPT ![Owner[c]][want[c]] = @ + 1]
    BY <1>4 DEF UnlockPlayerStyle, Bill
  <2>2. ASSUME NEW p \in Players, billed[p][FreeStyle] = 0
        PROVE  billed'[p][FreeStyle] = 0
    BY <2>1, <2>2, <1>1, <1>4 DEF TypeOK, Counters
  <2>3. ASSUME NEW p \in Players, NEW s \in StyleIds, s # FreeStyle
        PROVE  billed'[p][s] + Cardinality(InFlight(p, s)') <= charged[p][s]
    <3>1. CASE p = Owner[c] /\ s = want[c]
      <4>1. InFlight(p, s)' = InFlight(p, s) \ {c} /\ c \in InFlight(p, s)
        BY <1>2, <3>1, <1>4 DEF InFlight, TypeOK
      <4>2. Cardinality(InFlight(p, s)') = Cardinality(InFlight(p, s)) - 1
        BY <4>1, InFlightFinite, FS_RemoveElement
      <4>3. billed'[p][s] = billed[p][s] + 1
        BY <2>1, <3>1, <1>1 DEF TypeOK, Counters
      <4> QED
        BY <2>3, <4>2, <4>3, InFlightFinite DEF BillInv, TypeOK, Counters
    <3>2. CASE ~(p = Owner[c] /\ s = want[c])
      <4>1. InFlight(p, s)' = InFlight(p, s)
        BY <1>2, <3>2, <2>3 DEF InFlight, TypeOK
      <4>2. billed'[p][s] = billed[p][s]
        BY <2>1, <3>2, <1>1 DEF TypeOK, Counters
      <4> QED
        BY <2>3, <4>1, <4>2 DEF BillInv
    <3> QED
      BY <3>1, <3>2
  <2> QED
    BY <1>2, <2>2, <2>3 DEF BillInv
<1> QED
  BY <1>3, <1>4

\* Every step keeps the account.
LEMMA BillStep == TypeOK /\ BillInv /\ [Next]_vars => BillInv'
<1> SUFFICES ASSUME TypeOK, BillInv, [Next]_vars PROVE BillInv'
  OBVIOUS
<1> USE DEF tables, locals, history, Goto
<1>1. ASSUME NEW c \in Conns, NEW s \in StyleIds, UnlockStyle(c, s) PROVE BillInv'
  <2>1. UNCHANGED <<charged, billed>> /\ pc' = [pc EXCEPT ![c] = "styles"]
        /\ want' = [want EXCEPT ![c] = s]
    BY <1>1 DEF UnlockStyle
  <2> QED
    BY <2>1, NoNewInFlight DEF TypeOK
<1>2. ASSUME NEW c \in Conns, NEW to \in {"deduct", "list", "default", "save", "grant", "idle"},
             UNCHANGED <<charged, billed>>, pc' = [pc EXCEPT ![c] = to],
             want' = want \/ want' = [want EXCEPT ![c] = FreeStyle]
      PROVE  BillInv'
  BY <1>2, NoNewInFlight DEF TypeOK
<1>3. ASSUME NEW c \in Conns, FoundLocked(c) PROVE BillInv'
  <2>1. UNCHANGED <<charged, billed, want>>
    BY <1>3 DEF FoundLocked
  <2>2. CASE want[c] = FreeStyle
    BY <1>3, <2>1, <2>2, NoNewInFlight DEF FoundLocked, TypeOK
  <2>3. CASE want[c] # FreeStyle
    BY <1>3, <2>1, <2>3, NoNewInFlight DEF FoundLocked, TypeOK
  <2> QED
    BY <2>2, <2>3
<1>4. ASSUME NEW c \in Conns,
             FoundUnlocked(c) \/ DeductRefused(c) \/ UnlockFails(c) \/ ListStyles(c)
             \/ UnlockDefault(c) \/ SaveStatsFails(c) \/ GrantsDone(c)
      PROVE  BillInv'
  BY <1>4, <1>2 DEF FoundUnlocked, DeductRefused, UnlockFails, ListStyles, UnlockDefault,
                    SaveStatsFails, GrantsDone, Return
<1>5. ASSUME NEW c \in Conns, DeductAnswerLost(c) PROVE BillInv'
  <2> USE StylesAssumption
  <2>1. /\ pc' = [pc EXCEPT ![c] = "idle"] /\ want' = [want EXCEPT ![c] = FreeStyle]
        /\ billed' = billed
        /\ charged' = [charged EXCEPT ![Owner[c]][want[c]] = @ + 1]
    BY <1>5 DEF DeductAnswerLost, Return, Charge
  <2> SUFFICES ASSUME NEW p \in Players, NEW s \in StyleIds, s # FreeStyle
               PROVE  billed[p][s] + Cardinality(InFlight(p, s)') <= charged'[p][s]
    BY <2>1 DEF BillInv
  <2>2. InFlight(p, s)' \subseteq InFlight(p, s)
    BY <2>1 DEF InFlight, TypeOK
  <2>3. /\ Cardinality(InFlight(p, s)') <= Cardinality(InFlight(p, s))
        /\ Cardinality(InFlight(p, s)') \in Nat
    BY <2>2, InFlightFinite, FS_Subset, FS_CardinalityType
  <2>4. charged'[p][s] \in Nat /\ charged[p][s] <= charged'[p][s]
    <3>1. Owner[c] \in Players /\ want[c] \in StyleIds
      BY DEF TypeOK
    <3> QED
      BY <2>1, <3>1 DEF TypeOK, Counters
  <2> QED
    BY <2>3, <2>4, InFlightFinite DEF BillInv, TypeOK, Counters
<1>6. ASSUME NEW c \in Conns, GetPlayerStats(c) \/ NoStyles(c) PROVE BillInv'
  BY <1>6, <1>2 DEF GetPlayerStats, NoStyles
<1>7. ASSUME NEW c \in Conns, NEW snapshot \in Reports, UpdatePlayerStats(c, snapshot) PROVE BillInv'
  BY <1>7, <1>2 DEF UpdatePlayerStats
<1>8. ASSUME NEW c \in Conns, SaveStats(c) PROVE BillInv'
  BY <1>8, <1>2 DEF SaveStats, Return
<1>9. ASSUME NEW c \in Conns, NEW s \in StyleIds, Grant(c, s) PROVE BillInv'
  BY <1>9, NoNewInFlight DEF Grant
<1>10. ASSUME NEW p \in Players, NEW reward \in Rewards, Settle(p, reward) PROVE BillInv'
  BY <1>10, NoNewInFlight DEF Settle
<1>11. CASE Crash
  BY <1>11, NoNewInFlight DEF Crash
<1>12. CASE UNCHANGED vars
  BY <1>12, NoNewInFlight DEF vars
<1> QED
  BY <1>1, <1>3, <1>4, <1>5, <1>6, <1>7, <1>8, <1>9, <1>10, <1>11, <1>12,
     DeductionCounts, AnswerCounts DEF Next, HandlerStep

\* A style about to be recorded has been paid for.
LEMMA InFlightPaid ==
  ASSUME TypeOK, BillInv, NEW c \in Conns, pc[c] = "unlock", want[c] # FreeStyle
  PROVE  charged[Owner[c]][want[c]] > 0
<1> USE StylesAssumption
<1> DEFINE p == Owner[c]
           s == want[c]
<1>1. p \in Players /\ s \in StyleIds
  BY DEF TypeOK
<1>2. InFlight(p, s) # {}
  BY DEF InFlight
<1>3. Cardinality(InFlight(p, s)) # 0
  BY <1>2, InFlightFinite, FS_EmptySet
<1>4. charged[p][s] \in Nat /\ billed[p][s] \in Nat
  BY <1>1 DEF TypeOK, Counters
<1>5. billed[p][s] + Cardinality(InFlight(p, s)) <= charged[p][s]
  BY <1>1 DEF BillInv
<1> HIDE DEF p, s
<1>6. charged[p][s] > 0
  BY <1>3, <1>4, <1>5, InFlightFinite
<1> QED
  BY <1>6 DEF p, s

-----------------------------------------------------------------------------
(* Styles                                                                    *)

\* Charges and what clients reported are only added to.
LEMMA HistoryGrows ==
  ASSUME TypeOK, [Next]_vars, NEW p \in Players, NEW s \in StyleIds
  PROVE  charged[p][s] <= charged'[p][s] /\ granted[p] \subseteq granted'[p]
<1> USE StylesAssumption DEF tables, locals, history
<1>1. ASSUME NEW c \in Conns, DeductPlayerGold(c) \/ DeductAnswerLost(c)
      PROVE  charged[p][s] <= charged'[p][s] /\ UNCHANGED granted
  <2>1. charged' = [charged EXCEPT ![Owner[c]][want[c]] = @ + 1] /\ UNCHANGED granted
    BY <1>1 DEF DeductPlayerGold, DeductAnswerLost, Charge
  <2>2. Owner[c] \in Players /\ want[c] \in StyleIds /\ charged[Owner[c]][want[c]] \in Nat
    BY DEF TypeOK, Counters
  <2> QED
    BY <2>1, <2>2 DEF TypeOK, Counters
<1>2. ASSUME NEW c \in Conns, NEW x \in StyleIds, Grant(c, x)
      PROVE  UNCHANGED charged /\ granted[p] \subseteq granted'[p]
  BY <1>2 DEF Grant, TypeOK
<1>3. \/ \E c \in Conns : DeductPlayerGold(c) \/ DeductAnswerLost(c)
      \/ \E c \in Conns, x \in StyleIds : Grant(c, x)
      \/ UNCHANGED <<charged, granted>>
  BY DEF Next, HandlerStep, vars, UnlockStyle, GetPlayerStats, UpdatePlayerStats, FoundUnlocked,
         FoundLocked, DeductRefused, UnlockPlayerStyle, UnlockFails, ListStyles, NoStyles,
         UnlockDefault, SaveStats, SaveStatsFails, GrantsDone, Settle, Crash
<1>4. charged[p][s] \in Nat
  BY DEF TypeOK, Counters
<1> QED
  BY <1>1, <1>2, <1>3, <1>4

\* Styles are recorded by a handler that has charged, by a grant, or for nothing when
\* it is style 1; none is ever taken away.
LEMMA Recorded ==
  ASSUME TypeOK, [Next]_vars, NEW p \in Players
  PROVE  /\ owned[p] \subseteq owned'[p]
         /\ \A s \in owned'[p] \ owned[p] :
              \/ s = FreeStyle
              \/ s \in granted'[p]
              \/ \E c \in Conns : Owner[c] = p /\ pc[c] = "unlock" /\ want[c] = s
<1> USE StylesAssumption DEF tables, locals, history
<1>1. ASSUME NEW c \in Conns, UnlockPlayerStyle(c) \/ UnlockFails(c)
      PROVE  /\ owned[p] \subseteq owned'[p]
             /\ \A s \in owned'[p] \ owned[p] : Owner[c] = p /\ pc[c] = "unlock" /\ want[c] = s
  BY <1>1 DEF UnlockPlayerStyle, UnlockFails, FirstOrCreate, TypeOK
<1>2. ASSUME NEW c \in Conns, UnlockDefault(c)
      PROVE  owned[p] \subseteq owned'[p] /\ \A s \in owned'[p] \ owned[p] : s = FreeStyle
  BY <1>2 DEF UnlockDefault, FirstOrCreate, TypeOK
<1>3. ASSUME NEW c \in Conns, NEW x \in StyleIds, Grant(c, x)
      PROVE  owned[p] \subseteq owned'[p] /\ \A s \in owned'[p] \ owned[p] : s \in granted'[p]
  BY <1>3 DEF Grant, FirstOrCreate, TypeOK
<1>4. \/ \E c \in Conns : UnlockPlayerStyle(c) \/ UnlockFails(c) \/ UnlockDefault(c)
      \/ \E c \in Conns, x \in StyleIds : Grant(c, x)
      \/ UNCHANGED owned
  BY DEF Next, HandlerStep, vars, UnlockStyle, GetPlayerStats, UpdatePlayerStats, FoundUnlocked,
         FoundLocked, DeductPlayerGold, DeductAnswerLost, DeductRefused, ListStyles, NoStyles,
         SaveStats, SaveStatsFails, GrantsDone, Settle, Crash
<1> QED
  BY <1>1, <1>2, <1>3, <1>4

LEMMA PaidStep == TypeOK /\ BillInv /\ StylesArePaid /\ [Next]_vars => StylesArePaid'
<1> SUFFICES ASSUME TypeOK, BillInv, StylesArePaid, [Next]_vars,
                    NEW p \in Players,
                    NEW s \in owned'[p] \ (granted'[p] \union {FreeStyle})
             PROVE  charged'[p][s] > 0
  BY DEF StylesArePaid
<1>1. TypeOK'
  BY TypeStep
<1>2. s \in StyleIds /\ s # FreeStyle
  BY <1>1 DEF TypeOK
<1>3. charged[p][s] <= charged'[p][s] /\ granted[p] \subseteq granted'[p]
  BY <1>2, HistoryGrows
<1>4. charged[p][s] \in Nat /\ charged'[p][s] \in Nat
  BY <1>1, <1>2 DEF TypeOK, Counters
<1>5. CASE s \in owned[p]
  <2>1. charged[p][s] > 0
    BY <1>2, <1>3, <1>5 DEF StylesArePaid
  <2> QED
    BY <2>1, <1>3, <1>4
<1>6. CASE s \notin owned[p]
  <2>1. PICK c \in Conns : Owner[c] = p /\ pc[c] = "unlock" /\ want[c] = s
    BY <1>2, <1>6, Recorded
  <2>2. charged[p][s] > 0
    BY <1>2, <2>1, InFlightPaid
  <2> QED
    BY <2>2, <1>3, <1>4
<1> QED
  BY <1>5, <1>6

\* A deduction takes what is there, a settlement adds, and a report says what it says.
LEMMA OverdraftStep == TypeOK /\ NoOverdraft /\ [Next]_vars => NoOverdraft'
<1> SUFFICES ASSUME TypeOK, NoOverdraft, [Next]_vars, NEW p \in Players, gold'[p] < 0
             PROVE  p \in indebted'
  BY DEF NoOverdraft
<1> USE StylesAssumption DEF tables, locals, history
<1>0. gold[p] \in Int /\ (gold[p] < 0 => p \in indebted)
  BY DEF TypeOK, NoOverdraft
<1>1. ASSUME NEW c \in Conns, DeductPlayerGold(c) \/ DeductAnswerLost(c) PROVE p \in indebted'
  <2>1. gold' = [gold EXCEPT ![Owner[c]] = @ - GoldCost] /\ indebted' = indebted
        /\ gold[Owner[c]] >= GoldCost /\ Owner[c] \in Players
    BY <1>1 DEF DeductPlayerGold, DeductAnswerLost, Charge
  <2>2. CASE p = Owner[c]
    <3>1. gold'[p] = gold[p] - GoldCost /\ gold[p] >= GoldCost
      BY <2>1, <2>2 DEF TypeOK
    <3> QED
      BY <1>0, <3>1
  <2>3. CASE p # Owner[c]
    BY <1>0, <2>1, <2>3 DEF TypeOK
  <2> QED
    BY <2>2, <2>3
<1>2. ASSUME NEW c \in Conns, SaveStats(c) PROVE p \in indebted'
  <2>1. /\ gold' = [gold EXCEPT ![Owner[c]] = report[c].gold]
        /\ indebted' = IF report[c].gold < 0 THEN indebted \union {Owner[c]} ELSE indebted
    BY <1>2 DEF SaveStats
  <2> QED
    BY <1>0, <2>1 DEF TypeOK
<1>3. ASSUME NEW q \in Players, NEW reward \in Rewards, Settle(q, reward) PROVE p \in indebted'
  <2>1. gold' = [gold EXCEPT ![q] = @ + reward] /\ indebted' = indebted /\ reward \in Nat
    BY <1>3 DEF Settle
  <2>2. gold[p] < 0
    BY <1>0, <2>1 DEF TypeOK
  <2> QED
    BY <1>0, <2>1, <2>2
<1>4. \/ \E c \in Conns : DeductPlayerGold(c) \/ DeductAnswerLost(c) \/ SaveStats(c)
      \/ \E q \in Players, reward \in Rewards : Settle(q, reward)
      \/ UNCHANGED <<gold, indebted>>
  BY DEF Next, HandlerStep, vars, UnlockStyle, GetPlayerStats, UpdatePlayerStats, FoundUnlocked,
         FoundLocked, DeductRefused, UnlockPlayerStyle, UnlockFails, ListStyles, NoStyles,
         UnlockDefault, SaveStatsFails, Grant, GrantsDone, Crash
<1> QED
  BY <1>0, <1>1, <1>2, <1>3, <1>4

\* An answer is about styles that were read or have just been recorded.
LEMMA ConfirmedStep == TypeOK /\ ConfirmedStaysUnlocked /\ [Next]_vars => ConfirmedStaysUnlocked'
<1> SUFFICES ASSUME TypeOK, ConfirmedStaysUnlocked, [Next]_vars, NEW p \in Players
             PROVE  confirmed'[p] \subseteq owned'[p] \union {FreeStyle}
  BY DEF ConfirmedStaysUnlocked
<1> USE StylesAssumption DEF tables, locals, history
<1>1. owned[p] \subseteq owned'[p] /\ confirmed[p] \subseteq owned[p] \union {FreeStyle}
  BY Recorded DEF ConfirmedStaysUnlocked
<1>2. ASSUME NEW c \in Conns, FoundUnlocked(c) \/ ListStyles(c)
      PROVE  confirmed'[p] \subseteq confirmed[p] \union owned[p]
  BY <1>2 DEF FoundUnlocked, ListStyles, Confirm, TypeOK
<1>3. ASSUME NEW c \in Conns, UnlockPlayerStyle(c)
      PROVE  confirmed'[p] \subseteq confirmed[p] \union owned'[p]
  BY <1>3 DEF UnlockPlayerStyle, FirstOrCreate, Confirm, TypeOK
<1>4. ASSUME NEW c \in Conns, UnlockDefault(c)
      PROVE  confirmed'[p] \subseteq confirmed[p] \union {FreeStyle}
  BY <1>4 DEF UnlockDefault, Confirm, TypeOK
<1>5. \/ \E c \in Conns : \/ FoundUnlocked(c) \/ ListStyles(c)
                         \/ UnlockPlayerStyle(c) \/ UnlockDefault(c)
      \/ UNCHANGED confirmed
  BY DEF Next, HandlerStep, vars, UnlockStyle, GetPlayerStats, UpdatePlayerStats,
         FoundLocked, DeductPlayerGold, DeductAnswerLost, DeductRefused, UnlockFails, NoStyles,
         Grant, SaveStats, SaveStatsFails, GrantsDone, Settle, Crash
<1> QED
  BY <1>1, <1>2, <1>3, <1>4, <1>5

-----------------------------------------------------------------------------
\* For any players, connections, styles, costs and rewards.
THEOREM Invariance == Spec => []Inv
<1>1. Init => Inv
  <2> SUFFICES ASSUME Init PROVE Inv
    OBVIOUS
  <2>1. TypeOK
    BY StylesAssumption DEF Init, TypeOK, Counters, Snapshots
  <2>2. \A p, s : InFlight(p, s) = {}
    BY DEF Init, InFlight
  <2>3. ASSUME NEW p \in Players, NEW s \in StyleIds
        PROVE  /\ billed[p][s] = 0 /\ charged[p][s] = 0
               /\ Cardinality(InFlight(p, s)) = 0
    <3>1. Cardinality(InFlight(p, s)) = 0
      BY <2>2, FS_EmptySet
    <3> QED
      BY <3>1 DEF Init
  <2>4. BillInv
    BY <2>3 DEF BillInv
  <2> QED
    BY <2>1, <2>4 DEF Init, Inv, StylesArePaid, NoOverdraft, ConfirmedStaysUnlocked
<1>2. Inv /\ [Next]_vars => Inv'
  BY TypeStep, BillStep, PaidStep, OverdraftStep, ConfirmedStep DEF Inv
<1> QED
  BY <1>1, <1>2, PTL DEF Spec

\* Everything keeps its type; balances are integers, as clients may report any.
THEOREM TypeCorrect == Spec => []TypeOK
BY Invariance, PTL DEF Inv

\* A costly style that a player owns was paid for or reported by its client.
THEOREM NoStyleWithoutPayment == Spec => []StylesArePaid
BY Invariance, PTL DEF Inv

\* No purchase overdraws a balance: a negative one was reported by the client.
THEOREM PurchasesNeverOverdraw == Spec => []NoOverdraft
BY Invariance, PTL DEF Inv

\* What an answer called unlocked stays unlocked.
THEOREM UnlocksLast == Spec => []ConfirmedStaysUnlocked
BY Invariance, PTL DEF Inv

\* No answer names a cost that was not deducted for it.
THEOREM BillsAreCharged == Spec => []BilledIsCharged
<1>1. Inv => BilledIsCharged
  <2> SUFFICES ASSUME Inv, NEW p \in Players, NEW s \in StyleIds
               PROVE  billed[p][s] <= charged[p][s]
    BY DEF BilledIsCharged
  <2>1. charged[p][s] \in Nat /\ billed[p][s] \in Nat
    BY DEF Inv, TypeOK, Counters
  <2>2. CASE s = FreeStyle
    <3>1. billed[p][s] = 0
      BY <2>2 DEF Inv, BillInv
    <3> QED
      BY <2>1, <3>1
  <2>3. CASE s # FreeStyle
    <3>1. billed[p][s] + Cardinality(InFlight(p, s)) <= charged[p][s]
      BY <2>3 DEF Inv, BillInv
    <3> QED
      BY <2>1, <3>1, InFlightFinite
  <2> QED
    BY <2>2, <2>3
<1> QED
  BY <1>1, Invariance, PTL

=============================================================================
