---------------------------- MODULE ChatProofs ------------------------------
(***************************************************************************)
(* The chat harness around a mission: the run gate and the cancel token    *)
(* that wake its waiters, the rounds of a mission with the budgets they    *)
(* are charged to, and the turns of a session with the resumes they may    *)
(* still cost.                                                             *)
(***************************************************************************)
EXTENDS WakeUps, Mission, ChatTurns, FiniteSetTheorems, TLAPS
-----------------------------------------------------------------------------
(* WakeUps: the run gate and the cancel token.                             *)

\* Types and the wake-ups that are due are inductive together.
WakeInv == GTypeOK /\ NoLostWakeUp

\* A waiter that goes elsewhere than to sleep disturbs nobody's wake-up.
LEMMA MovingWaiter ==
    ASSUME WakeInv, NEW w \in Waiter, NEW place \in {"loop", "unregistered", "registered", "returned"},
           Goes(w, place), UNCHANGED <<liveRuns, flag, owed, tokenOwed>>,
           woken' \in {woken, woken \ {w}}
    PROVE  WakeInv'
<1>1. GTypeOK'
  BY DEF WakeInv, GTypeOK, Goes
<1>2. ASSUME NEW v \in Waiter, waiterAt'[v] = "asleep", Awaited(v)'
      PROVE  WakeUpDue(v)'
  <2>1. v # w /\ waiterAt[v] = "asleep"
    BY <1>2 DEF WakeInv, GTypeOK, Goes
  <2>2. Awaited(v)
    BY <1>2 DEF Awaited
  <2>3. WakeUpDue(v)
    BY <2>1, <2>2 DEF WakeInv, NoLostWakeUp
  <2> QED
    BY <2>1, <2>3 DEF WakeUpDue
<1>3. NoLostWakeUp'
  BY <1>2 DEF NoLostWakeUp, Waiter, RegistryWaiter
<1> QED
  BY <1>1, <1>3 DEF WakeInv

\* Every step keeps the types and every sleeper's wake-up.
LEMMA WakeStep == WakeInv /\ [GNext]_gates => WakeInv'
<1> SUFFICES ASSUME WakeInv, [GNext]_gates PROVE WakeInv'
  OBVIOUS
<1>1. ASSUME NEW s \in Session, TryClaim(s) \/ ReleaseRun(s) PROVE WakeInv'
  <2>1. owed' = owed + 1 /\ owed < OwedMax /\ liveRuns' \subseteq Session
    BY <1>1 DEF TryClaim, ReleaseRun, WakeInv, GTypeOK
  <2>2. UNCHANGED <<flag, tokenOwed, waiterAt, woken>>
    BY <1>1 DEF TryClaim, ReleaseRun
  <2>3. GTypeOK'
    BY <2>1, <2>2, WakeAssumption DEF WakeInv, GTypeOK
  <2>4. owed' > 0
    BY <2>1 DEF WakeInv, GTypeOK
  <2>5. ASSUME NEW w \in CancelWaiter, Awaited(w)' PROVE Awaited(w)
    BY <2>2, <2>5, WakeAssumption DEF Awaited
  <2>6. NoLostWakeUp'
    BY <2>2, <2>4, <2>5 DEF WakeInv, NoLostWakeUp, WakeUpDue, Waiter, RegistryWaiter
  <2> QED
    BY <2>3, <2>6 DEF WakeInv
<1>2. CASE NotifyRegistry
  <2>1. GTypeOK'
    BY <1>2, WakeAssumption DEF NotifyRegistry, WakeInv, GTypeOK, Registered, Waiter
  <2>2. ASSUME NEW w \in Waiter, waiterAt'[w] = "asleep", Awaited(w)'
        PROVE  WakeUpDue(w)'
    <3>1. waiterAt[w] = "asleep" /\ Awaited(w)
      BY <1>2, <2>2 DEF NotifyRegistry, Awaited
    <3>2. w \in RegistryWaiter => w \in woken'
      BY <1>2, <3>1 DEF NotifyRegistry, Registered
    <3> QED
      BY <1>2, <3>1, <3>2 DEF NotifyRegistry, WakeInv, NoLostWakeUp, WakeUpDue, Waiter
  <2>3. NoLostWakeUp'
    BY <2>2 DEF NoLostWakeUp, Waiter, RegistryWaiter
  <2> QED
    BY <2>1, <2>3 DEF WakeInv
<1>3. CASE CancelStore
  <2>1. GTypeOK'
    BY <1>3 DEF CancelStore, WakeInv, GTypeOK
  <2>2. ASSUME NEW w \in Waiter \ CancelWaiter, Awaited(w)' PROVE Awaited(w)
    BY <1>3, <2>2 DEF CancelStore, Awaited
  <2>3. NoLostWakeUp'
    BY <1>3, <2>2 DEF CancelStore, WakeInv, NoLostWakeUp, WakeUpDue, Waiter, RegistryWaiter
  <2> QED
    BY <2>1, <2>3 DEF WakeInv
<1>4. CASE CancelNotify
  <2>1. GTypeOK'
    BY <1>4 DEF CancelNotify, WakeInv, GTypeOK, Registered, Waiter
  <2>2. ASSUME NEW w \in Waiter, waiterAt'[w] = "asleep", Awaited(w)'
        PROVE  WakeUpDue(w)'
    <3>1. waiterAt[w] = "asleep" /\ Awaited(w)
      BY <1>4, <2>2 DEF CancelNotify, Awaited
    <3>2. w \in CancelWaiter => w \in woken'
      BY <1>4, <3>1 DEF CancelNotify, Registered
    <3> QED
      BY <1>4, <3>1, <3>2 DEF CancelNotify, WakeInv, NoLostWakeUp, WakeUpDue, Waiter
  <2>3. NoLostWakeUp'
    BY <2>2 DEF NoLostWakeUp, Waiter, RegistryWaiter
  <2> QED
    BY <2>1, <2>3 DEF WakeInv
<1>5. ASSUME NEW w \in Waiter, EnterLoop(w) PROVE WakeInv'
  BY <1>5, MovingWaiter DEF EnterLoop
<1>6. ASSUME NEW w \in Waiter, Enlist(w) PROVE WakeInv'
  BY <1>6, MovingWaiter DEF Enlist
<1>7. ASSUME NEW w \in Waiter, CheckAgain(w) PROVE WakeInv'
  <2>1. CASE Awaited(w)
    BY <1>7, <2>1, MovingWaiter DEF CheckAgain
  <2>2. CASE ~Awaited(w)
    <3>1. UNCHANGED <<liveRuns, flag, owed, tokenOwed, woken>> /\ Goes(w, "asleep")
      BY <1>7, <2>2 DEF CheckAgain
    <3>2. GTypeOK'
      BY <3>1 DEF WakeInv, GTypeOK, Goes
    <3>3. ASSUME NEW v \in Waiter, waiterAt'[v] = "asleep", Awaited(v)'
          PROVE  v # w /\ waiterAt[v] = "asleep" /\ Awaited(v)
      BY <2>2, <3>1, <3>3 DEF WakeInv, GTypeOK, Goes, Awaited
    <3>4. NoLostWakeUp'
      BY <3>1, <3>3 DEF WakeInv, NoLostWakeUp, WakeUpDue, Waiter, RegistryWaiter
    <3> QED
      BY <3>2, <3>4 DEF WakeInv
  <2> QED
    BY <2>1, <2>2
<1>8. ASSUME NEW w \in Waiter, WakeUp(w) PROVE WakeInv'
  BY <1>8, MovingWaiter DEF WakeUp
<1>9. CASE UNCHANGED gates
  BY <1>9 DEF gates, WakeInv, GTypeOK, NoLostWakeUp, WakeUpDue, Awaited, Waiter, RegistryWaiter
<1> QED
  BY <1>1, <1>2, <1>3, <1>4, <1>5, <1>6, <1>7, <1>8, <1>9 DEF GNext, WaiterStep

\* CancelToken::cancel and cancelled, ChatRunRegistry's gates: whatever the
\* interleaving, a sleeper whose condition holds has been woken or will be.
THEOREM NobodySleepsThrough == GSpec => []NoLostWakeUp
<1>1. ASSUME GInit PROVE WakeInv
  <2>1. owed \in 0..OwedMax
    BY <1>1, WakeAssumption DEF GInit
  <2>2. waiterAt \in [Waiter -> {"loop", "unregistered", "registered", "asleep", "returned"}]
    BY <1>1 DEF GInit
  <2>3. GTypeOK
    BY <1>1, <2>1, <2>2, Zenon DEF GInit, GTypeOK
  <2>4. NoLostWakeUp
    BY <1>1 DEF GInit, NoLostWakeUp
  <2> QED
    BY <2>3, <2>4 DEF WakeInv
<1>2. WakeInv => NoLostWakeUp
  BY DEF WakeInv
<1> QED
  BY <1>1, <1>2, WakeStep, PTL DEF GSpec
-----------------------------------------------------------------------------
(* Mission: stops, dry rounds and reseeds.                                 *)

\* The places of a mission.
Places == {"judge", "dry", "gate", "plan", "seed", "run", "finish", "end"}
\* The states of an item.
Statuses == {"new", "open", "done", "dropped"}
\* How a mission ends.
Endings == {"none", "parked", "errors", "starved", "single", "cancelled", "dry",
            "rounds", "deliberate"}

\* The types of a mission.
MissionTypes ==
    /\ at \in Places
    /\ board \in [Item -> Statuses]
    /\ report \in [stop : {"done", "error", "budget"}, fault : {"none", "hard", "transient"},
                   unmet : SUBSET Item, verified : SUBSET Item]
    /\ budget \in [errors : Nat, dry : Nat, rounds : Nat, charged : BOOLEAN,
                   reseeded : SUBSET ((SUBSET Item) \X (SUBSET Item))]
    /\ ending \in Endings
    /\ faults \in Nat

\* The counters stay within their budgets.
BudgetsHold ==
    /\ budget.errors <= MissionErrors + 1
    /\ budget.dry <= DryRounds
    /\ budget.rounds <= RoundsMax
    /\ at \notin {"finish", "end"} => budget.errors <= MissionErrors
    /\ at \in {"gate", "plan", "seed", "run"} => budget.dry < DryRounds

\* A stop that has not been charged yet is still owed.
Owing == IF report.stop = "error" /\ ~budget.charged THEN 1 ELSE 0
\* No more errors were charged than runs have failed, with the stop that is
\* still to be charged.
ChargesCovered == budget.errors + Owing <= faults

\* Failing checks were reseeded in this very state.
Justified == report.unmet # {} => Fingerprint \in budget.reseeded

\* A mission that ends dry, or is about to, over failing checks was
\* reseeded.
DryJustified ==
    /\ at \in {"dry", "gate", "plan", "seed", "run"} => report.stop # "budget"
    /\ at = "judge" /\ report.stop = "budget" /\ budget.dry >= DryRounds => report.unmet = {}
    /\ at = "finish" /\ ending = "none" /\ evidence /\ budget.dry >= DryRounds => Justified
    /\ ending = "dry" => at = "end" /\ Justified

\* The inductive invariant of a mission's budgets.
MissionInv ==
    MissionTypes /\ BudgetsHold /\ ChargesCovered /\ GaveUpAfterBudget /\ DryJustified

\* The first run may have ended anyhow.
LEMMA MissionStarts == MInit => MissionInv
<1> SUFFICES ASSUME MInit PROVE MissionInv
  OBVIOUS
<1>1. PICK r \in Report, b \in [Item -> {"new", "open"}] :
          /\ board \in RunLeaves(b, r)
          /\ report = [stop |-> r.stop, fault |-> r.fault, unmet |-> r.unmet,
                       verified |-> r.verified]
          /\ faults = IF r.stop = "error" THEN 1 ELSE 0
  BY DEF MInit
<1>2. board \in [Item -> Statuses]
  BY <1>1 DEF RunLeaves, Statuses
<1>3. report \in [stop : {"done", "error", "budget"}, fault : {"none", "hard", "transient"},
                  unmet : SUBSET Item, verified : SUBSET Item]
  BY <1>1 DEF Report
<1>4. at = "judge" /\ budget = NoBudget /\ ending = "none"
  BY DEF MInit
<1>5. budget \in [errors : Nat, dry : Nat, rounds : Nat, charged : BOOLEAN,
                  reseeded : SUBSET ((SUBSET Item) \X (SUBSET Item))]
  BY <1>4 DEF NoBudget
<1>6. MissionTypes
  BY <1>1, <1>2, <1>3, <1>4, <1>5 DEF MissionTypes, Places, Endings
<1>7. BudgetsHold /\ GaveUpAfterBudget /\ DryJustified
  BY <1>4, MissionAssumption DEF BudgetsHold, GaveUpAfterBudget, DryJustified, NoBudget
<1>8. ChargesCovered
  BY <1>1, <1>4 DEF ChargesCovered, Owing, NoBudget
<1> QED
  BY <1>6, <1>7, <1>8 DEF MissionInv

\* Every step of the loop keeps the invariant.
LEMMA MissionKeeps == MissionInv /\ [MNext]_mission => MissionInv'
<1> SUFFICES ASSUME MissionInv, [MNext]_mission PROVE MissionInv'
  OBVIOUS
<1> USE MissionAssumption
    DEF MissionInv, MissionTypes, BudgetsHold, ChargesCovered, GaveUpAfterBudget,
        DryJustified, Places, Endings, Owing
<1>1. CASE JudgeStop
  BY <1>1 DEF JudgeStop, Ends, Justified, Fingerprint
<1>2. ASSUME NEW answered \in BOOLEAN, NEW counted \in BOOLEAN, JudgeError(answered, counted)
      PROVE  MissionInv'
  <2> USE DEF Justified, Fingerprint
  <2>1. /\ at = "judge" /\ report.stop = "error"
        /\ UNCHANGED <<board, report, evidence, stopped, faults>>
    BY <1>2 DEF JudgeError
  <2>2. CASE ~evidence /\ Ends("none") /\ UNCHANGED budget
    BY <2>1, <2>2 DEF Ends
  <2>4. CASE at' = "dry" /\ UNCHANGED <<ending, budget>>
    BY <2>1, <2>4
  <2>3. CASE /\ Charges
             /\ budget' = [budget EXCEPT !.errors = budget.errors + 1, !.charged = TRUE]
             /\ IF budget.errors + 1 <= MissionErrors
                THEN at' = "dry" /\ UNCHANGED ending
                ELSE Ends(GiveUp("errors", answered))
    <3>1. /\ budget' \in [errors : Nat, dry : Nat, rounds : Nat, charged : BOOLEAN,
                         reseeded : SUBSET ((SUBSET Item) \X (SUBSET Item))]
          /\ budget'.errors = budget.errors + 1 /\ budget'.charged = TRUE
          /\ budget'.dry = budget.dry /\ budget'.rounds = budget.rounds
          /\ budget'.reseeded = budget.reseeded
      <4>1. /\ budget' = [budget EXCEPT !.errors = budget.errors + 1, !.charged = TRUE]
            /\ budget.errors + 1 \in Nat
            /\ budget \in [errors : Nat, dry : Nat, rounds : Nat, charged : BOOLEAN,
                          reseeded : SUBSET ((SUBSET Item) \X (SUBSET Item))]
        BY <2>3
      <4> HIDE DEF MissionInv
      <4> QED
        BY <4>1
    <3>2. budget.errors + 1 <= faults
      BY <2>1, <2>3 DEF Charges
    <3>3. Owing' = 0
      BY <3>1
    <3>4. GiveUp("errors", answered) \in {"errors", "parked"}
      BY DEF GiveUp
    <3>5. CASE at' = "dry" /\ UNCHANGED ending /\ budget.errors + 1 <= MissionErrors
      BY <2>1, <3>1, <3>2, <3>3, <3>5
    <3>6. CASE ~(budget.errors + 1 <= MissionErrors) /\ Ends(GiveUp("errors", answered))
      BY <2>1, <3>1, <3>2, <3>3, <3>4, <3>6 DEF Ends
    <3> QED
      BY <2>3, <3>5, <3>6
  <2> QED
    BY <1>2, <2>2, <2>3, <2>4 DEF JudgeError
<1>3. CASE CheckDry
  <2> USE DEF Justified
  <2>1. at = "dry" /\ UNCHANGED <<board, report, evidence, stopped, ending, faults>>
    BY <1>3 DEF CheckDry
  <2>2. CASE budget.dry < DryRounds /\ at' = "gate" /\ UNCHANGED budget
    BY <2>1, <2>2 DEF Fingerprint
  <2>3. CASE budget' = [budget EXCEPT !.reseeded = {Fingerprint}, !.dry = 0] /\ at' = "gate"
    <3>1. Fingerprint \in (SUBSET Item) \X (SUBSET Item)
      BY DEF Fingerprint
    <3>2. /\ budget' \in [errors : Nat, dry : Nat, rounds : Nat, charged : BOOLEAN,
                         reseeded : SUBSET ((SUBSET Item) \X (SUBSET Item))]
          /\ budget'.errors = budget.errors /\ budget'.charged = budget.charged
          /\ budget'.dry = 0 /\ budget'.rounds = budget.rounds
      BY <2>3, <3>1
    <3>3. Owing' = Owing
      BY <2>1, <3>2
    <3> QED
      BY <2>1, <2>3, <3>2, <3>3
  <2>4. CASE budget.dry >= DryRounds /\ ~Reseeds /\ at' = "finish" /\ UNCHANGED budget
    BY <2>1, <2>4 DEF Reseeds, Fingerprint
  <2> QED
    BY <1>3, <2>2, <2>3, <2>4 DEF CheckDry
<1>4. CASE Gate
  BY <1>4 DEF Gate, Justified, Fingerprint
<1>5. CASE PlanRound
  BY <1>5 DEF PlanRound, Justified, Fingerprint
<1>6. CASE SeedRound
  BY <1>6 DEF SeedRound, Statuses, Justified, Fingerprint
<1>7. ASSUME NEW answered \in BOOLEAN, SeedFallback(answered) PROVE MissionInv'
  BY <1>7 DEF SeedFallback, Ends, GiveUp, Justified, Fingerprint
<1>8. CASE SeedReopens
  BY <1>8 DEF SeedReopens, Reopenable, Closed, Statuses, Justified, Fingerprint
<1>9. CASE SeedDry
  BY <1>9 DEF SeedDry, Justified, Fingerprint
<1>10. ASSUME NEW r \in Report, RunRound(r) PROVE MissionInv'
  <2>1. board' \in [Item -> Statuses]
    BY <1>10 DEF RunRound, RunLeaves, Statuses
  <2>2. /\ r.stop \in {"done", "error", "budget"} /\ r.fault \in {"none", "hard", "transient"}
        /\ r.unmet \subseteq Item /\ r.verified \subseteq Item
    BY DEF Report
  <2>3. /\ at = "run" /\ at' = "judge"
        /\ budget' = [budget EXCEPT !.dry = DryAfter(r), !.charged = FALSE]
        /\ report' = [stop |-> r.stop, unmet |-> report.unmet \cup r.unmet,
                      verified |-> report.verified \cup r.verified,
                      fault |-> IF r.fault = "none" THEN report.fault ELSE r.fault]
        /\ faults' = IF r.stop = "error" THEN faults + 1 ELSE faults
        /\ UNCHANGED ending
    BY <1>10 DEF RunRound
  <2>4. /\ DryAfter(r) \in Nat /\ DryAfter(r) <= DryRounds
        /\ DryAfter(r) >= DryRounds => report'.unmet = {}
    BY <2>3 DEF DryAfter
  <2>5. /\ budget' \in [errors : Nat, dry : Nat, rounds : Nat, charged : BOOLEAN,
                       reseeded : SUBSET ((SUBSET Item) \X (SUBSET Item))]
        /\ budget'.errors = budget.errors /\ budget'.charged = FALSE
        /\ budget'.dry = DryAfter(r) /\ budget'.rounds = budget.rounds
    BY <2>3, <2>4
  <2>6. MissionTypes'
    BY <2>1, <2>2, <2>3, <2>5
  <2>7. BudgetsHold' /\ GaveUpAfterBudget' /\ DryJustified'
    BY <2>3, <2>4, <2>5
  <2>8. budget.errors <= faults
    OBVIOUS
  <2>9. ChargesCovered'
    BY <2>3, <2>5, <2>8
  <2> QED
    BY <2>6, <2>7, <2>9
<1>11. CASE FinishMission
  BY <1>11 DEF FinishMission, Justified, Fingerprint
<1>12. CASE PressStop
  BY <1>12 DEF PressStop, Justified, Fingerprint
<1>13. CASE UNCHANGED mission
  BY <1>13 DEF mission, Justified, Fingerprint
<1> QED
  BY <1>1, <1>2, <1>3, <1>4, <1>5, <1>6, <1>7, <1>8, <1>9, <1>10, <1>11, <1>12, <1>13
     DEF MNext, LoopStep

\* The invariant holds throughout.
LEMMA MissionInvariance == MSpec => []MissionInv
  BY MissionStarts, MissionKeeps, PTL DEF MSpec

\* continue_mission: no counter leaves its budget, an error stop is charged
\* at most once, no mission gives up on errors before its budget is spent, and
\* none ends dry over failing checks that were not planned against once more.
THEOREM MissionHolds == MSpec => []MissionSound
<1>1. MissionInv => MTypeOK
  BY MissionAssumption
     DEF MissionInv, MissionTypes, BudgetsHold, MTypeOK, Places, Statuses
<1>2. MissionInv => ErrorChargedOnce
  BY DEF MissionInv, MissionTypes, ChargesCovered, Owing, ErrorChargedOnce
<1>3. MissionInv => GaveUpAfterBudget
  BY DEF MissionInv
<1>4. MissionInv => DryEndAfterReseed
  BY DEF MissionInv, DryJustified, Justified, DryEndAfterReseed
<1>5. MissionInv => MissionSound
  BY <1>1, <1>2, <1>3, <1>4 DEF MissionSound
<1> QED
  BY <1>5, MissionInvariance, PTL
-----------------------------------------------------------------------------
(* Mission: the rounds that seed nothing.                                  *)

\* What the dry rounds of a mission have used up of their allowance.
Spell == budget.dry + (IF Fingerprint \in budget.reseeded THEN DryRounds ELSE 0)

\* Every quiet round so far was paid for: by an error, by an item that can
\* be reopened no more, or by a dry round of this spell.
QuietPaid ==
    quiet + Cardinality(Reopenable) <= budget.errors + Cardinality(Item) + Spell

\* The inductive strengthening: between rounds the quiet ones are paid for.
QuietInv ==
    /\ quiet \in Nat
    /\ QuietRoundsBounded
    /\ at \notin {"run", "finish", "end"} => QuietPaid
-----------------------------------------------------------------------------
\* Any set of items is finite, and no larger than all of them.
LEMMA ReopenableCounted ==
    ASSUME NEW S, S \subseteq Item
    PROVE  /\ IsFiniteSet(S) /\ Cardinality(S) \in Nat
           /\ Cardinality(Item) \in Nat /\ Cardinality(S) <= Cardinality(Item)
BY MissionAssumption, FS_Subset, FS_CardinalityType

\* The numbers of a mission.
LEMMA MissionNumbers ==
    ASSUME MissionInv
    PROVE  /\ budget.errors \in Nat /\ budget.dry \in Nat
           /\ budget.dry <= DryRounds
           /\ Reopenable \subseteq Item /\ Cardinality(Reopenable) \in Nat
           /\ Cardinality(Reopenable) <= Cardinality(Item)
           /\ Cardinality(Item) \in Nat
           /\ MissionErrors \in Nat /\ DryRounds \in Nat \ {0}
<1>1. Reopenable \subseteq Item BY DEF Reopenable, MissionInv, MissionTypes
<1>2. budget.errors \in Nat /\ budget.dry \in Nat /\ budget.dry <= DryRounds
  BY DEF MissionInv, MissionTypes, BudgetsHold
<1> QED BY <1>1, <1>2, ReopenableCounted, MissionAssumption

\* A step that spends nothing.
LEMMA QuietRests ==
    ASSUME MissionInv, QuietInv, UNCHANGED <<board, report, budget, quiet>>,
           at' \in {"run", "finish", "end"} \/ at \notin {"run", "finish", "end"}
    PROVE  QuietInv'
BY DEF QuietInv, QuietRoundsBounded, QuietPaid, Spell, Reopenable, Fingerprint, Closed

\* A mission starts with no quiet round.
LEMMA QuietStarts == MInit => QuietInv
<1> SUFFICES ASSUME MInit PROVE QuietInv OBVIOUS
<1>1. MissionInv BY MissionStarts
<1>2. quiet = 0 BY DEF MInit
<1>3. Spell \in Nat BY <1>1, MissionNumbers DEF Spell
<1>4. QuietPaid BY <1>1, <1>2, <1>3, MissionNumbers DEF QuietPaid
<1>5. QuietRoundsBounded BY <1>1, <1>2, MissionNumbers DEF QuietRoundsBounded
<1> QED BY <1>2, <1>4, <1>5 DEF QuietInv

\* Every step keeps the quiet rounds paid for.
LEMMA QuietKeeps == MissionInv /\ MissionInv' /\ QuietInv /\ [MNext]_mission => QuietInv'
<1> SUFFICES ASSUME MissionInv, MissionInv', QuietInv, [MNext]_mission
             PROVE  QuietInv'
  OBVIOUS
<1>a. /\ quiet \in Nat /\ QuietRoundsBounded
      /\ at \notin {"run", "finish", "end"} => QuietPaid
  BY DEF QuietInv
<1>b. Spell \in Nat /\ Spell <= 2 * DryRounds BY MissionNumbers DEF Spell
<1>1. CASE JudgeStop \/ Gate \/ PlanRound \/ PressStop \/ FinishMission
  <2>1. /\ UNCHANGED <<board, report, quiet>>
        /\ budget'.errors = budget.errors /\ budget'.dry = budget.dry
        /\ budget'.reseeded = budget.reseeded
        /\ at' \in {"finish", "end"} \/ at \notin {"run", "finish", "end"}
           \/ at' = at
    BY <1>1 DEF JudgeStop, Gate, PlanRound, PressStop, FinishMission, Ends,
       MissionInv, MissionTypes
  <2>2. Reopenable' = Reopenable /\ Spell' = Spell
    BY <2>1 DEF Reopenable, Closed, Spell, Fingerprint
  <2>3. QuietRoundsBounded' BY <1>a, <2>1 DEF QuietRoundsBounded
  <2>4. at' \notin {"run", "finish", "end"} => QuietPaid'
    BY <1>a, <2>1, <2>2 DEF QuietPaid
  <2> QED BY <1>a, <2>1, <2>3, <2>4 DEF QuietInv
<1>2. ASSUME NEW answered \in BOOLEAN, NEW counted \in BOOLEAN, JudgeError(answered, counted)
      PROVE  QuietInv'
  <2>1. /\ at = "judge" /\ UNCHANGED <<board, report, quiet>>
        /\ budget' = budget \/ budget' = [budget EXCEPT !.errors = budget.errors + 1, !.charged = TRUE]
    BY <1>2 DEF JudgeError
  <2>2. /\ budget'.errors >= budget.errors /\ budget'.errors \in Nat
        /\ budget'.dry = budget.dry /\ budget'.reseeded = budget.reseeded
    <3>1. budget' = budget \/ budget'.errors = budget.errors + 1
      BY <2>1 DEF MissionInv, MissionTypes
    <3>2. budget'.dry = budget.dry /\ budget'.reseeded = budget.reseeded
      BY <2>1 DEF MissionInv, MissionTypes
    <3> QED BY <3>1, <3>2, MissionNumbers
  <2>3. Reopenable' = Reopenable /\ Spell' = Spell
    BY <2>1, <2>2 DEF Reopenable, Closed, Spell, Fingerprint
  <2>4. QuietPaid' BY <1>a, <1>b, <2>1, <2>2, <2>3, MissionNumbers DEF QuietPaid
  <2>5. QuietRoundsBounded' BY <1>a, <2>1 DEF QuietRoundsBounded
  <2> QED BY <1>a, <2>1, <2>4, <2>5 DEF QuietInv
<1>3. CASE CheckDry
  <2>1. /\ at = "dry" /\ UNCHANGED <<board, report, quiet>>
        /\ \/ UNCHANGED budget
           \/ /\ budget.dry >= DryRounds /\ Fingerprint \notin budget.reseeded
              /\ budget' = [budget EXCEPT !.reseeded = {Fingerprint}, !.dry = 0]
    BY <1>3 DEF CheckDry, Reseeds
  <2>2. CASE UNCHANGED budget BY <2>1, <2>2, QuietRests
  <2>3. CASE /\ budget.dry >= DryRounds /\ Fingerprint \notin budget.reseeded
             /\ budget' = [budget EXCEPT !.reseeded = {Fingerprint}, !.dry = 0]
    <3>1. /\ budget'.errors = budget.errors /\ budget'.dry = 0
          /\ budget'.reseeded = {Fingerprint} /\ budget.dry = DryRounds
      BY <2>3, MissionNumbers DEF MissionInv, MissionTypes
    <3>2. Reopenable' = Reopenable /\ Fingerprint' = Fingerprint
      BY <2>1 DEF Reopenable, Closed, Fingerprint
    <3>3. Spell' = Spell BY <2>3, <3>1, <3>2, MissionNumbers DEF Spell
    <3>4. QuietPaid' BY <1>a, <2>1, <3>1, <3>2, <3>3 DEF QuietPaid
    <3>5. QuietRoundsBounded' BY <1>a, <2>1 DEF QuietRoundsBounded
    <3> QED BY <1>a, <2>1, <3>4, <3>5 DEF QuietInv
  <2> QED BY <2>1, <2>2, <2>3
<1>4. CASE SeedRound
  <2>1. at' = "run" /\ quiet' = quiet BY <1>4 DEF SeedRound
  <2>2. QuietRoundsBounded' BY <1>a, <2>1 DEF QuietRoundsBounded
  <2> QED BY <1>a, <2>1, <2>2 DEF QuietInv
<1>5. ASSUME NEW answered \in BOOLEAN, SeedFallback(answered) PROVE QuietInv'
  <2>1. /\ at = "seed" /\ budget' = [budget EXCEPT !.errors = budget.errors + 1]
        /\ quiet' = quiet + 1 /\ UNCHANGED <<board, report>>
    BY <1>5 DEF SeedFallback
  <2>2. /\ budget'.errors = budget.errors + 1 /\ budget'.dry = budget.dry
        /\ budget'.reseeded = budget.reseeded
    BY <2>1 DEF MissionInv, MissionTypes
  <2>3. Reopenable' = Reopenable /\ Spell' = Spell
    BY <2>1, <2>2 DEF Reopenable, Closed, Spell, Fingerprint
  <2>4. QuietPaid' BY <1>a, <1>b, <2>1, <2>2, <2>3, MissionNumbers DEF QuietPaid
  <2>5. budget.errors <= MissionErrors /\ budget.dry < DryRounds
    BY <2>1 DEF MissionInv, BudgetsHold
  <2>6. Spell <= 2 * DryRounds - 1 BY <2>5, MissionNumbers DEF Spell
  <2>7. QuietRoundsBounded'
    BY <1>a, <1>b, <2>1, <2>5, <2>6, MissionNumbers DEF QuietRoundsBounded, QuietPaid
  <2> QED BY <1>a, <2>1, <2>4, <2>7 DEF QuietInv
<1>6. CASE SeedReopens
  <2>1. PICK i \in Reopenable : board' = [board EXCEPT ![i] = "open"] BY <1>6 DEF SeedReopens
  <2>2. /\ at = "seed" /\ quiet' = quiet + 1 /\ UNCHANGED <<report, budget>>
    BY <1>6 DEF SeedReopens
  <2>3. Reopenable' = Reopenable \ {i}
    BY <2>1, <2>2, MissionNumbers DEF Reopenable, Closed, MissionInv, MissionTypes
  <2>4. Cardinality(Reopenable \ {i}) = Cardinality(Reopenable) - 1
    BY <2>1, MissionNumbers, ReopenableCounted, FS_RemoveElement
  <2>5. Spell' = Spell BY <2>2 DEF Spell, Fingerprint
  <2>6. QuietPaid' BY <1>a, <1>b, <2>2, <2>3, <2>4, <2>5, MissionNumbers DEF QuietPaid
  <2>7. budget.errors <= MissionErrors /\ Cardinality(Reopenable) >= 1
    <3>1. Cardinality(Reopenable \ {i}) \in Nat BY MissionNumbers, ReopenableCounted
    <3> QED BY <2>2, <2>4, <3>1, MissionNumbers DEF MissionInv, BudgetsHold
  <2>8. QuietRoundsBounded'
    BY <1>a, <1>b, <2>2, <2>7, MissionNumbers DEF QuietRoundsBounded, QuietPaid
  <2> QED BY <1>a, <2>2, <2>6, <2>8 DEF QuietInv
<1>7. CASE SeedDry
  <2>1. /\ at = "seed" /\ budget' = [budget EXCEPT !.dry = budget.dry + 1]
        /\ quiet' = quiet + 1 /\ UNCHANGED <<board, report>>
    BY <1>7 DEF SeedDry
  <2>2. /\ budget'.errors = budget.errors /\ budget'.dry = budget.dry + 1
        /\ budget'.reseeded = budget.reseeded
    BY <2>1 DEF MissionInv, MissionTypes
  <2>3. Reopenable' = Reopenable /\ Fingerprint' = Fingerprint
    BY <2>1 DEF Reopenable, Closed, Fingerprint
  <2>4. Spell' = Spell + 1 BY <2>2, <2>3, MissionNumbers DEF Spell
  <2>5. QuietPaid' BY <1>a, <1>b, <2>1, <2>2, <2>3, <2>4, MissionNumbers DEF QuietPaid
  <2>6. budget.errors <= MissionErrors /\ budget.dry < DryRounds
    BY <2>1 DEF MissionInv, BudgetsHold
  <2>7. Spell <= 2 * DryRounds - 1 BY <2>6, MissionNumbers DEF Spell
  <2>8. QuietRoundsBounded'
    BY <1>a, <1>b, <2>1, <2>6, <2>7, MissionNumbers DEF QuietRoundsBounded, QuietPaid
  <2> QED BY <1>a, <2>1, <2>5, <2>8 DEF QuietInv
<1>8. ASSUME NEW r \in Report, RunRound(r) PROVE QuietInv'
  <2>1. quiet' = 0 BY <1>8 DEF RunRound
  <2>2. /\ budget'.errors \in Nat /\ budget'.dry \in Nat
        /\ Reopenable' \subseteq Item
    BY DEF MissionInv, MissionTypes, Reopenable
  <2>3. Spell' \in Nat BY <2>2, MissionAssumption DEF Spell
  <2>4. /\ Cardinality(Reopenable') \in Nat /\ Cardinality(Item) \in Nat
        /\ Cardinality(Reopenable') <= Cardinality(Item)
    BY <2>2, ReopenableCounted
  <2>5. QuietPaid' BY <2>1, <2>2, <2>3, <2>4 DEF QuietPaid
  <2>6. QuietRoundsBounded' BY <2>1, <2>4, MissionAssumption DEF QuietRoundsBounded
  <2> QED BY <2>1, <2>5, <2>6 DEF QuietInv
<1>9. CASE UNCHANGED mission
  BY <1>9 DEF mission, QuietInv, QuietRoundsBounded, QuietPaid, Spell, Reopenable,
     Fingerprint, Closed
<1> QED BY <1>1, <1>2, <1>3, <1>4, <1>5, <1>6, <1>7, <1>8, <1>9 DEF MNext, LoopStep

\* run_long_horizon: for any budgets and items, the rounds in a row that
\* seed nothing are at most the errors of the budget, one reopening of each
\* item and two dry spells.
THEOREM QuietRoundsHold == MSpec => []QuietRoundsBounded
<1>1. MissionInv /\ QuietInv => QuietRoundsBounded BY DEF QuietInv
<1> QED BY <1>1, MissionStarts, MissionKeeps, QuietStarts, QuietKeeps, PTL DEF MSpec

-----------------------------------------------------------------------------
(* ChatTurns: the turns of one session.                                    *)

\* The cells under the graph of a function to 0..M: one for each unit of a value.
Under(f, M) == {p \in (DOMAIN f) \X (1..M) : p[2] <= f[p[1]]}
\* Their number, which is the sum of the function's values.
Area(f, M) == Cardinality(Under(f, M))

\* One column has as many cells as its value says.
LEMMA ColumnCount ==
    ASSUME NEW M \in Nat, NEW D, IsFiniteSet(D), NEW f \in [D -> 0..M], NEW x \in D
    PROVE  /\ IsFiniteSet({p \in Under(f, M) : p[1] = x})
           /\ Cardinality({p \in Under(f, M) : p[1] = x}) = f[x]
<1> DEFINE C == {p \in Under(f, M) : p[1] = x}
           h == [k \in 1..f[x] |-> <<x, k>>]
<1>0. f[x] \in 0..M /\ DOMAIN f = D
  OBVIOUS
<1>1. C = {<<x, k>> : k \in 1..f[x]}
  <2>1. ASSUME NEW p \in C PROVE \E k \in 1..f[x] : p = <<x, k>>
    <3>1. p \in D \X (1..M) /\ p[2] <= f[x] /\ p[1] = x
      BY <1>0, <2>1 DEF Under
    <3>2. p = <<x, p[2]>> /\ p[2] \in 1..f[x]
      BY <1>0, <3>1
    <3> QED
      BY <3>2
  <2>2. ASSUME NEW k \in 1..f[x] PROVE <<x, k>> \in C
    <3>1. k \in 1..M /\ k <= f[x]
      BY <1>0
    <3> DEFINE p == <<x, k>>
    <3>2. p \in D \X (1..M) /\ p[1] = x /\ p[2] = k
      BY <3>1
    <3> HIDE DEF p
    <3>3. p \in Under(f, M)
      BY <1>0, <3>1, <3>2 DEF Under
    <3>4. p \in C
      BY <3>2, <3>3
    <3> QED
      BY <3>4 DEF p
  <2> HIDE DEF C
  <2> QED
    BY <2>1, <2>2
<1>2. h \in Bijection(1..f[x], C)
  <2>1. h \in [1..f[x] -> C]
    BY <1>1
  <2>2. \A i, j \in 1..f[x] : h[i] = h[j] => i = j
    OBVIOUS
  <2>3. \A c \in C : \E i \in 1..f[x] : h[i] = c
    BY <1>1
  <2> QED
    BY <2>1, <2>2, <2>3 DEF Bijection, Injection, Surjection, IsInjective
<1>3. IsFiniteSet(1..f[x]) /\ Cardinality(1..f[x]) = f[x]
  BY <1>0, FS_Interval
<1> HIDE DEF h, C
<1>4. ExistsBijection(1..f[x], C)
  BY <1>2 DEF ExistsBijection
<1>5. IsFiniteSet(C) /\ Cardinality(C) = f[x]
  BY <1>3, <1>4, FS_Bijection
<1> QED
  BY <1>5 DEF C

\* A sum over a finite domain is a number.
LEMMA AreaFinite ==
    ASSUME NEW M \in Nat, NEW D, IsFiniteSet(D), NEW f \in [D -> 0..M]
    PROVE  IsFiniteSet(Under(f, M)) /\ Area(f, M) \in Nat
<1>0. IsFiniteSet(1..M)
  BY FS_Interval
<1>1. IsFiniteSet(D \X (1..M))
  BY <1>0, FS_Product
<1>2. DOMAIN f = D
  OBVIOUS
<1>3. Under(f, M) \in SUBSET (D \X (1..M))
  BY <1>2 DEF Under
<1> QED
  BY <1>1, <1>3, FS_Subset, FS_CardinalityType DEF Area

\* Changing one value changes the sum by as much.
LEMMA AreaStep ==
    ASSUME NEW M \in Nat, NEW D, IsFiniteSet(D), NEW f \in [D -> 0..M], NEW g \in [D -> 0..M],
           NEW x \in D, \A y \in D \ {x} : g[y] = f[y]
    PROVE  Area(g, M) = Area(f, M) - f[x] + g[x]
<1> DEFINE F(e) == {p \in Under(e, M) : p[1] = x}
           R(e) == {p \in Under(e, M) : p[1] # x}
<1>1. R(f) = R(g)
  <2>1. DOMAIN f = D /\ DOMAIN g = D
    OBVIOUS
  <2>2. ASSUME NEW p \in D \X (1..M), p[1] # x PROVE p \in Under(f, M) <=> p \in Under(g, M)
    <3>1. p[1] \in D \ {x}
      BY <2>2
    <3>2. g[p[1]] = f[p[1]]
      BY <3>1
    <3> QED
      BY <2>1, <3>2 DEF Under
  <2>3. Under(f, M) \subseteq D \X (1..M) /\ Under(g, M) \subseteq D \X (1..M)
    BY <2>1 DEF Under
  <2> QED
    BY <2>2, <2>3
<1>2. ASSUME NEW e \in {f, g}
      PROVE  Area(e, M) = Cardinality(R(e)) + e[x] /\ Cardinality(R(e)) \in Nat
  <2>1. e \in [D -> 0..M]
    OBVIOUS
  <2>2. IsFiniteSet(Under(e, M))
    BY <2>1, AreaFinite
  <2>3. IsFiniteSet(F(e)) /\ Cardinality(F(e)) = e[x] /\ IsFiniteSet(R(e))
    <3>1. R(e) \in SUBSET Under(e, M)
      OBVIOUS
    <3> QED
      BY <2>1, <2>2, <3>1, ColumnCount, FS_Subset
  <2>4. Under(e, M) = F(e) \cup R(e) /\ F(e) \cap R(e) = {}
    OBVIOUS
  <2> HIDE DEF F, R
  <2>5. Cardinality(F(e) \cup R(e))
          = Cardinality(F(e)) + Cardinality(R(e)) - Cardinality(F(e) \cap R(e))
    BY <2>3, FS_Union
  <2>6. Cardinality({}) = 0 /\ e[x] \in Nat /\ Cardinality(R(e)) \in Nat
    BY <2>1, <2>3, FS_EmptySet, FS_CardinalityType
  <2> QED
    BY <2>3, <2>4, <2>5, <2>6 DEF Area
<1>3. f[x] \in Nat /\ g[x] \in Nat
  OBVIOUS
<1> HIDE DEF F, R
<1> QED
  BY <1>1, <1>2, <1>3


\* The rows of the tables of turns, waiters and parks.
TurnRow == [pc : Pcs, by : {"user", "waiter"}, goal : Msg \cup {0}, resumes : 0..ErrorRounds,
            cancelled : BOOLEAN, phase : {"first", "drain", "cont"}, sweeps : 0..DrainMax,
            hand : Seq(Msg), asked : SUBSET Msg]
\* Where a waiter is, and the goal and the resumes it took over.
WaiterRow == [pc : {"off", "check", "probe", "take", "note", "claim", "push"},
              goal : Msg \cup {0}, resumes : 0..ErrorRounds]
\* A parked goal, or NoPark.
ParkRow == [goal : Msg \cup {0}, resumes : 0..ErrorRounds]

\* Every row is typed; whoever works, and whoever resumes, has a goal.
ChatTypes ==
    /\ active \in BOOLEAN
    /\ pending \in Seq(Msg) /\ Len(pending) <= PendingMax
    /\ parked \in ParkRow /\ (parked # NoPark => parked.goal \in Msg)
    /\ resumed \in 0..ErrorRounds /\ overwritten \in Nat
    /\ {registered, baseline, admission} \subseteq Turn \cup {0}
    /\ turn \in [Turn -> TurnRow] /\ waiter \in [Turn -> WaiterRow]
    /\ \A t \in Turn : turn[t].pc \in (Spawned \ {"tail"}) \cup {"claimed", "register", "count"}
                         => turn[t].goal \in Msg
    /\ \A w \in Turn : /\ waiter[w].pc \in {"note", "claim", "push"} => waiter[w].goal \in Msg
                       /\ waiter[w].pc = "note" => waiter[w].resumes < ErrorRounds

\* A turn holds messages exactly while it interjects.
HandsFull == \A t \in Turn : turn[t].pc = "interject" <=> turn[t].hand # <<>>

\* A message that is queued, or held, is in the queue, or in a hand.
MessagesKept ==
    \A m \in Msg : /\ fate[m] = "queued" => m \in ToSet(pending)
                   /\ fate[m] = "held" => \E t \in Turn : m \in ToSet(turn[t].hand)

\* Where a turn has not taken the noted count yet.
Starting == {"claimed", "register", "count"}
\* What a turn may still cost in resumes: the whole budget until it has taken
\* the count that was noted, and from then on what that count leaves of it.
TurnCredit(tu) ==
    [t \in Turn |-> IF tu[t].pc \in Starting THEN ErrorRounds
                    ELSE IF tu[t].pc \in Spawned \ {"tail"} THEN ErrorRounds - tu[t].resumes
                    ELSE 0]
\* Likewise a waiter, which is also about to start a turn.
WaiterCredit(wa) ==
    [w \in Turn |-> IF wa[w].pc = "note" THEN ErrorRounds - wa[w].resumes
                    ELSE IF wa[w].pc = "claim" THEN ErrorRounds + 1
                    ELSE 0]
\* A park costs what its resumes leave of the budget.
ParkCredit(park) == IF park = NoPark THEN 0 ELSE ErrorRounds - park.resumes

\* Resumes, and turns of the user.
ByWaiter(tu) == {t \in Turn : tu[t].by = "waiter"}
\* The user's turns that have claimed the slot.
ByUser(tu) == {t \in Turn : tu[t].by = "user" /\ tu[t].pc # "none"}
\* What may still be resumed.
Credit(tu, wa, park) ==
    Area(TurnCredit(tu), ErrorRounds + 1) + Area(WaiterCredit(wa), ErrorRounds + 1)
      + ParkCredit(park)
\* What the user's turns, and the counts lost, allow.
Paid(tu, lost) == ErrorRounds * (Cardinality(ByUser(tu)) + lost)

\* Resumes so far and to come are paid for, less the count that is noted.
ResumesPaid ==
    Cardinality(ByWaiter(turn)) + Credit(turn, waiter, parked) <= Paid(turn, overwritten) + resumed

\* What every step keeps.
ChatInv ==
    /\ ChatTypes /\ OneLiveTurn /\ StopReachesLiveTurn /\ HandsFull
    /\ MessagesKept /\ NoBaselineLeaks /\ ResumesPaid /\ ResumesBounded

\* A row that may stand in the table: whoever works has a goal.
TypicalTurn(r) ==
    /\ r \in TurnRow
    /\ r.pc \in (Spawned \ {"tail"}) \cup {"claimed", "register", "count"} => r.goal \in Msg

\* What one turn, and one waiter, may still cost.
Cost(r) == IF r.pc \in Starting THEN ErrorRounds
           ELSE IF r.pc \in Spawned \ {"tail"} THEN ErrorRounds - r.resumes
           ELSE 0
\* Likewise a waiter.
Price(q) == IF q.pc = "note" THEN ErrorRounds - q.resumes
            ELSE IF q.pc = "claim" THEN ErrorRounds + 1 ELSE 0

\* No turn, waiter or park owes more than the budget and one.
LEMMA CreditTyped ==
    /\ \A tu \in [Turn -> TurnRow] : TurnCredit(tu) \in [Turn -> 0..(ErrorRounds + 1)]
    /\ \A wa \in [Turn -> WaiterRow] : WaiterCredit(wa) \in [Turn -> 0..(ErrorRounds + 1)]
    /\ \A park \in ParkRow : ParkCredit(park) \in 0..ErrorRounds
<1>0. ErrorRounds \in Nat
  BY ChatAssumption
<1>1. ASSUME NEW tu \in [Turn -> TurnRow], NEW t \in Turn
      PROVE  TurnCredit(tu)[t] \in 0..(ErrorRounds + 1)
  <2>1. tu[t].resumes \in 0..ErrorRounds
    BY DEF TurnRow
  <2> QED
    BY <1>0, <2>1 DEF TurnCredit
<1>2. ASSUME NEW wa \in [Turn -> WaiterRow], NEW t \in Turn
      PROVE  WaiterCredit(wa)[t] \in 0..(ErrorRounds + 1)
  <2>1. wa[t].resumes \in 0..ErrorRounds
    BY DEF WaiterRow
  <2> QED
    BY <1>0, <2>1 DEF WaiterCredit
<1>3. ASSUME NEW park \in ParkRow PROVE ParkCredit(park) \in 0..ErrorRounds
  <2>1. park.resumes \in 0..ErrorRounds
    BY DEF ParkRow
  <2> QED
    BY <1>0, <2>1 DEF ParkCredit
<1> QED
  BY <1>1, <1>2, <1>3 DEF TurnCredit, WaiterCredit

\* One turn changes what turns may cost by its own part.
LEMMA TurnArea ==
    ASSUME NEW tu \in [Turn -> TurnRow], NEW t \in Turn, NEW r \in TurnRow
    PROVE  LET ta == [tu EXCEPT ![t] = r] IN
           /\ Area(TurnCredit(ta), ErrorRounds + 1)
                = Area(TurnCredit(tu), ErrorRounds + 1) - Cost(tu[t]) + Cost(r)
           /\ Area(TurnCredit(tu), ErrorRounds + 1) \in Nat
           /\ Area(TurnCredit(ta), ErrorRounds + 1) \in Nat
           /\ Cost(tu[t]) \in Nat /\ Cost(r) \in Nat
<1> DEFINE ta == [tu EXCEPT ![t] = r]
           f == TurnCredit(tu)
           g == TurnCredit(ta)
<1>1. ta \in [Turn -> TurnRow] /\ ta[t] = r /\ \A u \in Turn \ {t} : ta[u] = tu[u]
  OBVIOUS
<1> HIDE DEF ta
<1>2. f \in [Turn -> 0..(ErrorRounds + 1)] /\ g \in [Turn -> 0..(ErrorRounds + 1)]
  BY <1>1, CreditTyped
<1>3. \A u \in Turn \ {t} : g[u] = f[u]
  BY <1>1 DEF TurnCredit
<1>4. f[t] = Cost(tu[t]) /\ g[t] = Cost(r)
  BY <1>1 DEF TurnCredit, Cost
<1>5. ErrorRounds + 1 \in Nat /\ IsFiniteSet(Turn)
  BY ChatAssumption
<1> HIDE DEF f, g
<1>6. Area(g, ErrorRounds + 1) = Area(f, ErrorRounds + 1) - f[t] + g[t]
  BY <1>2, <1>3, <1>5, AreaStep
<1>7. Area(g, ErrorRounds + 1) \in Nat /\ Area(f, ErrorRounds + 1) \in Nat
  BY <1>2, <1>5, AreaFinite
<1>8. f[t] \in Nat /\ g[t] \in Nat
  BY <1>2, ChatAssumption
<1>9. /\ Area(g, ErrorRounds + 1) = Area(f, ErrorRounds + 1) - Cost(tu[t]) + Cost(r)
      /\ Cost(tu[t]) \in Nat /\ Cost(r) \in Nat
  BY <1>4, <1>6, <1>8
<1> QED
  BY <1>7, <1>9 DEF ta, f, g

\* One waiter changes what waiters may cost by its own part.
LEMMA WaiterArea ==
    ASSUME NEW wa \in [Turn -> WaiterRow], NEW w \in Turn, NEW q \in WaiterRow
    PROVE  LET wb == [wa EXCEPT ![w] = q] IN
           /\ Area(WaiterCredit(wb), ErrorRounds + 1)
                = Area(WaiterCredit(wa), ErrorRounds + 1) - Price(wa[w]) + Price(q)
           /\ Area(WaiterCredit(wa), ErrorRounds + 1) \in Nat
           /\ Area(WaiterCredit(wb), ErrorRounds + 1) \in Nat
           /\ Price(wa[w]) \in Nat /\ Price(q) \in Nat
<1> DEFINE wb == [wa EXCEPT ![w] = q]
           f == WaiterCredit(wa)
           g == WaiterCredit(wb)
<1>1. wb \in [Turn -> WaiterRow] /\ wb[w] = q /\ \A u \in Turn \ {w} : wb[u] = wa[u]
  OBVIOUS
<1> HIDE DEF wb
<1>2. f \in [Turn -> 0..(ErrorRounds + 1)] /\ g \in [Turn -> 0..(ErrorRounds + 1)]
  BY <1>1, CreditTyped
<1>3. \A u \in Turn \ {w} : g[u] = f[u]
  BY <1>1 DEF WaiterCredit
<1>4. f[w] = Price(wa[w]) /\ g[w] = Price(q)
  BY <1>1 DEF WaiterCredit, Price
<1>5. ErrorRounds + 1 \in Nat /\ IsFiniteSet(Turn)
  BY ChatAssumption
<1> HIDE DEF f, g
<1>6. Area(g, ErrorRounds + 1) = Area(f, ErrorRounds + 1) - f[w] + g[w]
  BY <1>2, <1>3, <1>5, AreaStep
<1>7. Area(g, ErrorRounds + 1) \in Nat /\ Area(f, ErrorRounds + 1) \in Nat
  BY <1>2, <1>5, AreaFinite
<1>8. f[w] \in Nat /\ g[w] \in Nat
  BY <1>2, ChatAssumption
<1>9. /\ Area(g, ErrorRounds + 1) = Area(f, ErrorRounds + 1) - Price(wa[w]) + Price(q)
      /\ Price(wa[w]) \in Nat /\ Price(q) \in Nat
  BY <1>4, <1>6, <1>8
<1> QED
  BY <1>7, <1>9 DEF wb, f, g

\* There are finitely many turns to count.
LEMMA CountsFinite ==
    ASSUME NEW tu
    PROVE  /\ IsFiniteSet(ByWaiter(tu)) /\ Cardinality(ByWaiter(tu)) \in Nat
           /\ IsFiniteSet(ByUser(tu)) /\ Cardinality(ByUser(tu)) \in Nat
<1>1. ByWaiter(tu) \in SUBSET Turn /\ ByUser(tu) \in SUBSET Turn
  BY DEF ByWaiter, ByUser
<1> QED
  BY <1>1, FS_Subset, FS_CardinalityType, ChatAssumption

\* A larger count allows more.
LEMMA BudgetGrows ==
    ASSUME NEW a \in Nat, NEW b \in Nat, a <= b
    PROVE  ErrorRounds * a <= ErrorRounds * b /\ ErrorRounds * a \in Nat /\ ErrorRounds * b \in Nat
           /\ ErrorRounds * (a + 1) = ErrorRounds * a + ErrorRounds
  BY ChatAssumption

\* Who started a turn, and whether it has started, tell the counts.
LEMMA SameCounts ==
    ASSUME NEW tu \in [Turn -> TurnRow], NEW t \in Turn, NEW r \in TurnRow,
           r.by = tu[t].by, r.pc # "none", tu[t].pc # "none"
    PROVE  LET ta == [tu EXCEPT ![t] = r]
           IN  ByWaiter(ta) = ByWaiter(tu) /\ ByUser(ta) = ByUser(tu)
<1> DEFINE ta == [tu EXCEPT ![t] = r]
<1>1. ASSUME NEW u \in Turn
      PROVE  ta[u].by = tu[u].by /\ (ta[u].pc # "none" <=> tu[u].pc # "none")
  OBVIOUS
<1> HIDE DEF ta
<1>2. ByWaiter(ta) = ByWaiter(tu) /\ ByUser(ta) = ByUser(tu)
  BY <1>1 DEF ByWaiter, ByUser
<1> QED
  BY <1>2 DEF ta

\* The property in the terms of the books.
LEMMA ResumesAre == ResumesBounded <=> Cardinality(ByWaiter(turn)) <= Paid(turn, overwritten)
  BY DEF ResumesBounded, Resumes, UserTurns, ByWaiter, ByUser, Paid, At

\* A turn that goes on costs no more than it did.
LEMMA TurnPays ==
    ASSUME ChatInv, NEW t \in Turn, NEW r \in TurnRow, turn' = [turn EXCEPT ![t] = r],
           r.by = turn[t].by, r.pc # "none", turn[t].pc # "none",
           UNCHANGED <<waiter, overwritten>>,
           resumed \in 0..ErrorRounds, resumed' \in 0..ErrorRounds,
           Cost(r) + resumed <= Cost(turn[t]) + resumed',
           parked' \in ParkRow, ParkCredit(parked') <= ParkCredit(parked)
    PROVE  ResumesPaid' /\ ResumesBounded'
<1>1. turn \in [Turn -> TurnRow] /\ waiter \in [Turn -> WaiterRow] /\ overwritten \in Nat
      /\ parked \in ParkRow
  BY DEF ChatInv, ChatTypes
<1>2. ByWaiter(turn') = ByWaiter(turn) /\ ByUser(turn') = ByUser(turn)
  BY <1>1, SameCounts
<1> DEFINE a == Area(TurnCredit(turn), ErrorRounds + 1)
           b == Area(TurnCredit(turn'), ErrorRounds + 1)
           w == Area(WaiterCredit(waiter), ErrorRounds + 1)
           n == Cardinality(ByWaiter(turn))
           m == Paid(turn, overwritten)
<1>3. b = a - Cost(turn[t]) + Cost(r) /\ a \in Nat /\ b \in Nat /\ Cost(turn[t]) \in Nat
      /\ Cost(r) \in Nat
  BY <1>1, TurnArea
<1>4. w \in Nat
  <2>1. waiter[t] \in WaiterRow
    BY <1>1
  <2> QED
    BY <1>1, <2>1, WaiterArea
<1>5. n \in Nat /\ m \in Nat
  BY <1>1, CountsFinite, ChatAssumption DEF Paid
<1>6. ParkCredit(parked) \in Nat /\ ParkCredit(parked') \in Nat
  BY <1>1, CreditTyped, ChatAssumption
<1>7. n + (a + w + ParkCredit(parked)) <= m + resumed /\ n <= m
  BY ResumesAre DEF ChatInv, ResumesPaid, Credit
<1> HIDE DEF a, b, w, n, m
<1>8. resumed \in Nat /\ resumed' \in Nat
  OBVIOUS
<1>9. n + (b + w + ParkCredit(parked')) <= m + resumed'
  BY <1>3, <1>4, <1>5, <1>6, <1>7, <1>8
<1>10. Cardinality(ByWaiter(turn')) = n /\ Paid(turn', overwritten') = m /\ waiter' = waiter
  BY <1>2 DEF n, m, Paid
<1>11. ResumesPaid'
  BY <1>9, <1>10 DEF ResumesPaid, Credit, b, w
<1>12. ResumesBounded'
  BY <1>7, <1>10, ResumesAre DEF ResumesBounded, Resumes, UserTurns, ByWaiter, ByUser, Paid, At
<1> QED
  BY <1>11, <1>12

\* A waiter that goes on costs no more than it did.
LEMMA WaiterPays ==
    ASSUME ChatInv, NEW w \in Turn, NEW q \in WaiterRow, waiter' = [waiter EXCEPT ![w] = q],
           UNCHANGED turn, overwritten' \in Nat,
           resumed \in 0..ErrorRounds, resumed' \in 0..ErrorRounds,
           parked' \in ParkRow,
           \/ /\ overwritten' = overwritten
              /\ Price(q) + ParkCredit(parked') + resumed
                   <= Price(waiter[w]) + ParkCredit(parked) + resumed'
           \/ /\ overwritten' = overwritten + 1
              /\ Price(q) + ParkCredit(parked') + resumed
                   <= Price(waiter[w]) + ParkCredit(parked) + resumed' + ErrorRounds
    PROVE  ResumesPaid' /\ ResumesBounded'
<1>1. turn \in [Turn -> TurnRow] /\ waiter \in [Turn -> WaiterRow] /\ overwritten \in Nat
      /\ parked \in ParkRow
  BY DEF ChatInv, ChatTypes
<1> DEFINE a == Area(TurnCredit(turn), ErrorRounds + 1)
           v == Area(WaiterCredit(waiter), ErrorRounds + 1)
           u == Area(WaiterCredit(waiter'), ErrorRounds + 1)
           n == Cardinality(ByWaiter(turn))
           m == Paid(turn, overwritten)
           l == Paid(turn, overwritten')
<1>3. a \in Nat
  BY <1>1, TurnArea
<1>4. u = v - Price(waiter[w]) + Price(q) /\ u \in Nat /\ v \in Nat /\ Price(waiter[w]) \in Nat
      /\ Price(q) \in Nat
  BY <1>1, WaiterArea
<1>5. n \in Nat /\ m \in Nat /\ l \in Nat
  BY <1>1, CountsFinite, ChatAssumption DEF Paid
<1>6. ParkCredit(parked) \in Nat /\ ParkCredit(parked') \in Nat
  BY <1>1, CreditTyped, ChatAssumption
<1>7. n + (a + v + ParkCredit(parked)) <= m + resumed /\ n <= m
  BY ResumesAre DEF ChatInv, ResumesPaid, Credit
<1>8. resumed \in Nat /\ resumed' \in Nat /\ ErrorRounds \in Nat
  BY ChatAssumption
<1>9. l = m \/ (overwritten' = overwritten + 1 /\ l = m + ErrorRounds)
  <2>1. CASE overwritten' = overwritten
    BY <2>1
  <2>2. CASE overwritten' = overwritten + 1
    <3>1. Cardinality(ByUser(turn)) + overwritten \in Nat
      BY <1>1, CountsFinite
    <3>2. Cardinality(ByUser(turn)) + (overwritten + 1)
            = (Cardinality(ByUser(turn)) + overwritten) + 1
      BY <1>1, CountsFinite
    <3> QED
      BY <2>2, <3>1, <3>2, BudgetGrows DEF Paid
  <2> QED
    BY <2>1, <2>2
<1>n. overwritten' = overwritten => l = m
  OBVIOUS
<1> HIDE DEF a, v, u, n, m, l
<1>10. n + (a + u + ParkCredit(parked')) <= l + resumed' /\ n <= l
  <2>1. CASE overwritten' = overwritten
    BY <2>1, <1>n, <1>1, <1>3, <1>4, <1>5, <1>6, <1>7, <1>8
  <2>2. CASE overwritten' = overwritten + 1
    <3>1. l = m + ErrorRounds
      BY <1>1, <1>9, <2>2, BudgetGrows, CountsFinite DEF l, m, Paid
    <3> QED
      BY <2>2, <3>1, <1>1, <1>3, <1>4, <1>5, <1>6, <1>7, <1>8
  <2> QED
    BY <2>1, <2>2
<1>11. ResumesPaid'
  BY <1>10 DEF ResumesPaid, Credit, a, u, n, l
<1>12. ResumesBounded'
  BY <1>10 DEF ResumesBounded, Resumes, UserTurns, ByWaiter, ByUser, Paid, At, n, l
<1> QED
  BY <1>11, <1>12

\* What a queue holds, after a push and without its head.
LEMMA ToSetParts ==
    ASSUME NEW S, NEW q \in Seq(S)
    PROVE  /\ ToSet(<<>>) = {}
           /\ ToSet(q) \subseteq S
           /\ \A x \in S : Append(q, x) \in Seq(S) /\ ToSet(Append(q, x)) = ToSet(q) \cup {x}
                            /\ Len(Append(q, x)) = Len(q) + 1 /\ Append(q, x) # <<>>
           /\ q # <<>> => /\ Head(q) \in S /\ Tail(q) \in Seq(S) /\ Len(Tail(q)) = Len(q) - 1
                          /\ ToSet(q) = {Head(q)} \cup ToSet(Tail(q))
           /\ Len(q) \in Nat /\ (Len(q) > 0 => q # <<>>)
<1>1. ToSet(<<>>) = {} /\ ToSet(q) \subseteq S
  BY DEF ToSet
<1>2. ASSUME NEW x \in S
      PROVE  Append(q, x) \in Seq(S) /\ ToSet(Append(q, x)) = ToSet(q) \cup {x}
             /\ Len(Append(q, x)) = Len(q) + 1 /\ Append(q, x) # <<>>
  <2>1. /\ DOMAIN Append(q, x) = 1..(Len(q) + 1) /\ Append(q, x)[Len(q) + 1] = x
        /\ \A i \in 1..Len(q) : Append(q, x)[i] = q[i]
    OBVIOUS
  <2>2. ToSet(Append(q, x)) = ToSet(q) \cup {x}
    <3>1. DOMAIN q = 1..Len(q) /\ Len(q) \in Nat
      OBVIOUS
    <3>2. 1..(Len(q) + 1) = (1..Len(q)) \cup {Len(q) + 1}
      BY <3>1
    <3> QED
      BY <2>1, <3>1, <3>2 DEF ToSet
  <2>3. Append(q, x) \in Seq(S) /\ Len(Append(q, x)) = Len(q) + 1
    OBVIOUS
  <2>4. Len(q) \in Nat /\ Len(<<>>) = 0
    OBVIOUS
  <2>5. Append(q, x) # <<>>
    BY <2>3, <2>4
  <2> QED
    BY <2>2, <2>3, <2>5
<1>3. ASSUME q # <<>>
      PROVE  /\ Head(q) \in S /\ Tail(q) \in Seq(S) /\ Len(Tail(q)) = Len(q) - 1
             /\ ToSet(q) = {Head(q)} \cup ToSet(Tail(q))
  <2>1. Head(q) = q[1] /\ Len(q) \in Nat /\ Len(q) >= 1
    BY <1>3
  <2>2. Tail(q) \in Seq(S) /\ Len(Tail(q)) = Len(q) - 1
    BY <1>3
  <2>3. \A i \in 1..(Len(q) - 1) : Tail(q)[i] = q[i + 1]
    BY <1>3
  <2>4. DOMAIN Tail(q) = 1..(Len(q) - 1) /\ DOMAIN q = 1..Len(q)
    BY <2>2
  <2>5. ASSUME NEW x \in ToSet(q) PROVE x \in {Head(q)} \cup ToSet(Tail(q))
    <3>1. PICK i \in 1..Len(q) : x = q[i]
      BY <2>4, <2>5 DEF ToSet
    <3>2. CASE i = 1
      BY <2>1, <3>1, <3>2
    <3>3. CASE i # 1
      <4>1. i - 1 \in 1..(Len(q) - 1) /\ Tail(q)[i - 1] = x
        BY <2>1, <2>3, <3>1, <3>3
      <4> QED
        BY <2>4, <4>1 DEF ToSet
    <3> QED
      BY <3>2, <3>3
  <2>6. ASSUME NEW x \in {Head(q)} \cup ToSet(Tail(q)) PROVE x \in ToSet(q)
    <3>1. CASE x = Head(q)
      BY <2>1, <2>4, <3>1 DEF ToSet
    <3>2. CASE x \in ToSet(Tail(q))
      <4>1. PICK i \in 1..(Len(q) - 1) : x = Tail(q)[i]
        BY <2>4, <3>2 DEF ToSet
      <4>2. i + 1 \in 1..Len(q) /\ q[i + 1] = x
        BY <2>1, <2>3, <4>1
      <4> QED
        BY <2>4, <4>2 DEF ToSet
    <3> QED
      BY <2>6, <3>1, <3>2
  <2> QED
    BY <1>3, <2>1, <2>2, <2>5, <2>6
<1> QED
  BY <1>1, <1>2, <1>3

\* A live turn that goes on is still the one live turn.
LEMMA LiveMoves ==
    ASSUME ChatInv, NEW t \in Turn, NEW r \in TurnRow, turn' = [turn EXCEPT ![t] = r],
           Live(t), r.pc \notin {"none", "close", "done"},
           r.pc \in Spawned \cup {"count"} => registered' = t, UNCHANGED active
    PROVE  OneLiveTurn' /\ StopReachesLiveTurn' /\ NoBaselineLeaks'
<1>1. turn \in [Turn -> TurnRow] /\ OneLiveTurn /\ StopReachesLiveTurn
  BY DEF ChatInv, ChatTypes
<1>2. turn'[t] = r /\ \A u \in Turn \ {t} : turn'[u] = turn[u]
  BY <1>1
<1>3. \A u \in Turn \ {t} : ~Live(u) /\ ~Live(u)'
  BY <1>1, <1>2 DEF OneLiveTurn, Live
<1>4. Live(t)' /\ active
  BY <1>1, <1>2 DEF OneLiveTurn, Live
<1>5. OneLiveTurn'
  BY <1>3, <1>4 DEF OneLiveTurn
<1>6. StopReachesLiveTurn'
  <2>1. ASSUME NEW u \in Turn, turn'[u].pc \in Spawned \cup {"count"} PROVE registered' = u
    <3>1. Live(u)'
      BY <2>1 DEF Live, Spawned
    <3>2. u = t
      BY <1>3, <3>1
    <3> QED
      BY <1>2, <2>1, <3>2
  <2> QED
    BY <2>1 DEF StopReachesLiveTurn
<1>7. NoBaselineLeaks'
  BY <1>2 DEF NoBaselineLeaks
<1> QED
  BY <1>5, <1>6, <1>7

\* Nothing about the messages changes.
LEMMA MessagesStay ==
    ASSUME ChatInv, UNCHANGED <<pending, fate>>, turn' \in [Turn -> TurnRow],
           \A u \in Turn : /\ turn'[u].hand = turn[u].hand
                           /\ turn'[u].pc = "interject" <=> turn[u].pc = "interject"
    PROVE  HandsFull' /\ MessagesKept'
<1>1. HandsFull /\ MessagesKept
  BY DEF ChatInv
<1>2. HandsFull'
  <2>1. ASSUME NEW u \in Turn PROVE turn'[u].pc = "interject" <=> turn'[u].hand # <<>>
    <3>1. turn'[u].hand = turn[u].hand /\ (turn'[u].pc = "interject" <=> turn[u].pc = "interject")
      OBVIOUS
    <3>2. turn[u].pc = "interject" <=> turn[u].hand # <<>>
      BY <1>1 DEF HandsFull
    <3> QED
      BY <3>1, <3>2
  <2> QED
    BY <2>1 DEF HandsFull
<1>3. MessagesKept'
  <2>1. ASSUME NEW m \in Msg, fate[m] = "held" PROVE \E u \in Turn : m \in ToSet(turn'[u].hand)
    <3>1. PICK u \in Turn : m \in ToSet(turn[u].hand)
      BY <1>1, <2>1 DEF MessagesKept
    <3>2. turn'[u].hand = turn[u].hand
      OBVIOUS
    <3> QED
      BY <3>1, <3>2
  <2> QED
    BY <1>1, <2>1 DEF MessagesKept
<1> QED
  BY <1>2, <1>3

\* The live turn goes on.
LEMMA TurnGoesOn ==
    ASSUME ChatInv, NEW t \in Turn, NEW r \in TurnRow, turn' = [turn EXCEPT ![t] = r],
           TypicalTurn(r), r.by = turn[t].by, Live(t), r.pc \notin {"none", "close", "done"},
           r.pc \in Spawned \cup {"count"} => registered' = t,
           UNCHANGED <<active, waiter, overwritten>>,
           pending' \in Seq(Msg), Len(pending') <= PendingMax,
           parked' \in {parked, NoPark},
           resumed' \in 0..ErrorRounds, Cost(r) + resumed <= Cost(turn[t]) + resumed',
           {registered', baseline', admission'} \subseteq Turn \cup {0},
           HandsFull', MessagesKept'
    PROVE  ChatInv'
<1>1. ChatTypes
  BY DEF ChatInv
<1>2. turn[t].pc # "none" /\ resumed \in 0..ErrorRounds
  BY <1>1 DEF Live, ChatTypes
<1>3. parked' \in ParkRow /\ ParkCredit(parked') <= ParkCredit(parked)
      /\ (parked' # NoPark => parked'.goal \in Msg)
  <2>1. ParkCredit(NoPark) = 0 /\ ParkCredit(parked) \in Nat /\ NoPark \in ParkRow
    BY <1>1, CreditTyped, ChatAssumption DEF ParkCredit, ChatTypes, NoPark, ParkRow
  <2> QED
    BY <1>1, <2>1 DEF ChatTypes
<1>4. ResumesPaid' /\ ResumesBounded'
  BY <1>2, <1>3, TurnPays
<1>5. OneLiveTurn' /\ StopReachesLiveTurn' /\ NoBaselineLeaks'
  BY LiveMoves
<1>6. turn' \in [Turn -> TurnRow] /\ turn'[t] = r /\ \A u \in Turn \ {t} : turn'[u] = turn[u]
  BY <1>1 DEF ChatTypes
<1>7. ChatTypes'
  BY <1>1, <1>3, <1>6 DEF ChatTypes, TypicalTurn
<1> QED
  BY <1>4, <1>5, <1>7 DEF ChatInv

\* Moving on changes where the turn is and nothing else of it.
LEMMA GotoRow ==
    ASSUME ChatTypes, NEW t \in Turn, NEW pc \in Pcs, Goto(t, pc)
    PROVE  \E r \in TurnRow :
             /\ turn' = [turn EXCEPT ![t] = r] /\ r = [turn[t] EXCEPT !.pc = pc] /\ r.pc = pc
             /\ r.by = turn[t].by /\ r.goal = turn[t].goal /\ r.resumes = turn[t].resumes
             /\ r.hand = turn[t].hand
<1> DEFINE r == [turn[t] EXCEPT !.pc = pc]
<1>1. turn[t] \in TurnRow
  BY DEF ChatTypes
<1>2. r \in TurnRow /\ r.pc = pc /\ r.by = turn[t].by /\ r.goal = turn[t].goal
      /\ r.resumes = turn[t].resumes /\ r.hand = turn[t].hand
  BY <1>1 DEF TurnRow
<1>3. turn' = [turn EXCEPT ![t] = r]
  BY DEF Goto
<1> QED
  BY <1>2, <1>3


\* The steps of a turn that only move it on, and publish something.
LEMMA QuietGoto ==
    ASSUME ChatInv, NEW t \in Turn, NEW pc \in Pcs \ {"none", "close", "done", "interject"},
           Live(t), turn[t].pc # "interject", Goto(t, pc),
           pc \in Starting => turn[t].pc \in Starting,
           pc \in Spawned \ {"tail"} => turn[t].pc \in Spawned \ {"tail"},
           pc \in Spawned \cup {"count"} => registered' = t,
           UNCHANGED <<active, pending, waiter, fate, resumed, overwritten>>,
           parked' \in {parked, NoPark},
           {registered', baseline', admission'} \subseteq Turn \cup {0}
    PROVE  ChatInv'
<1>1. ChatTypes
  BY DEF ChatInv
<1>2. PICK r \in TurnRow :
         /\ turn' = [turn EXCEPT ![t] = r] /\ r.pc = pc
         /\ r.by = turn[t].by /\ r.goal = turn[t].goal /\ r.resumes = turn[t].resumes
         /\ r.hand = turn[t].hand
  BY <1>1, GotoRow
<1>3. turn[t] \in TurnRow
  BY <1>1 DEF ChatTypes
<1>4. TypicalTurn(r)
  <2>1. turn[t].pc \in (Spawned \ {"tail"}) \cup Starting
          => turn[t].goal \in Msg
    BY <1>1 DEF ChatTypes, Starting
  <2> QED
    BY <1>2, <2>1 DEF TypicalTurn, Starting
<1>5. Cost(r) <= Cost(turn[t]) /\ resumed \in Nat /\ Cost(r) \in Nat /\ Cost(turn[t]) \in Nat
  <2>1. turn[t].resumes \in 0..ErrorRounds /\ ErrorRounds \in Nat
    BY <1>3, ChatAssumption DEF TurnRow
  <2> QED
    BY <1>1, <1>2, <2>1 DEF Cost, ChatTypes, Starting
<1>6. turn' \in [Turn -> TurnRow] /\ turn'[t] = r /\ \A u \in Turn \ {t} : turn'[u] = turn[u]
  BY <1>1, <1>2 DEF ChatTypes
<1>7. HandsFull' /\ MessagesKept'
  <2>1. \A u \in Turn : /\ turn'[u].hand = turn[u].hand
                        /\ turn'[u].pc = "interject" <=> turn[u].pc = "interject"
    BY <1>2, <1>6
  <2> QED
    BY <1>6, <2>1, MessagesStay
<1>8. resumed' \in 0..ErrorRounds /\ pending' \in Seq(Msg) /\ Len(pending') <= PendingMax
      /\ Cost(r) + resumed <= Cost(turn[t]) + resumed'
  BY <1>1, <1>5 DEF ChatTypes
<1> QED
  BY <1>2, <1>4, <1>7, <1>8, TurnGoesOn

\* A turn from its claim to its plan.
LEMMA OpeningKeeps == ASSUME ChatInv, NEW t \in Turn, Opening(t) PROVE ChatInv'
<1>1. ChatTypes /\ StopReachesLiveTurn
  BY DEF ChatInv
<1>2. {registered, baseline, admission} \subseteq Turn \cup {0}
  BY <1>1 DEF ChatTypes
<1>s. /\ Spawned = {"prep", "baseline", "admit", "plan", "run", "poll", "interject", "step", "ask",
                    "sweep", "mission", "tail"}
      /\ Starting = {"claimed", "register", "count"}
  BY DEF Spawned, Starting
<1>p. {"register", "count", "baseline", "tail", "admit", "plan", "run", "prep"}
         \subseteq Pcs \ {"none", "close", "done", "interject"}
  BY DEF Pcs, Spawned
<1>3. CASE ClearPark(t)
  BY <1>1, <1>2, <1>3, <1>s, <1>p, QuietGoto DEF ClearPark, At, Live
<1>4. CASE Register(t)
  BY <1>1, <1>2, <1>4, <1>s, <1>p, QuietGoto DEF Register, At, Live
<1>5. CASE TakeResumeCount(t)
  <2> DEFINE r == [turn[t] EXCEPT !.resumes = resumed, !.pc = "prep"]
  <2>1. turn[t] \in TurnRow /\ resumed \in 0..ErrorRounds /\ "prep" \in Pcs /\ turn[t].goal \in Msg
        /\ turn[t].pc = "count"
    BY <1>1, <1>5 DEF ChatTypes, Pcs, Spawned, TakeResumeCount, At
  <2>2. r \in TurnRow /\ r.pc = "prep" /\ r.by = turn[t].by /\ r.goal = turn[t].goal
        /\ r.resumes = resumed /\ r.hand = turn[t].hand
    BY <2>1 DEF TurnRow
  <2>3. turn' = [turn EXCEPT ![t] = r]
    BY <1>5 DEF TakeResumeCount
  <2>u. UNCHANGED <<active, pending, parked, registered, baseline, admission, waiter, fate,
                    overwritten>> /\ resumed' = 0
    BY <1>5 DEF TakeResumeCount
  <2> HIDE DEF r
  <2>4. TypicalTurn(r)
    BY <2>1, <2>2 DEF TypicalTurn
  <2>5. Cost(r) + resumed <= Cost(turn[t]) + resumed' /\ resumed' \in 0..ErrorRounds
    BY <1>s, <2>1, <2>2, <2>u, ChatAssumption DEF Cost
  <2>6. turn' \in [Turn -> TurnRow] /\ turn'[t] = r /\ \A u \in Turn \ {t} : turn'[u] = turn[u]
    BY <1>1, <2>2, <2>3 DEF ChatTypes
  <2>7. HandsFull' /\ MessagesKept'
    <3>1. \A u \in Turn : /\ turn'[u].hand = turn[u].hand
                          /\ turn'[u].pc = "interject" <=> turn[u].pc = "interject"
      BY <2>1, <2>2, <2>6
    <3> QED
      BY <2>6, <2>u, <3>1, MessagesStay
  <2>8. registered' = t
    BY <1>1, <2>1, <2>u DEF StopReachesLiveTurn
  <2>9. Live(t) /\ pending' \in Seq(Msg) /\ Len(pending') <= PendingMax
    BY <1>1, <2>1, <2>u DEF Live, ChatTypes
  <2> QED
    BY <1>2, <2>2, <2>3, <2>4, <2>5, <2>7, <2>8, <2>9, <2>u, TurnGoesOn
<1>6. CASE Prepare(t)
  <2>1. PICK pc \in {"baseline", "tail"} : Goto(t, pc)
    BY <1>6 DEF Prepare
  <2> QED
    BY <1>1, <1>2, <1>6, <1>s, <1>p, <2>1, QuietGoto DEF Prepare, At, Live, StopReachesLiveTurn
<1>7. CASE OpenBaseline(t)
  BY <1>1, <1>2, <1>7, <1>s, <1>p, QuietGoto DEF OpenBaseline, At, Live, StopReachesLiveTurn
<1>8. CASE RegisterAdmission(t)
  BY <1>1, <1>2, <1>8, <1>s, <1>p, QuietGoto DEF RegisterAdmission, At, Live, StopReachesLiveTurn
<1>9. CASE PlanAndSeed(t)
  <2>1. PICK pc \in {"run", "tail"} : Goto(t, pc)
    BY <1>9 DEF PlanAndSeed
  <2> QED
    BY <1>1, <1>2, <1>9, <1>s, <1>p, <2>1, QuietGoto DEF PlanAndSeed, At, Live, StopReachesLiveTurn
<1> QED
  BY <1>3, <1>4, <1>5, <1>6, <1>7, <1>8, <1>9 DEF Opening
\* A turn at work goes on with its work, and the messages stay accounted for.
LEMMA AtWork ==
    ASSUME ChatInv, NEW t \in Turn, NEW r \in TurnRow, turn' = [turn EXCEPT ![t] = r],
           turn[t].pc \in Spawned \ {"tail"}, r.pc \in Spawned,
           r.by = turn[t].by, r.goal = turn[t].goal, r.resumes = turn[t].resumes,
           r.pc = "interject" <=> r.hand # <<>>,
           UNCHANGED <<active, waiter, overwritten, parked, resumed, registered, baseline,
                       admission>>,
           pending' \in Seq(Msg), Len(pending') <= PendingMax, MessagesKept'
    PROVE  ChatInv'
<1>1. ChatTypes /\ HandsFull /\ StopReachesLiveTurn
  BY DEF ChatInv
<1>2. turn[t] \in TurnRow /\ turn[t].goal \in Msg
  BY <1>1 DEF ChatTypes
<1>3. Live(t) /\ r.pc \notin {"none", "close", "done"}
  BY DEF Live, Spawned
<1>4. TypicalTurn(r)
  BY <1>2 DEF TypicalTurn
<1>5. Cost(r) <= Cost(turn[t]) /\ resumed \in Nat /\ Cost(r) \in Nat /\ Cost(turn[t]) \in Nat
  <2>1. turn[t].resumes \in 0..ErrorRounds /\ ErrorRounds \in Nat
    BY <1>2, ChatAssumption DEF TurnRow
  <2> QED
    BY <1>1, <2>1 DEF Cost, ChatTypes, Starting, Spawned
<1>6. turn' \in [Turn -> TurnRow] /\ turn'[t] = r /\ \A u \in Turn \ {t} : turn'[u] = turn[u]
  BY <1>1 DEF ChatTypes
<1>7. HandsFull'
  BY <1>1, <1>6 DEF HandsFull
<1>8. resumed' \in 0..ErrorRounds /\ Cost(r) + resumed <= Cost(turn[t]) + resumed'
      /\ {registered', baseline', admission'} \subseteq Turn \cup {0}
           /\ parked' \in {parked, NoPark}
  BY <1>1, <1>5 DEF ChatTypes
<1>9. registered' = t
  BY <1>1 DEF StopReachesLiveTurn
<1> QED
  BY <1>3, <1>4, <1>7, <1>8, <1>9, TurnGoesOn

\* The messages a turn takes from the queue are all that was queued.
LEMMA QueueTaken ==
    ASSUME ChatInv, NEW t \in Turn, NEW r \in TurnRow, turn' = [turn EXCEPT ![t] = r],
           turn[t].hand = <<>>, pending' = <<>>, NEW what,
           what # "queued", Settle(ToSet(pending), what),
           what = "held" => r.hand = pending
    PROVE  MessagesKept'
<1>1. ChatTypes /\ MessagesKept
  BY DEF ChatInv
<1>2. turn'[t] = r /\ \A u \in Turn \ {t} : turn'[u] = turn[u]
  BY <1>1 DEF ChatTypes
<1>3. ASSUME NEW m \in Msg PROVE fate'[m] # "queued"
  BY <1>1, <1>3 DEF MessagesKept, Settle
<1>4. ASSUME NEW m \in Msg, fate'[m] = "held" PROVE \E u \in Turn : m \in ToSet(turn'[u].hand)
  <2>1. CASE m \in ToSet(pending)
    <3>1. what = "held"
      BY <1>4, <2>1 DEF Settle
    <3> QED
      BY <1>2, <2>1, <3>1
  <2>2. CASE m \notin ToSet(pending)
    <3>1. fate[m] = "held"
      BY <1>4, <2>2 DEF Settle
    <3>2. PICK u \in Turn : m \in ToSet(turn[u].hand)
      BY <1>1, <3>1 DEF MessagesKept
    <3>3. u # t
      <4>1. ToSet(<<>>) = {}
        BY DEF ToSet
      <4> QED
        BY <3>2, <4>1
    <3> QED
      BY <1>2, <3>2, <3>3
  <2> QED
    BY <2>1, <2>2
<1> QED
  BY <1>3, <1>4 DEF MessagesKept

\* A message pushed is queued, and a queue that is full drops its oldest.
LEMMA PushKeeps ==
    ASSUME ChatInv, NEW m \in Msg, Push(m)
    PROVE  /\ pending' \in Seq(Msg) /\ Len(pending') <= PendingMax
           /\ \A x \in Msg : /\ fate'[x] = "queued" => x \in ToSet(pending')
                             /\ fate'[x] = "held" => fate[x] = "held" /\ x # m
<1>1. ChatTypes /\ MessagesKept
  BY DEF ChatInv
<1>2. pending \in Seq(Msg) /\ Len(pending) <= PendingMax /\ PendingMax \in Nat \ {0}
  BY <1>1, ChatAssumption DEF ChatTypes
<1> DEFINE full == Len(pending) >= PendingMax
           rest == IF full THEN Tail(pending) ELSE pending
<1>3. /\ Len(pending) \in Nat /\ (full => pending # <<>>)
      /\ pending # <<>> => /\ Tail(pending) \in Seq(Msg) /\ Len(Tail(pending)) = Len(pending) - 1
                           /\ ToSet(pending) = {Head(pending)} \cup ToSet(Tail(pending))
  BY <1>2, ToSetParts
<1>4. /\ rest \in Seq(Msg) /\ Len(rest) < PendingMax
      /\ \A x \in ToSet(pending) : x \in ToSet(rest) \/ (full /\ x = Head(pending))
  BY <1>2, <1>3
<1>5. /\ pending' = Append(rest, m)
      /\ \A x \in Msg : fate'[x] = IF x = m THEN "queued"
                                   ELSE IF full /\ x = Head(pending) THEN "dropped" ELSE fate[x]
  BY DEF Push
<1> HIDE DEF full, rest
<1>6. pending' \in Seq(Msg) /\ Len(pending') = Len(rest) + 1
      /\ ToSet(pending') = ToSet(rest) \cup {m}
      /\ Len(rest) \in Nat
  BY <1>4, <1>5, ToSetParts
<1>7. Len(pending') <= PendingMax
  BY <1>2, <1>4, <1>6
<1>8. ASSUME NEW x \in Msg, fate'[x] = "queued" PROVE x \in ToSet(pending')
  <2>1. CASE x = m
    BY <1>6, <2>1
  <2>2. CASE x # m
    <3>1. ~(full /\ x = Head(pending)) /\ fate[x] = "queued"
      BY <1>5, <1>8, <2>2
    <3> QED
      BY <1>1, <1>4, <1>6, <3>1 DEF MessagesKept
  <2> QED
    BY <2>1, <2>2
<1>9. ASSUME NEW x \in Msg, fate'[x] = "held" PROVE fate[x] = "held" /\ x # m
  BY <1>5, <1>9
<1> QED
  BY <1>6, <1>7, <1>8, <1>9

\* A step that touches neither the queue nor the turn's hand.
LEMMA WorkGoesOn ==
    ASSUME ChatInv, NEW t \in Turn, NEW r \in TurnRow, turn' = [turn EXCEPT ![t] = r],
           turn[t].pc \in Spawned \ {"tail", "interject"}, r.pc \in Spawned \ {"interject"},
           r.by = turn[t].by, r.goal = turn[t].goal, r.resumes = turn[t].resumes,
           r.hand = turn[t].hand,
           UNCHANGED <<active, waiter, overwritten, parked, resumed, registered, baseline,
                       admission, pending, fate>>
    PROVE  ChatInv'
<1>1. ChatTypes /\ HandsFull
  BY DEF ChatInv
<1>2. turn' \in [Turn -> TurnRow] /\ turn'[t] = r /\ \A u \in Turn \ {t} : turn'[u] = turn[u]
  BY <1>1 DEF ChatTypes
<1>3. \A u \in Turn : /\ turn'[u].hand = turn[u].hand
                      /\ turn'[u].pc = "interject" <=> turn[u].pc = "interject"
  BY <1>2
<1>4. MessagesKept'
  BY <1>2, <1>3, MessagesStay
<1>5. r.pc = "interject" <=> r.hand # <<>>
  BY <1>1 DEF HandsFull
<1>6. pending' \in Seq(Msg) /\ Len(pending') <= PendingMax
  BY <1>1 DEF ChatTypes
<1> QED
  BY <1>4, <1>5, <1>6, AtWork

\* Likewise a step that only moves the turn on.
LEMMA WorkGoto ==
    ASSUME ChatInv, NEW t \in Turn, NEW pc \in Spawned \ {"interject"}, Goto(t, pc),
           turn[t].pc \in Spawned \ {"tail", "interject"},
           UNCHANGED <<active, waiter, overwritten, parked, resumed, registered, baseline,
                       admission, pending, fate>>
    PROVE  ChatInv'
<1>1. ChatTypes /\ pc \in Pcs
  BY DEF ChatInv, Pcs
<1>2. PICK r \in TurnRow :
         /\ turn' = [turn EXCEPT ![t] = r] /\ r.pc = pc
         /\ r.by = turn[t].by /\ r.goal = turn[t].goal /\ r.resumes = turn[t].resumes
         /\ r.hand = turn[t].hand
  BY <1>1, GotoRow
<1> QED
  BY <1>2, WorkGoesOn

\* The steps of a run, its interjections and its questions.
LEMMA RunningKeeps ==
    ASSUME ChatInv, NEW t \in Turn, Running(t) \/ Ask(t) \/ ContinueRound(t) \/ MissionReturns(t)
    PROVE  ChatInv'
<1>1. ChatTypes /\ HandsFull /\ MessagesKept
  BY DEF ChatInv
<1>2. turn[t] \in TurnRow /\ pending \in Seq(Msg) /\ Len(pending) <= PendingMax
      /\ PendingMax \in Nat \ {0}
  BY <1>1, ChatAssumption DEF ChatTypes
<1>3. turn[t].hand \in Seq(Msg) /\ turn[t].asked \in SUBSET Msg /\ turn[t].sweeps \in 0..DrainMax
      /\ turn[t].phase \in {"first", "drain", "cont"}
  BY <1>2 DEF TurnRow
<1>s. Spawned = {"prep", "baseline", "admit", "plan", "run", "poll", "interject", "step", "ask",
                 "sweep", "mission", "tail"}
  BY DEF Spawned
<1>p. Spawned \subseteq Pcs
  BY DEF Pcs
<1>e. <<>> \in Seq(Msg) /\ Len(<<>>) = 0 /\ Len(<<>>) <= PendingMax
  BY <1>2
<1>4. CASE Boundary(t)
  <2>1. PICK pc \in {"mission", "sweep", "poll"} : Goto(t, pc)
    BY <1>4 DEF Boundary, AfterRun
  <2> QED
    BY <1>4, <1>s, <2>1, WorkGoto DEF Boundary, At
<1>5. CASE Step(t) \/ RunEnds(t) \/ SweepEnds(t) \/ MissionReturns(t)
  <2>1. PICK pc \in {"run", "mission", "sweep", "tail"} : Goto(t, pc)
    BY <1>5 DEF Step, RunEnds, SweepEnds, MissionReturns, AfterRun
  <2> QED
    BY <1>5, <1>s, <2>1, WorkGoto DEF Step, RunEnds, SweepEnds, MissionReturns, At
<1>6. ASSUME turn[t].pc \in {"poll", "sweep"}, NEW r \in TurnRow, turn' = [turn EXCEPT ![t] = r],
             r.pc = "interject", r.by = turn[t].by, r.goal = turn[t].goal,
           r.resumes = turn[t].resumes,
             r.hand = pending, pending # <<>>, pending' = <<>>, Settle(ToSet(pending), "held"),
             UNCHANGED <<active, waiter, overwritten, parked, resumed, registered, baseline,
                         admission>>
      PROVE  ChatInv'
  <2>1. turn[t].hand = <<>>
    BY <1>1, <1>6 DEF HandsFull
  <2>2. MessagesKept'
    BY <1>6, <2>1, QueueTaken
  <2> QED
    BY <1>6, <1>e, <1>s, <2>2, AtWork
<1>7. CASE Poll(t)
  <2>1. CASE pending = <<>>
    BY <1>7, <1>s, <2>1, WorkGoto DEF Poll, At
  <2>2. CASE pending # <<>>
    <3> DEFINE r == [turn[t] EXCEPT !.hand = pending, !.pc = "interject"]
    <3>1. r \in TurnRow /\ r.pc = "interject" /\ r.by = turn[t].by /\ r.goal = turn[t].goal
          /\ r.resumes = turn[t].resumes /\ r.hand = pending
      BY <1>2, <1>p, <1>s DEF TurnRow
    <3>2. turn' = [turn EXCEPT ![t] = r] /\ pending' = <<>> /\ Settle(ToSet(pending), "held")
          /\ turn[t].pc = "poll"
      BY <1>7, <2>2 DEF Poll, Drain, At
    <3>3. UNCHANGED <<active, waiter, overwritten, parked, resumed, registered, baseline,
                      admission>>
      BY <1>7 DEF Poll
    <3> HIDE DEF r
    <3> QED
      BY <1>6, <2>2, <3>1, <3>2, <3>3
  <2> QED
    BY <2>1, <2>2
<1>8. CASE SweepTakes(t)
  <2> DEFINE r == [turn[t] EXCEPT !.hand = pending, !.pc = "interject",
                                  !.phase = "drain", !.sweeps = @ + 1]
  <2>0. turn[t].sweeps + 1 \in 0..DrainMax
    BY <1>3, <1>8, ChatAssumption DEF SweepTakes
  <2>1. r \in TurnRow /\ r.pc = "interject" /\ r.by = turn[t].by /\ r.goal = turn[t].goal
        /\ r.resumes = turn[t].resumes /\ r.hand = pending
    BY <1>2, <1>p, <1>s, <2>0 DEF TurnRow
  <2>2. turn' = [turn EXCEPT ![t] = r] /\ pending' = <<>> /\ Settle(ToSet(pending), "held")
        /\ turn[t].pc = "sweep" /\ pending # <<>>
    BY <1>8 DEF SweepTakes, At
  <2>3. UNCHANGED <<active, waiter, overwritten, parked, resumed, registered, baseline, admission>>
    BY <1>8 DEF SweepTakes
  <2> HIDE DEF r
  <2> QED
    BY <1>6, <2>1, <2>2, <2>3
<1>9. CASE Ask(t)
  <2> DEFINE r == [turn[t] EXCEPT !.pc = "ask", !.asked = Sent]
  <2>0. Sent \in SUBSET Msg
    BY DEF Sent
  <2>1. r \in TurnRow /\ r.pc = "ask" /\ r.by = turn[t].by /\ r.goal = turn[t].goal
        /\ r.resumes = turn[t].resumes /\ r.hand = turn[t].hand
    BY <1>2, <1>p, <1>s, <2>0 DEF TurnRow
  <2>2. turn' = [turn EXCEPT ![t] = r] /\ turn[t].pc = "step"
    BY <1>9 DEF Ask, At
  <2> HIDE DEF r
  <2> QED
    BY <1>9, <1>s, <2>1, <2>2, WorkGoesOn DEF Ask
<1>10. CASE ContinueRound(t)
  <2> DEFINE r == [turn[t] EXCEPT !.phase = "cont", !.pc = "run"]
  <2>1. r \in TurnRow /\ r.pc = "run" /\ r.by = turn[t].by /\ r.goal = turn[t].goal
        /\ r.resumes = turn[t].resumes /\ r.hand = turn[t].hand
    BY <1>2, <1>p, <1>s DEF TurnRow
  <2>2. turn' = [turn EXCEPT ![t] = r] /\ turn[t].pc = "mission"
    BY <1>10 DEF ContinueRound, At
  <2> HIDE DEF r
  <2> QED
    BY <1>10, <1>s, <2>1, <2>2, WorkGoesOn DEF ContinueRound
<1> DEFINE back == [turn[t] EXCEPT !.pc = "run", !.asked = {}]
<1>11. back \in TurnRow /\ back.pc = "run" /\ back.by = turn[t].by /\ back.goal = turn[t].goal
       /\ back.resumes = turn[t].resumes /\ back.hand = turn[t].hand
  BY <1>2, <1>p, <1>s DEF TurnRow
<1>12. ASSUME AskTimeout(t) \/ TakeAnswer(t)
       PROVE  turn' = [turn EXCEPT ![t] = back] /\ turn[t].pc = "ask" /\ turn[t].hand = <<>>
  <2>1. turn[t].pc = "ask"
    BY <1>12 DEF AskTimeout, TakeAnswer, At
  <2>2. turn[t].hand = <<>>
    BY <1>1, <2>1 DEF HandsFull
  <2> QED
    BY <1>12, <2>1, <2>2 DEF AskTimeout, TakeAnswer
<1> HIDE DEF back
<1>13. CASE AskTimeout(t)
  BY <1>11, <1>12, <1>13, <1>s, WorkGoesOn DEF AskTimeout
<1>14. CASE TakeAnswer(t)
  <2>1. PICK what \in {"answer", "staleAnswer"} : Settle(ToSet(pending), what)
    BY <1>14 DEF TakeAnswer
  <2>2. pending' = <<>>
        /\ UNCHANGED <<active, waiter, overwritten, parked, resumed, registered, baseline,
                       admission>>
    BY <1>14 DEF TakeAnswer
  <2>3. MessagesKept'
    BY <1>11, <1>12, <1>14, <2>1, <2>2, QueueTaken
  <2> QED
    BY <1>11, <1>12, <1>14, <1>e, <1>s, <2>2, <2>3, AtWork
<1>15. ASSUME turn[t].pc = "interject"
       PROVE  /\ turn[t].hand # <<>> /\ Head(turn[t].hand) \in Msg
              /\ Tail(turn[t].hand) \in Seq(Msg)
              /\ ToSet(turn[t].hand) = {Head(turn[t].hand)} \cup ToSet(Tail(turn[t].hand))
  <2>1. turn[t].hand # <<>>
    BY <1>1, <1>15 DEF HandsFull
  <2> QED
    BY <1>3, <2>1, ToSetParts
<1>16. ASSUME turn[t].pc = "interject", NEW r \in TurnRow, turn' = [turn EXCEPT ![t] = r],
              \A m \in Msg : fate'[m] = "queued" => m \in ToSet(pending'),
              \A m \in Msg : fate'[m] = "held" => /\ fate[m] = "held"
                                                  /\ m \in ToSet(turn[t].hand) => m \in ToSet(r.hand)
       PROVE  MessagesKept'
  <2>1. turn'[t] = r /\ \A u \in Turn \ {t} : turn'[u] = turn[u]
    BY <1>1, <1>16 DEF ChatTypes
  <2>2. ASSUME NEW m \in Msg, fate'[m] = "held" PROVE \E u \in Turn : m \in ToSet(turn'[u].hand)
    <3>1. PICK u \in Turn : m \in ToSet(turn[u].hand)
      BY <1>1, <1>16, <2>2 DEF MessagesKept
    <3>2. CASE u = t
      <4>1. m \in ToSet(r.hand)
        BY <1>16, <2>2, <3>1, <3>2
      <4> QED
        BY <2>1, <3>2, <4>1
    <3>3. CASE u # t
      BY <2>1, <3>1, <3>3
    <3> QED
      BY <3>2, <3>3
  <2> QED
    BY <1>16, <2>2 DEF MessagesKept
<1> DEFINE rest == Tail(turn[t].hand)
           next(pc) == [turn[t] EXCEPT !.hand = rest, !.pc = IF rest = <<>> THEN pc ELSE @]
           none(pc) == [turn[t] EXCEPT !.hand = <<>>, !.pc = pc]
<1>17. ASSUME turn[t].pc = "interject", NEW pc \in {"run", "step", "mission"}
       PROVE  /\ next(pc) \in TurnRow /\ next(pc).by = turn[t].by /\ next(pc).goal = turn[t].goal
              /\ next(pc).resumes = turn[t].resumes /\ next(pc).hand = rest
              /\ next(pc).pc \in Spawned /\ (next(pc).pc = "interject" <=> rest # <<>>)
  <2>1. rest \in Seq(Msg)
    BY <1>15, <1>17
  <2>2. CASE rest = <<>>
    <3> DEFINE r == [turn[t] EXCEPT !.hand = rest, !.pc = pc]
    <3>1. r \in TurnRow /\ r.by = turn[t].by /\ r.goal = turn[t].goal /\ r.resumes = turn[t].resumes
          /\ r.hand = rest /\ r.pc = pc
      BY <1>2, <1>p, <1>s, <2>1 DEF TurnRow
    <3>2. next(pc) = r
      BY <2>2
    <3> HIDE DEF r, next, rest
    <3> QED
      BY <1>s, <2>2, <3>1, <3>2
  <2>3. CASE rest # <<>>
    <3> DEFINE r == [turn[t] EXCEPT !.hand = rest, !.pc = "interject"]
    <3>1. r \in TurnRow /\ r.by = turn[t].by /\ r.goal = turn[t].goal /\ r.resumes = turn[t].resumes
          /\ r.hand = rest /\ r.pc = "interject"
      BY <1>2, <1>p, <1>s, <2>1 DEF TurnRow
    <3>2. next(pc) = r
      BY <1>17, <2>3
    <3> HIDE DEF r, next, rest
    <3> QED
      BY <1>s, <2>3, <3>1, <3>2
  <2> QED
    BY <2>2, <2>3
<1>18. ASSUME turn[t].pc = "interject", NEW pc \in {"run", "step", "mission"}
       PROVE  /\ none(pc) \in TurnRow /\ none(pc).by = turn[t].by /\ none(pc).goal = turn[t].goal
              /\ none(pc).resumes = turn[t].resumes /\ none(pc).hand = <<>>
              /\ none(pc).pc \in Spawned /\ none(pc).pc # "interject"
  BY <1>2, <1>p, <1>s, <1>e DEF TurnRow
<1>19. CASE SeedMessage(t)
  <2>1. PICK pc \in {"run", "step"} : turn' = [turn EXCEPT ![t] = next(pc)]
    <3>1. Admitted(t) \in {"run", "step"}
      BY DEF Admitted
    <3>2. turn' = [turn EXCEPT ![t] = next(Admitted(t))]
      BY <1>19 DEF SeedMessage
    <3> QED
      BY <3>1, <3>2
  <2>2. turn[t].pc = "interject" /\ Settle({Head(turn[t].hand)}, "seeded") /\ pending' = pending
        /\ UNCHANGED <<active, waiter, overwritten, parked, resumed, registered, baseline,
                       admission>>
    BY <1>19 DEF SeedMessage, At
  <2>3. /\ next(pc) \in TurnRow /\ next(pc).by = turn[t].by /\ next(pc).goal = turn[t].goal
        /\ next(pc).resumes = turn[t].resumes /\ next(pc).hand = rest
        /\ next(pc).pc \in Spawned /\ (next(pc).pc = "interject" <=> rest # <<>>)
    BY <1>17, <2>2
  <2>4. ToSet(turn[t].hand) = {Head(turn[t].hand)} \cup ToSet(rest)
    BY <1>15, <2>2
  <2> HIDE DEF next, rest
  <2>5. \A m \in Msg : /\ fate'[m] = "queued" => m \in ToSet(pending')
                       /\ fate'[m] = "held" => /\ fate[m] = "held"
                                               /\ m \in ToSet(turn[t].hand) => m \in ToSet(rest)
    BY <1>1, <2>2, <2>4 DEF Settle, MessagesKept
  <2>6. MessagesKept'
    BY <1>16, <2>1, <2>2, <2>3, <2>5
  <2> QED
    BY <1>2, <1>s, <2>1, <2>2, <2>3, <2>6, AtWork
<1>20. CASE SeedFails(t)
  <2>1. PICK pc \in {"mission", "step"} : turn' = [turn EXCEPT ![t] = none(pc)]
    <3>1. NotAdmitted(t) \in {"mission", "step"}
      BY DEF NotAdmitted
    <3>2. turn' = [turn EXCEPT ![t] = none(NotAdmitted(t))]
      BY <1>20 DEF SeedFails
    <3> QED
      BY <3>1, <3>2
  <2>2. turn[t].pc = "interject" /\ Settle(ToSet(turn[t].hand), "unseeded") /\ pending' = pending
        /\ UNCHANGED <<active, waiter, overwritten, parked, resumed, registered, baseline,
                       admission>>
    BY <1>20 DEF SeedFails, At
  <2>3. /\ none(pc) \in TurnRow /\ none(pc).by = turn[t].by /\ none(pc).goal = turn[t].goal
        /\ none(pc).resumes = turn[t].resumes /\ none(pc).hand = <<>>
        /\ none(pc).pc \in Spawned /\ none(pc).pc # "interject"
    BY <1>18, <2>2
  <2> HIDE DEF none
  <2>5. \A m \in Msg : /\ fate'[m] = "queued" => m \in ToSet(pending')
                       /\ fate'[m] = "held" => fate[m] = "held" /\ m \notin ToSet(turn[t].hand)
    BY <1>1, <2>2 DEF Settle, MessagesKept
  <2>6. MessagesKept'
    BY <1>16, <2>1, <2>2, <2>3, <2>5
  <2> QED
    BY <1>2, <1>s, <2>1, <2>2, <2>3, <2>6, AtWork
<1>21. CASE PutBack(t)
  <2>1. PICK pc \in {"mission", "step"} : turn' = [turn EXCEPT ![t] = next(pc)]
    <3>1. NotAdmitted(t) \in {"mission", "step"}
      BY DEF NotAdmitted
    <3>2. turn' = [turn EXCEPT ![t] = next(NotAdmitted(t))]
      BY <1>21 DEF PutBack
    <3> QED
      BY <3>1, <3>2
  <2>2. turn[t].pc = "interject" /\ Push(Head(turn[t].hand))
        /\ UNCHANGED <<active, waiter, overwritten, parked, resumed, registered, baseline,
                       admission>>
    BY <1>21 DEF PutBack, At
  <2>3. /\ next(pc) \in TurnRow /\ next(pc).by = turn[t].by /\ next(pc).goal = turn[t].goal
        /\ next(pc).resumes = turn[t].resumes /\ next(pc).hand = rest
        /\ next(pc).pc \in Spawned /\ (next(pc).pc = "interject" <=> rest # <<>>)
    BY <1>17, <2>2
  <2>4. ToSet(turn[t].hand) = {Head(turn[t].hand)} \cup ToSet(rest) /\ Head(turn[t].hand) \in Msg
    BY <1>15, <2>2
  <2> HIDE DEF next, rest
  <2>5. /\ pending' \in Seq(Msg) /\ Len(pending') <= PendingMax
        /\ \A m \in Msg : /\ fate'[m] = "queued" => m \in ToSet(pending')
                          /\ fate'[m] = "held" => fate[m] = "held" /\ m # Head(turn[t].hand)
    BY <2>2, <2>4, PushKeeps
  <2>6. MessagesKept'
    BY <1>16, <2>1, <2>2, <2>3, <2>4, <2>5
  <2> QED
    BY <1>s, <2>1, <2>2, <2>3, <2>5, <2>6, AtWork
<1> QED
  BY <1>4, <1>5, <1>7, <1>8, <1>9, <1>10, <1>13, <1>14, <1>19, <1>20, <1>21 DEF Running

\* Where the turns are decides the slot, the registration and the baseline.
LEMMA SamePlaces ==
    ASSUME ChatInv, UNCHANGED <<active, registered, baseline, admission>>,
           \A u \in Turn : turn'[u].pc = turn[u].pc
    PROVE  OneLiveTurn' /\ StopReachesLiveTurn' /\ NoBaselineLeaks'
<1>1. OneLiveTurn /\ StopReachesLiveTurn /\ NoBaselineLeaks
  BY DEF ChatInv
<1>2. \A u \in Turn : Live(u)' <=> Live(u)
  BY DEF Live
<1>3. OneLiveTurn'
  BY <1>1, <1>2 DEF OneLiveTurn
<1>4. StopReachesLiveTurn'
  BY <1>1 DEF StopReachesLiveTurn
<1>5. NoBaselineLeaks'
  BY <1>1 DEF NoBaselineLeaks
<1> QED
  BY <1>3, <1>4, <1>5

\* What became of one message, out of the queue and out of every hand.
LEMMA FateSettled ==
    ASSUME ChatInv, UNCHANGED <<pending, turn>>, NEW S, NEW what, what \notin {"queued", "held"},
           Settle(S, what)
    PROVE  HandsFull' /\ MessagesKept'
<1>1. HandsFull /\ MessagesKept
  BY DEF ChatInv
<1>2. HandsFull'
  BY <1>1 DEF HandsFull
<1>3. ASSUME NEW m \in Msg
      PROVE  fate'[m] \in {"queued", "held"} => fate'[m] = fate[m]
  BY DEF Settle
<1>4. MessagesKept'
  BY <1>1, <1>3 DEF MessagesKept
<1> QED
  BY <1>2, <1>4

\* A message pushed from outside the turns.
LEMMA PushFromOutside ==
    ASSUME ChatInv, UNCHANGED turn, NEW m \in Msg, Push(m)
    PROVE  HandsFull' /\ MessagesKept'
<1>1. HandsFull /\ MessagesKept
  BY DEF ChatInv
<1>2. HandsFull'
  BY <1>1 DEF HandsFull
<1>3. \A x \in Msg : /\ fate'[x] = "queued" => x \in ToSet(pending')
                     /\ fate'[x] = "held" => fate[x] = "held" /\ x # m
  BY PushKeeps
<1>4. MessagesKept'
  BY <1>1, <1>3 DEF MessagesKept
<1> QED
  BY <1>2, <1>4

\* A step of a waiter.
LEMMA WaiterGoesOn ==
    ASSUME ChatInv, NEW w \in Turn, NEW q \in WaiterRow, waiter' = [waiter EXCEPT ![w] = q],
           q.pc \in {"note", "claim", "push"} => q.goal \in Msg,
           q.pc = "note" => q.resumes < ErrorRounds,
           UNCHANGED <<active, turn, registered, baseline, admission>>, overwritten' \in Nat,
           resumed' \in 0..ErrorRounds, parked' \in {parked, NoPark},
           pending' \in Seq(Msg), Len(pending') <= PendingMax,
           \/ /\ overwritten' = overwritten
              /\ Price(q) + ParkCredit(parked') + resumed
                   <= Price(waiter[w]) + ParkCredit(parked) + resumed'
           \/ /\ overwritten' = overwritten + 1
              /\ Price(q) + ParkCredit(parked') + resumed
                   <= Price(waiter[w]) + ParkCredit(parked) + resumed' + ErrorRounds,
           HandsFull', MessagesKept'
    PROVE  ChatInv'
<1>1. ChatTypes
  BY DEF ChatInv
<1>2. resumed \in 0..ErrorRounds /\ NoPark \in ParkRow /\ parked \in ParkRow
  BY <1>1, ChatAssumption DEF ChatTypes, NoPark, ParkRow
<1>3. parked' \in ParkRow /\ (parked' # NoPark => parked'.goal \in Msg)
  BY <1>1, <1>2 DEF ChatTypes
<1>4. ResumesPaid' /\ ResumesBounded'
  BY <1>2, <1>3, WaiterPays
<1>5. OneLiveTurn' /\ StopReachesLiveTurn' /\ NoBaselineLeaks'
  BY SamePlaces
<1>6. waiter' \in [Turn -> WaiterRow] /\ waiter'[w] = q
      /\ \A u \in Turn \ {w} : waiter'[u] = waiter[u]
  BY <1>1 DEF ChatTypes
<1>7. ChatTypes'
  BY <1>1, <1>3, <1>6 DEF ChatTypes
<1> QED
  BY <1>4, <1>5, <1>7 DEF ChatInv

\* A park's waiter up to its claim, and one that is refused.
LEMMA WaitingKeeps ==
    ASSUME ChatInv, NEW w \in Turn,
           CheckPark(w) \/ Probe(w) \/ TakePark(w) \/ NoteResume(w) \/ WaiterRefused(w)
           \/ WaiterPushes(w)
    PROVE  ChatInv'
<1>1. ChatTypes /\ HandsFull /\ MessagesKept
  BY DEF ChatInv
<1>2. /\ waiter[w] \in WaiterRow /\ pending \in Seq(Msg) /\ Len(pending) <= PendingMax
      /\ parked \in ParkRow /\ (parked # NoPark => parked.goal \in Msg)
      /\ resumed \in 0..ErrorRounds /\ overwritten \in Nat /\ ErrorRounds \in Nat
      /\ waiter[w].pc \in {"note", "claim", "push"} => waiter[w].goal \in Msg
      /\ waiter[w].pc = "note" => waiter[w].resumes < ErrorRounds
  BY <1>1, ChatAssumption DEF ChatTypes
<1>3. /\ waiter[w].resumes \in 0..ErrorRounds /\ waiter[w].goal \in Msg \cup {0}
      /\ parked.resumes \in 0..ErrorRounds
  BY <1>2 DEF WaiterRow, ParkRow
<1>4. /\ Price(waiter[w]) \in Nat /\ ParkCredit(parked) \in Nat /\ ParkCredit(NoPark) = 0
      /\ NoWaiter \in WaiterRow /\ NoWaiter.pc = "off" /\ Price(NoWaiter) = 0
  BY <1>2, <1>3 DEF Price, ParkCredit, NoWaiter, WaiterRow
<1>5. ASSUME NEW pc \in {"check", "probe", "take", "note", "claim", "push"}, WaiterGoto(w, pc)
      PROVE  \E q \in WaiterRow : /\ waiter' = [waiter EXCEPT ![w] = q] /\ q.pc = pc
                                  /\ q.goal = waiter[w].goal /\ q.resumes = waiter[w].resumes
  <2> DEFINE q == [waiter[w] EXCEPT !.pc = pc]
  <2>1. q \in WaiterRow /\ q.pc = pc /\ q.goal = waiter[w].goal /\ q.resumes = waiter[w].resumes
    BY <1>2 DEF WaiterRow
  <2>2. waiter' = [waiter EXCEPT ![w] = q]
    BY <1>5 DEF WaiterGoto
  <2> QED
    BY <2>1, <2>2
<1>6. ASSUME waiter' = [waiter EXCEPT ![w] = NoWaiter], parked' \in {parked, NoPark},
             UNCHANGED <<active, turn, registered, baseline, admission, resumed, overwritten>>,
             pending' \in Seq(Msg), Len(pending') <= PendingMax, HandsFull', MessagesKept'
      PROVE  ChatInv'
  <2>1. Price(NoWaiter) + ParkCredit(parked') + resumed
          <= Price(waiter[w]) + ParkCredit(parked) + resumed'
    BY <1>2, <1>4, <1>6
  <2> QED
    BY <1>2, <1>4, <1>6, <2>1, WaiterGoesOn
<1>7. ASSUME UNCHANGED <<pending, turn, fate>> PROVE HandsFull' /\ MessagesKept'
  BY <1>1, <1>7 DEF HandsFull, MessagesKept
<1>8. CASE CheckPark(w) \/ Probe(w)
  <2>u. UNCHANGED <<active, pending, parked, resumed, registered, baseline, admission, turn, fate,
                    overwritten>>
        /\ waiter[w].pc \in {"check", "probe"}
    BY <1>8 DEF CheckPark, Probe
  <2>1. CASE WaiterEnds(w)
    BY <1>2, <1>6, <1>7, <2>1, <2>u DEF WaiterEnds
  <2>2. CASE ~WaiterEnds(w)
    <3>1. PICK pc \in {"check", "probe", "take"} : WaiterGoto(w, pc)
      BY <1>8, <2>2 DEF CheckPark, Probe
    <3>2. PICK q \in WaiterRow : waiter' = [waiter EXCEPT ![w] = q] /\ q.pc = pc
      BY <1>5, <3>1
    <3>3. Price(q) = 0 /\ Price(waiter[w]) = 0
      BY <2>u, <3>2 DEF Price
    <3>4. Price(q) + ParkCredit(parked') + resumed
            <= Price(waiter[w]) + ParkCredit(parked) + resumed'
      BY <1>2, <1>4, <2>u, <3>3
    <3>5. q.pc \notin {"note", "claim", "push"}
      BY <3>2
    <3> QED
      BY <1>2, <1>7, <2>u, <3>2, <3>4, <3>5, WaiterGoesOn
  <2> QED
    BY <2>1, <2>2
<1>9. CASE TakePark(w)
  <2>u. UNCHANGED <<active, pending, resumed, registered, baseline, admission, turn, fate,
                    overwritten>>
        /\ waiter[w].pc = "take" /\ parked' = NoPark
    BY <1>9 DEF TakePark
  <2>1. CASE parked = NoPark \/ parked.resumes >= ErrorRounds
    BY <1>2, <1>6, <1>7, <1>9, <2>1, <2>u DEF TakePark, WaiterEnds
  <2>2. CASE ~(parked = NoPark \/ parked.resumes >= ErrorRounds)
    <3> DEFINE q == [goal |-> parked.goal, pc |-> "note", resumes |-> parked.resumes]
    <3>1. waiter' = [waiter EXCEPT ![w] = q]
      BY <1>9, <2>2 DEF TakePark
    <3>2. q \in WaiterRow /\ q.pc = "note" /\ q.goal \in Msg /\ q.resumes = parked.resumes
          /\ q.resumes < ErrorRounds
      BY <1>2, <1>3, <2>2 DEF WaiterRow
    <3> HIDE DEF q
    <3>3. Price(q) = ParkCredit(parked) /\ Price(waiter[w]) = 0
      BY <2>2, <2>u, <3>2 DEF Price, ParkCredit
    <3>4. Price(q) + ParkCredit(parked') + resumed
            <= Price(waiter[w]) + ParkCredit(parked) + resumed'
      BY <1>2, <1>4, <2>u, <3>3
    <3> QED
      BY <1>2, <1>7, <2>u, <3>1, <3>2, <3>4, WaiterGoesOn
  <2> QED
    BY <2>1, <2>2
<1>10. CASE NoteResume(w)
  <2>u. /\ UNCHANGED <<active, pending, parked, registered, baseline, admission, turn, fate>>
        /\ waiter[w].pc = "note" /\ resumed' = waiter[w].resumes + 1
        /\ overwritten' = IF resumed = 0 THEN overwritten ELSE overwritten + 1
    BY <1>10 DEF NoteResume
  <2>1. PICK q \in WaiterRow : waiter' = [waiter EXCEPT ![w] = q] /\ q.pc = "claim"
                               /\ q.goal = waiter[w].goal
    BY <1>5, <1>10 DEF NoteResume
  <2>2. Price(q) = ErrorRounds + 1 /\ Price(waiter[w]) = ErrorRounds - waiter[w].resumes
    BY <2>u, <2>1 DEF Price
  <2>3. resumed' \in 0..ErrorRounds /\ overwritten' \in Nat /\ q.goal \in Msg
    BY <1>2, <1>3, <2>u, <2>1
  <2>4. \/ /\ overwritten' = overwritten
           /\ Price(q) + ParkCredit(parked') + resumed
                <= Price(waiter[w]) + ParkCredit(parked) + resumed'
        \/ /\ overwritten' = overwritten + 1
           /\ Price(q) + ParkCredit(parked') + resumed
                <= Price(waiter[w]) + ParkCredit(parked) + resumed' + ErrorRounds
    <3>1. ParkCredit(parked') = ParkCredit(parked)
      BY <2>u
    <3> DEFINE c == ParkCredit(parked)
               k == waiter[w].resumes
    <3>2. /\ ParkCredit(parked') = c /\ c \in Nat /\ k \in 0..ErrorRounds /\ resumed' = k + 1
          /\ Price(q) = ErrorRounds + 1 /\ Price(waiter[w]) = ErrorRounds - k
          /\ resumed \in 0..ErrorRounds /\ ErrorRounds \in Nat
      BY <1>2, <1>3, <1>4, <2>u, <2>2, <3>1
    <3> HIDE DEF c, k
    <3>3. CASE resumed = 0
      <4>1. overwritten' = overwritten
        BY <2>u, <3>3
      <4>2. (ErrorRounds + 1) + c + resumed <= (ErrorRounds - k) + c + (k + 1)
        BY <3>2, <3>3
      <4> QED
        BY <3>2, <4>1, <4>2 DEF c
    <3>4. CASE resumed # 0
      <4>1. overwritten' = overwritten + 1
        BY <2>u, <3>4
      <4>2. (ErrorRounds + 1) + c + resumed <= (ErrorRounds - k) + c + (k + 1) + ErrorRounds
        BY <3>2
      <4> QED
        BY <3>2, <4>1, <4>2 DEF c
    <3> QED
      BY <3>3, <3>4
  <2> QED
    BY <1>2, <1>7, <2>u, <2>1, <2>3, <2>4, WaiterGoesOn
<1>11. CASE WaiterRefused(w)
  <2>u. /\ UNCHANGED <<active, pending, parked, resumed, registered, baseline, admission, turn,
                       fate, overwritten>>
        /\ waiter[w].pc = "claim"
    BY <1>11 DEF WaiterRefused
  <2>1. PICK q \in WaiterRow : waiter' = [waiter EXCEPT ![w] = q] /\ q.pc = "push"
                               /\ q.goal = waiter[w].goal
    BY <1>5, <1>11 DEF WaiterRefused
  <2>2. Price(q) = 0
    BY <2>1 DEF Price
  <2>3. Price(q) + ParkCredit(parked') + resumed <= Price(waiter[w]) + ParkCredit(parked) + resumed'
    BY <1>2, <1>4, <2>u, <2>2
  <2> QED
    BY <1>2, <1>7, <2>u, <2>1, <2>3, WaiterGoesOn
<1>12. CASE WaiterPushes(w)
  <2>u. /\ UNCHANGED <<active, parked, resumed, registered, baseline, admission, turn, overwritten>>
        /\ waiter[w].pc = "push" /\ Push(waiter[w].goal)
             /\ waiter' = [waiter EXCEPT ![w] = NoWaiter]
    BY <1>12 DEF WaiterPushes, WaiterEnds
  <2>1. waiter[w].goal \in Msg
    BY <1>2, <2>u
  <2>2. pending' \in Seq(Msg) /\ Len(pending') <= PendingMax
    BY <2>1, <2>u, PushKeeps
  <2>3. HandsFull' /\ MessagesKept'
    BY <2>1, <2>u, PushFromOutside
  <2> QED
    BY <1>6, <2>2, <2>3, <2>u
<1> QED
  BY <1>8, <1>9, <1>10, <1>11, <1>12

\* A turn that claims the slot is the only live one.
LEMMA ClaimedSlot ==
    ASSUME ChatInv, NEW t \in Turn, NEW r \in TurnRow, turn' = [turn EXCEPT ![t] = r],
           turn[t].pc = "none", r.pc = "claimed", r.hand = <<>>, ~active, active' = TRUE
    PROVE  /\ OneLiveTurn' /\ StopReachesLiveTurn' /\ NoBaselineLeaks'
           /\ \A u \in Turn : /\ turn'[u].hand = turn[u].hand
                              /\ turn'[u].pc = "interject" <=> turn[u].pc = "interject"
<1>1. turn \in [Turn -> TurnRow] /\ OneLiveTurn /\ HandsFull
  BY DEF ChatInv, ChatTypes
<1>2. turn'[t] = r /\ \A u \in Turn \ {t} : turn'[u] = turn[u]
  BY <1>1
<1>3. \A u \in Turn \ {t} : ~Live(u) /\ ~Live(u)'
  BY <1>1, <1>2 DEF OneLiveTurn, Live
<1>4. Live(t)'
  BY <1>2 DEF Live
<1>5. OneLiveTurn'
  BY <1>3, <1>4 DEF OneLiveTurn
<1>6. StopReachesLiveTurn'
  <2>1. ASSUME NEW u \in Turn, turn'[u].pc \in Spawned \cup {"count"} PROVE FALSE
    <3>1. Live(u)' /\ u # t
      BY <1>2, <2>1 DEF Live, Spawned
    <3> QED
      BY <1>3, <3>1
  <2> QED
    BY <2>1 DEF StopReachesLiveTurn
<1>7. NoBaselineLeaks'
  BY <1>2 DEF NoBaselineLeaks
<1>8. turn[t].hand = <<>>
  BY <1>1 DEF HandsFull
<1> QED
  BY <1>2, <1>5, <1>6, <1>7, <1>8

\* The row of a turn that has just claimed.
LEMMA ClaimRow ==
    \A who \in {"user", "waiter"}, goal \in Msg :
        LET r == [NoTurn EXCEPT !.pc = "claimed", !.by = who, !.goal = goal]
        IN  /\ r \in TurnRow /\ r.pc = "claimed" /\ r.by = who /\ r.goal = goal /\ r.hand = <<>>
<1>1. <<>> \in Seq(Msg) /\ {} \in SUBSET Msg /\ 0 \in 0..ErrorRounds /\ 0 \in 0..DrainMax
  BY ChatAssumption
<1> QED
  BY <1>1 DEF NoTurn, TurnRow, Pcs

\* A turn that claims may resume as often as the budget says.
LEMMA ClaimCosts ==
    ASSUME turn \in [Turn -> TurnRow], NEW t \in Turn, NEW r \in TurnRow,
           turn' = [turn EXCEPT ![t] = r], turn[t].pc = "none", r.pc = "claimed"
    PROVE  /\ Area(TurnCredit(turn'), ErrorRounds + 1)
                = Area(TurnCredit(turn), ErrorRounds + 1) + ErrorRounds
           /\ Area(TurnCredit(turn), ErrorRounds + 1) \in Nat
           /\ Area(TurnCredit(turn'), ErrorRounds + 1) \in Nat
<1> DEFINE a == Area(TurnCredit(turn), ErrorRounds + 1)
           b == Area(TurnCredit(turn'), ErrorRounds + 1)
<1>1. b = a - Cost(turn[t]) + Cost(r) /\ a \in Nat /\ b \in Nat
  BY TurnArea
<1>2. Cost(turn[t]) = 0 /\ Cost(r) = ErrorRounds /\ ErrorRounds \in Nat
  BY ChatAssumption DEF Cost, Starting, Spawned
<1> HIDE DEF a, b
<1>3. b = a + ErrorRounds /\ a \in Nat /\ b \in Nat
  BY <1>1, <1>2
<1> QED
  BY <1>3 DEF a, b

\* A turn of the user brings a budget of its own.
LEMMA UserClaims == ASSUME ChatInv, NEW m \in Msg, HandlerClaims(m) PROVE ChatInv'
<1>1. ChatTypes /\ HandsFull /\ MessagesKept
  BY DEF ChatInv
<1>2. PICK t \in Turn : Claim(t, "user", m)
  BY DEF HandlerClaims
<1>u. UNCHANGED <<pending, parked, resumed, registered, baseline, admission, waiter, overwritten>>
      /\ Settle({m}, "own")
  BY DEF HandlerClaims
<1> DEFINE r == [NoTurn EXCEPT !.pc = "claimed", !.by = "user", !.goal = m]
<1>r. r \in TurnRow /\ r.pc = "claimed" /\ r.by = "user" /\ r.goal = m /\ r.hand = <<>>
  BY ClaimRow
<1>s. turn' = [turn EXCEPT ![t] = r] /\ turn[t].pc = "none" /\ ~active /\ active' = TRUE
  BY <1>2 DEF Claim, NextTurn, At
<1> HIDE DEF r
<1>3. /\ r \in TurnRow /\ turn' = [turn EXCEPT ![t] = r] /\ turn[t].pc = "none"
      /\ ~active /\ active' = TRUE
      /\ r.pc = "claimed" /\ r.by = "user" /\ r.goal = m /\ r.hand = <<>>
  BY <1>r, <1>s
<1>4. /\ OneLiveTurn' /\ StopReachesLiveTurn' /\ NoBaselineLeaks'
      /\ \A u \in Turn : /\ turn'[u].hand = turn[u].hand
                         /\ turn'[u].pc = "interject" <=> turn[u].pc = "interject"
  BY <1>3, ClaimedSlot
<1>5. turn \in [Turn -> TurnRow] /\ turn' \in [Turn -> TurnRow] /\ turn'[t] = r
      /\ \A u \in Turn \ {t} : turn'[u] = turn[u]
  BY <1>1, <1>3 DEF ChatTypes
<1>6. HandsFull'
  BY <1>1, <1>4 DEF HandsFull
<1>7. MessagesKept'
  <2>1. ASSUME NEW x \in Msg, fate'[x] \in {"queued", "held"} PROVE fate[x] = fate'[x]
    BY <1>u, <2>1 DEF Settle
  <2> QED
    BY <1>1, <1>4, <1>u, <2>1 DEF MessagesKept
<1>8. ChatTypes'
  BY <1>1, <1>3, <1>5, <1>u DEF ChatTypes
<1>9. ResumesPaid' /\ ResumesBounded'
  <2> DEFINE a == Area(TurnCredit(turn), ErrorRounds + 1)
             b == Area(TurnCredit(turn'), ErrorRounds + 1)
             w == Area(WaiterCredit(waiter), ErrorRounds + 1)
             n == Cardinality(ByWaiter(turn))
             k == Cardinality(ByUser(turn)) + overwritten
             p == ParkCredit(parked)
  <2>1. b = a + ErrorRounds /\ a \in Nat /\ b \in Nat
    BY <1>3, <1>5, ClaimCosts, ChatAssumption
  <2>2. w \in Nat /\ p \in Nat
    <3>1. waiter[t] \in WaiterRow /\ waiter \in [Turn -> WaiterRow] /\ parked \in ParkRow
      BY <1>1 DEF ChatTypes
    <3> QED
      BY <3>1, WaiterArea, CreditTyped, ChatAssumption
  <2>3. ByUser(turn') = ByUser(turn) \cup {t} /\ t \notin ByUser(turn)
    BY <1>3, <1>5 DEF ByUser
  <2>4. ByWaiter(turn') \in SUBSET ByWaiter(turn)
    BY <1>3, <1>5 DEF ByWaiter
  <2>5. Cardinality(ByUser(turn')) + overwritten' = k + 1 /\ k \in Nat
    <3>1. IsFiniteSet(ByUser(turn)) /\ Cardinality(ByUser(turn)) \in Nat /\ overwritten \in Nat
      BY <1>1, CountsFinite DEF ChatTypes
    <3>2. Cardinality(ByUser(turn) \cup {t}) = Cardinality(ByUser(turn)) + 1
      BY <2>3, <3>1, FS_AddElement
    <3> QED
      BY <1>u, <2>3, <3>1, <3>2
  <2>6. Cardinality(ByWaiter(turn')) <= n /\ n \in Nat /\ Cardinality(ByWaiter(turn')) \in Nat
    BY <2>4, CountsFinite, FS_Subset
  <2>7. ErrorRounds * (k + 1) = ErrorRounds * k + ErrorRounds /\ ErrorRounds * k \in Nat
        /\ ErrorRounds \in Nat
    BY <2>5, BudgetGrows, ChatAssumption
  <2>8. n + (a + w + p) <= ErrorRounds * k + resumed /\ n <= ErrorRounds * k /\ resumed \in Nat
    BY <1>1, ResumesAre DEF ChatInv, ResumesPaid, Credit, Paid, ChatTypes
  <2>9. Paid(turn', overwritten') = ErrorRounds * (k + 1)
    BY <2>5 DEF Paid
  <2>10. w = Area(WaiterCredit(waiter'), ErrorRounds + 1) /\ p = ParkCredit(parked')
         /\ resumed' = resumed
    BY <1>u
  <2> DEFINE j == Cardinality(ByWaiter(turn'))
             l == Paid(turn', overwritten')
  <2> HIDE DEF a, b, w, n, k, p, j, l
  <2>11. j + (b + w + p) <= l + resumed /\ j <= l
    BY <2>1, <2>2, <2>5, <2>6, <2>7, <2>8, <2>9 DEF j, l
  <2>12. ResumesPaid'
    BY <2>10, <2>11 DEF ResumesPaid, Credit, j, b, l
  <2>13. ResumesBounded'
    BY <2>11 DEF ResumesBounded, Resumes, UserTurns, ByWaiter, ByUser, Paid, At, j, l
  <2> QED
    BY <2>12, <2>13
<1> QED
  BY <1>4, <1>6, <1>7, <1>8, <1>9 DEF ChatInv

\* A resume is paid for by the waiter that claims.
LEMMA ResumeClaims == ASSUME ChatInv, NEW v \in Turn, WaiterClaims(v) PROVE ChatInv'
<1>1. ChatTypes /\ HandsFull /\ MessagesKept
  BY DEF ChatInv
<1>v. waiter[v] \in WaiterRow /\ waiter[v].pc = "claim" /\ waiter[v].goal \in Msg
  BY <1>1 DEF WaiterClaims, ChatTypes
<1>2. PICK t \in Turn : Claim(t, "waiter", waiter[v].goal)
  BY DEF WaiterClaims
<1>u. UNCHANGED <<pending, parked, resumed, registered, baseline, admission, overwritten>>
      /\ Settle({waiter[v].goal}, "own") /\ waiter' = [waiter EXCEPT ![v] = NoWaiter]
  BY DEF WaiterClaims, WaiterEnds
<1> DEFINE r == [NoTurn EXCEPT !.pc = "claimed", !.by = "waiter", !.goal = waiter[v].goal]
<1>r. r \in TurnRow /\ r.pc = "claimed" /\ r.by = "waiter" /\ r.goal \in Msg /\ r.hand = <<>>
  BY <1>v, ClaimRow
<1>s. turn' = [turn EXCEPT ![t] = r] /\ turn[t].pc = "none" /\ ~active /\ active' = TRUE
  BY <1>2 DEF Claim, NextTurn, At
<1> HIDE DEF r
<1>3. /\ r \in TurnRow /\ turn' = [turn EXCEPT ![t] = r] /\ turn[t].pc = "none"
      /\ ~active /\ active' = TRUE
      /\ r.pc = "claimed" /\ r.by = "waiter" /\ r.goal \in Msg /\ r.hand = <<>>
  BY <1>r, <1>s
<1>4. /\ OneLiveTurn' /\ StopReachesLiveTurn' /\ NoBaselineLeaks'
      /\ \A u \in Turn : /\ turn'[u].hand = turn[u].hand
                         /\ turn'[u].pc = "interject" <=> turn[u].pc = "interject"
  BY <1>3, ClaimedSlot
<1>5. turn \in [Turn -> TurnRow] /\ turn' \in [Turn -> TurnRow] /\ turn'[t] = r
      /\ \A u \in Turn \ {t} : turn'[u] = turn[u]
  BY <1>1, <1>3 DEF ChatTypes
<1>6. HandsFull'
  BY <1>1, <1>4 DEF HandsFull
<1>7. MessagesKept'
  <2>1. ASSUME NEW x \in Msg, fate'[x] \in {"queued", "held"} PROVE fate[x] = fate'[x]
    BY <1>u, <2>1 DEF Settle
  <2> QED
    BY <1>1, <1>4, <1>u, <2>1 DEF MessagesKept
<1>n. NoWaiter \in WaiterRow /\ NoWaiter.pc = "off" /\ Price(NoWaiter) = 0
  BY ChatAssumption DEF NoWaiter, WaiterRow, Price
<1>w. waiter' \in [Turn -> WaiterRow] /\ waiter'[v] = NoWaiter
      /\ \A u \in Turn \ {v} : waiter'[u] = waiter[u]
  BY <1>1, <1>u, <1>n DEF ChatTypes
<1>8. ChatTypes'
  BY <1>1, <1>3, <1>5, <1>u, <1>n, <1>w DEF ChatTypes
<1>9. ResumesPaid' /\ ResumesBounded'
  <2> DEFINE a == Area(TurnCredit(turn), ErrorRounds + 1)
             b == Area(TurnCredit(turn'), ErrorRounds + 1)
             x == Area(WaiterCredit(waiter), ErrorRounds + 1)
             y == Area(WaiterCredit(waiter'), ErrorRounds + 1)
             n == Cardinality(ByWaiter(turn))
             j == Cardinality(ByWaiter(turn'))
             m == Paid(turn, overwritten)
             p == ParkCredit(parked)
  <2>1. b = a + ErrorRounds /\ a \in Nat /\ b \in Nat /\ ErrorRounds \in Nat
    BY <1>3, <1>5, ClaimCosts, ChatAssumption
  <2>2. x = y + (ErrorRounds + 1) /\ x \in Nat /\ y \in Nat
    <3>1. y = x - Price(waiter[v]) + Price(NoWaiter) /\ x \in Nat /\ y \in Nat
      BY <1>1, <1>u, <1>n, WaiterArea DEF ChatTypes
    <3>2. Price(waiter[v]) = ErrorRounds + 1
      BY <1>v DEF Price
    <3> QED
      BY <1>n, <2>1, <3>1, <3>2
  <2>3. p \in Nat
    BY <1>1, CreditTyped, ChatAssumption DEF ChatTypes
  <2>4. ByUser(turn') = ByUser(turn) /\ ByWaiter(turn') = ByWaiter(turn) \cup {t}
    BY <1>3, <1>5 DEF ByUser, ByWaiter
  <2>5. j <= n + 1 /\ n \in Nat /\ j \in Nat
    <3>1. IsFiniteSet(ByWaiter(turn)) /\ n \in Nat /\ j \in Nat
      BY CountsFinite
    <3>2. Cardinality(ByWaiter(turn) \cup {t}) <= n + 1
      BY <3>1, FS_AddElement
    <3> QED
      BY <2>4, <3>1, <3>2
  <2>6. m = Paid(turn', overwritten') /\ m \in Nat
    <3>1. m = Paid(turn', overwritten')
      BY <1>u, <2>4 DEF Paid
    <3>2. Cardinality(ByUser(turn)) + overwritten \in Nat
      BY <1>1, CountsFinite DEF ChatTypes
    <3> QED
      BY <3>1, <3>2, BudgetGrows DEF Paid
  <2>7. n + (a + x + p) <= m + resumed /\ n <= m /\ resumed \in 0..ErrorRounds
    BY <1>1, ResumesAre DEF ChatInv, ResumesPaid, Credit, ChatTypes
  <2>8. p = ParkCredit(parked') /\ resumed' = resumed
    BY <1>u
  <2> HIDE DEF a, b, x, y, n, j, m, p
  <2>9. j + (b + y + p) <= m + resumed /\ j <= m
    BY <2>1, <2>2, <2>3, <2>5, <2>6, <2>7
  <2>10. ResumesPaid'
    BY <2>6, <2>8, <2>9 DEF ResumesPaid, Credit, j, b, y
  <2>11. ResumesBounded'
    BY <2>6, <2>9 DEF ResumesBounded, Resumes, UserTurns, ByWaiter, ByUser, Paid, At, j
  <2> QED
    BY <2>10, <2>11
<1> QED
  BY <1>4, <1>6, <1>7, <1>8, <1>9 DEF ChatInv

\* Who turns are, where they are and what they took over keep the books as they are.
LEMMA SameBooks ==
    ASSUME ChatInv, UNCHANGED <<waiter, parked, resumed, overwritten>>,
           \A u \in Turn : /\ turn'[u].pc = turn[u].pc /\ turn'[u].by = turn[u].by
                           /\ turn'[u].resumes = turn[u].resumes
    PROVE  ResumesPaid' /\ ResumesBounded'
<1>1. ByWaiter(turn') = ByWaiter(turn) /\ ByUser(turn') = ByUser(turn)
  BY DEF ByWaiter, ByUser
<1>2. TurnCredit(turn') = TurnCredit(turn)
  BY DEF TurnCredit
<1>3. Credit(turn', waiter', parked') = Credit(turn, waiter, parked)
      /\ Paid(turn', overwritten') = Paid(turn, overwritten)
  BY <1>1, <1>2 DEF Credit, Paid
<1>4. ResumesPaid'
  BY <1>1, <1>3 DEF ChatInv, ResumesPaid
<1>5. Cardinality(ByWaiter(turn')) <= Paid(turn', overwritten')
  BY <1>1, <1>3, ResumesAre DEF ChatInv
<1>6. ResumesBounded'
  BY <1>5 DEF ResumesBounded, Resumes, UserTurns, ByWaiter, ByUser, Paid, At
<1> QED
  BY <1>4, <1>6

\* A message on its way to the turn that has the slot.
LEMMA MessageKeeps ==
    ASSUME ChatInv, NEW m \in Msg, SendMessage(m) \/ HandlerRefused(m) \/ HandlerPushes(m)
    PROVE  ChatInv'
<1>1. ChatTypes
  BY DEF ChatInv
<1>2. UNCHANGED <<active, parked, resumed, registered, baseline, admission, turn, waiter,
                  overwritten>>
  BY DEF SendMessage, HandlerRefused, HandlerPushes
<1>3. OneLiveTurn' /\ StopReachesLiveTurn' /\ NoBaselineLeaks' /\ ResumesPaid' /\ ResumesBounded'
  BY <1>2, SamePlaces, SameBooks
<1>4. HandsFull' /\ MessagesKept' /\ pending' \in Seq(Msg) /\ Len(pending') <= PendingMax
  <2>1. CASE SendMessage(m)
    <3>1. Settle({m}, "sent") /\ pending' = pending
      BY <2>1 DEF SendMessage
    <3> QED
      BY <1>1, <1>2, <3>1, FateSettled DEF ChatTypes
  <2>2. CASE HandlerRefused(m)
    <3>1. UNCHANGED <<pending, fate>>
      BY <2>2 DEF HandlerRefused
    <3> QED
      BY <1>1, <1>2, <3>1 DEF ChatInv, ChatTypes, HandsFull, MessagesKept
  <2>3. CASE HandlerPushes(m)
    <3>1. Push(m)
      BY <2>3 DEF HandlerPushes
    <3> QED
      BY <1>2, <3>1, PushKeeps, PushFromOutside
  <2> QED
    BY <2>1, <2>2, <2>3
<1>5. ChatTypes'
  BY <1>1, <1>2, <1>4 DEF ChatTypes
<1> QED
  BY <1>3, <1>4, <1>5 DEF ChatInv

\* The Stop button.
LEMMA StopKeeps == ASSUME ChatInv, Stop PROVE ChatInv'
<1>1. ChatTypes
  BY DEF ChatInv
<1>2. registered \in Turn /\ turn[registered] \in TurnRow
  BY <1>1 DEF Stop, ChatTypes
<1> DEFINE r == [turn[registered] EXCEPT !.cancelled = TRUE]
<1>3. r \in TurnRow /\ r.pc = turn[registered].pc /\ r.by = turn[registered].by
      /\ r.resumes = turn[registered].resumes /\ r.hand = turn[registered].hand
      /\ r.goal = turn[registered].goal
  BY <1>2 DEF TurnRow
<1>4. turn' = [turn EXCEPT ![registered] = r]
      /\ UNCHANGED <<active, pending, parked, resumed, registered, baseline, admission, waiter,
                     fate, overwritten>>
  BY DEF Stop
<1> HIDE DEF r
<1>5. turn' \in [Turn -> TurnRow]
      /\ \A u \in Turn : /\ turn'[u].pc = turn[u].pc /\ turn'[u].by = turn[u].by
                         /\ turn'[u].resumes = turn[u].resumes /\ turn'[u].hand = turn[u].hand
                         /\ turn'[u].goal = turn[u].goal
  BY <1>1, <1>2, <1>3, <1>4 DEF ChatTypes
<1>6. OneLiveTurn' /\ StopReachesLiveTurn' /\ NoBaselineLeaks' /\ ResumesPaid' /\ ResumesBounded'
  BY <1>4, <1>5, SamePlaces, SameBooks
<1>7. HandsFull' /\ MessagesKept'
  BY <1>4, <1>5, MessagesStay
<1>8. ChatTypes'
  BY <1>1, <1>4, <1>5 DEF ChatTypes
<1> QED
  BY <1>6, <1>7, <1>8 DEF ChatInv

\* What is left of a turn that is over, or that died.
LEMMA EndedRow ==
    ASSUME ChatTypes, NEW t \in Turn, NEW pc \in Pcs, Ended(t, pc)
    PROVE  \E r \in TurnRow :
             /\ turn' = [turn EXCEPT ![t] = r] /\ r.pc = pc /\ r.by = turn[t].by /\ r.hand = <<>>
<1> DEFINE r == [NoTurn EXCEPT !.pc = pc, !.by = turn[t].by, !.resumes = turn[t].resumes]
<1>1. <<>> \in Seq(Msg) /\ {} \in SUBSET Msg /\ 0 \in 0..DrainMax
  BY ChatAssumption
<1>2. turn[t].by \in {"user", "waiter"} /\ turn[t].resumes \in 0..ErrorRounds
  BY DEF ChatTypes, TurnRow
<1>3. r \in TurnRow /\ r.pc = pc /\ r.by = turn[t].by /\ r.hand = <<>>
  BY <1>1, <1>2 DEF NoTurn, TurnRow
<1>4. turn' = [turn EXCEPT ![t] = r]
  BY DEF Ended
<1> QED
  BY <1>3, <1>4

\* A turn that panics takes what it has in hand with it.
LEMMA PanicKeeps == ASSUME ChatInv, NEW t \in Turn, Panic(t) PROVE ChatInv'
<1>1. ChatTypes /\ HandsFull /\ MessagesKept
  BY DEF ChatInv
<1>2. /\ turn[t].pc \in Spawned /\ Ended(t, "dead") /\ Settle(ToSet(turn[t].hand), "crashed")
      /\ UNCHANGED <<active, pending, parked, resumed, registered, baseline, admission, waiter,
                     overwritten>>
  BY DEF Panic
<1>3. PICK r \in TurnRow : turn' = [turn EXCEPT ![t] = r] /\ r.pc = "dead" /\ r.by = turn[t].by
      /\ r.hand = <<>>
  BY <1>1, <1>2, EndedRow DEF Pcs
<1>4. turn'[t] = r /\ \A u \in Turn \ {t} : turn'[u] = turn[u]
  BY <1>1, <1>3 DEF ChatTypes
<1>5. HandsFull'
  BY <1>1, <1>3, <1>4 DEF HandsFull
<1>6. MessagesKept'
  <2>1. ASSUME NEW m \in Msg, fate'[m] = "queued" PROVE m \in ToSet(pending')
    BY <1>1, <1>2, <2>1 DEF MessagesKept, Settle
  <2>2. ASSUME NEW m \in Msg, fate'[m] = "held" PROVE \E u \in Turn : m \in ToSet(turn'[u].hand)
    <3>1. fate[m] = "held" /\ m \notin ToSet(turn[t].hand)
      BY <1>2, <2>2 DEF Settle
    <3>2. PICK u \in Turn : m \in ToSet(turn[u].hand)
      BY <1>1, <3>1 DEF MessagesKept
    <3> QED
      BY <1>4, <3>1, <3>2
  <2> QED
    BY <2>1, <2>2 DEF MessagesKept
<1>7. Live(t) /\ TypicalTurn(r) /\ r.pc \notin Spawned \cup {"count"}
  BY <1>2, <1>3 DEF Live, Spawned, TypicalTurn
<1>8. Cost(r) + resumed <= Cost(turn[t]) + resumed' /\ resumed' \in 0..ErrorRounds
  <2>1. Cost(r) = 0 /\ Cost(turn[t]) \in Nat
    <3>1. turn[t].resumes \in 0..ErrorRounds /\ ErrorRounds \in Nat
      BY <1>1, ChatAssumption DEF ChatTypes, TurnRow
    <3> QED
      BY <1>3, <3>1 DEF Cost, Starting, Spawned
  <2>2. resumed' = resumed /\ resumed \in 0..ErrorRounds
    BY <1>1, <1>2 DEF ChatTypes
  <2> QED
    BY <2>1, <2>2
<1>9. {registered', baseline', admission'} \subseteq Turn \cup {0} /\ pending' \in Seq(Msg)
      /\ Len(pending') <= PendingMax /\ parked' \in {parked, NoPark}
  BY <1>1, <1>2 DEF ChatTypes
<1> QED
  BY <1>2, <1>3, <1>5, <1>6, <1>7, <1>8, <1>9, TurnGoesOn

\* A turn that parks hands what it may still cost to the park.
LEMMA ParkPays ==
    ASSUME ChatInv, NEW t \in Turn, NEW r \in TurnRow, NEW q \in WaiterRow,
           turn' = [turn EXCEPT ![t] = r], waiter' = [waiter EXCEPT ![t] = q],
           r.by = turn[t].by, r.pc # "none", turn[t].pc # "none",
           UNCHANGED <<overwritten, resumed>>, parked' \in ParkRow, Price(q) = 0,
           Cost(r) + ParkCredit(parked') <= Cost(turn[t])
    PROVE  ResumesPaid' /\ ResumesBounded'
<1>1. turn \in [Turn -> TurnRow] /\ waiter \in [Turn -> WaiterRow] /\ overwritten \in Nat
      /\ parked \in ParkRow /\ resumed \in 0..ErrorRounds
  BY DEF ChatInv, ChatTypes
<1>2. ByWaiter(turn') = ByWaiter(turn) /\ ByUser(turn') = ByUser(turn)
  BY <1>1, SameCounts
<1> DEFINE a == Area(TurnCredit(turn), ErrorRounds + 1)
           b == Area(TurnCredit(turn'), ErrorRounds + 1)
           v == Area(WaiterCredit(waiter), ErrorRounds + 1)
           u == Area(WaiterCredit(waiter'), ErrorRounds + 1)
           n == Cardinality(ByWaiter(turn))
           m == Paid(turn, overwritten)
<1>3. b = a - Cost(turn[t]) + Cost(r) /\ a \in Nat /\ b \in Nat /\ Cost(turn[t]) \in Nat
      /\ Cost(r) \in Nat
  BY <1>1, TurnArea
<1>4. u = v - Price(waiter[t]) + Price(q) /\ u \in Nat /\ v \in Nat /\ Price(waiter[t]) \in Nat
  BY <1>1, WaiterArea
<1>5. n \in Nat /\ m \in Nat
  BY <1>1, CountsFinite, ChatAssumption DEF Paid
<1>6. ParkCredit(parked) \in Nat /\ ParkCredit(parked') \in Nat
  BY <1>1, CreditTyped, ChatAssumption
<1>7. n + (a + v + ParkCredit(parked)) <= m + resumed /\ n <= m
  BY ResumesAre DEF ChatInv, ResumesPaid, Credit
<1>8. resumed \in Nat
  BY <1>1
<1> HIDE DEF a, b, v, u, n, m
<1>9. n + (b + u + ParkCredit(parked')) <= m + resumed
  BY <1>3, <1>4, <1>5, <1>6, <1>7, <1>8
<1>10. Cardinality(ByWaiter(turn')) = n /\ Paid(turn', overwritten') = m /\ resumed' = resumed
  BY <1>2 DEF n, m, Paid
<1>11. ResumesPaid'
  BY <1>9, <1>10 DEF ResumesPaid, Credit, b, u
<1>12. ResumesBounded'
  BY <1>7, <1>10, ResumesAre DEF ResumesBounded, Resumes, UserTurns, ByWaiter, ByUser, Paid, At
<1> QED
  BY <1>11, <1>12

\* A turn parks on an outage: it still holds the slot.
LEMMA ParkKeeps == ASSUME ChatInv, NEW t \in Turn, Park(t) PROVE ChatInv'
<1>1. ChatTypes /\ StopReachesLiveTurn
  BY DEF ChatInv
<1>2. /\ turn[t].pc = "mission" /\ Goto(t, "tail")
      /\ parked' = [goal |-> turn[t].goal, resumes |-> turn[t].resumes]
      /\ waiter' = [waiter EXCEPT ![t] = [NoWaiter EXCEPT !.pc = "check"]]
      /\ UNCHANGED <<active, pending, resumed, registered, baseline, admission, fate, overwritten>>
  BY DEF Park, At
<1>3. PICK r \in TurnRow :
         /\ turn' = [turn EXCEPT ![t] = r] /\ r.pc = "tail" /\ r.by = turn[t].by
         /\ r.hand = turn[t].hand
  BY <1>1, <1>2, GotoRow DEF Pcs, Spawned
<1>4. turn[t].goal \in Msg /\ turn[t].resumes \in 0..ErrorRounds
  BY <1>1, <1>2 DEF ChatTypes, TurnRow, Spawned
<1> DEFINE q == [NoWaiter EXCEPT !.pc = "check"]
<1>5. q \in WaiterRow /\ q.pc = "check" /\ Price(q) = 0
  BY ChatAssumption DEF NoWaiter, WaiterRow, Price
<1>6. waiter' = [waiter EXCEPT ![t] = q]
  BY <1>2
<1> HIDE DEF q
<1>7. parked' \in ParkRow /\ parked'.goal \in Msg /\ parked'.resumes = turn[t].resumes
  BY <1>2, <1>4 DEF ParkRow
<1>8. Cost(r) + ParkCredit(parked') <= Cost(turn[t])
  <2>1. Cost(r) = 0 /\ Cost(turn[t]) = ErrorRounds - turn[t].resumes
    BY <1>2, <1>3 DEF Cost, Starting, Spawned
  <2>2. ParkCredit(parked') \in {0, ErrorRounds - turn[t].resumes}
    BY <1>7 DEF ParkCredit
  <2> QED
    BY <1>4, <2>1, <2>2, ChatAssumption
<1>9. ResumesPaid' /\ ResumesBounded'
  BY <1>2, <1>3, <1>5, <1>6, <1>7, <1>8, ParkPays
<1>10. OneLiveTurn' /\ StopReachesLiveTurn' /\ NoBaselineLeaks'
  <2>1. Live(t) /\ registered' = t
    BY <1>1, <1>2 DEF Live, StopReachesLiveTurn, Spawned
  <2> QED
    BY <1>2, <1>3, <2>1, LiveMoves
<1>11. turn' \in [Turn -> TurnRow] /\ turn'[t] = r /\ \A u \in Turn \ {t} : turn'[u] = turn[u]
  BY <1>1, <1>3 DEF ChatTypes
<1>12. HandsFull' /\ MessagesKept'
  <2>1. \A u \in Turn : /\ turn'[u].hand = turn[u].hand
                        /\ turn'[u].pc = "interject" <=> turn[u].pc = "interject"
    BY <1>2, <1>3, <1>11
  <2> QED
    BY <1>2, <1>11, <2>1, MessagesStay
<1>13. waiter' \in [Turn -> WaiterRow] /\ waiter'[t] = q
       /\ \A u \in Turn \ {t} : waiter'[u] = waiter[u]
  BY <1>1, <1>5, <1>6 DEF ChatTypes
<1>14. ChatTypes'
  <2>1. r.pc \notin (Spawned \ {"tail"}) \cup {"claimed", "register", "count"}
    BY <1>3 DEF Spawned
  <2> QED
    BY <1>1, <1>2, <1>5, <1>7, <1>11, <1>13, <2>1 DEF ChatTypes
<1> QED
  BY <1>9, <1>10, <1>12, <1>14 DEF ChatInv

\* A turn that has nothing more to do with the session's slot.
LEMMA TurnRests ==
    ASSUME ChatInv, NEW t \in Turn, NEW r \in TurnRow, turn' = [turn EXCEPT ![t] = r],
           r.by = turn[t].by, r.hand = <<>>, turn[t].pc \in {"release", "close"},
           r.pc \in {"close", "done"},
           UNCHANGED <<pending, parked, resumed, waiter, fate, overwritten>>,
           active' \in BOOLEAN, {registered', baseline', admission'} \subseteq Turn \cup {0}
    PROVE  /\ ChatTypes' /\ HandsFull' /\ MessagesKept' /\ ResumesPaid' /\ ResumesBounded'
<1>1. ChatTypes /\ HandsFull
  BY DEF ChatInv
<1>2. turn' \in [Turn -> TurnRow] /\ turn'[t] = r /\ \A u \in Turn \ {t} : turn'[u] = turn[u]
  BY <1>1 DEF ChatTypes
<1>3. HandsFull' /\ MessagesKept'
  <2>1. turn[t].hand = <<>>
    BY <1>1 DEF HandsFull
  <2>2. \A u \in Turn : /\ turn'[u].hand = turn[u].hand
                        /\ turn'[u].pc = "interject" <=> turn[u].pc = "interject"
    BY <1>2, <2>1
  <2> QED
    BY <1>2, <2>2, MessagesStay
<1>4. ResumesPaid' /\ ResumesBounded'
  <2>1. Cost(r) = 0 /\ Cost(turn[t]) = 0
    BY DEF Cost, Starting, Spawned
  <2>2. resumed \in 0..ErrorRounds /\ parked \in ParkRow
    BY <1>1 DEF ChatTypes
  <2>3. ParkCredit(parked) \in Nat
    BY <2>2, CreditTyped, ChatAssumption
  <2>4. Cost(r) + resumed <= Cost(turn[t]) + resumed' /\ ParkCredit(parked') <= ParkCredit(parked)
        /\ resumed' \in 0..ErrorRounds /\ parked' \in ParkRow
    BY <2>1, <2>2, <2>3
  <2> QED
    BY <2>2, <2>4, TurnPays
<1>5. ChatTypes'
  <2>1. r.pc \notin (Spawned \ {"tail"}) \cup {"claimed", "register", "count"}
    BY DEF Spawned
  <2> QED
    BY <1>1, <1>2, <2>1 DEF ChatTypes
<1> QED
  BY <1>3, <1>4, <1>5

\* The release tail.
LEMMA ClosingKeeps ==
    ASSUME ChatInv, NEW t \in Turn, Unregister(t) \/ Release(t) \/ CloseBaseline(t)
    PROVE  ChatInv'
<1>1. ChatTypes /\ HandsFull /\ OneLiveTurn /\ StopReachesLiveTurn
  BY DEF ChatInv
<1>2. {registered, baseline, admission} \subseteq Turn \cup {0} /\ turn \in [Turn -> TurnRow]
  BY <1>1 DEF ChatTypes
<1>3. CASE Unregister(t)
  <2>1. /\ turn[t].pc \in {"tail", "dead"} /\ registered' = 0 /\ Ended(t, "release")
        /\ UNCHANGED <<active, pending, parked, resumed, baseline, admission, waiter, fate,
                       overwritten>>
    BY <1>3 DEF Unregister
  <2>2. PICK r \in TurnRow : turn' = [turn EXCEPT ![t] = r] /\ r.pc = "release" /\ r.by = turn[t].by
                             /\ r.hand = <<>>
    BY <1>1, <2>1, EndedRow DEF Pcs
  <2>3. turn' \in [Turn -> TurnRow] /\ turn'[t] = r /\ \A u \in Turn \ {t} : turn'[u] = turn[u]
    BY <1>2, <2>2
  <2>4. HandsFull' /\ MessagesKept'
    <3>1. turn[t].hand = <<>>
      BY <1>1, <2>1 DEF HandsFull
    <3>2. \A u \in Turn : /\ turn'[u].hand = turn[u].hand
                          /\ turn'[u].pc = "interject" <=> turn[u].pc = "interject"
      BY <2>1, <2>2, <2>3, <3>1
    <3> QED
      BY <2>1, <2>3, <3>2, MessagesStay
  <2>5. Live(t) /\ TypicalTurn(r) /\ r.pc \notin Spawned \cup {"count"}
        /\ r.pc \notin {"none", "close", "done"}
    BY <2>1, <2>2 DEF Live, Spawned, TypicalTurn
  <2>6. Cost(r) + resumed <= Cost(turn[t]) + resumed' /\ resumed' \in 0..ErrorRounds
    <3>1. Cost(r) = 0 /\ Cost(turn[t]) = 0
      BY <2>1, <2>2 DEF Cost, Starting, Spawned
    <3>2. resumed' = resumed /\ resumed \in 0..ErrorRounds
      BY <1>1, <2>1 DEF ChatTypes
    <3> QED
      BY <3>1, <3>2
  <2>7. {registered', baseline', admission'} \subseteq Turn \cup {0} /\ pending' \in Seq(Msg)
        /\ Len(pending') <= PendingMax /\ parked' \in {parked, NoPark}
    BY <1>1, <2>1 DEF ChatTypes
  <2> QED
    BY <2>1, <2>2, <2>4, <2>5, <2>6, <2>7, TurnGoesOn
<1>4. CASE Release(t)
  <2>1. /\ turn[t].pc = "release" /\ active' = FALSE /\ Goto(t, "close")
        /\ UNCHANGED <<pending, parked, resumed, registered, baseline, admission, waiter, fate,
                       overwritten>>
    BY <1>4 DEF Release, At
  <2>2. PICK r \in TurnRow : turn' = [turn EXCEPT ![t] = r] /\ r.pc = "close" /\ r.by = turn[t].by
                             /\ r.hand = turn[t].hand
    BY <1>1, <2>1, GotoRow DEF Pcs
  <2>3. r.hand = <<>>
    BY <1>1, <2>1, <2>2 DEF HandsFull
  <2>4. turn'[t] = r /\ \A u \in Turn \ {t} : turn'[u] = turn[u]
    BY <1>2, <2>2
  <2>5. ChatTypes' /\ HandsFull' /\ MessagesKept' /\ ResumesPaid' /\ ResumesBounded'
    BY <1>2, <2>1, <2>2, <2>3, TurnRests
  <2>6. \A u \in Turn : ~Live(u)'
    BY <1>1, <2>1, <2>2, <2>4 DEF OneLiveTurn, Live
  <2>7. OneLiveTurn' /\ StopReachesLiveTurn' /\ NoBaselineLeaks'
    <3>1. OneLiveTurn'
      BY <2>1, <2>6 DEF OneLiveTurn
    <3>2. StopReachesLiveTurn'
      BY <2>6 DEF StopReachesLiveTurn, Live, Spawned
    <3>3. NoBaselineLeaks'
      BY <2>2, <2>4 DEF NoBaselineLeaks
    <3> QED
      BY <3>1, <3>2, <3>3
  <2> QED
    BY <2>5, <2>7 DEF ChatInv
<1>5. CASE CloseBaseline(t)
  <2>1. /\ turn[t].pc = "close" /\ baseline' = 0 /\ admission' = 0 /\ Ended(t, "done")
        /\ UNCHANGED <<active, pending, parked, resumed, registered, waiter, fate, overwritten>>
    BY <1>5 DEF CloseBaseline, At
  <2>2. PICK r \in TurnRow : turn' = [turn EXCEPT ![t] = r] /\ r.pc = "done" /\ r.by = turn[t].by
                             /\ r.hand = <<>>
    BY <1>1, <2>1, EndedRow DEF Pcs
  <2>3. turn'[t] = r /\ \A u \in Turn \ {t} : turn'[u] = turn[u]
    BY <1>2, <2>2
  <2>4. active' \in BOOLEAN /\ {registered', baseline', admission'} \subseteq Turn \cup {0}
    BY <1>1, <1>2, <2>1 DEF ChatTypes
  <2>5. ChatTypes' /\ HandsFull' /\ MessagesKept' /\ ResumesPaid' /\ ResumesBounded'
    BY <2>1, <2>2, <2>4, TurnRests
  <2>6. \A u \in Turn : Live(u)' <=> Live(u)
    BY <2>1, <2>2, <2>3 DEF Live
  <2>7. OneLiveTurn' /\ StopReachesLiveTurn' /\ NoBaselineLeaks'
    <3>1. OneLiveTurn'
      BY <1>1, <2>1, <2>6 DEF OneLiveTurn
    <3>2. StopReachesLiveTurn'
      BY <1>1, <2>1, <2>2, <2>3 DEF StopReachesLiveTurn, Spawned
    <3>3. NoBaselineLeaks'
      BY <2>1 DEF NoBaselineLeaks
    <3> QED
      BY <3>1, <3>2, <3>3
  <2> QED
    BY <2>5, <2>7 DEF ChatInv
<1> QED
  BY <1>3, <1>4, <1>5

\* The session's turns, whoever takes the next step.
LEMMA ChatStep == ASSUME ChatInv, [CNext]_chat PROVE ChatInv'
<1>1. ASSUME NEW m \in Msg, SendMessage(m) \/ Handler(m) PROVE ChatInv'
  BY <1>1, MessageKeeps, UserClaims DEF Handler
<1>2. ASSUME NEW t \in Turn,
             Opening(t) \/ Running(t) \/ Closing(t) \/ Ask(t) \/ ContinueRound(t) \/ Panic(t)
      PROVE  ChatInv'
  BY <1>2, OpeningKeeps, RunningKeeps, ParkKeeps, ClosingKeeps, PanicKeeps DEF Closing
<1>3. ASSUME NEW w \in Turn, Waiting(w) PROVE ChatInv'
  BY <1>3, WaitingKeeps, ResumeClaims DEF Waiting
<1>4. CASE Stop
  BY <1>4, StopKeeps
<1>5. CASE UNCHANGED chat
  <2>1. UNCHANGED <<active, pending, parked, resumed, registered, baseline, admission, turn, waiter,
                    fate, overwritten>>
    BY <1>5 DEF chat
  <2>2. ChatTypes /\ HandsFull /\ MessagesKept
    BY DEF ChatInv
  <2>3. OneLiveTurn' /\ StopReachesLiveTurn' /\ NoBaselineLeaks' /\ ResumesPaid' /\ ResumesBounded'
    BY <2>1, SamePlaces, SameBooks
  <2>4. ChatTypes' /\ HandsFull' /\ MessagesKept'
    BY <2>1, <2>2 DEF ChatTypes, HandsFull, MessagesKept
  <2> QED
    BY <2>3, <2>4 DEF ChatInv
<1> QED
  BY <1>1, <1>2, <1>3, <1>4, <1>5 DEF CNext

\* Nothing has begun, and nothing is owed.
LEMMA ChatStarts == CInit => ChatInv
<1> SUFFICES ASSUME CInit PROVE ChatInv
  OBVIOUS
<1>1. /\ active = FALSE /\ pending = <<>> /\ parked = NoPark /\ resumed = 0 /\ registered = 0
      /\ baseline = 0 /\ admission = 0 /\ overwritten = 0
      /\ turn = [t \in Turn |-> NoTurn] /\ waiter = [t \in Turn |-> NoWaiter]
      /\ fate = [m \in Msg |-> "unsent"]
  BY DEF CInit
<1>2. NoTurn \in TurnRow /\ NoTurn.pc = "none" /\ NoTurn.by = "user" /\ NoTurn.hand = <<>>
  <2>1. <<>> \in Seq(Msg) /\ {} \in SUBSET Msg /\ 0 \in 0..ErrorRounds /\ 0 \in 0..DrainMax
    BY ChatAssumption
  <2> QED
    BY <2>1 DEF NoTurn, TurnRow, Pcs
<1>3. NoWaiter \in WaiterRow /\ NoWaiter.pc = "off" /\ NoPark \in ParkRow
  BY ChatAssumption DEF NoWaiter, WaiterRow, NoPark, ParkRow
<1>4. /\ turn \in [Turn -> TurnRow] /\ waiter \in [Turn -> WaiterRow]
      /\ \A t \in Turn : turn[t] = NoTurn /\ waiter[t] = NoWaiter
  BY <1>1, <1>2, <1>3
<1>5. ChatTypes
  <2>1. <<>> \in Seq(Msg) /\ Len(<<>>) = 0 /\ PendingMax \in Nat /\ ErrorRounds \in Nat
    BY ChatAssumption
  <2>3. \A t \in Turn : turn[t].pc = "none" /\ waiter[t].pc = "off"
    BY <1>2, <1>3, <1>4
  <2>4. ~("none" \in (Spawned \ {"tail"}) \cup {"claimed", "register", "count"})
    BY DEF Spawned
  <2>5. parked \in ParkRow /\ resumed \in 0..ErrorRounds /\ overwritten \in Nat
    BY <1>1, <1>3, <2>1
  <2>6. /\ \A t \in Turn :
              ~(turn[t].pc \in (Spawned \ {"tail"}) \cup {"claimed", "register", "count"})
        /\ \A w \in Turn : waiter[w].pc \notin {"note", "claim", "push"} /\ waiter[w].pc # "note"
    BY <2>3, <2>4
  <2>7. pending \in Seq(Msg) /\ Len(pending) <= PendingMax
    BY <1>1, <2>1
  <2>8. active \in BOOLEAN /\ {registered, baseline, admission} \subseteq Turn \cup {0}
        /\ (parked # NoPark => parked.goal \in Msg)
    BY <1>1
  <2> QED
    BY <1>4, <2>5, <2>6, <2>7, <2>8 DEF ChatTypes
<1>6. OneLiveTurn /\ StopReachesLiveTurn /\ NoBaselineLeaks
  BY <1>1, <1>2, <1>4 DEF OneLiveTurn, StopReachesLiveTurn, NoBaselineLeaks, Live, Spawned
<1>7. HandsFull /\ MessagesKept
  BY <1>1, <1>2, <1>4 DEF HandsFull, MessagesKept
<1>8. ResumesPaid /\ ResumesBounded
  <2>1. ByWaiter(turn) = {} /\ ByUser(turn) = {}
    BY <1>2, <1>4 DEF ByWaiter, ByUser
  <2>2. Under(TurnCredit(turn), ErrorRounds + 1) = {}
        /\ Under(WaiterCredit(waiter), ErrorRounds + 1) = {}
    <3>1. \A t \in Turn : TurnCredit(turn)[t] = 0 /\ WaiterCredit(waiter)[t] = 0
      BY <1>2, <1>3, <1>4 DEF TurnCredit, WaiterCredit, Starting, Spawned
    <3>2. DOMAIN TurnCredit(turn) = Turn /\ DOMAIN WaiterCredit(waiter) = Turn
      BY DEF TurnCredit, WaiterCredit
    <3>3. ASSUME NEW p \in Turn \X (1..(ErrorRounds + 1)) PROVE ~(p[2] <= 0) /\ p[1] \in Turn
      OBVIOUS
    <3> QED
      BY <3>1, <3>2, <3>3 DEF Under
  <2>3. Cardinality({}) = 0 /\ ErrorRounds * 0 = 0
    BY FS_EmptySet, ChatAssumption
  <2>c. Cardinality(ByWaiter(turn)) = 0 /\ Cardinality(ByUser(turn)) = 0
    BY <2>1, FS_EmptySet
  <2>a. Area(TurnCredit(turn), ErrorRounds + 1) = 0
        /\ Area(WaiterCredit(waiter), ErrorRounds + 1) = 0
    BY <2>2, FS_EmptySet DEF Area
  <2>4. Credit(turn, waiter, parked) = 0
    BY <1>1, <2>a DEF Credit, ParkCredit
  <2>5. Paid(turn, overwritten) = 0
    BY <1>1, <2>c, <2>3 DEF Paid
  <2>6. ResumesPaid
    BY <1>1, <2>c, <2>4, <2>5 DEF ResumesPaid
  <2>7. ResumesBounded
    BY <2>c, <2>5, ResumesAre
  <2> QED
    BY <2>6, <2>7
<1> QED
  BY <1>5, <1>6, <1>7, <1>8 DEF ChatInv

-----------------------------------------------------------------------------
(* ChatTurns: custody of the messages.                                     *)

\* The places of a turn that still has its message before it.
AtWorkPlaces == (Spawned \ {"tail"}) \cup Starting
\* Such a turn.
Working(t) == turn[t].pc \in AtWorkPlaces
\* A waiter that has taken a parked goal and not handed it on.
Bears(w) == waiter[w].pc \in {"note", "claim", "push"}

\* A message that began a turn is with one bearer at a time: the turn, the
\* park or a waiter.  One that its handler holds is with nobody else.
GoalsOnce ==
    /\ send \in [Msg -> {"unsent", "claim", "push", "done"}]
    /\ \A m \in Msg : /\ send[m] = "unsent" => fate[m] = "unsent"
                      /\ send[m] \in {"claim", "push"} => fate[m] = "sent"
    /\ \A t \in Turn : Working(t) => fate[turn[t].goal] = "own"
    /\ \A w \in Turn : Bears(w) => fate[waiter[w].goal] = "own"
    /\ parked # NoPark => fate[parked.goal] = "own"
    /\ \A t, w \in Turn : Working(t) /\ Bears(w) => turn[t].goal # waiter[w].goal
    /\ \A v, w \in Turn : Bears(v) /\ Bears(w) /\ v # w => waiter[v].goal # waiter[w].goal
    /\ parked # NoPark => /\ \A t \in Turn : Working(t) => turn[t].goal # parked.goal
                          /\ \A w \in Turn : Bears(w) => waiter[w].goal # parked.goal

\* What every step keeps of the messages.
CustodyInv == MessagesAccounted /\ GoalsOnce

\* Nobody bears a message who did not before.
BearersRest ==
    /\ \A t \in Turn : Working(t)' => Working(t) /\ turn'[t].goal = turn[t].goal
    /\ \A w \in Turn : Bears(w)' => Bears(w) /\ waiter'[w].goal = waiter[w].goal
    /\ parked' \in {parked, NoPark}

\* The messages a handler, a turn, a park or a waiter bears stay as they are.
LEMMA GoalsStay ==
    ASSUME ChatTypes, GoalsOnce, BearersRest, UNCHANGED send,
           \A m \in Msg : fate[m] \in {"unsent", "sent", "own"} => fate'[m] = fate[m]
    PROVE  GoalsOnce'
<1>1. /\ \A m \in Msg : /\ send[m] = "unsent" => fate[m] = "unsent"
                        /\ send[m] \in {"claim", "push"} => fate[m] = "sent"
      /\ \A t \in Turn : Working(t) => fate[turn[t].goal] = "own" /\ turn[t].goal \in Msg
      /\ \A w \in Turn : Bears(w) => fate[waiter[w].goal] = "own" /\ waiter[w].goal \in Msg
      /\ parked # NoPark => fate[parked.goal] = "own" /\ parked.goal \in Msg
  BY DEF GoalsOnce, ChatTypes, Working, AtWorkPlaces, Bears, Starting
<1>2. /\ send' \in [Msg -> {"unsent", "claim", "push", "done"}]
      /\ \A m \in Msg : /\ send'[m] = "unsent" => fate'[m] = "unsent"
                        /\ send'[m] \in {"claim", "push"} => fate'[m] = "sent"
  BY <1>1 DEF GoalsOnce
<1>3. /\ \A t \in Turn : Working(t)' => fate'[turn'[t].goal] = "own"
      /\ \A w \in Turn : Bears(w)' => fate'[waiter'[w].goal] = "own"
      /\ parked' # NoPark => fate'[parked'.goal] = "own" /\ parked' = parked
  BY <1>1 DEF BearersRest
<1>4. /\ \A t, w \in Turn : Working(t)' /\ Bears(w)' => turn'[t].goal # waiter'[w].goal
      /\ \A v, w \in Turn : Bears(v)' /\ Bears(w)' /\ v # w => waiter'[v].goal # waiter'[w].goal
  BY DEF BearersRest, GoalsOnce
<1>5. parked' # NoPark => /\ \A t \in Turn : Working(t)' => turn'[t].goal # parked'.goal
                          /\ \A w \in Turn : Bears(w)' => waiter'[w].goal # parked'.goal
  BY <1>3 DEF BearersRest, GoalsOnce
<1> QED
  BY <1>2, <1>3, <1>4, <1>5 DEF GoalsOnce

\* A queue without a message twice, before and after a push, and its tail.
LEMMA InjectiveParts ==
    ASSUME NEW S, NEW q \in Seq(S), IsInjective(q)
    PROVE  /\ IsInjective(<<>>)
           /\ \A x \in S : x \notin ToSet(q) => IsInjective(Append(q, x))
           /\ q # <<>> => IsInjective(Tail(q)) /\ Head(q) \notin ToSet(Tail(q))
<1>1. IsInjective(<<>>)
  BY DEF IsInjective
<1>2. DOMAIN q = 1..Len(q) /\ Len(q) \in Nat
  OBVIOUS
<1>3. ASSUME NEW x \in S, x \notin ToSet(q) PROVE IsInjective(Append(q, x))
  <2>1. /\ DOMAIN Append(q, x) = 1..(Len(q) + 1) /\ Append(q, x)[Len(q) + 1] = x
        /\ \A i \in 1..Len(q) : Append(q, x)[i] = q[i] /\ q[i] # x
    BY <1>2, <1>3 DEF ToSet
  <2>2. ASSUME NEW a \in 1..(Len(q) + 1), NEW b \in 1..(Len(q) + 1),
               Append(q, x)[a] = Append(q, x)[b]
        PROVE  a = b
    <3>1. a \in 1..Len(q) \/ a = Len(q) + 1
      BY <1>2
    <3>2. b \in 1..Len(q) \/ b = Len(q) + 1
      BY <1>2
    <3> QED
      BY <1>2, <2>1, <2>2, <3>1, <3>2 DEF IsInjective
  <2> QED
    BY <2>1, <2>2 DEF IsInjective
<1>4. ASSUME q # <<>> PROVE IsInjective(Tail(q)) /\ Head(q) \notin ToSet(Tail(q))
  <2>1. /\ Head(q) = q[1] /\ Len(q) >= 1 /\ DOMAIN Tail(q) = 1..(Len(q) - 1)
        /\ \A i \in 1..(Len(q) - 1) : Tail(q)[i] = q[i + 1] /\ i + 1 \in 1..Len(q)
    BY <1>2, <1>4
  <2>2. ASSUME NEW a \in DOMAIN Tail(q), NEW b \in DOMAIN Tail(q), Tail(q)[a] = Tail(q)[b]
        PROVE  a = b
    <3>1. q[a + 1] = q[b + 1] /\ a + 1 \in DOMAIN q /\ b + 1 \in DOMAIN q
      BY <1>2, <2>1, <2>2
    <3>2. a + 1 = b + 1
      BY <3>1 DEF IsInjective
    <3> QED
      BY <1>2, <2>1, <3>2
  <2>3. ASSUME NEW i \in 1..(Len(q) - 1), Tail(q)[i] = Head(q) PROVE FALSE
    <3>1. q[i + 1] = q[1] /\ i + 1 \in DOMAIN q /\ 1 \in DOMAIN q
      BY <1>2, <2>1, <2>3
    <3>2. i + 1 = 1
      BY <3>1 DEF IsInjective
    <3> QED
      BY <1>2, <3>2
  <2> QED
    BY <2>1, <2>2, <2>3 DEF IsInjective, ToSet
<1> QED
  BY <1>1, <1>3, <1>4

\* No message moves.
LEMMA CustodyRests ==
    ASSUME ChatTypes, CustodyInv, BearersRest, UNCHANGED <<send, pending, fate>>,
           \A u \in Turn : turn'[u].hand = turn[u].hand
    PROVE  CustodyInv'
<1>1. GoalsOnce'
  BY GoalsStay DEF CustodyInv
<1>2. MessagesAccounted'
  BY DEF CustodyInv, MessagesAccounted
<1> QED
  BY <1>1, <1>2 DEF CustodyInv

\* A turn that moves on with the same hand.
LEMMA TurnCustody ==
    ASSUME ChatTypes, CustodyInv, NEW t \in Turn, NEW r \in TurnRow,
           turn' = [turn EXCEPT ![t] = r], r.hand = turn[t].hand,
           r.pc \in AtWorkPlaces => turn[t].pc \in AtWorkPlaces /\ r.goal = turn[t].goal,
           UNCHANGED <<send, pending, fate, waiter>>, parked' \in {parked, NoPark}
    PROVE  CustodyInv'
<1>1. turn'[t] = r /\ \A u \in Turn \ {t} : turn'[u] = turn[u]
  BY DEF ChatTypes
<1>2. \A u \in Turn : turn'[u].hand = turn[u].hand
  BY <1>1
<1>3. BearersRest
  BY <1>1 DEF BearersRest, Working, Bears
<1> QED
  BY <1>2, <1>3, CustodyRests

\* Likewise one that only changes its place.
LEMMA GotoCustody ==
    ASSUME ChatTypes, CustodyInv, NEW t \in Turn, NEW pc \in Pcs, Goto(t, pc),
           pc \in AtWorkPlaces => turn[t].pc \in AtWorkPlaces,
           UNCHANGED <<send, pending, fate, waiter>>, parked' \in {parked, NoPark}
    PROVE  CustodyInv'
<1>1. PICK r \in TurnRow :
         /\ turn' = [turn EXCEPT ![t] = r] /\ r.pc = pc
         /\ r.goal = turn[t].goal /\ r.hand = turn[t].hand
  BY GotoRow
<1> QED
  BY <1>1, TurnCustody

\* The steps of a turn that move no message.
LEMMA MovesCustody ==
    ASSUME ChatInv, CustodyInv, NEW t \in Turn,
           Opening(t) \/ Boundary(t) \/ Step(t) \/ Ask(t) \/ AskTimeout(t) \/ RunEnds(t)
           \/ SweepEnds(t) \/ ContinueRound(t) \/ MissionReturns(t) \/ Unregister(t)
           \/ Release(t) \/ CloseBaseline(t)
    PROVE  CustodyInv'
<1>1. ChatTypes /\ turn[t] \in TurnRow /\ HandsFull
  BY DEF ChatInv, ChatTypes
<1>s. /\ AtWorkPlaces = {"prep", "baseline", "admit", "plan", "run", "poll", "interject", "step",
                         "ask", "sweep", "mission", "claimed", "register", "count"}
      /\ AtWorkPlaces \cup {"tail", "release", "close", "done"} \subseteq Pcs
  BY DEF AtWorkPlaces, Spawned, Starting, Pcs
<1>2. CASE TakeResumeCount(t)
  <2> DEFINE r == [turn[t] EXCEPT !.resumes = resumed, !.pc = "prep"]
  <2>1. resumed \in 0..ErrorRounds /\ "prep" \in Pcs
    BY <1>1, <1>s DEF ChatTypes
  <2>2. r \in TurnRow /\ r.hand = turn[t].hand /\ r.goal = turn[t].goal
    BY <1>1, <2>1 DEF TurnRow
  <2>3. /\ turn' = [turn EXCEPT ![t] = r] /\ turn[t].pc = "count"
        /\ UNCHANGED <<send, pending, fate, waiter, parked>>
    BY <1>2 DEF TakeResumeCount, At
  <2> HIDE DEF r
  <2> QED
    BY <1>1, <1>s, <2>2, <2>3, TurnCustody
<1>3. CASE Ask(t)
  <2> DEFINE r == [turn[t] EXCEPT !.pc = "ask", !.asked = Sent]
  <2>1. Sent \in SUBSET Msg /\ "ask" \in Pcs
    BY <1>s DEF Sent
  <2>2. r \in TurnRow /\ r.hand = turn[t].hand /\ r.goal = turn[t].goal
    BY <1>1, <2>1 DEF TurnRow
  <2>3. /\ turn' = [turn EXCEPT ![t] = r] /\ turn[t].pc = "step"
        /\ UNCHANGED <<send, pending, fate, waiter, parked>>
    BY <1>3 DEF Ask, At
  <2> HIDE DEF r
  <2> QED
    BY <1>1, <1>s, <2>2, <2>3, TurnCustody
<1>4. CASE AskTimeout(t)
  <2> DEFINE r == [turn[t] EXCEPT !.pc = "run", !.asked = {}]
  <2>1. r \in TurnRow /\ r.hand = turn[t].hand /\ r.goal = turn[t].goal
    BY <1>1, <1>s DEF TurnRow
  <2>2. /\ turn' = [turn EXCEPT ![t] = r] /\ turn[t].pc = "ask"
        /\ UNCHANGED <<send, pending, fate, waiter, parked>>
    BY <1>4 DEF AskTimeout, At
  <2> HIDE DEF r
  <2> QED
    BY <1>1, <1>s, <2>1, <2>2, TurnCustody
<1>5. CASE ContinueRound(t)
  <2> DEFINE r == [turn[t] EXCEPT !.phase = "cont", !.pc = "run"]
  <2>1. r \in TurnRow /\ r.hand = turn[t].hand /\ r.goal = turn[t].goal
    BY <1>1, <1>s DEF TurnRow
  <2>2. /\ turn' = [turn EXCEPT ![t] = r] /\ turn[t].pc = "mission"
        /\ UNCHANGED <<send, pending, fate, waiter, parked>>
    BY <1>5 DEF ContinueRound, At
  <2> HIDE DEF r
  <2> QED
    BY <1>1, <1>s, <2>1, <2>2, TurnCustody
<1>6. CASE Unregister(t) \/ CloseBaseline(t)
  <2>1. /\ turn[t].pc \in {"tail", "dead", "close"}
        /\ UNCHANGED <<send, pending, fate, waiter, parked>>
        /\ \E pc \in {"release", "done"} : Ended(t, pc)
    BY <1>6 DEF Unregister, CloseBaseline, At
  <2>2. PICK pc \in {"release", "done"} : Ended(t, pc)
    BY <2>1
  <2>3. PICK r \in TurnRow : turn' = [turn EXCEPT ![t] = r] /\ r.pc = pc /\ r.hand = <<>>
    BY <1>1, <1>s, <2>2, EndedRow
  <2>4. turn[t].hand = <<>>
    BY <1>1, <2>1 DEF HandsFull
  <2> QED
    BY <1>1, <1>s, <2>1, <2>3, <2>4, TurnCustody
<1>7. CASE ClearPark(t)
  BY <1>1, <1>7, <1>s, GotoCustody DEF ClearPark, At
<1>8. CASE Register(t)
  BY <1>1, <1>8, <1>s, GotoCustody DEF Register, At
<1>9. ASSUME Prepare(t) \/ OpenBaseline(t) \/ RegisterAdmission(t) \/ PlanAndSeed(t)
             \/ Boundary(t) \/ Step(t) \/ RunEnds(t) \/ SweepEnds(t) \/ MissionReturns(t)
             \/ Release(t)
      PROVE  CustodyInv'
  <2>1. /\ turn[t].pc \in AtWorkPlaces \cup {"release"}
        /\ UNCHANGED <<send, pending, fate, waiter, parked>>
    BY <1>9, <1>s DEF Prepare, OpenBaseline, RegisterAdmission, PlanAndSeed, Boundary, Step,
       RunEnds, SweepEnds, MissionReturns, Release, At
  <2>2. \/ turn[t].pc \in AtWorkPlaces /\ \E pc \in AtWorkPlaces \cup {"tail"} : Goto(t, pc)
        \/ Goto(t, "close")
    BY <1>9, <1>s DEF Prepare, OpenBaseline, RegisterAdmission, PlanAndSeed, Boundary, Step,
       RunEnds, SweepEnds, MissionReturns, Release, AfterRun, At
  <2>3. CASE turn[t].pc \in AtWorkPlaces /\ \E pc \in AtWorkPlaces \cup {"tail"} : Goto(t, pc)
    <3>1. PICK pc \in AtWorkPlaces \cup {"tail"} : Goto(t, pc)
      BY <2>3
    <3> QED
      BY <1>1, <1>s, <2>1, <2>3, <3>1, GotoCustody
  <2>4. CASE Goto(t, "close")
    BY <1>1, <1>s, <2>1, <2>4, GotoCustody
  <2> QED
    BY <2>2, <2>3, <2>4
<1> QED
  BY <1>2, <1>3, <1>4, <1>5, <1>6, <1>7, <1>8, <1>9 DEF Opening

\* The turns at work go on bearing what they bore.
LEMMA HandCustody ==
    ASSUME ChatTypes, CustodyInv, NEW t \in Turn, NEW r \in TurnRow,
           turn' = [turn EXCEPT ![t] = r],
           r.pc \in AtWorkPlaces => turn[t].pc \in AtWorkPlaces /\ r.goal = turn[t].goal,
           UNCHANGED <<send, waiter, parked>>,
           \A m \in Msg : fate[m] \in {"unsent", "sent", "own"} => fate'[m] = fate[m]
    PROVE  /\ GoalsOnce' /\ turn'[t] = r /\ \A u \in Turn \ {t} : turn'[u] = turn[u]
<1>1. turn'[t] = r /\ \A u \in Turn \ {t} : turn'[u] = turn[u]
  BY DEF ChatTypes
<1>2. BearersRest
  BY <1>1 DEF BearersRest, Working, Bears
<1> QED
  BY <1>1, <1>2, GoalsStay DEF CustodyInv

\* Only a turn that interjects has messages in hand, and one turn is live.
LEMMA OtherHandsEmpty ==
    ASSUME ChatInv, NEW t \in Turn, Live(t)
    PROVE  \A u \in Turn \ {t} : turn[u].hand = <<>> /\ ToSet(turn[u].hand) = {}
<1>1. HandsFull /\ OneLiveTurn
  BY DEF ChatInv
<1>2. ASSUME NEW u \in Turn \ {t} PROVE turn[u].hand = <<>>
  <2>1. turn[u].pc # "interject"
    BY <1>1 DEF OneLiveTurn, Live
  <2> QED
    BY <1>1, <2>1 DEF HandsFull
<1> QED
  BY <1>2 DEF ToSet

\* What is queued, and what is held, is settled nowhere else.
LEMMA Accounts ==
    ASSUME CustodyInv
    PROVE  /\ IsInjective(pending) /\ \A t \in Turn : IsInjective(turn[t].hand)
           /\ \A m \in Msg : m \in ToSet(pending) <=> fate[m] = "queued"
           /\ \A m \in Msg, t \in Turn : m \in ToSet(turn[t].hand) => fate[m] = "held"
BY DEF CustodyInv, MessagesAccounted

\* A turn takes all that is queued: into its hand, or as an answer.
LEMMA TakeCustody ==
    ASSUME ChatInv, CustodyInv, NEW t \in Turn, NEW r \in TurnRow,
           turn' = [turn EXCEPT ![t] = r], turn[t].hand = <<>>,
           turn[t].pc \in AtWorkPlaces, r.goal = turn[t].goal,
           UNCHANGED <<send, waiter, parked>>, pending' = <<>>,
           NEW what \in {"held", "answer", "staleAnswer"}, Settle(ToSet(pending), what),
           r.hand = IF what = "held" THEN pending ELSE <<>>
    PROVE  CustodyInv'
<1>1. ChatTypes /\ pending \in Seq(Msg)
  BY DEF ChatInv, ChatTypes
<1>2. ToSet(<<>>) = {} /\ IsInjective(<<>>)
  BY <1>1, Accounts, ToSetParts, InjectiveParts
<1>3. \A m \in Msg : fate'[m] = IF m \in ToSet(pending) THEN what ELSE fate[m]
  BY DEF Settle
<1>4. \A m \in Msg : fate[m] \in {"unsent", "sent", "own"} => fate'[m] = fate[m]
  BY <1>3, Accounts
<1>5. GoalsOnce' /\ turn'[t] = r /\ \A u \in Turn \ {t} : turn'[u] = turn[u]
  BY <1>1, <1>4, HandCustody
<1>6. IsInjective(pending') /\ \A u \in Turn : IsInjective(turn'[u].hand)
  BY <1>2, <1>5, Accounts
<1>7. ASSUME NEW m \in Msg PROVE fate'[m] = "queued" <=> m \in ToSet(pending')
  BY <1>2, <1>3, Accounts
<1>8. ASSUME NEW m \in Msg
      PROVE  fate'[m] = "held" <=> \E u \in Turn : m \in ToSet(turn'[u].hand)
  <2>1. fate[m] = "held" <=> \E u \in Turn \ {t} : m \in ToSet(turn[u].hand)
    BY <1>2 DEF CustodyInv, MessagesAccounted
  <2>2. (\E u \in Turn : m \in ToSet(turn'[u].hand))
          <=> m \in ToSet(r.hand) \/ \E u \in Turn \ {t} : m \in ToSet(turn[u].hand)
    BY <1>5
  <2>3. m \in ToSet(r.hand) <=> what = "held" /\ m \in ToSet(pending)
    BY <1>2
  <2>4. m \in ToSet(pending) => fate[m] # "held"
    BY Accounts
  <2> QED
    BY <1>3, <2>1, <2>2, <2>3, <2>4
<1>9. MessagesAccounted'
  BY <1>6, <1>7, <1>8 DEF MessagesAccounted
<1> QED
  BY <1>5, <1>9 DEF CustodyInv

\* A turn lets go of messages that it seeds, or that are lost.
LEMMA LetGoCustody ==
    ASSUME ChatInv, CustodyInv, NEW t \in Turn, Live(t), NEW r \in TurnRow,
           turn' = [turn EXCEPT ![t] = r],
           r.pc \in AtWorkPlaces => turn[t].pc \in AtWorkPlaces /\ r.goal = turn[t].goal,
           UNCHANGED <<send, waiter, parked, pending>>,
           NEW S, NEW what \in {"seeded", "unseeded", "crashed"}, Settle(S, what),
           S \subseteq ToSet(turn[t].hand), IsInjective(r.hand),
           ToSet(r.hand) = ToSet(turn[t].hand) \ S
    PROVE  CustodyInv'
<1>1. ChatTypes
  BY DEF ChatInv
<1>2. \A m \in Msg : fate'[m] = IF m \in S THEN what ELSE fate[m]
  BY DEF Settle
<1>3. \A m \in Msg : m \in S => fate[m] = "held"
  BY Accounts
<1>4. GoalsOnce' /\ turn'[t] = r /\ \A u \in Turn \ {t} : turn'[u] = turn[u]
  BY <1>1, <1>2, <1>3, HandCustody
<1>5. IsInjective(pending') /\ \A u \in Turn : IsInjective(turn'[u].hand)
  BY <1>4, Accounts
<1>6. ASSUME NEW m \in Msg PROVE fate'[m] = "queued" <=> m \in ToSet(pending')
  BY <1>2, <1>3, Accounts
<1>7. ASSUME NEW m \in Msg
      PROVE  fate'[m] = "held" <=> \E u \in Turn : m \in ToSet(turn'[u].hand)
  <2>1. \A u \in Turn \ {t} : ToSet(turn[u].hand) = {} /\ turn'[u].hand = turn[u].hand
    BY <1>4, OtherHandsEmpty
  <2>2. fate[m] = "held" <=> m \in ToSet(turn[t].hand)
    BY <2>1 DEF CustodyInv, MessagesAccounted
  <2>3. (\E u \in Turn : m \in ToSet(turn'[u].hand)) <=> m \in ToSet(turn[t].hand) \ S
    BY <1>4, <2>1
  <2> QED
    BY <1>2, <2>2, <2>3
<1>8. MessagesAccounted'
  BY <1>5, <1>6, <1>7 DEF MessagesAccounted
<1> QED
  BY <1>4, <1>8 DEF CustodyInv

\* A message that is not queued joins the queue, which may drop its oldest.
LEMMA PushAccounts ==
    ASSUME ChatInv, CustodyInv, NEW m \in Msg, Push(m), fate[m] # "queued"
    PROVE  /\ IsInjective(pending')
           /\ \A x \in Msg : fate'[x] = "queued" <=> x \in ToSet(pending')
           /\ \A x \in Msg : fate'[x] = "held" <=> fate[x] = "held" /\ x # m
           /\ \A x \in Msg : x # m /\ fate[x] \in {"unsent", "sent", "own"} => fate'[x] = fate[x]
           /\ fate'[m] = "queued"
<1>1. pending \in Seq(Msg) /\ IsInjective(pending) /\ PendingMax \in Nat \ {0}
  BY Accounts, ChatAssumption DEF ChatInv, ChatTypes
<1> DEFINE full == Len(pending) >= PendingMax
           rest == IF full THEN Tail(pending) ELSE pending
<1>2. /\ Len(pending) \in Nat /\ (full => pending # <<>>)
      /\ pending # <<>> => /\ Tail(pending) \in Seq(Msg) /\ IsInjective(Tail(pending))
                           /\ Head(pending) \notin ToSet(Tail(pending))
                           /\ ToSet(pending) = {Head(pending)} \cup ToSet(Tail(pending))
  BY <1>1, ToSetParts, InjectiveParts
<1>3. /\ rest \in Seq(Msg) /\ IsInjective(rest)
      /\ \A x \in Msg : x \in ToSet(rest)
                          <=> x \in ToSet(pending) /\ ~(full /\ x = Head(pending))
  BY <1>1, <1>2
<1>4. /\ pending' = Append(rest, m)
      /\ \A x \in Msg : fate'[x] = IF x = m THEN "queued"
                                   ELSE IF full /\ x = Head(pending) THEN "dropped" ELSE fate[x]
  BY DEF Push
<1>5. full => Head(pending) \in ToSet(pending)
  BY <1>2
<1> HIDE DEF full, rest
<1>6. m \notin ToSet(rest)
  BY <1>3, Accounts
<1>7. IsInjective(pending') /\ ToSet(pending') = ToSet(rest) \cup {m}
  BY <1>3, <1>4, <1>6, ToSetParts, InjectiveParts
<1>8. \A x \in Msg : fate[x] = "queued" <=> x \in ToSet(pending)
  BY Accounts
<1>9. \A x \in Msg : fate'[x] = "queued" <=> x \in ToSet(pending')
  BY <1>3, <1>4, <1>7, <1>8
<1>10. \A x \in Msg : full /\ x = Head(pending) => fate[x] = "queued"
  BY <1>5, <1>8
<1> QED
  BY <1>4, <1>7, <1>9, <1>10

\* A message is put back from the live turn's hand.
LEMMA PutBackCustody ==
    ASSUME ChatInv, CustodyInv, NEW t \in Turn, Live(t), NEW r \in TurnRow,
           turn' = [turn EXCEPT ![t] = r],
           turn[t].pc \in AtWorkPlaces, r.goal = turn[t].goal,
           UNCHANGED <<send, waiter, parked>>, NEW m \in Msg, Push(m),
           m \in ToSet(turn[t].hand), IsInjective(r.hand),
           ToSet(r.hand) = ToSet(turn[t].hand) \ {m}
    PROVE  CustodyInv'
<1>1. ChatTypes /\ fate[m] = "held"
  BY Accounts DEF ChatInv
<1>2. /\ IsInjective(pending')
      /\ \A x \in Msg : fate'[x] = "queued" <=> x \in ToSet(pending')
      /\ \A x \in Msg : fate'[x] = "held" <=> fate[x] = "held" /\ x # m
      /\ \A x \in Msg : x # m /\ fate[x] \in {"unsent", "sent", "own"} => fate'[x] = fate[x]
  BY <1>1, PushAccounts
<1>3. GoalsOnce' /\ turn'[t] = r /\ \A u \in Turn \ {t} : turn'[u] = turn[u]
  BY <1>1, <1>2, HandCustody
<1>4. \A u \in Turn : IsInjective(turn'[u].hand)
  BY <1>3, Accounts
<1>5. ASSUME NEW x \in Msg
      PROVE  fate'[x] = "held" <=> \E u \in Turn : x \in ToSet(turn'[u].hand)
  <2>1. \A u \in Turn \ {t} : ToSet(turn[u].hand) = {} /\ turn'[u].hand = turn[u].hand
    BY <1>3, OtherHandsEmpty
  <2>2. fate[x] = "held" <=> x \in ToSet(turn[t].hand)
    BY <2>1 DEF CustodyInv, MessagesAccounted
  <2>3. (\E u \in Turn : x \in ToSet(turn'[u].hand)) <=> x \in ToSet(turn[t].hand) \ {m}
    BY <1>3, <2>1
  <2> QED
    BY <1>2, <2>2, <2>3
<1>6. MessagesAccounted'
  BY <1>2, <1>4, <1>5 DEF MessagesAccounted
<1> QED
  BY <1>3, <1>6 DEF CustodyInv

\* The steps by which a turn takes messages, admits them, loses them or puts
\* them back.
LEMMA HandsCustody ==
    ASSUME ChatInv, CustodyInv, NEW t \in Turn,
           Poll(t) \/ SweepTakes(t) \/ TakeAnswer(t) \/ SeedMessage(t) \/ SeedFails(t)
           \/ PutBack(t) \/ Panic(t)
    PROVE  CustodyInv'
<1>1. /\ ChatTypes /\ turn[t] \in TurnRow /\ HandsFull /\ pending \in Seq(Msg)
      /\ turn[t].hand \in Seq(Msg) /\ IsInjective(turn[t].hand)
  BY Accounts DEF ChatInv, ChatTypes, TurnRow
<1>s. /\ AtWorkPlaces = {"prep", "baseline", "admit", "plan", "run", "poll", "interject", "step",
                         "ask", "sweep", "mission", "claimed", "register", "count"}
      /\ AtWorkPlaces \cup {"tail", "release", "close", "done", "dead"} \subseteq Pcs
      /\ Spawned \subseteq AtWorkPlaces \cup {"tail"}
  BY DEF AtWorkPlaces, Spawned, Starting, Pcs
<1>2. CASE Poll(t)
  <2>1. CASE pending = <<>>
    BY <1>1, <1>2, <1>s, <2>1, GotoCustody DEF Poll, At
  <2>2. CASE pending # <<>>
    <3> DEFINE r == [turn[t] EXCEPT !.hand = pending, !.pc = "interject"]
    <3>1. r \in TurnRow /\ r.hand = pending /\ r.goal = turn[t].goal
      BY <1>1, <1>s DEF TurnRow
    <3>2. /\ turn' = [turn EXCEPT ![t] = r] /\ pending' = <<>> /\ Settle(ToSet(pending), "held")
          /\ turn[t].pc = "poll" /\ UNCHANGED <<send, waiter, parked>>
      BY <1>2, <2>2 DEF Poll, Drain, At
    <3> HIDE DEF r
    <3>3. turn[t].hand = <<>>
      BY <1>1, <3>2 DEF HandsFull
    <3> QED
      BY <1>s, <3>1, <3>2, <3>3, TakeCustody
  <2> QED
    BY <2>1, <2>2
<1>3. CASE SweepTakes(t)
  <2> DEFINE r == [turn[t] EXCEPT !.hand = pending, !.pc = "interject",
                                  !.phase = "drain", !.sweeps = @ + 1]
  <2>0. turn[t].sweeps + 1 \in 0..DrainMax
    BY <1>1, <1>3, ChatAssumption DEF SweepTakes, TurnRow
  <2>1. r \in TurnRow /\ r.hand = pending /\ r.goal = turn[t].goal
    BY <1>1, <1>s, <2>0 DEF TurnRow
  <2>2. /\ turn' = [turn EXCEPT ![t] = r] /\ pending' = <<>> /\ Settle(ToSet(pending), "held")
        /\ turn[t].pc = "sweep" /\ UNCHANGED <<send, waiter, parked>>
    BY <1>3 DEF SweepTakes, At
  <2> HIDE DEF r
  <2>3. turn[t].hand = <<>>
    BY <1>1, <2>2 DEF HandsFull
  <2> QED
    BY <1>s, <2>1, <2>2, <2>3, TakeCustody
<1>4. CASE TakeAnswer(t)
  <2> DEFINE r == [turn[t] EXCEPT !.pc = "run", !.asked = {}]
  <2>1. r \in TurnRow /\ r.hand = turn[t].hand /\ r.goal = turn[t].goal
    BY <1>1, <1>s DEF TurnRow
  <2>2. /\ turn' = [turn EXCEPT ![t] = r] /\ pending' = <<>> /\ turn[t].pc = "ask"
        /\ UNCHANGED <<send, waiter, parked>>
    BY <1>4 DEF TakeAnswer, At
  <2>3. PICK what \in {"answer", "staleAnswer"} : Settle(ToSet(pending), what)
    BY <1>4 DEF TakeAnswer
  <2> HIDE DEF r
  <2>4. turn[t].hand = <<>>
    BY <1>1, <2>2 DEF HandsFull
  <2> QED
    BY <1>s, <2>1, <2>2, <2>3, <2>4, TakeCustody
<1>5. ASSUME turn[t].pc = "interject"
      PROVE  /\ Head(turn[t].hand) \in Msg /\ Tail(turn[t].hand) \in Seq(Msg)
             /\ Head(turn[t].hand) \in ToSet(turn[t].hand)
             /\ IsInjective(Tail(turn[t].hand))
             /\ ToSet(Tail(turn[t].hand)) = ToSet(turn[t].hand) \ {Head(turn[t].hand)}
  <2>1. turn[t].hand # <<>>
    BY <1>1, <1>5 DEF HandsFull
  <2> QED
    BY <1>1, <2>1, ToSetParts, InjectiveParts
<1>6. ASSUME NEW pc \in AtWorkPlaces, turn[t].pc = "interject"
      PROVE  LET rest == Tail(turn[t].hand)
                 r == [turn[t] EXCEPT !.hand = rest, !.pc = IF rest = <<>> THEN pc ELSE @]
             IN  r \in TurnRow /\ r.hand = rest /\ r.goal = turn[t].goal
  <2> DEFINE rest == Tail(turn[t].hand)
             p == IF rest = <<>> THEN pc ELSE turn[t].pc
  <2>1. rest \in Seq(Msg) /\ p \in Pcs
    BY <1>1, <1>5, <1>6, <1>s
  <2> HIDE DEF rest, p
  <2>2. LET r == [turn[t] EXCEPT !.hand = rest, !.pc = p]
        IN  r \in TurnRow /\ r.hand = rest /\ r.goal = turn[t].goal
    BY <1>1, <2>1 DEF TurnRow
  <2> QED
    BY <2>2 DEF rest, p
<1>7. CASE SeedMessage(t)
  <2> DEFINE rest == Tail(turn[t].hand)
             pc == Admitted(t)
             r == [turn[t] EXCEPT !.hand = rest, !.pc = IF rest = <<>> THEN pc ELSE @]
  <2>1. pc \in AtWorkPlaces
    BY <1>s DEF Admitted
  <2>2. /\ turn' = [turn EXCEPT ![t] = r] /\ turn[t].pc = "interject"
        /\ Settle({Head(turn[t].hand)}, "seeded") /\ UNCHANGED <<send, waiter, parked, pending>>
    BY <1>7 DEF SeedMessage, At
  <2>3. r \in TurnRow /\ r.hand = rest /\ r.goal = turn[t].goal
    BY <1>6, <2>1, <2>2
  <2>4. {Head(turn[t].hand)} \subseteq ToSet(turn[t].hand) /\ IsInjective(rest)
        /\ ToSet(rest) = ToSet(turn[t].hand) \ {Head(turn[t].hand)} /\ Live(t)
    BY <1>5, <2>2 DEF Live
  <2> HIDE DEF rest, r, pc
  <2> QED
    BY <1>s, <2>2, <2>3, <2>4, LetGoCustody
<1>8. CASE PutBack(t)
  <2> DEFINE rest == Tail(turn[t].hand)
             pc == NotAdmitted(t)
             r == [turn[t] EXCEPT !.hand = rest, !.pc = IF rest = <<>> THEN pc ELSE @]
  <2>1. pc \in AtWorkPlaces
    BY <1>s DEF NotAdmitted
  <2>2. /\ turn' = [turn EXCEPT ![t] = r] /\ turn[t].pc = "interject"
        /\ Push(Head(turn[t].hand)) /\ UNCHANGED <<send, waiter, parked>>
    BY <1>8 DEF PutBack, At
  <2>3. r \in TurnRow /\ r.hand = rest /\ r.goal = turn[t].goal
    BY <1>6, <2>1, <2>2
  <2>4. /\ Head(turn[t].hand) \in Msg /\ Head(turn[t].hand) \in ToSet(turn[t].hand)
        /\ IsInjective(rest) /\ ToSet(rest) = ToSet(turn[t].hand) \ {Head(turn[t].hand)}
        /\ Live(t)
    BY <1>5, <2>2 DEF Live
  <2> HIDE DEF rest, r, pc
  <2> QED
    BY <1>s, <2>2, <2>3, <2>4, PutBackCustody
<1>e. <<>> \in Seq(Msg) /\ IsInjective(<<>>) /\ ToSet(<<>>) = {}
  BY <1>1, ToSetParts, InjectiveParts
<1>9. CASE SeedFails(t)
  <2> DEFINE pc == NotAdmitted(t)
             r == [turn[t] EXCEPT !.hand = <<>>, !.pc = pc]
  <2>1. pc \in AtWorkPlaces
    BY <1>s DEF NotAdmitted
  <2>2. /\ turn' = [turn EXCEPT ![t] = r] /\ turn[t].pc = "interject"
        /\ Settle(ToSet(turn[t].hand), "unseeded") /\ UNCHANGED <<send, waiter, parked, pending>>
    BY <1>9 DEF SeedFails, At
  <2>p. pc \in Pcs
    BY <1>s, <2>1
  <2> HIDE DEF pc
  <2>3. r \in TurnRow /\ r.hand = <<>> /\ r.goal = turn[t].goal
    BY <1>1, <1>e, <2>p DEF TurnRow
  <2> HIDE DEF r
  <2> QED
    BY <1>e, <1>s, <2>2, <2>3, LetGoCustody DEF Live
<1>10. CASE Panic(t)
  <2>1. /\ turn[t].pc \in Spawned /\ Ended(t, "dead") /\ Settle(ToSet(turn[t].hand), "crashed")
        /\ UNCHANGED <<send, waiter, parked, pending>>
    BY <1>10 DEF Panic
  <2>2. PICK r \in TurnRow : turn' = [turn EXCEPT ![t] = r] /\ r.pc = "dead" /\ r.hand = <<>>
    BY <1>1, <1>s, <2>1, EndedRow
  <2>3. Live(t)
    BY <2>1 DEF Live, Spawned
  <2> QED
    BY <1>e, <1>s, <2>1, <2>2, <2>3, LetGoCustody
<1> QED
  BY <1>2, <1>3, <1>4, <1>7, <1>8, <1>9, <1>10

\* The Stop button moves no message.
LEMMA StopCustody == ASSUME ChatInv, CustodyInv, Stop PROVE CustodyInv'
<1>1. ChatTypes
  BY DEF ChatInv
<1>2. registered \in Turn /\ turn[registered] \in TurnRow
  BY <1>1 DEF Stop, ChatTypes
<1> DEFINE r == [turn[registered] EXCEPT !.cancelled = TRUE]
<1>3. r \in TurnRow /\ r.pc = turn[registered].pc /\ r.hand = turn[registered].hand
      /\ r.goal = turn[registered].goal
  BY <1>2 DEF TurnRow
<1>4. turn' = [turn EXCEPT ![registered] = r] /\ UNCHANGED <<pending, parked, waiter, fate, send>>
  BY DEF Stop
<1> HIDE DEF r
<1> QED
  BY <1>1, <1>2, <1>3, <1>4, TurnCustody

\* A message on its way from the user, in its handler's hands until it has
\* claimed the slot or joined the queue.
LEMMA HandlerCustody ==
    ASSUME ChatInv, CustodyInv, NEW m \in Msg, SendMessage(m) \/ HandlerRefused(m)
    PROVE  CustodyInv'
<1>1. ChatTypes /\ GoalsOnce /\ UNCHANGED <<turn, waiter, parked, pending>>
  BY DEF ChatInv, CustodyInv, SendMessage, HandlerRefused
<1>2. /\ send' \in [Msg -> {"unsent", "claim", "push", "done"}]
      /\ \A x \in Msg : fate'[x] = fate[x] \/ (x = m /\ fate[m] = "unsent" /\ fate'[m] = "sent")
      /\ \A x \in Msg : /\ send'[x] = "unsent" => fate'[x] = "unsent"
                        /\ send'[x] \in {"claim", "push"} => fate'[x] = "sent"
  <2>1. CASE SendMessage(m)
    <3>1. /\ \A x \in Msg : fate'[x] = IF x = m THEN "sent" ELSE fate[x]
          /\ fate[m] = "unsent"
      BY <1>1, <2>1 DEF SendMessage, Settle, GoalsOnce
    <3>2. /\ send' \in [Msg -> {"unsent", "claim", "push", "done"}]
          /\ \A x \in Msg : send'[x] = IF x = m THEN "claim" ELSE send[x]
      BY <1>1, <2>1 DEF SendMessage, GoalsOnce
    <3> QED
      BY <1>1, <3>1, <3>2 DEF GoalsOnce
  <2>2. CASE HandlerRefused(m)
    BY <1>1, <2>2 DEF HandlerRefused, GoalsOnce
  <2> QED
    BY <2>1, <2>2
<1>3. \A x \in Msg : fate[x] = "own" => fate'[x] = "own"
  BY <1>2
<1>4. /\ \A t \in Turn : Working(t) => turn[t].goal \in Msg
      /\ \A w \in Turn : Bears(w) => waiter[w].goal \in Msg
      /\ parked # NoPark => parked.goal \in Msg
  BY <1>1 DEF ChatTypes, Working, AtWorkPlaces, Bears, Starting
<1>5. /\ \A t \in Turn : Working(t)' <=> Working(t)
      /\ \A w \in Turn : Bears(w)' <=> Bears(w)
  BY <1>1 DEF Working, Bears
<1>6. GoalsOnce'
  BY <1>1, <1>2, <1>3, <1>4, <1>5 DEF GoalsOnce
<1>7. MessagesAccounted'
  BY <1>1, <1>2 DEF CustodyInv, MessagesAccounted
<1> QED
  BY <1>6, <1>7 DEF CustodyInv

\* A handler that finds the slot taken pushes a message nobody else has.
LEMMA HandlerPushCustody == ASSUME ChatInv, CustodyInv, NEW m \in Msg, HandlerPushes(m)
                            PROVE  CustodyInv'
<1>1. /\ ChatTypes /\ GoalsOnce /\ fate[m] = "sent"
      /\ UNCHANGED <<turn, waiter, parked>> /\ Push(m)
      /\ send' = [send EXCEPT ![m] = "done"]
  BY DEF ChatInv, CustodyInv, HandlerPushes, GoalsOnce
<1>2. /\ IsInjective(pending')
      /\ \A x \in Msg : fate'[x] = "queued" <=> x \in ToSet(pending')
      /\ \A x \in Msg : fate'[x] = "held" <=> fate[x] = "held" /\ x # m
      /\ \A x \in Msg : x # m /\ fate[x] \in {"unsent", "sent", "own"} => fate'[x] = fate[x]
  BY <1>1, PushAccounts
<1>3. MessagesAccounted'
  <2>1. \A x \in Msg : fate'[x] = "held" <=> fate[x] = "held"
    BY <1>1, <1>2
  <2> QED
    BY <1>1, <1>2, <2>1 DEF CustodyInv, MessagesAccounted
<1>4. /\ send' \in [Msg -> {"unsent", "claim", "push", "done"}]
      /\ \A x \in Msg : send'[x] = IF x = m THEN "done" ELSE send[x]
  BY <1>1 DEF GoalsOnce
<1>5. \A x \in Msg : /\ send'[x] = "unsent" => fate'[x] = "unsent"
                     /\ send'[x] \in {"claim", "push"} => fate'[x] = "sent"
  BY <1>1, <1>2, <1>4 DEF GoalsOnce
<1>6. \A x \in Msg : fate[x] = "own" => fate'[x] = "own"
  BY <1>1, <1>2
<1>7. /\ \A t \in Turn : Working(t) => turn[t].goal \in Msg
      /\ \A w \in Turn : Bears(w) => waiter[w].goal \in Msg
      /\ parked # NoPark => parked.goal \in Msg
  BY <1>1 DEF ChatTypes, Working, AtWorkPlaces, Bears, Starting
<1>8. /\ \A t \in Turn : Working(t)' <=> Working(t)
      /\ \A w \in Turn : Bears(w)' <=> Bears(w)
  BY <1>1 DEF Working, Bears
<1>9. GoalsOnce'
  BY <1>1, <1>4, <1>5, <1>6, <1>7, <1>8 DEF GoalsOnce
<1> QED
  BY <1>3, <1>9 DEF CustodyInv

\* A message that claims the slot is borne by its turn from then on.
LEMMA ClaimCustody ==
    ASSUME ChatInv, CustodyInv, NEW m \in Msg, NEW who \in {"user", "waiter"},
           NEW t \in Turn, Claim(t, who, m), Settle({m}, "own"),
           UNCHANGED <<parked, pending>>,
           fate[m] \notin {"queued", "held"},
           send' \in [Msg -> {"unsent", "claim", "push", "done"}],
           \A x \in Msg : send'[x] = IF x = m THEN "done" ELSE send[x],
           \A w \in Turn : Bears(w)' => /\ Bears(w) /\ waiter'[w].goal = waiter[w].goal
                                        /\ waiter[w].goal # m,
           parked # NoPark => parked.goal # m
    PROVE  CustodyInv'
<1>1. ChatTypes /\ GoalsOnce /\ HandsFull
  BY DEF ChatInv, CustodyInv
<1> DEFINE r == [NoTurn EXCEPT !.pc = "claimed", !.by = who, !.goal = m]
<1>2. r \in TurnRow /\ r.pc = "claimed" /\ r.goal = m /\ r.hand = <<>>
  <2>1. CASE who = "user"
    <3> DEFINE u == [NoTurn EXCEPT !.pc = "claimed", !.by = "user", !.goal = m]
    <3>1. u \in TurnRow /\ u.pc = "claimed" /\ u.goal = m /\ u.hand = <<>>
      BY ClaimRow
    <3> QED
      BY <2>1, <3>1
  <2>2. CASE who = "waiter"
    <3> DEFINE u == [NoTurn EXCEPT !.pc = "claimed", !.by = "waiter", !.goal = m]
    <3>1. u \in TurnRow /\ u.pc = "claimed" /\ u.goal = m /\ u.hand = <<>>
      BY ClaimRow
    <3> QED
      BY <2>2, <3>1
  <2> QED
    BY <2>1, <2>2
<1>3. turn' = [turn EXCEPT ![t] = r] /\ turn[t].pc = "none" /\ ~active
  BY DEF Claim, NextTurn, At
<1> HIDE DEF r
<1>4. turn'[t] = r /\ \A u \in Turn \ {t} : turn'[u] = turn[u]
  BY <1>1, <1>3 DEF ChatTypes
<1>5. \A u \in Turn : turn'[u].hand = turn[u].hand
  <2>1. turn[t].hand = <<>>
    BY <1>1, <1>3 DEF HandsFull
  <2> QED
    BY <1>2, <1>4, <2>1
<1>6. \A u \in Turn : Working(u)' => u = t
  <2>1. \A u \in Turn : ~Live(u)
    BY <1>3 DEF ChatInv, OneLiveTurn
  <2>2. \A u \in Turn : ~Working(u)
    BY <2>1 DEF Working, Live, AtWorkPlaces, Spawned, Starting
  <2> QED
    BY <1>4, <2>2 DEF Working
<1>7. \A x \in Msg : fate'[x] = IF x = m THEN "own" ELSE fate[x]
  BY DEF Settle
<1>8. MessagesAccounted'
  <2>1. \A x \in Msg : /\ fate'[x] = "queued" <=> fate[x] = "queued"
                       /\ fate'[x] = "held" <=> fate[x] = "held"
    BY <1>7
  <2> QED
    BY <1>5, <2>1 DEF CustodyInv, MessagesAccounted
<1>9. \A x \in Msg : /\ send'[x] = "unsent" => fate'[x] = "unsent"
                     /\ send'[x] \in {"claim", "push"} => fate'[x] = "sent"
  BY <1>1, <1>7 DEF GoalsOnce
<1>10. /\ \A w \in Turn : Bears(w)' => fate'[waiter'[w].goal] = "own"
       /\ parked' # NoPark => fate'[parked'.goal] = "own"
       /\ \A u \in Turn : Working(u)' => turn'[u].goal = m
  <2>1. /\ \A w \in Turn : Bears(w) => waiter[w].goal \in Msg
        /\ parked # NoPark => parked.goal \in Msg
    BY <1>1 DEF ChatTypes, Bears
  <2> QED
    BY <1>1, <1>2, <1>4, <1>6, <1>7, <2>1 DEF GoalsOnce
<1>11. \A v, w \in Turn : Bears(v)' /\ Bears(w)' /\ v # w => waiter'[v].goal # waiter'[w].goal
  BY <1>1 DEF GoalsOnce
<1>12. parked' # NoPark => \A w \in Turn : Bears(w)' => waiter'[w].goal # parked'.goal
  BY <1>1 DEF GoalsOnce
<1>13. GoalsOnce'
  <2>1. \A u \in Turn : Working(u)' => fate'[turn'[u].goal] = "own"
    BY <1>7, <1>10
  <2>2. \A u, w \in Turn : Working(u)' /\ Bears(w)' => turn'[u].goal # waiter'[w].goal
    BY <1>10
  <2>3. parked' # NoPark => \A u \in Turn : Working(u)' => turn'[u].goal # parked'.goal
    BY <1>10
  <2> QED
    BY <1>9, <1>10, <1>11, <1>12, <2>1, <2>2, <2>3 DEF GoalsOnce
<1> QED
  BY <1>8, <1>13 DEF CustodyInv

\* The handler of a message, and a waiter, claim the slot.
LEMMA ClaimsCustody ==
    ASSUME ChatInv, CustodyInv,
           (\E m \in Msg : HandlerClaims(m)) \/ (\E w \in Turn : WaiterClaims(w))
    PROVE  CustodyInv'
<1>1. ChatTypes /\ GoalsOnce
  BY DEF ChatInv, CustodyInv
<1>2. ASSUME NEW m \in Msg, HandlerClaims(m) PROVE CustodyInv'
  <2>1. PICK t \in Turn : Claim(t, "user", m)
    BY <1>2 DEF HandlerClaims
  <2>2. /\ send[m] = "claim" /\ fate[m] = "sent" /\ Settle({m}, "own")
        /\ send' = [send EXCEPT ![m] = "done"] /\ UNCHANGED <<parked, pending, waiter>>
    BY <1>1, <1>2 DEF HandlerClaims, GoalsOnce
  <2>3. /\ send' \in [Msg -> {"unsent", "claim", "push", "done"}]
        /\ \A x \in Msg : send'[x] = IF x = m THEN "done" ELSE send[x]
    BY <1>1, <2>2 DEF GoalsOnce
  <2>4. \A w \in Turn : Bears(w)' => /\ Bears(w) /\ waiter'[w].goal = waiter[w].goal
                                     /\ waiter[w].goal # m
    BY <1>1, <2>2 DEF GoalsOnce, Bears
  <2>5. parked # NoPark => parked.goal # m
    BY <1>1, <2>2 DEF GoalsOnce
  <2> QED
    BY <2>1, <2>2, <2>3, <2>4, <2>5, ClaimCustody
<1>3. ASSUME NEW w \in Turn, WaiterClaims(w) PROVE CustodyInv'
  <2> DEFINE m == waiter[w].goal
  <2>1. waiter[w].pc = "claim" /\ m \in Msg
    BY <1>1, <1>3 DEF WaiterClaims, ChatTypes
  <2>2. PICK t \in Turn : Claim(t, "waiter", m)
    BY <1>3 DEF WaiterClaims
  <2>3. /\ fate[m] = "own" /\ Settle({m}, "own") /\ waiter' = [waiter EXCEPT ![w] = NoWaiter]
        /\ UNCHANGED <<parked, pending, send>>
    BY <1>1, <1>3, <2>1 DEF WaiterClaims, WaiterEnds, GoalsOnce, Bears
  <2>4. waiter'[w] = NoWaiter /\ \A v \in Turn \ {w} : waiter'[v] = waiter[v]
    BY <1>1, <2>3 DEF ChatTypes
  <2>5. \A v \in Turn : Bears(v)' => /\ Bears(v) /\ waiter'[v].goal = waiter[v].goal
                                     /\ waiter[v].goal # m
    BY <1>1, <2>1, <2>4 DEF GoalsOnce, Bears, NoWaiter
  <2>6. parked # NoPark => parked.goal # m
    BY <1>1, <2>1 DEF GoalsOnce, Bears
  <2>7. /\ send' \in [Msg -> {"unsent", "claim", "push", "done"}] /\ send[m] = "done"
    BY <1>1, <2>1, <2>3 DEF GoalsOnce
  <2>8. \A x \in Msg : send'[x] = IF x = m THEN "done" ELSE send[x]
    BY <2>3, <2>7
  <2> HIDE DEF m
  <2> QED
    BY <2>1, <2>2, <2>3, <2>5, <2>6, <2>7, <2>8, ClaimCustody
<1> QED
  BY <1>2, <1>3

\* A waiter on its way, and one that hands its goal to the queue.
LEMMA WaitersCustody ==
    ASSUME ChatInv, CustodyInv, NEW w \in Turn,
           CheckPark(w) \/ Probe(w) \/ TakePark(w) \/ NoteResume(w) \/ WaiterRefused(w)
           \/ WaiterPushes(w)
    PROVE  CustodyInv'
<1>1. /\ ChatTypes /\ GoalsOnce /\ waiter[w] \in WaiterRow /\ parked \in ParkRow
      /\ NoWaiter.pc = "off"
  BY DEF ChatInv, CustodyInv, ChatTypes, NoWaiter
<1>2. UNCHANGED <<turn, send>>
  BY DEF CheckPark, Probe, TakePark, NoteResume, WaiterRefused, WaiterPushes
<1>3. ASSUME NEW q, waiter' = [waiter EXCEPT ![w] = q], parked' \in {parked, NoPark},
             q.pc \in {"note", "claim", "push"} => Bears(w) /\ q.goal = waiter[w].goal
      PROVE  BearersRest
  <2>1. waiter'[w] = q /\ \A v \in Turn \ {w} : waiter'[v] = waiter[v]
    BY <1>1, <1>3 DEF ChatTypes
  <2> QED
    BY <1>2, <1>3, <2>1 DEF BearersRest, Working, Bears
<1>4. ASSUME BearersRest, UNCHANGED <<pending, fate>> PROVE CustodyInv'
  BY <1>1, <1>2, <1>4, CustodyRests
<1>5. ASSUME NEW pc \in {"check", "probe", "take", "note", "claim", "push"}, WaiterGoto(w, pc)
      PROVE  \E q \in WaiterRow : /\ waiter' = [waiter EXCEPT ![w] = q] /\ q.pc = pc
                                  /\ q.goal = waiter[w].goal
  <2> DEFINE q == [waiter[w] EXCEPT !.pc = pc]
  <2>1. q \in WaiterRow /\ q.pc = pc /\ q.goal = waiter[w].goal
    BY <1>1 DEF WaiterRow
  <2>2. waiter' = [waiter EXCEPT ![w] = q]
    BY <1>5 DEF WaiterGoto
  <2> QED
    BY <2>1, <2>2
<1>6. CASE CheckPark(w) \/ Probe(w) \/ NoteResume(w) \/ WaiterRefused(w)
  <2>1. /\ UNCHANGED <<pending, fate, parked>>
        /\ \/ WaiterEnds(w)
           \/ \E pc \in {"check", "probe", "take"} : WaiterGoto(w, pc)
           \/ Bears(w) /\ \E pc \in {"claim", "push"} : WaiterGoto(w, pc)
    BY <1>6 DEF CheckPark, Probe, NoteResume, WaiterRefused, Bears
  <2>2. CASE WaiterEnds(w)
    BY <1>1, <1>3, <1>4, <2>1, <2>2 DEF WaiterEnds
  <2>3. CASE \E pc \in {"check", "probe", "take"} : WaiterGoto(w, pc)
    <3>1. PICK q \in WaiterRow : /\ waiter' = [waiter EXCEPT ![w] = q]
                                 /\ q.pc \in {"check", "probe", "take"}
      BY <1>5, <2>3
    <3> QED
      BY <1>3, <1>4, <2>1, <3>1
  <2>4. CASE Bears(w) /\ \E pc \in {"claim", "push"} : WaiterGoto(w, pc)
    <3>1. PICK q \in WaiterRow : /\ waiter' = [waiter EXCEPT ![w] = q]
                                 /\ q.goal = waiter[w].goal
      BY <1>5, <2>4
    <3> QED
      BY <1>3, <1>4, <2>1, <2>4, <3>1
  <2> QED
    BY <2>1, <2>2, <2>3, <2>4
<1>7. CASE TakePark(w)
  <2>1. parked' = NoPark /\ UNCHANGED <<pending, fate>> /\ waiter[w].pc = "take"
    BY <1>7 DEF TakePark
  <2>2. CASE WaiterEnds(w)
    BY <1>1, <1>3, <1>4, <2>1, <2>2 DEF WaiterEnds
  <2>3. CASE ~WaiterEnds(w)
    <3> DEFINE q == [goal |-> parked.goal, pc |-> "note", resumes |-> parked.resumes]
    <3>1. waiter' = [waiter EXCEPT ![w] = q] /\ parked # NoPark
      BY <1>7, <2>3 DEF TakePark
    <3>2. q.pc = "note" /\ q.goal = parked.goal /\ parked.goal \in Msg
      BY <1>1, <3>1 DEF ChatTypes
    <3> HIDE DEF q
    <3>3. waiter'[w] = q /\ \A v \in Turn \ {w} : waiter'[v] = waiter[v]
      BY <1>1, <3>1 DEF ChatTypes
    <3>4. /\ \A t \in Turn : Working(t)' <=> Working(t)
          /\ \A v \in Turn \ {w} : Bears(v)' <=> Bears(v)
      BY <1>2, <3>3 DEF Working, Bears
    <3>5. GoalsOnce'
      <4>1. \A v \in Turn : Bears(v)' => fate'[waiter'[v].goal] = "own"
        BY <1>1, <2>1, <3>1, <3>2, <3>3, <3>4 DEF GoalsOnce
      <4>2. \A t, v \in Turn : Working(t)' /\ Bears(v)' => turn'[t].goal # waiter'[v].goal
        BY <1>1, <1>2, <3>1, <3>2, <3>3, <3>4 DEF GoalsOnce
      <4>3. \A u, v \in Turn : Bears(u)' /\ Bears(v)' /\ u # v
                                 => waiter'[u].goal # waiter'[v].goal
        BY <1>1, <3>1, <3>2, <3>3, <3>4 DEF GoalsOnce
      <4>4. \A t \in Turn : Working(t)' => fate'[turn'[t].goal] = "own"
        BY <1>1, <1>2, <2>1, <3>4 DEF GoalsOnce
      <4> QED
        BY <1>1, <1>2, <2>1, <4>1, <4>2, <4>3, <4>4 DEF GoalsOnce
    <3>6. MessagesAccounted'
      BY <1>2, <2>1 DEF CustodyInv, MessagesAccounted
    <3> QED
      BY <3>5, <3>6 DEF CustodyInv
  <2> QED
    BY <2>2, <2>3
<1>8. CASE WaiterPushes(w)
  <2> DEFINE m == waiter[w].goal
  <2>1. /\ Bears(w) /\ m \in Msg /\ Push(m) /\ waiter' = [waiter EXCEPT ![w] = NoWaiter]
        /\ parked' = parked
    BY <1>1, <1>8 DEF WaiterPushes, WaiterEnds, Bears, ChatTypes
  <2>2. fate[m] = "own"
    BY <1>1, <2>1 DEF GoalsOnce
  <2> HIDE DEF m
  <2>3. /\ IsInjective(pending')
        /\ \A x \in Msg : fate'[x] = "queued" <=> x \in ToSet(pending')
        /\ \A x \in Msg : fate'[x] = "held" <=> fate[x] = "held" /\ x # m
        /\ \A x \in Msg : x # m /\ fate[x] \in {"unsent", "sent", "own"} => fate'[x] = fate[x]
    BY <2>1, <2>2, PushAccounts
  <2>4. MessagesAccounted'
    <3>1. \A x \in Msg : fate'[x] = "held" <=> fate[x] = "held"
      BY <2>2, <2>3
    <3> QED
      BY <1>2, <2>3, <3>1 DEF CustodyInv, MessagesAccounted
  <2>5. waiter'[w] = NoWaiter /\ \A v \in Turn \ {w} : waiter'[v] = waiter[v]
    BY <1>1, <2>1 DEF ChatTypes
  <2>6. /\ \A t \in Turn : Working(t)' <=> Working(t)
        /\ \A v \in Turn : Bears(v)' => v # w /\ Bears(v)
    BY <1>1, <1>2, <2>5 DEF Working, Bears
  <2>7. /\ \A t \in Turn : Working(t) => turn[t].goal \in Msg /\ turn[t].goal # m
        /\ \A v \in Turn \ {w} : Bears(v) => waiter[v].goal \in Msg /\ waiter[v].goal # m
        /\ parked # NoPark => parked.goal \in Msg /\ parked.goal # m
    BY <1>1, <2>1 DEF ChatTypes, Working, AtWorkPlaces, Bears, Starting, GoalsOnce, m
  <2>8. \A x \in Msg : /\ send'[x] = "unsent" => fate'[x] = "unsent"
                       /\ send'[x] \in {"claim", "push"} => fate'[x] = "sent"
    BY <1>1, <1>2, <2>2, <2>3 DEF GoalsOnce
  <2>9. /\ \A t \in Turn : Working(t)' => fate'[turn'[t].goal] = "own"
        /\ \A v \in Turn : Bears(v)' => fate'[waiter'[v].goal] = "own"
        /\ parked' # NoPark => fate'[parked'.goal] = "own"
    BY <1>1, <1>2, <2>1, <2>3, <2>5, <2>6, <2>7 DEF GoalsOnce
  <2>10. GoalsOnce'
    BY <1>1, <1>2, <2>1, <2>5, <2>6, <2>8, <2>9 DEF GoalsOnce
  <2> QED
    BY <2>4, <2>10 DEF CustodyInv
<1> QED
  BY <1>6, <1>7, <1>8

\* A turn parks: its message is the park's from then on.
LEMMA ParkCustody == ASSUME ChatInv, CustodyInv, NEW t \in Turn, Park(t) PROVE CustodyInv'
<1>1. ChatTypes /\ GoalsOnce /\ OneLiveTurn
  BY DEF ChatInv, CustodyInv
<1>2. /\ turn[t].pc = "mission" /\ Goto(t, "tail") /\ UNCHANGED <<pending, fate, send>>
      /\ parked' = [goal |-> turn[t].goal, resumes |-> turn[t].resumes]
      /\ waiter' = [waiter EXCEPT ![t] = [NoWaiter EXCEPT !.pc = "check"]]
  BY DEF Park, At
<1>3. PICK r \in TurnRow : turn' = [turn EXCEPT ![t] = r] /\ r.pc = "tail"
                           /\ r.hand = turn[t].hand
  BY <1>1, <1>2, GotoRow DEF Pcs, Spawned
<1>4. turn'[t] = r /\ \A u \in Turn \ {t} : turn'[u] = turn[u]
  BY <1>1, <1>3 DEF ChatTypes
<1>5. waiter'[t].pc = "check" /\ \A v \in Turn \ {t} : waiter'[v] = waiter[v]
  BY <1>1, <1>2 DEF ChatTypes, NoWaiter
<1>6. Working(t) /\ Live(t)
  BY <1>2 DEF Working, AtWorkPlaces, Spawned, Live
<1>7. \A u \in Turn : ~Working(u)'
  <2>1. \A u \in Turn \ {t} : ~Live(u)
    BY <1>1, <1>6 DEF OneLiveTurn
  <2>2. \A u \in Turn \ {t} : ~Working(u)
    BY <2>1 DEF Working, Live, AtWorkPlaces, Spawned, Starting
  <2>3. ~Working(t)'
    BY <1>3, <1>4 DEF Working, AtWorkPlaces, Spawned, Starting
  <2> QED
    BY <1>4, <2>2, <2>3 DEF Working
<1>8. \A v \in Turn : Bears(v)' => v # t /\ Bears(v) /\ waiter'[v].goal = waiter[v].goal
  BY <1>5 DEF Bears
<1>9. parked'.goal = turn[t].goal
  BY <1>2
<1>10. GoalsOnce'
  BY <1>1, <1>2, <1>6, <1>7, <1>8, <1>9 DEF GoalsOnce
<1>11. MessagesAccounted'
  <2>1. \A u \in Turn : turn'[u].hand = turn[u].hand
    BY <1>3, <1>4
  <2> QED
    BY <1>2, <2>1 DEF CustodyInv, MessagesAccounted
<1> QED
  BY <1>10, <1>11 DEF CustodyInv

\* Every step keeps each message in one place.
LEMMA CustodyStep == ASSUME ChatInv, CustodyInv, [CNext]_chat PROVE CustodyInv'
<1>1. ASSUME NEW m \in Msg, SendMessage(m) \/ Handler(m) PROVE CustodyInv'
  BY <1>1, HandlerCustody, HandlerPushCustody, ClaimsCustody DEF Handler
<1>2. ASSUME NEW t \in Turn,
             Opening(t) \/ Running(t) \/ Closing(t) \/ Ask(t) \/ ContinueRound(t) \/ Panic(t)
      PROVE  CustodyInv'
  BY <1>2, MovesCustody, HandsCustody, ParkCustody DEF Running, Closing
<1>3. ASSUME NEW w \in Turn, Waiting(w) PROVE CustodyInv'
  BY <1>3, WaitersCustody, ClaimsCustody DEF Waiting
<1>4. CASE Stop
  BY <1>4, StopCustody
<1>5. CASE UNCHANGED chat
  <2>1. UNCHANGED <<pending, parked, send, turn, waiter, fate>>
    BY <1>5 DEF chat
  <2>2. BearersRest
    BY <2>1 DEF BearersRest, Working, Bears
  <2> QED
    BY <2>1, <2>2, CustodyRests DEF ChatInv
<1> QED
  BY <1>1, <1>2, <1>3, <1>4, <1>5 DEF CNext

\* No message has been sent.
LEMMA CustodyStarts == CInit => CustodyInv
<1> SUFFICES ASSUME CInit PROVE CustodyInv
  OBVIOUS
<1>1. /\ pending = <<>> /\ parked = NoPark /\ send = [m \in Msg |-> "unsent"]
      /\ turn = [t \in Turn |-> NoTurn] /\ waiter = [t \in Turn |-> NoWaiter]
      /\ fate = [m \in Msg |-> "unsent"]
  BY DEF CInit
<1>2. \A t \in Turn : turn[t].pc = "none" /\ turn[t].hand = <<>> /\ waiter[t].pc = "off"
  BY <1>1 DEF NoTurn, NoWaiter
<1>3. \A t \in Turn : ~Working(t) /\ ~Bears(t)
  BY <1>2 DEF Working, Bears, AtWorkPlaces, Spawned, Starting
<1>4. GoalsOnce
  BY <1>1, <1>3 DEF GoalsOnce
<1>5. IsInjective(<<>>) /\ ToSet(<<>>) = {}
  BY DEF IsInjective, ToSet
<1>6. MessagesAccounted
  BY <1>1, <1>2, <1>5 DEF MessagesAccounted
<1> QED
  BY <1>4, <1>6 DEF CustodyInv

\* Every reachable state.
LEMMA ChatEnough == ChatInv /\ CustodyInv => ChatSound
<1> SUFFICES ASSUME ChatInv, CustodyInv PROVE ChatSound
  OBVIOUS
<1>1. ChatTypes
  BY DEF ChatInv
<1>2. \A t \in Turn : turn[t] \in TurnRow
  BY <1>1 DEF ChatTypes
<1>3. parked.goal \in Msg \cup {0} /\ parked.resumes \in 0..ErrorRounds
  BY <1>1 DEF ChatTypes, ParkRow
<1>4. ChatTypeOK
  BY <1>1, <1>2, <1>3 DEF ChatTypes, ChatTypeOK, TurnRow
<1> QED
  BY <1>4 DEF ChatInv, CustodyInv, ChatSound

\* The two invariants are inductive together.
LEMMA ChatInvariance == CSpec => [](ChatInv /\ CustodyInv)
  BY ChatStarts, ChatStep, CustodyStarts, CustodyStep, PTL DEF CSpec

\* try_claim, release, register_external_run, push, drain and the put-back of
\* interject: in every reachable state at most one turn is live and the slot
\* tells, Stop finds the turn that works, a message is queued or in hand at
\* most once and is neither only when a step has settled it, and no baseline
\* outlives the turns.  A seed that fails and a panic settle what is in hand by
\* losing it.
THEOREM ChatHolds == CSpec => []ChatSound
  BY ChatInvariance, ChatEnough, PTL

\* spawn_park_waiter, note_resume and take_resume_count: in every reachable
\* state the resumes are paid for, by turns of the user or by counts that one
\* waiter noted over that of another.
THEOREM ResumesHold == CSpec => []ResumesBounded
<1>1. ChatInv => ResumesBounded
  BY DEF ChatInv
<1> QED
  BY <1>1, ChatInvariance, PTL
=============================================================================
