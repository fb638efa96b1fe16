------------------------------- MODULE Mission -------------------------------
(***************************************************************************)
(* The continuation loop of a chat turn (chat_harness.rs): after its first *)
(* run a mission is planned, seeded and run again until a round finds      *)
(* nothing more to do twice over, a budget is spent, or Stop is pressed.   *)
(*                                                                         *)
(* A harness run is an external step here: what its report may say is in   *)
(* Report.  An item is new, open, done or dropped (cancelled); the         *)
(* planner's titles, and the closed-title filter over them, are the choice *)
(* of the new or open items a plan seeds.                                  *)
(***************************************************************************)
EXTENDS Naturals, FiniteSets

CONSTANTS
    Item,             \* items the planner may put on the board
    RoundsMax,        \* CONTINUATION_ROUNDS_MAX
    DryRounds,        \* CONTINUATION_DRY_ROUNDS
    MissionErrors     \* CONTINUATION_ERROR_ROUNDS

ASSUME MissionAssumption ==
    /\ IsFiniteSet(Item)
    /\ RoundsMax \in Nat /\ DryRounds \in Nat \ {0} /\ MissionErrors \in Nat

VARIABLES
    at,          \* where the loop is
    board,       \* the status of each item in the store
    report,      \* the turn's cumulative LongHorizonReport
    evidence,    \* run_evidence: the first run acted
    budget,      \* RoundBudget
    stopped,     \* the run handle's cancel token
    ending,      \* the MissionEnd, "none" before the loop has ended
    faults,      \* history: error stops, and fallback plans that seeded nothing
    quiet        \* history: rounds since the last one that ran

mission == <<at, board, report, evidence, budget, stopped, ending, faults, quiet>>

\* What one harness run reports: an error stop is a SourceError or RunnerErrors
\* with the class of its message, "budget" every deliberate stop.
Report == {r \in [stop : {"done", "error", "budget"}, fault : {"none", "hard", "transient"},
                  progress : BOOLEAN, satisfied : BOOLEAN,
                  unmet : SUBSET Item, verified : SUBSET Item] :
              /\ r.stop = "error" => r.fault # "none"
              /\ r.unmet \cap r.verified = {}}

Open(b) == {i \in Item : b[i] = "open"}

\* Where a run may leave the board: it closes open items, has dropped what it
\* reports as unmet and completed what it reports as verified.
RunLeaves(b, r) ==
    {c \in [Item -> {"new", "open", "done", "dropped"}] :
        /\ \A i \in Item : c[i] # b[i] => b[i] = "open" /\ c[i] # "new"
        /\ \A i \in r.unmet : b[i] = "open" /\ c[i] = "dropped"
        /\ \A i \in r.verified : b[i] = "open" /\ c[i] = "done"}

NoBudget == [errors |-> 0, dry |-> 0, rounds |-> 0, charged |-> FALSE,
             reseeded |-> {}]

\* The loop starts with the report of the first run.
MInit ==
    /\ at = "judge"
    /\ \E r \in Report, b \in [Item -> {"new", "open"}] :
          /\ board \in RunLeaves(b, r)
          /\ report = [stop |-> r.stop, fault |-> r.fault, unmet |-> r.unmet,
                       verified |-> r.verified]
          /\ faults = IF r.stop = "error" THEN 1 ELSE 0
    /\ evidence \in BOOLEAN
    /\ budget = NoBudget
    /\ stopped = FALSE
    /\ ending = "none"
    /\ quiet = 0

Ends(cause) == at' = "finish" /\ ending' = cause

\* giveup_end: a fault that is transient, or a provider that does not answer
\* the probe, parks the turn.
GiveUp(terminal, answered) ==
    IF report.fault = "transient" \/ ~answered THEN "parked" ELSE terminal

(***************************************************************************)
(* stop_permits_round.                                                     *)
(***************************************************************************)

\* Mutant: the stop is charged whenever the loop comes back to it.
ChargesAlways == TRUE

Charges == ~budget.charged

\* A plan that drained continues if the run acted; a deliberate stop never does.
JudgeStop ==
    /\ at = "judge"
    /\ report.stop # "error"
    /\ IF report.stop = "done" /\ evidence THEN at' = "dry" /\ UNCHANGED ending
                                           ELSE Ends("none")
    /\ UNCHANGED <<board, report, evidence, budget, stopped, faults, quiet>>

\* An error stop: a mission if the run acted or the store has open items
\* (a count that fails reads as none); charged once, after a health probe.
JudgeError(answered, counted) ==
    /\ at = "judge"
    /\ report.stop = "error"
    /\ LET isMission == evidence \/ (counted /\ Open(board) # {})
           spent == budget.errors + 1
       IN  CASE ~isMission -> Ends("none") /\ UNCHANGED budget
             [] isMission /\ ~Charges -> at' = "dry" /\ UNCHANGED <<ending, budget>>
             [] OTHER ->
                  /\ budget' = [budget EXCEPT !.errors = spent, !.charged = TRUE]
                  /\ IF spent <= MissionErrors
                     THEN at' = "dry" /\ UNCHANGED ending
                     ELSE Ends(GiveUp("errors", answered))
    /\ UNCHANGED <<board, report, evidence, stopped, faults, quiet>>

(***************************************************************************)
(* reseed_before_dry_end and the plain conjuncts of the loop.              *)
(***************************************************************************)

\* verified_state_fingerprint.
Fingerprint == <<report.unmet, report.verified>>

Reseeds == report.unmet # {} /\ Fingerprint \notin budget.reseeded

CheckDry ==
    /\ at = "dry"
    /\ CASE budget.dry < DryRounds -> at' = "gate" /\ UNCHANGED budget
         [] budget.dry >= DryRounds /\ Reseeds ->
              /\ budget' = [budget EXCEPT !.reseeded = {Fingerprint}, !.dry = 0]
              /\ at' = "gate"
         [] OTHER -> at' = "finish" /\ UNCHANGED budget
    /\ UNCHANGED <<board, report, evidence, stopped, ending, faults, quiet>>

\* Mutant: a round is not counted.
GateUncounted ==
    /\ at = "gate"
    /\ at' = IF stopped \/ budget.rounds >= RoundsMax THEN "finish" ELSE "plan"
    /\ UNCHANGED <<board, report, evidence, budget, stopped, ending, faults, quiet>>

Gate ==
    /\ at = "gate"
    /\ IF stopped \/ budget.rounds >= RoundsMax
       THEN at' = "finish" /\ UNCHANGED budget
       ELSE at' = "plan" /\ budget' = [budget EXCEPT !.rounds = @ + 1]
    /\ UNCHANGED <<board, report, evidence, stopped, ending, faults, quiet>>

\* plan_continuation: a Stop while it plans ends the loop.
PlanRound ==
    /\ at = "plan"
    /\ at' = IF stopped THEN "finish" ELSE "seed"
    /\ UNCHANGED <<board, report, evidence, budget, stopped, ending, faults, quiet>>

(***************************************************************************)
(* seed_round.                                                             *)
(***************************************************************************)

\* The plan seeds new items or names open ones, and the count confirms work.
SeedRound ==
    /\ at = "seed"
    /\ \E seeded \in SUBSET {i \in Item : board[i] \in {"new", "open"}} \ {{}} :
          board' = [i \in Item |-> IF i \in seeded THEN "open" ELSE board[i]]
    /\ at' = "run"
    /\ UNCHANGED <<report, evidence, budget, stopped, ending, faults, quiet>>

\* The planner fell back and nothing new came of it: an error round.
SeedFallback(answered) ==
    /\ at = "seed"
    /\ budget' = [budget EXCEPT !.errors = @ + 1]
    /\ faults' = faults + 1
    /\ quiet' = quiet + 1
    /\ IF budget.errors + 1 > MissionErrors
       THEN Ends(GiveUp("starved", answered))
       ELSE at' = "judge" /\ UNCHANGED ending
    /\ UNCHANGED <<board, report, evidence, stopped>>

Closed(i) == board[i] \in {"done", "dropped"}

\* Mutant: an item that is open already counts as reopened.
ReopenableOpen == report.unmet

\* reopen_top_unmet: only an item that is closed moves.
Reopenable == {i \in report.unmet : Closed(i)}

\* The planner spoke and nothing new came of it: a standing wall is reopened.
SeedReopens ==
    /\ at = "seed"
    /\ \E i \in Reopenable : board' = [board EXCEPT ![i] = "open"]
    /\ quiet' = quiet + 1
    /\ at' = "judge"
    /\ UNCHANGED <<report, evidence, budget, stopped, ending, faults>>

\* Or none is, there being none that is closed, or the store failing to read
\* or to reopen each of them: the round is dry.
SeedDry ==
    /\ at = "seed"
    /\ budget' = [budget EXCEPT !.dry = @ + 1]
    /\ quiet' = quiet + 1
    /\ at' = "judge"
    /\ UNCHANGED <<board, report, evidence, stopped, ending, faults>>

(***************************************************************************)
(* run_round with account_round and fold_round.                            *)
(***************************************************************************)

\* A round that did nothing is dry unless it ended in an error, found its work
\* already done, or checks of walked-away work still fail.
DryAfter(r) ==
    IF r.progress THEN 0
    ELSE IF r.stop = "error" \/ r.satisfied \/ r.unmet \cup report.unmet # {}
         THEN budget.dry
         ELSE budget.dry + 1

RunRound(r) ==
    /\ at = "run"
    /\ board' \in RunLeaves(board, r)
    /\ budget' = [budget EXCEPT !.dry = DryAfter(r), !.charged = FALSE]
    /\ report' = [stop |-> r.stop,
                  unmet |-> report.unmet \cup r.unmet,
                  verified |-> report.verified \cup r.verified,
                  fault |-> IF r.fault = "none" THEN report.fault ELSE r.fault]
    /\ faults' = IF r.stop = "error" THEN faults + 1 ELSE faults
    /\ quiet' = 0
    /\ at' = "judge"
    /\ UNCHANGED <<evidence, stopped, ending>>

PressStop ==
    /\ at \notin {"finish", "end"}
    /\ ~stopped
    /\ stopped' = TRUE
    /\ UNCHANGED <<at, board, report, evidence, budget, ending, faults, quiet>>

\* finish_mission names the ending the loop has not named.
FinishMission ==
    /\ at = "finish"
    /\ at' = "end"
    /\ ending' = CASE ending # "none" -> ending
                   [] ending = "none" /\ ~evidence -> "single"
                   [] ending = "none" /\ evidence /\ stopped -> "cancelled"
                   [] ending = "none" /\ evidence /\ ~stopped
                      /\ budget.dry >= DryRounds -> "dry"
                   [] ending = "none" /\ evidence /\ ~stopped
                      /\ budget.dry < DryRounds /\ budget.rounds >= RoundsMax -> "rounds"
                   [] OTHER -> "deliberate"
    /\ UNCHANGED <<board, report, evidence, budget, stopped, faults, quiet>>
----------------------------------------------------------------------------
LoopStep ==
    \/ JudgeStop
    \/ \E answered, counted \in BOOLEAN : JudgeError(answered, counted)
    \/ CheckDry \/ Gate \/ PlanRound
    \/ SeedRound \/ \E answered \in BOOLEAN : SeedFallback(answered)
    \/ SeedReopens \/ SeedDry
    \/ \E r \in Report : RunRound(r)
    \/ FinishMission

MNext == LoopStep \/ PressStop

MSpec == MInit /\ [][MNext]_mission

\* Every call of the loop returns: planner, probe and store are bounded by the
\* transport's silence window, a run by Harness.RunEnds.
MFairness == WF_mission(LoopStep)

FairMSpec == MSpec /\ MFairness
----------------------------------------------------------------------------
\* Types: the counters stay within their budgets, one past for the errors.
MTypeOK ==
    /\ at \in {"judge", "dry", "gate", "plan", "seed", "run", "finish", "end"}
    /\ board \in [Item -> {"new", "open", "done", "dropped"}]
    /\ report.unmet \subseteq Item /\ report.verified \subseteq Item
    /\ budget.errors \in 0..MissionErrors + 1
    /\ budget.dry \in 0..DryRounds
    /\ budget.rounds \in 0..RoundsMax

\* stop_charged: a stop is charged to the error budget at most once, however
\* often the loop comes back to it without a run in between.
ErrorChargedOnce == budget.errors <= faults

\* DryRounds is the real exit, RoundsMax only a brake: rounds that seed
\* nothing end the mission after the errors left, one reopening of each
\* standing wall, and two dry spells around one reseed.
QuietRoundsBounded == quiet <= MissionErrors + Cardinality(Item) + 2 * DryRounds

\* reseed_before_dry_end: a mission that acted and was not stopped ends dry
\* over failing checks only after a reseed armed against the same verified state.
DryEndAfterReseed ==
    ending = "dry" /\ report.unmet # {} => Fingerprint \in budget.reseeded

\* CONTINUATION_ERROR_ROUNDS: giving up on errors, parked or not, has cost
\* every retry of the budget.
GaveUpAfterBudget ==
    ending \in {"errors", "starved", "parked"} => faults > MissionErrors

\* The budgets of a mission: a stop is charged once, giving up on errors has
\* cost the whole budget, and a dry end over failing checks was reseeded.
MissionSound == MTypeOK /\ ErrorChargedOnce /\ DryEndAfterReseed /\ GaveUpAfterBudget

\* The continuation loop ends, whatever the planner, the provider and the
\* runs do.
MissionEnds == <>(at = "end")
=============================================================================
