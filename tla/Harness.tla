------------------------------ MODULE Harness ------------------------------
(***************************************************************************)
(* The long-horizon run (crates/nanna-agent/src/harness.rs): pick an item  *)
(* of the plan, run a model step on it, let the item's acceptance check    *)
(* judge the step, and re-ask the checks of items closed earlier.          *)
(*                                                                         *)
(* The plan (TaskSource), the model (StepRunner) and the files the checks  *)
(* read are outside: their answers are choices.  A call to them is one     *)
(* action, so a cancel may arrive between any two of them; a check and the *)
(* complete() or reopen() that its verdict leads to are one.  The plan is  *)
(* flat: next() may hand out any open item.                                *)
(***************************************************************************)
EXTENDS Integers, FiniteSets

CONSTANTS
    Item,           \* every item the plan may ever hold
    Planned,        \* the items of the plan when the run starts
    Asked,          \* items the interjector may add: messages of the user
    CheckOf,        \* CheckOf[i]: the identity of i's check, or NoCheck
    NoCheck,
    Precheck,       \* cfg.precheck_acceptance_items
    MaxSteps,       \* cfg.max_steps_per_item
    MaxReplans,     \* cfg.max_replans_per_item
    MaxErrors,      \* cfg.max_consecutive_errors
    ItemErrors,     \* ITEM_RUNNER_ERRORS_MAX
    Ladder,         \* NARRATION_LADDER_STEPS
    Outcomes,       \* the step outcomes the model produces
    FreshMax,       \* bound on the steps that bring new evidence
    ChecksHang,     \* whether a check may produce no verdict
    SourceFails     \* whether a call to the task source may fail

Check   == {CheckOf[i] : i \in Item} \ {NoCheck}
Checked == {i \in Item : CheckOf[i] # NoCheck}

\* What a step did: acted with a novel successful call, acted and moved the
\* failure without one, only talked while the failure shifted, acted in vain,
\* repeated the last step's calls, talked, or looped in prose.
Outcome  == {"novel", "moved", "shifted", "vain", "repeat", "talk", "loop"}
Acted    == {"novel", "moved", "vain", "repeat"}
NewFail  == {"moved", "shifted"}
Evidence == NewFail \cup {"novel"}

ASSUME HarnessAssumption ==
    /\ IsFiniteSet(Item)
    /\ Planned \subseteq Item /\ Asked \subseteq Item \ Planned
    /\ Precheck \subseteq Planned
    /\ MaxSteps \in Nat \ {0} /\ MaxReplans \in Nat /\ MaxErrors \in Nat \ {0}
    /\ ItemErrors \in Nat \ {0} /\ Ladder \in Nat /\ FreshMax \in Nat
    /\ Outcomes \subseteq Outcome
    /\ ChecksHang \in BOOLEAN /\ SourceFails \in BOOLEAN

VARIABLES
    plan,       \* plan[i]: "absent", "open", "done" or "abandoned"
    world,      \* world[c]: whether check c holds of the files right now
    at,         \* where the loop is, with the locals of the iteration
    progress,   \* per-item bookkeeping; a removed entry is a fresh one
    ledger,     \* the run's lists, sets and counters
    cancelled,  \* the cancel token
    fresh,      \* steps that brought new evidence so far
    ran,        \* items that have had a step (history)
    stop        \* StopReason, or "running"

hvars == <<plan, world, at, progress, ledger, cancelled, fresh, ran, stop>>

Fresh == [stalled |-> 0, replans |-> 0, dry |-> 0, narration |-> 0,
          errors |-> 0, prechecked |-> FALSE]

Goto(pc) == at' = [pc |-> pc]
Stop(why) == stop' = why /\ at' = [pc |-> "end"]
At(pc)   == at.pc = pc /\ stop = "running"

\* The source's answers to abandon(), complete() and reopen().
Answers == {"ok"} \cup (IF SourceFails THEN {"err"} ELSE {})

\* AcceptanceVerdict: a check that timed out, or passed on evidence that had
\* moved, is unknown.
Verdict == {"pass", "fail", "unknown"}
Silent  == IF ChecksHang THEN {"unknown"} ELSE {}

\* Mutant: a check that said nothing reads as a pass.
VerdictsTrusting(i) == {IF world[CheckOf[i]] THEN "pass" ELSE "fail"}
                       \cup {"pass" : v \in Silent}

\* What a run of i's check may say.
Verdicts(i) == {IF world[CheckOf[i]] THEN "pass" ELSE "fail"} \cup Silent
-----------------------------------------------------------------------------
EmptyLedger ==
    [verified |-> {}, abandoned |-> {}, unmet |-> {}, unverifiable |-> {},
     reopened |-> {}, precheck |-> Precheck,
     outcomes |-> [c \in Check |-> "none"], completed |-> 0, walkedAway |-> 0,
     revived |-> 0, regressed |-> 0, errors |-> 0, unknown |-> FALSE]

HInit ==
    /\ plan = [i \in Item |-> IF i \in Planned THEN "open" ELSE "absent"]
    /\ world \in [Check -> BOOLEAN]
    /\ at = [pc |-> "head"]
    /\ progress = [i \in Item |-> Fresh]
    /\ ledger = EmptyLedger
    /\ cancelled = FALSE /\ fresh = 0 /\ ran = {} /\ stop = "running"

(* The ledger after an event.                                              *)

\* note_check_outcome(): what check c was last seen to say.
Noted(l, i, v) == [l EXCEPT !.outcomes[CheckOf[i]] = v]

\* The check was last seen failing and passes now.
Flipped(l, i, v) == v = "pass" /\ l.outcomes[CheckOf[i]] = "fail"

\* A flip replenishes the budget of every open item.
Replenished(p, flip) ==
    IF flip THEN [i \in Item |-> [p[i] EXCEPT !.stalled = 0]] ELSE p

Completed(l, i) ==
    [l EXCEPT !.completed = @ + 1, !.errors = 0,
              !.verified = IF i \in Checked THEN @ \cup {i} ELSE @]

\* record_abandonment(): a checked item goes to the sweeps.
WalkedAway(l, i) ==
    [l EXCEPT !.walkedAway = @ + 1,
              !.abandoned = IF i \in Checked THEN @ \cup {i} ELSE @,
              !.unverifiable = IF i \in Checked THEN @ ELSE @ \cup {i}]

Minus1(n) == IF n = 0 THEN 0 ELSE n - 1     \* saturating_sub(1)

\* Mutant: a revival is not remembered.
RevivedForgotten(l, i) ==
    [l EXCEPT !.precheck = @ \cup {i}, !.revived = @ + 1,
              !.walkedAway = Minus1(@)]

Revived(l, i) ==
    [l EXCEPT !.reopened = @ \cup {i}, !.precheck = @ \cup {i},
              !.revived = @ + 1, !.walkedAway = Minus1(@)]

Regressed(l, i) ==
    [l EXCEPT !.reopened = @ \cup {i}, !.completed = Minus1(@),
              !.regressed = @ + 1]
-----------------------------------------------------------------------------
(* The head of an iteration, and the choice of an item.                    *)

StopCancelled ==
    /\ At("head") /\ cancelled
    /\ Stop("Cancelled")
    /\ UNCHANGED <<plan, world, progress, ledger, cancelled, fresh, ran>>

\* The wall clock or the token budget has run out.
StopExhausted ==
    /\ At("head") /\ ~cancelled
    /\ Stop("Exhausted")
    /\ UNCHANGED <<plan, world, progress, ledger, cancelled, fresh, ran>>

\* The interjector admits the messages that wait, possibly none.
Interject(S) ==
    /\ At("head") /\ ~cancelled
    /\ \A i \in S : plan[i] = "absent"
    /\ plan' = [i \in Item |-> IF i \in S THEN "open" ELSE plan[i]]
    /\ Goto("next")
    /\ UNCHANGED <<world, progress, ledger, cancelled, fresh, ran, stop>>

NextFails ==
    /\ At("next") /\ SourceFails
    /\ Stop("SourceError")
    /\ UNCHANGED <<plan, world, progress, ledger, cancelled, fresh, ran>>

\* item_gate(): the item has used up its steps, and then its replans.
Stalled(i) == progress[i].stalled >= MaxSteps
Exhausted(i) == Stalled(i) /\ progress[i].replans >= MaxReplans

Selects(i) == At("next") /\ plan[i] = "open"

\* Close i as abandoned and go on, or stop if the source cannot.
Abandon(i, l) ==
    \E ans \in Answers :
       IF ans = "ok"
       THEN /\ plan' = [plan EXCEPT ![i] = "abandoned"]
            /\ ledger' = WalkedAway(l, i)
            /\ progress' = [progress EXCEPT ![i] = Fresh]
            /\ Goto("head") /\ UNCHANGED stop
       ELSE /\ Stop("SourceError")
            /\ ledger' = l
            /\ UNCHANGED <<plan, progress>>

AbandonExhausted(i) ==
    /\ Selects(i) /\ Exhausted(i)
    /\ Abandon(i, ledger)
    /\ UNCHANGED <<world, cancelled, fresh, ran>>

PrecheckDue(i) ==
    ~progress[i].prechecked /\ i \in ledger.precheck \cap Checked

\* The step that follows the gate: a replan, an escalated ask or an execute.
StepAt(i) ==
    [pc |-> "step", item |-> i,
     kind |-> IF ~Stalled(i) THEN "execute"
              ELSE IF progress[i].dry > 0 THEN "escalate" ELSE "replan"]

BeginStep(i) ==
    /\ Selects(i) /\ ~Exhausted(i) /\ ~PrecheckDue(i)
    /\ at' = StepAt(i)
    /\ progress' = [progress EXCEPT ![i].prechecked = TRUE]
    /\ UNCHANGED <<plan, world, ledger, cancelled, fresh, ran, stop>>

\* precheck(): a check that passes before any step completes the item.
PrecheckItem(i, v) ==
    /\ Selects(i) /\ ~Exhausted(i) /\ PrecheckDue(i)
    /\ v \in Verdicts(i)
    /\ LET p == Replenished([progress EXCEPT ![i].prechecked = TRUE],
                            Flipped(ledger, i, v))
           l == IF v = "unknown" THEN [ledger EXCEPT !.unknown = TRUE]
                ELSE Noted(ledger, i, v)
       IN \/ /\ v = "pass"
             /\ plan' = [plan EXCEPT ![i] = "done"]
             /\ ledger' = Completed(l, i)
             /\ progress' = [p EXCEPT ![i] = Fresh]
             /\ Goto("head")
          \/ /\ v # "pass" \/ "err" \in Answers
             /\ at' = StepAt(i) /\ ledger' = l /\ progress' = p
             /\ UNCHANGED plan
    /\ UNCHANGED <<world, cancelled, fresh, ran, stop>>
-----------------------------------------------------------------------------
(* The step.                                                               *)

RunnerFails ==
    /\ At("step")
    /\ LET i == at.item
           l == [ledger EXCEPT !.errors = @ + 1]
       IN IF progress[i].errors + 1 >= ItemErrors
          THEN Abandon(i, l)
          ELSE /\ progress' = [progress EXCEPT ![i].errors = @ + 1]
               /\ ledger' = l
               /\ IF l.errors >= MaxErrors THEN Stop("RunnerErrors")
                  ELSE Goto("head") /\ UNCHANGED stop
               /\ UNCHANGED plan
    /\ UNCHANGED <<world, cancelled, fresh, ran>>

\* New evidence is bounded, and only a failing check tells that a failure
\* moved.
NewEvidence(o) ==
    /\ o \in NewFail => at.item \in Checked
    /\ IF o \in Evidence THEN fresh < FreshMax /\ fresh' = fresh + 1
       ELSE UNCHANGED fresh

\* A replan and an escalated ask spend one replan each.
ReplansAfter(kind, n) == IF kind = "execute" THEN n ELSE n + 1

\* A step the user cancelled is not judged.
FileStepFindings(i, o) ==
    IF cancelled THEN Stop("Cancelled")
    ELSE at' = [pc |-> "judge", item |-> i, outcome |-> o] /\ UNCHANGED stop

\* The runner returns: the step may have changed the files (w) and added
\* items (new).  A replan ends the iteration; any other step is judged.
StepReturns(o, w, new) ==
    /\ At("step")
    /\ NewEvidence(o)
    /\ \A i \in new : plan[i] = "absent"
    /\ plan' = [i \in Item |-> IF i \in new THEN "open" ELSE plan[i]]
    /\ world' = w
    /\ ran' = ran \cup {at.item}
    /\ ledger' = [ledger EXCEPT !.errors = 0]
    /\ LET i == at.item
           acted == [progress[i] EXCEPT
                       !.narration = IF o \in Acted THEN 0 ELSE @]
       IN CASE at.kind = "replan" ->
                 /\ \E produced \in {new # {}, TRUE} :
                      progress' = [progress EXCEPT ![i] =
                         [acted EXCEPT !.replans = ReplansAfter(at.kind, @),
                                       !.stalled = IF produced THEN 0 ELSE @,
                                       !.dry = IF produced THEN @ ELSE @ + 1]]
                 /\ Goto("head") /\ UNCHANGED stop
            [] OTHER ->
                 /\ progress' = [progress EXCEPT ![i] =
                      [acted EXCEPT !.replans = ReplansAfter(at.kind, @)]]
                 /\ FileStepFindings(i, o)
    /\ UNCHANGED cancelled
-----------------------------------------------------------------------------
(* The verdict on the step.                                                *)

\* Mutant: a step that loops in prose is never charged.
ChargedLenient(p, o) ==
    CASE o \in Evidence -> [p EXCEPT !.stalled = 0]
      [] o = "loop" -> p
      [] o = "repeat" -> [p EXCEPT !.stalled = @ + 2]
      [] OTHER -> [p EXCEPT !.stalled = @ + 1]

\* The fruitless-step budget of an item after a step with outcome o.
Charged(p, o) ==
    CASE o \in Evidence -> [p EXCEPT !.stalled = 0]
      [] o = "loop" /\ p.narration < Ladder -> [p EXCEPT !.narration = @ + 1]
      [] o = "repeat" -> [p EXCEPT !.stalled = @ + 2]
      [] OTHER -> [p EXCEPT !.stalled = @ + 1]

SweepAfter(i) == at' = [pc |-> "sweep", item |-> i]

Charge(l) ==
    /\ progress' = [progress EXCEPT ![at.item] = Charged(@, at.outcome)]
    /\ ledger' = l
    /\ SweepAfter(at.item)
    /\ UNCHANGED <<plan, stop>>

\* complete() on the judged item: an error is retried through next().
CompleteItem(l, p) ==
    LET i == at.item
    IN \E ans \in Answers :
       IF ans = "ok"
       THEN /\ plan' = [plan EXCEPT ![i] = "done"]
            /\ ledger' = Completed(l, i)
            /\ progress' = [p EXCEPT ![i] = Fresh]
            /\ SweepAfter(i) /\ UNCHANGED stop
       ELSE /\ ledger' = [l EXCEPT !.errors = @ + 1]
            /\ progress' = p
            /\ IF l.errors + 1 >= MaxErrors THEN Stop("SourceError")
               ELSE SweepAfter(i) /\ UNCHANGED stop
            /\ UNCHANGED plan

\* judge_checked(): the item's check is run and says v.
Judged(v) == At("judge") /\ at.item \in Checked /\ v \in Verdicts(at.item)

JudgeUnknown ==
    /\ Judged("unknown") /\ at.outcome \notin NewFail
    /\ Charge([ledger EXCEPT !.unknown = TRUE])
    /\ UNCHANGED <<world, cancelled, fresh, ran>>

\* The verdict and complete() are one step: no step of the run works in
\* between, and what another program does to the files then is left out.
JudgePassed ==
    /\ Judged("pass")
    /\ CompleteItem(Noted(ledger, at.item, "pass"),
                    Replenished(progress, Flipped(ledger, at.item, "pass")))
    /\ UNCHANGED <<world, cancelled, fresh, ran>>

JudgeFailed ==
    /\ Judged("fail")
    /\ Charge(Noted(ledger, at.item, "fail"))
    /\ UNCHANGED <<world, cancelled, fresh, ran>>

\* No check: the model's claim, or an answer given twice, completes the item.
JudgeUnchecked ==
    /\ At("judge") /\ at.item \notin Checked
    /\ CompleteItem(ledger, progress) \/ Charge(ledger)
    /\ UNCHANGED <<world, cancelled, fresh, ran>>
-----------------------------------------------------------------------------
(* The sweeps over closed items: at a step boundary over the targets       *)
(* chosen by cost and touched paths, at an empty plan over all of them.    *)

Eligible(S) == (S \ ledger.reopened) \ {at.item}

\* select_resweep_targets(): all when the sweep budget allows, else those
\* whose check reads a path the step touched, which may be any.
Targets(S) == SUBSET Eligible(S)

MidRunSweep(A, V) ==
    /\ At("sweep")
    /\ A \in Targets(ledger.abandoned) /\ V \in Targets(ledger.verified)
    /\ at' = [pc |-> "mid", revive |-> A, recheck |-> V]
    /\ UNCHANGED <<plan, world, progress, ledger, cancelled, fresh, ran, stop>>

\* Mutant: verified items are not asked about again.
DrainAbandonedOnly ==
    /\ At("next") /\ \A i \in Item : plan[i] # "open"
    /\ ledger' = [ledger EXCEPT !.unmet = {}]
    /\ at' = [pc |-> "drain", revive |-> ledger.abandoned, recheck |-> {},
              any |-> FALSE]
    /\ UNCHANGED <<plan, world, progress, cancelled, fresh, ran, stop>>

DrainSweep ==
    /\ At("next") /\ \A i \in Item : plan[i] # "open"
    /\ ledger' = [ledger EXCEPT !.unmet = {}]
    /\ at' = [pc |-> "drain", revive |-> ledger.abandoned,
              recheck |-> ledger.verified, any |-> FALSE]
    /\ UNCHANGED <<plan, world, progress, cancelled, fresh, ran, stop>>

Sweeping == (At("mid") /\ ~cancelled) \/ At("drain")

\* The sweep goes on without i; any remembers that something was reopened.
Swept(i, reopens) ==
    at' = [x \in DOMAIN at |->
             CASE x \in {"revive", "recheck"} -> at[x] \ {i}
               [] x = "any" -> at.any \/ reopens
               [] OTHER -> at[x]]

\* A drain sweep passes over what was reopened before.
SkipReopened(i) ==
    /\ At("drain") /\ i \in (at.revive \cup at.recheck) \cap ledger.reopened
    /\ Swept(i, FALSE)
    /\ UNCHANGED <<plan, world, progress, ledger, cancelled, fresh, ran, stop>>

Asks(i, v) == Sweeping /\ i \notin ledger.reopened /\ v \in Verdicts(i)

\* No verdict reopens nothing; the drain files an abandoned item as unmet.
SweptUnknown(i) ==
    /\ Asks(i, "unknown") /\ i \in at.revive \cup at.recheck
    /\ ledger' = [ledger EXCEPT
                    !.unknown = TRUE,
                    !.unmet = IF At("drain") /\ i \in at.revive
                              THEN @ \cup {i} ELSE @]
    /\ Swept(i, FALSE)
    /\ UNCHANGED <<plan, world, progress, cancelled, fresh, ran, stop>>

\* Reopen i, with ledger l if the source can and k if not.
Reopen(i, p, l, k) ==
    \E ans \in Answers :
       IF ans = "ok"
       THEN /\ plan' = [plan EXCEPT ![i] = "open"]
            /\ progress' = [p EXCEPT ![i] = Fresh]
            /\ ledger' = l
            /\ Swept(i, TRUE)
       ELSE /\ progress' = p /\ ledger' = k
            /\ Swept(i, FALSE)
            /\ UNCHANGED plan

\* An abandoned item: revived when its check passes now.
Revive(i) ==
    /\ Asks(i, "pass") /\ i \in at.revive
    /\ LET k == Noted(ledger, i, "pass")
       IN Reopen(i, Replenished(progress, At("mid") /\ Flipped(ledger, i, "pass")),
                 Revived(k, i), k)
    /\ UNCHANGED <<world, cancelled, fresh, ran, stop>>

StillUnmet(i) ==
    /\ Asks(i, "fail") /\ i \in at.revive
    /\ LET k == Noted(ledger, i, "fail")
       IN ledger' = IF At("drain") THEN [k EXCEPT !.unmet = @ \cup {i}] ELSE k
    /\ Swept(i, FALSE)
    /\ UNCHANGED <<plan, world, progress, cancelled, fresh, ran, stop>>

\* A verified item: reopened when its check fails now.
Regress(i) ==
    /\ Asks(i, "fail") /\ at.revive = {} /\ i \in at.recheck
    /\ LET k == Noted(ledger, i, "fail")
       IN Reopen(i, progress, Regressed(k, i), k)
    /\ UNCHANGED <<world, cancelled, fresh, ran, stop>>

StillHolds(i) ==
    /\ Asks(i, "pass") /\ at.revive = {} /\ i \in at.recheck
    /\ ledger' = Noted(ledger, i, "pass")
    /\ Swept(i, FALSE)
    /\ UNCHANGED <<plan, world, progress, cancelled, fresh, ran, stop>>

\* The loop head reports a cancel that ends a mid-run sweep early.
MidRunEnds ==
    /\ At("mid") /\ (cancelled \/ at.revive \cup at.recheck = {})
    /\ Goto("head")
    /\ UNCHANGED <<plan, world, progress, ledger, cancelled, fresh, ran, stop>>

DrainEnds ==
    /\ At("drain") /\ at.revive \cup at.recheck = {}
    /\ IF at.any THEN Goto("head") /\ UNCHANGED stop ELSE Stop("AllTasksDone")
    /\ UNCHANGED <<plan, world, progress, ledger, cancelled, fresh, ran>>
-----------------------------------------------------------------------------
\* The user cancels, at any time.
Cancel ==
    /\ stop = "running" /\ ~cancelled
    /\ cancelled' = TRUE
    /\ UNCHANGED <<plan, world, at, progress, ledger, fresh, ran, stop>>

Loop ==
    \/ StopCancelled \/ StopExhausted \/ NextFails
    \/ \E S \in SUBSET Asked : Interject(S)
    \/ \E i \in Item : AbandonExhausted(i) \/ BeginStep(i)
    \/ \E i \in Item, v \in Verdict : PrecheckItem(i, v)
    \/ RunnerFails
    \/ \E o \in Outcomes, w \in [Check -> BOOLEAN],
          new \in {{}} \cup {{i} : i \in Item \ Asked} : StepReturns(o, w, new)
    \/ JudgeUnknown \/ JudgePassed \/ JudgeFailed \/ JudgeUnchecked
    \/ \E A, V \in SUBSET Checked : MidRunSweep(A, V)
    \/ DrainSweep
    \/ \E i \in Checked : \/ SkipReopened(i) \/ SweptUnknown(i) \/ Revive(i)
                          \/ StillUnmet(i) \/ Regress(i) \/ StillHolds(i)
    \/ MidRunEnds \/ DrainEnds

HNext == Loop \/ Cancel

\* The loop is one task that is polled until it returns: the model, the
\* checks and the store answer or time out.
HSpec == HInit /\ [][HNext]_hvars /\ WF_hvars(Loop)
-----------------------------------------------------------------------------
(* Type invariant of a run.                                                *)
HTypeOK ==
    /\ plan \in [Item -> {"absent", "open", "done", "abandoned"}]
    /\ world \in [Check -> BOOLEAN]
    /\ \A i \in Item :
          /\ progress[i].stalled \in 0 .. MaxSteps + 1 + 2 * MaxReplans
          /\ progress[i].replans \in 0 .. MaxReplans
          /\ progress[i].dry \in 0 .. MaxReplans
          /\ progress[i].narration \in 0 .. Ladder
          /\ progress[i].errors \in 0 .. ItemErrors - 1
    /\ ledger.verified \cup ledger.abandoned \cup ledger.unmet
          \cup ledger.reopened \subseteq Checked
    /\ ledger.unverifiable \subseteq Item \ Checked
    /\ stop \in {"running", "Cancelled", "Exhausted", "AllTasksDone",
                 "SourceError", "RunnerErrors"}

\* The report's counts of completed and abandoned items are those of the
\* plan, through every revival and regression.
CountsMatchPlan ==
    /\ ledger.completed = Cardinality({i \in Item : plan[i] = "done"})
    /\ ledger.walkedAway = Cardinality({i \in Item : plan[i] = "abandoned"})

\* However an item is caught, the sweeps reopen it at most once per run.
ReopenedOnce ==
    ledger.revived + ledger.regressed = Cardinality(ledger.reopened)

\* The ledger of a run: budgets within their limits, counts that are the
\* plan's, and no item reopened twice.
LedgerSound == HTypeOK /\ CountsMatchPlan /\ ReopenedOnce

\* A checked item becomes done only while its check holds: no claim, no
\* silent check and no stale verdict completes it.
CompletedOnlyWhileHolding ==
    [][\A i \in Checked :
         (plan[i] # "done" /\ plan'[i] = "done") => world[CheckOf[i]]]_hvars

\* A run that reports AllTasksDone with every check answered and every reopen
\* accepted leaves its first verdicts true: what it verified still holds and
\* what it lists as unmet still fails.
FinalReportHolds ==
    (stop = "AllTasksDone" /\ ~ledger.unknown /\ ~SourceFails) =>
        /\ \A i \in ledger.verified \ ledger.reopened : world[CheckOf[i]]
        /\ \A i \in ledger.unmet : ~world[CheckOf[i]]

\* A run whose steps stop bringing new evidence ends by itself: stalled items
\* are replanned, escalated and abandoned, and the sweeps reach a fixpoint.
RunEnds == <>(stop # "running")

\* As the report's documentation has it: at the end of a run every item the
\* harness walked away from is named in one of the two lists.
EveryAbandonmentNamed ==
    stop = "AllTasksDone" =>
        {i \in Item : plan[i] = "abandoned"} \subseteq
            ledger.unmet \cup ledger.unverifiable

\* As the documentation of precheck_acceptance_items has it: what the user
\* asked for mid-run is never closed without a step run on it.
AskedWorkRuns == \A i \in Asked : plan[i] = "done" => i \in ran
=============================================================================
