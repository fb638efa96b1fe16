--------------------------- MODULE DaemonProofs -----------------------------
(***************************************************************************)
(* The daemon's services: the ladder of models behind its steps, the       *)
(* scheduler, the claim of its PID file and of its exit record, the sweep  *)
(* over the cards' dates, and the sessions. Each part is an inductive      *)
(* invariant of its own module and the theorem it implies.                 *)
(***************************************************************************)
EXTENDS StepLadder, Scheduler, SingleInstance, DueCards, SessionStore, TaskGraphTheorems
-----------------------------------------------------------------------------
(* StepLadder: AgentStepRunner and the chain of models.                    *)

\* The places of a step on the ladder.
StepPcs == {"begin", "try", "retry", "giveup", "swap", "done", "failed"}
\* What the last attempt of a step failed with.
StepErrs == Retried \cup {"none", "refused", "fatal"}
\* What a runner, or a wedge record, can hold of a cancel token.
Tokens == Token \cup {NoToken}
\* The states of a runner.
StepStates == [pc : StepPcs, model : 0..ModelCount, attempt : 0..Retries, err : StepErrs,
               cur : Tokens, prev : Tokens, seen : 0..ModelCount]

\* The types of the chain, of its runners and of the wedges.
LadderTypes ==
    /\ onModel \in Model
    /\ ladder \in [Runner -> StepStates]
    /\ wedge \in [Model -> Tokens]
    /\ halted \in BOOLEAN

\* A step that has begun is on a model the chain has reached; one about to
\* move the chain has given up on the model it saw.
StepPlaced(s) ==
    /\ s.pc \in {"try", "retry", "giveup", "swap"} => First <= s.model /\ s.model <= onModel
    /\ s.pc = "retry" => s.attempt < Retries
    /\ s.pc = "swap" => s.seen = s.model /\ s.model \in gaveUp
    /\ s.pc = "failed" /\ ~halted /\ s.err \in WarrantsFallback
          => \A m \in Served : m >= First => m \in gaveUp

\* The inductive invariant: every runner is where the chain allows, and what
\* the chain has passed over was given up on.
LadderInv ==
    /\ LadderTypes
    /\ First <= onModel
    /\ SkippedModelsFailed
    /\ \A r \in Runner : StepPlaced(ladder[r])

\* ModelChain::new: the first served model, or the head.
LEMMA FirstServed == First \in Model /\ \A k \in Served : First <= k
<1>1. CASE Served = {}
  BY <1>1, LadderAssumption DEF First, Model
<1>2. CASE Served # {}
  <2>1. \E m \in Served : \A k \in Served : m <= k
    BY <1>2, LeastNatural, LadderAssumption
  <2> QED
    BY <1>2, <2>1, LadderAssumption DEF First, Model
<1> QED
  BY <1>1, <1>2

\* ModelChain::advance_past moves to the next served model.
LEMMA NextServedIs ==
    ASSUME NEW m \in Nat, Below(m) # {}
    PROVE  /\ NextServed(m) \in Served /\ m < NextServed(m)
           /\ \A j \in Served : m < j => NextServed(m) <= j
<1>0. Served \subseteq Nat
  BY LadderAssumption
<1>1. Below(m) \in SUBSET Nat
  BY <1>0 DEF Below
<1>2. \E k \in Below(m) : \A j \in Below(m) : k <= j
  BY <1>1, LeastNatural
<1>3. NextServed(m) \in Below(m) /\ \A j \in Below(m) : NextServed(m) <= j
  BY <1>2 DEF NextServed
<1> QED
  BY <1>3, LadderAssumption DEF Below

\* A step starts with its first attempt, on no model yet.
LEMMA NewStepIs == NewStep \in StepStates /\ StepPlaced(NewStep)
  BY LadderAssumption
     DEF NewStep, StepStates, StepPcs, StepErrs, Tokens, Retried, Transient, NoToken, StepPlaced

\* The chain starts at its first served model.
LEMMA LadderStarts == LInit => LadderInv
<1> SUFFICES ASSUME LInit PROVE LadderInv
  OBVIOUS
<1>1. LadderTypes
  BY FirstServed, NewStepIs DEF LInit, LadderTypes, Tokens
<1>2. First <= onModel /\ SkippedModelsFailed
  BY FirstServed, LadderAssumption DEF LInit, SkippedModelsFailed, Model
<1>3. \A r \in Runner : StepPlaced(ladder[r])
  BY NewStepIs DEF LInit
<1> QED
  BY <1>1, <1>2, <1>3 DEF LadderInv

\* A step of one runner that leaves the chain alone, and history no smaller.
LEMMA RunnerMoves ==
    ASSUME LadderInv, NEW r \in Runner, NEW s \in StepStates,
           ladder' = [ladder EXCEPT ![r] = s], wedge' \in [Model -> Tokens],
           UNCHANGED <<onModel, halted>>, gaveUp \subseteq gaveUp', StepPlaced(s)'
    PROVE  LadderInv'
<1>1. LadderTypes'
  BY DEF LadderInv, LadderTypes
<1>2. (First <= onModel)' /\ SkippedModelsFailed'
  BY DEF LadderInv, SkippedModelsFailed
<1>3. ASSUME NEW q \in Runner PROVE StepPlaced(ladder[q])'
  <2>1. CASE q = r
    BY <2>1 DEF LadderInv, LadderTypes
  <2>2. CASE q # r
    <3>1. ladder'[q] = ladder[q] /\ StepPlaced(ladder[q])
      BY <2>2 DEF LadderInv, LadderTypes
    <3> QED
      BY <3>1 DEF StepPlaced, LadderInv
  <2> QED
    BY <2>1, <2>2
<1> QED
  BY <1>1, <1>2, <1>3 DEF LadderInv

\* Every step of a runner, and a Stop, keep the invariant.
LEMMA LadderKeeps == LadderInv /\ [LNext]_ladders => LadderInv'
<1> SUFFICES ASSUME LadderInv, [LNext]_ladders PROVE LadderInv'
  OBVIOUS
<1>t. LadderTypes /\ First <= onModel /\ SkippedModelsFailed
  BY DEF LadderInv
<1>f. First \in Nat
  BY FirstServed DEF Model
<1>1. ASSUME NEW r \in Runner, LadderStep(r) \/ NextStep(r) PROVE LadderInv'
  <2>1. ladder[r] \in StepStates /\ StepPlaced(ladder[r])
    BY DEF LadderInv, LadderTypes
  <2>2. NewStep \in StepStates /\ StepPlaced(NewStep)'
    BY NewStepIs DEF StepPlaced, NewStep
  <2>n. NoToken \in Tokens /\ (\A token \in Token : token \in Tokens) /\ 0 \in 0..ModelCount
    BY LadderAssumption DEF Tokens
  <2>p. StepPcs = {"begin", "try", "retry", "giveup", "swap", "done", "failed"}
    BY DEF StepPcs
  <2>m. /\ ladder[r].model \in 0..ModelCount /\ ladder[r].attempt \in 0..Retries
        /\ ladder[r].seen \in 0..ModelCount /\ ladder[r].err \in StepErrs
        /\ onModel \in 0..ModelCount /\ onModel \in Nat /\ Retries \in Nat /\ ModelCount \in Nat
    BY <1>t, <2>1, LadderAssumption DEF StepStates, LadderTypes, Model
  <2>g. ASSUME NEW err \in StepErrs, ladder[r].pc \in {"try", "retry"}
        PROVE  GivesUp(r, err) \in StepStates /\ GivesUp(r, err).pc = "giveup"
               /\ GivesUp(r, err).model = ladder[r].model
    BY <2>2, <2>m, <2>n, <2>p DEF StepStates, GivesUp
  <2>a. ASSUME NEW err \in StepErrs, NEW cur \in Tokens, NEW prev \in Tokens, AtStep(r, "try")
        PROVE  LET s == AfterFailure(r, err, cur, prev)
               IN  /\ s \in StepStates /\ s.model = ladder[r].model
                   /\ s.pc = "giveup" \/ (s.pc = "retry" /\ s.attempt < Retries)
    <3>1. CASE ladder[r].attempt = Retries
      BY <2>a, <2>g, <3>1 DEF AfterFailure, AtStep
    <3>2. CASE ladder[r].attempt # Retries
      <4> DEFINE s == [ladder[r] EXCEPT !.pc = "retry", !.err = err, !.cur = cur, !.prev = prev]
      <4>1. /\ s \in StepStates /\ s.model = ladder[r].model
            /\ s.pc = "retry" /\ s.attempt = ladder[r].attempt
        BY <2>1, <2>a, <2>p DEF StepStates
      <4>2. AfterFailure(r, err, cur, prev) = s
        BY <3>2 DEF AfterFailure
      <4> HIDE DEF s
      <4>3. s.attempt < Retries
        BY <2>m, <3>2, <4>1
      <4> QED
        BY <4>1, <4>2, <4>3
    <3> QED
      BY <3>1, <3>2
  <2>3. CASE BeginLadder(r)
    <3> DEFINE s == [NewStep EXCEPT !.pc = "try", !.model = onModel]
    <3>1. s \in StepStates /\ s.pc = "try" /\ s.model = onModel
      BY <2>2, <2>m, <2>n, <2>p DEF StepStates
    <3>2. ladder' = [ladder EXCEPT ![r] = s] /\ UNCHANGED <<onModel, wedge, halted, gaveUp>>
      BY <2>3 DEF BeginLadder
    <3> HIDE DEF s
    <3> QED
      <4>1. s.model <= onModel /\ First <= s.model
        BY <1>t, <1>f, <2>m, <3>1
      <4> QED
        BY <1>t, <3>1, <3>2, <4>1, RunnerMoves DEF StepPlaced, LadderTypes
  <2>4. CASE Succeeds(r) \/ NextStep(r)
    <3> DEFINE s == [NewStep EXCEPT !.pc = "done"]
    <3>1. s \in StepStates /\ s.pc = "done"
      BY <2>2, <2>m, <2>n, <2>p DEF StepStates
    <3>2. UNCHANGED <<onModel, wedge, halted, gaveUp>>
          /\ (ladder' = [ladder EXCEPT ![r] = s] \/ ladder' = [ladder EXCEPT ![r] = NewStep])
      BY <2>4 DEF Succeeds, NextStep
    <3> HIDE DEF s
    <3> QED
      BY <1>t, <2>2, <3>1, <3>2, RunnerMoves DEF StepPlaced, LadderTypes
  <2>5. ASSUME NEW token \in Token, Wedges(r, token) PROVE LadderInv'
    <3> DEFINE s == AfterFailure(r, "wedge", token, wedge[ladder[r].model])
    <3>1. ladder[r].model \in Model /\ wedge[ladder[r].model] \in Tokens
      BY <1>t, <1>f, <2>1, <2>5, <2>m, FirstServed DEF Wedges, AtStep, LadderTypes, StepPlaced, Model
    <3>2. "wedge" \in StepErrs
      BY DEF StepErrs, Retried, Transient
    <3>3. /\ s \in StepStates /\ s.model = ladder[r].model
          /\ s.pc = "giveup" \/ (s.pc = "retry" /\ s.attempt < Retries)
      BY <2>5, <2>a, <2>n, <3>1, <3>2 DEF Wedges
    <3>4. /\ ladder' = [ladder EXCEPT ![r] = s] /\ UNCHANGED <<onModel, halted, gaveUp>>
          /\ wedge' \in [Model -> Tokens]
      BY <1>t, <2>5, <2>n DEF Wedges, LadderTypes
    <3>5. First <= ladder[r].model /\ ladder[r].model <= onModel
      BY <2>1, <2>5 DEF Wedges, AtStep, StepPlaced
    <3> HIDE DEF s
    <3> QED
      BY <3>3, <3>4, <3>5, RunnerMoves DEF StepPlaced
  <2>6. ASSUME NEW err \in Retried \ {"wedge"}, FailsRetried(r, err) PROVE LadderInv'
    <3> DEFINE s == AfterFailure(r, err, NoToken, NoToken)
    <3>1. err \in StepErrs
      BY DEF StepErrs
    <3>2. /\ s \in StepStates /\ s.model = ladder[r].model
          /\ s.pc = "giveup" \/ (s.pc = "retry" /\ s.attempt < Retries)
      BY <2>6, <2>a, <2>n, <3>1 DEF FailsRetried
    <3>3. ladder' = [ladder EXCEPT ![r] = s] /\ UNCHANGED <<onModel, wedge, halted, gaveUp>>
      BY <2>6 DEF FailsRetried
    <3>4. First <= ladder[r].model /\ ladder[r].model <= onModel
      BY <2>1, <2>6 DEF FailsRetried, AtStep, StepPlaced
    <3> HIDE DEF s
    <3> QED
      BY <1>t, <3>2, <3>3, <3>4, RunnerMoves DEF StepPlaced, LadderTypes
  <2>7. ASSUME NEW err \in StepErrs, ladder[r].pc \in {"try", "retry"},
               ladder' = [ladder EXCEPT ![r] = GivesUp(r, err)],
               UNCHANGED <<onModel, wedge, halted, gaveUp>>
        PROVE  LadderInv'
    BY <1>t, <2>1, <2>7, <2>g, RunnerMoves DEF StepPlaced, LadderTypes
  <2>8. ASSUME NEW err \in {"refused", "fatal"}, FailsAtOnce(r, err) PROVE LadderInv'
    BY <2>7, <2>8 DEF FailsAtOnce, AtStep, StepErrs
  <2>9. CASE RetryStopped(r)
    BY <2>7, <2>9, <2>m DEF RetryStopped, AtStep
  <2>10. CASE RetryGoes(r)
    <3> DEFINE s == [NewStep EXCEPT !.pc = "try", !.model = ladder[r].model,
                                    !.attempt = ladder[r].attempt + 1]
    <3>1. ladder[r].attempt + 1 \in 0..Retries /\ ladder[r].model \in 0..ModelCount
      BY <2>1, <2>10, <2>m DEF RetryGoes, AtStep, StepPlaced
    <3>2. s \in StepStates /\ s.pc = "try" /\ s.model = ladder[r].model
      BY <2>2, <2>n, <2>p, <3>1 DEF StepStates
    <3>3. ladder' = [ladder EXCEPT ![r] = s] /\ UNCHANGED <<onModel, halted, gaveUp>>
      BY <2>10 DEF RetryGoes
    <3>4. wedge' \in [Model -> Tokens]
      BY <1>t, <2>10, <2>n DEF RetryGoes, ForgottenAfterReset, LadderTypes
    <3>5. First <= ladder[r].model /\ ladder[r].model <= onModel
      BY <2>1, <2>10 DEF RetryGoes, AtStep, StepPlaced
    <3> HIDE DEF s
    <3> QED
      BY <3>2, <3>3, <3>4, <3>5, RunnerMoves DEF StepPlaced
  <2>11. ASSUME NEW s \in StepStates, s.pc = "failed",
                s.err = ladder[r].err, ladder' = [ladder EXCEPT ![r] = s],
                UNCHANGED <<onModel, wedge, halted, gaveUp>>,
                ~halted /\ s.err \in WarrantsFallback
                    => \A m \in Served : m >= First => m \in gaveUp
         PROVE  LadderInv'
    BY <1>t, <2>11, RunnerMoves DEF StepPlaced, LadderTypes
  <2>f. [ladder[r] EXCEPT !.pc = "failed", !.seen = 0] \in StepStates
        /\ [ladder[r] EXCEPT !.pc = "failed", !.seen = 0].pc = "failed"
        /\ [ladder[r] EXCEPT !.pc = "failed", !.seen = 0].err = ladder[r].err
        /\ [ladder EXCEPT ![r].pc = "failed", ![r].seen = 0]
             = [ladder EXCEPT ![r] = [ladder[r] EXCEPT !.pc = "failed", !.seen = 0]]
    BY <1>t, <2>1, <2>n, <2>p, <2>m DEF StepStates, LadderTypes
  <2>12. CASE Fails(r)
    BY <2>11, <2>12, <2>f DEF Fails
  <2>13. CASE LoadActive(r)
    <3> DEFINE s == [ladder[r] EXCEPT !.pc = "swap", !.seen = onModel]
    <3>1. /\ s \in StepStates /\ s.pc = "swap" /\ s.model = ladder[r].model /\ s.seen = onModel
          /\ [ladder EXCEPT ![r].pc = "swap", ![r].seen = onModel] = [ladder EXCEPT ![r] = s]
      BY <1>t, <2>1, <2>p, <2>m DEF StepStates, LadderTypes
    <3>2. UNCHANGED <<onModel, wedge, halted>> /\ gaveUp' = gaveUp \cup {ladder[r].model}
      BY <2>13 DEF LoadActive
    <3>3. First <= ladder[r].model /\ ladder[r].model <= onModel
      BY <2>1, <2>13 DEF LoadActive, AtStep, StepPlaced
    <3>4. \/ onModel = ladder[r].model /\ ladder' = [ladder EXCEPT ![r] = s]
          \/ ladder' = [ladder EXCEPT ![r] = NewStep]
      BY <2>13, <3>1 DEF LoadActive, OnFailedModel
    <3> HIDE DEF s
    <3>5. CASE onModel = ladder[r].model /\ ladder' = [ladder EXCEPT ![r] = s]
      BY <1>t, <3>1, <3>2, <3>3, <3>5, RunnerMoves DEF StepPlaced, LadderTypes
    <3>6. CASE ladder' = [ladder EXCEPT ![r] = NewStep]
      BY <1>t, <2>2, <3>2, <3>6, RunnerMoves DEF LadderTypes
    <3> QED
      BY <3>4, <3>5, <3>6
  <2>14. CASE SwapModel(r)
    <3> DEFINE m == ladder[r].seen
    <3>1. /\ m = ladder[r].model /\ m \in gaveUp /\ m \in Model
          /\ First <= m /\ m <= onModel /\ UNCHANGED <<wedge, halted, gaveUp>>
      BY <1>t, <1>f, <2>1, <2>14, <2>m, FirstServed DEF SwapModel, AtStep, StepPlaced, Model
    <3>2. \A k \in Served : First <= k /\ k <= m => k \in gaveUp
      BY <1>t, <1>f, <3>1, LadderAssumption DEF SkippedModelsFailed, LadderTypes, Model
    <3>3. CASE Below(m) = {}
      <4>1. \A k \in Served : k >= First => k \in gaveUp
        BY <1>f, <3>1, <3>2, <3>3, LadderAssumption DEF Below, Model
      <4> QED
        BY <2>11, <2>14, <2>f, <3>3, <4>1 DEF SwapModel
    <3>4. CASE Below(m) # {} /\ onModel # m
      BY <1>t, <2>2, <2>14, <3>1, <3>4, RunnerMoves DEF SwapModel, ExchangeNext, LadderTypes
    <3>5. CASE Below(m) # {} /\ onModel = m
      <4>1. onModel' = NextServed(m) /\ ladder' = [ladder EXCEPT ![r] = NewStep]
        BY <2>14, <3>5 DEF SwapModel, ExchangeNext
      <4>2. /\ NextServed(m) \in Model /\ m < NextServed(m)
            /\ \A j \in Served : m < j => NextServed(m) <= j
        <5>1. m \in Nat /\ Served \subseteq Model
          BY <3>1, LadderAssumption DEF Model
        <5> HIDE DEF m
        <5> QED
          BY <3>5, <5>1, NextServedIs
      <4>3. SkippedModelsFailed' /\ (First <= onModel)'
        BY <1>f, <2>m, <3>1, <3>2, <4>1, <4>2, LadderAssumption DEF SkippedModelsFailed, Model
      <4>4. LadderTypes'
        BY <1>t, <2>2, <3>1, <4>1, <4>2 DEF LadderTypes
      <4>5. ASSUME NEW q \in Runner PROVE StepPlaced(ladder[q])'
        <5>1. CASE q = r
          BY <1>t, <2>2, <4>1, <5>1 DEF LadderTypes
        <5>2. CASE q # r
          <6>1. ladder'[q] = ladder[q] /\ StepPlaced(ladder[q]) /\ ladder[q] \in StepStates
            BY <1>t, <4>1, <5>2 DEF LadderInv, LadderTypes
          <6> QED
            BY <1>f, <2>m, <3>1, <3>5, <4>1, <4>2, <6>1, LadderAssumption DEF StepStates, StepPlaced, Model
        <5> QED
          BY <5>1, <5>2
      <4> QED
        BY <4>3, <4>4, <4>5 DEF LadderInv
    <3> QED
      BY <3>3, <3>4, <3>5
  <2> QED
    BY <1>1, <2>3, <2>4, <2>5, <2>6, <2>8, <2>9, <2>10, <2>12, <2>13, <2>14
       DEF LadderStep, Attempt
<1>2. CASE HaltRun
  BY <1>2, <1>t DEF HaltRun, LadderInv, LadderTypes, StepPlaced, SkippedModelsFailed
<1>3. CASE UNCHANGED ladders
  BY <1>3, <1>t DEF ladders, LadderInv, LadderTypes, StepPlaced, SkippedModelsFailed
<1> QED
  BY <1>1, <1>2, <1>3 DEF LNext

\* AgentStepRunner and ModelChain: for any number of runners that share the
\* chain, no served model is passed over that no step gave up on, a step fails
\* for a model's fault only when every served one was given up on, and no
\* ladder has more attempts than it may.
THEOREM LadderHolds == LSpec => []LadderSound
<1>1. LadderInv => LadderSound
  BY DEF LadderInv, LadderTypes, LadderSound, LTypeOK, FailsOnlyExhausted, StepPlaced,
         StepStates, AtStep, Tokens
<1> QED
  BY <1>1, LadderStarts, LadderKeeps, PTL DEF LSpec
-----------------------------------------------------------------------------
(* Scheduler: claims, runs and one-shots.                                  *)

\* What memory knows of a job.
TaskStates == [in : BOOLEAN, on : BOOLEAN, ran : BOOLEAN]
\* The places of a run.
RunPlaces == {"free", "exec", "memory", "storage", "drop"}
\* The states of a run slot.
RunStates == [job : Job \cup {"none"}, at : RunPlaces, ok : BOOLEAN]
\* The states of a call to the scheduler.
CallStates == [op : {"none", "add", "remove", "enable", "disable", "now"},
               job : Job \cup {"none"}, at : {"none", "memory", "exec"}, ok : BOOLEAN]

\* The types of memory, storage, claims, runs and calls.
SchedulerTypes ==
    /\ tasks \in [Job -> TaskStates]
    /\ rows \in [Job -> {"none", "on", "off"}]
    /\ claims \subseteq Job /\ tick \subseteq Job /\ elapsed \subseteq Job
    /\ settled \subseteq OneShot
    /\ jobRun \in [RunSlot -> RunStates]
    /\ call \in CallStates
    /\ call # NoCall => call.job \in Job

\* InFlight, run by run: an occupied slot holds the claim of its job, a claim
\* has a slot, and no two slots one job.
ClaimsHeld ==
    /\ \A r \in RunSlot : Occupied(r) => jobRun[r].job \in claims
    /\ \A j \in claims : \E r \in RunSlot : Occupied(r) /\ jobRun[r].job = j
    /\ \A q, r \in RunSlot : Occupied(q) /\ Occupied(r) /\ jobRun[q].job = jobRun[r].job => q = r

\* The memory of a one-shot says it is over.
DoneInMemory(j) == ~tasks[j].in \/ tasks[j].ran

\* What is known of a one-shot: its time has come once it is considered; what
\* is settled is off in storage and not due in memory, also once a call that
\* enables it, begun before, has reached memory; a call that adds it finds
\* nothing of it anywhere else.
OneShotPlaced(j) ==
    /\ j \in tick \cup claims => j \in elapsed
    /\ j \in settled => rows[j] # "on" /\ (DoneInMemory(j) \/ ~tasks[j].on)
    /\ call.job = j /\ call.op = "add" => ~tasks[j].in /\ j \notin tick \cup claims \cup settled
    /\ call.job = j /\ call.op = "enable" /\ j \in settled => DoneInMemory(j)
    /\ \A r \in RunSlot : jobRun[r].at = "storage" /\ jobRun[r].job = j => DoneInMemory(j)

\* The inductive invariant: claims and runs go together, and every one-shot
\* is placed.
SchedulerInv ==
    /\ SchedulerTypes
    /\ ClaimsHeld
    /\ \A j \in OneShot : OneShotPlaced(j)

\* Nothing is claimed at start.
LEMMA SchedulerStarts == SInit => SchedulerInv
<1> SUFFICES ASSUME SInit PROVE SchedulerInv
  OBVIOUS
<1>0. NoRun \in RunStates /\ NoCall \in CallStates /\ Absent \in TaskStates
      /\ \A b \in BOOLEAN : Loaded(b) \in TaskStates
  BY DEF NoRun, RunStates, RunPlaces, NoCall, CallStates, Absent, Loaded, TaskStates
<1>1. rows \in [Job -> {"none", "on", "off"}]
  BY DEF SInit
<1>2. SchedulerTypes
  BY <1>0, <1>1 DEF SInit, SchedulerTypes, LoadJobs
<1>3. ClaimsHeld
  BY DEF SInit, ClaimsHeld, Occupied, NoRun
<1>4. \A j \in OneShot : OneShotPlaced(j)
  BY DEF SInit, OneShotPlaced, NoRun, NoCall
<1> QED
  BY <1>2, <1>3, <1>4 DEF SchedulerInv

\* Claims and slots are left alone, and runs stay where they are.
LEMMA ClaimsUntouched ==
    ASSUME ClaimsHeld, UNCHANGED claims,
           \A r \in RunSlot : jobRun'[r].job = jobRun[r].job /\ (Occupied(r)' <=> Occupied(r))
    PROVE  ClaimsHeld'
  BY DEF ClaimsHeld

\* A run that ends gives back its claim.
LEMMA RunEnds ==
    ASSUME SchedulerTypes, ClaimsHeld, NEW r \in RunSlot, Occupied(r),
           jobRun' = [jobRun EXCEPT ![r] = NoRun], claims' = claims \ {jobRun[r].job}
    PROVE  /\ ClaimsHeld' /\ jobRun' \in [RunSlot -> RunStates]
           /\ \A q \in RunSlot : jobRun'[q].at = "storage" => jobRun'[q] = jobRun[q]
<1>0. NoRun \in RunStates /\ NoRun.at = "free"
  BY DEF NoRun, RunStates, RunPlaces
<1>1. jobRun' \in [RunSlot -> RunStates] /\ jobRun'[r] = NoRun
      /\ \A q \in RunSlot : q # r => jobRun'[q] = jobRun[q]
  BY <1>0 DEF SchedulerTypes
<1>2. \A q \in RunSlot : Occupied(q)' => q # r /\ Occupied(q)
  BY <1>0, <1>1 DEF Occupied
<1>3. \A q \in RunSlot : q # r /\ Occupied(q) => Occupied(q)'
  BY <1>0, <1>1 DEF Occupied
<1>4. ClaimsHeld'
  <2>1. ASSUME NEW q \in RunSlot, Occupied(q)' PROVE jobRun'[q].job \in claims'
    BY <1>1, <1>2, <2>1 DEF ClaimsHeld
  <2>2. ASSUME NEW j \in claims' PROVE \E q \in RunSlot : Occupied(q)' /\ jobRun'[q].job = j
    <3>1. PICK q \in RunSlot : Occupied(q) /\ jobRun[q].job = j
      BY <2>2 DEF ClaimsHeld
    <3>2. q # r
      BY <2>2, <3>1
    <3> QED
      BY <1>1, <1>3, <3>1, <3>2
  <2> QED
    BY <1>1, <1>2, <2>1, <2>2 DEF ClaimsHeld
<1> QED
  BY <1>0, <1>1, <1>4

\* Every step of the scheduler, of its runs and of its callers keeps the
\* invariant.
LEMMA SchedulerKeeps == SchedulerInv /\ [SNext]_scheduler => SchedulerInv'
<1> SUFFICES ASSUME SchedulerInv, [SNext]_scheduler PROVE SchedulerInv'
  OBVIOUS
<1>0. NoRun \in RunStates /\ NoCall \in CallStates /\ Absent \in TaskStates
      /\ ~Absent.in /\ NoCall.op = "none"
      /\ \A b \in BOOLEAN : Loaded(b) \in TaskStates /\ Loaded(b).on = b
  BY DEF NoRun, RunStates, RunPlaces, NoCall, CallStates, Absent, Loaded, TaskStates
<1>i. SchedulerTypes /\ ClaimsHeld /\ \A j \in OneShot : OneShotPlaced(j)
  BY DEF SchedulerInv
<1>o. OneShot \subseteq Job
  BY SchedulerAssumption
<1>1. ASSUME NEW j \in Job, Elapse(j) PROVE SchedulerInv'
  <2>1. SchedulerTypes' /\ ClaimsHeld'
    BY <1>1, <1>i, ClaimsUntouched DEF Elapse, SchedulerTypes, Occupied
  <2>2. ASSUME NEW k \in OneShot PROVE OneShotPlaced(k)'
    BY <1>1, <1>i DEF Elapse, OneShotPlaced, DoneInMemory
  <2> QED
    BY <2>1, <2>2 DEF SchedulerInv
<1>2. CASE Tick
  <2>1. SchedulerTypes' /\ ClaimsHeld'
    BY <1>2, <1>i, ClaimsUntouched DEF Tick, SchedulerTypes, Occupied
  <2>2. ASSUME NEW k \in OneShot PROVE OneShotPlaced(k)'
    BY <1>2, <1>i DEF Tick, IsTaskDue, OneShotPlaced, DoneInMemory
  <2> QED
    BY <2>1, <2>2 DEF SchedulerInv
<1>3. CASE Heartbeat \/ HeartbeatReturns \/ UNCHANGED scheduler
  <2>1. SchedulerTypes' /\ ClaimsHeld'
    BY <1>3, <1>i, ClaimsUntouched DEF Heartbeat, HeartbeatReturns, scheduler, SchedulerTypes, Occupied
  <2>2. ASSUME NEW k \in OneShot PROVE OneShotPlaced(k)'
    BY <1>3, <1>i DEF Heartbeat, HeartbeatReturns, scheduler, OneShotPlaced, DoneInMemory
  <2> QED
    BY <2>1, <2>2 DEF SchedulerInv
<1>4. ASSUME NEW j \in Job, Consider(j) PROVE SchedulerInv'
  <2>1. CASE ~MayClaim(j) /\ UNCHANGED <<jobRun, claims>>
    <3>1. SchedulerTypes' /\ ClaimsHeld'
      BY <1>4, <1>i, <2>1, ClaimsUntouched DEF Consider, SchedulerTypes, Occupied
    <3>2. ASSUME NEW k \in OneShot PROVE OneShotPlaced(k)'
      BY <1>4, <1>i, <2>1 DEF Consider, OneShotPlaced, DoneInMemory
    <3> QED
      BY <3>1, <3>2 DEF SchedulerInv
  <2>2. ASSUME NEW r \in RunSlot, MayClaim(j), Starts(j, r) PROVE SchedulerInv'
    <3> DEFINE s == [job |-> j, at |-> "exec", ok |-> FALSE]
    <3>1. s \in RunStates /\ s.at = "exec" /\ s.job = j
      BY DEF RunStates, RunPlaces
    <3>2. /\ jobRun' = [jobRun EXCEPT ![r] = s] /\ claims' = claims \cup {j} /\ j \notin claims
          /\ tick' = tick \ {j} /\ j \in tick /\ jobRun[r].at = "free"
          /\ UNCHANGED <<tasks, rows, elapsed, beating, call, settled, delivered>>
      BY <1>4, <2>2 DEF Consider, Starts, MayClaim, NoRun
    <3> HIDE DEF s
    <3>3. jobRun' \in [RunSlot -> RunStates] /\ jobRun'[r] = s
          /\ \A q \in RunSlot : q # r => jobRun'[q] = jobRun[q]
      BY <1>i, <3>1, <3>2 DEF SchedulerTypes
    <3>4. SchedulerTypes'
      BY <1>i, <3>2, <3>3 DEF SchedulerTypes
    <3>5. ClaimsHeld'
      <4>1. \A q \in RunSlot : Occupied(q)' <=> q = r \/ Occupied(q)
        BY <3>1, <3>2, <3>3 DEF Occupied
      <4>2. \A q \in RunSlot : Occupied(q) => q # r /\ jobRun[q].job # j
        BY <1>i, <3>2 DEF Occupied, ClaimsHeld
      <4>3. ASSUME NEW k \in claims' PROVE \E q \in RunSlot : Occupied(q)' /\ jobRun'[q].job = k
        <5>1. CASE k = j
          BY <3>1, <3>3, <4>1, <5>1
        <5>2. CASE k # j
          BY <1>i, <3>2, <3>3, <4>1, <4>2, <5>2 DEF ClaimsHeld
        <5> QED
          BY <5>1, <5>2
      <4>4. \A q \in RunSlot : Occupied(q)' => jobRun'[q].job \in claims'
        BY <1>i, <3>1, <3>2, <3>3, <4>1, <4>2 DEF ClaimsHeld
      <4>5. ASSUME NEW p \in RunSlot, NEW q \in RunSlot, Occupied(p)', Occupied(q)',
                   jobRun'[p].job = jobRun'[q].job
            PROVE  p = q
        BY <1>i, <3>1, <3>3, <4>1, <4>2, <4>5 DEF ClaimsHeld
      <4> QED
        BY <4>3, <4>4, <4>5 DEF ClaimsHeld
    <3>6. ASSUME NEW k \in OneShot PROVE OneShotPlaced(k)'
      BY <1>i, <3>1, <3>2, <3>3 DEF OneShotPlaced, DoneInMemory
    <3> QED
      BY <3>4, <3>5, <3>6 DEF SchedulerInv
  <2> QED
    BY <1>4, <2>1, <2>2 DEF Consider
<1>5. ASSUME NEW r \in RunSlot, NEW ok \in BOOLEAN, Executes(r, ok) PROVE SchedulerInv'
  <2> DEFINE s == [jobRun[r] EXCEPT !.at = "memory", !.ok = ok]
  <2>1. s \in RunStates /\ s.at = "memory" /\ s.job = jobRun[r].job
    BY <1>i DEF SchedulerTypes, RunStates, RunPlaces
  <2>2. jobRun' = [jobRun EXCEPT ![r] = s] /\ jobRun[r].at = "exec"
        /\ UNCHANGED <<tasks, rows, elapsed, tick, beating, claims, call, settled, delivered>>
    BY <1>5, <1>i DEF Executes, SchedulerTypes
  <2> HIDE DEF s
  <2>3. jobRun' \in [RunSlot -> RunStates] /\ jobRun'[r] = s
        /\ \A q \in RunSlot : q # r => jobRun'[q] = jobRun[q]
    BY <1>i, <2>1, <2>2 DEF SchedulerTypes
  <2>4. SchedulerTypes'
    BY <1>i, <2>2, <2>3 DEF SchedulerTypes
  <2>5. ClaimsHeld'
    BY <1>i, <2>1, <2>2, <2>3, ClaimsUntouched DEF Occupied
  <2>6. ASSUME NEW k \in OneShot PROVE OneShotPlaced(k)'
    BY <1>i, <2>1, <2>2, <2>3 DEF OneShotPlaced, DoneInMemory
  <2> QED
    BY <2>4, <2>5, <2>6 DEF SchedulerInv
<1>6. ASSUME NEW r \in RunSlot, Panics(r) \/ DropClaim(r) PROVE SchedulerInv'
  <2>1. /\ Occupied(r) /\ jobRun' = [jobRun EXCEPT ![r] = NoRun]
        /\ claims' = claims \ {jobRun[r].job}
        /\ UNCHANGED <<tasks, rows, elapsed, tick, beating, call, settled, delivered>>
    BY <1>6 DEF Panics, PanicDrops, DropClaim, Occupied
  <2>2. /\ ClaimsHeld' /\ jobRun' \in [RunSlot -> RunStates]
        /\ \A q \in RunSlot : jobRun'[q].at = "storage" => jobRun'[q] = jobRun[q]
    BY <1>i, <2>1, RunEnds
  <2>3. SchedulerTypes'
    BY <1>i, <2>1, <2>2 DEF SchedulerTypes
  <2>4. ASSUME NEW k \in OneShot PROVE OneShotPlaced(k)'
    BY <1>i, <2>1, <2>2 DEF OneShotPlaced, DoneInMemory
  <2> QED
    BY <2>2, <2>3, <2>4 DEF SchedulerInv
<1>7. ASSUME NEW r \in RunSlot, SettleMemory(r) PROVE SchedulerInv'
  <2> DEFINE s == [jobRun[r] EXCEPT !.at = "storage"]
             j == jobRun[r].job
  <2>1. s \in RunStates /\ s.at = "storage" /\ s.job = j
    BY <1>i DEF SchedulerTypes, RunStates, RunPlaces
  <2>2. jobRun' = [jobRun EXCEPT ![r] = s] /\ jobRun[r].at = "memory"
        /\ UNCHANGED <<rows, tick, beating, claims, call, settled, delivered>>
    BY <1>7, <1>i DEF SettleMemory, Moves, SchedulerTypes
  <2>3. j \in claims /\ j \in Job
    BY <1>i, <2>2 DEF ClaimsHeld, Occupied, SchedulerTypes
  <2>4. /\ tasks' \in [Job -> TaskStates]
        /\ \A k \in Job : k # j => tasks'[k] = tasks[k]
        /\ tasks[j].ran => ~tasks'[j].in \/ tasks'[j].ran
        /\ ~tasks[j].in => ~tasks'[j].in
        /\ j \in OneShot => ~tasks'[j].in \/ tasks'[j].ran
    <3>1. CASE tasks' = [tasks EXCEPT ![j] = Absent]
      BY <1>0, <1>i, <2>3, <3>1 DEF SchedulerTypes
    <3>2. CASE tasks[j].in /\ tasks' = [tasks EXCEPT ![j].ran = TRUE, ![j].on = @ /\ j \notin OneShot]
      <4> DEFINE t == [tasks[j] EXCEPT !.ran = TRUE, !.on = @ /\ j \notin OneShot]
      <4>1. t \in TaskStates /\ t.ran = TRUE
        <5>1. tasks[j] \in TaskStates
          BY <1>i, <2>3 DEF SchedulerTypes
        <5> HIDE DEF j
        <5> QED
          BY <5>1 DEF TaskStates
      <4>2. tasks' = [tasks EXCEPT ![j] = t]
        BY <1>i, <2>3, <3>2 DEF SchedulerTypes, TaskStates
      <4> HIDE DEF t, j
      <4> QED
        BY <1>i, <2>3, <3>2, <4>1, <4>2 DEF SchedulerTypes
    <3>3. CASE tasks' = tasks /\ ~(j \in OneShot /\ jobRun[r].ok) /\ ~tasks[j].in
      BY <1>i, <3>3 DEF SchedulerTypes
    <3> QED
      BY <1>7, <3>1, <3>2, <3>3 DEF SettleMemory
  <2>5. elapsed' \subseteq Job /\ \A k \in OneShot : k \in elapsed => k \in elapsed'
    BY <1>7, <1>i DEF SettleMemory, SchedulerTypes
  <2> HIDE DEF s, j
  <2>6. jobRun' \in [RunSlot -> RunStates] /\ jobRun'[r] = s
        /\ \A q \in RunSlot : q # r => jobRun'[q] = jobRun[q]
    BY <1>i, <2>1, <2>2 DEF SchedulerTypes
  <2>7. SchedulerTypes'
    BY <1>i, <2>2, <2>4, <2>5, <2>6 DEF SchedulerTypes
  <2>8. ClaimsHeld'
    BY <1>i, <2>1, <2>2, <2>6, ClaimsUntouched DEF Occupied, j
  <2>9. ASSUME NEW k \in OneShot PROVE OneShotPlaced(k)'
    <3>1. OneShotPlaced(k) /\ k \in Job
      BY <1>i, <1>o
    <3>2. CASE k = j
      BY <2>2, <2>3, <2>4, <2>5, <3>1, <3>2 DEF OneShotPlaced, DoneInMemory
    <3>3. CASE k # j
      BY <2>1, <2>2, <2>4, <2>5, <2>6, <3>1, <3>3 DEF OneShotPlaced, DoneInMemory
    <3> QED
      BY <3>2, <3>3
  <2> QED
    BY <2>7, <2>8, <2>9 DEF SchedulerInv
<1>8. ASSUME NEW r \in RunSlot, SettleStorage(r) PROVE SchedulerInv'
  <2> DEFINE s == [jobRun[r] EXCEPT !.at = "drop"]
             j == jobRun[r].job
  <2>1. s \in RunStates /\ s.at = "drop" /\ s.job = j
    BY <1>i DEF SchedulerTypes, RunStates, RunPlaces
  <2>2. jobRun' = [jobRun EXCEPT ![r] = s] /\ jobRun[r].at = "storage"
        /\ rows' = [rows EXCEPT ![j] = RowAfter(j, jobRun[r].ok)]
        /\ settled' = (IF j \in OneShot THEN settled \cup {j} ELSE settled)
        /\ UNCHANGED <<tasks, elapsed, tick, beating, claims, call>>
    BY <1>8, <1>i DEF SettleStorage, Moves, SchedulerTypes
  <2>3. j \in claims /\ j \in Job
    BY <1>i, <2>2 DEF ClaimsHeld, Occupied, SchedulerTypes
  <2>4. /\ rows' \in [Job -> {"none", "on", "off"}]
        /\ \A k \in OneShot : rows'[k] = "on" => rows[k] = "on" /\ k # j
    BY <1>i, <1>o, <2>2, <2>3 DEF RowAfter, SchedulerTypes
  <2>5. j \in OneShot => DoneInMemory(j)
    BY <1>i, <2>2 DEF OneShotPlaced
  <2> HIDE DEF s, j
  <2>6. jobRun' \in [RunSlot -> RunStates] /\ jobRun'[r] = s
        /\ \A q \in RunSlot : q # r => jobRun'[q] = jobRun[q]
    BY <1>i, <2>1, <2>2 DEF SchedulerTypes
  <2>7. SchedulerTypes'
    BY <1>i, <2>2, <2>4, <2>6 DEF SchedulerTypes
  <2>8. ClaimsHeld'
    BY <1>i, <2>1, <2>2, <2>6, ClaimsUntouched DEF Occupied, j
  <2>9. ASSUME NEW k \in OneShot PROVE OneShotPlaced(k)'
    BY <1>i, <2>1, <2>2, <2>3, <2>4, <2>5, <2>6 DEF OneShotPlaced, DoneInMemory
  <2> QED
    BY <2>7, <2>8, <2>9 DEF SchedulerInv
<1>9. ASSUME NEW j \in Job, NEW op \in {"add", "remove", "enable", "disable"},
             \/ AddRow(j) /\ op = "add"
             \/ RemoveRow(j) /\ op = "remove"
             \/ op \in {"enable", "disable"} /\ SetRowEnabled(j, op)
      PROVE  SchedulerInv'
  <2>1. /\ call' = [op |-> op, job |-> j, at |-> "memory", ok |-> FALSE]
        /\ UNCHANGED <<tasks, elapsed, tick, beating, claims, jobRun>>
    BY <1>9 DEF AddRow, RemoveRow, SetRowEnabled, Calls
  <2>2. call' \in CallStates /\ call'.job = j /\ call'.op = op
    BY <2>1 DEF CallStates
  <2>3. /\ rows' \in [Job -> {"none", "on", "off"}] /\ settled' \subseteq settled
        /\ op = "enable" => j \notin settled'
        /\ \A k \in settled' : rows'[k] = "on" => rows[k] = "on"
    BY <1>9, <1>i, <1>o DEF AddRow, RemoveRow, SetRowEnabled, SchedulerTypes
  <2>4. op = "add" => ~tasks[j].in /\ j \notin settled \cup elapsed
    BY <1>9 DEF AddRow
  <2>5. SchedulerTypes' /\ ClaimsHeld'
    BY <1>i, <2>1, <2>2, <2>3, ClaimsUntouched DEF SchedulerTypes, Occupied
  <2>6. ASSUME NEW k \in OneShot PROVE OneShotPlaced(k)'
    BY <1>i, <2>1, <2>2, <2>3, <2>4 DEF OneShotPlaced, DoneInMemory
  <2> QED
    BY <2>5, <2>6 DEF SchedulerInv
<1>10. CASE CallMemory
  <2> DEFINE j == call.job
  <2>1. /\ j \in Job /\ call' = NoCall
        /\ UNCHANGED <<rows, elapsed, tick, beating, claims, jobRun, settled, delivered>>
    BY <1>10, <1>i DEF CallMemory, SchedulerTypes, NoCall
  <2>2. /\ tasks' \in [Job -> TaskStates]
        /\ \A k \in Job : k # j => tasks'[k] = tasks[k]
        /\ call.op # "add" /\ tasks'[j].in => tasks[j].in
        /\ call.op # "add" /\ tasks'[j].in => tasks'[j].ran = tasks[j].ran
        /\ call.op \notin {"add", "enable"} /\ tasks'[j].in /\ tasks'[j].on => tasks[j].on
    <3>1. CASE call.op = "add" /\ tasks' = [tasks EXCEPT ![j] = Loaded(TRUE)]
      BY <1>0, <1>i, <2>1, <3>1 DEF SchedulerTypes
    <3>2. CASE tasks' = [tasks EXCEPT ![j] = Absent]
      BY <1>0, <1>i, <2>1, <3>2 DEF SchedulerTypes
    <3>3. CASE call.op \in {"enable", "disable"} /\ tasks[j].in
               /\ tasks' = [tasks EXCEPT ![j].on = (call.op = "enable")]
      <4> DEFINE b == (call.op = "enable")
                 t == [tasks[j] EXCEPT !.on = b]
      <4>0. b \in BOOLEAN /\ tasks[j] \in TaskStates
        BY <1>i, <2>1 DEF SchedulerTypes
      <4>1. tasks' = [tasks EXCEPT ![j] = t]
        BY <1>i, <2>1, <3>3 DEF SchedulerTypes
      <4>b. call.op # "enable" => ~b
        OBVIOUS
      <4> HIDE DEF b, j
      <4>2. t \in TaskStates /\ t.ran = tasks[j].ran /\ t.on = b
        BY <4>0 DEF TaskStates
      <4> HIDE DEF t
      <4> QED
        BY <1>i, <2>1, <3>3, <4>1, <4>2, <4>b DEF SchedulerTypes
    <3>4. CASE tasks' = tasks /\ call.op # "add"
      BY <1>i, <3>4 DEF SchedulerTypes
    <3> QED
      BY <1>10, <3>1, <3>2, <3>3, <3>4 DEF CallMemory
  <2> HIDE DEF j
  <2>3. SchedulerTypes' /\ ClaimsHeld'
    BY <1>0, <1>i, <2>1, <2>2, ClaimsUntouched DEF SchedulerTypes, Occupied
  <2>4. ASSUME NEW k \in OneShot PROVE OneShotPlaced(k)'
    <3>1. OneShotPlaced(k) /\ k \in Job
      BY <1>i, <1>o
    <3>2. CASE k # j
      BY <1>0, <2>1, <2>2, <3>1, <3>2 DEF OneShotPlaced, DoneInMemory
    <3>3. CASE k = j /\ call.op = "add"
      BY <1>0, <1>i, <2>1, <2>2, <3>1, <3>3 DEF OneShotPlaced, DoneInMemory, ClaimsHeld, Occupied, j
    <3>4. CASE k = j /\ call.op # "add"
      BY <1>0, <2>1, <2>2, <3>1, <3>4 DEF OneShotPlaced, DoneInMemory, j
    <3> QED
      BY <3>2, <3>3, <3>4
  <2> QED
    BY <2>3, <2>4 DEF SchedulerInv
<1>11. ASSUME NEW j \in Job, RunNow(j) PROVE SchedulerInv'
  <2>1. /\ call' = [op |-> "now", job |-> j, at |-> "exec", ok |-> FALSE]
        /\ UNCHANGED <<tasks, rows, elapsed, tick, beating, claims, jobRun, settled>>
    BY <1>11 DEF RunNow, Calls
  <2>2. call' \in CallStates /\ call'.job = j /\ call'.op = "now"
    BY <2>1 DEF CallStates
  <2>3. SchedulerTypes' /\ ClaimsHeld'
    BY <1>i, <2>1, <2>2, ClaimsUntouched DEF SchedulerTypes, Occupied
  <2>4. ASSUME NEW k \in OneShot PROVE OneShotPlaced(k)'
    BY <1>i, <2>1, <2>2 DEF OneShotPlaced, DoneInMemory
  <2> QED
    BY <2>3, <2>4 DEF SchedulerInv
<1>12. ASSUME NEW ok \in BOOLEAN, RunNowExecutes(ok) PROVE SchedulerInv'
  <2>1. call \in CallStates /\ call.job \in Job
    BY <1>12, <1>i DEF RunNowExecutes, SchedulerTypes, NoCall
  <2>2. call' = [call EXCEPT !.at = "memory", !.ok = ok]
        /\ UNCHANGED <<tasks, rows, elapsed, tick, beating, claims, jobRun, settled>>
    BY <1>12 DEF RunNowExecutes
  <2>3. call' \in CallStates /\ call'.job = call.job /\ call'.op = call.op
    BY <2>1, <2>2 DEF CallStates
  <2>4. SchedulerTypes' /\ ClaimsHeld'
    BY <1>i, <2>1, <2>2, <2>3, ClaimsUntouched DEF SchedulerTypes, Occupied
  <2>5. ASSUME NEW k \in OneShot PROVE OneShotPlaced(k)'
    BY <1>i, <2>2, <2>3 DEF OneShotPlaced, DoneInMemory
  <2> QED
    BY <2>4, <2>5 DEF SchedulerInv
<1>13. CASE RunNowRecords
  <2> DEFINE j == call.job
  <2>1. /\ j \in Job /\ call' = NoCall /\ call.op = "now"
        /\ UNCHANGED <<rows, tick, beating, claims, jobRun, settled>>
    BY <1>13, <1>i DEF RunNowRecords, SchedulerTypes, NoCall
  <2>2. /\ tasks' \in [Job -> TaskStates]
        /\ \A k \in Job : tasks'[k].in = tasks[k].in /\ tasks'[k].on = tasks[k].on
        /\ \A k \in Job : tasks[k].ran => tasks'[k].ran
    <3> DEFINE t == [tasks[j] EXCEPT !.ran = TRUE]
    <3>0. tasks[j] \in TaskStates
      BY <1>i, <2>1 DEF SchedulerTypes
    <3>1. tasks' = [tasks EXCEPT ![j] = t] \/ tasks' = tasks
      BY <1>13, <1>i, <2>1 DEF RunNowRecords, SchedulerTypes
    <3> HIDE DEF j
    <3>2. t \in TaskStates /\ t.in = tasks[j].in /\ t.on = tasks[j].on /\ t.ran
      BY <3>0 DEF TaskStates
    <3> HIDE DEF t
    <3> QED
      BY <1>i, <2>1, <3>1, <3>2 DEF SchedulerTypes
  <2>3. elapsed' \subseteq Job /\ \A k \in OneShot : k \in elapsed => k \in elapsed'
    BY <1>13, <1>i DEF RunNowRecords, SchedulerTypes
  <2> HIDE DEF j
  <2>4. SchedulerTypes' /\ ClaimsHeld'
    BY <1>0, <1>i, <2>1, <2>2, <2>3, ClaimsUntouched DEF SchedulerTypes, Occupied
  <2>5. ASSUME NEW k \in OneShot PROVE OneShotPlaced(k)'
    BY <1>0, <1>i, <1>o, <2>1, <2>2, <2>3 DEF OneShotPlaced, DoneInMemory
  <2> QED
    BY <2>4, <2>5 DEF SchedulerInv
<1>14. CASE DieAndLoad
  <2>1. /\ tasks' = LoadJobs /\ tick' = {} /\ claims' = {} /\ call' = NoCall
        /\ jobRun' = [r \in RunSlot |-> NoRun] /\ UNCHANGED <<rows, elapsed, settled>>
    BY <1>14 DEF DieAndLoad
  <2>2. tasks' \in [Job -> TaskStates]
    BY <1>0, <1>i, <2>1 DEF LoadJobs, SchedulerTypes
  <2>3. \A k \in Job : rows[k] # "on" => ~tasks'[k].in \/ ~tasks'[k].on
    BY <1>0, <2>1 DEF LoadJobs
  <2>4. \A r \in RunSlot : jobRun'[r].at = "free"
    BY <2>1 DEF NoRun
  <2>5. SchedulerTypes' /\ ClaimsHeld'
    BY <1>0, <1>i, <2>1, <2>2, <2>4 DEF SchedulerTypes, ClaimsHeld, Occupied
  <2>6. ASSUME NEW k \in OneShot PROVE OneShotPlaced(k)'
    BY <1>0, <1>i, <1>o, <2>1, <2>3, <2>4 DEF OneShotPlaced, DoneInMemory
  <2> QED
    BY <2>5, <2>6 DEF SchedulerInv
<1>15. ASSUME NEW r \in RunSlot, RunStep(r) PROVE SchedulerInv'
  BY <1>5, <1>6, <1>7, <1>8, <1>15 DEF RunStep
<1>16. CASE CallStep
  <2>1. ASSUME NEW j \in Job, NEW op \in {"enable", "disable"}, SetRowEnabled(j, op)
        PROVE  SchedulerInv'
    BY <1>9, <2>1
  <2>2. ASSUME NEW j \in Job, AddRow(j) \/ RemoveRow(j) PROVE SchedulerInv'
    <3> DEFINE op == IF AddRow(j) THEN "add" ELSE "remove"
    <3>1. op \in {"add", "remove", "enable", "disable"}
          /\ \/ AddRow(j) /\ op = "add"
             \/ RemoveRow(j) /\ op = "remove"
      BY <2>2
    <3> HIDE DEF op
    <3> QED
      BY <1>9, <3>1
  <2> QED
    BY <1>10, <1>11, <1>12, <1>13, <1>16, <2>1, <2>2 DEF CallStep
<1> QED
  BY <1>1, <1>2, <1>3, <1>4, <1>14, <1>15, <1>16 DEF SNext

\* check_and_run_tasks, execute_task and the calls of the control plane: for
\* any jobs, slots and clock, a job runs in one slot at a time, each run
\* with its claim, and a one-shot that has settled is neither due nor armed
\* in storage again unless it is enabled again, whatever call was under way
\* as it settled.
THEOREM SchedulerHolds == SSpec => [](STypeOK /\ SchedulerSound)
<1>1. ASSUME SchedulerInv PROVE STypeOK /\ SchedulerSound
  <2>1. STypeOK
    BY <1>1 DEF SchedulerInv, SchedulerTypes, STypeOK, TaskStates
  <2>2. ClaimsAreRuns
    BY <1>1 DEF SchedulerInv, ClaimsHeld, ClaimsAreRuns
  <2>3. SettledStaysSettled
    BY <1>1 DEF SchedulerInv, SchedulerTypes, OneShotPlaced, DoneInMemory, SettledStaysSettled, IsTaskDue
  <2> QED
    BY <2>1, <2>2, <2>3 DEF SchedulerSound
<1> QED
  BY <1>1, SchedulerStarts, SchedulerKeeps, PTL DEF SSpec
-----------------------------------------------------------------------------
(* SingleInstance: the PID file, the port and the exit record.             *)

\* The places of a life of the daemon.
LifePcs == {"unborn", "acquire", "judge", "truncate", "write", "bind", "unlink", "rename",
            "boot", "serving", "drain", "release", "check", "remove", "over"}
\* The states of a life.
LifeStates == [pc : LifePcs, pid : Pid \cup {"none"}, owned : BOOLEAN, armed : BOOLEAN,
               next : {"none", "over", "boot", "drain", "unlink"},
               claim : {"none", "held", "error", "refused"}]
\* What the signal handler or the panic hook of a life is at.
HandlerStates == {"idle", "sent", "unlink", "rename", "panicUnlink", "panicRename"}
\* The states of the exit record, and whose it is.
RecordStates == [state : {"absent", "running", "exited"}, by : Life \cup {"nobody"}]

\* The types of lives, handlers, files and the section.
InstanceTypes ==
    /\ life \in [Life -> LifeStates]
    /\ handler \in [Life -> HandlerStates]
    /\ pidFile \in {"absent", "torn"} \cup Pid
    /\ section \in {"free"} \cup Life /\ listening \in {"none"} \cup Life
    /\ record \in RecordStates
    /\ strangers \subseteq Pid

\* The places inside the lock of the PID file.
SectionPcs == {"judge", "truncate", "write", "check", "remove"}
\* The places of a life that may change the PID file.
WritingPcs == {"truncate", "write", "remove"}

\* What a life has at each place: its PID, the file, the armed record, and
\* where it goes next.
StagePlaced(s) ==
    /\ s.pc # "unborn" => s.pid \in Pid
    /\ s.pc \in {"unborn", "acquire"} \cup SectionPcs => ~s.owned
    /\ s.pc \in {"boot", "serving", "drain"} => s.armed
    /\ s.pc \in {"unlink", "rename"} => s.next \in {"boot", "drain", "over"} /\ (s.next # "boot" => s.armed)
    /\ s.pc \in {"release", "check", "remove"} => s.next \in {"over", "unlink"} /\ (s.next # "over" => s.armed)

\* A handler that writes belongs to a living, armed life.
HandlersArmed ==
    \A l \in Life : handler[l] \notin {"idle", "sent"} => life[l].armed /\ l \in Alive

\* No two living processes have the same PID.
PidsDistinct == \A l, m \in Alive : life[l].pid = life[m].pid => l = m

\* No life claims the PID file.
NobodyOwns == \A l \in Alive : ~life[l].owned

\* Where files are locked: a life inside the section holds it, one that
\* writes does so while nobody owns the file, and an owner's PID is the one
\* on file.
FileOwned ==
    Locking => /\ \A l \in Life : life[l].pc \in SectionPcs => section = l
               /\ \A l \in Life : life[l].pc \in WritingPcs => NobodyOwns
               /\ \A l \in Alive : life[l].owned => pidFile = life[l].pid

\* The inductive invariant.
InstanceInv ==
    /\ InstanceTypes
    /\ \A l \in Life : StagePlaced(life[l])
    /\ HandlersArmed
    /\ PidsDistinct
    /\ FileOwned

\* No life, no record.
LEMMA InstanceStarts == IInit => InstanceInv
<1> SUFFICES ASSUME IInit PROVE InstanceInv
  OBVIOUS
<1>1. Unborn \in LifeStates /\ StagePlaced(Unborn) /\ NoRecord \in RecordStates
      /\ Unborn.pc = "unborn" /\ NoRecord.state = "absent"
  BY DEF Unborn, LifeStates, LifePcs, StagePlaced, SectionPcs, NoRecord, RecordStates
<1>2. Alive = {}
  BY <1>1 DEF IInit, Alive
<1>3. InstanceTypes /\ HandlersArmed /\ \A l \in Life : StagePlaced(life[l])
  BY <1>1 DEF IInit, InstanceTypes, HandlerStates, HandlersArmed
<1>4. PidsDistinct /\ FileOwned
  BY <1>1, <1>2 DEF IInit, PidsDistinct, FileOwned, SectionPcs, WritingPcs
<1> QED
  BY <1>3, <1>4 DEF InstanceInv

\* One life moves on; the file it has not claimed keeps its owner.
LEMMA LifeMoves ==
    ASSUME InstanceInv, NEW l \in Life, l \in Alive, NEW s \in LifeStates,
           life' = [life EXCEPT ![l] = s], StagePlaced(s), s.pc # "unborn",
           s.pid = life[l].pid, s.owned => life[l].owned,
           \/ section' = section
           \/ section = "free" /\ section' = l
           \/ section = l /\ section' = "free",
           Locking /\ s.pc \in SectionPcs => section' = l,
           Locking /\ s.pc \in WritingPcs => NobodyOwns,
           pidFile' = pidFile \/ life[l].pc \in WritingPcs
    PROVE  /\ life' \in [Life -> LifeStates]
           /\ \A q \in Life : StagePlaced(life[q])'
           /\ PidsDistinct' /\ FileOwned'
           /\ section' \in {"free"} \cup Life
<1>i. /\ InstanceTypes /\ PidsDistinct /\ FileOwned /\ \A q \in Life : StagePlaced(life[q])
  BY DEF InstanceInv
<1>1. /\ life' \in [Life -> LifeStates] /\ life'[l] = s
      /\ \A q \in Life : q # l => life'[q] = life[q]
  BY <1>i DEF InstanceTypes
<1>2. ASSUME NEW q \in Life PROVE StagePlaced(life[q])'
  <2>1. CASE q = l
    BY <1>1, <2>1 DEF StagePlaced
  <2>2. CASE q # l
    BY <1>1, <1>i, <2>2 DEF StagePlaced
  <2> QED
    BY <2>1, <2>2
<1>3. /\ \A q \in Life : q \in Alive' => q \in Alive
      /\ \A q \in Life : life'[q].pid = life[q].pid
      /\ \A q \in Life : life'[q].owned => life[q].owned
  BY <1>1 DEF Alive
<1>a. \A q \in Alive : q \in Life
  BY DEF Alive
<1>b. \A q \in Alive' : q \in Life /\ q \in Alive
  BY <1>3 DEF Alive
<1>4. PidsDistinct'
  BY <1>3, <1>b, <1>i DEF PidsDistinct
<1>5. NobodyOwns => NobodyOwns'
  BY <1>3, <1>b DEF NobodyOwns
<1>6. ASSUME Locking PROVE \A q \in Life : life'[q].pc \in SectionPcs => section' = q
  BY <1>1, <1>6, <1>i, InstanceAssumption DEF FileOwned
<1>7. ASSUME Locking, NEW q \in Life, life'[q].pc \in WritingPcs PROVE NobodyOwns'
  <2>1. CASE q = l
    BY <1>1, <1>5, <1>7, <2>1
  <2>2. CASE q # l
    BY <1>1, <1>5, <1>7, <1>i, <2>2 DEF FileOwned
  <2> QED
    BY <2>1, <2>2
<1>8. ASSUME Locking, NEW q \in Alive', life'[q].owned PROVE pidFile' = life'[q].pid
  <2>1. q \in Alive /\ q \in Life /\ life[q].owned /\ pidFile = life[q].pid
    BY <1>3, <1>8, <1>b, <1>i DEF FileOwned
  <2>2. pidFile' = pidFile
    BY <1>8, <1>i, <2>1 DEF FileOwned, NobodyOwns
  <2> QED
    BY <1>3, <2>1, <2>2
<1>9. FileOwned'
  BY <1>6, <1>7, <1>8 DEF FileOwned
<1> QED
  BY <1>1, <1>2, <1>4, <1>9, <1>i DEF InstanceTypes

\* A life that moves on keeps the handlers armed.
LEMMA HandlersKept ==
    ASSUME InstanceInv, NEW l \in Life, life' \in [Life -> LifeStates],
           \A q \in Life : life[q].armed => life'[q].armed,
           handler' \in [Life -> HandlerStates],
           \A q \in Life : q # l => handler'[q] = handler[q],
           handler'[l] \notin {"idle", "sent"} => life[l].armed /\ l \in Alive',
           \A q \in Life : q # l => life'[q] = life[q]
    PROVE  HandlersArmed'
<1>i. HandlersArmed /\ InstanceTypes
  BY DEF InstanceInv
<1> QED
  BY <1>i DEF HandlersArmed, Alive

\* A record that is removed or written is a record.
LEMMA RecordTyped ==
    ASSUME NEW l \in Life, record \in RecordStates,
           \/ record' = record \/ record' = Unlinked(l)
           \/ \E st \in {"running", "exited"} : record' = [state |-> st, by |-> l]
    PROVE  record' \in RecordStates
BY DEF RecordStates, Unlinked

\* One life moves on, all else about it kept: the shape of most steps.
LEMMA InstanceMoves ==
    ASSUME InstanceInv, NEW l \in Life, l \in Alive, NEW s \in LifeStates,
           life' = [life EXCEPT ![l] = s], StagePlaced(s), s.pc # "unborn",
           s.pid = life[l].pid, s.owned => life[l].owned, life[l].armed => s.armed,
           \/ section' = section
           \/ section = "free" /\ section' = l
           \/ section = l /\ section' = "free",
           Locking /\ s.pc \in SectionPcs => section' = l,
           Locking /\ s.pc \in WritingPcs => NobodyOwns,
           pidFile' = pidFile \/ (life[l].pc \in WritingPcs /\ pidFile' \in {"absent", "torn"}),
           \/ handler' = handler /\ s.pc # "over"
           \/ handler' = [handler EXCEPT ![l] = "idle"],
           listening' \in {"none"} \cup Life, strangers' = strangers,
           \/ record' = record \/ record' = Unlinked(l)
           \/ \E st \in {"running", "exited"} : record' = [state |-> st, by |-> l]
    PROVE  InstanceInv'
<1>i. InstanceTypes /\ HandlersArmed
  BY DEF InstanceInv
<1>1. /\ life' \in [Life -> LifeStates] /\ section' \in {"free"} \cup Life
      /\ (\A q \in Life : StagePlaced(life[q]))' /\ PidsDistinct' /\ FileOwned'
  BY LifeMoves
<1>2. life'[l] = s /\ \A q \in Life : q # l => life'[q] = life[q]
  BY <1>i DEF InstanceTypes
<1>3. \A q \in Life : life[q].armed => life'[q].armed
  BY <1>2
<1>4. /\ handler' \in [Life -> HandlerStates] /\ \A q \in Life : q # l => handler'[q] = handler[q]
      /\ handler'[l] \notin {"idle", "sent"} => life[l].armed /\ l \in Alive'
  BY <1>2, <1>i DEF InstanceTypes, HandlersArmed, HandlerStates, Alive
<1>5. HandlersArmed' /\ record' \in RecordStates
  BY <1>1, <1>2, <1>3, <1>4, <1>i, HandlersKept, RecordTyped DEF InstanceTypes
<1>6. InstanceTypes'
  BY <1>1, <1>4, <1>5, <1>i DEF InstanceTypes
<1> QED
  BY <1>1, <1>5, <1>6 DEF InstanceInv

\* Whatever ends a life.
LEMMA OverKeepsInstance ==
    ASSUME InstanceInv, NEW l \in Life, l \in Alive, Over(l), strangers' = strangers,
           pidFile' = pidFile \/ (life[l].pc \in WritingPcs /\ pidFile' \in {"absent", "torn"}),
           \/ record' = record
           \/ \E st \in {"running", "exited"} : record' = [state |-> st, by |-> l]
    PROVE  InstanceInv'
<1> DEFINE s == [life[l] EXCEPT !.pc = "over"]
<1>i. InstanceTypes /\ StagePlaced(life[l]) /\ life[l] \in LifeStates
  BY DEF InstanceInv, InstanceTypes
<1>1. /\ s \in LifeStates /\ s.pc = "over" /\ s.pid = life[l].pid
      /\ s.owned = life[l].owned /\ s.armed = life[l].armed
  BY <1>i DEF LifeStates, LifePcs
<1>2. life' = [life EXCEPT ![l] = s]
  BY <1>i DEF Over, Proceeds, InstanceTypes
<1> HIDE DEF s
<1>3. StagePlaced(s)
  BY <1>1, <1>i DEF StagePlaced, SectionPcs, Alive
<1>4. /\ s.pc \notin SectionPcs /\ s.pc \notin WritingPcs /\ s.pc # "unborn"
  BY <1>1 DEF SectionPcs, WritingPcs
<1>5. /\ section' = section \/ (section = l /\ section' = "free")
      /\ listening' \in {"none"} \cup Life /\ handler' = [handler EXCEPT ![l] = "idle"]
  BY <1>i DEF Over, InstanceTypes
<1> QED
  BY <1>1, <1>2, <1>3, <1>4, <1>5, InstanceMoves

\* What follows a release, or a release refused.
LEMMA AfterReleaseKeeps ==
    ASSUME InstanceInv, NEW l \in Life, l \in Alive, AfterRelease(l),
           life[l].pc \in {"release", "check", "remove"},
           UNCHANGED <<record, strangers>>,
           pidFile' = pidFile \/ (life[l].pc \in WritingPcs /\ pidFile' \in {"absent", "torn"})
    PROVE  InstanceInv'
<1>1. CASE life[l].next = "over"
  BY <1>1, OverKeepsInstance DEF AfterRelease
<1>2. CASE life[l].next # "over"
  <2> DEFINE s == [life[l] EXCEPT !.pc = "unlink", !.next = "over", !.owned = FALSE]
  <2>i. InstanceTypes /\ StagePlaced(life[l]) /\ life[l] \in LifeStates
    BY DEF InstanceInv, InstanceTypes
  <2>1. /\ s \in LifeStates /\ s.pc = "unlink" /\ s.pid = life[l].pid
        /\ ~s.owned /\ s.armed = life[l].armed /\ s.next = "over"
    BY <2>i DEF LifeStates, LifePcs
  <2>2. life' = [life EXCEPT ![l] = s] /\ UNCHANGED <<handler, listening>> /\ LeavesSection(l)
    BY <1>2, <2>i DEF AfterRelease, InstanceTypes
  <2> HIDE DEF s
  <2>3. StagePlaced(s)
    BY <1>2, <2>1, <2>i DEF StagePlaced, SectionPcs
  <2>4. /\ s.pc \notin SectionPcs /\ s.pc \notin WritingPcs /\ s.pc # "unborn"
    BY <2>1 DEF SectionPcs, WritingPcs
  <2>5. /\ section' = section \/ (section = l /\ section' = "free")
        /\ listening' \in {"none"} \cup Life
    BY <2>2, <2>i DEF LeavesSection, InstanceTypes
  <2> QED
    BY <2>1, <2>2, <2>3, <2>4, <2>5, InstanceMoves
<1> QED
  BY <1>1, <1>2

\* acquire_pid_file and release of the PID file, up to the write.
LEMMA AcquireKeeps ==
    ASSUME InstanceInv, NEW l \in Life,
           AcquirePid(l) \/ Judge(l) \/ Truncate(l) \/ PidIoFails(l) \/ ReleaseOwned(l)
    PROVE  InstanceInv'
<1>i. /\ InstanceTypes /\ StagePlaced(life[l]) /\ life[l] \in LifeStates /\ FileOwned /\ PidsDistinct
      /\ listening \in {"none"} \cup Life
  BY DEF InstanceInv, InstanceTypes
<1>a. l \in Alive
  BY DEF AcquirePid, Judge, Truncate, PidIoFails, ReleaseOwned, Alive
<1>e. EntersSection(l) => /\ section' = section \/ (section = "free" /\ section' = l)
                          /\ Locking => section' = l
  BY DEF EntersSection
<1>l. LeavesSection(l) => section' = section \/ (section = l /\ section' = "free")
  BY DEF LeavesSection
<1>1. CASE AcquirePid(l)
  <2> DEFINE s == [life[l] EXCEPT !.pc = "judge"]
  <2>1. /\ s \in LifeStates /\ s.pc = "judge" /\ s.pid = life[l].pid
        /\ s.owned = life[l].owned /\ s.armed = life[l].armed
    BY <1>i DEF LifeStates, LifePcs
  <2>2. /\ life' = [life EXCEPT ![l] = s] /\ life[l].pc = "acquire" /\ EntersSection(l)
        /\ UNCHANGED <<handler, pidFile, listening, record, strangers>>
    BY <1>1, <1>i DEF AcquirePid, Proceeds, InstanceTypes
  <2> HIDE DEF s
  <2>3. StagePlaced(s) /\ s.pc \notin WritingPcs /\ s.pc # "unborn"
    BY <1>i, <2>1, <2>2 DEF StagePlaced, SectionPcs, WritingPcs
  <2> QED
    BY <1>a, <1>e, <1>i, <2>1, <2>2, <2>3, InstanceMoves
<1>2. ASSUME NEW s \in LifeStates, life' = [life EXCEPT ![l] = s], life[l].pc \in SectionPcs,
             s.pc \in {"release", "bind"}, s.pid = life[l].pid, s.owned = life[l].owned,
             s.armed = life[l].armed, s.pc = "release" => s.next = "over", LeavesSection(l),
             UNCHANGED <<handler, pidFile, listening, record, strangers>>
      PROVE  InstanceInv'
  <2>1. StagePlaced(s) /\ s.pc \notin SectionPcs /\ s.pc \notin WritingPcs /\ s.pc # "unborn"
    BY <1>2, <1>i DEF StagePlaced, SectionPcs, WritingPcs
  <2> QED
    BY <1>2, <1>a, <1>i, <1>l, <2>1, InstanceMoves
<1>3. CASE Judge(l)
  <2>1. PICK refused \in Refusals(l) :
          IF refused
          THEN /\ life' = [life EXCEPT ![l].pc = "release", ![l].next = "over",
                                        ![l].claim = "refused"]
               /\ LeavesSection(l)
          ELSE Proceeds(l, "truncate") /\ UNCHANGED section
    BY <1>3 DEF Judge
  <2>2. life[l].pc = "judge" /\ UNCHANGED <<handler, pidFile, listening, record, strangers>>
    BY <1>3 DEF Judge
  <2>3. CASE refused
    <3> DEFINE s == [life[l] EXCEPT !.pc = "release", !.next = "over", !.claim = "refused"]
    <3>1. /\ s \in LifeStates /\ s.pc = "release" /\ s.pid = life[l].pid
          /\ s.owned = life[l].owned /\ s.armed = life[l].armed /\ s.next = "over"
      BY <1>i DEF LifeStates, LifePcs
    <3>2. life' = [life EXCEPT ![l] = s]
      BY <1>i, <2>1, <2>3 DEF InstanceTypes
    <3> HIDE DEF s
    <3> QED
      BY <1>2, <2>1, <2>2, <2>3, <3>1, <3>2 DEF SectionPcs
  <2>4. CASE ~refused
    <3> DEFINE s == [life[l] EXCEPT !.pc = "truncate"]
    <3>1. /\ s \in LifeStates /\ s.pc = "truncate" /\ s.pid = life[l].pid
          /\ s.owned = life[l].owned /\ s.armed = life[l].armed
      BY <1>i DEF LifeStates, LifePcs
    <3>2. life' = [life EXCEPT ![l] = s] /\ section' = section
      BY <1>i, <2>1, <2>4 DEF Proceeds, InstanceTypes
    <3> HIDE DEF s
    <3>3. StagePlaced(s) /\ s.pc # "unborn"
      BY <1>i, <2>2, <3>1 DEF StagePlaced, SectionPcs
    <3>4. Locking => section = l
      BY <1>i, <2>2 DEF FileOwned, SectionPcs
    <3>5. pidFile \notin DaemonPids \ {life[l].pid}
      BY <2>1, <2>4 DEF Refusals
    <3>6. ASSUME Locking PROVE NobodyOwns
      <4> SUFFICES ASSUME NEW q \in Alive, life[q].owned PROVE FALSE
        BY DEF NobodyOwns
      <4>1. pidFile = life[q].pid /\ q # l
        BY <1>i, <2>2, <3>6 DEF FileOwned, StagePlaced, SectionPcs
      <4>2. life[q].pid \in DaemonPids /\ life[q].pid # life[l].pid
        BY <1>a, <1>i, <4>1 DEF DaemonPids, PidsDistinct
      <4> QED
        BY <3>5, <4>1, <4>2
    <3> QED
      BY <1>a, <1>i, <2>2, <3>1, <3>2, <3>3, <3>4, <3>6, InstanceMoves
  <2> QED
    BY <2>3, <2>4
<1>4. CASE Truncate(l)
  <2> DEFINE s == [life[l] EXCEPT !.pc = "write"]
  <2>1. /\ s \in LifeStates /\ s.pc = "write" /\ s.pid = life[l].pid
        /\ s.owned = life[l].owned /\ s.armed = life[l].armed
    BY <1>i DEF LifeStates, LifePcs
  <2>2. /\ life' = [life EXCEPT ![l] = s] /\ life[l].pc = "truncate" /\ pidFile' = "torn"
        /\ UNCHANGED <<handler, section, listening, record, strangers>>
    BY <1>4, <1>i DEF Truncate, Proceeds, InstanceTypes
  <2> HIDE DEF s
  <2>3. StagePlaced(s) /\ s.pc # "unborn" /\ life[l].pc \in WritingPcs
    BY <1>i, <2>1, <2>2 DEF StagePlaced, SectionPcs, WritingPcs
  <2>4. Locking => section = l /\ NobodyOwns
    BY <1>i, <2>2 DEF FileOwned, SectionPcs, WritingPcs
  <2> QED
    BY <1>a, <1>i, <2>1, <2>2, <2>3, <2>4, InstanceMoves
<1>5. CASE PidIoFails(l)
  <2> DEFINE s == [life[l] EXCEPT !.pc = "bind", !.claim = "error"]
  <2>1. /\ s \in LifeStates /\ s.pc = "bind" /\ s.pid = life[l].pid
        /\ s.owned = life[l].owned /\ s.armed = life[l].armed
    BY <1>i DEF LifeStates, LifePcs
  <2>2. /\ life' = [life EXCEPT ![l] = s] /\ life[l].pc \in SectionPcs /\ LeavesSection(l)
        /\ UNCHANGED <<handler, pidFile, listening, record, strangers>>
    BY <1>5, <1>i DEF PidIoFails, Proceeds, InstanceTypes, SectionPcs
  <2> HIDE DEF s
  <2> QED
    BY <1>2, <2>1, <2>2
<1>6. CASE ReleaseOwned(l)
  <2> DEFINE s == [life[l] EXCEPT !.pc = "check", !.owned = FALSE]
  <2>1. /\ s \in LifeStates /\ s.pc = "check" /\ s.pid = life[l].pid
        /\ ~s.owned /\ s.armed = life[l].armed /\ s.next = life[l].next
    BY <1>i DEF LifeStates, LifePcs
  <2>2. /\ life' = [life EXCEPT ![l] = s] /\ life[l].pc = "release" /\ EntersSection(l)
        /\ UNCHANGED <<handler, pidFile, listening, record, strangers>>
    BY <1>6, <1>i DEF ReleaseOwned, InstanceTypes
  <2> HIDE DEF s
  <2>3. StagePlaced(s) /\ s.pc \notin WritingPcs /\ s.pc # "unborn"
    BY <1>i, <2>1, <2>2 DEF StagePlaced, SectionPcs, WritingPcs
  <2> QED
    BY <1>a, <1>e, <1>i, <2>1, <2>2, <2>3, InstanceMoves
<1> QED
  BY <1>1, <1>3, <1>4, <1>5, <1>6

\* The PID is written by the life in the section, while nobody owns the file.
LEMMA WriteKeeps == ASSUME InstanceInv, NEW l \in Life, WritePid(l) PROVE InstanceInv'
<1> DEFINE s == [life[l] EXCEPT !.pc = "bind", !.owned = TRUE, !.claim = "held"]
<1>i. /\ InstanceTypes /\ HandlersArmed /\ PidsDistinct /\ FileOwned
      /\ life[l] \in LifeStates /\ \A q \in Life : StagePlaced(life[q])
  BY DEF InstanceInv, InstanceTypes
<1>1. /\ s \in LifeStates /\ s.pc = "bind" /\ s.pid = life[l].pid
      /\ s.owned /\ s.armed = life[l].armed
  BY <1>i DEF LifeStates, LifePcs
<1>2. /\ life' = [life EXCEPT ![l] = s] /\ life[l].pc = "write" /\ pidFile' = life[l].pid
      /\ LeavesSection(l) /\ UNCHANGED <<handler, listening, record, strangers>>
  BY <1>i DEF WritePid, InstanceTypes
<1> HIDE DEF s
<1>3. /\ life' \in [Life -> LifeStates] /\ life'[l] = s
      /\ \A q \in Life : q # l => life'[q] = life[q]
  BY <1>1, <1>2, <1>i DEF InstanceTypes
<1>4. InstanceTypes'
  BY <1>2, <1>3, <1>i DEF InstanceTypes, LeavesSection, StagePlaced
<1>5. ASSUME NEW q \in Life PROVE StagePlaced(life[q])'
  <2>1. CASE q = l
    BY <1>1, <1>2, <1>3, <1>i, <2>1 DEF StagePlaced, SectionPcs
  <2>2. CASE q # l
    BY <1>3, <1>i, <2>2 DEF StagePlaced
  <2> QED
    BY <2>1, <2>2
<1>6. HandlersArmed'
  BY <1>1, <1>2, <1>3, <1>i DEF HandlersArmed, Alive
<1>7. /\ \A q \in Alive' : q \in Life /\ q \in Alive /\ life'[q].pid = life[q].pid
      /\ l \in Alive /\ \A q \in Alive : q \in Life
  BY <1>1, <1>2, <1>3 DEF Alive
<1>8. PidsDistinct'
  BY <1>7, <1>i DEF PidsDistinct
<1>9. FileOwned'
  <2> SUFFICES ASSUME Locking
               PROVE  /\ \A q \in Life : life'[q].pc \notin SectionPcs
                      /\ \A q \in Alive' : life'[q].owned => q = l
    BY <1>1, <1>2, <1>3 DEF FileOwned, WritingPcs, SectionPcs
  <2>1. section = l /\ NobodyOwns
    BY <1>2, <1>i DEF FileOwned, SectionPcs, WritingPcs
  <2>2. \A q \in Life : q # l => life[q].pc \notin SectionPcs
    BY <1>i, <2>1 DEF FileOwned
  <2>3. s.pc \notin SectionPcs
    BY <1>1 DEF SectionPcs
  <2> QED
    BY <1>3, <1>7, <2>1, <2>2, <2>3 DEF NobodyOwns
<1> QED
  BY <1>4, <1>5, <1>6, <1>8, <1>9 DEF InstanceInv

\* The port, the record and the release.
LEMMA ServeKeeps ==
    ASSUME InstanceInv, NEW l \in Life,
           \/ BindPort(l) \/ BootFails(l) \/ OpenPort(l) \/ UnlinkRecord(l) \/ RenameRecord(l)
           \/ BeginDrain(l) \/ NotOwned(l) \/ CheckPid(l) \/ RemovePid(l) \/ Killed(l)
    PROVE  InstanceInv'
<1>i. /\ InstanceTypes /\ StagePlaced(life[l]) /\ life[l] \in LifeStates /\ FileOwned /\ PidsDistinct
      /\ listening \in {"none"} \cup Life
  BY DEF InstanceInv, InstanceTypes
<1>a. l \in Alive
  BY DEF BindPort, BootFails, OpenPort, UnlinkRecord, RenameRecord, BeginDrain, NotOwned, CheckPid,
         RemovePid, Killed, Alive
<1>1. ASSUME NEW s \in LifeStates, life' = [life EXCEPT ![l] = s], StagePlaced(s),
             s.pc \in {"unlink", "release", "serving", "rename", "boot", "drain"},
             s.pid = life[l].pid, s.owned = life[l].owned, life[l].armed => s.armed,
             UNCHANGED <<handler, pidFile, section, strangers>>,
             listening' \in {"none"} \cup Life,
             \/ record' = record \/ record' = Unlinked(l)
             \/ \E st \in {"running", "exited"} : record' = [state |-> st, by |-> l]
      PROVE  InstanceInv'
  <2>1. s.pc \notin SectionPcs /\ s.pc \notin WritingPcs /\ s.pc # "unborn"
    BY <1>1 DEF SectionPcs, WritingPcs
  <2> QED
    BY <1>1, <1>a, <2>1, InstanceMoves
<1>2. ASSUME NEW pc \in {"unlink", "release"}, NEW next \in {"boot", "over", "drain", "unlink"},
             life' = [life EXCEPT ![l].pc = pc, ![l].next = next],
             pc = "unlink" => next \in {"boot", "drain"}, pc = "release" => next \in {"over", "unlink"},
             next \in {"drain", "unlink"} => life[l].armed,
             life[l].pc \in {"bind", "boot", "serving", "drain"},
             UNCHANGED <<handler, pidFile, section, record, strangers>>,
             listening' \in {"none"} \cup Life
      PROVE  InstanceInv'
  <2> DEFINE s == [life[l] EXCEPT !.pc = pc, !.next = next]
  <2>1. /\ s \in LifeStates /\ s.pc = pc /\ s.pid = life[l].pid /\ s.next = next
        /\ s.owned = life[l].owned /\ s.armed = life[l].armed
    BY <1>2, <1>i DEF LifeStates, LifePcs
  <2>2. life' = [life EXCEPT ![l] = s]
    BY <1>2, <1>i DEF InstanceTypes
  <2> HIDE DEF s
  <2>3. StagePlaced(s)
    BY <1>2, <1>i, <2>1 DEF StagePlaced, SectionPcs
  <2> QED
    BY <1>1, <1>2, <2>1, <2>2, <2>3
<1>3. CASE BindPort(l)
  <2>1. /\ life[l].pc = "bind" /\ UNCHANGED <<handler, pidFile, section, listening, record, strangers>>
        /\ \/ life' = [life EXCEPT ![l].pc = "unlink", ![l].next = "boot"]
           \/ life' = [life EXCEPT ![l].pc = "release", ![l].next = "over", ![l].claim = "refused"]
    BY <1>3 DEF BindPort
  <2>2. CASE life' = [life EXCEPT ![l].pc = "unlink", ![l].next = "boot"]
    BY <1>2, <1>i, <2>1, <2>2
  <2>3. CASE life' = [life EXCEPT ![l].pc = "release", ![l].next = "over", ![l].claim = "refused"]
    <3> DEFINE s == [life[l] EXCEPT !.pc = "release", !.next = "over", !.claim = "refused"]
    <3>1. /\ s \in LifeStates /\ s.pc = "release" /\ s.pid = life[l].pid /\ s.next = "over"
          /\ s.owned = life[l].owned /\ s.armed = life[l].armed
      BY <1>i DEF LifeStates, LifePcs
    <3>2. life' = [life EXCEPT ![l] = s]
      BY <1>i, <2>3 DEF InstanceTypes
    <3> HIDE DEF s
    <3>3. StagePlaced(s)
      BY <1>i, <2>1, <3>1 DEF StagePlaced, SectionPcs
    <3> QED
      BY <1>1, <1>i, <2>1, <3>1, <3>2, <3>3
  <2> QED
    BY <2>1, <2>2, <2>3
<1>4. CASE BootFails(l)
  BY <1>2, <1>4, <1>i DEF BootFails
<1>5. CASE OpenPort(l)
  <2>1. CASE listening = "none"
    <3> DEFINE s == [life[l] EXCEPT !.pc = "serving"]
    <3>1. /\ s \in LifeStates /\ s.pc = "serving" /\ s.pid = life[l].pid
          /\ s.owned = life[l].owned /\ s.armed = life[l].armed
      BY <1>i DEF LifeStates, LifePcs
    <3>2. /\ life' = [life EXCEPT ![l] = s] /\ life[l].pc = "boot" /\ listening' = l
          /\ UNCHANGED <<handler, pidFile, section, record, strangers>>
      BY <1>5, <1>i, <2>1 DEF OpenPort, Proceeds, InstanceTypes
    <3> HIDE DEF s
    <3>3. StagePlaced(s)
      BY <1>i, <3>1, <3>2 DEF StagePlaced, SectionPcs
    <3> QED
      BY <1>1, <3>1, <3>2, <3>3
  <2>2. CASE listening # "none"
    <3>1. /\ life[l].pc = "boot" /\ life' = [life EXCEPT ![l].pc = "unlink", ![l].next = "drain"]
          /\ UNCHANGED <<handler, pidFile, section, listening, record, strangers>>
      BY <1>5, <2>2 DEF OpenPort
    <3>2. life[l].armed
      BY <1>i, <3>1 DEF StagePlaced
    <3> QED
      BY <1>2, <1>i, <3>1, <3>2
  <2> QED
    BY <2>1, <2>2
<1>6. CASE UnlinkRecord(l)
  <2> DEFINE s == [life[l] EXCEPT !.pc = "rename"]
  <2>1. /\ s \in LifeStates /\ s.pc = "rename" /\ s.pid = life[l].pid /\ s.next = life[l].next
        /\ s.owned = life[l].owned /\ s.armed = life[l].armed
    BY <1>i DEF LifeStates, LifePcs
  <2>2. /\ life' = [life EXCEPT ![l] = s] /\ life[l].pc = "unlink" /\ record' = Unlinked(l)
        /\ UNCHANGED <<handler, pidFile, section, listening, strangers>>
    BY <1>6, <1>i DEF UnlinkRecord, Proceeds, InstanceTypes
  <2> HIDE DEF s
  <2>3. StagePlaced(s)
    BY <1>i, <2>1, <2>2 DEF StagePlaced, SectionPcs
  <2> QED
    BY <1>1, <1>i, <2>1, <2>2, <2>3
<1>7. CASE RenameRecord(l)
  <2>0. /\ life[l].pc = "rename" /\ UNCHANGED <<pidFile, strangers>>
        /\ \E st \in {"running", "exited"} : record' = [state |-> st, by |-> l]
    BY <1>7 DEF RenameRecord
  <2>1. CASE life[l].next = "over"
    <3>1. Over(l) /\ life[l].armed
      BY <1>7, <1>i, <2>0, <2>1 DEF RenameRecord, StagePlaced
    <3> QED
      BY <1>a, <2>0, <3>1, OverKeepsInstance
  <2>2. CASE life[l].next # "over"
    <3> DEFINE s == [life[l] EXCEPT !.pc = life[l].next, !.armed = TRUE]
    <3>0. life[l].next \in {"boot", "drain"}
      BY <1>i, <2>0, <2>2 DEF StagePlaced
    <3>1. /\ s \in LifeStates /\ s.pc = life[l].next /\ s.pid = life[l].pid
          /\ s.owned = life[l].owned /\ s.armed
      BY <1>i, <3>0 DEF LifeStates, LifePcs
    <3>2. /\ life' = [life EXCEPT ![l] = s] /\ UNCHANGED <<handler, section, listening>>
      BY <1>7, <1>i, <2>2 DEF RenameRecord, InstanceTypes
    <3> HIDE DEF s
    <3>3. StagePlaced(s)
      BY <1>i, <2>0, <3>0, <3>1 DEF StagePlaced, SectionPcs
    <3> QED
      BY <1>1, <1>i, <2>0, <3>0, <3>1, <3>2, <3>3
  <2> QED
    BY <2>1, <2>2
<1>8. CASE BeginDrain(l)
  <2>1. /\ life[l].pc \in {"serving", "drain"}
        /\ life' = [life EXCEPT ![l].pc = "release", ![l].next = "unlink"]
        /\ listening' \in {"none"} \cup Life
        /\ UNCHANGED <<handler, pidFile, section, record, strangers>>
    BY <1>8, <1>i DEF BeginDrain
  <2>2. life[l].armed
    BY <1>i, <2>1 DEF StagePlaced
  <2> QED
    BY <1>2, <2>1, <2>2
<1>9. CASE NotOwned(l)
  BY <1>9, <1>a, AfterReleaseKeeps DEF NotOwned
<1>10. CASE CheckPid(l)
  <2>1. CASE pidFile = life[l].pid
    <3> DEFINE s == [life[l] EXCEPT !.pc = "remove"]
    <3>1. /\ s \in LifeStates /\ s.pc = "remove" /\ s.pid = life[l].pid /\ s.next = life[l].next
          /\ s.owned = life[l].owned /\ s.armed = life[l].armed
      BY <1>i DEF LifeStates, LifePcs
    <3>2. /\ life' = [life EXCEPT ![l] = s] /\ life[l].pc = "check"
          /\ UNCHANGED <<handler, pidFile, section, listening, record, strangers>>
      BY <1>10, <1>i, <2>1 DEF CheckPid, Proceeds, InstanceTypes
    <3> HIDE DEF s
    <3>3. StagePlaced(s) /\ s.pc # "unborn"
      BY <1>i, <3>1, <3>2 DEF StagePlaced, SectionPcs
    <3>4. Locking => section = l
      BY <1>i, <3>2 DEF FileOwned, SectionPcs
    <3>5. ASSUME Locking PROVE NobodyOwns
      BY <1>a, <1>i, <2>1, <3>2, <3>5 DEF NobodyOwns, FileOwned, PidsDistinct, StagePlaced, SectionPcs
    <3> QED
      BY <1>a, <1>i, <3>1, <3>2, <3>3, <3>4, <3>5, InstanceMoves
  <2>2. CASE pidFile # life[l].pid
    BY <1>10, <1>a, <2>2, AfterReleaseKeeps DEF CheckPid
  <2> QED
    BY <2>1, <2>2
<1>11. CASE RemovePid(l)
  BY <1>11, <1>a, AfterReleaseKeeps DEF RemovePid, WritingPcs
<1>12. CASE Killed(l)
  BY <1>12, OverKeepsInstance DEF Killed
<1> QED
  BY <1>3, <1>4, <1>5, <1>6, <1>7, <1>8, <1>9, <1>10, <1>11, <1>12

\* The signal handler and the panic hook.
LEMMA HandlerKeeps ==
    ASSUME InstanceInv, NEW l \in Life,
           SignalArrives(l) \/ HookPanics(l) \/ HandlerUnlinks(l) \/ HandlerRenames(l)
    PROVE  InstanceInv'
<1>i. /\ InstanceTypes /\ HandlersArmed /\ PidsDistinct /\ FileOwned
      /\ \A q \in Life : StagePlaced(life[q])
  BY DEF InstanceInv
<1>1. ASSUME NEW h \in HandlerStates, handler' = [handler EXCEPT ![l] = h],
             h \notin {"idle", "sent"} => life[l].armed /\ l \in Alive,
             UNCHANGED <<life, pidFile, section, listening, strangers>>,
             \/ record' = record \/ record' = Unlinked(l)
             \/ record' = [state |-> "exited", by |-> l]
      PROVE  InstanceInv'
  <2>1. /\ handler' \in [Life -> HandlerStates] /\ handler'[l] = h
        /\ \A q \in Life : q # l => handler'[q] = handler[q]
    BY <1>1, <1>i DEF InstanceTypes
  <2>2. HandlersArmed' /\ record' \in RecordStates
    BY <1>1, <1>i, <2>1, HandlersKept, RecordTyped DEF InstanceTypes, Alive
  <2>3. InstanceTypes'
    BY <1>1, <1>i, <2>1, <2>2 DEF InstanceTypes
  <2>4. PidsDistinct' /\ FileOwned' /\ (\A q \in Life : StagePlaced(life[q]))'
    BY <1>1, <1>i DEF PidsDistinct, FileOwned, StagePlaced, Alive, NobodyOwns
  <2> QED
    BY <2>2, <2>3, <2>4 DEF InstanceInv
<1>a. handler[l] \notin {"idle", "sent"} => life[l].armed /\ l \in Alive
  BY <1>i DEF HandlersArmed
<1>2. CASE SignalArrives(l)
  BY <1>1, <1>2 DEF SignalArrives, RecordsExit, HandlerStates
<1>3. CASE HookPanics(l)
  BY <1>1, <1>3 DEF HookPanics, RecordsExit, HandlerStates
<1>4. CASE HandlerUnlinks(l)
  <2>1. /\ life[l].armed /\ l \in Alive /\ record' = Unlinked(l)
        /\ UNCHANGED <<life, pidFile, section, listening, strangers>>
        /\ \/ handler' = [handler EXCEPT ![l] = "rename"]
           \/ handler' = [handler EXCEPT ![l] = "panicRename"]
    BY <1>4, <1>a, <1>i DEF HandlerUnlinks, InstanceTypes
  <2> QED
    BY <1>1, <2>1 DEF HandlerStates
<1>5. CASE HandlerRenames(l)
  <2>1. /\ life[l].armed /\ l \in Alive /\ record' = [state |-> "exited", by |-> l]
        /\ UNCHANGED <<pidFile, strangers>>
    BY <1>5, <1>a DEF HandlerRenames
  <2>2. CASE handler[l] = "panicRename"
    BY <1>5, <2>1, <2>2, OverKeepsInstance DEF HandlerRenames
  <2>3. CASE handler[l] # "panicRename"
    BY <1>1, <1>5, <2>1, <2>3 DEF HandlerRenames, HandlerStates
  <2> QED
    BY <2>2, <2>3
<1> QED
  BY <1>2, <1>3, <1>4, <1>5

\* Every step of every life, and of the world, keeps the invariant.
LEMMA InstanceKeeps == InstanceInv /\ [INext]_instance => InstanceInv'
<1> SUFFICES ASSUME InstanceInv, [INext]_instance PROVE InstanceInv'
  OBVIOUS
<1>i. /\ InstanceTypes /\ HandlersArmed /\ PidsDistinct /\ FileOwned
      /\ \A q \in Life : StagePlaced(life[q])
  BY DEF InstanceInv
<1>1. ASSUME NEW l \in Life, NEW pid \in Pid, Launch(l, pid) PROVE InstanceInv'
  <2> DEFINE s == [life[l] EXCEPT !.pc = "acquire", !.pid = pid]
  <2>0. life[l] \in LifeStates
    BY <1>i DEF InstanceTypes
  <2>1. /\ s \in LifeStates /\ s.pc = "acquire" /\ s.pid = pid
        /\ s.owned = life[l].owned /\ s.armed = life[l].armed
    BY <2>0 DEF LifeStates, LifePcs
  <2>2. /\ life' = [life EXCEPT ![l] = s] /\ life[l].pc = "unborn" /\ pid \notin DaemonPids
        /\ UNCHANGED <<handler, pidFile, section, listening, record, strangers>>
    BY <1>1, <1>i DEF Launch, InstanceTypes
  <2> HIDE DEF s
  <2>3. /\ life' \in [Life -> LifeStates] /\ life'[l] = s
        /\ \A q \in Life : q # l => life'[q] = life[q]
    BY <1>i, <2>1, <2>2 DEF InstanceTypes
  <2>4. ~s.owned
    BY <1>i, <2>1, <2>2 DEF StagePlaced
  <2>5. ASSUME NEW q \in Life PROVE StagePlaced(life[q])'
    <3>1. CASE q = l
      BY <2>1, <2>3, <2>4, <3>1 DEF StagePlaced, SectionPcs
    <3>2. CASE q # l
      BY <1>i, <2>3, <3>2 DEF StagePlaced
    <3> QED
      BY <3>1, <3>2
  <2>6. InstanceTypes' /\ HandlersArmed'
    BY <1>i, <2>1, <2>2, <2>3 DEF InstanceTypes, HandlersArmed, Alive
  <2>7. /\ \A q \in Alive' : q = l \/ (q \in Alive /\ life'[q] = life[q])
        /\ \A q \in Alive : life[q].pid # pid /\ q # l /\ q \in Life
    BY <2>1, <2>2, <2>3 DEF Alive, DaemonPids
  <2>8. PidsDistinct'
    BY <1>i, <2>1, <2>3, <2>7 DEF PidsDistinct
  <2>9. FileOwned'
    <3>1. NobodyOwns => NobodyOwns'
      BY <2>3, <2>4, <2>7 DEF NobodyOwns
    <3>2. s.pc \notin SectionPcs /\ s.pc \notin WritingPcs
      BY <2>1 DEF SectionPcs, WritingPcs
    <3> QED
      BY <1>i, <2>2, <2>3, <2>4, <2>7, <3>1, <3>2 DEF FileOwned
  <2> QED
    BY <2>5, <2>6, <2>8, <2>9 DEF InstanceInv
<1>2. CASE (\E pid \in Pid : PidReused(pid) \/ StrangerEnds(pid)) \/ UNCHANGED instance
  <2>1. strangers' \subseteq Pid /\ UNCHANGED <<life, handler, pidFile, section, listening, record>>
    BY <1>2, <1>i DEF PidReused, StrangerEnds, instance, InstanceTypes
  <2> QED
    BY <1>i, <2>1 DEF InstanceInv, InstanceTypes, StagePlaced, HandlersArmed, PidsDistinct,
         FileOwned, NobodyOwns, Alive
<1> QED
  BY <1>1, <1>2, AcquireKeeps, WriteKeeps, ServeKeeps, HandlerKeeps DEF INext
-----------------------------------------------------------------------------
(* The exit record of the daemon on file.                                  *)

\* A life that is past its port, at any point until its end.
Bound(s) == s.pc \notin {"unborn", "acquire", "judge", "truncate", "write", "bind"}

\* A life is not armed before it has bound the port, and one that binds it,
\* or writes the record, was not refused.
ClaimPlaced(s) ==
    /\ ~Bound(s) => ~s.armed
    /\ s.armed \/ s.pc \in {"bind", "unlink", "rename"} => s.claim \in {"held", "error"}

\* Whoever wrote or removed the record was past its port and not refused.
RecordWritten ==
    record.by # "nobody" => /\ record.by \in Life /\ Bound(life[record.by])
                            /\ life[record.by].claim \in {"held", "error"}

\* The second inductive invariant, on top of InstanceInv.
RecordInv ==
    /\ \A l \in Life : ClaimPlaced(life[l])
    /\ RecordWritten
    /\ OwnersRecordStands

\* Nobody has written the record yet.
LEMMA RecordStarts == IInit => RecordInv
<1> SUFFICES ASSUME IInit PROVE RecordInv
  OBVIOUS
<1>1. Unborn.pc = "unborn" /\ ~Unborn.armed /\ NoRecord.by = "nobody"
  BY DEF Unborn, NoRecord
<1>2. \A l \in Life : life[l] = Unborn
  BY DEF IInit
<1>3. record = NoRecord
  BY DEF IInit
<1> QED
  BY <1>1, <1>2, <1>3 DEF RecordInv, ClaimPlaced, Bound, RecordWritten, OwnersRecordStands

\* Beside a living owner of the file, every other living claim has ended in
\* an error or was given up.
LEMMA WriterUnclaimed ==
    ASSUME InstanceInv, Locking, NEW l \in Life, l \in Alive, NEW q \in Life, q \in Alive, q # l,
           life[q].owned, life[l].claim \in {"held", "error"}
    PROVE  life[l].claim = "error" \/ ~life[l].owned
<1>1. PidsDistinct /\ FileOwned
  BY DEF InstanceInv
<1>2. ASSUME life[l].owned PROVE FALSE
  <2>1. pidFile = life[l].pid /\ pidFile = life[q].pid
    BY <1>1, <1>2 DEF FileOwned
  <2> QED
    BY <1>1, <2>1 DEF PidsDistinct
<1> QED
  BY <1>2

\* One life moves on, or its handler does.
LEMMA RecordMoves ==
    ASSUME InstanceInv, RecordInv, NEW l \in Life, NEW s \in LifeStates,
           life' = [life EXCEPT ![l] = s], ClaimPlaced(s),
           Bound(life[l]) => Bound(s) /\ s.claim = life[l].claim /\ (s.owned => life[l].owned),
           \A q \in Life : q # l => handler'[q] = handler[q],
           \/ record' = record
           \/ /\ l \in Alive /\ Bound(life[l]) /\ life[l].claim \in {"held", "error"}
              /\ \E st \in {"absent", "running", "exited"} : record' = [state |-> st, by |-> l],
           (s.pc \in {"boot", "serving"} /\ s.owned /\ handler'[l] = "idle") =>
               \/ record' = [state |-> "running", by |-> l]
               \/ /\ record' = record /\ life[l].pc \in {"boot", "serving"}
                  /\ life[l].owned /\ handler[l] = "idle"
    PROVE  RecordInv'
<1>i. InstanceTypes /\ RecordWritten /\ OwnersRecordStands /\ \A q \in Life : ClaimPlaced(life[q])
  BY DEF InstanceInv, RecordInv
<1>1. life'[l] = s /\ \A q \in Life : q # l => life'[q] = life[q]
  BY <1>i DEF InstanceTypes
<1>2. ASSUME NEW q \in Life PROVE ClaimPlaced(life[q])'
  <2>1. CASE q = l
    BY <1>1, <2>1 DEF ClaimPlaced, Bound
  <2>2. CASE q # l
    BY <1>1, <1>i, <2>2 DEF ClaimPlaced, Bound
  <2> QED
    BY <2>1, <2>2
<1>3. \A k \in Life : Bound(life[k]) => /\ Bound(life'[k]) /\ life'[k].claim = life[k].claim
                                        /\ life'[k].owned => life[k].owned
  BY <1>1
<1>4. record'.by # record.by => /\ record'.by = l /\ Bound(life[l])
                                /\ life[l].claim \in {"held", "error"}
  OBVIOUS
<1>5. RecordWritten'
  BY <1>3, <1>4, <1>i DEF RecordWritten, Bound
<1>6. ASSUME Locking, NEW q \in Life, life'[q].pc \in {"boot", "serving"}, life'[q].owned,
             handler'[q] = "idle"
      PROVE  \/ record' = [state |-> "running", by |-> q]
             \/ record'.by \notin {"nobody", q} /\ WritesUnclaimed(record.by)'
  <2>1. CASE record' = record /\ record' # [state |-> "running", by |-> q]
    <3>1. life[q].pc \in {"boot", "serving"} /\ life[q].owned /\ handler[q] = "idle"
      BY <1>1, <1>6, <2>1
    <3>2. record.by \notin {"nobody", q} /\ WritesUnclaimed(record.by)
      BY <1>6, <1>i, <2>1, <3>1 DEF OwnersRecordStands
    <3>3. record.by \in Life /\ Bound(life[record.by])
      BY <1>i, <3>2 DEF RecordWritten
    <3> QED
      BY <1>3, <2>1, <3>2, <3>3 DEF WritesUnclaimed
  <2>2. CASE record' # record /\ q # l
    <3>1. /\ l \in Alive /\ Bound(life[l]) /\ life[l].claim \in {"held", "error"}
          /\ record'.by = l
      BY <2>2
    <3>2. q \in Alive /\ life[q].owned
      BY <1>1, <1>6, <2>2 DEF Alive
    <3>3. life[l].claim = "error" \/ ~life[l].owned
      BY <1>6, <2>2, <3>1, <3>2, WriterUnclaimed
    <3>4. l # "nobody"
      BY InstanceAssumption
    <3> QED
      BY <1>3, <2>2, <3>1, <3>3, <3>4 DEF WritesUnclaimed
  <2>3. CASE record' # record /\ q = l
    BY <1>1, <1>6, <2>3
  <2> QED
    BY <2>1, <2>2, <2>3
<1>7. OwnersRecordStands'
  BY <1>6 DEF OwnersRecordStands
<1> QED
  BY <1>2, <1>5, <1>7 DEF RecordInv

\* What a life that may write the record has: the port, and no refusal.
LEMMA Writers ==
    ASSUME InstanceInv, RecordInv, NEW l \in Life,
           life[l].pc \in {"unlink", "rename"} \/ life[l].armed
    PROVE  Bound(life[l]) /\ life[l].claim \in {"held", "error"}
BY DEF RecordInv, ClaimPlaced, Bound

\* Whatever ends a life.
LEMMA OverRecords ==
    ASSUME InstanceInv, RecordInv, NEW l \in Life, l \in Alive, Over(l),
           \/ record' = record
           \/ /\ Bound(life[l]) /\ life[l].claim \in {"held", "error"}
              /\ \E st \in {"absent", "running", "exited"} : record' = [state |-> st, by |-> l]
    PROVE  RecordInv'
<1> DEFINE s == [life[l] EXCEPT !.pc = "over"]
<1>i. InstanceTypes /\ life[l] \in LifeStates /\ ClaimPlaced(life[l])
  BY DEF InstanceInv, InstanceTypes, RecordInv
<1>1. /\ s \in LifeStates /\ s.pc = "over" /\ s.claim = life[l].claim
      /\ s.owned = life[l].owned /\ s.armed = life[l].armed
  BY <1>i DEF LifeStates, LifePcs
<1>2. life' = [life EXCEPT ![l] = s] /\ handler' = [handler EXCEPT ![l] = "idle"]
  BY <1>i DEF Over, Proceeds, InstanceTypes
<1> HIDE DEF s
<1>3. \A q \in Life : q # l => handler'[q] = handler[q]
  BY <1>2, <1>i DEF InstanceTypes
<1>4. ClaimPlaced(s) /\ Bound(s)
  BY <1>1, <1>i DEF ClaimPlaced, Bound
<1> QED
  BY <1>1, <1>2, <1>3, <1>4, RecordMoves

\* A life that leaves the record alone and is not on its way to serve.
LEMMA RecordRests ==
    ASSUME InstanceInv, RecordInv, NEW l \in Life, NEW s \in LifeStates,
           life' = [life EXCEPT ![l] = s], UNCHANGED <<handler, record>>,
           s.pc \notin {"boot", "serving"},
           s.armed = life[l].armed,
           ~Bound(s) => ~Bound(life[l]),
           Bound(life[l]) => s.claim = life[l].claim /\ (s.owned => life[l].owned),
           s.pc \in {"bind", "unlink", "rename"} => s.claim \in {"held", "error"},
           s.armed => s.claim \in {"held", "error"}
    PROVE  RecordInv'
<1>1. ClaimPlaced(life[l])
  BY DEF RecordInv
<1>2. ClaimPlaced(s)
  BY <1>1 DEF ClaimPlaced
<1> QED
  BY <1>2, RecordMoves

\* A life up to its port.
LEMMA ClaimingRecords ==
    ASSUME InstanceInv, RecordInv, NEW l \in Life,
           \/ \E pid \in Pid : Launch(l, pid)
           \/ AcquirePid(l) \/ Judge(l) \/ Truncate(l) \/ WritePid(l) \/ PidIoFails(l)
    PROVE  RecordInv'
<1>i. InstanceTypes /\ life[l] \in LifeStates /\ ClaimPlaced(life[l])
  BY DEF InstanceInv, InstanceTypes, RecordInv
<1>1. /\ life[l].pc \in {"unborn", "acquire", "judge", "truncate", "write"}
      /\ UNCHANGED <<handler, record>>
  BY DEF Launch, AcquirePid, Judge, Truncate, WritePid, PidIoFails
<1>2. ~Bound(life[l]) /\ ~life[l].armed
  BY <1>1, <1>i DEF Bound, ClaimPlaced
<1>3. ASSUME NEW s \in LifeStates, life' = [life EXCEPT ![l] = s], s.armed = life[l].armed,
             s.pc \in {"acquire", "judge", "truncate", "write", "bind", "release"},
             s.pc = "bind" => s.claim \in {"held", "error"}
      PROVE  RecordInv'
  BY <1>1, <1>2, <1>3, RecordRests DEF Bound
<1>4. ASSUME NEW pid \in Pid, Launch(l, pid) PROVE RecordInv'
  <2> DEFINE s == [life[l] EXCEPT !.pc = "acquire", !.pid = pid]
  <2>1. s \in LifeStates /\ s.pc = "acquire" /\ s.armed = life[l].armed
    BY <1>i DEF LifeStates, LifePcs
  <2>2. life' = [life EXCEPT ![l] = s]
    BY <1>4, <1>i DEF Launch, InstanceTypes
  <2> HIDE DEF s
  <2> QED
    BY <1>3, <2>1, <2>2
<1>5. ASSUME NEW pc \in {"judge", "truncate", "write"}, Proceeds(l, pc) PROVE RecordInv'
  <2> DEFINE s == [life[l] EXCEPT !.pc = pc]
  <2>1. s \in LifeStates /\ s.pc = pc /\ s.armed = life[l].armed
    BY <1>i DEF LifeStates, LifePcs
  <2>2. life' = [life EXCEPT ![l] = s]
    BY <1>5, <1>i DEF Proceeds, InstanceTypes
  <2> HIDE DEF s
  <2> QED
    BY <1>3, <2>1, <2>2
<1>6. ASSUME life' = [life EXCEPT ![l].pc = "release", ![l].next = "over", ![l].claim = "refused"]
      PROVE  RecordInv'
  <2> DEFINE s == [life[l] EXCEPT !.pc = "release", !.next = "over", !.claim = "refused"]
  <2>1. s \in LifeStates /\ s.pc = "release" /\ s.armed = life[l].armed
    BY <1>i DEF LifeStates, LifePcs
  <2>2. life' = [life EXCEPT ![l] = s]
    BY <1>6, <1>i DEF InstanceTypes
  <2> HIDE DEF s
  <2> QED
    BY <1>3, <2>1, <2>2
<1>7. CASE WritePid(l)
  <2> DEFINE s == [life[l] EXCEPT !.pc = "bind", !.owned = TRUE, !.claim = "held"]
  <2>1. s \in LifeStates /\ s.pc = "bind" /\ s.armed = life[l].armed /\ s.claim = "held"
    BY <1>i DEF LifeStates, LifePcs
  <2>2. life' = [life EXCEPT ![l] = s]
    BY <1>7, <1>i DEF WritePid, InstanceTypes
  <2> HIDE DEF s
  <2> QED
    BY <1>3, <2>1, <2>2
<1>8. CASE PidIoFails(l)
  <2> DEFINE s == [life[l] EXCEPT !.pc = "bind", !.claim = "error"]
  <2>1. s \in LifeStates /\ s.pc = "bind" /\ s.armed = life[l].armed /\ s.claim = "error"
    BY <1>i DEF LifeStates, LifePcs
  <2>2. life' = [life EXCEPT ![l] = s]
    BY <1>8, <1>i DEF PidIoFails, InstanceTypes
  <2> HIDE DEF s
  <2> QED
    BY <1>3, <2>1, <2>2
<1>9. CASE AcquirePid(l)
  BY <1>5, <1>9 DEF AcquirePid
<1>10. CASE Truncate(l)
  BY <1>5, <1>10 DEF Truncate
<1>11. CASE Judge(l)
  <2>1. \/ Proceeds(l, "truncate")
        \/ life' = [life EXCEPT ![l].pc = "release", ![l].next = "over", ![l].claim = "refused"]
    BY <1>11 DEF Judge
  <2> QED
    BY <1>5, <1>6, <2>1
<1> QED
  BY <1>4, <1>7, <1>8, <1>9, <1>10, <1>11

\* The release of the PID file, up to what follows it.
LEMMA ReleaseRecords ==
    ASSUME InstanceInv, RecordInv, NEW l \in Life,
           NotOwned(l) \/ ReleaseOwned(l) \/ CheckPid(l) \/ RemovePid(l)
    PROVE  RecordInv'
<1>i. /\ InstanceTypes /\ life[l] \in LifeStates /\ ClaimPlaced(life[l]) /\ StagePlaced(life[l])
      /\ l \in Alive /\ life[l].pc \in {"release", "check", "remove"} /\ record' = record
  BY DEF InstanceInv, InstanceTypes, RecordInv, NotOwned, ReleaseOwned, CheckPid, RemovePid, Alive,
         AfterRelease, Over
<1>1. Bound(life[l]) /\ (life[l].armed => life[l].claim \in {"held", "error"})
  BY <1>i DEF Bound, ClaimPlaced
<1>2. ASSUME AfterRelease(l) PROVE RecordInv'
  <2>1. CASE life[l].next = "over"
    BY <1>2, <1>i, <2>1, OverRecords DEF AfterRelease
  <2>2. CASE life[l].next # "over"
    <3> DEFINE s == [life[l] EXCEPT !.pc = "unlink", !.next = "over", !.owned = FALSE]
    <3>1. /\ s \in LifeStates /\ s.pc = "unlink" /\ s.armed = life[l].armed
          /\ s.claim = life[l].claim /\ ~s.owned
      BY <1>i DEF LifeStates, LifePcs
    <3>2. life' = [life EXCEPT ![l] = s] /\ handler' = handler
      BY <1>2, <1>i, <2>2 DEF AfterRelease, InstanceTypes
    <3>3. life[l].armed
      BY <1>i, <2>2 DEF StagePlaced
    <3> HIDE DEF s
    <3> QED
      BY <1>1, <1>i, <3>1, <3>2, <3>3, RecordRests DEF Bound
  <2> QED
    BY <2>1, <2>2
<1>3. CASE ReleaseOwned(l)
  <2> DEFINE s == [life[l] EXCEPT !.pc = "check", !.owned = FALSE]
  <2>1. /\ s \in LifeStates /\ s.pc = "check" /\ s.armed = life[l].armed
        /\ s.claim = life[l].claim /\ ~s.owned
    BY <1>i DEF LifeStates, LifePcs
  <2>2. life' = [life EXCEPT ![l] = s] /\ handler' = handler
    BY <1>3, <1>i DEF ReleaseOwned, InstanceTypes
  <2> HIDE DEF s
  <2> QED
    BY <1>1, <1>i, <2>1, <2>2, RecordRests DEF Bound
<1>4. CASE CheckPid(l)
  <2>1. CASE Proceeds(l, "remove") /\ handler' = handler
    <3> DEFINE s == [life[l] EXCEPT !.pc = "remove"]
    <3>1. /\ s \in LifeStates /\ s.pc = "remove" /\ s.armed = life[l].armed
          /\ s.claim = life[l].claim /\ s.owned = life[l].owned
      BY <1>i DEF LifeStates, LifePcs
    <3>2. life' = [life EXCEPT ![l] = s]
      BY <1>i, <2>1 DEF Proceeds, InstanceTypes
    <3> HIDE DEF s
    <3> QED
      BY <1>1, <1>i, <2>1, <3>1, <3>2, RecordRests DEF Bound
  <2> QED
    BY <1>2, <1>4, <2>1 DEF CheckPid
<1> QED
  BY <1>2, <1>3, <1>4 DEF NotOwned, RemovePid

\* The port, the running marker and the way down.
LEMMA ServingRecords ==
    ASSUME InstanceInv, RecordInv, NEW l \in Life,
           \/ BindPort(l) \/ BootFails(l) \/ OpenPort(l) \/ UnlinkRecord(l) \/ RenameRecord(l)
           \/ BeginDrain(l) \/ Killed(l)
    PROVE  RecordInv'
<1>i. /\ InstanceTypes /\ life[l] \in LifeStates /\ ClaimPlaced(life[l]) /\ StagePlaced(life[l])
      /\ l \in Alive
  BY DEF InstanceInv, InstanceTypes, RecordInv, BindPort, BootFails, OpenPort, UnlinkRecord,
         RenameRecord, BeginDrain, Killed, Alive
<1>1. ASSUME NEW pc \in {"unlink", "release"}, NEW next \in {"boot", "over", "drain", "unlink"},
             life' = [life EXCEPT ![l].pc = pc, ![l].next = next],
             life[l].pc \in {"bind", "boot", "serving", "drain"},
             UNCHANGED <<handler, record>>
      PROVE  RecordInv'
  <2> DEFINE s == [life[l] EXCEPT !.pc = pc, !.next = next]
  <2>1. /\ s \in LifeStates /\ s.pc = pc /\ s.armed = life[l].armed
        /\ s.claim = life[l].claim /\ s.owned = life[l].owned
    BY <1>1, <1>i DEF LifeStates, LifePcs
  <2>2. life' = [life EXCEPT ![l] = s]
    BY <1>1, <1>i DEF InstanceTypes
  <2>3. life[l].claim \in {"held", "error"}
    BY <1>1, <1>i DEF ClaimPlaced, StagePlaced
  <2> HIDE DEF s
  <2> QED
    BY <1>1, <2>1, <2>2, <2>3, RecordRests DEF Bound
<1>2. CASE BindPort(l)
  <2>1. CASE listening = "none"
    BY <1>1, <1>2, <2>1 DEF BindPort
  <2>2. CASE listening # "none"
    <3> DEFINE s == [life[l] EXCEPT !.pc = "release", !.next = "over", !.claim = "refused"]
    <3>1. s \in LifeStates /\ s.pc = "release" /\ s.armed = life[l].armed
      BY <1>i DEF LifeStates, LifePcs
    <3>2. /\ life' = [life EXCEPT ![l] = s] /\ life[l].pc = "bind"
          /\ UNCHANGED <<handler, record>>
      BY <1>2, <1>i, <2>2 DEF BindPort, InstanceTypes
    <3>3. ~Bound(life[l]) /\ ~life[l].armed
      BY <1>i, <3>2 DEF Bound, ClaimPlaced
    <3> HIDE DEF s
    <3> QED
      BY <3>1, <3>2, <3>3, RecordRests
  <2> QED
    BY <2>1, <2>2
<1>3. CASE BootFails(l)
  BY <1>1, <1>3 DEF BootFails
<1>4. CASE BeginDrain(l)
  BY <1>1, <1>4 DEF BeginDrain
<1>5. CASE Killed(l)
  BY <1>5, <1>i, OverRecords DEF Killed
<1>6. CASE OpenPort(l)
  <2>1. CASE listening = "none"
    <3> DEFINE s == [life[l] EXCEPT !.pc = "serving"]
    <3>1. /\ s \in LifeStates /\ s.pc = "serving" /\ s.armed = life[l].armed
          /\ s.claim = life[l].claim /\ s.owned = life[l].owned
      BY <1>i DEF LifeStates, LifePcs
    <3>2. /\ life' = [life EXCEPT ![l] = s] /\ life[l].pc = "boot"
          /\ handler' = handler /\ record' = record
      BY <1>6, <1>i, <2>1 DEF OpenPort, Proceeds, InstanceTypes
    <3> HIDE DEF s
    <3>3. ClaimPlaced(s) /\ Bound(s)
      BY <1>i, <3>1, <3>2 DEF ClaimPlaced, Bound
    <3> QED
      BY <3>1, <3>2, <3>3, RecordMoves
  <2>2. CASE listening # "none"
    BY <1>1, <1>6, <2>2 DEF OpenPort
  <2> QED
    BY <2>1, <2>2
<1>7. CASE UnlinkRecord(l)
  <2> DEFINE s == [life[l] EXCEPT !.pc = "rename"]
  <2>1. /\ s \in LifeStates /\ s.pc = "rename" /\ s.armed = life[l].armed
        /\ s.claim = life[l].claim /\ s.owned = life[l].owned
    BY <1>i DEF LifeStates, LifePcs
  <2>2. /\ life' = [life EXCEPT ![l] = s] /\ life[l].pc = "unlink"
        /\ handler' = handler /\ record' = [state |-> "absent", by |-> l]
    BY <1>7, <1>i DEF UnlinkRecord, Unlinked, Proceeds, InstanceTypes
  <2> HIDE DEF s
  <2>3. Bound(life[l]) /\ life[l].claim \in {"held", "error"}
    BY <2>2, Writers
  <2>4. ClaimPlaced(s) /\ Bound(s)
    BY <2>1, <2>3 DEF ClaimPlaced, Bound
  <2>5. \E st \in {"absent", "running", "exited"} : record' = [state |-> st, by |-> l]
    BY <2>2
  <2> QED
    BY <1>i, <2>1, <2>2, <2>3, <2>4, <2>5, RecordMoves
<1>8. CASE RenameRecord(l)
  <2>1. /\ life[l].pc = "rename" /\ Bound(life[l]) /\ life[l].claim \in {"held", "error"}
    BY <1>8, Writers DEF RenameRecord
  <2>2. /\ life[l].next = "boot" => record' = [state |-> "running", by |-> l]
        /\ \E st \in {"absent", "running", "exited"} : record' = [state |-> st, by |-> l]
    BY <1>8 DEF RenameRecord
  <2>3. CASE life[l].next = "over"
    BY <1>8, <1>i, <2>1, <2>2, <2>3, OverRecords DEF RenameRecord
  <2>4. CASE life[l].next # "over"
    <3> DEFINE s == [life[l] EXCEPT !.pc = life[l].next, !.armed = TRUE]
    <3>0. life[l].next \in {"boot", "drain"}
      BY <1>i, <2>1, <2>4 DEF StagePlaced
    <3>1. /\ s \in LifeStates /\ s.pc = life[l].next /\ s.armed
          /\ s.claim = life[l].claim /\ s.owned = life[l].owned
      BY <1>i, <3>0 DEF LifeStates, LifePcs
    <3>2. life' = [life EXCEPT ![l] = s] /\ handler' = handler
      BY <1>8, <1>i, <2>4 DEF RenameRecord, InstanceTypes
    <3> HIDE DEF s
    <3>3. ClaimPlaced(s) /\ Bound(s)
      BY <2>1, <3>0, <3>1 DEF ClaimPlaced, Bound
    <3> QED
      BY <1>i, <2>1, <2>2, <3>0, <3>1, <3>2, <3>3, RecordMoves
  <2> QED
    BY <2>3, <2>4
<1> QED
  BY <1>2, <1>3, <1>4, <1>5, <1>6, <1>7, <1>8

\* The signal handler and the panic hook.
LEMMA HandlerRecords ==
    ASSUME InstanceInv, RecordInv, NEW l \in Life,
           SignalArrives(l) \/ HookPanics(l) \/ HandlerUnlinks(l) \/ HandlerRenames(l)
    PROVE  RecordInv'
<1>i. /\ InstanceTypes /\ HandlersArmed /\ life[l] \in LifeStates /\ ClaimPlaced(life[l])
  BY DEF InstanceInv, InstanceTypes, RecordInv
<1>1. ASSUME NEW h \in HandlerStates, h # "idle", handler' = [handler EXCEPT ![l] = h], life' = life,
             \/ record' = record
             \/ /\ l \in Alive /\ Bound(life[l]) /\ life[l].claim \in {"held", "error"}
                /\ \E st \in {"absent", "running", "exited"} : record' = [state |-> st, by |-> l]
      PROVE  RecordInv'
  <2>1. life' = [life EXCEPT ![l] = life[l]]
    BY <1>1, <1>i DEF InstanceTypes
  <2>2. handler'[l] = h /\ \A q \in Life : q # l => handler'[q] = handler[q]
    BY <1>1, <1>i DEF InstanceTypes
  <2> DEFINE s == life[l]
  <2>3. s \in LifeStates /\ s = life[l] /\ life' = [life EXCEPT ![l] = s]
    BY <1>i, <2>1
  <2> HIDE DEF s
  <2>4. ClaimPlaced(s)
    BY <1>i, <2>3
  <2> QED
    BY <1>1, <2>2, <2>3, <2>4, RecordMoves
<1>2. ASSUME handler[l] \notin {"idle", "sent"}
      PROVE  l \in Alive /\ Bound(life[l]) /\ life[l].claim \in {"held", "error"}
  BY <1>2, <1>i, Writers DEF HandlersArmed
<1>3. CASE SignalArrives(l)
  BY <1>1, <1>3 DEF SignalArrives, HandlerStates
<1>4. CASE HookPanics(l)
  BY <1>1, <1>4 DEF HookPanics, HandlerStates
<1>5. CASE HandlerUnlinks(l)
  <2>1. /\ life' = life /\ record' = [state |-> "absent", by |-> l]
        /\ \/ handler' = [handler EXCEPT ![l] = "rename"]
           \/ handler' = [handler EXCEPT ![l] = "panicRename"]
    BY <1>5, <1>i DEF HandlerUnlinks, Unlinked, InstanceTypes
  <2>2. handler[l] \notin {"idle", "sent"}
    BY <1>5 DEF HandlerUnlinks
  <2> QED
    BY <1>1, <1>2, <2>1, <2>2 DEF HandlerStates
<1>6. CASE HandlerRenames(l)
  <2>1. record' = [state |-> "exited", by |-> l] /\ handler[l] \notin {"idle", "sent"}
    BY <1>6 DEF HandlerRenames
  <2>2. CASE handler[l] = "panicRename"
    BY <1>2, <1>6, <2>1, <2>2, OverRecords DEF HandlerRenames
  <2>3. CASE handler[l] # "panicRename"
    BY <1>1, <1>2, <1>6, <2>1, <2>3 DEF HandlerRenames, HandlerStates
  <2> QED
    BY <2>2, <2>3
<1> QED
  BY <1>3, <1>4, <1>5, <1>6

\* Every step keeps the second invariant.
LEMMA RecordKeeps == InstanceInv /\ RecordInv /\ [INext]_instance => RecordInv'
<1> SUFFICES ASSUME InstanceInv, RecordInv, [INext]_instance PROVE RecordInv'
  OBVIOUS
<1>1. CASE (\E pid \in Pid : PidReused(pid) \/ StrangerEnds(pid)) \/ UNCHANGED instance
  <2>1. UNCHANGED <<life, handler, record>>
    BY <1>1 DEF PidReused, StrangerEnds, instance
  <2> QED
    BY <2>1 DEF RecordInv, ClaimPlaced, Bound, RecordWritten, OwnersRecordStands, WritesUnclaimed
<1> QED
  BY <1>1, ClaimingRecords, ReleaseRecords, ServingRecords, HandlerRecords DEF INext

\* single_instance.rs and exit_reason.rs: for any number of lives and PIDs,
\* dying at any point: a living owner of the PID file is the one on file
\* wherever files are locked; a start that the file or the port refused never
\* touches the exit record; and the running marker of the daemon on file is
\* written over by nobody but a life whose own claim ended in an I/O error, or
\* one that gave the file up in its shutdown.
THEOREM InstanceHolds == ISpec => [](ITypeOK /\ InstanceSound)
<1>1. InstanceInv => ITypeOK /\ OwnerOnFile
  BY DEF InstanceInv, InstanceTypes, FileOwned, RecordStates, ITypeOK, OwnerOnFile, Alive
<1>2. RecordInv => LosersLeaveNoRecord /\ OwnersRecordStands
  BY DEF RecordInv, RecordWritten, LosersLeaveNoRecord
<1>3. IInit => InstanceInv /\ RecordInv
  BY InstanceStarts, RecordStarts
<1>4. (InstanceInv /\ RecordInv) /\ [INext]_instance => (InstanceInv /\ RecordInv)'
  BY InstanceKeeps, RecordKeeps
<1>5. InstanceInv /\ RecordInv => ITypeOK /\ InstanceSound
  BY <1>1, <1>2 DEF InstanceSound
<1> QED
  BY <1>3, <1>4, <1>5, PTL DEF ISpec
-----------------------------------------------------------------------------
(* DueCards: recurrences and announcements.                                *)

\* The scheduler starts one sweep after the other.
OneSweep == \A v, w \in Sweeper : v = w

\* The states of a card.
CardStatuses == {"open", "done", "cancelled"}
\* The rows of cards.
CardRow == [status : CardStatuses, date : [Kind -> 1..Never], mark : [Kind -> BOOLEAN],
            came : BOOLEAN]
\* The two entries of a plan: write the marker of the crossing, publish its
\* event.
MarkOf(c, k) == <<c, k, "mark">>
\* ... and the event.
EmitOf(c, k) == <<c, k, "emit">>
\* What can be left of the plan of one card: a mark comes before its own
\* emit, the due crossing before the overdue one.
Plans(c) ==
    {<<>>, <<EmitOf(c, "due")>>, <<MarkOf(c, "due"), EmitOf(c, "due")>>,
     <<EmitOf(c, "overdue")>>, <<MarkOf(c, "overdue"), EmitOf(c, "overdue")>>,
     <<EmitOf(c, "due"), MarkOf(c, "overdue"), EmitOf(c, "overdue")>>,
     <<MarkOf(c, "due"), EmitOf(c, "due"), MarkOf(c, "overdue"), EmitOf(c, "overdue")>>}

\* The entries of a plan.
Entries(q) == {q[i] : i \in DOMAIN q}

\* The plan q begins with the mark or the emit of c's crossing k.
HeadIs(q, c, k, what) ==
    /\ q[1] = <<c, k, what>>
    /\ Entries(Tail(q)) = Entries(q) \ {<<c, k, what>>}
    /\ what = "mark" => EmitOf(c, k) \in Entries(q)
    /\ what = "emit" => MarkOf(c, k) \notin Entries(q)

\* Taking the head of a plan leaves a plan, without that one entry; an emit
\* at the head has no mark before it.
LEMMA PlanTail ==
    ASSUME NEW c, NEW q \in Plans(c), q # <<>>
    PROVE  /\ Tail(q) \in Plans(c)
           /\ \E k \in Kind, what \in {"mark", "emit"} : HeadIs(q, c, k, what)
<1>1. ASSUME NEW e1, q = <<e1>> PROVE Tail(q) = <<>> /\ q[1] = e1 /\ Entries(q) = {e1} /\ Entries(Tail(q)) = {}
  BY <1>1 DEF Entries
<1>2. ASSUME NEW e1, NEW e2, q = <<e1, e2>>
      PROVE  Tail(q) = <<e2>> /\ q[1] = e1 /\ Entries(q) = {e1, e2} /\ Entries(Tail(q)) = {e2}
  BY <1>2 DEF Entries
<1>3. ASSUME NEW e1, NEW e2, NEW e3, q = <<e1, e2, e3>>
      PROVE  /\ Tail(q) = <<e2, e3>> /\ q[1] = e1 /\ Entries(q) = {e1, e2, e3}
             /\ Entries(Tail(q)) = {e2, e3}
  BY <1>3 DEF Entries
<1>4. ASSUME NEW e1, NEW e2, NEW e3, NEW e4, q = <<e1, e2, e3, e4>>
      PROVE  /\ Tail(q) = <<e2, e3, e4>> /\ q[1] = e1 /\ Entries(q) = {e1, e2, e3, e4}
             /\ Entries(Tail(q)) = {e2, e3, e4}
  BY <1>4 DEF Entries
<1>d. /\ MarkOf(c, "due") # MarkOf(c, "overdue") /\ EmitOf(c, "due") # EmitOf(c, "overdue")
      /\ \A j, k \in Kind : MarkOf(c, j) # EmitOf(c, k)
  BY DEF MarkOf, EmitOf, Kind
<1>5. CASE q = <<EmitOf(c, "due")>>
  <2>1. Tail(q) \in Plans(c)
    BY <1>1, <1>5 DEF Plans
  <2>2. HeadIs(q, c, "due", "emit")
    <3>1. MarkOf(c, "due") = <<c, "due", "mark">> /\ EmitOf(c, "due") = <<c, "due", "emit">>
          /\ MarkOf(c, "overdue") = <<c, "overdue", "mark">> /\ EmitOf(c, "overdue") = <<c, "overdue", "emit">>
      BY DEF MarkOf, EmitOf
    <3> QED
      BY <1>d, <1>1, <1>5, <3>1 DEF HeadIs, Kind
  <2> QED
    BY <2>1, <2>2 DEF Kind
<1>6. CASE q = <<MarkOf(c, "due"), EmitOf(c, "due")>>
  <2>1. Tail(q) \in Plans(c)
    BY <1>2, <1>6 DEF Plans
  <2>2. HeadIs(q, c, "due", "mark")
    <3>1. MarkOf(c, "due") = <<c, "due", "mark">> /\ EmitOf(c, "due") = <<c, "due", "emit">>
          /\ MarkOf(c, "overdue") = <<c, "overdue", "mark">> /\ EmitOf(c, "overdue") = <<c, "overdue", "emit">>
      BY DEF MarkOf, EmitOf
    <3> QED
      BY <1>d, <1>2, <1>6, <3>1 DEF HeadIs, Kind
  <2> QED
    BY <2>1, <2>2 DEF Kind
<1>7. CASE q = <<EmitOf(c, "overdue")>>
  <2>1. Tail(q) \in Plans(c)
    BY <1>1, <1>7 DEF Plans
  <2>2. HeadIs(q, c, "overdue", "emit")
    <3>1. MarkOf(c, "due") = <<c, "due", "mark">> /\ EmitOf(c, "due") = <<c, "due", "emit">>
          /\ MarkOf(c, "overdue") = <<c, "overdue", "mark">> /\ EmitOf(c, "overdue") = <<c, "overdue", "emit">>
      BY DEF MarkOf, EmitOf
    <3> QED
      BY <1>d, <1>1, <1>7, <3>1 DEF HeadIs, Kind
  <2> QED
    BY <2>1, <2>2 DEF Kind
<1>8. CASE q = <<MarkOf(c, "overdue"), EmitOf(c, "overdue")>>
  <2>1. Tail(q) \in Plans(c)
    BY <1>2, <1>8 DEF Plans
  <2>2. HeadIs(q, c, "overdue", "mark")
    <3>1. MarkOf(c, "due") = <<c, "due", "mark">> /\ EmitOf(c, "due") = <<c, "due", "emit">>
          /\ MarkOf(c, "overdue") = <<c, "overdue", "mark">> /\ EmitOf(c, "overdue") = <<c, "overdue", "emit">>
      BY DEF MarkOf, EmitOf
    <3> QED
      BY <1>d, <1>2, <1>8, <3>1 DEF HeadIs, Kind
  <2> QED
    BY <2>1, <2>2 DEF Kind
<1>9. CASE q = <<EmitOf(c, "due"), MarkOf(c, "overdue"), EmitOf(c, "overdue")>>
  <2>1. Tail(q) \in Plans(c)
    BY <1>3, <1>9 DEF Plans
  <2>2. HeadIs(q, c, "due", "emit")
    <3>1. MarkOf(c, "due") = <<c, "due", "mark">> /\ EmitOf(c, "due") = <<c, "due", "emit">>
          /\ MarkOf(c, "overdue") = <<c, "overdue", "mark">> /\ EmitOf(c, "overdue") = <<c, "overdue", "emit">>
      BY DEF MarkOf, EmitOf
    <3> QED
      BY <1>d, <1>3, <1>9, <3>1 DEF HeadIs, Kind
  <2> QED
    BY <2>1, <2>2 DEF Kind
<1>10. CASE q = <<MarkOf(c, "due"), EmitOf(c, "due"), MarkOf(c, "overdue"), EmitOf(c, "overdue")>>
  <2>1. Tail(q) \in Plans(c)
    BY <1>4, <1>10 DEF Plans
  <2>2. HeadIs(q, c, "due", "mark")
    <3>1. MarkOf(c, "due") = <<c, "due", "mark">> /\ EmitOf(c, "due") = <<c, "due", "emit">>
          /\ MarkOf(c, "overdue") = <<c, "overdue", "mark">> /\ EmitOf(c, "overdue") = <<c, "overdue", "emit">>
      BY DEF MarkOf, EmitOf
    <3> QED
      BY <1>d, <1>4, <1>10, <3>1 DEF HeadIs, Kind
  <2> QED
    BY <2>1, <2>2 DEF Kind
<1> QED
  BY <1>5, <1>6, <1>7, <1>8, <1>9, <1>10 DEF Plans
-----------------------------------------------------------------------------
\* w is about to mark the crossing; or has marked it and is about to say it.
PendMark(s, c, k) == s.pc = "announce" /\ (k \in s.crossed[c] \/ MarkOf(c, k) \in Entries(s.steps))
\* w has marked the crossing and is about to publish it.
PendEmit(s, c, k) == s.pc = "announce" /\ EmitOf(c, k) \in Entries(s.steps) /\ MarkOf(c, k) \notin Entries(s.steps)

\* The sweep has nothing listed.
NoneCrossed(s) == \A c \in Card : s.crossed[c] = {}

\* A run of the sweep, at each of its places.
SweepShape(s, day) ==
    /\ DOMAIN s = DOMAIN AtRest
    /\ s.pc \in {"rest", "recur", "announce"}
    /\ s.back \subseteq Card /\ s.crossed \in [Card -> SUBSET Kind]
    /\ s.pc = "rest" => s.steps = <<>> /\ NoneCrossed(s)
    /\ s.pc = "recur" => /\ NoneCrossed(s)
                         /\ s.steps = <<>> \/ \E c \in Card : s.steps = <<<<c, "reopen">>>>
    /\ s.pc = "announce" =>
         /\ s.day \in 0 .. day
         /\ s.steps = <<>> \/ \E c \in Card : s.steps \in Plans(c) /\ s.crossed[c] = {}

\* The caller's copy agrees with the row it was read from.
EditAgrees(ed, cd, rc) ==
    \/ ed = NoEdit
    \/ /\ ed # NoEdit /\ ed.op \in {"update", "reopen"}
       /\ ed.card \in Card /\ ed.row \in CardRow /\ ed.arms \subseteq Kind
       /\ ed.card \notin rc =>
            \A k \in Kind : IF k \in ed.arms THEN ~ed.row.mark[k]
                            ELSE /\ ed.row.mark[k] = cd[ed.card].mark[k]
                                 /\ ed.row.date[k] = cd[ed.card].date[k]

\* The types of the rows, the day and the histories.
DueTypes(cd, day, td, un, mu) ==
    /\ cd \in [Card -> CardRow]
    /\ day \in 0 .. DayMax
    /\ td \in [Crossing -> 0 .. 2]
    /\ un \subseteq Crossing /\ mu \subseteq Crossing

\* One crossing of one card: what its marker means.
MarkerMeans(r, day, n, said, k) ==
    /\ n <= 1
    /\ r.mark[k] => Crossed(r, k, day) /\ (n = 1 \/ said)
    /\ ~r.mark[k] => n = 0

\* What is about to be marked has no marker and is crossed; what is about to
\* be published is marked and has not been published.
PendingHolds(r, day, n, s, c, k) ==
    /\ PendMark(s, c, k) => ~r.mark[k] /\ Crossed(r, k, day)
    /\ PendEmit(s, c, k) => r.mark[k] /\ n = 0

\* Every crossing of every card that no two tasks wrote at once.
MarkersMean(cd, day, td, saying, sw, rc) ==
    \A c \in Card \ rc, k \in Kind :
        /\ MarkerMeans(cd[c], day, td[<<c, k>>], <<c, k>> \in saying, k)
        /\ \A w \in Sweeper : PendingHolds(cd[c], day, td[<<c, k>>], sw[w], c, k)

\* What the sweep has listed it is going to mark, but for the cards a caller
\* has written since it began.
ListCovers(cd, sw, tc, rc) ==
    \A w \in Sweeper : sw[w].pc = "announce" =>
        \A c \in Card \ (tc[w] \cup rc), k \in Kind :
            ~IsClosed(cd[c]) /\ Crossed(cd[c], k, sw[w].day)
                => cd[c].mark[k] \/ PendMark(sw[w], c, k)

\* Every run of the sweep has its shape.
SweepShapes(sw, day) == DOMAIN sw = Sweeper /\ \A w \in Sweeper : SweepShape(sw[w], day)

\* The inductive invariant of the sweep.
DueInv ==
    /\ DueTypes(card, today, told, unsaid, mute)
    /\ SweepShapes(sweep, today)
    /\ DOMAIN touched = Sweeper
    /\ EditAgrees(edit, card, raced)
    /\ MarkersMean(card, today, told, unsaid \cup mute, sweep, raced)
    /\ ListCovers(card, sweep, touched, raced)

\* No card has a date.
LEMMA InitDue == DInit => DueInv
<1> SUFFICES ASSUME DInit PROVE DueInv
  OBVIOUS
<1>1. /\ card = [c \in Card |-> [status |-> "open", date |-> [k \in Kind |-> Never],
                               mark |-> [k \in Kind |-> FALSE], came |-> FALSE]]
      /\ today = 0 /\ sweep = [w \in Sweeper |-> AtRest] /\ touched = [w \in Sweeper |-> {}]
      /\ edit = NoEdit /\ told = [x \in Crossing |-> 0] /\ unsaid = {} /\ mute = {} /\ raced = {}
  BY DEF DInit
<1>2. DueTypes(card, today, told, unsaid, mute)
  <2>1. Never \in 1..Never /\ DayMax \in Nat
    BY CardAssumption DEF Never
  <2>2. card \in [Card -> CardRow]
    BY <1>1, <2>1 DEF CardRow, CardStatuses
  <2>3. today \in 0 .. DayMax
    BY <1>1, <2>1
  <2>4. told \in [Crossing -> 0 .. 2]
    BY <1>1
  <2> QED
    BY <1>1, <2>2, <2>3, <2>4 DEF DueTypes
<1>3. SweepShapes(sweep, today)
  BY <1>1 DEF SweepShapes, SweepShape, AtRest, NoneCrossed
<1>4. EditAgrees(edit, card, raced)
  BY <1>1 DEF EditAgrees
<1>5. \A w \in Sweeper : sweep[w].pc = "rest"
  BY <1>1 DEF AtRest
<1>6. ListCovers(card, sweep, touched, raced)
  BY <1>5 DEF ListCovers
<1>7. MarkersMean(card, today, told, unsaid \cup mute, sweep, raced)
  <2> SUFFICES ASSUME NEW c \in Card, NEW k \in Kind
               PROVE /\ MarkerMeans(card[c], today, told[<<c, k>>], <<c, k>> \in unsaid \cup mute, k)
                     /\ \A w \in Sweeper : PendingHolds(card[c], today, told[<<c, k>>], sweep[w], c, k)
    BY DEF MarkersMean
  <2>1. ~card[c].mark[k] /\ told[<<c, k>>] = 0
    BY <1>1 DEF Crossing
  <2> QED
    BY <2>1, <1>5 DEF MarkerMeans, PendingHolds, PendMark, PendEmit
<1> QED
  BY <1>1, <1>2, <1>3, <1>4, <1>6, <1>7 DEF DueInv

\* A day later what was crossed is crossed.
LEMMA DueDayPasses == DueInv /\ DayPasses => DueInv'
<1> SUFFICES ASSUME DueInv, DayPasses PROVE DueInv'
  OBVIOUS
<1>1. /\ today < DayMax /\ today' = today + 1 /\ today \in Nat /\ DayMax \in Nat
      /\ card' = card /\ sweep' = sweep /\ edit' = edit /\ told' = told /\ unsaid' = unsaid
      /\ mute' = mute /\ raced' = raced /\ touched' = touched
  BY CardAssumption DEF DayPasses, DueInv, DueTypes
<1>2. \A r \in CardRow, k \in Kind : Crossed(r, k, today) => Crossed(r, k, today')
  <2> SUFFICES ASSUME NEW r \in CardRow, NEW k \in Kind PROVE Crossed(r, k, today) => Crossed(r, k, today')
    OBVIOUS
  <2>1. r.date["due"] \in Nat /\ r.date[k] \in Nat
    BY CardAssumption DEF CardRow, Kind, Never
  <2> QED
    BY <1>1, <2>1 DEF Crossed
<1>3. \A c \in Card : card[c] \in CardRow
  BY DEF DueInv, DueTypes
<1>4. DueTypes(card', today', told', unsaid', mute')
  BY <1>1 DEF DueInv, DueTypes
<1>5. SweepShapes(sweep', today')
  BY <1>1 DEF DueInv, SweepShapes, SweepShape
<1>6. MarkersMean(card', today', told', unsaid' \cup mute', sweep', raced')
  <2>0. MarkersMean(card, today', told, unsaid \cup mute, sweep, raced)
        => MarkersMean(card', today', told', unsaid' \cup mute', sweep', raced')
    BY <1>1
  <2> SUFFICES ASSUME NEW c \in Card \ raced, NEW k \in Kind
               PROVE /\ MarkerMeans(card[c], today', told[<<c, k>>], <<c, k>> \in unsaid \cup mute, k)
                     /\ \A w \in Sweeper : PendingHolds(card[c], today', told[<<c, k>>], sweep[w], c, k)
    BY <2>0 DEF MarkersMean
  <2>1. /\ MarkerMeans(card[c], today, told[<<c, k>>], <<c, k>> \in unsaid \cup mute, k)
        /\ \A w \in Sweeper : PendingHolds(card[c], today, told[<<c, k>>], sweep[w], c, k)
    BY DEF DueInv, MarkersMean
  <2>2. Crossed(card[c], k, today) => Crossed(card[c], k, today')
    BY <1>2, <1>3
  <2> QED
    BY <2>1, <2>2 DEF MarkerMeans, PendingHolds
<1> QED
  BY <1>1, <1>4, <1>5, <1>6 DEF DueInv

\* A step that writes no row, no mark, no count.
LEMMA DueCame == DueInv /\ (\E c \in Card : OccurrenceComes(c)) => DueInv'
<1> SUFFICES ASSUME DueInv, NEW c \in Card, OccurrenceComes(c) PROVE DueInv'
  OBVIOUS
<1>1. /\ card' = [card EXCEPT ![c].came = TRUE]
      /\ today' = today /\ sweep' = sweep /\ edit' = edit /\ told' = told /\ unsaid' = unsaid
      /\ mute' = mute /\ raced' = raced /\ touched' = touched
  BY DEF OccurrenceComes
<1>2. /\ card \in [Card -> CardRow] /\ card' \in [Card -> CardRow]
      /\ \A x \in Card : /\ card'[x].status = card[x].status
                         /\ card'[x].date = card[x].date /\ card'[x].mark = card[x].mark
  BY <1>1 DEF DueInv, DueTypes, CardRow
<1>3. DueTypes(card', today', told', unsaid', mute')
  BY <1>1, <1>2 DEF DueInv, DueTypes
<1>4. EditAgrees(edit', card', raced')
  BY <1>1, <1>2 DEF DueInv, EditAgrees
<1>5. MarkersMean(card', today', told', unsaid' \cup mute', sweep', raced')
  <2>0. MarkersMean(card', today, told, unsaid \cup mute, sweep, raced)
        => MarkersMean(card', today', told', unsaid' \cup mute', sweep', raced')
    BY <1>1
  <2> SUFFICES ASSUME NEW x \in Card \ raced, NEW k \in Kind
               PROVE /\ MarkerMeans(card'[x], today, told[<<x, k>>], <<x, k>> \in unsaid \cup mute, k)
                     /\ \A w \in Sweeper : PendingHolds(card'[x], today, told[<<x, k>>], sweep[w], x, k)
    BY <2>0 DEF MarkersMean
  <2>1. /\ MarkerMeans(card[x], today, told[<<x, k>>], <<x, k>> \in unsaid \cup mute, k)
        /\ \A w \in Sweeper : PendingHolds(card[x], today, told[<<x, k>>], sweep[w], x, k)
    BY DEF DueInv, MarkersMean
  <2>2. card'[x].mark = card[x].mark /\ (Crossed(card'[x], k, today) <=> Crossed(card[x], k, today))
    BY <1>2 DEF Crossed
  <2> QED
    BY <2>1, <2>2 DEF MarkerMeans, PendingHolds
<1>6. ListCovers(card', sweep', touched', raced')
  BY <1>1, <1>2 DEF DueInv, ListCovers, Crossed, IsClosed
<1> QED
  BY <1>1, <1>3, <1>4, <1>5, <1>6 DEF DueInv

\* Patching a row clears the marker of every date that moves, and no other.
LEMMA PatchMarks ==
    ASSUME NEW q \in CardRow, NEW r \in Patches(q)
    PROVE  /\ r \in CardRow
           /\ \A k \in Kind : IF r.date[k] # q.date[k] THEN ~r.mark[k]
                              ELSE r.mark[k] = q.mark[k]
<1>1. CASE r = q
  BY <1>1
<1>2. ASSUME NEW k \in Kind, NEW d \in 1..Never, r = MoveDate(q, k, d)
      PROVE  /\ r \in CardRow
             /\ \A j \in Kind : IF r.date[j] # q.date[j] THEN ~r.mark[j]
                                ELSE r.mark[j] = q.mark[j]
  <2> DEFINE dd == [q.date EXCEPT ![k] = d]
             mm == [q.mark EXCEPT ![k] = IF q.date[k] # d THEN FALSE ELSE q.mark[k]]
  <2>1. dd \in [Kind -> 1..Never] /\ mm \in [Kind -> BOOLEAN]
    BY DEF CardRow
  <2>2. r = [status |-> q.status, date |-> dd, mark |-> mm, came |-> q.came]
    BY <1>2 DEF MoveDate, CardRow
  <2>3. \A j \in Kind : IF dd[j] # q.date[j] THEN ~mm[j] ELSE mm[j] = q.mark[j]
    BY DEF CardRow
  <2> HIDE DEF dd, mm
  <2> QED
    BY <2>1, <2>2, <2>3 DEF CardRow
<1>3. ASSUME NEW t \in {"open", "cancelled"}, r = [q EXCEPT !.status = t, !.came = FALSE]
      PROVE  /\ r \in CardRow
             /\ \A j \in Kind : r.date[j] = q.date[j] /\ r.mark[j] = q.mark[j]
  BY <1>3 DEF CardRow, CardStatuses
<1> QED
  BY <1>1, <1>2, <1>3 DEF Patches

\* A caller reads a row and makes its copy.
LEMMA DueReads == DueInv /\ (\E c \in Card : UpdateReads(c) \/ ReopenReads(c)) => DueInv'
<1> SUFFICES ASSUME DueInv, NEW c \in Card, UpdateReads(c) \/ ReopenReads(c) PROVE DueInv'
  OBVIOUS
<1>0. card[c] \in CardRow
  BY DEF DueInv, DueTypes
<1>1. PICK op \in {"update", "reopen"}, r \in Patches(card[c]) : CallerReads(op, c, r)
  <2>1. card[c] \in Patches(card[c])
    BY DEF Patches
  <2> QED
    BY <2>1 DEF UpdateReads, ReopenReads
<1>2. /\ r \in CardRow
      /\ \A k \in Kind : IF r.date[k] # card[c].date[k] THEN ~r.mark[k]
                         ELSE r.mark[k] = card[c].mark[k]
  BY <1>0, PatchMarks
<1> DEFINE arms == {k \in Kind : r.date[k] # card[c].date[k]}
           ed == [op |-> op, card |-> c, row |-> r, arms |-> arms]
<1>3. /\ edit' = ed /\ card' = card
      /\ today' = today /\ sweep' = sweep /\ told' = told /\ unsaid' = unsaid
      /\ mute' = mute /\ raced' = raced /\ touched' = touched
  BY <1>1 DEF CallerReads
<1>4. ed # NoEdit /\ ed.op = op /\ ed.card = c /\ ed.row = r /\ ed.arms = arms
  BY DEF NoEdit
<1> HIDE DEF ed
<1>5. EditAgrees(ed, card, raced)
  BY <1>2, <1>4 DEF EditAgrees
<1> QED
  BY <1>3, <1>5 DEF DueInv

\* What a caller writes while the sweep does not hold the card.
LEMMA NotHeldBySweep ==
    ASSUME NEW c \in Card, ~HeldBySweep(c), NEW w \in Sweeper, NEW k \in Kind
    PROVE  ~PendMark(sweep[w], c, k) /\ ~PendEmit(sweep[w], c, k)
<1>1. sweep[w].crossed[c] = {} /\ \A i \in DOMAIN sweep[w].steps : sweep[w].steps[i][1] # c
  BY DEF HeldBySweep
<1>2. MarkOf(c, k) \notin Entries(sweep[w].steps) /\ EmitOf(c, k) \notin Entries(sweep[w].steps)
  BY <1>1 DEF Entries, MarkOf, EmitOf
<1> QED
  BY <1>1, <1>2 DEF PendMark, PendEmit

\* A caller's write of one row, and what it arms.
LEMMA CallerWriteKeeps ==
    ASSUME DueInv, NEW c \in Card, NEW r \in CardRow, NEW A \in SUBSET Kind,
           card' = [card EXCEPT ![c] = r], CallerWrites(c),
           told' = [x \in Crossing |-> IF x \in {c} \X A THEN 0 ELSE told[x]],
           unsaid' = unsaid \ ({c} \X A), mute' = mute \ ({c} \X A),
           c \notin raced => \A k \in Kind : IF k \in A THEN ~r.mark[k]
                                           ELSE /\ r.mark[k] = card[c].mark[k]
                                                /\ r.date[k] = card[c].date[k],
           today' = today, sweep' = sweep, edit' = NoEdit
    PROVE  DueInv'
<1>1. /\ card' \in [Card -> CardRow] /\ card'[c] = r
      /\ \A x \in Card \ {c} : card'[x] = card[x]
      /\ card \in [Card -> CardRow]
  BY DEF DueInv, DueTypes
<1>2. /\ raced \subseteq raced' /\ raced' \subseteq raced \cup {c}
      /\ c \notin raced' => ~HeldBySweep(c)
      /\ DOMAIN touched' = Sweeper /\ \A w \in Sweeper : touched'[w] = touched[w] \cup {c}
  BY DEF CallerWrites
<1>3. DueTypes(card', today', told', unsaid', mute')
  <2>1. told' \in [Crossing -> 0..2]
    BY DEF DueInv, DueTypes
  <2> QED
    BY <1>1, <2>1 DEF DueInv, DueTypes
<1>4. EditAgrees(edit', card', raced')
  BY DEF EditAgrees
<1>5. ListCovers(card', sweep', touched', raced')
  <2> SUFFICES ASSUME NEW w \in Sweeper, sweep[w].pc = "announce",
                      NEW x \in Card \ (touched'[w] \cup raced'), NEW k \in Kind,
                      ~IsClosed(card'[x]), Crossed(card'[x], k, sweep[w].day)
               PROVE  card'[x].mark[k] \/ PendMark(sweep[w], x, k)
    BY DEF ListCovers
  <2>1. x # c /\ x \notin touched[w] \cup raced /\ card'[x] = card[x]
    BY <1>1, <1>2
  <2> QED
    BY <2>1 DEF DueInv, ListCovers
<1>6. MarkersMean(card', today', told', unsaid' \cup mute', sweep', raced')
  <2> SUFFICES ASSUME NEW x \in Card \ raced', NEW k \in Kind
               PROVE /\ MarkerMeans(card'[x], today, told'[<<x, k>>], <<x, k>> \in unsaid' \cup mute', k)
                     /\ \A w \in Sweeper : PendingHolds(card'[x], today, told'[<<x, k>>], sweep[w], x, k)
    BY DEF MarkersMean
  <2>0. x \notin raced /\ <<x, k>> \in Crossing
    BY <1>2 DEF Crossing
  <2>1. /\ MarkerMeans(card[x], today, told[<<x, k>>], <<x, k>> \in unsaid \cup mute, k)
        /\ \A w \in Sweeper : PendingHolds(card[x], today, told[<<x, k>>], sweep[w], x, k)
    BY <2>0 DEF DueInv, MarkersMean
  <2>2. CASE x # c
    <3>1. card'[x] = card[x] /\ told'[<<x, k>>] = told[<<x, k>>]
      BY <1>1, <2>0, <2>2
    <3>2. <<x, k>> \in unsaid' \cup mute' <=> <<x, k>> \in unsaid \cup mute
      BY <2>2
    <3> QED
      BY <2>1, <3>1, <3>2
  <2>3. CASE x = c
    <3>1. \A w \in Sweeper : ~PendMark(sweep[w], x, k) /\ ~PendEmit(sweep[w], x, k)
      BY <1>2, <2>3, NotHeldBySweep
    <3>2. \A w \in Sweeper : PendingHolds(card'[x], today, told'[<<x, k>>], sweep[w], x, k)
      BY <3>1 DEF PendingHolds
    <3>3. CASE k \in A
      <4>1. told'[<<x, k>>] = 0 /\ ~card'[x].mark[k]
        BY <1>1, <2>0, <2>3, <3>3
      <4> QED
        BY <3>2, <4>1 DEF MarkerMeans
    <3>4. CASE k \notin A
      <4>1. /\ told'[<<x, k>>] = told[<<x, k>>]
            /\ card'[x].mark[k] = card[x].mark[k] /\ card'[x].date[k] = card[x].date[k]
        BY <1>1, <2>0, <2>3, <3>4
      <4>2. <<x, k>> \in unsaid' \cup mute' <=> <<x, k>> \in unsaid \cup mute
        BY <3>4
      <4>3. Crossed(card'[x], k, today) <=> Crossed(card[x], k, today)
        BY <4>1 DEF Crossed
      <4> QED
        BY <2>1, <3>2, <4>1, <4>2, <4>3 DEF MarkerMeans
    <3> QED
      BY <3>3, <3>4
  <2> QED
    BY <2>2, <2>3
<1> QED
  BY <1>2, <1>3, <1>4, <1>5, <1>6 DEF DueInv

\* update(): the row it writes is the copy it patched.
LEMMA DueUpdateWrites == DueInv /\ UpdateWrites => DueInv'
<1> SUFFICES ASSUME DueInv, UpdateWrites PROVE DueInv'
  OBVIOUS
<1>1. /\ edit # NoEdit /\ edit.card \in Card /\ edit.row \in CardRow /\ edit.arms \subseteq Kind
      /\ edit.card \notin raced =>
            \A k \in Kind : IF k \in edit.arms THEN ~edit.row.mark[k]
                            ELSE /\ edit.row.mark[k] = card[edit.card].mark[k]
                                 /\ edit.row.date[k] = card[edit.card].date[k]
  BY DEF DueInv, EditAgrees, UpdateWrites, NoEdit
<1>2. /\ card' = [card EXCEPT ![edit.card] = edit.row] /\ CallerWrites(edit.card)
      /\ told' = [x \in Crossing |-> IF x \in {edit.card} \X edit.arms THEN 0 ELSE told[x]]
      /\ unsaid' = unsaid \ ({edit.card} \X edit.arms) /\ mute' = mute \ ({edit.card} \X edit.arms)
      /\ today' = today /\ sweep' = sweep /\ edit' = NoEdit
  BY DEF UpdateWrites, Armed
<1> QED
  BY <1>1, <1>2, CallerWriteKeeps

\* complete(): the dates and the markers stay.
LEMMA DueComplete == DueInv /\ (\E c \in Card : Complete(c)) => DueInv'
<1> SUFFICES ASSUME DueInv, NEW c \in Card, Complete(c) PROVE DueInv'
  OBVIOUS
<1> DEFINE r == [card[c] EXCEPT !.status = "done", !.came = FALSE]
<1>0. card \in [Card -> CardRow]
  BY DEF DueInv, DueTypes
<1>1. r \in CardRow /\ r.mark = card[c].mark /\ r.date = card[c].date
  BY <1>0 DEF CardRow, CardStatuses
<1>2. /\ card' = [card EXCEPT ![c] = r] /\ CallerWrites(c) /\ told' = told
      /\ unsaid' = unsaid /\ mute' = mute /\ today' = today /\ sweep' = sweep /\ edit' = NoEdit
  BY <1>0 DEF Complete
<1> HIDE DEF r
<1>3. /\ told' = [x \in Crossing |-> IF x \in {c} \X {} THEN 0 ELSE told[x]]
      /\ unsaid' = unsaid \ ({c} \X {}) /\ mute' = mute \ ({c} \X {})
  BY <1>2 DEF DueInv, DueTypes
<1>4. {} \in SUBSET Kind
  OBVIOUS
<1> QED
  BY <1>1, <1>2, <1>3, <1>4, CallerWriteKeeps

\* A reopened row has no marker.
LEMMA ReopenedRow ==
    ASSUME card \in [Card -> CardRow], NEW c \in Card
    PROVE  Reopened(c) \in CardRow /\ \A k \in Kind : ~Reopened(c).mark[k]
  BY DEF Reopened, CardRow, CardStatuses

\* reopen(): both markers go, and the row is armed.
LEMMA DueReopenWrites == DueInv /\ ReopenWrites => DueInv'
<1> SUFFICES ASSUME DueInv, ReopenWrites PROVE DueInv'
  OBVIOUS
<1>0. card \in [Card -> CardRow]
  BY DEF DueInv, DueTypes
<1>1. edit # NoEdit /\ edit.card \in Card
  BY DEF DueInv, EditAgrees, ReopenWrites, NoEdit
<1> DEFINE r == Reopened(edit.card)
<1>2. r \in CardRow /\ \A k \in Kind : ~r.mark[k]
  BY <1>0, <1>1, ReopenedRow
<1>3. /\ card' = [card EXCEPT ![edit.card] = r] /\ CallerWrites(edit.card)
      /\ told' = [x \in Crossing |-> IF x \in {edit.card} \X Kind THEN 0 ELSE told[x]]
      /\ unsaid' = unsaid \ ({edit.card} \X Kind) /\ mute' = mute \ ({edit.card} \X Kind)
      /\ today' = today /\ sweep' = sweep /\ edit' = NoEdit
  BY DEF ReopenWrites, Armed
<1> HIDE DEF r
<1>4. Kind \in SUBSET Kind
  OBVIOUS
<1> QED
  BY <1>1, <1>2, <1>3, <1>4, CallerWriteKeeps
-----------------------------------------------------------------------------
(* The steps of the one sweep.                                             *)

\* A sweep step that writes nothing: what is pending was pending, or crosses
\* now, and what was covered is.
LEMMA SweepOnly ==
    ASSUME DueInv, NEW w \in Sweeper, NEW s, SweepShape(s, today),
           sweep' = [sweep EXCEPT ![w] = s],
           card' = card, today' = today, edit' = edit, told' = told, unsaid' = unsaid,
           mute' = mute, raced' = raced, DOMAIN touched' = Sweeper,
           \A v \in Sweeper \ {w} : touched'[v] = touched[v],
           \A c \in Card \ raced, k \in Kind :
               PendingHolds(card[c], today, told[<<c, k>>], s, c, k),
           s.pc = "announce" =>
               \A c \in Card \ (touched'[w] \cup raced), k \in Kind :
                   ~IsClosed(card[c]) /\ Crossed(card[c], k, s.day)
                       => card[c].mark[k] \/ PendMark(s, c, k)
    PROVE  DueInv'
<1>1. /\ DOMAIN sweep' = Sweeper /\ sweep'[w] = s
      /\ \A v \in Sweeper \ {w} : sweep'[v] = sweep[v]
  BY DEF DueInv, SweepShapes
<1>2. SweepShapes(sweep', today')
  BY <1>1 DEF DueInv, SweepShapes
<1>3. MarkersMean(card', today', told', unsaid' \cup mute', sweep', raced')
  <2>0. MarkersMean(card, today, told, unsaid \cup mute, sweep', raced)
        => MarkersMean(card', today', told', unsaid' \cup mute', sweep', raced')
    OBVIOUS
  <2> SUFFICES ASSUME NEW x \in Card \ raced, NEW k \in Kind, NEW v \in Sweeper
               PROVE /\ MarkerMeans(card[x], today, told[<<x, k>>], <<x, k>> \in unsaid \cup mute, k)
                     /\ PendingHolds(card[x], today, told[<<x, k>>], sweep'[v], x, k)
    BY <2>0 DEF MarkersMean, DueInv
  <2>1. /\ MarkerMeans(card[x], today, told[<<x, k>>], <<x, k>> \in unsaid \cup mute, k)
        /\ PendingHolds(card[x], today, told[<<x, k>>], sweep[v], x, k)
    BY DEF DueInv, MarkersMean
  <2> QED
    BY <1>1, <2>1
<1>4. ListCovers(card', sweep', touched', raced')
  <2> SUFFICES ASSUME NEW v \in Sweeper, sweep'[v].pc = "announce",
                      NEW x \in Card \ (touched'[v] \cup raced), NEW k \in Kind,
                      ~IsClosed(card[x]), Crossed(card[x], k, sweep'[v].day)
               PROVE  card[x].mark[k] \/ PendMark(sweep'[v], x, k)
    BY DEF ListCovers
  <2>1. CASE v = w
    BY <1>1, <2>1
  <2>2. CASE v # w
    BY <1>1, <2>2 DEF DueInv, ListCovers
  <2> QED
    BY <2>1, <2>2
<1> QED
  BY <1>2, <1>3, <1>4 DEF DueInv

\* Outside the announcement nothing is pending.
LEMMA QuietPending ==
    ASSUME NEW s, s.pc # "announce", NEW r, NEW day, NEW n, NEW c, NEW k
    PROVE  PendingHolds(r, day, n, s, c, k)
  BY DEF PendingHolds, PendMark, PendEmit

\* A sweep at rest.
LEMMA RestShape == SweepShape(AtRest, today) /\ AtRest.pc = "rest"
  BY DEF SweepShape, AtRest, NoneCrossed

\* The steps of a sweep that write no row: its begin, its reads, its
\* failures and its end.
LEMMA DueQuietSteps ==
    ASSUME DueInv, NEW w \in Sweeper,
           \/ BeginSweep(w) \/ RecurFails(w) \/ AnnounceFails(w) \/ EndSweep(w)
           \/ \E c \in Card : RecurReads(w, c)
    PROVE  DueInv'
<1>s. SweepShape(sweep[w], today)
  BY DEF DueInv, SweepShapes
<1>0. ASSUME NEW s, SweepShape(s, today), s.pc # "announce", sweep' = [sweep EXCEPT ![w] = s],
             card' = card, today' = today, edit' = edit, told' = told, unsaid' = unsaid,
             mute' = mute, raced' = raced, DOMAIN touched' = Sweeper,
             \A v \in Sweeper \ {w} : touched'[v] = touched[v]
      PROVE  DueInv'
  <2>1. \A c \in Card \ raced, k \in Kind : PendingHolds(card[c], today, told[<<c, k>>], s, c, k)
    BY <1>0, QuietPending
  <2> QED
    BY <1>0, <2>1, SweepOnly
<1>1. CASE BeginSweep(w)
  <2>1. PICK back \in {CameBack, {}} :
            sweep' = [sweep EXCEPT ![w] = [AtRest EXCEPT !.pc = "recur", !.back = back]]
    BY <1>1 DEF BeginSweep, Sweeps
  <2> DEFINE s == [AtRest EXCEPT !.pc = "recur", !.back = back]
  <2>2. back \subseteq Card
    BY CardAssumption DEF CameBack
  <2>3. SweepShape(s, today) /\ s.pc = "recur"
    BY <2>2 DEF SweepShape, AtRest, NoneCrossed
  <2>4. /\ touched' = [touched EXCEPT ![w] = {}]
        /\ card' = card /\ today' = today /\ edit' = edit /\ told' = told /\ unsaid' = unsaid
        /\ mute' = mute /\ raced' = raced
    BY <1>1 DEF BeginSweep
  <2>5. DOMAIN touched' = Sweeper /\ \A v \in Sweeper \ {w} : touched'[v] = touched[v]
    BY <2>4 DEF DueInv
  <2> HIDE DEF s
  <2> QED
    BY <1>0, <2>1, <2>3, <2>4, <2>5 DEF s
<1>2. CASE RecurFails(w)
  <2> DEFINE s == [sweep[w] EXCEPT !.steps = <<>>]
  <2>1. SweepShape(s, today) /\ s.pc = "recur"
    BY <1>s, <1>2 DEF RecurFails, SweepShape, NoneCrossed, AtRest
  <2>2. /\ sweep' = [sweep EXCEPT ![w] = s] /\ touched' = touched
        /\ card' = card /\ today' = today /\ edit' = edit /\ told' = told /\ unsaid' = unsaid
        /\ mute' = mute /\ raced' = raced
    BY <1>2 DEF RecurFails, Sweeps
  <2> HIDE DEF s
  <2> QED
    BY <1>0, <2>1, <2>2 DEF DueInv
<1>3. CASE AnnounceFails(w) \/ EndSweep(w)
  <2>2. /\ sweep' = [sweep EXCEPT ![w] = AtRest] /\ touched' = touched
        /\ card' = card /\ today' = today /\ edit' = edit /\ told' = told /\ unsaid' = unsaid
        /\ mute' = mute /\ raced' = raced
    BY <1>3 DEF AnnounceFails, EndSweep, Sweeps
  <2>3. SweepShape(AtRest, today) /\ AtRest.pc # "announce"
    BY RestShape
  <2> QED
    BY <1>0, <2>2, <2>3 DEF DueInv
<1>4. ASSUME NEW c \in Card, RecurReads(w, c) PROVE DueInv'
  <2> DEFINE s == [sweep[w] EXCEPT !.back = @ \ {c},
                  !.steps = IF IsClosed(card[c]) THEN <<<<c, "reopen">>>> ELSE <<>>]
  <2>1. SweepShape(s, today) /\ s.pc = "recur"
    BY <1>s, <1>4 DEF RecurReads, SweepShape, NoneCrossed, AtRest
  <2>2. /\ sweep' = [sweep EXCEPT ![w] = s] /\ touched' = touched
        /\ card' = card /\ today' = today /\ edit' = edit /\ told' = told /\ unsaid' = unsaid
        /\ mute' = mute /\ raced' = raced
    BY <1>4 DEF RecurReads, Sweeps
  <2> HIDE DEF s
  <2> QED
    BY <1>0, <2>1, <2>2 DEF DueInv
<1> QED
  BY <1>1, <1>2, <1>3, <1>4

\* The list holds the open cards whose crossing has no marker.
LEMMA DueList ==
    ASSUME DueInv, NEW w \in Sweeper, ListCrossed(w)
    PROVE  DueInv'
<1>s. SweepShape(sweep[w], today)
  BY DEF DueInv, SweepShapes
<1> DEFINE cr == [c \in Card |-> {k \in Kind :
                      ~IsClosed(card[c]) /\ ~card[c].mark[k] /\ Crossed(card[c], k, today)}]
           s == [sweep[w] EXCEPT !.pc = "announce", !.day = today, !.crossed = cr]
<1>1. /\ sweep' = [sweep EXCEPT ![w] = s] /\ touched' = touched
      /\ card' = card /\ today' = today /\ edit' = edit /\ told' = told /\ unsaid' = unsaid
      /\ mute' = mute /\ raced' = raced /\ sweep[w].steps = <<>>
  BY DEF ListCrossed, RecurEnds, Sweeps
<1>2. /\ s.pc = "announce" /\ s.day = today /\ s.crossed = cr /\ s.steps = <<>>
      /\ s.back = sweep[w].back /\ DOMAIN s = DOMAIN AtRest
  BY <1>s, <1>1 DEF SweepShape, AtRest
<1>3. cr \in [Card -> SUBSET Kind] /\ today \in 0 .. today
  BY CardAssumption DEF DueInv, DueTypes
<1> HIDE DEF s
<1>4. SweepShape(s, today)
  <2> HIDE DEF cr
  <2> QED
    BY <1>s, <1>2, <1>3 DEF SweepShape
<1>5. Entries(<<>>) = {}
  BY DEF Entries
<1>6. ASSUME NEW c \in Card \ raced, NEW k \in Kind
      PROVE  PendingHolds(card[c], today, told[<<c, k>>], s, c, k)
  <2>1. k \in cr[c] => ~card[c].mark[k] /\ Crossed(card[c], k, today)
    OBVIOUS
  <2> HIDE DEF cr
  <2> QED
    BY <1>2, <1>5, <2>1 DEF PendingHolds, PendMark, PendEmit
<1>7. ASSUME NEW c \in Card \ (touched'[w] \cup raced), NEW k \in Kind,
             ~IsClosed(card[c]), Crossed(card[c], k, s.day)
      PROVE  card[c].mark[k] \/ PendMark(s, c, k)
  <2>1. card[c].mark[k] \/ k \in cr[c]
    BY <1>2, <1>7
  <2> HIDE DEF cr
  <2> QED
    BY <1>2, <2>1 DEF PendMark
<1> HIDE DEF cr
<1>8. DOMAIN touched' = Sweeper /\ \A v \in Sweeper \ {w} : touched'[v] = touched[v]
  BY <1>1 DEF DueInv
<1> QED
  BY <1>1, <1>4, <1>6, <1>7, <1>8, SweepOnly

\* What the entries of the short sequences are.
LEMMA ShortEntries ==
    ASSUME NEW e1, NEW e2
    PROVE  /\ <<e1, e2>> \o <<>> = <<e1, e2>> /\ <<>> \o <<e1, e2>> = <<e1, e2>>
           /\ Entries(<<>>) = {}
           /\ Entries(<<e1, e2>>) = {e1, e2}
<1>1. <<e1, e2>> \o <<>> = <<e1, e2>> /\ <<>> \o <<e1, e2>> = <<e1, e2>>
  OBVIOUS
<1>2. Entries(<<>>) = {} /\ Entries(<<e1, e2>>) = {e1, e2}
  BY DEF Entries
<1> QED
  BY <1>1, <1>2

\* The plan of a card with the crossings K: its due one, then its overdue one.
PlanFor(c, K) ==
    LET of(k) == IF k \in K THEN MarkThenEmit(c, k) ELSE <<>>
    IN of("due") \o of("overdue")

\* The entries x mark the crossings K of c, and say what they mark.
MarksOf(x, c, K, d, k) ==
    /\ MarkOf(d, k) \in x <=> (d = c /\ k \in K)
    /\ EmitOf(d, k) \in x => MarkOf(d, k) \in x

\* The marks among four entries.
LEMMA FourMarks ==
    ASSUME NEW c, NEW d \in Card, NEW k \in Kind
    PROVE  /\ MarkOf(d, k) = MarkOf(c, "due") <=> (d = c /\ k = "due")
           /\ MarkOf(d, k) = MarkOf(c, "overdue") <=> (d = c /\ k = "overdue")
           /\ EmitOf(d, k) = EmitOf(c, "due") <=> (d = c /\ k = "due")
           /\ EmitOf(d, k) = EmitOf(c, "overdue") <=> (d = c /\ k = "overdue")
           /\ MarkOf(d, k) # EmitOf(c, "due") /\ MarkOf(d, k) # EmitOf(c, "overdue")
           /\ EmitOf(d, k) # MarkOf(c, "due") /\ EmitOf(d, k) # MarkOf(c, "overdue")
  BY DEF MarkOf, EmitOf

\* The plan of a card marks and publishes exactly its crossings, each mark
\* before its emit.
LEMMA PlanOf ==
    ASSUME NEW c, NEW K \in SUBSET Kind
    PROVE  /\ PlanFor(c, K) \in Plans(c)
           /\ \A d \in Card, k \in Kind : MarksOf(Entries(PlanFor(c, K)), c, K, d, k)
<1> DEFINE of(k) == IF k \in K THEN MarkThenEmit(c, k) ELSE <<>>
           q == PlanFor(c, K)
           e1 == MarkOf(c, "due")
           e2 == EmitOf(c, "due")
           e3 == MarkOf(c, "overdue")
           e4 == EmitOf(c, "overdue")
<1>0. MarkThenEmit(c, "due") = <<e1, e2>> /\ MarkThenEmit(c, "overdue") = <<e3, e4>>
  BY DEF MarkThenEmit, MarkOf, EmitOf
<1>p. q = of("due") \o of("overdue")
  BY DEF PlanFor
<1>s. {<<>>, <<e1, e2>>, <<e3, e4>>, <<e1, e2, e3, e4>>} \subseteq Plans(c)
  BY DEF Plans
<1>k. \A k \in Kind : k = "due" \/ k = "overdue"
  BY DEF Kind
<1>m. ASSUME NEW d \in Card, NEW k \in Kind
      PROVE  /\ MarkOf(d, k) = e1 <=> (d = c /\ k = "due")
             /\ MarkOf(d, k) = e3 <=> (d = c /\ k = "overdue")
             /\ EmitOf(d, k) = e2 <=> (d = c /\ k = "due")
             /\ EmitOf(d, k) = e4 <=> (d = c /\ k = "overdue")
             /\ MarkOf(d, k) # e2 /\ MarkOf(d, k) # e4
             /\ EmitOf(d, k) # e1 /\ EmitOf(d, k) # e3
  BY FourMarks
<1> HIDE DEF q, e1, e2, e3, e4
<1>1. CASE "due" \in K /\ "overdue" \in K
  <2>1. q = <<e1, e2, e3, e4>>
    <3> DEFINE T == {e1, e2, e3, e4}
               f == <<e1, e2, e3, e4>>
    <3>0. q = <<e1, e2>> \o <<e3, e4>>
      BY <1>0, <1>p, <1>1
    <3>1. /\ <<e1, e2>> \in Seq(T) /\ <<e3, e4>> \in Seq(T)
          /\ Len(<<e1, e2>>) = 2 /\ Len(<<e3, e4>>) = 2
      OBVIOUS
    <3>2. q \in Seq(T) /\ Len(q) = 4 /\ q[1] = e1 /\ q[2] = e2 /\ q[3] = e3 /\ q[4] = e4
      BY <3>0, <3>1
    <3>3. f \in Seq(T) /\ Len(f) = 4 /\ f[1] = e1 /\ f[2] = e2 /\ f[3] = e3 /\ f[4] = e4
      OBVIOUS
    <3>4. \A i \in 1..4 : i = 1 \/ i = 2 \/ i = 3 \/ i = 4
      OBVIOUS
    <3> HIDE DEF f
    <3>5. \A i \in 1..4 : q[i] = f[i]
      BY <3>2, <3>3, <3>4
    <3>6. q = f
      BY <3>2, <3>3, <3>5
    <3> QED
      BY <3>6 DEF f
  <2>2. Entries(q) = {e1, e2, e3, e4}
    BY <2>1 DEF Entries
  <2>3. ASSUME NEW d \in Card, NEW k \in Kind PROVE MarksOf(Entries(q), c, K, d, k)
    BY <1>k, <1>m, <1>1, <2>2 DEF MarksOf
  <2> QED
    BY <1>s, <2>1, <2>3 DEF q
<1>2. CASE "due" \in K /\ "overdue" \notin K
  <2>1. q = <<e1, e2>>
    BY <1>0, <1>p, <1>2, ShortEntries
  <2>2. Entries(q) = {e1, e2}
    BY <2>1, ShortEntries
  <2>3. ASSUME NEW d \in Card, NEW k \in Kind PROVE MarksOf(Entries(q), c, K, d, k)
    BY <1>k, <1>m, <1>2, <2>2 DEF MarksOf
  <2> QED
    BY <1>s, <2>1, <2>3 DEF q
<1>3. CASE "due" \notin K /\ "overdue" \in K
  <2>1. q = <<e3, e4>>
    BY <1>0, <1>p, <1>3, ShortEntries
  <2>2. Entries(q) = {e3, e4}
    BY <2>1, ShortEntries
  <2>3. ASSUME NEW d \in Card, NEW k \in Kind PROVE MarksOf(Entries(q), c, K, d, k)
    BY <1>k, <1>m, <1>3, <2>2 DEF MarksOf
  <2> QED
    BY <1>s, <2>1, <2>3 DEF q
<1>4. CASE "due" \notin K /\ "overdue" \notin K
  <2>1. q = <<>>
    BY <1>0, <1>p, <1>4, ShortEntries
  <2>2. Entries(q) = {}
    BY <2>1, ShortEntries
  <2>3. ASSUME NEW d \in Card, NEW k \in Kind PROVE MarksOf(Entries(q), c, K, d, k)
    BY <1>k, <1>m, <1>4, <2>2 DEF MarksOf
  <2> QED
    BY <1>s, <2>1, <2>3 DEF q
<1> QED
  BY <1>1, <1>2, <1>3, <1>4

\* What was to be marked of the card moves into the plan.
LEMMA DueTake ==
    ASSUME DueInv, NEW w \in Sweeper, NEW c \in Card, TakeCard(w, c)
    PROVE  DueInv'
<1> DEFINE t == sweep[w]
           K == t.crossed[c]
           q == PlanFor(c, K)
           s == [t EXCEPT !.crossed[c] = {}, !.steps = q]
<1>s. SweepShape(t, today)
  BY DEF DueInv, SweepShapes
<1>1. /\ sweep' = [sweep EXCEPT ![w] = s] /\ touched' = touched
      /\ card' = card /\ today' = today /\ edit' = edit /\ told' = told /\ unsaid' = unsaid
      /\ mute' = mute /\ raced' = raced /\ t.steps = <<>> /\ t.pc = "announce"
  BY DEF TakeCard, Sweeps, PlanFor
<1>k. K \in SUBSET Kind
  BY <1>s DEF SweepShape
<1>q. /\ q \in Plans(c)
      /\ \A d \in Card, k \in Kind : MarksOf(Entries(q), c, K, d, k)
  BY <1>k, PlanOf
<1> HIDE DEF q
<1>2. /\ DOMAIN s = DOMAIN AtRest /\ s.pc = "announce" /\ s.day = t.day /\ s.back = t.back
      /\ s.steps = q /\ s.crossed \in [Card -> SUBSET Kind] /\ s.crossed[c] = {}
      /\ \A d \in Card \ {c} : s.crossed[d] = t.crossed[d]
  BY <1>s, <1>1 DEF SweepShape, AtRest
<1> HIDE DEF s
<1>3. SweepShape(s, today)
  BY <1>s, <1>1, <1>2, <1>q DEF SweepShape
<1>4. ASSUME NEW d \in Card, NEW k \in Kind
      PROVE  (PendMark(s, d, k) <=> PendMark(t, d, k)) /\ ~PendEmit(s, d, k)
  <2>1. MarkOf(d, k) \notin Entries(t.steps)
    BY <1>1 DEF Entries
  <2>q. MarksOf(Entries(q), c, K, d, k)
    BY <1>q
  <2>2. MarkOf(d, k) \in Entries(q) <=> (d = c /\ k \in K)
    BY <2>q DEF MarksOf
  <2>3. EmitOf(d, k) \in Entries(q) => MarkOf(d, k) \in Entries(q)
    BY <2>q DEF MarksOf
  <2>4. PendMark(s, d, k) <=> PendMark(t, d, k)
    <3>1. CASE d = c
      BY <1>1, <1>2, <2>1, <2>2, <3>1 DEF PendMark
    <3>2. CASE d # c
      BY <1>1, <1>2, <2>1, <2>2, <3>2 DEF PendMark
    <3> QED BY <3>1, <3>2
  <2> QED
    BY <1>2, <2>3, <2>4 DEF PendEmit
<1>5. ASSUME NEW d \in Card \ raced, NEW k \in Kind
      PROVE  PendingHolds(card[d], today, told[<<d, k>>], s, d, k)
  <2>1. PendingHolds(card[d], today, told[<<d, k>>], t, d, k)
    BY DEF DueInv, MarkersMean
  <2> QED
    BY <1>4, <2>1 DEF PendingHolds
<1>6. ASSUME NEW d \in Card \ (touched'[w] \cup raced), NEW k \in Kind,
             ~IsClosed(card[d]), Crossed(card[d], k, s.day)
      PROVE  card[d].mark[k] \/ PendMark(s, d, k)
  <2>1. card[d].mark[k] \/ PendMark(t, d, k)
    BY <1>1, <1>2, <1>6 DEF DueInv, ListCovers
  <2> QED
    BY <1>4, <2>1
<1>7. DOMAIN touched' = Sweeper /\ \A v \in Sweeper \ {w} : touched'[v] = touched[v]
  BY <1>1 DEF DueInv
<1> HIDE DEF t
<1> QED
  BY <1>1, <1>3, <1>5, <1>6, <1>7, SweepOnly DEF t

\* The recurrence that came round is reopened, with no marker left and
\* nothing pending.
LEMMA DueRecurWrites ==
    ASSUME OneSweep, DueInv, NEW w \in Sweeper, RecurWrites(w)
    PROVE  DueInv'
<1> DEFINE t == sweep[w]
           s == [t EXCEPT !.steps = <<>>]
<1>s. SweepShape(t, today) /\ t.pc = "recur" /\ t.steps # <<>>
  BY DEF DueInv, SweepShapes, RecurWrites
<1>1. PICK c \in Card : t.steps = <<<<c, "reopen">>>>
  BY <1>s DEF SweepShape
<1>c. t.steps[1][1] = c
  BY <1>1
<1>2. /\ card' = [card EXCEPT ![c] = Reopened(c)]
      /\ raced' = IF HeldByEdit(c) \/ c \in touched[w] THEN raced \cup {c} ELSE raced
      /\ told' = [x \in Crossing |-> IF x \in {c} \X Kind THEN 0 ELSE told[x]]
      /\ unsaid' = unsaid \ ({c} \X Kind) /\ mute' = mute \ ({c} \X Kind)
      /\ sweep' = [sweep EXCEPT ![w] = s]
      /\ today' = today /\ edit' = edit /\ touched' = touched
  BY <1>c DEF RecurWrites, Armed, Sweeps
<1>3. SweepShape(s, today) /\ s.pc = "recur"
  BY <1>s DEF SweepShape, NoneCrossed, AtRest
<1> HIDE DEF s, t
<1>4. /\ DOMAIN sweep' = Sweeper /\ \A v \in Sweeper : sweep'[v] = s
  BY <1>2 DEF DueInv, SweepShapes, OneSweep
<1>5. SweepShapes(sweep', today')
  BY <1>2, <1>3, <1>4 DEF SweepShapes
<1>6. /\ card \in [Card -> CardRow] /\ card' \in [Card -> CardRow] /\ card'[c] = Reopened(c)
      /\ \A k \in Kind : ~Reopened(c).mark[k]
      /\ \A x \in Card \ {c} : card'[x] = card[x]
  BY <1>2, ReopenedRow DEF DueInv, DueTypes
<1>7. DueTypes(card', today', told', unsaid', mute')
  <2>1. told' \in [Crossing -> 0..2]
    BY <1>2 DEF DueInv, DueTypes
  <2> QED
    BY <1>2, <1>6, <2>1 DEF DueInv, DueTypes
<1>8. raced \subseteq raced' /\ (HeldByEdit(c) => c \in raced')
  BY <1>2
<1>9. EditAgrees(edit', card', raced')
  <2>1. CASE edit = NoEdit
    BY <1>2, <2>1 DEF EditAgrees
  <2>2. CASE edit # NoEdit
    <3>1. edit.card = c => c \in raced'
      BY <1>8, <2>2 DEF HeldByEdit
    <3>2. EditAgrees(edit, card, raced)
      BY DEF DueInv
    <3>3. edit.card # c /\ edit.card \in Card => card'[edit.card] = card[edit.card]
      BY <1>6
    <3> QED
      BY <1>2, <1>8, <2>2, <3>1, <3>2, <3>3 DEF EditAgrees
  <2> QED
    BY <2>1, <2>2
<1>10. ListCovers(card', sweep', touched', raced')
  BY <1>3, <1>4 DEF ListCovers
<1>11. MarkersMean(card', today', told', unsaid' \cup mute', sweep', raced')
  <2> SUFFICES ASSUME NEW x \in Card \ raced', NEW k \in Kind
               PROVE /\ MarkerMeans(card'[x], today', told'[<<x, k>>], <<x, k>> \in unsaid' \cup mute', k)
                     /\ \A v \in Sweeper : PendingHolds(card'[x], today', told'[<<x, k>>], sweep'[v], x, k)
    BY DEF MarkersMean
  <2>0. x \notin raced /\ <<x, k>> \in Crossing
    BY <1>8 DEF Crossing
  <2>p. \A v \in Sweeper : PendingHolds(card'[x], today', told'[<<x, k>>], sweep'[v], x, k)
    BY <1>3, <1>4, QuietPending
  <2>1. MarkerMeans(card[x], today, told[<<x, k>>], <<x, k>> \in unsaid \cup mute, k)
    BY <2>0 DEF DueInv, MarkersMean
  <2>2. CASE x # c
    <3>1. card'[x] = card[x] /\ told'[<<x, k>>] = told[<<x, k>>] /\ today' = today
      BY <1>2, <1>6, <2>0, <2>2
    <3>2. <<x, k>> \in unsaid' \cup mute' <=> <<x, k>> \in unsaid \cup mute
      BY <1>2, <2>2
    <3>3. MarkerMeans(card'[x], today', told'[<<x, k>>], <<x, k>> \in unsaid' \cup mute', k)
      BY <2>1, <3>1, <3>2
    <3> QED
      BY <2>p, <3>3
  <2>3. CASE x = c
    <3>1. told'[<<x, k>>] = 0 /\ ~card'[x].mark[k]
      BY <1>2, <1>6, <2>0, <2>3
    <3>2. MarkerMeans(card'[x], today', told'[<<x, k>>], <<x, k>> \in unsaid' \cup mute', k)
      BY <3>1 DEF MarkerMeans
    <3> QED
      BY <2>p, <3>2
  <2> QED
    BY <2>2, <2>3
<1> QED
  BY <1>2, <1>5, <1>7, <1>9, <1>10, <1>11 DEF DueInv

\* The plan after its head: what is pending of every crossing but that one is
\* what was, and of that one there is only the emit, if the mark was the head.
PlanStep(s, t, c, k, what) ==
    \A d \in Card, j \in Kind :
        IF d = c /\ j = k
        THEN ~PendMark(t, d, j) /\ (IF what = "mark" THEN PendMark(s, d, j)
                                    ELSE /\ PendEmit(s, d, j) /\ ~PendMark(s, d, j)
                                    /\ ~PendEmit(t, d, j))
        ELSE (PendMark(t, d, j) <=> PendMark(s, d, j)) /\ (PendEmit(t, d, j) <=> PendEmit(s, d, j))

\* Taking the head of a plan is a step of the plan.
LEMMA PlanSteps ==
    ASSUME NEW s, NEW day, SweepShape(s, day), s.pc = "announce", s.steps # <<>>,
           NEW what \in {"mark", "emit"}, s.steps[1][3] = what,
           NEW t, t = [s EXCEPT !.steps = Tail(@)]
    PROVE  /\ s.steps[1][1] \in Card /\ s.steps[1][2] \in Kind
           /\ SweepShape(t, day) /\ t.pc = "announce" /\ t.day = s.day
           /\ PlanStep(s, t, s.steps[1][1], s.steps[1][2], what)
<1> DEFINE c == s.steps[1][1]
           k == s.steps[1][2]
<1>1. /\ DOMAIN t = DOMAIN AtRest /\ t.steps = Tail(s.steps)
      /\ t.pc = s.pc /\ t.day = s.day /\ t.back = s.back /\ t.crossed = s.crossed
  BY DEF SweepShape, AtRest
<1>0. c = s.steps[1][1] /\ k = s.steps[1][2] /\ what = s.steps[1][3] /\ what \in {"mark", "emit"}
  OBVIOUS
<1> HIDE DEF c, k
<1>2. /\ c \in Card /\ k \in Kind /\ SweepShape(t, day) /\ t.pc = "announce" /\ t.day = s.day
      /\ s.crossed[c] = {} /\ t.crossed = s.crossed
      /\ Entries(t.steps) = Entries(s.steps) \ {<<c, k, what>>}
      /\ what = "mark" => EmitOf(c, k) \in Entries(s.steps) /\ MarkOf(c, k) \in Entries(s.steps)
      /\ what = "emit" => MarkOf(c, k) \notin Entries(s.steps) /\ EmitOf(c, k) \in Entries(s.steps)
  <2>1. PICK d \in Card : s.steps \in Plans(d) /\ s.crossed[d] = {}
    BY DEF SweepShape
  <2>2. PICK j \in Kind, h \in {"mark", "emit"} : HeadIs(s.steps, d, j, h) /\ Tail(s.steps) \in Plans(d)
    BY <2>1, PlanTail
  <2>3. s.steps[1] = <<d, j, h>>
    BY <2>2 DEF HeadIs
  <2>4. c = d /\ k = j /\ what = h
    BY <1>0, <2>3
  <2>5. SweepShape(t, day)
    BY <1>1, <2>1, <2>2 DEF SweepShape
  <2>6. <<c, k, what>> \in Entries(s.steps)
    <3>1. 1 \in DOMAIN s.steps
      BY <2>1 DEF Plans
    <3> QED
      BY <2>3, <2>4, <3>1 DEF Entries
  <2>7. what = "mark" => MarkOf(c, k) \in Entries(s.steps)
    BY <2>6 DEF MarkOf
  <2>8. what = "emit" => EmitOf(c, k) \in Entries(s.steps)
    BY <2>6 DEF EmitOf
  <2> QED
    BY <1>1, <2>1, <2>2, <2>4, <2>5, <2>7, <2>8 DEF HeadIs
<1>3. ASSUME NEW d \in Card, NEW j \in Kind
      PROVE  IF d = c /\ j = k
             THEN ~PendMark(t, d, j) /\ (IF what = "mark" THEN PendMark(s, d, j)
                                    ELSE /\ PendEmit(s, d, j) /\ ~PendMark(s, d, j)
                                    /\ ~PendEmit(t, d, j))
             ELSE (PendMark(t, d, j) <=> PendMark(s, d, j)) /\ (PendEmit(t, d, j) <=> PendEmit(s, d, j))
  <2>0. what = "mark" \/ what = "emit"
    OBVIOUS
  <2>1. MarkOf(d, j) = <<c, k, what>> <=> (d = c /\ j = k /\ what = "mark")
    BY <2>0 DEF MarkOf
  <2>2. EmitOf(d, j) = <<c, k, what>> <=> (d = c /\ j = k /\ what = "emit")
    BY <2>0 DEF EmitOf
  <2> QED
    BY <1>1, <1>2, <2>0, <2>1, <2>2 DEF PendMark, PendEmit
<1> QED
  BY <1>2, <1>3 DEF PlanStep, c, k

\* What writing one marker makes of a row.
LEMMA MarkedRow ==
    ASSUME NEW r \in CardRow, NEW k \in Kind, NEW mm, mm = [r.mark EXCEPT ![k] = TRUE]
    PROVE  [r EXCEPT !.mark[k] = TRUE]
             = [status |-> r.status, date |-> r.date, mark |-> mm, came |-> r.came]
<1>2. ASSUME NEW m
      PROVE  [r EXCEPT !.mark = m]
               = [status |-> r.status, date |-> r.date, mark |-> m, came |-> r.came]
  BY DEF CardRow
<1> QED
  BY <1>2

\* The marker is written: the crossing is as good as announced.
LEMMA DueMark ==
    ASSUME OneSweep, DueInv, NEW w \in Sweeper, MarkAnnounced(w)
    PROVE  DueInv'
<1> DEFINE s == sweep[w]
           t == Done(w)
           c == s.steps[1][1]
           k == s.steps[1][2]
<1>1. /\ SweepShape(s, today) /\ s.pc = "announce" /\ s.steps # <<>> /\ s.steps[1][3] = "mark"
      /\ t = [s EXCEPT !.steps = Tail(@)]
  BY DEF DueInv, SweepShapes, MarkAnnounced, Announcing, Done
<1>2. /\ card' = [card EXCEPT ![c].mark[k] = TRUE]
      /\ raced' = IF HeldByEdit(c) THEN raced \cup {c} ELSE raced
      /\ unsaid' = unsaid \cup {<<c, k>>}
      /\ sweep' = [sweep EXCEPT ![w] = t]
      /\ today' = today /\ edit' = edit /\ told' = told /\ mute' = mute /\ touched' = touched
  BY DEF MarkAnnounced, Sweeps
<1> HIDE DEF t, s
<1>3. /\ c \in Card /\ k \in Kind /\ SweepShape(t, today) /\ t.pc = "announce" /\ t.day = s.day
      /\ PlanStep(s, t, c, k, "mark")
  BY <1>1, PlanSteps
<1> HIDE DEF c, k
<1>4. DOMAIN sweep' = Sweeper /\ \A v \in Sweeper : sweep'[v] = t /\ sweep[v] = s
  BY <1>2 DEF DueInv, SweepShapes, OneSweep, s
<1>5. SweepShapes(sweep', today')
  BY <1>2, <1>3, <1>4 DEF SweepShapes
<1>6. /\ card' \in [Card -> CardRow]
      /\ \A x \in Card : /\ card'[x].status = card[x].status /\ card'[x].date = card[x].date
                         /\ \A j \in Kind : card'[x].mark[j] = IF x = c /\ j = k THEN TRUE
                                                               ELSE card[x].mark[j]
      /\ \A x \in Card \ {c} : card'[x] = card[x]
  <2> DEFINE mm == [card[c].mark EXCEPT ![k] = TRUE]
             rr == [status |-> card[c].status, date |-> card[c].date, mark |-> mm,
                    came |-> card[c].came]
  <2>0. card \in [Card -> CardRow]
    BY DEF DueInv, DueTypes
  <2>1. /\ mm \in [Kind -> BOOLEAN]
        /\ \A j \in Kind : mm[j] = IF j = k THEN TRUE ELSE card[c].mark[j]
    BY <1>3, <2>0 DEF CardRow
  <2>2. [card[c] EXCEPT !.mark[k] = TRUE] = rr
    BY <1>3, <2>0, MarkedRow
  <2>3. card' = [card EXCEPT ![c] = rr]
    BY <1>2, <2>2
  <2> HIDE DEF mm
  <2>4. rr \in CardRow /\ rr.mark = mm /\ rr.status = card[c].status /\ rr.date = card[c].date
    BY <1>3, <2>0, <2>1 DEF CardRow
  <2> HIDE DEF rr
  <2> QED
    BY <1>3, <2>0, <2>1, <2>3, <2>4
<1>7. DueTypes(card', today', told', unsaid', mute')
  <2>1. <<c, k>> \in Crossing
    BY <1>3 DEF Crossing
  <2> QED
    BY <1>2, <1>6, <2>1 DEF DueInv, DueTypes
<1>8. raced \subseteq raced' /\ (HeldByEdit(c) => c \in raced')
  BY <1>2
<1>9. EditAgrees(edit', card', raced')
  <2>1. CASE edit = NoEdit
    BY <1>2, <2>1 DEF EditAgrees
  <2>2. CASE edit # NoEdit
    <3>1. edit.card = c => c \in raced'
      BY <1>8, <2>2 DEF HeldByEdit
    <3>2. EditAgrees(edit, card, raced)
      BY DEF DueInv
    <3>3. edit.card # c /\ edit.card \in Card => card'[edit.card] = card[edit.card]
      BY <1>6
    <3> QED
      BY <1>2, <1>8, <2>2, <3>1, <3>2, <3>3 DEF EditAgrees
  <2> QED
    BY <2>1, <2>2
<1>10. \A x \in Card, j \in Kind : \A d : Crossed(card'[x], j, d) <=> Crossed(card[x], j, d)
  <2> SUFFICES ASSUME NEW x \in Card, NEW j \in Kind, NEW d
               PROVE  Crossed(card'[x], j, d) <=> Crossed(card[x], j, d)
    OBVIOUS
  <2>1. card'[x].date = card[x].date
    BY <1>6
  <2> QED
    BY <2>1 DEF Crossed
<1>11. ListCovers(card', sweep', touched', raced')
  <2> SUFFICES ASSUME NEW v \in Sweeper, NEW x \in Card \ (touched[v] \cup raced'), NEW j \in Kind,
                      ~IsClosed(card'[x]), Crossed(card'[x], j, t.day)
               PROVE  card'[x].mark[j] \/ PendMark(t, x, j)
    BY <1>2, <1>4 DEF ListCovers
  <2>1. ~IsClosed(card[x]) /\ Crossed(card[x], j, s.day) /\ x \in Card \ (touched[v] \cup raced)
    BY <1>3, <1>6, <1>8, <1>10 DEF IsClosed
  <2>a. sweep[v] = s
    BY <1>4
  <2>b. sweep[v].pc = "announce" /\ ~IsClosed(card[x]) /\ Crossed(card[x], j, sweep[v].day)
          => card[x].mark[j] \/ PendMark(sweep[v], x, j)
    BY <2>1 DEF DueInv, ListCovers
  <2>2. card[x].mark[j] \/ PendMark(s, x, j)
    BY <1>1, <1>4, <2>1, <2>a, <2>b
  <2> QED
    BY <1>3, <1>6, <2>2 DEF PlanStep
<1>12. MarkersMean(card', today', told', unsaid' \cup mute', sweep', raced')
  <2>z. MarkersMean(card', today, told, unsaid' \cup mute, sweep', raced')
        => MarkersMean(card', today', told', unsaid' \cup mute', sweep', raced')
    BY <1>2
  <2>y. MarkersMean(card', today, told, unsaid' \cup mute, sweep', raced')
    <3> SUFFICES ASSUME NEW x \in Card \ raced', NEW j \in Kind
                 PROVE /\ MarkerMeans(card'[x], today, told[<<x, j>>], <<x, j>> \in unsaid' \cup mute, j)
                       /\ \A v \in Sweeper : PendingHolds(card'[x], today, told[<<x, j>>], sweep'[v], x, j)
      BY DEF MarkersMean
    <3>0. x \in Card \ raced
      BY <1>8
    <3>1. /\ MarkerMeans(card[x], today, told[<<x, j>>], <<x, j>> \in unsaid \cup mute, j)
          /\ PendingHolds(card[x], today, told[<<x, j>>], s, x, j)
      BY <3>0 DEF DueInv, MarkersMean, s
    <3>2. CASE x = c /\ j = k
      <4>1. PendMark(s, x, j) /\ ~PendMark(t, x, j)
        BY <1>3, <3>0, <3>2 DEF PlanStep
      <4>2. Crossed(card'[x], j, today) /\ told[<<x, j>>] = 0 /\ card'[x].mark[j]
        BY <1>6, <1>10, <3>0, <3>1, <3>2, <4>1 DEF PendingHolds, MarkerMeans
      <4>3. <<x, j>> \in unsaid'
        BY <1>2, <3>2
      <4>4. PendingHolds(card'[x], today, told[<<x, j>>], t, x, j)
        BY <4>1, <4>2 DEF PendingHolds
      <4>5. MarkerMeans(card'[x], today, told[<<x, j>>], <<x, j>> \in unsaid' \cup mute, j)
        BY <4>2, <4>3 DEF MarkerMeans
      <4> QED
        BY <1>4, <4>4, <4>5
    <3>3. CASE ~(x = c /\ j = k)
      <4>1. /\ PendMark(t, x, j) <=> PendMark(s, x, j)
            /\ PendEmit(t, x, j) <=> PendEmit(s, x, j)
        BY <1>3, <3>0, <3>3 DEF PlanStep
      <4>2. card'[x].mark[j] = card[x].mark[j]
        BY <1>6, <3>0, <3>3
      <4>3. <<x, j>> \in unsaid' \cup mute <=> <<x, j>> \in unsaid \cup mute
        BY <1>2, <3>3
      <4>4. Crossed(card'[x], j, today) <=> Crossed(card[x], j, today)
        BY <1>10, <3>0
      <4>5. PendingHolds(card'[x], today, told[<<x, j>>], t, x, j)
        BY <3>1, <4>1, <4>2, <4>4 DEF PendingHolds
      <4>6. MarkerMeans(card'[x], today, told[<<x, j>>], <<x, j>> \in unsaid' \cup mute, j)
        BY <3>1, <4>2, <4>3, <4>4 DEF MarkerMeans
      <4> QED
        BY <1>4, <4>5, <4>6
    <3> QED
      BY <3>2, <3>3
  <2> QED
    BY <2>y, <2>z
<1> QED
  BY <1>2, <1>5, <1>7, <1>9, <1>11, <1>12 DEF DueInv

\* The event is published: the count goes from none to one.
LEMMA DueEmit ==
    ASSUME OneSweep, DueInv, NEW w \in Sweeper, Emit(w)
    PROVE  DueInv'
<1> DEFINE s == sweep[w]
           t == Done(w)
           c == s.steps[1][1]
           k == s.steps[1][2]
<1>1. /\ SweepShape(s, today) /\ s.pc = "announce" /\ s.steps # <<>> /\ s.steps[1][3] = "emit"
      /\ t = [s EXCEPT !.steps = Tail(@)]
  BY DEF DueInv, SweepShapes, Emit, Announcing, Done
<1>2. /\ told' = [told EXCEPT ![<<c, k>>] = IF @ < 2 THEN @ + 1 ELSE @]
      /\ unsaid' = unsaid \ {<<c, k>>}
      /\ sweep' = [sweep EXCEPT ![w] = t] /\ card' = card /\ raced' = raced
      /\ today' = today /\ edit' = edit /\ mute' = mute /\ touched' = touched
  BY DEF Emit, Sweeps
<1> HIDE DEF t, s
<1>3. /\ c \in Card /\ k \in Kind /\ SweepShape(t, today) /\ t.pc = "announce" /\ t.day = s.day
      /\ PlanStep(s, t, c, k, "emit")
  BY <1>1, PlanSteps
<1> HIDE DEF c, k
<1>4. DOMAIN sweep' = Sweeper /\ \A v \in Sweeper : sweep'[v] = t /\ sweep[v] = s
  BY <1>2 DEF DueInv, SweepShapes, OneSweep, s
<1>5. SweepShapes(sweep', today')
  BY <1>2, <1>3, <1>4 DEF SweepShapes
<1>6. /\ told \in [Crossing -> 0..2] /\ told' \in [Crossing -> 0..2] /\ <<c, k>> \in Crossing
      /\ told[<<c, k>>] = 0 => told'[<<c, k>>] = 1
      /\ \A y \in Crossing \ {<<c, k>>} : told'[y] = told[y]
  <2>1. <<c, k>> \in Crossing
    BY <1>3 DEF Crossing
  <2>2. told \in [Crossing -> 0..2]
    BY DEF DueInv, DueTypes
  <2> DEFINE n == IF told[<<c, k>>] < 2 THEN told[<<c, k>>] + 1 ELSE told[<<c, k>>]
  <2>3. n \in 0..2 /\ (told[<<c, k>>] = 0 => n = 1)
    BY <2>1, <2>2
  <2>4. told' = [told EXCEPT ![<<c, k>>] = n]
    BY <1>2
  <2> HIDE DEF n
  <2> QED
    BY <2>1, <2>2, <2>3, <2>4
<1>7. DueTypes(card', today', told', unsaid', mute')
  BY <1>2, <1>6 DEF DueInv, DueTypes
<1>9. EditAgrees(edit', card', raced')
  BY <1>2 DEF DueInv
<1>11. ListCovers(card', sweep', touched', raced')
  <2> SUFFICES ASSUME NEW v \in Sweeper, NEW x \in Card \ (touched[v] \cup raced), NEW j \in Kind,
                      ~IsClosed(card[x]), Crossed(card[x], j, t.day)
               PROVE  card[x].mark[j] \/ PendMark(t, x, j)
    BY <1>2, <1>4 DEF ListCovers
  <2>2. card[x].mark[j] \/ PendMark(s, x, j)
    BY <1>1, <1>3, <1>4 DEF DueInv, ListCovers
  <2>3. x = c /\ j = k => ~PendMark(s, x, j)
    BY <1>3 DEF PlanStep
  <2> QED
    BY <1>3, <2>2, <2>3 DEF PlanStep
<1>12. MarkersMean(card', today', told', unsaid' \cup mute', sweep', raced')
  <2>z. MarkersMean(card, today, told', unsaid' \cup mute, sweep', raced)
        => MarkersMean(card', today', told', unsaid' \cup mute', sweep', raced')
    BY <1>2
  <2>y. MarkersMean(card, today, told', unsaid' \cup mute, sweep', raced)
    <3> SUFFICES ASSUME NEW x \in Card \ raced, NEW j \in Kind
                 PROVE /\ MarkerMeans(card[x], today, told'[<<x, j>>], <<x, j>> \in unsaid' \cup mute, j)
                       /\ \A v \in Sweeper : PendingHolds(card[x], today, told'[<<x, j>>], sweep'[v], x, j)
      BY DEF MarkersMean
    <3>1. /\ MarkerMeans(card[x], today, told[<<x, j>>], <<x, j>> \in unsaid \cup mute, j)
          /\ PendingHolds(card[x], today, told[<<x, j>>], s, x, j)
      BY DEF DueInv, MarkersMean, s
    <3>2. CASE x = c /\ j = k
      <4>1. PendEmit(s, x, j) /\ ~PendMark(t, x, j) /\ ~PendEmit(t, x, j)
        BY <1>3, <3>2 DEF PlanStep
      <4>2. told[<<x, j>>] = 0 /\ card[x].mark[j]
        BY <3>1, <4>1 DEF PendingHolds
      <4>3. told'[<<x, j>>] = 1
        BY <1>6, <3>2, <4>2
      <4>4. PendingHolds(card[x], today, told'[<<x, j>>], t, x, j)
        BY <4>1 DEF PendingHolds
      <4>5. MarkerMeans(card[x], today, told'[<<x, j>>], <<x, j>> \in unsaid' \cup mute, j)
        BY <3>1, <4>2, <4>3 DEF MarkerMeans
      <4> QED
        BY <1>4, <4>4, <4>5
    <3>3. CASE ~(x = c /\ j = k)
      <4>1. /\ PendMark(t, x, j) <=> PendMark(s, x, j)
            /\ PendEmit(t, x, j) <=> PendEmit(s, x, j)
        BY <1>3, <3>3 DEF PlanStep
      <4>2. told'[<<x, j>>] = told[<<x, j>>]
        <5>1. <<x, j>> \in Crossing \ {<<c, k>>}
          BY <3>3 DEF Crossing
        <5> QED BY <1>6, <5>1
      <4>3. <<x, j>> \in unsaid' \cup mute <=> <<x, j>> \in unsaid \cup mute
        BY <1>2, <3>3
      <4>5. PendingHolds(card[x], today, told'[<<x, j>>], t, x, j)
        BY <3>1, <4>1, <4>2 DEF PendingHolds
      <4>6. MarkerMeans(card[x], today, told'[<<x, j>>], <<x, j>> \in unsaid' \cup mute, j)
        BY <3>1, <4>2, <4>3 DEF MarkerMeans
      <4> QED
        BY <1>4, <4>5, <4>6
    <3> QED
      BY <3>2, <3>3
  <2> QED
    BY <2>y, <2>z
<1> QED
  BY <1>2, <1>5, <1>7, <1>9, <1>11, <1>12 DEF DueInv

\* A death keeps the rows and their markers; what was marked and not said is
\* lost for good.
LEMMA DueKill == DueInv /\ Kill => DueInv'
<1> SUFFICES ASSUME DueInv, Kill PROVE DueInv'
  OBVIOUS
<1>1. /\ sweep' = [w \in Sweeper |-> AtRest] /\ edit' = NoEdit
      /\ mute' = mute \cup unsaid /\ unsaid' = {}
      /\ card' = card /\ today' = today /\ told' = told /\ raced' = raced /\ touched' = touched
  BY DEF Kill
<1>2. DueTypes(card', today', told', unsaid', mute')
  BY <1>1 DEF DueInv, DueTypes
<1>3. SweepShapes(sweep', today') /\ \A w \in Sweeper : sweep'[w].pc = "rest"
  BY <1>1, RestShape DEF SweepShapes
<1>4. EditAgrees(edit', card', raced')
  BY <1>1 DEF EditAgrees
<1>5. ListCovers(card', sweep', touched', raced')
  BY <1>3 DEF ListCovers
<1>6. MarkersMean(card', today', told', unsaid' \cup mute', sweep', raced')
  <2>0. unsaid' \cup mute' = unsaid \cup mute
    BY <1>1
  <2>1. MarkersMean(card, today, told, unsaid \cup mute, sweep', raced)
        => MarkersMean(card', today', told', unsaid' \cup mute', sweep', raced')
    BY <1>1, <2>0
  <2>y. MarkersMean(card, today, told, unsaid \cup mute, sweep', raced)
    <3> SUFFICES ASSUME NEW x \in Card \ raced, NEW j \in Kind
                 PROVE /\ MarkerMeans(card[x], today, told[<<x, j>>], <<x, j>> \in unsaid \cup mute, j)
                       /\ \A w \in Sweeper : PendingHolds(card[x], today, told[<<x, j>>], sweep'[w], x, j)
      BY DEF MarkersMean
    <3>2. MarkerMeans(card[x], today, told[<<x, j>>], <<x, j>> \in unsaid \cup mute, j)
      BY DEF DueInv, MarkersMean
    <3> QED
      BY <1>3, <3>2, QuietPending
  <2> QED
    BY <2>y, <2>1
<1> QED
  BY <1>1, <1>2, <1>3, <1>4, <1>5, <1>6 DEF DueInv

\* Every step keeps the invariant, as long as one sweep runs at a time.
LEMMA NextDue ==
    ASSUME OneSweep
    PROVE  DueInv /\ [DNext]_cards => DueInv'
<1> SUFFICES ASSUME DueInv, [DNext]_cards PROVE DueInv'
  OBVIOUS
<1>1. CASE UNCHANGED cards
  BY <1>1 DEF cards, DueInv
<1>2. CASE \E w \in Sweeper : \/ BeginSweep(w) \/ RecurFails(w) \/ AnnounceFails(w) \/ EndSweep(w)
                              \/ \E c \in Card : RecurReads(w, c)
  BY <1>2, DueQuietSteps
<1>3. CASE \E w \in Sweeper : \/ RecurWrites(w) \/ ListCrossed(w) \/ MarkAnnounced(w) \/ Emit(w)
                              \/ \E c \in Card : TakeCard(w, c)
  BY <1>3, DueRecurWrites, DueList, DueMark, DueEmit, DueTake
<1>4. CASE DayPasses \/ Kill \/ UpdateWrites \/ ReopenWrites
           \/ \E c \in Card : OccurrenceComes(c) \/ UpdateReads(c) \/ ReopenReads(c) \/ Complete(c)
  BY <1>4, DueDayPasses, DueKill, DueUpdateWrites, DueReopenWrites, DueCame, DueReads, DueComplete
<1> QED
  BY <1>1, <1>2, <1>3, <1>4 DEF DNext

\* The invariant implies what the runs check.
LEMMA DueImplied == DueInv => DueSound
<1> SUFFICES ASSUME DueInv PROVE DueSound
  OBVIOUS
<1>1. DTypeOK
  BY DEF DueInv, DueTypes, DTypeOK, CardRow, CardStatuses
<1>2. AnnouncedOnce
  BY DEF DueInv, MarkersMean, MarkerMeans, AnnouncedOnce
<1>3. SamePass
  <2> SUFFICES ASSUME NEW w \in Sweeper, SweepDone(w), NEW c \in Card \ (touched[w] \cup raced),
                      NEW k \in Kind, ~IsClosed(card[c]), Crossed(card[c], k, sweep[w].day)
               PROVE  card[c].mark[k]
    BY DEF SamePass
  <2>1. card[c].mark[k] \/ PendMark(sweep[w], c, k)
    BY DEF DueInv, ListCovers, SweepDone
  <2>2. ~PendMark(sweep[w], c, k)
    BY DEF SweepDone, PendMark, Entries
  <2> QED
    BY <2>1, <2>2
<1> QED
  BY <1>1, <1>2, <1>3 DEF DueSound

\* sweep_recurrences and announce_due, one sweep after the other: for any
\* cards and any number of days and calls, across failing writes and deaths
\* of the daemon, no crossing of a card that one task wrote at a time is
\* published twice before it is armed again, every marker stands for an
\* event that was published, is about to be or was lost in a death, and a
\* sweep that ends has marked every open card it could.
THEOREM DueHolds == ASSUME OneSweep PROVE DSpec => []DueSound
  BY InitDue, NextDue, DueImplied, PTL DEF DSpec
-----------------------------------------------------------------------------
(* SessionStore: the session map and its tables.                           *)

\* What a request may still have to do.
Todos == {<<>>, <<"persist">>, <<"persist", "insert">>, <<"insert">>,
          <<"persist", "insert", "update", "persist">>, <<"insert", "update", "persist">>,
          <<"update", "persist">>, <<"update", "persist", "send">>, <<"persist", "send">>,
          <<"send">>}
\* It has yet to put its session into the map.
Inserts(p) == \E i \in DOMAIN p : p[i] = "insert"
\* The requests a client can have.
Requests == [todo : Todos, id : SessId \cup {Null}, row : SessRow, msgs : Seq(Role)]

\* The types, with the plans of the requests.
SessTypes ==
    /\ DOMAIN held \subseteq SessId /\ \A s \in DOMAIN held : held[s] \in SessRow
    /\ DOMAIN onDisk \subseteq SessId /\ \A s \in DOMAIN onDisk : onDisk[s] \in SessRow
    /\ heldMsgs \in [SessId -> Seq(Role)] /\ onDiskMsgs \in [SessId -> Seq(Role)]
    /\ defaultId \in SessId \cup {Null}
    /\ request \in [SessClient -> Requests]
    /\ picked \in [SessId -> Pin \cup {Null}]
    /\ known \in SUBSET SessId /\ overlapped \in SUBSET SessId /\ rewritten \in SUBSET SessId
    /\ asked \in 0..AskMax /\ restarts \in 0..RestartMax

\* Whatever is in use has been created.
InUseKnown ==
    /\ DOMAIN held \subseteq known /\ DOMAIN onDisk \subseteq known
    /\ \A c \in SessClient : request[c].todo # <<>> => request[c].id \in known

\* A session that is to be created has no model picked.
InsertsBare == \A c \in SessClient : Inserts(request[c].todo) => request[c].row.pin = Null

\* The requests q on a session.
On(q, c, s) == q[c].todo # <<>> /\ q[c].id = s
Still(q, s) == \A c \in SessClient : ~On(q, c, s)
Alone(q, c, s) == \A d \in SessClient \ {c} : ~On(q, d, s)

\* The map h and the table d hold the same of a session.
Agrees(h, d, s) == /\ s \in DOMAIN h <=> s \in DOMAIN d
                   /\ s \in DOMAIN h => h[s] = d[s]
\* persist_row will leave the row as it is carried.
Fits(r, d, s) ==
    s \in DOMAIN d => /\ r.title = Null => d[s].title = Null
                      /\ r.place = Null => d[s].place = Null
\* What the one request t on a session has done so far.
Halfway(t, h, d, s) ==
    /\ Head(t.todo) = "persist" /\ Inserts(t.todo) => s \notin DOMAIN h /\ s \notin DOMAIN d
    /\ Head(t.todo) = "persist" /\ ~Inserts(t.todo) =>
          s \in DOMAIN h /\ h[s] = t.row /\ Fits(t.row, d, s)
    /\ Head(t.todo) = "insert" => s \notin DOMAIN h /\ s \in DOMAIN d /\ d[s] = t.row
    /\ Head(t.todo) = "update" => s \in DOMAIN h /\ h[s] = t.row /\ s \in DOMAIN d /\ d[s] = t.row
    /\ Head(t.todo) = "send" => Agrees(h, d, s)

\* The rows and the messages of one session that no two requests have met on.
RowsAt(h, d, q, s) ==
    /\ Still(q, s) => Agrees(h, d, s)
    /\ \A c \in SessClient : On(q, c, s) /\ Alone(q, c, s) => Halfway(q[c], h, d, s)
MsgsAt(d, hm, dm, rw, s) ==
    /\ s \notin rw => hm[s] = dm[s]
    /\ s \notin DOMAIN d => dm[s] = <<>>
OneByOne ==
    \A s \in SessId \ overlapped : /\ RowsAt(held, onDisk, request, s)
                                  /\ MsgsAt(onDisk, heldMsgs, onDiskMsgs, rewritten, s)

\* What every step keeps.
SessInv ==
    /\ SessTypes /\ InUseKnown /\ InsertsBare /\ OneByOne
    /\ PinIsLastPick /\ DefaultIsHeld

\* Which plans have a session to create.
LEMMA TodoInserts ==
    /\ ~Inserts(<<>>) /\ ~Inserts(<<"persist">>) /\ ~Inserts(<<"send">>)
    /\ ~Inserts(<<"update", "persist">>) /\ ~Inserts(<<"persist", "send">>)
    /\ ~Inserts(<<"update", "persist", "send">>)
    /\ Inserts(<<"insert">>) /\ Inserts(<<"persist", "insert">>)
    /\ Inserts(<<"insert", "update", "persist">>)
    /\ Inserts(<<"persist", "insert", "update", "persist">>)
<1>1. ~Inserts(<<>>)
  <2> DEFINE p == <<>>
  <2>1. DOMAIN p = 1..0
    OBVIOUS
  <2>2. \A i \in 1..0 : p[i] # "insert"
    OBVIOUS
  <2> QED
    BY <2>1, <2>2 DEF Inserts
<1>2. ~Inserts(<<"persist">>)
  <2> DEFINE p == <<"persist">>
  <2>1. DOMAIN p = 1..1
    OBVIOUS
  <2>2. \A i \in 1..1 : p[i] # "insert"
    OBVIOUS
  <2> QED
    BY <2>1, <2>2 DEF Inserts
<1>3. Inserts(<<"persist", "insert">>)
  <2> DEFINE p == <<"persist", "insert">>
  <2>1. 2 \in DOMAIN p /\ p[2] = "insert"
    OBVIOUS
  <2> QED
    BY <2>1 DEF Inserts
<1>4. Inserts(<<"insert">>)
  <2> DEFINE p == <<"insert">>
  <2>1. 1 \in DOMAIN p /\ p[1] = "insert"
    OBVIOUS
  <2> QED
    BY <2>1 DEF Inserts
<1>5. Inserts(<<"persist", "insert", "update", "persist">>)
  <2> DEFINE p == <<"persist", "insert", "update", "persist">>
  <2>1. 2 \in DOMAIN p /\ p[2] = "insert"
    OBVIOUS
  <2> QED
    BY <2>1 DEF Inserts
<1>6. Inserts(<<"insert", "update", "persist">>)
  <2> DEFINE p == <<"insert", "update", "persist">>
  <2>1. 1 \in DOMAIN p /\ p[1] = "insert"
    OBVIOUS
  <2> QED
    BY <2>1 DEF Inserts
<1>7. ~Inserts(<<"update", "persist">>)
  <2> DEFINE p == <<"update", "persist">>
  <2>1. DOMAIN p = 1..2
    OBVIOUS
  <2>2. \A i \in 1..2 : p[i] # "insert"
    OBVIOUS
  <2> QED
    BY <2>1, <2>2 DEF Inserts
<1>8. ~Inserts(<<"update", "persist", "send">>)
  <2> DEFINE p == <<"update", "persist", "send">>
  <2>1. DOMAIN p = 1..3
    OBVIOUS
  <2>2. \A i \in 1..3 : p[i] # "insert"
    OBVIOUS
  <2> QED
    BY <2>1, <2>2 DEF Inserts
<1>9. ~Inserts(<<"persist", "send">>)
  <2> DEFINE p == <<"persist", "send">>
  <2>1. DOMAIN p = 1..2
    OBVIOUS
  <2>2. \A i \in 1..2 : p[i] # "insert"
    OBVIOUS
  <2> QED
    BY <2>1, <2>2 DEF Inserts
<1>10. ~Inserts(<<"send">>)
  <2> DEFINE p == <<"send">>
  <2>1. DOMAIN p = 1..1
    OBVIOUS
  <2>2. \A i \in 1..1 : p[i] # "insert"
    OBVIOUS
  <2> QED
    BY <2>1, <2>2 DEF Inserts
<1> QED
  BY <1>1, <1>2, <1>3, <1>4, <1>5, <1>6, <1>7, <1>8, <1>9, <1>10

\* The stages of a request.
LEMMA StagesOf ==
    ASSUME NEW p \in Todos, p # <<>>
    PROVE  /\ Head(p) \in {"persist", "insert", "update", "send"}
           /\ Len(p) # 1 => Tail(p) \in Todos /\ Tail(p) # <<>>
           /\ Inserts(Tail(p)) => Inserts(p)
           /\ Head(p) = "persist" /\ Inserts(p) => Len(p) # 1 /\ Head(Tail(p)) = "insert"
           /\ Head(p) = "persist" /\ ~Inserts(p) /\ Len(p) # 1 => Head(Tail(p)) = "send"
           /\ Head(p) = "insert" => Inserts(p)
           /\ Head(p) = "insert" /\ Len(p) # 1 => Head(Tail(p)) = "update"
           /\ Head(p) = "update" => /\ Len(p) # 1 /\ Head(Tail(p)) = "persist"
                                    /\ ~Inserts(Tail(p))
           /\ Head(p) = "send" => Len(p) = 1
<1>1. CASE p = <<"persist">>
  <2>1. Head(p) = "persist" /\ Len(p) = 1 /\ Tail(p) = <<>>
    BY <1>1
  <2> QED
    BY <1>1, <2>1, TodoInserts
<1>2. CASE p = <<"persist", "insert">>
  <2>1. Head(p) = "persist" /\ Len(p) = 2
    BY <1>2
  <2>2. Tail(p) = <<"insert">>
    BY <1>2
  <2>3. <<"insert">> \in Todos
    BY DEF Todos
  <2>4. Head(<<"insert">>) = "insert" /\ <<"insert">> # <<>>
    OBVIOUS
  <2> QED
    BY <1>2, <2>1, <2>2, <2>3, <2>4, TodoInserts
<1>3. CASE p = <<"insert">>
  <2>1. Head(p) = "insert" /\ Len(p) = 1 /\ Tail(p) = <<>>
    BY <1>3
  <2> QED
    BY <1>3, <2>1, TodoInserts
<1>4. CASE p = <<"persist", "insert", "update", "persist">>
  <2>1. Head(p) = "persist" /\ Len(p) = 4
    BY <1>4
  <2>2. Tail(p) = <<"insert", "update", "persist">>
    BY <1>4
  <2>3. <<"insert", "update", "persist">> \in Todos
    BY DEF Todos
  <2>4. /\ Head(<<"insert", "update", "persist">>) = "insert"
        /\ <<"insert", "update", "persist">> # <<>>
    OBVIOUS
  <2> QED
    BY <1>4, <2>1, <2>2, <2>3, <2>4, TodoInserts
<1>5. CASE p = <<"insert", "update", "persist">>
  <2>1. Head(p) = "insert" /\ Len(p) = 3
    BY <1>5
  <2>2. Tail(p) = <<"update", "persist">>
    BY <1>5
  <2>3. <<"update", "persist">> \in Todos
    BY DEF Todos
  <2>4. Head(<<"update", "persist">>) = "update" /\ <<"update", "persist">> # <<>>
    OBVIOUS
  <2> QED
    BY <1>5, <2>1, <2>2, <2>3, <2>4, TodoInserts
<1>6. CASE p = <<"update", "persist">>
  <2>1. Head(p) = "update" /\ Len(p) = 2
    BY <1>6
  <2>2. Tail(p) = <<"persist">>
    BY <1>6
  <2>3. <<"persist">> \in Todos
    BY DEF Todos
  <2>4. Head(<<"persist">>) = "persist" /\ <<"persist">> # <<>>
    OBVIOUS
  <2> QED
    BY <1>6, <2>1, <2>2, <2>3, <2>4, TodoInserts
<1>7. CASE p = <<"update", "persist", "send">>
  <2>1. Head(p) = "update" /\ Len(p) = 3
    BY <1>7
  <2>2. Tail(p) = <<"persist", "send">>
    BY <1>7
  <2>3. <<"persist", "send">> \in Todos
    BY DEF Todos
  <2>4. Head(<<"persist", "send">>) = "persist" /\ <<"persist", "send">> # <<>>
    OBVIOUS
  <2> QED
    BY <1>7, <2>1, <2>2, <2>3, <2>4, TodoInserts
<1>8. CASE p = <<"persist", "send">>
  <2>1. Head(p) = "persist" /\ Len(p) = 2
    BY <1>8
  <2>2. Tail(p) = <<"send">>
    BY <1>8
  <2>3. <<"send">> \in Todos
    BY DEF Todos
  <2>4. Head(<<"send">>) = "send" /\ <<"send">> # <<>>
    OBVIOUS
  <2> QED
    BY <1>8, <2>1, <2>2, <2>3, <2>4, TodoInserts
<1>9. CASE p = <<"send">>
  <2>1. Head(p) = "send" /\ Len(p) = 1 /\ Tail(p) = <<>>
    BY <1>9
  <2> QED
    BY <1>9, <2>1, TodoInserts
<1> QED
  BY <1>1, <1>2, <1>3, <1>4, <1>5, <1>6, <1>7, <1>8, <1>9 DEF Todos

\* The bare requests and rows.
LEMMA BareRows ==
    /\ \A t \in Title \cup {Null}, p \in Place \cup {Null} :
         NewRow(t, p) \in SessRow /\ NewRow(t, p).pin = Null
    /\ NoRequest \in Requests /\ NoRequest.todo = <<>> /\ ~Inserts(<<>>)
<1>1. \A t \in Title \cup {Null}, p \in Place \cup {Null} :
         NewRow(t, p) \in SessRow /\ NewRow(t, p).pin = Null
  BY DEF NewRow, SessRow
<1>2. <<>> \in Todos /\ <<>> \in Seq(Role) /\ NewRow(Null, Null) \in SessRow
  BY <1>1 DEF Todos
<1>3. NoRequest \in Requests /\ NoRequest.todo = <<>>
  BY <1>2 DEF NoRequest, Requests
<1> QED
  BY <1>1, <1>3, TodoInserts

\* One stage done.
LEMMA StageMoves ==
    ASSUME request \in [SessClient -> Requests], NEW c \in SessClient, NEW r \in SessRow,
           request[c].todo # <<>>, NextStage(c, r)
    PROVE  /\ request' \in [SessClient -> Requests]
           /\ \A d \in SessClient \ {c} : request'[d] = request[d]
           /\ Len(request[c].todo) = 1 => request'[c].todo = <<>>
           /\ Len(request[c].todo) # 1 =>
                 /\ request'[c].todo = Tail(request[c].todo) /\ request'[c].row = r
                 /\ request'[c].id = request[c].id
<1> DEFINE p == request[c].todo
           q == Carries(request[c].id, r, request[c].msgs, Tail(p))
           t == IF Len(p) = 1 THEN NoRequest ELSE q
<1>1. request[c] \in Requests /\ p \in Todos
  BY DEF Requests
<1>2. Len(p) # 1 => q \in Requests /\ q.todo = Tail(p) /\ q.row = r /\ q.id = request[c].id
  <2>1. Len(p) # 1 => Tail(p) \in Todos
    BY <1>1, StagesOf
  <2> HIDE DEF p
  <2> QED
    BY <1>1, <2>1 DEF Requests, Carries
<1>3. request' = [request EXCEPT ![c] = t]
  BY DEF NextStage
<1>4. t \in Requests
  BY <1>2, BareRows
<1> HIDE DEF t
<1>5. request' \in [SessClient -> Requests] /\ request'[c] = t
      /\ \A d \in SessClient \ {c} : request'[d] = request[d]
  BY <1>3, <1>4
<1> QED
  BY <1>2, <1>5, BareRows DEF t

\* A session that a request touches and that has not met another has had this
\* request alone.
LEMMA Lonely ==
    ASSUME NEW q, NEW c \in SessClient, NEW ov, NEW S, NEW s \in S,
           s \notin ov \cup {x \in S : \E d \in SessClient \ {c} : On(q, d, x)}
    PROVE  s \notin ov /\ Alone(q, c, s)
  BY DEF Alone

\* Nothing under way.
LEMMA AtRestAgrees ==
    ASSUME NEW h, NEW d, NEW q, NEW s, Still(q, s), Agrees(h, d, s)
    PROVE  RowsAt(h, d, q, s)
  BY DEF RowsAt, Still

\* One request under way.
LEMMA Underway ==
    ASSUME NEW h, NEW d, NEW q, NEW s, NEW c \in SessClient, On(q, c, s), Alone(q, c, s),
           Halfway(q[c], h, d, s)
    PROVE  RowsAt(h, d, q, s)
  BY DEF RowsAt, Still, Alone

\* A session the step leaves alone.
LEMMA RowsElsewhere ==
    ASSUME NEW h, NEW d, NEW q, NEW h2, NEW d2, NEW q2, NEW s, RowsAt(h, d, q, s),
           s \in DOMAIN h2 <=> s \in DOMAIN h, s \in DOMAIN h => h2[s] = h[s],
           s \in DOMAIN d2 <=> s \in DOMAIN d, s \in DOMAIN d => d2[s] = d[s],
           \A c \in SessClient : q2[c] = q[c] \/ (~On(q, c, s) /\ ~On(q2, c, s))
    PROVE  RowsAt(h2, d2, q2, s)
<1>1. \A c \in SessClient : On(q2, c, s) <=> On(q, c, s)
  BY DEF On
<1>2. Still(q2, s) => Agrees(h2, d2, s)
  BY <1>1 DEF RowsAt, Still, Agrees
<1>3. ASSUME NEW c \in SessClient, On(q2, c, s), Alone(q2, c, s)
      PROVE  Halfway(q2[c], h2, d2, s)
  <2>1. On(q, c, s) /\ Alone(q, c, s) /\ q2[c] = q[c]
    BY <1>1, <1>3 DEF Alone
  <2>2. Halfway(q[c], h, d, s)
    BY <2>1 DEF RowsAt
  <2> QED
    BY <2>1, <2>2 DEF Halfway, Agrees, Fits
<1> QED
  BY <1>2, <1>3 DEF RowsAt

\* The messages of a session the step leaves alone, or writes both ways.
LEMMA MsgsElsewhere ==
    ASSUME NEW d, NEW hm, NEW dm, NEW rw, NEW d2, NEW hm2, NEW dm2, NEW rw2, NEW s,
           MsgsAt(d, hm, dm, rw, s), s \in DOMAIN d => s \in DOMAIN d2,
           hm2[s] = hm[s], dm2[s] = dm[s], s \in rw => s \in rw2
    PROVE  MsgsAt(d2, hm2, dm2, rw2, s)
  BY DEF MsgsAt

\* A request under way has an id.
LEMMA RequestKnown ==
    ASSUME SessInv, NEW c \in SessClient
    PROVE  /\ request[c] \in Requests /\ request[c].todo \in Todos /\ request[c].row \in SessRow
           /\ request[c].msgs \in Seq(Role)
           /\ request[c].todo # <<>> => request[c].id \in known /\ request[c].id \in SessId
<1>1. request[c] \in Requests /\ known \in SUBSET SessId
  BY DEF SessInv, SessTypes
<1> QED
  BY <1>1 DEF SessInv, InUseKnown, Requests

\* Rows with a column set.
LEMMA RowSets ==
    ASSUME NEW r \in SessRow
    PROVE  /\ \A t \in Title \cup {Null} : /\ [r EXCEPT !.title = t] \in SessRow
                                           /\ [r EXCEPT !.title = t].pin = r.pin
           /\ \A t \in Place \cup {Null} : /\ [r EXCEPT !.place = t] \in SessRow
                                           /\ [r EXCEPT !.place = t].pin = r.pin
           /\ \A t \in Pin \cup {Null} : /\ [r EXCEPT !.pin = t] \in SessRow
                                         /\ [r EXCEPT !.pin = t].pin = t
                                         /\ [r EXCEPT !.pin = t].title = r.title
                                         /\ [r EXCEPT !.pin = t].place = r.place
                                         /\ t = r.pin => [r EXCEPT !.pin = t] = r
           /\ \A t \in BOOLEAN : /\ [r EXCEPT !.tools = t] \in SessRow
                                 /\ [r EXCEPT !.tools = t].pin = r.pin
                                 /\ [r EXCEPT !.tools = t].title = r.title
                                 /\ [r EXCEPT !.tools = t].place = r.place
           /\ \A t \in ReplyTo : /\ [r EXCEPT !.route = t] \in SessRow
                                 /\ [r EXCEPT !.route = t].pin = r.pin
                                 /\ [r EXCEPT !.route = t].title = r.title
                                 /\ [r EXCEPT !.route = t].place = r.place
  BY DEF SessRow

\* The sessions that a request of a client touches and that have met no other
\* are in step when it comes.
LEMMA AskTouches ==
    ASSUME SessInv, NEW c \in SessClient, NEW S \in SUBSET SessId, Asks(c), Touches(c, S)
    PROVE  /\ asked' \in 0..AskMax /\ restarts' \in 0..RestartMax
           /\ overlapped' \in SUBSET SessId
           /\ \A x \in SessId \ overlapped' : x \notin overlapped
           /\ \A x \in S \ overlapped' : /\ Still(request, x) /\ Alone(request, c, x)
                                         /\ Agrees(held, onDisk, x)
<1>1. asked' \in 0..AskMax /\ restarts' \in 0..RestartMax
  BY SessionAssumption DEF Asks, SessInv, SessTypes
<1>2. overlapped' = overlapped \cup {x \in S : \E d \in SessClient \ {c} : On(request, d, x)}
  BY DEF Touches, InFlightOn, On
<1>3. overlapped' \in SUBSET SessId
  BY <1>2 DEF SessInv, SessTypes
<1>4. ASSUME NEW x \in S \ overlapped'
      PROVE  /\ Still(request, x) /\ Alone(request, c, x) /\ Agrees(held, onDisk, x)
  <2>1. x \notin overlapped /\ Alone(request, c, x)
    BY <1>2, <1>4, Lonely
  <2>2. ~On(request, c, x)
    BY DEF Asks, On
  <2>3. Still(request, x)
    BY <2>1, <2>2 DEF Still, Alone
  <2>4. RowsAt(held, onDisk, request, x)
    BY <2>1, <1>4 DEF SessInv, OneByOne
  <2> QED
    BY <2>1, <2>3, <2>4 DEF RowsAt
<1> QED
  BY <1>1, <1>2, <1>3, <1>4

\* rename and set_workspace: one column, in the map and in the table.
LEMMA ColumnKeeps ==
    ASSUME SessInv, NEW c \in SessClient, NEW s \in SessId, s \in DOMAIN held, NEW r \in SessRow,
           NEW e, r.pin = held[s].pin, s \in DOMAIN onDisk => e \in SessRow,
           s \in DOMAIN onDisk /\ onDisk[s] = held[s] => e = r,
           held' = [held EXCEPT ![s] = r],
           onDisk' = IF s \in DOMAIN onDisk THEN [onDisk EXCEPT ![s] = e] ELSE onDisk,
           AtOnce(c, s), UNCHANGED <<heldMsgs, onDiskMsgs, defaultId, picked, rewritten>>
    PROVE  SessInv'
<1>1. /\ DOMAIN held' = DOMAIN held /\ held'[s] = r
      /\ \A x \in (DOMAIN held) \ {s} : held'[x] = held[x]
  OBVIOUS
<1>2. /\ DOMAIN onDisk' = DOMAIN onDisk /\ s \in DOMAIN onDisk => onDisk'[s] = e
      /\ \A x \in (DOMAIN onDisk) \ {s} : onDisk'[x] = onDisk[x]
  OBVIOUS
<1>3. /\ heldMsgs' = heldMsgs /\ onDiskMsgs' = onDiskMsgs /\ defaultId' = defaultId
      /\ picked' = picked /\ rewritten' = rewritten /\ request' = request /\ known' = known
      /\ Asks(c) /\ Touches(c, {s})
  BY DEF AtOnce
<1>4. /\ asked' \in 0..AskMax /\ restarts' \in 0..RestartMax
      /\ overlapped' \in SUBSET SessId
      /\ \A x \in SessId \ overlapped' : x \notin overlapped
      /\ \A x \in {s} \ overlapped' : Still(request, x) /\ Agrees(held, onDisk, x)
  BY <1>3, AskTouches
<1>5. SessTypes'
  BY <1>1, <1>2, <1>3, <1>4 DEF SessInv, SessTypes
<1>6. InUseKnown' /\ InsertsBare'
  BY <1>1, <1>2, <1>3 DEF SessInv, InUseKnown, InsertsBare
<1>7. PinIsLastPick' /\ DefaultIsHeld'
  BY <1>1, <1>3 DEF SessInv, PinIsLastPick, DefaultIsHeld
<1>8. ASSUME NEW x \in SessId \ overlapped'
      PROVE  /\ RowsAt(held', onDisk', request', x)
             /\ MsgsAt(onDisk', heldMsgs', onDiskMsgs', rewritten', x)
  <2>1. /\ RowsAt(held, onDisk, request, x)
        /\ MsgsAt(onDisk, heldMsgs, onDiskMsgs, rewritten, x)
    BY <1>4, <1>8 DEF SessInv, OneByOne
  <2>2. MsgsAt(onDisk', heldMsgs', onDiskMsgs', rewritten', x)
    BY <1>2, <1>3, <2>1 DEF MsgsAt
  <2>3. CASE x = s
    <3>1. Still(request, s) /\ Agrees(held, onDisk, s)
      BY <1>4, <1>8, <2>3
    <3>2. Agrees(held', onDisk', s)
      BY <3>1, <1>1, <1>2 DEF Agrees
    <3> QED
      BY <1>3, <2>2, <2>3, <3>1, <3>2, AtRestAgrees
  <2>4. CASE x # s
    <3>1. /\ x \in DOMAIN held' <=> x \in DOMAIN held
          /\ x \in DOMAIN held => held'[x] = held[x]
          /\ x \in DOMAIN onDisk' <=> x \in DOMAIN onDisk
          /\ x \in DOMAIN onDisk => onDisk'[x] = onDisk[x]
      BY <1>1, <1>2, <2>4
    <3>2. RowsAt(held', onDisk', request, x)
      BY <2>1, <3>1, RowsElsewhere
    <3> QED
      BY <1>3, <2>2, <3>2
  <2> QED
    BY <2>3, <2>4
<1>9. OneByOne'
  BY <1>8 DEF OneByOne
<1> QED
  BY <1>5, <1>6, <1>7, <1>9 DEF SessInv

\* rename.
LEMMA RenameKeeps ==
    ASSUME SessInv, NEW c \in SessClient, NEW s \in SessId, NEW t \in Title, Rename(c, s, t)
    PROVE  SessInv'
<1> DEFINE r == [held[s] EXCEPT !.title = t]
           e == [onDisk[s] EXCEPT !.title = t]
<1>1. s \in DOMAIN held /\ held[s] \in SessRow /\ (s \in DOMAIN onDisk => onDisk[s] \in SessRow)
  BY DEF Rename, SessInv, SessTypes
<1>2. /\ r \in SessRow /\ r.pin = held[s].pin /\ (s \in DOMAIN onDisk => e \in SessRow)
      /\ (s \in DOMAIN onDisk /\ onDisk[s] = held[s] => e = r)
  BY <1>1, RowSets
<1>3. /\ held' = [held EXCEPT ![s] = r]
      /\ onDisk' = IF s \in DOMAIN onDisk THEN [onDisk EXCEPT ![s] = e] ELSE onDisk
      /\ AtOnce(c, s) /\ UNCHANGED <<heldMsgs, onDiskMsgs, defaultId, picked, rewritten>>
  BY DEF Rename
<1> HIDE DEF r, e
<1> QED
  BY <1>1, <1>2, <1>3, ColumnKeeps

\* set_workspace.
LEMMA SetWorkspaceKeeps ==
    ASSUME SessInv, NEW c \in SessClient, NEW s \in SessId, NEW p \in Place \cup {Null},
           SetWorkspace(c, s, p)
    PROVE  SessInv'
<1> DEFINE r == [held[s] EXCEPT !.place = p]
           e == [onDisk[s] EXCEPT !.place = p]
<1>1. s \in DOMAIN held /\ held[s] \in SessRow /\ (s \in DOMAIN onDisk => onDisk[s] \in SessRow)
  BY DEF SetWorkspace, SessInv, SessTypes
<1>2. /\ r \in SessRow /\ r.pin = held[s].pin /\ (s \in DOMAIN onDisk => e \in SessRow)
      /\ (s \in DOMAIN onDisk /\ onDisk[s] = held[s] => e = r)
  BY <1>1, RowSets
<1>3. /\ held' = [held EXCEPT ![s] = r]
      /\ onDisk' = IF s \in DOMAIN onDisk THEN [onDisk EXCEPT ![s] = e] ELSE onDisk
      /\ AtOnce(c, s) /\ UNCHANGED <<heldMsgs, onDiskMsgs, defaultId, picked, rewritten>>
  BY DEF SetWorkspace
<1> HIDE DEF r, e
<1> QED
  BY <1>1, <1>2, <1>3, ColumnKeeps

\* clear and add_message: the messages of one session, in the map and in the
\* table.
LEMMA MessagesKeep ==
    ASSUME SessInv, NEW c \in SessClient, NEW s \in SessId, s \in DOMAIN held,
           NEW m \in [SessId -> Seq(Role)], NEW n \in [SessId -> Seq(Role)],
           s \notin rewritten' => m[s] = n[s] \/ s \in overlapped',
           \A x \in SessId \ {s} : m[x] = heldMsgs[x] /\ n[x] = onDiskMsgs[x],
           heldMsgs' = m, onDiskMsgs' = n, rewritten' \in {rewritten, rewritten \ {s}},
           AtOnce(c, s), UNCHANGED <<held, onDisk, defaultId, picked>>
    PROVE  SessInv'
<1>3. /\ held' = held /\ onDisk' = onDisk /\ defaultId' = defaultId
      /\ picked' = picked /\ request' = request /\ known' = known
      /\ Asks(c) /\ Touches(c, {s})
  BY DEF AtOnce
<1>4. /\ asked' \in 0..AskMax /\ restarts' \in 0..RestartMax
      /\ overlapped' \in SUBSET SessId
      /\ \A x \in SessId \ overlapped' : x \notin overlapped
      /\ \A x \in {s} \ overlapped' : Still(request, x) /\ Agrees(held, onDisk, x)
  BY <1>3, AskTouches
<1>5. SessTypes'
  BY <1>3, <1>4 DEF SessInv, SessTypes
<1>6. InUseKnown' /\ InsertsBare'
  BY <1>3 DEF SessInv, InUseKnown, InsertsBare
<1>7. PinIsLastPick' /\ DefaultIsHeld'
  BY <1>3 DEF SessInv, PinIsLastPick, DefaultIsHeld
<1>8. ASSUME NEW x \in SessId \ overlapped'
      PROVE  /\ RowsAt(held', onDisk', request', x)
             /\ MsgsAt(onDisk', heldMsgs', onDiskMsgs', rewritten', x)
  <2>1. /\ RowsAt(held, onDisk, request, x)
        /\ MsgsAt(onDisk, heldMsgs, onDiskMsgs, rewritten, x)
    BY <1>4, <1>8 DEF SessInv, OneByOne
  <2>3. CASE x = s
    <3>1. s \in DOMAIN onDisk
      BY <1>4, <1>8, <2>3 DEF Agrees
    <3> QED
      BY <1>3, <1>8, <2>1, <2>3, <3>1 DEF MsgsAt
  <2>4. CASE x # s
    BY <1>3, <2>1, <2>4 DEF MsgsAt
  <2> QED
    BY <2>3, <2>4
<1>9. OneByOne'
  BY <1>8 DEF OneByOne
<1> QED
  BY <1>5, <1>6, <1>7, <1>9 DEF SessInv

\* clear.
LEMMA ClearKeeps ==
    ASSUME SessInv, NEW c \in SessClient, NEW s \in SessId, ClearMessages(c, s)
    PROVE  SessInv'
<1> DEFINE m == [heldMsgs EXCEPT ![s] = <<>>]
           n == [onDiskMsgs EXCEPT ![s] = <<>>]
<1>1. heldMsgs \in [SessId -> Seq(Role)] /\ onDiskMsgs \in [SessId -> Seq(Role)]
  BY DEF SessInv, SessTypes
<1>2. /\ m \in [SessId -> Seq(Role)] /\ n \in [SessId -> Seq(Role)] /\ m[s] = n[s]
      /\ \A x \in SessId \ {s} : m[x] = heldMsgs[x] /\ n[x] = onDiskMsgs[x]
  BY <1>1
<1>3. /\ s \in DOMAIN held /\ heldMsgs' = m /\ onDiskMsgs' = n
      /\ rewritten' \in {rewritten, rewritten \ {s}}
      /\ AtOnce(c, s) /\ UNCHANGED <<held, onDisk, defaultId, picked>>
  BY DEF ClearMessages
<1> HIDE DEF m, n
<1> QED
  BY <1>2, <1>3, MessagesKeep

\* add_message.
LEMMA AddMessageKeeps ==
    ASSUME SessInv, NEW c \in SessClient, NEW s \in SessId, NEW role \in Role,
           AddMessage(c, s, role)
    PROVE  SessInv'
<1> DEFINE m == [heldMsgs EXCEPT ![s] = Append(@, role)]
           n == [onDiskMsgs EXCEPT ![s] = Append(@, role)]
<1>1. heldMsgs \in [SessId -> Seq(Role)] /\ onDiskMsgs \in [SessId -> Seq(Role)]
  BY DEF SessInv, SessTypes
<1>2. /\ m \in [SessId -> Seq(Role)] /\ n \in [SessId -> Seq(Role)]
      /\ (heldMsgs[s] = onDiskMsgs[s] => m[s] = n[s])
      /\ \A x \in SessId \ {s} : m[x] = heldMsgs[x] /\ n[x] = onDiskMsgs[x]
  BY <1>1
<1>3. /\ s \in DOMAIN held /\ heldMsgs' = m /\ onDiskMsgs' = n /\ rewritten' = rewritten
      /\ AtOnce(c, s) /\ UNCHANGED <<held, onDisk, defaultId, picked>>
  BY DEF AddMessage
<1> HIDE DEF m, n
<1>4. s \notin rewritten => heldMsgs[s] = onDiskMsgs[s] \/ s \in overlapped'
  <2>1. s \notin overlapped' => s \notin overlapped
    BY <1>3 DEF AtOnce, Touches
  <2> QED
    BY <2>1 DEF SessInv, OneByOne, MsgsAt
<1> QED
  BY <1>2, <1>3, <1>4, MessagesKeep

\* delete and delete_all: rows, messages and picked models go as one.
LEMMA GoneKeeps ==
    ASSUME SessInv, NEW c \in SessClient, NEW S \in SUBSET SessId, Gone(c, S),
           defaultId' = Null \/ defaultId' \in DOMAIN held'
    PROVE  SessInv'
<1>1. /\ DOMAIN held' = (DOMAIN held) \ S /\ \A x \in (DOMAIN held) \ S : held'[x] = held[x]
      /\ DOMAIN onDisk' = (DOMAIN onDisk) \ S
      /\ \A x \in (DOMAIN onDisk) \ S : onDisk'[x] = onDisk[x]
  BY DEF Gone, Restrict
<1>2. /\ heldMsgs' = [s \in SessId |-> IF s \in S THEN <<>> ELSE heldMsgs[s]]
      /\ onDiskMsgs' = [s \in SessId |-> IF s \in S THEN <<>> ELSE onDiskMsgs[s]]
      /\ picked' = [s \in SessId |-> IF s \in S THEN Null ELSE picked[s]]
      /\ rewritten' = rewritten \ S /\ request' = request /\ known' = known
      /\ Asks(c) /\ Touches(c, S)
  BY DEF Gone
<1>3. /\ asked' \in 0..AskMax /\ restarts' \in 0..RestartMax
      /\ overlapped' \in SUBSET SessId
      /\ \A x \in SessId \ overlapped' : x \notin overlapped
      /\ \A x \in S \ overlapped' : Still(request, x)
  BY <1>2, AskTouches
<1>4. <<>> \in Seq(Role)
  OBVIOUS
<1>5. SessTypes'
  <2>1. heldMsgs' \in [SessId -> Seq(Role)] /\ onDiskMsgs' \in [SessId -> Seq(Role)]
        /\ picked' \in [SessId -> Pin \cup {Null}]
    BY <1>2, <1>4 DEF SessInv, SessTypes
  <2>2. /\ DOMAIN held' \subseteq SessId /\ \A x \in DOMAIN held' : held'[x] \in SessRow
        /\ DOMAIN onDisk' \subseteq SessId /\ \A x \in DOMAIN onDisk' : onDisk'[x] \in SessRow
    BY <1>1 DEF SessInv, SessTypes
  <2>3. defaultId' \in SessId \cup {Null} /\ rewritten' \in SUBSET SessId
    BY <1>2, <2>2 DEF SessInv, SessTypes
  <2> QED
    BY <1>2, <1>3, <2>1, <2>2, <2>3 DEF SessInv, SessTypes
<1>6. InUseKnown' /\ InsertsBare'
  BY <1>1, <1>2 DEF SessInv, InUseKnown, InsertsBare
<1>7. PinIsLastPick' /\ DefaultIsHeld'
  <2>1. \A x \in DOMAIN held' : x \in SessId /\ x \notin S /\ held'[x] = held[x]
    BY <1>1 DEF SessInv, SessTypes
  <2> QED
    BY <1>1, <1>2, <2>1 DEF SessInv, PinIsLastPick, DefaultIsHeld
<1>8. ASSUME NEW x \in SessId \ overlapped'
      PROVE  /\ RowsAt(held', onDisk', request', x)
             /\ MsgsAt(onDisk', heldMsgs', onDiskMsgs', rewritten', x)
  <2>1. /\ RowsAt(held, onDisk, request, x)
        /\ MsgsAt(onDisk, heldMsgs, onDiskMsgs, rewritten, x)
    BY <1>3, <1>8 DEF SessInv, OneByOne
  <2>2. MsgsAt(onDisk', heldMsgs', onDiskMsgs', rewritten', x)
    BY <1>1, <1>2, <1>8, <2>1 DEF MsgsAt
  <2>3. CASE x \in S
    <3>1. Still(request', x)
      BY <1>2, <1>3, <1>8, <2>3
    <3>2. Agrees(held', onDisk', x)
      BY <1>1, <2>3 DEF Agrees
    <3> QED
      BY <2>2, <3>1, <3>2, AtRestAgrees
  <2>4. CASE x \notin S
    <3>1. /\ x \in DOMAIN held' <=> x \in DOMAIN held
          /\ x \in DOMAIN held => held'[x] = held[x]
          /\ x \in DOMAIN onDisk' <=> x \in DOMAIN onDisk
          /\ x \in DOMAIN onDisk => onDisk'[x] = onDisk[x]
      BY <1>1, <2>4
    <3>2. RowsAt(held', onDisk', request, x)
      BY <2>1, <3>1, RowsElsewhere
    <3> QED
      BY <1>2, <2>2, <3>2
  <2> QED
    BY <2>3, <2>4
<1>9. OneByOne'
  BY <1>8 DEF OneByOne
<1> QED
  BY <1>5, <1>6, <1>7, <1>9 DEF SessInv

\* delete.
LEMMA DeleteKeeps ==
    ASSUME SessInv, NEW c \in SessClient, NEW s \in SessId, DeleteSession(c, s)
    PROVE  SessInv'
<1>1. Gone(c, {s}) /\ DOMAIN held' = (DOMAIN held) \ {s}
  BY DEF DeleteSession, Gone, Restrict
<1>2. defaultId' = Null \/ defaultId' \in DOMAIN held'
  BY <1>1 DEF DeleteSession, SessInv, DefaultIsHeld
<1> QED
  BY <1>1, <1>2, GoneKeeps

\* delete_all.
LEMMA DeleteAllKeeps ==
    ASSUME SessInv, NEW c \in SessClient, DeleteAll(c)
    PROVE  SessInv'
<1>1. Gone(c, DOMAIN held) /\ defaultId' = Null
  BY DEF DeleteAll
<1>2. DOMAIN held \in SUBSET SessId
  BY DEF SessInv, SessTypes
<1> QED
  BY <1>1, <1>2, GoneKeeps

\* A request that changes a row of the map and has yet to persist it.
LEMMA CarryKeeps ==
    ASSUME SessInv, NEW c \in SessClient, NEW s \in SessId, NEW r \in SessRow,
           CarriesRow(c, s, r), s \in DOMAIN held \/ s \in known',
           s \in DOMAIN held => r.title = held[s].title /\ r.place = held[s].place,
           known' \in SUBSET SessId, known \subseteq known',
           picked' \in [SessId -> Pin \cup {Null}], picked'[s] = r.pin,
           \A x \in SessId \ {s} : picked'[x] = picked[x]
    PROVE  SessInv'
<1> DEFINE q == Carries(s, r, <<>>, <<"persist">>)
<1>0. Asks(c) /\ Touches(c, {s}) /\ held' = With(held, s, r)
      /\ request' = [request EXCEPT ![c] = q]
      /\ heldMsgs' = heldMsgs /\ onDisk' = onDisk /\ onDiskMsgs' = onDiskMsgs
      /\ defaultId' = defaultId /\ rewritten' = rewritten
  BY DEF CarriesRow
<1>1. /\ DOMAIN held' = (DOMAIN held) \cup {s} /\ held'[s] = r
      /\ \A x \in (DOMAIN held) \ {s} : held'[x] = held[x]
  BY <1>0 DEF With
<1>2. q \in Requests /\ q.todo = <<"persist">> /\ q.id = s /\ q.row = r
  <2>1. <<"persist">> \in Todos /\ <<>> \in Seq(Role)
    BY DEF Todos
  <2> QED
    BY <2>1 DEF Carries, Requests
<1> HIDE DEF q
<1>3. /\ request' \in [SessClient -> Requests] /\ request'[c] = q
      /\ \A d \in SessClient \ {c} : request'[d] = request[d]
  BY <1>0, <1>2 DEF SessInv, SessTypes
<1>4. /\ asked' \in 0..AskMax /\ restarts' \in 0..RestartMax
      /\ overlapped' \in SUBSET SessId
      /\ \A x \in SessId \ overlapped' : x \notin overlapped
      /\ \A x \in {s} \ overlapped' : Alone(request, c, x) /\ Agrees(held, onDisk, x)
  BY <1>0, AskTouches
<1>5. SessTypes'
  <2>1. DOMAIN held' \subseteq SessId /\ \A x \in DOMAIN held' : held'[x] \in SessRow
    BY <1>1 DEF SessInv, SessTypes
  <2> QED
    BY <1>0, <1>3, <1>4, <2>1 DEF SessInv, SessTypes
<1>6. InUseKnown' /\ InsertsBare'
  <2>1. s \in known'
    BY DEF SessInv, InUseKnown
  <2>2. InUseKnown'
    BY <1>0, <1>1, <1>2, <1>3, <2>1 DEF SessInv, InUseKnown
  <2>3. InsertsBare'
    BY <1>2, <1>3, TodoInserts DEF SessInv, InsertsBare
  <2> QED
    BY <2>2, <2>3
<1>7. PinIsLastPick' /\ DefaultIsHeld'
  <2>1. DOMAIN held \subseteq SessId
    BY DEF SessInv, SessTypes
  <2> QED
    BY <1>0, <1>1, <2>1 DEF SessInv, PinIsLastPick, DefaultIsHeld
<1>8. ASSUME NEW x \in SessId \ overlapped'
      PROVE  /\ RowsAt(held', onDisk', request', x)
             /\ MsgsAt(onDisk', heldMsgs', onDiskMsgs', rewritten', x)
  <2>1. /\ RowsAt(held, onDisk, request, x)
        /\ MsgsAt(onDisk, heldMsgs, onDiskMsgs, rewritten, x)
    BY <1>4, <1>8 DEF SessInv, OneByOne
  <2>2. MsgsAt(onDisk', heldMsgs', onDiskMsgs', rewritten', x)
    BY <1>0, <2>1
  <2>3. CASE x = s
    <3>0. <<"persist">> # <<>> /\ Head(<<"persist">>) = "persist"
      OBVIOUS
    <3>1. On(request', c, s)
      BY <1>2, <1>3, <3>0 DEF On
    <3>2. Alone(request', c, s) /\ Agrees(held, onDisk, s)
      BY <1>3, <1>4, <1>8, <2>3 DEF Alone, On
    <3>3. Fits(r, onDisk, s)
      BY <3>2 DEF Agrees, Fits
    <3>4. Halfway(request'[c], held', onDisk', s)
      BY <1>0, <1>1, <1>2, <1>3, <3>0, <3>3, TodoInserts DEF Halfway
    <3> QED
      BY <2>2, <2>3, <3>1, <3>2, <3>4, Underway
  <2>4. CASE x # s
    <3>1. /\ x \in DOMAIN held' <=> x \in DOMAIN held
          /\ x \in DOMAIN held => held'[x] = held[x]
      BY <1>1, <2>4
    <3>2. \A d \in SessClient : request'[d] = request[d]
                                \/ (~On(request, d, x) /\ ~On(request', d, x))
      BY <1>0, <1>2, <1>3, <2>4 DEF On, Asks
    <3>3. RowsAt(held', onDisk, request', x)
      BY <2>1, <3>1, <3>2, RowsElsewhere
    <3> QED
      BY <1>0, <2>2, <3>3
  <2> QED
    BY <2>3, <2>4
<1>9. OneByOne'
  BY <1>8 DEF OneByOne
<1> QED
  BY <1>5, <1>6, <1>7, <1>9 DEF SessInv

\* set_chat_model.
LEMMA SetModelKeeps ==
    ASSUME SessInv, NEW c \in SessClient, NEW s \in SessId, NEW p \in Pin \cup {Null},
           SetChatModel(c, s, p)
    PROVE  SessInv'
<1> DEFINE r == [held[s] EXCEPT !.pin = p]
<1>1. s \in DOMAIN held /\ held[s] \in SessRow
  BY DEF SetChatModel, SessInv, SessTypes
<1>2. r \in SessRow /\ r.pin = p /\ r.title = held[s].title /\ r.place = held[s].place
  BY <1>1, RowSets
<1>3. CarriesRow(c, s, r) /\ picked' = [picked EXCEPT ![s] = p] /\ known' = known
  BY DEF SetChatModel
<1>4. /\ picked' \in [SessId -> Pin \cup {Null}] /\ picked'[s] = p
      /\ \A x \in SessId \ {s} : picked'[x] = picked[x]
      /\ known' \in SUBSET SessId /\ known \subseteq known'
  BY <1>3 DEF SessInv, SessTypes
<1> HIDE DEF r
<1> QED
  BY <1>1, <1>2, <1>3, <1>4, CarryKeeps

\* set_chat_tools.
LEMMA SetToolsKeeps ==
    ASSUME SessInv, NEW c \in SessClient, NEW s \in SessId, NEW on \in BOOLEAN,
           SetChatTools(c, s, on)
    PROVE  SessInv'
<1> DEFINE r == [held[s] EXCEPT !.tools = on]
<1>1. s \in DOMAIN held /\ held[s] \in SessRow /\ picked[s] = held[s].pin
  BY DEF SetChatTools, SessInv, SessTypes, PinIsLastPick
<1>2. r \in SessRow /\ r.pin = picked[s] /\ r.title = held[s].title /\ r.place = held[s].place
  BY <1>1, RowSets
<1>3. CarriesRow(c, s, r) /\ picked' = picked /\ known' = known
  BY DEF SetChatTools
<1>4. /\ picked' \in [SessId -> Pin \cup {Null}]
      /\ known' \in SUBSET SessId /\ known \subseteq known'
  BY <1>3 DEF SessInv, SessTypes
<1> HIDE DEF r
<1> QED
  BY <1>1, <1>2, <1>3, <1>4, CarryKeeps

\* ensure_channel_session.
LEMMA EnsureKeeps ==
    ASSUME SessInv, NEW c \in SessClient, NEW t \in Title, NEW route \in ReplyTo,
           EnsureChannelSession(c, t, route)
    PROVE  SessInv'
<1> DEFINE e == NewRow(t, Null)
<1> DEFINE r == [e EXCEPT !.route = route]
<1>0. e \in SessRow /\ e.pin = Null
  BY BareRows
<1>1. r \in SessRow /\ r.pin = Null
  <2> HIDE DEF e
  <2> QED
    BY <1>0, RowSets
<1>2. /\ Channel \in SessId /\ Channel \notin DOMAIN held /\ CarriesRow(c, Channel, r)
      /\ picked' = [picked EXCEPT ![Channel] = Null] /\ known' = known \cup {Channel}
  BY SessionAssumption DEF EnsureChannelSession
<1>3. /\ picked' \in [SessId -> Pin \cup {Null}] /\ picked'[Channel] = Null
      /\ \A x \in SessId \ {Channel} : picked'[x] = picked[x]
      /\ known' \in SUBSET SessId /\ known \subseteq known' /\ Channel \in known'
  BY <1>2 DEF SessInv, SessTypes
<1> HIDE DEF r
<1> QED
  BY <1>1, <1>2, <1>3, CarryKeeps

\* ... and a new route for one that exists.
LEMMA RerouteKeeps ==
    ASSUME SessInv, NEW c \in SessClient, NEW route \in ReplyTo, RerouteChannel(c, route)
    PROVE  SessInv'
<1> DEFINE r == [held[Channel] EXCEPT !.route = route]
<1>1. /\ Channel \in SessId /\ Channel \in DOMAIN held /\ held[Channel] \in SessRow
      /\ picked[Channel] = held[Channel].pin
  BY SessionAssumption DEF RerouteChannel, SessInv, SessTypes, PinIsLastPick
<1>2. /\ r \in SessRow /\ r.pin = picked[Channel] /\ r.title = held[Channel].title
      /\ r.place = held[Channel].place
  BY <1>1, RowSets
<1>3. CarriesRow(c, Channel, r) /\ picked' = picked /\ known' = known
  BY DEF RerouteChannel
<1>4. /\ picked' \in [SessId -> Pin \cup {Null}]
      /\ known' \in SUBSET SessId /\ known \subseteq known'
  BY <1>3 DEF SessInv, SessTypes
<1> HIDE DEF r
<1> QED
  BY <1>1, <1>2, <1>3, <1>4, CarryKeeps

\* A request that has read: nothing of the store has moved.
LEMMA ReadKeeps ==
    ASSUME SessInv, NEW c \in SessClient, NEW q \in Requests, Reads(c, q), q.todo # <<>>,
           q.id \in known', q.id \in SessId, Inserts(q.todo) => q.row.pin = Null,
           known' \in SUBSET SessId, known \subseteq known',
           Alone(request', c, q.id) /\ Still(request, q.id) /\ Agrees(held, onDisk, q.id)
                => Halfway(q, held, onDisk, q.id)
    PROVE  SessInv'
<1>0. /\ Asks(c) /\ request' = [request EXCEPT ![c] = q]
      /\ held' = held /\ heldMsgs' = heldMsgs /\ onDisk' = onDisk /\ onDiskMsgs' = onDiskMsgs
      /\ defaultId' = defaultId /\ picked' = picked /\ overlapped' = overlapped
      /\ rewritten' = rewritten
  BY DEF Reads
<1>3. /\ request' \in [SessClient -> Requests] /\ request'[c] = q
      /\ \A d \in SessClient \ {c} : request'[d] = request[d]
  BY <1>0 DEF SessInv, SessTypes
<1>4. asked' \in 0..AskMax /\ restarts' \in 0..RestartMax
  BY <1>0, SessionAssumption DEF Asks, SessInv, SessTypes
<1>5. SessTypes'
  BY <1>0, <1>3, <1>4 DEF SessInv, SessTypes
<1>6. InUseKnown' /\ InsertsBare'
  <2>2. InUseKnown'
    BY <1>0, <1>3 DEF SessInv, InUseKnown
  <2>3. InsertsBare'
    BY <1>3 DEF SessInv, InsertsBare
  <2> QED
    BY <2>2, <2>3
<1>7. PinIsLastPick' /\ DefaultIsHeld'
  BY <1>0 DEF SessInv, PinIsLastPick, DefaultIsHeld
<1>8. ASSUME NEW x \in SessId \ overlapped'
      PROVE  /\ RowsAt(held', onDisk', request', x)
             /\ MsgsAt(onDisk', heldMsgs', onDiskMsgs', rewritten', x)
  <2>1. /\ RowsAt(held, onDisk, request, x)
        /\ MsgsAt(onDisk, heldMsgs, onDiskMsgs, rewritten, x)
    BY <1>0, <1>8 DEF SessInv, OneByOne
  <2>2. MsgsAt(onDisk', heldMsgs', onDiskMsgs', rewritten', x)
    BY <1>0, <2>1
  <2>0. request[c].todo = <<>>
    BY <1>0 DEF Asks
  <2>3. CASE x = q.id
    <3>1. On(request', c, x)
      BY <1>3, <2>3 DEF On
    <3>2. CASE Alone(request', c, x)
      <4>1. Still(request, x)
        BY <1>3, <2>0, <3>2 DEF Still, Alone, On
      <4>2. Agrees(held, onDisk, x)
        BY <2>1, <4>1 DEF RowsAt
      <4>3. Halfway(request'[c], held', onDisk', x)
        BY <1>0, <1>3, <2>3, <3>2, <4>1, <4>2
      <4> QED
        BY <2>2, <3>1, <3>2, <4>3, Underway
    <3>3. CASE ~Alone(request', c, x)
      <4>1. ~Still(request', x)
        BY <3>1 DEF Still
      <4>2. \A d \in SessClient : ~Alone(request', d, x)
        BY <3>1, <3>3 DEF Alone
      <4> QED
        BY <2>2, <4>1, <4>2 DEF RowsAt
    <3> QED
      BY <3>2, <3>3
  <2>4. CASE x # q.id
    <3>2. \A d \in SessClient : request'[d] = request[d]
                                \/ (~On(request, d, x) /\ ~On(request', d, x))
      BY <1>3, <2>0, <2>4 DEF On
    <3>3. RowsAt(held, onDisk, request', x)
      BY <2>1, <3>2, RowsElsewhere
    <3> QED
      BY <1>0, <2>2, <3>3
  <2> QED
    BY <2>3, <2>4
<1>9. OneByOne'
  BY <1>8 DEF OneByOne
<1> QED
  BY <1>5, <1>6, <1>7, <1>9 DEF SessInv

\* An id that is not known is nowhere in use.
LEMMA FreshIsFree ==
    ASSUME SessInv, NEW s \in FreshId
    PROVE  /\ s \in SessId /\ s \notin DOMAIN held /\ s \notin DOMAIN onDisk
           /\ known \cup {s} \in SUBSET SessId
  BY DEF FreshId, SessInv, InUseKnown, SessTypes

\* create_in_workspace: the id is new, the row is in neither place.
LEMMA CreateKeeps ==
    ASSUME SessInv, NEW c \in SessClient, NEW t \in Title \cup {Null}, NEW p \in Place \cup {Null},
           CreateSession(c, t, p)
    PROVE  SessInv'
<1>1. PICK s \in FreshId : /\ Reads(c, Carries(s, NewRow(t, p), <<>>, <<"persist", "insert">>))
                           /\ known' = known \cup {s}
  BY DEF CreateSession
<1> DEFINE q == Carries(s, NewRow(t, p), <<>>, <<"persist", "insert">>)
<1>2. /\ q \in Requests /\ q.todo = <<"persist", "insert">> /\ q.id = s /\ q.row.pin = Null
  <2>1. <<"persist", "insert">> \in Todos /\ <<>> \in Seq(Role)
    BY DEF Todos
  <2>2. NewRow(t, p) \in SessRow /\ NewRow(t, p).pin = Null
    BY BareRows
  <2>3. s \in SessId
    BY FreshIsFree
  <2> QED
    BY <2>1, <2>2, <2>3 DEF Carries, Requests
<1>3. Reads(c, q)
  BY <1>1
<1> HIDE DEF q
<1>4. /\ <<"persist", "insert">> # <<>> /\ Head(<<"persist", "insert">>) = "persist"
  OBVIOUS
<1>5. Halfway(q, held, onDisk, s)
  BY <1>2, <1>4, FreshIsFree, TodoInserts DEF Halfway
<1>6. s \in SessId /\ s \in known' /\ known' \in SUBSET SessId /\ known \subseteq known'
  BY <1>1, FreshIsFree
<1> QED
  BY <1>2, <1>3, <1>4, <1>5, <1>6, ReadKeeps

\* fork_session.
LEMMA ForkKeeps ==
    ASSUME SessInv, NEW c \in SessClient, NEW s \in SessId, Fork(c, s)
    PROVE  SessInv'
<1> DEFINE w == <<"persist", "insert", "update", "persist">>
<1>1. PICK n \in FreshId, t \in Title \cup ({held[s].title} \cap {Null}) :
        Reads(c, Carries(n, NewRow(t, Null), heldMsgs[s], w)) /\ known' = known \cup {n}
  BY DEF Fork
<1> DEFINE q == Carries(n, NewRow(t, Null), heldMsgs[s], w)
<1>4. w \in Todos /\ w # <<>> /\ Head(w) = "persist" /\ Inserts(w)
  BY TodoInserts DEF Todos
<1> HIDE DEF w
<1>2. q \in Requests /\ q.todo = w /\ q.id = n /\ q.row.pin = Null
  <2>1. heldMsgs[s] \in Seq(Role)
    BY DEF SessInv, SessTypes
  <2>2. NewRow(t, Null) \in SessRow /\ NewRow(t, Null).pin = Null
    BY BareRows
  <2>3. n \in SessId
    BY FreshIsFree
  <2> QED
    BY <1>4, <2>1, <2>2, <2>3 DEF Carries, Requests
<1>3. Reads(c, q)
  BY <1>1
<1> HIDE DEF q
<1>5. Halfway(q, held, onDisk, n)
  BY <1>2, <1>4, FreshIsFree DEF Halfway
<1>6. n \in SessId /\ n \in known' /\ known' \in SUBSET SessId /\ known \subseteq known'
  BY <1>1, FreshIsFree
<1> QED
  BY <1>2, <1>3, <1>4, <1>5, <1>6, ReadKeeps

\* take_last_user_turn cuts a prefix.
LEMMA CutIsPrefix ==
    ASSUME NEW m \in Seq(Role), Contains(m, "user")
    PROVE  BeforeLastTurn(m) \in Seq(Role)
<1> DEFINE users == {i \in 1..Len(m) : m[i] = "user"}
           S == {Len(m) - i : i \in users}
<1>1. Len(m) \in Nat /\ DOMAIN m = 1..Len(m)
  OBVIOUS
<1>2. users # {}
  BY <1>1 DEF Contains
<1>3. S \in SUBSET Nat /\ S # {}
  BY <1>1, <1>2
<1>4. PICK k \in S : \A j \in S : k <= j
  <2> HIDE DEF S
  <2> QED
    BY <1>3, LeastNatural
<1>5. PICK i \in users : k = Len(m) - i
  BY <1>4
<1>6. \A j \in users : j <= i
  <2> SUFFICES ASSUME NEW j \in users PROVE j <= i
    OBVIOUS
  <2>1. k <= Len(m) - j
    BY <1>4
  <2> QED
    BY <1>1, <1>5, <2>1
<1>7. Max(users) \in users
  <2>1. \A j \in users : i >= j
    BY <1>1, <1>6
  <2> HIDE DEF users
  <2> QED
    BY <1>5, <2>1 DEF Max
<1>8. Max(users) - 1 \in Nat /\ Max(users) - 1 <= Len(m)
  BY <1>1, <1>7
<1> HIDE DEF users
<1>9. \A n \in Nat : n <= Len(m) => SubSeq(m, 1, n) \in Seq(Role)
  OBVIOUS
<1>10. SubSeq(m, 1, Max(users) - 1) \in Seq(Role)
  BY <1>8, <1>9
<1> QED
  BY <1>10 DEF BeforeLastTurn, users

\* ChatAction::Regenerate: what it read is what the map and the table hold as
\* long as no other request is on the session.
LEMMA RegenerateKeeps ==
    ASSUME SessInv, NEW c \in SessClient, NEW s \in SessId, Regenerate(c, s)
    PROVE  SessInv'
<1> DEFINE w == <<"update", "persist", "send">>
           q == Carries(s, held[s], BeforeLastTurn(heldMsgs[s]), w)
<1>1. s \in DOMAIN held /\ Contains(heldMsgs[s], "user") /\ Reads(c, q) /\ known' = known
  BY DEF Regenerate
<1>4. w \in Todos /\ w # <<>> /\ Head(w) = "update" /\ ~Inserts(w)
  BY TodoInserts DEF Todos
<1> HIDE DEF w
<1>2. q \in Requests /\ q.todo = w /\ q.id = s /\ q.row = held[s]
  <2>1. heldMsgs[s] \in Seq(Role) /\ held[s] \in SessRow
    BY <1>1 DEF SessInv, SessTypes
  <2>2. BeforeLastTurn(heldMsgs[s]) \in Seq(Role)
    BY <1>1, <2>1, CutIsPrefix
  <2> QED
    BY <1>4, <2>1, <2>2 DEF Carries, Requests
<1> HIDE DEF q
<1>5. Agrees(held, onDisk, s) => Halfway(q, held, onDisk, s)
  BY <1>1, <1>2, <1>4 DEF Halfway, Agrees
<1>6. s \in known' /\ known' \in SUBSET SessId /\ known \subseteq known'
  BY <1>1 DEF SessInv, InUseKnown, SessTypes
<1> QED
  BY <1>1, <1>2, <1>4, <1>5, <1>6, ReadKeeps

\* A stage of a request: what it finds of its own session, and what becomes of
\* the requests.
LEMMA StageFinds ==
    ASSUME SessInv, NEW c \in SessClient, NEW r \in SessRow, request[c].todo # <<>>,
           NextStage(c, r), Touches(c, {request[c].id}), UNCHANGED <<known, asked, restarts>>,
           Inserts(Tail(request[c].todo)) => r.pin = Null
    PROVE  /\ request' \in [SessClient -> Requests] /\ overlapped' \in SUBSET SessId
           /\ \A d \in SessClient : request'[d].todo # <<>> => request'[d].id \in known
           /\ InsertsBare'
           /\ \A x \in SessId \ overlapped' : x \notin overlapped
           /\ \A x \in SessId \ {request[c].id}, d \in SessClient :
                request'[d] = request[d] \/ (~On(request, d, x) /\ ~On(request', d, x))
           /\ request[c].id \notin overlapped' =>
                /\ Halfway(request[c], held, onDisk, request[c].id)
                /\ Len(request[c].todo) = 1 => Still(request', request[c].id)
                /\ Len(request[c].todo) # 1 =>
                      /\ On(request', c, request[c].id) /\ Alone(request', c, request[c].id)
                      /\ request'[c].todo = Tail(request[c].todo) /\ request'[c].row = r
<1> DEFINE s == request[c].id
           p == request[c].todo
<1>1. /\ p \in Todos /\ s \in SessId /\ s \in known
  BY RequestKnown
<1>2. /\ request' \in [SessClient -> Requests]
      /\ \A d \in SessClient \ {c} : request'[d] = request[d]
      /\ Len(p) = 1 => request'[c].todo = <<>>
      /\ Len(p) # 1 => /\ request'[c].todo = Tail(p) /\ request'[c].row = r
                       /\ request'[c].id = s
  <2>1. request \in [SessClient -> Requests]
    BY DEF SessInv, SessTypes
  <2> QED
    BY <2>1, StageMoves
<1>3. (Len(p) # 1 => Tail(p) # <<>>) /\ (Inserts(Tail(p)) => Inserts(p))
  BY <1>1, StagesOf
<1>4. overlapped' = overlapped \cup {x \in {s} : \E d \in SessClient \ {c} : On(request, d, x)}
  BY DEF Touches, InFlightOn, On
<1>5. overlapped' \in SUBSET SessId
  BY <1>1, <1>4 DEF SessInv, SessTypes
<1>6. \A d \in SessClient : request'[d].todo # <<>> => request'[d].id \in known
  BY <1>1, <1>2 DEF SessInv, InUseKnown
<1>7. InsertsBare'
  BY <1>2, <1>3, TodoInserts DEF SessInv, InsertsBare
<1>8. \A x \in SessId \ {s}, d \in SessClient :
        request'[d] = request[d] \/ (~On(request, d, x) /\ ~On(request', d, x))
  BY <1>2 DEF On
<1>9. ASSUME s \notin overlapped'
      PROVE  /\ Halfway(request[c], held, onDisk, s)
             /\ Len(p) = 1 => Still(request', s)
             /\ Len(p) # 1 => On(request', c, s) /\ Alone(request', c, s)
  <2>1. s \notin overlapped /\ Alone(request, c, s)
    BY <1>4, <1>9, Lonely
  <2>2. On(request, c, s)
    BY DEF On
  <2>3. RowsAt(held, onDisk, request, s)
    BY <1>1, <2>1 DEF SessInv, OneByOne
  <2>4. Alone(request', c, s)
    BY <1>2, <2>1 DEF Alone, On
  <2>5. Len(p) = 1 => ~On(request', c, s)
    BY <1>2 DEF On
  <2>6. Len(p) # 1 => On(request', c, s)
    BY <1>2, <1>3 DEF On
  <2> QED
    BY <2>1, <2>2, <2>3, <2>4, <2>5, <2>6 DEF RowsAt, Still, Alone
<1> QED
  BY <1>2, <1>4, <1>5, <1>6, <1>7, <1>8, <1>9

\* persist_row of a row nobody else has touched writes it as it is.
LEMMA UpsertWrites ==
    ASSUME NEW s, NEW r \in SessRow, \A x \in DOMAIN onDisk : onDisk[x] \in SessRow
    PROVE  /\ DOMAIN Upsert(s, r) = (DOMAIN onDisk) \cup {s} /\ Upsert(s, r)[s] \in SessRow
           /\ \A x \in (DOMAIN onDisk) \ {s} : Upsert(s, r)[x] = onDisk[x]
           /\ Fits(r, onDisk, s) => Upsert(s, r)[s] = r
<1> DEFINE kept == [r EXCEPT !.title = IF @ = Null THEN onDisk[s].title ELSE @,
                             !.place = IF @ = Null THEN onDisk[s].place ELSE @]
           e == IF s \in DOMAIN onDisk THEN kept ELSE r
<1>1. Upsert(s, r) = With(onDisk, s, e)
  BY DEF Upsert
<1>2. s \in DOMAIN onDisk => kept \in SessRow
  BY DEF SessRow
<1>3. s \in DOMAIN onDisk /\ Fits(r, onDisk, s) => kept = r
  <2> SUFFICES ASSUME s \in DOMAIN onDisk, Fits(r, onDisk, s) PROVE kept = r
    OBVIOUS
  <2>1. (IF r.title = Null THEN onDisk[s].title ELSE r.title) = r.title
        /\ (IF r.place = Null THEN onDisk[s].place ELSE r.place) = r.place
    BY DEF Fits
  <2>2. kept = [r EXCEPT !.title = r.title, !.place = r.place]
    BY <2>1
  <2>3. [r EXCEPT !.title = r.title, !.place = r.place] = r
    BY DEF SessRow
  <2> QED
    BY <2>2, <2>3
<1>4. e \in SessRow /\ (Fits(r, onDisk, s) => e = r)
  BY <1>2, <1>3
<1> HIDE DEF e
<1> QED
  BY <1>1, <1>4 DEF With

\* persist_row.
LEMMA PersistKeeps ==
    ASSUME SessInv, NEW c \in SessClient, Persist(c)
    PROVE  SessInv'
<1> DEFINE s == request[c].id
           p == request[c].todo
           r == request[c].row
<1>1. /\ p # <<>> /\ Head(p) = "persist" /\ onDisk' = Upsert(s, r)
      /\ NextStage(c, r) /\ Touches(c, {s})
      /\ held' = held /\ heldMsgs' = heldMsgs /\ onDiskMsgs' = onDiskMsgs
      /\ defaultId' = defaultId /\ picked' = picked /\ rewritten' = rewritten
      /\ known' = known /\ asked' = asked /\ restarts' = restarts
  BY DEF Persist, Due
<1>2. /\ p \in Todos /\ r \in SessRow /\ s \in known /\ s \in SessId
  BY <1>1, RequestKnown
<1>3. Inserts(Tail(p)) => r.pin = Null
  BY <1>1, <1>2, StagesOf DEF SessInv, InsertsBare
<1>4. /\ DOMAIN onDisk' = (DOMAIN onDisk) \cup {s} /\ onDisk'[s] \in SessRow
      /\ \A x \in (DOMAIN onDisk) \ {s} : onDisk'[x] = onDisk[x]
      /\ Fits(r, onDisk, s) => onDisk'[s] = r
  <2>1. \A x \in DOMAIN onDisk : onDisk[x] \in SessRow
    BY DEF SessInv, SessTypes
  <2> HIDE DEF s, r
  <2> QED
    BY <1>1, <1>2, <2>1, UpsertWrites
<1>5. /\ request' \in [SessClient -> Requests] /\ overlapped' \in SUBSET SessId
      /\ \A d \in SessClient : request'[d].todo # <<>> => request'[d].id \in known
      /\ InsertsBare'
      /\ \A x \in SessId \ overlapped' : x \notin overlapped
      /\ \A x \in SessId \ {s}, d \in SessClient :
           request'[d] = request[d] \/ (~On(request, d, x) /\ ~On(request', d, x))
      /\ s \notin overlapped' =>
           /\ Halfway(request[c], held, onDisk, s)
           /\ Len(p) = 1 => Still(request', s)
           /\ Len(p) # 1 => /\ On(request', c, s) /\ Alone(request', c, s)
                            /\ request'[c].todo = Tail(p) /\ request'[c].row = r
  BY <1>1, <1>2, <1>3, StageFinds
<1>6. SessTypes'
  <2>1. DOMAIN onDisk' \subseteq SessId /\ \A x \in DOMAIN onDisk' : onDisk'[x] \in SessRow
    BY <1>2, <1>4 DEF SessInv, SessTypes
  <2> HIDE DEF s, p, r
  <2> QED
    BY <1>1, <1>5, <2>1 DEF SessInv, SessTypes
<1>7. InUseKnown'
  BY <1>1, <1>2, <1>4, <1>5 DEF SessInv, InUseKnown
<1>8. PinIsLastPick' /\ DefaultIsHeld'
  BY <1>1 DEF SessInv, PinIsLastPick, DefaultIsHeld
<1>9. ASSUME NEW x \in SessId \ overlapped'
      PROVE  /\ RowsAt(held', onDisk', request', x)
             /\ MsgsAt(onDisk', heldMsgs', onDiskMsgs', rewritten', x)
  <2>1. /\ RowsAt(held, onDisk, request, x)
        /\ MsgsAt(onDisk, heldMsgs, onDiskMsgs, rewritten, x)
    BY <1>5, <1>9 DEF SessInv, OneByOne
  <2>2. MsgsAt(onDisk', heldMsgs', onDiskMsgs', rewritten', x)
    BY <1>1, <1>4, <2>1 DEF MsgsAt
  <2>3. CASE x = s
    <3>1. /\ Halfway(request[c], held, onDisk, s)
          /\ Len(p) = 1 => Still(request', s)
          /\ Len(p) # 1 => /\ On(request', c, s) /\ Alone(request', c, s)
                           /\ request'[c].todo = Tail(p) /\ request'[c].row = r
      BY <1>5, <1>9, <2>3
    <3>2. CASE Inserts(p)
      <4>1. s \notin DOMAIN held /\ s \notin DOMAIN onDisk
        BY <1>1, <3>1, <3>2 DEF Halfway
      <4>2. s \in DOMAIN onDisk' /\ onDisk'[s] = r
        BY <1>4, <4>1 DEF Fits
      <4>3. Len(p) # 1 /\ Head(Tail(p)) = "insert"
        BY <1>1, <1>2, <3>2, StagesOf
      <4>4. Halfway(request'[c], held', onDisk', s)
        BY <1>1, <3>1, <4>1, <4>2, <4>3 DEF Halfway
      <4> QED
        BY <2>2, <2>3, <3>1, <4>3, <4>4, Underway
    <3>3. CASE ~Inserts(p)
      <4>1. s \in DOMAIN held /\ held[s] = r /\ onDisk'[s] = r /\ s \in DOMAIN onDisk'
        BY <1>1, <1>4, <3>1, <3>3 DEF Halfway
      <4>2. Agrees(held', onDisk', s)
        BY <1>1, <4>1 DEF Agrees
      <4>3. CASE Len(p) = 1
        BY <2>2, <2>3, <3>1, <4>2, <4>3, AtRestAgrees
      <4>4. CASE Len(p) # 1
        <5>1. Head(Tail(p)) = "send"
          BY <1>1, <1>2, <3>3, <4>4, StagesOf
        <5>2. Halfway(request'[c], held', onDisk', s)
          BY <3>1, <4>2, <4>4, <5>1 DEF Halfway
        <5> QED
          BY <2>2, <2>3, <3>1, <4>4, <5>2, Underway
      <4> QED
        BY <4>3, <4>4
    <3> QED
      BY <3>2, <3>3
  <2>4. CASE x # s
    <3>1. /\ x \in DOMAIN onDisk' <=> x \in DOMAIN onDisk
          /\ x \in DOMAIN onDisk => onDisk'[x] = onDisk[x]
      BY <1>4, <2>4
    <3>2. \A d \in SessClient : request'[d] = request[d]
                                \/ (~On(request, d, x) /\ ~On(request', d, x))
      BY <1>5, <2>4
    <3>3. RowsAt(held, onDisk', request', x)
      BY <2>1, <3>1, <3>2, RowsElsewhere
    <3> QED
      BY <1>1, <2>2, <3>3
  <2> QED
    BY <2>3, <2>4
<1>10. OneByOne'
  BY <1>9 DEF OneByOne
<1> QED
  BY <1>5, <1>6, <1>7, <1>8, <1>10 DEF SessInv

\* The second half of create_in_workspace.
LEMMA InsertKeeps ==
    ASSUME SessInv, NEW c \in SessClient, InsertSession(c)
    PROVE  SessInv'
<1> DEFINE s == request[c].id
           p == request[c].todo
           r == request[c].row
<1>1. /\ p # <<>> /\ Head(p) = "insert" /\ held' = With(held, s, r)
      /\ NextStage(c, r) /\ Touches(c, {s})
      /\ defaultId' = IF defaultId = Null THEN s ELSE defaultId
      /\ picked' = [picked EXCEPT ![s] = Null]
      /\ onDisk' = onDisk /\ heldMsgs' = heldMsgs /\ onDiskMsgs' = onDiskMsgs
      /\ rewritten' = rewritten /\ known' = known /\ asked' = asked /\ restarts' = restarts
  BY DEF InsertSession, Due
<1>2. /\ p \in Todos /\ r \in SessRow /\ s \in known /\ s \in SessId
  BY <1>1, RequestKnown
<1>3. /\ Inserts(Tail(p)) => r.pin = Null
      /\ r.pin = Null
  BY <1>1, <1>2, StagesOf DEF SessInv, InsertsBare
<1>4. /\ DOMAIN held' = (DOMAIN held) \cup {s} /\ held'[s] = r
      /\ \A x \in (DOMAIN held) \ {s} : held'[x] = held[x]
  BY <1>1 DEF With
<1>5. /\ request' \in [SessClient -> Requests] /\ overlapped' \in SUBSET SessId
      /\ \A d \in SessClient : request'[d].todo # <<>> => request'[d].id \in known
      /\ InsertsBare'
      /\ \A x \in SessId \ overlapped' : x \notin overlapped
      /\ \A x \in SessId \ {s}, d \in SessClient :
           request'[d] = request[d] \/ (~On(request, d, x) /\ ~On(request', d, x))
      /\ s \notin overlapped' =>
           /\ Halfway(request[c], held, onDisk, s)
           /\ Len(p) = 1 => Still(request', s)
           /\ Len(p) # 1 => /\ On(request', c, s) /\ Alone(request', c, s)
                            /\ request'[c].todo = Tail(p) /\ request'[c].row = r
  BY <1>1, <1>2, <1>3, StageFinds
<1>6. SessTypes'
  <2>1. DOMAIN held' \subseteq SessId /\ \A x \in DOMAIN held' : held'[x] \in SessRow
    BY <1>2, <1>4 DEF SessInv, SessTypes
  <2>2. picked' \in [SessId -> Pin \cup {Null}] /\ defaultId' \in SessId \cup {Null}
    BY <1>1, <1>2 DEF SessInv, SessTypes
  <2> HIDE DEF s, p, r
  <2> QED
    BY <1>1, <1>5, <2>1, <2>2 DEF SessInv, SessTypes
<1>7. InUseKnown'
  BY <1>1, <1>2, <1>4, <1>5 DEF SessInv, InUseKnown
<1>8. PinIsLastPick' /\ DefaultIsHeld'
  <2>1. \A x \in SessId : picked'[x] = IF x = s THEN Null ELSE picked[x]
    BY <1>1 DEF SessInv, SessTypes
  <2>2. DOMAIN held \subseteq SessId
    BY DEF SessInv, SessTypes
  <2>3. PinIsLastPick'
    BY <1>2, <1>3, <1>4, <2>1, <2>2 DEF SessInv, PinIsLastPick
  <2>4. DefaultIsHeld'
    BY <1>1, <1>4 DEF SessInv, DefaultIsHeld
  <2> QED
    BY <2>3, <2>4
<1>9. ASSUME NEW x \in SessId \ overlapped'
      PROVE  /\ RowsAt(held', onDisk', request', x)
             /\ MsgsAt(onDisk', heldMsgs', onDiskMsgs', rewritten', x)
  <2>1. /\ RowsAt(held, onDisk, request, x)
        /\ MsgsAt(onDisk, heldMsgs, onDiskMsgs, rewritten, x)
    BY <1>5, <1>9 DEF SessInv, OneByOne
  <2>2. MsgsAt(onDisk', heldMsgs', onDiskMsgs', rewritten', x)
    BY <1>1, <2>1
  <2>3. CASE x = s
    <3>1. /\ Halfway(request[c], held, onDisk, s)
          /\ Len(p) = 1 => Still(request', s)
          /\ Len(p) # 1 => /\ On(request', c, s) /\ Alone(request', c, s)
                           /\ request'[c].todo = Tail(p) /\ request'[c].row = r
      BY <1>5, <1>9, <2>3
    <3>2. s \in DOMAIN onDisk /\ onDisk[s] = r
      BY <1>1, <3>1 DEF Halfway
    <3>3. CASE Len(p) = 1
      <4>1. Agrees(held', onDisk', s)
        BY <1>1, <1>4, <3>2 DEF Agrees
      <4> QED
        BY <2>2, <2>3, <3>1, <3>3, <4>1, AtRestAgrees
    <3>4. CASE Len(p) # 1
      <4>1. Head(Tail(p)) = "update"
        BY <1>1, <1>2, <3>4, StagesOf
      <4>2. Halfway(request'[c], held', onDisk', s)
        BY <1>1, <1>4, <3>1, <3>2, <3>4, <4>1 DEF Halfway
      <4> QED
        BY <2>2, <2>3, <3>1, <3>4, <4>2, Underway
    <3> QED
      BY <3>3, <3>4
  <2>4. CASE x # s
    <3>1. /\ x \in DOMAIN held' <=> x \in DOMAIN held
          /\ x \in DOMAIN held => held'[x] = held[x]
      BY <1>4, <2>4
    <3>2. \A d \in SessClient : request'[d] = request[d]
                                \/ (~On(request, d, x) /\ ~On(request', d, x))
      BY <1>5, <2>4
    <3>3. RowsAt(held', onDisk, request', x)
      BY <2>1, <3>1, <3>2, RowsElsewhere
    <3> QED
      BY <1>1, <2>2, <3>3
  <2> QED
    BY <2>3, <2>4
<1>10. OneByOne'
  BY <1>9 DEF OneByOne
<1> QED
  BY <1>5, <1>6, <1>7, <1>8, <1>10 DEF SessInv

\* update: the pin in the map outlives the copy.
LEMMA UpdateKeeps ==
    ASSUME SessInv, NEW c \in SessClient, UpdateSession(c)
    PROVE  SessInv'
<1> DEFINE s == request[c].id
           p == request[c].todo
           r == Reconciled(request[c].row, s)
<1>1. /\ p # <<>> /\ Head(p) = "update" /\ held' = With(held, s, r)
      /\ NextStage(c, r) /\ Touches(c, {s})
      /\ heldMsgs' = [heldMsgs EXCEPT ![s] = request[c].msgs]
      /\ rewritten' = IF heldMsgs[s] = request[c].msgs THEN rewritten ELSE rewritten \cup {s}
      /\ picked' = IF s \in DOMAIN held THEN picked ELSE [picked EXCEPT ![s] = r.pin]
      /\ onDisk' = onDisk /\ onDiskMsgs' = onDiskMsgs /\ defaultId' = defaultId
      /\ known' = known /\ asked' = asked /\ restarts' = restarts
  BY DEF UpdateSession, Due
<1>2. /\ p \in Todos /\ s \in known /\ s \in SessId /\ request[c].row \in SessRow
      /\ request[c].msgs \in Seq(Role)
  BY <1>1, RequestKnown
<1>11. /\ r \in SessRow
       /\ s \in DOMAIN held => r.pin = held[s].pin
       /\ s \in DOMAIN held /\ held[s] = request[c].row => r = held[s]
  <2>1. s \in DOMAIN held => held[s] \in SessRow /\ held[s].pin \in Pin \cup {Null}
    BY DEF SessInv, SessTypes, SessRow
  <2>2. CASE s \in DOMAIN held
    <3>1. r = [request[c].row EXCEPT !.pin = held[s].pin]
      BY <2>2 DEF Reconciled
    <3>2. ASSUME NEW t \in Pin \cup {Null}
          PROVE  /\ [request[c].row EXCEPT !.pin = t] \in SessRow
                 /\ [request[c].row EXCEPT !.pin = t].pin = t
                 /\ t = request[c].row.pin => [request[c].row EXCEPT !.pin = t] = request[c].row
      BY <1>2, RowSets
    <3>4. r \in SessRow /\ r.pin = held[s].pin
      BY <2>1, <2>2, <3>1, <3>2
    <3>3. held[s] = request[c].row => r = request[c].row
      BY <2>1, <2>2, <3>1, <3>2
    <3> HIDE DEF r, s
    <3> QED
      BY <2>2, <3>3, <3>4
  <2>3. CASE s \notin DOMAIN held
    BY <1>2, <2>3 DEF Reconciled
  <2> QED
    BY <2>2, <2>3
<1> HIDE DEF r
<1>3. Inserts(Tail(p)) => r.pin = Null
  BY <1>1, <1>2, StagesOf
<1>4. /\ DOMAIN held' = (DOMAIN held) \cup {s} /\ held'[s] = r
      /\ \A x \in (DOMAIN held) \ {s} : held'[x] = held[x]
  BY <1>1 DEF With
<1>5. /\ request' \in [SessClient -> Requests] /\ overlapped' \in SUBSET SessId
      /\ \A d \in SessClient : request'[d].todo # <<>> => request'[d].id \in known
      /\ InsertsBare'
      /\ \A x \in SessId \ overlapped' : x \notin overlapped
      /\ \A x \in SessId \ {s}, d \in SessClient :
           request'[d] = request[d] \/ (~On(request, d, x) /\ ~On(request', d, x))
      /\ s \notin overlapped' =>
           /\ Halfway(request[c], held, onDisk, s)
           /\ Len(p) = 1 => Still(request', s)
           /\ Len(p) # 1 => /\ On(request', c, s) /\ Alone(request', c, s)
                            /\ request'[c].todo = Tail(p) /\ request'[c].row = r
  BY <1>1, <1>2, <1>11, <1>3, StageFinds
<1>6. SessTypes'
  <2>1. DOMAIN held' \subseteq SessId /\ \A x \in DOMAIN held' : held'[x] \in SessRow
    BY <1>2, <1>11, <1>4 DEF SessInv, SessTypes
  <2>2. picked' \in [SessId -> Pin \cup {Null}]
    BY <1>1, <1>11 DEF SessInv, SessTypes, SessRow
  <2>3. heldMsgs' \in [SessId -> Seq(Role)] /\ rewritten' \in SUBSET SessId
    BY <1>1, <1>2 DEF SessInv, SessTypes
  <2> HIDE DEF s, p, r
  <2> QED
    BY <1>1, <1>5, <2>1, <2>2, <2>3 DEF SessInv, SessTypes
<1>7. InUseKnown'
  BY <1>1, <1>2, <1>4, <1>5 DEF SessInv, InUseKnown
<1>8. PinIsLastPick' /\ DefaultIsHeld'
  <2>1. picked'[s] = r.pin
    <3>1. s \in DOMAIN held => picked[s] = held[s].pin
      BY DEF SessInv, PinIsLastPick
    <3> QED
      BY <1>1, <1>2, <1>11, <3>1 DEF SessInv, SessTypes
  <2>2. \A x \in SessId \ {s} : picked'[x] = picked[x]
    BY <1>1 DEF SessInv, SessTypes
  <2>3. DOMAIN held \subseteq SessId
    BY DEF SessInv, SessTypes
  <2>4. PinIsLastPick'
    BY <1>4, <2>1, <2>2, <2>3 DEF SessInv, PinIsLastPick
  <2>5. DefaultIsHeld'
    BY <1>1, <1>4 DEF SessInv, DefaultIsHeld
  <2> QED
    BY <2>4, <2>5
<1>9. ASSUME NEW x \in SessId \ overlapped'
      PROVE  /\ RowsAt(held', onDisk', request', x)
             /\ MsgsAt(onDisk', heldMsgs', onDiskMsgs', rewritten', x)
  <2>1. /\ RowsAt(held, onDisk, request, x)
        /\ MsgsAt(onDisk, heldMsgs, onDiskMsgs, rewritten, x)
    BY <1>5, <1>9 DEF SessInv, OneByOne
  <2>3. CASE x = s
    <3>1. /\ Halfway(request[c], held, onDisk, s)
          /\ Len(p) # 1 => /\ On(request', c, s) /\ Alone(request', c, s)
                           /\ request'[c].todo = Tail(p) /\ request'[c].row = r
      BY <1>5, <1>9, <2>3
    <3>2. s \in DOMAIN held /\ r = held[s] /\ s \in DOMAIN onDisk /\ onDisk[s] = r
      BY <1>1, <1>11, <3>1 DEF Halfway
    <3>3. Len(p) # 1 /\ Head(Tail(p)) = "persist" /\ ~Inserts(Tail(p))
      BY <1>1, <1>2, StagesOf
    <3>4. Fits(r, onDisk, s)
      BY <3>2 DEF Fits
    <3>5. Halfway(request'[c], held', onDisk', s)
      BY <1>1, <1>4, <3>1, <3>3, <3>4 DEF Halfway
    <3>6. MsgsAt(onDisk', heldMsgs', onDiskMsgs', rewritten', s)
      <4>1. heldMsgs'[s] = request[c].msgs
        BY <1>1, <1>2 DEF SessInv, SessTypes
      <4> QED
        BY <1>1, <2>1, <2>3, <3>2, <4>1 DEF MsgsAt
    <3> QED
      BY <2>3, <3>1, <3>3, <3>5, <3>6, Underway
  <2>4. CASE x # s
    <3>1. /\ x \in DOMAIN held' <=> x \in DOMAIN held
          /\ x \in DOMAIN held => held'[x] = held[x]
      BY <1>4, <2>4
    <3>2. \A d \in SessClient : request'[d] = request[d]
                                \/ (~On(request, d, x) /\ ~On(request', d, x))
      BY <1>5, <2>4
    <3>3. RowsAt(held', onDisk, request', x)
      BY <2>1, <3>1, <3>2, RowsElsewhere
    <3>4. heldMsgs'[x] = heldMsgs[x] /\ (x \in rewritten => x \in rewritten')
      BY <1>1, <2>4 DEF SessInv, SessTypes
    <3>5. MsgsAt(onDisk', heldMsgs', onDiskMsgs', rewritten', x)
      BY <1>1, <2>1, <3>4 DEF MsgsAt
    <3> QED
      BY <1>1, <3>3, <3>5
  <2> QED
    BY <2>3, <2>4
<1>10. OneByOne'
  BY <1>9 DEF OneByOne
<1> QED
  BY <1>5, <1>6, <1>7, <1>8, <1>10 DEF SessInv

\* The message sent again.
LEMMA SendKeeps ==
    ASSUME SessInv, NEW c \in SessClient, SendAgain(c)
    PROVE  SessInv'
<1> DEFINE s == request[c].id
           p == request[c].todo
           r == request[c].row
           grown(m) == IF s \in DOMAIN held THEN [m EXCEPT ![s] = Append(@, "user")] ELSE m
<1>1. /\ p # <<>> /\ Head(p) = "send" /\ NextStage(c, r) /\ Touches(c, {s})
      /\ heldMsgs' = grown(heldMsgs) /\ onDiskMsgs' = grown(onDiskMsgs)
      /\ held' = held /\ onDisk' = onDisk /\ defaultId' = defaultId /\ picked' = picked
      /\ rewritten' = rewritten /\ known' = known /\ asked' = asked /\ restarts' = restarts
  BY DEF SendAgain, Due
<1>2. /\ p \in Todos /\ r \in SessRow /\ s \in known /\ s \in SessId
  BY <1>1, RequestKnown
<1>3. Inserts(Tail(p)) => r.pin = Null
  BY <1>1, <1>2, StagesOf DEF SessInv, InsertsBare
<1>4. \A m \in [SessId -> Seq(Role)] :
        /\ grown(m) \in [SessId -> Seq(Role)]
        /\ \A x \in SessId : grown(m)[x] = IF x = s /\ s \in DOMAIN held
                                           THEN Append(m[x], "user") ELSE m[x]
  BY <1>2 DEF Role
<1>5. /\ request' \in [SessClient -> Requests] /\ overlapped' \in SUBSET SessId
      /\ \A d \in SessClient : request'[d].todo # <<>> => request'[d].id \in known
      /\ InsertsBare'
      /\ \A x \in SessId \ overlapped' : x \notin overlapped
      /\ \A x \in SessId \ {s}, d \in SessClient :
           request'[d] = request[d] \/ (~On(request, d, x) /\ ~On(request', d, x))
      /\ s \notin overlapped' =>
           /\ Halfway(request[c], held, onDisk, s)
           /\ Len(p) = 1 => Still(request', s)
           /\ Len(p) # 1 => /\ On(request', c, s) /\ Alone(request', c, s)
                            /\ request'[c].todo = Tail(p) /\ request'[c].row = r
  BY <1>1, <1>2, <1>3, StageFinds
<1> HIDE DEF grown
<1>6. SessTypes'
  <2>1. heldMsgs' \in [SessId -> Seq(Role)] /\ onDiskMsgs' \in [SessId -> Seq(Role)]
    BY <1>1, <1>4 DEF SessInv, SessTypes
  <2> HIDE DEF s, p, r
  <2> QED
    BY <1>1, <1>5, <2>1 DEF SessInv, SessTypes
<1>7. InUseKnown'
  BY <1>1, <1>2, <1>5 DEF SessInv, InUseKnown
<1>8. PinIsLastPick' /\ DefaultIsHeld'
  BY <1>1 DEF SessInv, PinIsLastPick, DefaultIsHeld
<1>9. ASSUME NEW x \in SessId \ overlapped'
      PROVE  /\ RowsAt(held', onDisk', request', x)
             /\ MsgsAt(onDisk', heldMsgs', onDiskMsgs', rewritten', x)
  <2>1. /\ RowsAt(held, onDisk, request, x)
        /\ MsgsAt(onDisk, heldMsgs, onDiskMsgs, rewritten, x)
    BY <1>5, <1>9 DEF SessInv, OneByOne
  <2>2. /\ heldMsgs'[x] = IF x = s /\ s \in DOMAIN held
                          THEN Append(heldMsgs[x], "user") ELSE heldMsgs[x]
        /\ onDiskMsgs'[x] = IF x = s /\ s \in DOMAIN held
                            THEN Append(onDiskMsgs[x], "user") ELSE onDiskMsgs[x]
    BY <1>1, <1>4 DEF SessInv, SessTypes
  <2>3. CASE x = s
    <3>1. Halfway(request[c], held, onDisk, s) /\ (Len(p) = 1 => Still(request', s))
      BY <1>5, <1>9, <2>3
    <3>2. Agrees(held, onDisk, s)
      BY <1>1, <3>1 DEF Halfway
    <3>3. Len(p) = 1
      BY <1>1, <1>2, StagesOf
    <3>4. RowsAt(held', onDisk', request', s)
      BY <1>1, <3>1, <3>2, <3>3, AtRestAgrees
    <3>5. MsgsAt(onDisk', heldMsgs', onDiskMsgs', rewritten', x)
      BY <1>1, <2>1, <2>2, <2>3, <3>2 DEF MsgsAt, Agrees
    <3> QED
      BY <2>3, <3>4, <3>5
  <2>4. CASE x # s
    <3>2. \A d \in SessClient : request'[d] = request[d]
                                \/ (~On(request, d, x) /\ ~On(request', d, x))
      BY <1>5, <2>4
    <3>3. RowsAt(held, onDisk, request', x)
      BY <2>1, <3>2, RowsElsewhere
    <3>5. MsgsAt(onDisk', heldMsgs', onDiskMsgs', rewritten', x)
      BY <1>1, <2>1, <2>2, <2>4 DEF MsgsAt
    <3> QED
      BY <1>1, <3>3, <3>5
  <2> QED
    BY <2>3, <2>4
<1>10. OneByOne'
  BY <1>9 DEF OneByOne
<1> QED
  BY <1>5, <1>6, <1>7, <1>8, <1>10 DEF SessInv

\* A new session, or what load_sessions has read.
LEMMA RestartKeeps ==
    ASSUME SessInv, RestartDaemon
    PROVE  SessInv'
<1>1. /\ restarts' \in 0..RestartMax /\ asked' \in 0..AskMax
      /\ request' = [c \in SessClient |-> NoRequest]
      /\ overlapped' = overlapped \ DOMAIN onDisk /\ rewritten' = {}
      /\ onDiskMsgs' = onDiskMsgs
  BY SessionAssumption DEF RestartDaemon, SessInv, SessTypes
<1>2. /\ request' \in [SessClient -> Requests] /\ InsertsBare'
      /\ \A c \in SessClient : request'[c].todo = <<>>
      /\ \A x \in SessId : Still(request', x)
  BY <1>1, BareRows DEF InsertsBare, Still, On
<1>3. overlapped' \in SUBSET SessId /\ rewritten' \in SUBSET SessId /\ <<>> \in Seq(Role)
  BY <1>1 DEF SessInv, SessTypes
<1>4. \A x \in SessId : x \notin overlapped' /\ x \notin DOMAIN onDisk => onDiskMsgs[x] = <<>>
  BY <1>1 DEF SessInv, OneByOne, MsgsAt
<1>5. CASE /\ held' = onDisk /\ defaultId' \in DOMAIN onDisk
           /\ heldMsgs' = [s \in SessId |-> IF s \in DOMAIN onDisk THEN onDiskMsgs[s] ELSE <<>>]
           /\ picked' = [s \in SessId |-> IF s \in DOMAIN onDisk THEN onDisk[s].pin ELSE Null]
           /\ onDisk' = onDisk /\ known' = known
  <2>1. SessTypes'
    <3>1. heldMsgs' \in [SessId -> Seq(Role)]
      BY <1>3, <1>5 DEF SessInv, SessTypes
    <3>2. picked' \in [SessId -> Pin \cup {Null}]
      BY <1>5 DEF SessInv, SessTypes, SessRow
    <3> QED
      BY <1>1, <1>2, <1>3, <1>5, <3>1, <3>2 DEF SessInv, SessTypes
  <2>2. InUseKnown'
    BY <1>2, <1>5 DEF SessInv, InUseKnown
  <2>3. PinIsLastPick' /\ DefaultIsHeld'
    BY <1>5 DEF SessInv, SessTypes, PinIsLastPick, DefaultIsHeld
  <2>4. OneByOne'
    <3> SUFFICES ASSUME NEW x \in SessId \ overlapped'
                 PROVE  /\ RowsAt(held', onDisk', request', x)
                        /\ MsgsAt(onDisk', heldMsgs', onDiskMsgs', rewritten', x)
      BY DEF OneByOne
    <3>1. RowsAt(held', onDisk', request', x)
      BY <1>2, <1>5, AtRestAgrees DEF Agrees
    <3>2. MsgsAt(onDisk', heldMsgs', onDiskMsgs', rewritten', x)
      BY <1>1, <1>4, <1>5 DEF MsgsAt
    <3> QED
      BY <3>1, <3>2
  <2> QED
    BY <1>2, <2>1, <2>2, <2>3, <2>4 DEF SessInv
<1>6. CASE /\ DOMAIN onDisk = {}
           /\ \E s \in FreshId, t \in Title :
                held' = [x \in {s} |-> NewRow(t, Null)] /\ defaultId' = s /\ known' = known \cup {s}
           /\ onDisk' = held'
           /\ heldMsgs' = [s \in SessId |-> <<>>] /\ picked' = [s \in SessId |-> Null]
  <2>0. PICK s \in FreshId, t \in Title :
          held' = [x \in {s} |-> NewRow(t, Null)] /\ defaultId' = s /\ known' = known \cup {s}
    BY <1>6
  <2>a. /\ s \in SessId /\ known' \in SUBSET SessId /\ s \in known'
        /\ NewRow(t, Null) \in SessRow /\ NewRow(t, Null).pin = Null
    BY <2>0, FreshIsFree, BareRows
  <2>b. DOMAIN held' = {s} /\ held'[s] = NewRow(t, Null)
    BY <2>0
  <2>1. SessTypes'
    <3>1. heldMsgs' \in [SessId -> Seq(Role)] /\ picked' \in [SessId -> Pin \cup {Null}]
      BY <1>3, <1>6
    <3>2. /\ DOMAIN held' \subseteq SessId /\ \A x \in DOMAIN held' : held'[x] \in SessRow
      BY <2>a, <2>b
    <3>3. onDiskMsgs' \in [SessId -> Seq(Role)]
      BY <1>1 DEF SessInv, SessTypes
    <3> QED
      BY <1>1, <1>2, <1>3, <1>6, <2>0, <2>a, <3>1, <3>2, <3>3 DEF SessTypes
  <2>2. InUseKnown'
    BY <1>2, <1>6, <2>a, <2>b DEF InUseKnown
  <2>3. PinIsLastPick' /\ DefaultIsHeld'
    BY <1>6, <2>0, <2>a, <2>b DEF PinIsLastPick, DefaultIsHeld
  <2>4. OneByOne'
    <3> SUFFICES ASSUME NEW x \in SessId \ overlapped'
                 PROVE  /\ RowsAt(held', onDisk', request', x)
                        /\ MsgsAt(onDisk', heldMsgs', onDiskMsgs', rewritten', x)
      BY DEF OneByOne
    <3>1. RowsAt(held', onDisk', request', x)
      BY <1>2, <1>6, AtRestAgrees DEF Agrees
    <3>2. MsgsAt(onDisk', heldMsgs', onDiskMsgs', rewritten', x)
      BY <1>1, <1>4, <1>6 DEF MsgsAt
    <3> QED
      BY <3>1, <3>2
  <2> QED
    BY <1>2, <2>1, <2>2, <2>3, <2>4 DEF SessInv
<1> QED
  BY <1>5, <1>6 DEF RestartDaemon

\* The first start: one session, in the map and in the table.
LEMMA SessionsStart == StInit => SessInv
<1> SUFFICES ASSUME StInit PROVE SessInv
  OBVIOUS
<1>1. PICK s \in SessId \ {Channel}, t \in Title :
        /\ held = [x \in {s} |-> NewRow(t, Null)] /\ onDisk = held
        /\ heldMsgs = [x \in SessId |-> <<>>] /\ onDiskMsgs = heldMsgs
        /\ defaultId = s /\ known = {s}
        /\ request = [c \in SessClient |-> NoRequest]
        /\ picked = [x \in SessId |-> Null]
        /\ overlapped = {} /\ rewritten = {} /\ asked = 0 /\ restarts = 0
  BY DEF StInit
<1>2. NewRow(t, Null) \in SessRow /\ NewRow(t, Null).pin = Null /\ <<>> \in Seq(Role)
  BY BareRows
<1>3. DOMAIN held = {s} /\ held[s] = NewRow(t, Null)
  BY <1>1
<1>4. /\ request \in [SessClient -> Requests] /\ InsertsBare
      /\ \A c \in SessClient : request[c].todo = <<>>
      /\ \A x \in SessId : Still(request, x)
  BY <1>1, BareRows DEF InsertsBare, Still, On
<1>5. asked \in 0..AskMax /\ restarts \in 0..RestartMax
  BY <1>1, SessionAssumption
<1>6. heldMsgs \in [SessId -> Seq(Role)] /\ picked \in [SessId -> Pin \cup {Null}]
  BY <1>1, <1>2
<1>7. SessTypes
  BY <1>1, <1>2, <1>3, <1>4, <1>5, <1>6 DEF SessTypes
<1>8. InUseKnown /\ PinIsLastPick /\ DefaultIsHeld
  BY <1>1, <1>2, <1>3, <1>4 DEF InUseKnown, PinIsLastPick, DefaultIsHeld
<1>9. OneByOne
  BY <1>1, <1>4, AtRestAgrees DEF OneByOne, Agrees, MsgsAt
<1> QED
  BY <1>4, <1>7, <1>8, <1>9 DEF SessInv

\* Every step keeps the invariant.
LEMMA SessionsKeep == SessInv /\ [StNext]_sessionStore => SessInv'
<1> SUFFICES ASSUME SessInv, [StNext]_sessionStore PROVE SessInv'
  OBVIOUS
<1>1. CASE UNCHANGED sessionStore
  BY <1>1 DEF sessionStore, SessInv, SessTypes, InUseKnown, InsertsBare, OneByOne,
              PinIsLastPick, DefaultIsHeld
<1>2. ASSUME NEW c \in SessClient, NEW s \in SessId,
             \/ \E t \in Title : Rename(c, s, t)
             \/ \E p \in Place \cup {Null} : SetWorkspace(c, s, p)
             \/ ClearMessages(c, s) \/ \E role \in Role : AddMessage(c, s, role)
             \/ DeleteSession(c, s)
      PROVE  SessInv'
  BY <1>2, RenameKeeps, SetWorkspaceKeeps, ClearKeeps, AddMessageKeeps, DeleteKeeps
<1>3. ASSUME NEW c \in SessClient, NEW s \in SessId,
             \/ \E p \in Pin \cup {Null} : SetChatModel(c, s, p)
             \/ \E on \in BOOLEAN : SetChatTools(c, s, on)
             \/ Fork(c, s) \/ Regenerate(c, s)
      PROVE  SessInv'
  BY <1>3, SetModelKeeps, SetToolsKeeps, ForkKeeps, RegenerateKeeps
<1>4. ASSUME NEW c \in SessClient,
             \/ DeleteAll(c)
             \/ \E route \in ReplyTo : \/ \E t \in Title : EnsureChannelSession(c, t, route)
                                     \/ RerouteChannel(c, route)
             \/ \E t \in Title \cup {Null}, p \in Place \cup {Null} : CreateSession(c, t, p)
             \/ Persist(c) \/ InsertSession(c) \/ UpdateSession(c) \/ SendAgain(c)
      PROVE  SessInv'
  BY <1>4, DeleteAllKeeps, EnsureKeeps, RerouteKeeps, CreateKeeps, PersistKeeps, InsertKeeps, UpdateKeeps,
     SendKeeps
<1>5. CASE RestartDaemon
  BY <1>5, RestartKeeps
<1> QED
  BY <1>1, <1>2, <1>3, <1>4, <1>5 DEF StNext

\* The invariant implies what the runs check.
LEMMA SessionsImplied == SessInv => SessionsSound
<1> SUFFICES ASSUME SessInv PROVE SessionsSound
  OBVIOUS
<1>1. \A p \in Todos : p \in Seq({"persist", "insert", "update", "send"})
  <2> DEFINE S == {"persist", "insert", "update", "send"}
  <2>1. \A a \in S : <<a>> \in Seq(S)
    OBVIOUS
  <2>2. \A a \in S, b \in S : <<a, b>> \in Seq(S)
    OBVIOUS
  <2>3. \A a \in S, b \in S, c \in S : <<a, b, c>> \in Seq(S)
    OBVIOUS
  <2>4. \A a \in S, b \in S, c \in S, d \in S : <<a, b, c, d>> \in Seq(S)
    OBVIOUS
  <2>5. <<>> \in Seq(S)
    OBVIOUS
  <2>6. "persist" \in S /\ "insert" \in S /\ "update" \in S /\ "send" \in S
    OBVIOUS
  <2> HIDE DEF S
  <2>7. \A p \in Todos : p \in Seq(S)
    BY <2>1, <2>2, <2>3, <2>4, <2>5, <2>6, Zenon DEF Todos
  <2> QED
    BY <2>7 DEF S
<1>2. \A c \in SessClient :
         /\ request[c].todo \in Seq({"persist", "insert", "update", "send"})
         /\ request[c].id \in SessId \cup {Null} /\ request[c].row \in SessRow
  BY <1>1 DEF SessInv, SessTypes, Requests
<1>3. StTypeOK
  BY <1>2 DEF SessInv, SessTypes, StTypeOK
<1>4. WrittenThrough
  <2> SUFFICES ASSUME NEW s \in SessId \ overlapped, Quiet(s)
               PROVE  /\ s \in DOMAIN held <=> s \in DOMAIN onDisk
                      /\ s \in DOMAIN held => held[s] = onDisk[s]
                      /\ s \notin rewritten => heldMsgs[s] = onDiskMsgs[s]
    BY DEF WrittenThrough
  <2>1. Still(request, s)
    BY DEF Quiet, InFlightOn, Still, On
  <2> QED
    BY <2>1 DEF SessInv, OneByOne, RowsAt, MsgsAt, Agrees
<1> QED
  BY <1>3, <1>4 DEF SessInv, SessionsSound

\* The session map and its tables: for any sessions, clients and number of
\* requests, however those interleave and wherever the daemon dies, a session
\* that no two requests have met on is the same in the map and on disk, every
\* session runs on the model picked last, and the default exists.
THEOREM SessionsHold == StSpec => []SessionsSound
  BY SessionsStart, SessionsKeep, SessionsImplied, PTL DEF StSpec
=============================================================================
