----------------------------- MODULE StepLadder -----------------------------
(***************************************************************************)
(* One step of a run (AgentStepRunner in nanna-daemon/src/tasks.rs): the   *)
(* retry ladder on one model, the reset of a wedged local runner, and the  *)
(* fallback along the run's ModelChain, which several runners share.       *)
(*                                                                         *)
(* Prompts, nudges and re-anchors are left out: they change what is asked, *)
(* not how often.  An attempt is a call of the provider that comes back in *)
(* one of the ways Attempt lists.                                          *)
(***************************************************************************)
EXTENDS Naturals, FiniteSets

CONSTANTS
    Runner,      \* step runners of one run, which share its model chain
    ModelCount,  \* the length of the priority list
    Served,      \* positions of models a registered provider serves
    Local,       \* positions of models an Ollama server on this machine serves
    Token,       \* tokens a wedged decoder repeats
    Retries      \* STEP_LLM_RETRIES

ASSUME LadderAssumption ==
    /\ ModelCount \in Nat \ {0} /\ Retries \in Nat
    /\ Served \subseteq 1..ModelCount /\ Local \subseteq Served

VARIABLES
    onModel,    \* ModelChain.active: the position the run is on
    ladder,     \* each runner's step
    wedge,      \* wedge_store: the last token each model's runner wedged on
    halted,     \* the run's cancel token
    gaveUp      \* history: models a step has given up on

ladders == <<onModel, ladder, wedge, halted, gaveUp>>

Model == 1..ModelCount
NoToken == "none"

\* ModelChain::new starts at the first served model, or at the head.
First == IF Served = {} THEN 1
         ELSE CHOOSE m \in Served : \A k \in Served : m <= k

NewStep == [pc |-> "begin", model |-> 0, attempt |-> 0, err |-> "none",
            cur |-> NoToken, prev |-> NoToken, seen |-> 0]

LInit ==
    /\ onModel = First
    /\ ladder = [r \in Runner |-> NewStep]
    /\ wedge = [m \in Model |-> NoToken]
    /\ halted = FALSE
    /\ gaveUp = {}

AtStep(r, pc) == ladder[r].pc = pc

\* The classes of a failed attempt.  gpu, wedge and drop are transient.
Transient == {"drop", "wedge", "gpu"}
Retried == Transient \cup {"empty", "thinking"}
WarrantsFallback == Transient \cup {"empty", "refused"}

\* run_step reads the chain's model for each ladder it starts.
BeginLadder(r) ==
    /\ AtStep(r, "begin")
    /\ ladder' = [ladder EXCEPT ![r] = [NewStep EXCEPT !.pc = "try", !.model = onModel]]
    /\ UNCHANGED <<onModel, wedge, halted, gaveUp>>

Succeeds(r) ==
    /\ AtStep(r, "try")
    /\ ladder' = [ladder EXCEPT ![r] = [NewStep EXCEPT !.pc = "done"]]
    /\ UNCHANGED <<onModel, wedge, halted, gaveUp>>

\* The ladder has failed with err: what it knows of its attempts is gone.
GivesUp(r, err) == [NewStep EXCEPT !.pc = "giveup", !.model = ladder[r].model, !.err = err]

\* After a failure that is retried: the next attempt, or none left.
AfterFailure(r, err, cur, prev) ==
    IF ladder[r].attempt = Retries THEN GivesUp(r, err)
    ELSE [ladder[r] EXCEPT !.pc = "retry", !.err = err, !.cur = cur, !.prev = prev]

\* A repetition abort is recorded and judged against the one before it; any
\* other failure clears the pair.
Wedges(r, token) ==
    /\ AtStep(r, "try")
    /\ LET m == ladder[r].model
       IN  /\ wedge' = [wedge EXCEPT ![m] = token]
           /\ ladder' = [ladder EXCEPT ![r] = AfterFailure(r, "wedge", token, wedge[m])]
    /\ UNCHANGED <<onModel, halted, gaveUp>>

FailsRetried(r, err) ==
    /\ AtStep(r, "try")
    /\ ladder' = [ladder EXCEPT ![r] = AfterFailure(r, err, NoToken, NoToken)]
    /\ UNCHANGED <<onModel, wedge, halted, gaveUp>>

\* A 4xx, or an error that is nobody's transient fault, ends the ladder.
FailsAtOnce(r, err) ==
    /\ AtStep(r, "try")
    /\ ladder' = [ladder EXCEPT ![r] = GivesUp(r, err)]
    /\ UNCHANGED <<onModel, wedge, halted, gaveUp>>

(***************************************************************************)
(* prepare_retry.                                                          *)
(***************************************************************************)

RetryStopped(r) ==
    /\ AtStep(r, "retry")
    /\ halted
    /\ ladder' = [ladder EXCEPT ![r] = GivesUp(r, ladder[r].err)]
    /\ UNCHANGED <<onModel, wedge, halted, gaveUp>>

\* wedge_reset_due: the same token again, or a fault that has repeated.
WedgeResetDue(s) ==
    /\ s.err \in {"wedge", "empty"}
    /\ \/ s.cur # NoToken /\ s.cur = s.prev
       \/ s.attempt + 1 >= 2

\* reset_ollama_runner_for forgets the fingerprint of the runner it unloads;
\* it declines a server that is not on this machine.
ForgottenAfterReset(m) == IF m \in Local THEN [wedge EXCEPT ![m] = NoToken] ELSE wedge

\* Mutant: the attempt is not counted.
RetryUncounted(r) ==
    /\ AtStep(r, "retry")
    /\ ~halted
    /\ ladder' = [ladder EXCEPT ![r].pc = "try"]
    /\ UNCHANGED <<onModel, wedge, halted, gaveUp>>

\* The backoff is over; a wedged runner is reset when due, one out of memory
\* always.
RetryGoes(r) ==
    /\ AtStep(r, "retry")
    /\ ~halted
    /\ LET s == ladder[r]
       IN  wedge' = IF WedgeResetDue(s) \/ s.err = "gpu"
                    THEN ForgottenAfterReset(s.model) ELSE wedge
    /\ ladder' = [ladder EXCEPT ![r] = [NewStep EXCEPT !.pc = "try", !.model = ladder[r].model,
                                                       !.attempt = ladder[r].attempt + 1]]
    /\ UNCHANGED <<onModel, halted, gaveUp>>

(***************************************************************************)
(* run_step after a ladder that failed, and ModelChain::advance_past.      *)
(***************************************************************************)

\* A Stop, or a failure that is not the model's fault, fails the step.
Fails(r) ==
    /\ AtStep(r, "giveup")
    /\ halted \/ ladder[r].err \notin WarrantsFallback
    /\ ladder' = [ladder EXCEPT ![r].pc = "failed", ![r].seen = 0]
    /\ UNCHANGED <<onModel, wedge, halted, gaveUp>>

\* Mutant: a runner moves the chain on from wherever it is.
StillOn(r) == TRUE

OnFailedModel(r) == onModel = ladder[r].model

\* advance_past loads the position; one that has moved is followed.
LoadActive(r) ==
    /\ AtStep(r, "giveup")
    /\ ~halted /\ ladder[r].err \in WarrantsFallback
    /\ gaveUp' = gaveUp \cup {ladder[r].model}
    /\ ladder' = IF OnFailedModel(r)
                 THEN [ladder EXCEPT ![r].pc = "swap", ![r].seen = onModel]
                 ELSE [ladder EXCEPT ![r] = NewStep]
    /\ UNCHANGED <<onModel, wedge, halted>>

Below(m) == {k \in Served : k > m}
NextServed(m) == CHOOSE k \in Below(m) : \A j \in Below(m) : k <= j

\* compare_exchange: whoever comes second follows.
ExchangeNext(r) == IF onModel = ladder[r].seen THEN NextServed(ladder[r].seen) ELSE onModel

SwapModel(r) ==
    /\ AtStep(r, "swap")
    /\ IF Below(ladder[r].seen) = {}
       THEN /\ ladder' = [ladder EXCEPT ![r].pc = "failed", ![r].seen = 0]
            /\ UNCHANGED onModel
       ELSE /\ onModel' = ExchangeNext(r)
            /\ ladder' = [ladder EXCEPT ![r] = NewStep]
    /\ UNCHANGED <<wedge, halted, gaveUp>>

\* The run's next step with this runner.
NextStep(r) ==
    /\ ladder[r].pc \in {"done", "failed"}
    /\ ladder' = [ladder EXCEPT ![r] = NewStep]
    /\ UNCHANGED <<onModel, wedge, halted, gaveUp>>

HaltRun ==
    /\ ~halted
    /\ halted' = TRUE
    /\ UNCHANGED <<onModel, ladder, wedge, gaveUp>>
----------------------------------------------------------------------------
Attempt(r) ==
    \/ Succeeds(r)
    \/ \E token \in Token : Wedges(r, token)
    \/ \E err \in Retried \ {"wedge"} : FailsRetried(r, err)
    \/ \E err \in {"refused", "fatal"} : FailsAtOnce(r, err)

LadderStep(r) ==
    \/ BeginLadder(r) \/ Attempt(r) \/ RetryStopped(r) \/ RetryGoes(r)
    \/ Fails(r) \/ LoadActive(r) \/ SwapModel(r)

LNext == HaltRun \/ \E r \in Runner : LadderStep(r) \/ NextStep(r)

LSpec == LInit /\ [][LNext]_ladders

\* Every attempt comes back (the stream has a silence bound), and so do the
\* sleeps of the backoff.
LFairness == \A r \in Runner : WF_ladders(LadderStep(r))

FairLSpec == LSpec /\ LFairness
----------------------------------------------------------------------------
\* Types: attempts within the ladder, positions within the list.
LTypeOK ==
    /\ onModel \in Model
    /\ wedge \in [Model -> Token \cup {NoToken}]
    /\ \A r \in Runner : ladder[r].attempt \in 0..Retries /\ ladder[r].model \in 0..ModelCount

\* advance_past: runners that report the same failure, at any moment, move the
\* chain once; no served model is passed over that no step has given up on.
SkippedModelsFailed == \A m \in Served : First <= m /\ m < onModel => m \in gaveUp

\* A step that fails for a fault another model could get past, with no Stop,
\* fails only when every served model has been given up on.
FailsOnlyExhausted ==
    \A r \in Runner :
        AtStep(r, "failed") /\ ~halted /\ ladder[r].err \in WarrantsFallback
            => \A m \in Served : m >= First => m \in gaveUp

\* The chain runners share: it passes over no model that was not given up on,
\* and a step fails only when nothing served is left.
LadderSound == LTypeOK /\ SkippedModelsFailed /\ FailsOnlyExhausted

\* Every step that begins is decided.
StepsDecided == \A r \in Runner : AtStep(r, "begin") ~> ladder[r].pc \in {"done", "failed"}
=============================================================================
