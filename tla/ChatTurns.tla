------------------------------ MODULE ChatTurns ------------------------------
(***************************************************************************)
(* The turns of one chat session in the daemon: the run slot of            *)
(* ChatRunRegistry, the queue of messages sent while a run is live, the    *)
(* turn task with its release tail, the death watcher of a turn that       *)
(* panics, the waiter of a turn parked on a provider outage, the ask_user  *)
(* tool and the Stop button.  Every action is one section of the code      *)
(* between two awaits at which another task may run.                       *)
(*                                                                         *)
(* What a harness run does with its plan is the subject of Harness, and    *)
(* how the continuation loop ends the subject of Mission: here a run polls *)
(* the queue at step boundaries and ends, and a mission ends parked or     *)
(* not.                                                                    *)
(***************************************************************************)
EXTENDS Naturals, Sequences, SequencesExt, FiniteSets

CONSTANTS
    Msg,          \* the user's messages, numbered in the order they are sent
    Turn,         \* turn tasks, numbered in the order they claim the slot
    PendingMax,   \* PENDING_MESSAGES_MAX
    ErrorRounds,  \* CONTINUATION_ERROR_ROUNDS, which also bounds resumes
    DrainMax,     \* POST_RUN_DRAIN_MAX
    Faults        \* what may fail: "panic" of a turn, "seed" of a plan

ASSUME ChatAssumption ==
    /\ Msg \subseteq Nat \ {0} /\ Turn \subseteq Nat \ {0} /\ IsFiniteSet(Turn)
    /\ PendingMax \in Nat \ {0} /\ ErrorRounds \in Nat /\ DrainMax \in Nat
    /\ Faults \subseteq {"panic", "seed"}

VARIABLES
    active,      \* the session is in ChatRunRegistry.active
    pending,     \* PendingMessages of the session
    parked,      \* ChatRunRegistry.parked: the goal and its resumes, or NoPark
    resumed,     \* ChatRunRegistry.resumed: the count, 0 when there is no entry
    registered,  \* the turn in AgentService.active_chats, 0 when none
    baseline,    \* the turn whose baseline TurnBaselines holds, 0 when none
    admission,   \* the turn whose admission TurnBaselines holds, 0 when none
    send,        \* where the handler of each message is
    turn,        \* the turn tasks
    waiter,      \* the park waiter a turn spawned
    fate,        \* history: what has become of each message
    overwritten  \* history: resume counts noted over one that no turn had taken

chat == <<active, pending, parked, resumed, registered, baseline, admission,
          send, turn, waiter, fate, overwritten>>

NoPark == [goal |-> 0, resumes |-> 0]
NoTurn == [pc |-> "none", by |-> "user", goal |-> 0, resumes |-> 0,
           cancelled |-> FALSE, phase |-> "first", sweeps |-> 0,
           hand |-> <<>>, asked |-> {}]
NoWaiter == [pc |-> "off", goal |-> 0, resumes |-> 0]

CInit ==
    /\ active = FALSE
    /\ pending = <<>>
    /\ parked = NoPark
    /\ resumed = 0
    /\ registered = 0
    /\ baseline = 0
    /\ admission = 0
    /\ send = [m \in Msg |-> "unsent"]
    /\ turn = [t \in Turn |-> NoTurn]
    /\ waiter = [t \in Turn |-> NoWaiter]
    /\ fate = [m \in Msg |-> "unsent"]
    /\ overwritten = 0

At(t, pc) == turn[t].pc = pc
Goto(t, pc) == turn' = [turn EXCEPT ![t].pc = pc]
\* The turn's own state is gone; who started it is kept for the properties.
Ended(t, pc) == turn' = [turn EXCEPT ![t] =
    [NoTurn EXCEPT !.pc = pc, !.by = turn[t].by, !.resumes = turn[t].resumes]]

Sent == {m \in Msg : send[m] # "unsent"}

(***************************************************************************)
(* PendingMessages: a full queue drops its oldest message.                 *)
(***************************************************************************)

Push(m) ==
    LET full == Len(pending) >= PendingMax
    IN  /\ pending' = Append(IF full THEN Tail(pending) ELSE pending, m)
        /\ fate' = [x \in Msg |-> IF x = m THEN "queued"
                                  ELSE IF full /\ x = Head(pending) THEN "dropped"
                                  ELSE fate[x]]

Settle(messages, what) ==
    fate' = [m \in Msg |-> IF m \in messages THEN what ELSE fate[m]]

(***************************************************************************)
(* run_chat_turn: the handler of a message, and of a resume.  A handler    *)
(* that finds the slot taken pushes its message, in a step of its own.     *)
(***************************************************************************)

NextTurn == {t \in Turn : At(t, "none") /\ \A u \in Turn : u < t => ~At(u, "none")}

Claim(t, who, goal) ==
    /\ ~active
    /\ t \in NextTurn
    /\ active' = TRUE
    /\ turn' = [turn EXCEPT ![t] = [NoTurn EXCEPT !.pc = "claimed", !.by = who,
                                                  !.goal = goal]]

\* The next message the user sends: handle_chat has stored it.
SendMessage(m) ==
    /\ send[m] = "unsent"
    /\ \A x \in Msg : x < m => send[x] # "unsent"
    /\ send' = [send EXCEPT ![m] = "claim"]
    /\ Settle({m}, "sent")
    /\ UNCHANGED <<active, pending, parked, resumed, registered, baseline,
                   admission, turn, waiter, overwritten>>

HandlerClaims(m) ==
    /\ send[m] = "claim"
    /\ \E t \in Turn : Claim(t, "user", m)
    /\ send' = [send EXCEPT ![m] = "done"]
    /\ Settle({m}, "own")
    /\ UNCHANGED <<pending, parked, resumed, registered, baseline, admission,
                   waiter, overwritten>>

HandlerRefused(m) ==
    /\ send[m] = "claim"
    /\ active
    /\ send' = [send EXCEPT ![m] = "push"]
    /\ UNCHANGED <<active, pending, parked, resumed, registered, baseline,
                   admission, turn, waiter, fate, overwritten>>

HandlerPushes(m) ==
    /\ send[m] = "push"
    /\ send' = [send EXCEPT ![m] = "done"]
    /\ Push(m)
    /\ UNCHANGED <<active, parked, resumed, registered, baseline, admission,
                   turn, waiter, overwritten>>

\* A live turn supersedes any park.
ClearPark(t) ==
    /\ At(t, "claimed")
    /\ parked' = NoPark
    /\ Goto(t, "register")
    /\ UNCHANGED <<active, pending, resumed, registered, baseline, admission,
                   send, waiter, fate, overwritten>>

Register(t) ==
    /\ At(t, "register")
    /\ registered' = t
    /\ Goto(t, "count")
    /\ UNCHANGED <<active, pending, parked, resumed, baseline, admission, send,
                   waiter, fate, overwritten>>

\* take_resume_count, then the turn and its death watcher are spawned.
TakeResumeCount(t) ==
    /\ At(t, "count")
    /\ turn' = [turn EXCEPT ![t].resumes = resumed, ![t].pc = "prep"]
    /\ resumed' = 0
    /\ UNCHANGED <<active, pending, parked, registered, baseline, admission,
                   send, waiter, fate, overwritten>>

(***************************************************************************)
(* The turn up to its first run.                                           *)
(***************************************************************************)

\* prepare_chat_turn and the model gate: the turn may be unable to run.
Prepare(t) ==
    /\ At(t, "prep")
    /\ \/ Goto(t, "baseline")
       \/ Goto(t, "tail")
    /\ UNCHANGED <<active, pending, parked, resumed, registered, baseline,
                   admission, send, waiter, fate, overwritten>>

OpenBaseline(t) ==
    /\ At(t, "baseline")
    /\ baseline' = t
    /\ Goto(t, "admit")
    /\ UNCHANGED <<active, pending, parked, resumed, registered, admission,
                   send, waiter, fate, overwritten>>

\* A resumed turn serves the whole scope and publishes no admission.
RegisterAdmission(t) ==
    /\ At(t, "admit")
    /\ admission' = IF turn[t].resumes > 0 THEN admission ELSE t
    /\ Goto(t, "plan")
    /\ UNCHANGED <<active, pending, parked, resumed, registered, baseline,
                   send, waiter, fate, overwritten>>

\* plan_and_seed: a Stop while planning seeds nothing and the run is a no-op.
PlanAndSeed(t) ==
    /\ At(t, "plan")
    /\ \/ Goto(t, "run")
       \/ "seed" \in Faults /\ ~turn[t].cancelled /\ Goto(t, "tail")
    /\ UNCHANGED <<active, pending, parked, resumed, registered, baseline,
                   admission, send, waiter, fate, overwritten>>

(***************************************************************************)
(* A harness run: it looks at Stop, polls the interjector, takes a step.   *)
(***************************************************************************)

AfterRun(t) == IF turn[t].phase = "cont" THEN "mission" ELSE "sweep"

Boundary(t) ==
    /\ At(t, "run")
    /\ Goto(t, IF turn[t].cancelled THEN AfterRun(t) ELSE "poll")
    /\ UNCHANGED <<active, pending, parked, resumed, registered, baseline,
                   admission, send, waiter, fate, overwritten>>

\* interject: take everything waiting, or nothing.
Drain(t) ==
    /\ pending' = <<>>
    /\ turn' = [turn EXCEPT ![t].hand = pending, ![t].pc = "interject"]
    /\ Settle(ToSet(pending), "held")

Poll(t) ==
    /\ At(t, "poll")
    /\ IF pending = <<>> THEN Goto(t, "step") /\ UNCHANGED <<pending, fate>>
                         ELSE Drain(t)
    /\ UNCHANGED <<active, parked, resumed, registered, baseline, admission,
                   send, waiter, overwritten>>

\* Where interject() returns to: inside a run, or in the post-run drain.
Admitted(t) == IF turn[t].phase = "drain" THEN "run" ELSE "step"
NotAdmitted(t) == IF turn[t].phase = "drain" THEN "mission" ELSE "step"

\* The planner has planned the first message in hand; its plan is seeded.
SeedMessage(t) ==
    /\ At(t, "interject")
    /\ ~turn[t].cancelled
    /\ LET rest == Tail(turn[t].hand)
       IN  turn' = [turn EXCEPT ![t].hand = rest,
                                ![t].pc = IF rest = <<>> THEN Admitted(t) ELSE @]
    /\ Settle({Head(turn[t].hand)}, "seeded")
    /\ UNCHANGED <<active, pending, parked, resumed, registered, baseline,
                   admission, send, waiter, overwritten>>

\* seed_plan fails and interject returns at the `?`: the message it planned and
\* the rest of what it had taken were in its locals only, and are gone.
SeedFails(t) ==
    /\ "seed" \in Faults
    /\ At(t, "interject")
    /\ ~turn[t].cancelled
    /\ turn' = [turn EXCEPT ![t].hand = <<>>, ![t].pc = NotAdmitted(t)]
    /\ Settle(ToSet(turn[t].hand), "unseeded")
    /\ UNCHANGED <<active, pending, parked, resumed, registered, baseline,
                   admission, send, waiter, overwritten>>

\* Mutant: a stopped interjection puts back only the message it was planning.
PutBackOne(t) ==
    /\ At(t, "interject")
    /\ turn[t].cancelled
    /\ turn' = [turn EXCEPT ![t].hand = <<>>, ![t].pc = NotAdmitted(t)]
    /\ Push(Head(turn[t].hand))
    /\ UNCHANGED <<active, parked, resumed, registered, baseline, admission,
                   send, waiter, overwritten>>

\* Stop while the interjection was planned: the messages are pushed back,
\* behind whatever was sent meanwhile, one lock at a time.
PutBack(t) ==
    /\ At(t, "interject")
    /\ turn[t].cancelled
    /\ LET rest == Tail(turn[t].hand)
       IN  turn' = [turn EXCEPT ![t].hand = rest,
                                ![t].pc = IF rest = <<>> THEN NotAdmitted(t) ELSE @]
    /\ Push(Head(turn[t].hand))
    /\ UNCHANGED <<active, parked, resumed, registered, baseline, admission,
                   send, waiter, overwritten>>

\* A step that asked nothing: on to the next boundary.
Step(t) ==
    /\ At(t, "step")
    /\ Goto(t, "run")
    /\ UNCHANGED <<active, pending, parked, resumed, registered, baseline,
                   admission, send, waiter, fate, overwritten>>

\* ask_user posts its question.
Ask(t) ==
    /\ At(t, "step")
    /\ turn' = [turn EXCEPT ![t].pc = "ask", ![t].asked = Sent]
    /\ UNCHANGED <<active, pending, parked, resumed, registered, baseline,
                   admission, send, waiter, fate, overwritten>>

\* It takes what is in the queue as the answer...
TakeAnswer(t) ==
    /\ At(t, "ask")
    /\ pending # <<>>
    /\ pending' = <<>>
    /\ Settle(ToSet(pending),
              IF ToSet(pending) \cap turn[t].asked = {} THEN "answer" ELSE "staleAnswer")
    /\ turn' = [turn EXCEPT ![t].pc = "run", ![t].asked = {}]
    /\ UNCHANGED <<active, parked, resumed, registered, baseline, admission,
                   send, waiter, overwritten>>

\* ... and gives up when its wait is over and the queue is empty.
AskTimeout(t) ==
    /\ At(t, "ask")
    /\ pending = <<>>
    /\ turn' = [turn EXCEPT ![t].pc = "run", ![t].asked = {}]
    /\ UNCHANGED <<active, pending, parked, resumed, registered, baseline,
                   admission, send, waiter, fate, overwritten>>

\* next() has no task, or the run stops on an error or a budget.
RunEnds(t) ==
    /\ At(t, "step")
    /\ Goto(t, AfterRun(t))
    /\ UNCHANGED <<active, pending, parked, resumed, registered, baseline,
                   admission, send, waiter, fate, overwritten>>

(***************************************************************************)
(* After the run: the post-run drain, the continuation rounds, the park.   *)
(***************************************************************************)

SweepTakes(t) ==
    /\ At(t, "sweep")
    /\ ~turn[t].cancelled
    /\ turn[t].sweeps < DrainMax
    /\ pending # <<>>
    /\ pending' = <<>>
    /\ turn' = [turn EXCEPT ![t].hand = pending, ![t].pc = "interject",
                            ![t].phase = "drain", ![t].sweeps = @ + 1]
    /\ Settle(ToSet(pending), "held")
    /\ UNCHANGED <<active, parked, resumed, registered, baseline, admission,
                   send, waiter, overwritten>>

SweepEnds(t) ==
    /\ At(t, "sweep")
    /\ turn[t].cancelled \/ turn[t].sweeps = DrainMax \/ pending = <<>>
    /\ Goto(t, "mission")
    /\ UNCHANGED <<active, pending, parked, resumed, registered, baseline,
                   admission, send, waiter, fate, overwritten>>

ContinueRound(t) ==
    /\ At(t, "mission")
    /\ ~turn[t].cancelled
    /\ turn' = [turn EXCEPT ![t].phase = "cont", ![t].pc = "run"]
    /\ UNCHANGED <<active, pending, parked, resumed, registered, baseline,
                   admission, send, waiter, fate, overwritten>>

MissionReturns(t) ==
    /\ At(t, "mission")
    /\ Goto(t, "tail")
    /\ UNCHANGED <<active, pending, parked, resumed, registered, baseline,
                   admission, send, waiter, fate, overwritten>>

\* finish_mission on a transient outage: the turn still holds the slot.
Park(t) ==
    /\ At(t, "mission")
    /\ parked' = [goal |-> turn[t].goal, resumes |-> turn[t].resumes]
    /\ waiter' = [waiter EXCEPT ![t] = [NoWaiter EXCEPT !.pc = "check"]]
    /\ Goto(t, "tail")
    /\ UNCHANGED <<active, pending, resumed, registered, baseline, admission,
                   send, fate, overwritten>>

(***************************************************************************)
(* The release tail, and the death watcher's copy of it.                   *)
(***************************************************************************)

\* Mutant: a dead turn has no watcher.
UnregisterUnwatched(t) ==
    /\ At(t, "tail")
    /\ registered' = 0
    /\ Ended(t, "release")
    /\ UNCHANGED <<active, pending, parked, resumed, baseline, admission, send,
                   waiter, fate, overwritten>>

\* finish_turn up to the releases: demote, persist the reply, clear the
\* session's working directory; then unregister_external_run.
Unregister(t) ==
    /\ turn[t].pc \in {"tail", "dead"}
    /\ registered' = 0
    /\ Ended(t, "release")
    /\ UNCHANGED <<active, pending, parked, resumed, baseline, admission, send,
                   waiter, fate, overwritten>>

Release(t) ==
    /\ At(t, "release")
    /\ active' = FALSE
    /\ Goto(t, "close")
    /\ UNCHANGED <<pending, parked, resumed, registered, baseline, admission,
                   send, waiter, fate, overwritten>>

CloseBaseline(t) ==
    /\ At(t, "close")
    /\ baseline' = 0
    /\ admission' = 0
    /\ Ended(t, "done")
    /\ UNCHANGED <<active, pending, parked, resumed, registered, send, waiter,
                   fate, overwritten>>

Spawned == {"prep", "baseline", "admit", "plan", "run", "poll", "interject",
            "step", "ask", "sweep", "mission", "tail"}

\* The turn task panics; what it had in hand goes with it.
Panic(t) ==
    /\ "panic" \in Faults
    /\ turn[t].pc \in Spawned
    /\ Ended(t, "dead")
    /\ Settle(ToSet(turn[t].hand), "crashed")
    /\ UNCHANGED <<active, pending, parked, resumed, registered, baseline,
                   admission, send, waiter, overwritten>>

(***************************************************************************)
(* The Stop button: AgentService.cancel.                                   *)
(***************************************************************************)

Stop ==
    /\ registered # 0
    /\ ~turn[registered].cancelled
    /\ turn' = [turn EXCEPT ![registered].cancelled = TRUE]
    /\ UNCHANGED <<active, pending, parked, resumed, registered, baseline,
                   admission, send, waiter, fate, overwritten>>

(***************************************************************************)
(* spawn_park_waiter.                                                      *)
(***************************************************************************)

WaiterGoto(w, pc) == waiter' = [waiter EXCEPT ![w].pc = pc]
WaiterEnds(w) == waiter' = [waiter EXCEPT ![w] = NoWaiter]

\* A park that is gone was superseded by a user turn.
CheckPark(w) ==
    /\ waiter[w].pc = "check"
    /\ IF parked = NoPark THEN WaiterEnds(w) ELSE WaiterGoto(w, "probe")
    /\ UNCHANGED <<active, pending, parked, resumed, registered, baseline,
                   admission, send, turn, fate, overwritten>>

Probe(w) ==
    /\ waiter[w].pc = "probe"
    /\ \/ WaiterGoto(w, "take")
       \/ WaiterGoto(w, "check")
    /\ UNCHANGED <<active, pending, parked, resumed, registered, baseline,
                   admission, send, turn, fate, overwritten>>

TakePark(w) ==
    /\ waiter[w].pc = "take"
    /\ parked' = NoPark
    /\ IF parked = NoPark \/ parked.resumes >= ErrorRounds
       THEN WaiterEnds(w)
       ELSE waiter' = [waiter EXCEPT ![w] = [goal |-> parked.goal, pc |-> "note",
                                             resumes |-> parked.resumes]]
    /\ UNCHANGED <<active, pending, resumed, registered, baseline, admission,
                   send, turn, fate, overwritten>>

NoteResume(w) ==
    /\ waiter[w].pc = "note"
    /\ resumed' = waiter[w].resumes + 1
    /\ overwritten' = IF resumed = 0 THEN overwritten ELSE overwritten + 1
    /\ WaiterGoto(w, "claim")
    /\ UNCHANGED <<active, pending, parked, registered, baseline, admission,
                   send, turn, fate>>

WaiterClaims(w) ==
    /\ waiter[w].pc = "claim"
    /\ \E t \in Turn : Claim(t, "waiter", waiter[w].goal)
    /\ WaiterEnds(w)
    /\ Settle({waiter[w].goal}, "own")
    /\ UNCHANGED <<pending, parked, resumed, registered, baseline, admission,
                   send, overwritten>>

WaiterRefused(w) ==
    /\ waiter[w].pc = "claim"
    /\ active
    /\ WaiterGoto(w, "push")
    /\ UNCHANGED <<active, pending, parked, resumed, registered, baseline,
                   admission, send, turn, fate, overwritten>>

WaiterPushes(w) ==
    /\ waiter[w].pc = "push"
    /\ WaiterEnds(w)
    /\ Push(waiter[w].goal)
    /\ UNCHANGED <<active, parked, resumed, registered, baseline, admission,
                   send, turn, overwritten>>
----------------------------------------------------------------------------
Handler(m) == HandlerClaims(m) \/ HandlerRefused(m) \/ HandlerPushes(m)

Opening(t) == ClearPark(t) \/ Register(t) \/ TakeResumeCount(t) \/ Prepare(t)
              \/ OpenBaseline(t) \/ RegisterAdmission(t) \/ PlanAndSeed(t)

Running(t) == Boundary(t) \/ Poll(t) \/ SeedMessage(t) \/ SeedFails(t)
              \/ PutBack(t) \/ Step(t) \/ TakeAnswer(t) \/ AskTimeout(t)
              \/ RunEnds(t) \/ SweepTakes(t) \/ SweepEnds(t)

Closing(t) == MissionReturns(t) \/ Park(t) \/ Unregister(t) \/ Release(t)
              \/ CloseBaseline(t)

Waiting(w) == CheckPark(w) \/ Probe(w) \/ TakePark(w) \/ NoteResume(w)
              \/ WaiterClaims(w) \/ WaiterRefused(w) \/ WaiterPushes(w)

CNext ==
    \/ \E m \in Msg : SendMessage(m) \/ Handler(m)
    \/ \E t \in Turn : Opening(t) \/ Running(t) \/ Closing(t)
                       \/ Ask(t) \/ ContinueRound(t) \/ Panic(t)
    \/ \E w \in Turn : Waiting(w)
    \/ Stop

CSpec == CInit /\ [][CNext]_chat

(***************************************************************************)
(* Fairness.  Tasks that can run do run (tokio); a planner call and a tool *)
(* call return, because the transport has a silence bound.  A run ends     *)
(* (Harness.RunEnds) and so do the continuation rounds (Mission ends): a   *)
(* step that could be the last one is not passed over for ever.            *)
(***************************************************************************)
CFairness ==
    /\ WF_chat(\E m \in Msg : Handler(m))
    /\ WF_chat(\E t \in Turn : Opening(t) \/ Running(t) \/ Closing(t))
    /\ SF_chat(\E t \in Turn : RunEnds(t))
    /\ SF_chat(\E t \in Turn : MissionReturns(t) \/ Park(t))
    /\ WF_chat(\E w \in Turn : Waiting(w))

FairCSpec == CSpec /\ CFairness

----------------------------------------------------------------------------
(***************************************************************************)
(* Properties.                                                             *)
(***************************************************************************)

Pcs == Spawned \cup {"none", "claimed", "register", "count", "dead", "release",
                     "close", "done"}
Live(t) == turn[t].pc \notin {"none", "close", "done"}

\* Types: one entry per turn and waiter, and the queue within its bound.
ChatTypeOK ==
    /\ active \in BOOLEAN
    /\ pending \in Seq(Msg) /\ Len(pending) <= PendingMax
    /\ {parked.goal, registered, baseline, admission} \subseteq Msg \cup Turn \cup {0}
    /\ parked.resumes \in 0..ErrorRounds /\ resumed \in 0..ErrorRounds
    /\ \A t \in Turn : /\ turn[t].pc \in Pcs
                       /\ turn[t].resumes \in 0..ErrorRounds
                       /\ turn[t].sweeps \in 0..DrainMax
                       /\ turn[t].hand \in Seq(Msg)

\* try_claim and release: at most one turn of the session is between its
\* claim and its release, and the slot is taken exactly while there is one.
OneLiveTurn ==
    /\ \A t, u \in Turn : Live(t) /\ Live(u) => t = u
    /\ active <=> \E t \in Turn : Live(t)

\* register_external_run and unregister_external_run: while a turn works, the
\* Stop button finds that turn, although the turn before it is still closing.
StopReachesLiveTurn ==
    \A t \in Turn : turn[t].pc \in Spawned \cup {"count"} => registered = t

\* Push, drain and the put-back of interject, with a parked turn's own message
\* that its waiter may push later: no message is in the queue twice, in a hand
\* twice, or in both, and one that is in neither has left them by a step that
\* settles it.  Those steps are its seeding, its use as an answer, the queue at
\* its limit, and two that lose it: seed_plan fails (FailedSeedStaysPending),
\* or the turn panics with it in hand.
MessagesAccounted ==
    /\ IsInjective(pending) /\ \A t \in Turn : IsInjective(turn[t].hand)
    /\ \A m \in Msg :
          /\ fate[m] = "queued" <=> m \in ToSet(pending)
          /\ fate[m] = "held" <=> \E t \in Turn : m \in ToSet(turn[t].hand)

Resumes == Cardinality({t \in Turn : turn[t].by = "waiter"})
UserTurns == Cardinality({t \in Turn : turn[t].by = "user" /\ ~At(t, "none")})

\* spawn_park_waiter and take_resume_count: however the provider flaps, and
\* whoever takes a noted count, every resume is paid for by a turn of the
\* user, or by a count that one waiter noted over that of another.
ResumesBounded == Resumes <= ErrorRounds * (UserTurns + overwritten)

\* run_chat_turn, finish_turn and TurnWatcher::watch: a session is released
\* after every turn, also one that is stopped, fails to seed or panics.
SessionReleased == active ~> ~active

\* The baseline a turn opened is gone once every turn has closed: the next
\* turn's titles are never filtered by a turn that is over.
NoBaselineLeaks ==
    (\A t \in Turn : turn[t].pc \in {"none", "done"}) => baseline = 0 /\ admission = 0

(***************************************************************************)
(* The turns of a session: one at a time, Stop finds the one that works    *)
(* although the one before it is still closing, a message is queued or in  *)
(* the live turn's hand at most once and leaves both only by a step that   *)
(* settles it, and a turn that is over leaves no baseline.                 *)
(***************************************************************************)
ChatSound ==
    /\ ChatTypeOK /\ OneLiveTurn /\ StopReachesLiveTurn
    /\ MessagesAccounted /\ NoBaselineLeaks

\* harness.rs, of an interjection that failed: "the message stays pending and
\* is retried next boundary".
FailedSeedStaysPending == \A m \in Msg : fate[m] # "unseeded"

\* resumes: "Zero for an ordinary turn" (RoundBudget), "the turn always
\* consumes it" (ChatRunRegistry.resumed).
OrdinaryTurnStartsFresh ==
    \A t \in Turn : turn[t].by = "user" => turn[t].resumes = 0

\* spawn_park_waiter: "the same [CONTINUATION_ERROR_ROUNDS] brake that bounds
\* error rounds, so a flapping provider cannot loop forever".
FlappingProviderEnds == Resumes <= ErrorRounds * UserTurns

\* ask_user: "The answer is the user's next message".
AnswerFollowsQuestion == \A m \in Msg : fate[m] # "staleAnswer"
=============================================================================
