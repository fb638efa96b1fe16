------------------------------ MODULE AgentLoop ------------------------------
(***************************************************************************)
(* One run of the agent loop (nanna-agent/src/loop_runner.rs, Agent::run): *)
(* iterations of one model exchange and the tools it asks for, the caps,   *)
(* the reserved wrap-up iteration, the one-shot nudges, mission mode's     *)
(* continuation rounds, and a Stop that may come at any point.             *)
(*                                                                         *)
(* A reply is what the loop can tell of it: what its text amounts to,      *)
(* whether it calls tools, whether calls are written as prose, whether its *)
(* reasoning went in circles.  Steering messages that change nothing but   *)
(* the prompt (budget warning, wrap-up, claim and tool-loop nudges), the   *)
(* context ladder and the callbacks are left out.                          *)
(***************************************************************************)
EXTENDS Naturals

CONSTANTS
    MaxIterations,   \* the cap of the runs that have one
    StallRounds,     \* MISSION_STALL_ROUNDS_MAX
    RepeatRounds,    \* MISSION_REPEAT_ROUNDS_MAX
    ExhaustAfter,    \* STEP_EXHAUSTION_AFTER
    UnservedMax      \* registered tools a request may leave out

ASSUME AgentLoopAssumption ==
    /\ MaxIterations \in Nat \ {0} /\ UnservedMax \in Nat
    /\ StallRounds \in Nat /\ RepeatRounds \in Nat /\ ExhaustAfter \in Nat \ {0}

VARIABLES
    options,     \* RunOptions: mission mode, step_kind set, max_iterations (0:
                 \* none), caps on time, tokens and tool calls
    phase,       \* where the iteration is; "over" at the end
    outcome,     \* how the run ended: respond, cancelled, fail; truncated
    iterations,  \* RunState.iterations, counted only against a cap
    wrapUp,      \* WrapUp: engaged, truncated
    said,        \* final_text: "", or what it amounts to
    hasRecords,  \* tool_records is not empty
    nudged,      \* DetectorNudges, as the set of those given
    spiral,      \* steering.thinking_spiral_detected
    rounds,      \* mission state: stall, repeat, claims, verified, digest, moved
    dry,         \* no_information_iterations
    unserved,    \* registered tools the requests do not carry
    dangling,    \* the context holds a tool_use with no tool_result
    stopAsked,   \* the run's CancelToken
    calledSince, \* history: a tool was called since the last completion claim
    heard        \* history: the last reply that was dealt with held text

agent == <<options, phase, outcome, iterations, wrapUp, said, hasRecords,
           nudged, spiral, rounds, dry, unserved, dangling,
           stopAsked, calledSince, heard>>

Options ==
    [mission : BOOLEAN, step : BOOLEAN, max : {0, MaxIterations}, caps : BOOLEAN]

Nudge == {"narration", "repetition", "spiral"}
NoOutcome == [kind |-> "none", truncated |-> FALSE]

\* What a reply's text can amount to; "" is no text.
Saying == {"", "plain", "claim", "narration", "repetition"}

(***************************************************************************)
(* The replies: calls are none, all unparseable, or some to run; calls in  *)
(* prose only where there are no structured ones, resolvable or not; a     *)
(* spiral aborts the stream and drops its text, or is seen afterwards.     *)
(***************************************************************************)
Reply ==
    {r \in [text : Saying, calls : {"none", "malformed", "some"},
            prose : {"none", "callable", "orphan"},
            circles : {"no", "aborted", "after"}] :
        /\ r.prose # "none" => r.calls = "none" /\ r.text # ""
        /\ r.circles = "aborted" => r.text = ""
        /\ r.circles = "after" => r.text = "" /\ r.calls # "some"}

\* Only mission mode reads a completion claim.
Replies == {r \in Reply : r.text = "claim" => options.mission}

ATypeOK ==
    /\ options \in Options
    /\ phase \in {"begin", "routed", "call", "retry", "salvage", "tools",
               "malformed", "over"}
    /\ outcome \in [kind : {"none", "respond", "cancelled", "fail"},
                    truncated : BOOLEAN]
    /\ iterations \in 0..(MaxIterations + 2)
    /\ wrapUp \in [engaged : BOOLEAN, truncated : BOOLEAN]
    /\ said \in Saying \cup {"digest", "note"}
    /\ hasRecords \in BOOLEAN /\ nudged \subseteq Nudge /\ spiral \in BOOLEAN
    /\ rounds \in [stall : 0..StallRounds, repeat : 0..RepeatRounds,
                   claims : 0..1, verified : BOOLEAN, digest : BOOLEAN,
                   moved : BOOLEAN]
    /\ dry \in 0..ExhaustAfter
    /\ unserved \in 0..UnservedMax
    /\ dangling \in BOOLEAN /\ stopAsked \in BOOLEAN
    /\ calledSince \in BOOLEAN /\ heard \in BOOLEAN

AInit ==
    /\ options \in Options
    /\ phase = "begin"
    /\ outcome = NoOutcome
    /\ iterations = 0
    /\ wrapUp = [engaged |-> FALSE, truncated |-> FALSE]
    /\ said = "" /\ hasRecords = FALSE
    /\ nudged = {} /\ spiral = FALSE
    /\ rounds = [stall |-> 0, repeat |-> 0, claims |-> 0, verified |-> FALSE,
                 digest |-> FALSE, moved |-> FALSE]
    /\ dry = 0
    /\ unserved = UnservedMax
    /\ dangling = FALSE /\ stopAsked = FALSE
    /\ calledSince = FALSE /\ heard = FALSE

Ends(kind, truncated) ==
    /\ phase' = "over"
    /\ outcome' = [kind |-> kind, truncated |-> truncated]

Goes(to) == phase' = to /\ outcome' = outcome

\* Never silence: the report is made from the tool record where the model
\* said nothing.
ReportOf(text) == IF text = "" THEN "digest" ELSE text

context == <<unserved, dangling>>
steering == <<nudged, spiral, rounds, dry>>
history == <<calledSince, heard>>

(***************************************************************************)
(* begin_iteration                                                         *)
(***************************************************************************)
CountsIteration == IF options.max = 0 THEN iterations ELSE iterations + 1
OverCap == options.max # 0 /\ CountsIteration > options.max

ReservesWrapUp == OverCap /\ ~wrapUp.engaged /\ said = "" /\ hasRecords

StopsAtBegin ==
    /\ phase = "begin" /\ stopAsked
    /\ Ends("cancelled", TRUE)
    /\ said' = IF said = "" THEN "note" ELSE said
    /\ UNCHANGED <<options, iterations, wrapUp, hasRecords, steering, context,
                   stopAsked, history>>

\* The caller's wall-clock cap.
WallClockOut ==
    /\ phase = "begin" /\ ~stopAsked /\ options.caps
    /\ Ends("respond", TRUE)
    /\ said' = "note"
    /\ UNCHANGED <<options, iterations, wrapUp, hasRecords, steering, context,
                   stopAsked, history>>

IterationsOut ==
    /\ phase = "begin" /\ ~stopAsked
    /\ OverCap /\ ~ReservesWrapUp
    /\ iterations' = CountsIteration
    /\ Ends("respond", TRUE)
    /\ said' = ReportOf(said)
    /\ UNCHANGED <<options, wrapUp, hasRecords, steering, context, stopAsked,
                   history>>

WrapUpAfter ==
    IF ReservesWrapUp THEN [engaged |-> TRUE, truncated |-> TRUE] ELSE wrapUp

\* check_context_floor: the window cannot hold the irreducible prompt.
WindowTooSmall ==
    /\ phase = "begin" /\ ~stopAsked
    /\ OverCap => ReservesWrapUp
    /\ iterations' = CountsIteration
    /\ wrapUp' = WrapUpAfter
    /\ Ends("fail", FALSE)
    /\ UNCHANGED <<options, said, hasRecords, steering, context, stopAsked,
                   history>>

\* The request is built, with or without a routed model.  A planning request
\* and the wrap-up one carry no tools, which does not keep a model from
\* answering with a call.
BuildRequest(to) ==
    /\ phase = "begin" /\ ~stopAsked
    /\ OverCap => ReservesWrapUp
    /\ iterations' = CountsIteration
    /\ wrapUp' = WrapUpAfter
    /\ Goes(to)
    /\ UNCHANGED <<options, said, hasRecords, steering, unserved, dangling,
                   stopAsked, history>>

(***************************************************************************)
(* llm_exchange: the routed call and its escalation, the heal of a tool    *)
(* the provider refused because the request did not carry it, one retry    *)
(* after a context overflow.                                               *)
(***************************************************************************)
InCall == phase \in {"routed", "call", "retry"}

Escalate ==
    /\ phase = "routed"
    /\ Goes("call")
    /\ UNCHANGED <<options, iterations, wrapUp, said, hasRecords, steering,
                   context, stopAsked, history>>

\* heal_unserved_tool_rejection: sent again only if the tool the provider
\* named was not yet among those served.
HealUnserved ==
    /\ phase = "call" /\ unserved > 0
    /\ unserved' = unserved - 1
    /\ Goes("call")
    /\ UNCHANGED <<options, iterations, wrapUp, said, hasRecords, steering,
                   dangling, stopAsked, history>>

Overflow ==
    /\ phase = "call"
    /\ Goes("retry")
    /\ UNCHANGED <<options, iterations, wrapUp, said, hasRecords, steering,
                   context, stopAsked, history>>

\* settle_llm_result: a failed wrap-up call still reports.
CallFails ==
    /\ phase \in {"call", "retry"}
    /\ IF wrapUp.engaged
          THEN Ends("respond", wrapUp.truncated) /\ said' = ReportOf(said)
          ELSE Ends("fail", FALSE) /\ said' = said
    /\ UNCHANGED <<options, iterations, wrapUp, hasRecords, steering, context,
                   stopAsked, history>>

(***************************************************************************)
(* What a reply does, in the order of run_iteration.                       *)
(***************************************************************************)
\* Mutant: the flag of an earlier stream is not taken down.
SpiralKept(r) == spiral \/ (r.circles = "aborted" /\ "spiral" \notin nudged)

\* call_llm_streaming takes the flag down, and an abort that can still be
\* nudged puts it up.
SpiralOf(r) == r.circles = "aborted" /\ "spiral" \notin nudged

TextAfter(r) == IF r.text = "" THEN said ELSE r.text

\* post_hoc_spiral_nudge: nothing of the reply is stored.
PostHocNudge(r) ==
    /\ InCall /\ r.circles = "after" /\ "spiral" \notin nudged
    /\ nudged' = nudged \cup {"spiral"}
    /\ spiral' = SpiralOf(r)
    /\ heard' = FALSE
    /\ Goes("begin")
    /\ UNCHANGED <<options, iterations, wrapUp, said, hasRecords, rounds, dry,
                   context, stopAsked, calledSince>>

Accepted(r) == InCall /\ ~(r.circles = "after" /\ "spiral" \notin nudged)

\* enforce_token_budget: before the reply is stored.
TokensOut(r) ==
    /\ Accepted(r) /\ options.caps
    /\ Ends("respond", TRUE)
    /\ said' = "note"
    /\ spiral' = SpiralOf(r)
    /\ UNCHANGED <<options, iterations, wrapUp, hasRecords, nudged, rounds, dry,
                   context, stopAsked, history>>

\* The reply's turn is stored, calls salvaged from its prose included.
Stored(r) == r.calls # "none" \/ r.prose = "callable"

\* Mutant: a turn of unparseable calls counts as tool-free.
NoStructuredCalls(r) == r.calls # "some"

ToolFree(r) == r.calls = "none"

\* Stop was pressed by the end of the call: the run ends here.
StoppedReply(r) ==
    /\ Accepted(r) /\ stopAsked
    /\ Ends("cancelled", TRUE)
    /\ said' = IF TextAfter(r) = "" THEN "note" ELSE TextAfter(r)
    /\ dangling' = Stored(r)
    /\ spiral' = SpiralOf(r)
    /\ UNCHANGED <<options, iterations, wrapUp, hasRecords, nudged, rounds, dry,
                   unserved, stopAsked, history>>

\* The wrap-up reply ends the run whatever it holds.
WrapUpReply(r) ==
    /\ Accepted(r) /\ ~stopAsked /\ wrapUp.engaged
    /\ Ends("respond", wrapUp.truncated)
    /\ said' = ReportOf(TextAfter(r))
    /\ dangling' = Stored(r)
    /\ spiral' = SpiralOf(r)
    /\ UNCHANGED <<options, iterations, wrapUp, hasRecords, nudged, rounds, dry,
                   unserved, stopAsked, history>>

\* Calls, or calls in prose, are run next.
CallsTools(r) ==
    /\ Accepted(r) /\ ~stopAsked /\ ~wrapUp.engaged
    /\ ~ToolFree(r) \/ r.prose = "callable"
    /\ said' = TextAfter(r)
    /\ dangling' = TRUE
    /\ spiral' = SpiralOf(r)
    /\ heard' = (r.text # "")
    /\ Goes(IF ToolFree(r) THEN "salvage"
            ELSE IF r.calls = "some" THEN "tools" ELSE "malformed")
    /\ rounds' = IF r.calls = "some"
                    THEN [rounds EXCEPT !.stall = 0, !.verified = TRUE]
                    ELSE rounds
    /\ UNCHANGED <<options, iterations, wrapUp, hasRecords, nudged, dry,
                   unserved, stopAsked, calledSince>>

(***************************************************************************)
(* A tool-free round after the salvage: e is what it is judged on, its     *)
(* text, the prose calls nothing could be made of, the spiral flag,        *)
(* whether there are tool records, whether one is newer than the last      *)
(* prod, and whether the tool digest reads as it did then.                 *)
(***************************************************************************)
\* steer_tool_free_round: the first rung that applies and was not given.
Rung(e) ==
    IF (e.orphan \/ e.text = "narration") /\ "narration" \notin nudged
    THEN "narration"
    ELSE IF e.text = "repetition" /\ "repetition" \notin nudged
    THEN "repetition"
    ELSE IF e.spiral /\ "spiral" \notin nudged THEN "spiral" ELSE "none"

\* Mutant: any claim after the first is taken.
UnverifiedOnce(text) == text = "claim" /\ rounds.claims = 0

\* continue_mission: a claim is taken only if a tool was called after one.
Unverified(text) == text = "claim" /\ (rounds.claims = 0 \/ ~rounds.verified)

GoesOn(text) == options.mission /\ (text # "claim" \/ Unverified(text))

SameDigest(e) == e.records /\ rounds.digest /\ (e.moved => e.same)

RepeatAfter(e) == IF SameDigest(e) THEN rounds.repeat + 1 ELSE 0

\* Mutant: a round without a tool is not counted.
StallsAfterNever == rounds.stall

StallsAfter == rounds.stall + 1

\* The digest is noted on every round that would go on; a bound ends the run.
Noted(e) ==
    [rounds EXCEPT !.repeat = RepeatAfter(e), !.digest = e.records, !.moved = FALSE]

MissionRound(e) ==
    /\ GoesOn(e.text)
    /\ RepeatAfter(e) < RepeatRounds /\ rounds.stall < StallRounds
    /\ rounds' = [Noted(e) EXCEPT
                    !.stall = StallsAfter,
                    !.claims = IF e.text = "claim" THEN 1 ELSE @,
                    !.verified = @ /\ e.text # "claim"]
    /\ calledSince' = (calledSince /\ e.text # "claim")
    /\ nudged' = {}
    /\ Goes("begin")

MissionOver(e) ==
    /\ GoesOn(e.text) =>
          RepeatAfter(e) >= RepeatRounds \/ rounds.stall >= StallRounds
    /\ rounds' = IF GoesOn(e.text) THEN Noted(e) ELSE rounds
    /\ Ends("respond", FALSE)
    /\ UNCHANGED <<nudged, calledSince>>

Nudged(e) ==
    /\ nudged' = nudged \cup {Rung(e)}
    /\ said' = IF Rung(e) = "spiral" THEN "" ELSE e.text
    /\ spiral' = (e.spiral /\ Rung(e) # "spiral")
    /\ rounds' = [rounds EXCEPT !.moved = e.moved]
    /\ Goes("begin")
    /\ UNCHANGED calledSince

FinishToolFree(e) ==
    \/ Rung(e) # "none" /\ Nudged(e)
    \/ /\ Rung(e) = "none"
       /\ said' = e.text /\ spiral' = e.spiral
       /\ MissionRound(e) \/ MissionOver(e)

PlainReply(r, same) ==
    /\ Accepted(r) /\ ~stopAsked /\ ~wrapUp.engaged
    /\ ToolFree(r) /\ r.prose # "callable"
    /\ dangling' = Stored(r)
    /\ heard' = (r.text # "")
    /\ FinishToolFree([text |-> TextAfter(r), orphan |-> r.prose = "orphan",
                       spiral |-> SpiralOf(r), records |-> hasRecords,
                       moved |-> rounds.moved, same |-> same])
    /\ UNCHANGED <<options, iterations, wrapUp, hasRecords, dry, unserved,
                   stopAsked>>

(***************************************************************************)
(* execute_tools and what follows.  recorded: a call was answered, by the  *)
(* tool or by a breaker; only a Stop leaves every call without a record.   *)
(* A result is stored for each call either way.                            *)
(***************************************************************************)
Recorded(recorded) ==
    IF recorded THEN phase # "malformed" ELSE phase = "malformed" \/ stopAsked

\* run_prose_salvage: a round in which a call succeeded goes back to the
\* model.
SalvageAdvanced ==
    /\ phase = "salvage"
    /\ hasRecords' = TRUE /\ calledSince' = TRUE
    /\ rounds' = [rounds EXCEPT !.stall = 0, !.verified = TRUE, !.moved = TRUE]
    /\ dangling' = FALSE
    /\ Goes("begin")
    /\ UNCHANGED <<options, iterations, wrapUp, said, nudged, spiral, dry,
                   unserved, stopAsked, heard>>

\* Any other falls through to the rungs and the mission's bounds.
SalvageFailed(recorded, same) ==
    /\ phase = "salvage" /\ Recorded(recorded)
    /\ hasRecords' = (hasRecords \/ recorded)
    /\ dangling' = FALSE
    /\ FinishToolFree([text |-> said, orphan |-> FALSE, spiral |-> spiral,
                       records |-> hasRecords \/ recorded,
                       moved |-> rounds.moved \/ recorded, same |-> same])
    /\ UNCHANGED <<options, iterations, wrapUp, dry, unserved,
                   stopAsked, heard>>

Watched == options.step /\ ~options.mission
DryAfter(novel) == IF novel \/ ~Watched THEN 0 ELSE dry + 1

\* run_tool_round: the results are stored, then the tool-call cap and the
\* step's exhaustion rung, which engages the wrap-up.
ToolRound(recorded, novel, capped) ==
    /\ phase \in {"tools", "malformed"} /\ Recorded(recorded)
    /\ hasRecords' = (hasRecords \/ recorded)
    /\ dangling' = FALSE
    /\ capped => options.caps /\ hasRecords'
    /\ calledSince' = (calledSince \/ recorded)
    /\ rounds' = [rounds EXCEPT !.moved = @ \/ recorded]
    /\ dry' = IF capped THEN dry ELSE DryAfter(novel)
    /\ wrapUp' = IF ~capped /\ DryAfter(novel) >= ExhaustAfter
                    THEN [engaged |-> TRUE, truncated |-> FALSE] ELSE wrapUp
    /\ said' = IF capped THEN "note" ELSE said
    /\ IF capped THEN Ends("respond", TRUE) ELSE Goes("begin")
    /\ UNCHANGED <<options, iterations, nudged, spiral, unserved,
                   stopAsked, heard>>

\* The Stop button.
PressStop ==
    /\ phase # "over" /\ ~stopAsked
    /\ stopAsked' = TRUE
    /\ UNCHANGED <<options, phase, outcome, iterations, wrapUp, said, hasRecords,
                   steering, context, history>>

CallStep ==
    \/ Escalate \/ HealUnserved \/ Overflow \/ CallFails
    \/ \E r \in Replies :
          \/ PostHocNudge(r) \/ TokensOut(r) \/ StoppedReply(r)
          \/ WrapUpReply(r) \/ CallsTools(r)
          \/ \E same \in BOOLEAN : PlainReply(r, same)

LoopStep ==
    \/ StopsAtBegin \/ WallClockOut \/ IterationsOut \/ WindowTooSmall
    \/ \E to \in {"routed", "call"} : BuildRequest(to)
    \/ CallStep
    \/ \E recorded, same \in BOOLEAN : SalvageFailed(recorded, same)
    \/ SalvageAdvanced
    \/ \E recorded, novel, capped \in BOOLEAN : ToolRound(recorded, novel, capped)

ANext == LoopStep \/ PressStop

ASpec == AInit /\ [][ANext]_agent

\* A run is one task that is never parked for good: a call has a watchdog,
\* a batch of tools races the Stop, and both return.
AFairness == WF_agent(LoopStep)

FairASpec == ASpec /\ AFairness

-----------------------------------------------------------------------------
(***************************************************************************)
(* Properties                                                              *)
(***************************************************************************)

\* No request goes out over a conversation with an unanswered tool call
\* (run_iteration 4591: a provider refuses the whole request): whatever the
\* reply was, the round that stored its calls stored results before the next
\* exchange.
RequestsPaired == InCall => ~dangling

\* The reserved iteration is reserved once (begin_iteration: "unreachable a
\* second time"): no exchange starts more than one past the cap, whatever
\* nudge sent the wrap-up back to the top.
OneReservedIteration ==
    InCall /\ options.max # 0 => iterations <= MaxIterations + 1

\* Every request is one a provider takes, and at most one is past the cap.
RequestsSound == RequestsPaired /\ OneReservedIteration

\* A mission that ends on its completion claim, short of the two bounds that
\* end a grinding one, called a tool after an earlier claim (continue_mission,
\* mission_verify_message: "a claim is only accepted after a round that
\* actually ran tools").
ClaimsAreProved ==
    (/\ phase = "over" /\ outcome = [kind |-> "respond", truncated |-> FALSE]
     /\ options.mission /\ said = "claim" /\ ~wrapUp.engaged
     /\ rounds.stall < StallRounds /\ rounds.repeat < RepeatRounds)
        => calledSince /\ rounds.claims = 1

\* The spiral recovery empties the run's text: it never follows a reply that
\* said something (call_llm_streaming takes the flag down before each stream:
\* "must not fire recovery on a healthy later round").
RecoveryKeepsReplies ==
    [][nudged' \ nudged = {"spiral"} => ~heard']_agent

\* A run either ends or calls tools for ever: rounds of talk alone are
\* bounded, in mission mode too (MISSION_STALL_ROUNDS_MAX and the one-shot
\* rungs that each round arms again).
TalkEnds ==
    \/ <>(phase = "over")
    \/ []<><<phase \in {"tools", "malformed"} \/ SalvageAdvanced>>_agent

\* What the comment of execute_tools asks for, at the end of the run: "the
\* assistant turn's tool_use blocks stay paired in context".
TurnsLeftPaired == phase = "over" => ~dangling
=============================================================================
