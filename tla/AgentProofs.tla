---------------------------- MODULE AgentProofs -----------------------------
(***************************************************************************)
(* The agent's loop and the tools it reaches over MCP: what a request to a *)
(* provider carries, when a mission's claim is accepted, and that an       *)
(* announced change of a server's tools is not forgotten.                  *)
(***************************************************************************)
EXTENDS AgentLoop, McpTools, TLAPS
-----------------------------------------------------------------------------
(* AgentLoop: iterations, claims and the text of a run.                    *)

\* The phases of a run of the loop.
Phases == {"begin", "routed", "call", "retry", "salvage", "tools", "malformed", "over"}
\* How a run ends.
Outcomes == [kind : {"none", "respond", "cancelled", "fail"}, truncated : BOOLEAN]
\* The wrap-up round.
WrapUps == [engaged : BOOLEAN, truncated : BOOLEAN]
\* What the run's text can be.
Sayings == Saying \cup {"digest", "note"}
\* The counters of the rounds.
RoundStates == [stall : 0..StallRounds, repeat : 0..RepeatRounds, claims : 0..1,
                verified : BOOLEAN, digest : BOOLEAN, moved : BOOLEAN]

\* The types of the loop's state.
LoopTypes ==
    /\ options \in Options /\ phase \in Phases /\ outcome \in Outcomes
    /\ iterations \in 0..(MaxIterations + 2) /\ wrapUp \in WrapUps /\ said \in Sayings
    /\ hasRecords \in BOOLEAN /\ nudged \subseteq Nudge /\ spiral \in BOOLEAN
    /\ rounds \in RoundStates /\ dry \in 0..ExhaustAfter /\ unserved \in 0..UnservedMax
    /\ dangling \in BOOLEAN /\ stopAsked \in BOOLEAN
    /\ calledSince \in BOOLEAN /\ heard \in BOOLEAN

\* An iteration is counted against the cap, and only the wrap-up goes one
\* past it.
IterationsCounted ==
    /\ options.max = 0 => iterations = 0
    /\ phase # "over" /\ options.max # 0
          => \/ iterations <= MaxIterations
             \/ iterations = MaxIterations + 1 /\ wrapUp.engaged

\* A tool call without its result is only there while tools run, or in a run
\* that is over.
CallsAnswered == dangling => phase \in {"salvage", "tools", "malformed", "over"}

\* The same round is not repeated past its bound, once the digest was given.
RepeatsBounded == phase # "over" => rounds.repeat < RepeatRounds \/ ~rounds.digest

\* The loop that has gone dry is wrapping up, and the wrap-up runs no tools.
WrapUpIsLast ==
    /\ ~wrapUp.engaged => dry < ExhaustAfter
    /\ phase \in {"salvage", "tools", "malformed"} => ~wrapUp.engaged

\* A salvage never follows a spiral.
SalvageIsCalm == phase = "salvage" => ~spiral

\* A claim counts as verified only after a tool was called since.
VerifiedByCalls ==
    phase # "over" /\ rounds.verified
        => \/ calledSince \/ phase = "tools"
           \/ phase = "begin" /\ stopAsked

\* What bounds the loop.
LoopBounds == IterationsCounted /\ RepeatsBounded /\ WrapUpIsLast
\* What each turn leaves behind.
LoopTurns == CallsAnswered /\ SalvageIsCalm /\ VerifiedByCalls /\ ClaimsAreProved
\* The inductive invariant of the loop.
LoopInv == LoopTypes /\ LoopBounds /\ LoopTurns

\* A run begins.
LEMMA LoopStarts == AInit => LoopInv
<1> SUFFICES ASSUME AInit PROVE LoopInv
  OBVIOUS
<1>0. /\ MaxIterations \in Nat /\ UnservedMax \in Nat /\ StallRounds \in Nat
      /\ RepeatRounds \in Nat /\ ExhaustAfter \in Nat /\ 0 < ExhaustAfter
  BY AgentLoopAssumption
<1>1. LoopTypes
  <2>1. outcome \in Outcomes /\ wrapUp \in WrapUps
    BY DEF AInit, Outcomes, WrapUps, NoOutcome
  <2>2. rounds \in RoundStates
    <3>1. rounds = [stall |-> 0, repeat |-> 0, claims |-> 0, verified |-> FALSE,
                    digest |-> FALSE, moved |-> FALSE]
      BY DEF AInit
    <3>2. 0 \in 0..StallRounds /\ 0 \in 0..RepeatRounds /\ 0 \in 0..1
      BY <1>0
    <3> QED
      BY <3>1, <3>2 DEF RoundStates
  <2>3. options \in Options /\ phase \in Phases /\ said \in Sayings
    BY DEF AInit, Phases, Sayings, Saying
  <2>4. /\ iterations \in 0..(MaxIterations + 2)
        /\ dry \in 0..ExhaustAfter /\ unserved \in 0..UnservedMax
    <3>1. iterations = 0 /\ dry = 0 /\ unserved = UnservedMax
      BY DEF AInit
    <3> QED
      BY <1>0, <3>1
  <2> QED
    BY <2>1, <2>2, <2>3, <2>4 DEF AInit, LoopTypes
<1>2. LoopBounds
  <2>1. iterations = 0 /\ dry = 0 /\ rounds.digest = FALSE /\ phase = "begin"
    BY DEF AInit
  <2> QED
    BY <1>0, <2>1 DEF LoopBounds, IterationsCounted, RepeatsBounded, WrapUpIsLast
<1>3. LoopTurns
  BY DEF AInit, LoopTurns, CallsAnswered, SalvageIsCalm, VerifiedByCalls, ClaimsAreProved
<1> QED
  BY <1>1, <1>2, <1>3 DEF LoopInv

\* A run that ends is over.
LEMMA EndsIs ==
    ASSUME NEW kind \in {"respond", "cancelled", "fail"}, NEW truncated \in BOOLEAN,
           Ends(kind, truncated)
    PROVE  phase' = "over" /\ phase' \in Phases /\ outcome' \in Outcomes
           /\ outcome'.kind = kind /\ outcome'.truncated = truncated
  BY DEF Ends, Phases, Outcomes

\* A step that ends the run other than by a claim.
LEMMA OverKeeps ==
    ASSUME LoopInv, LoopTypes', phase' = "over",
           options' = options, options.max = 0 => iterations' = 0,
           dry' = dry, wrapUp.engaged => wrapUp'.engaged,
           outcome'.truncated \/ outcome'.kind # "respond" \/ wrapUp'.engaged
    PROVE  LoopInv'
  BY DEF LoopInv, LoopBounds, IterationsCounted, RepeatsBounded, WrapUpIsLast, LoopTurns,
         CallsAnswered, SalvageIsCalm, VerifiedByCalls, ClaimsAreProved

\* begin_iteration and the building of a request.
LEMMA BeginKeeps ==
    ASSUME LoopInv,
           \/ StopsAtBegin \/ WallClockOut \/ IterationsOut \/ WindowTooSmall
           \/ \E to \in {"routed", "call"} : BuildRequest(to)
    PROVE  LoopInv'
<1>t. LoopTypes /\ LoopBounds /\ LoopTurns
  BY DEF LoopInv
<1>m. /\ MaxIterations \in Nat /\ options.max \in {0, MaxIterations} /\ MaxIterations # 0
      /\ iterations \in 0..(MaxIterations + 2) /\ wrapUp.engaged \in BOOLEAN
  BY <1>t, AgentLoopAssumption DEF Options, LoopTypes, WrapUps
<1>s. /\ "note" \in Sayings /\ "digest" \in Sayings /\ ReportOf(said) \in Sayings
      /\ TRUE \in BOOLEAN /\ FALSE \in BOOLEAN
  BY <1>t DEF Sayings, ReportOf, LoopTypes
<1>1. CASE StopsAtBegin \/ WallClockOut
  <2>1. /\ phase' = "over" /\ phase' \in Phases /\ outcome' \in Outcomes /\ outcome'.truncated
        /\ UNCHANGED <<options, iterations, wrapUp, hasRecords, steering, context,
                       stopAsked, history>>
        /\ said' \in Sayings
    BY <1>1, <1>t, <1>s, EndsIs DEF StopsAtBegin, WallClockOut, LoopTypes
  <2>2. LoopTypes'
    BY <1>t, <2>1 DEF LoopTypes, steering, context, history
  <2> QED
    BY <1>t, <2>1, <2>2, OverKeeps DEF LoopBounds, IterationsCounted, steering
<1>2. CASE IterationsOut
  <2>1. /\ phase' = "over" /\ phase' \in Phases /\ outcome' \in Outcomes /\ outcome'.truncated
        /\ UNCHANGED <<options, wrapUp, hasRecords, steering, context, stopAsked, history>>
        /\ said' \in Sayings /\ iterations' = CountsIteration /\ phase = "begin"
    BY <1>2, <1>t, <1>s, EndsIs DEF IterationsOut, LoopTypes
  <2>2. iterations' \in 0..(MaxIterations + 2) /\ (options.max = 0 => iterations' = 0)
    BY <1>m, <1>t, <2>1 DEF CountsIteration, LoopBounds, IterationsCounted
  <2>3. LoopTypes'
    BY <1>t, <2>1, <2>2 DEF LoopTypes, steering, context, history
  <2> QED
    BY <1>t, <2>1, <2>2, <2>3, OverKeeps DEF LoopBounds, IterationsCounted, steering
<1>3. ASSUME phase = "begin", OverCap => ReservesWrapUp,
             iterations' = CountsIteration, wrapUp' = WrapUpAfter
      PROVE  /\ wrapUp' \in WrapUps /\ (wrapUp.engaged => wrapUp'.engaged)
             /\ iterations' \in 0..(MaxIterations + 2) /\ (options.max = 0 => iterations' = 0)
             /\ options.max # 0 => \/ iterations' <= MaxIterations
                                   \/ iterations' = MaxIterations + 1 /\ wrapUp'.engaged
  <2>1. wrapUp' \in WrapUps /\ (wrapUp.engaged => wrapUp'.engaged)
        /\ (ReservesWrapUp => wrapUp'.engaged /\ ~wrapUp.engaged)
    BY <1>3, <1>t DEF WrapUpAfter, WrapUps, LoopTypes, ReservesWrapUp
  <2>2. CASE options.max = 0
    BY <1>3, <1>t, <1>m, <2>1, <2>2 DEF CountsIteration, LoopBounds, IterationsCounted
  <2>3. CASE options.max # 0 /\ ~OverCap
    BY <1>3, <1>m, <2>1, <2>3 DEF CountsIteration, OverCap
  <2>4. CASE options.max # 0 /\ OverCap
    BY <1>3, <1>t, <1>m, <2>1, <2>4 DEF CountsIteration, OverCap, LoopBounds, IterationsCounted
  <2> QED
    BY <2>2, <2>3, <2>4
<1>4. CASE WindowTooSmall
  <2>1. /\ phase' = "over" /\ phase' \in Phases /\ outcome' \in Outcomes /\ outcome'.kind = "fail"
        /\ UNCHANGED <<options, said, hasRecords, steering, context, stopAsked, history>>
    BY <1>4, <1>s, EndsIs DEF WindowTooSmall
  <2>2. LoopTypes'
    BY <1>t, <1>3, <1>4, <2>1 DEF LoopTypes, steering, context, history, WindowTooSmall
  <2> QED
    BY <1>3, <1>4, <2>1, <2>2, OverKeeps DEF steering, WindowTooSmall
<1>5. ASSUME NEW to \in {"routed", "call"}, BuildRequest(to) PROVE LoopInv'
  <2>1. /\ phase = "begin" /\ phase' = to /\ outcome' = outcome /\ ~stopAsked
        /\ UNCHANGED <<options, said, hasRecords, steering, unserved, dangling, stopAsked, history>>
    BY <1>5 DEF BuildRequest, Goes
  <2>2. LoopTypes'
    BY <1>t, <1>3, <1>5, <2>1 DEF LoopTypes, steering, Phases, history, BuildRequest
  <2>3. LoopBounds'
    BY <1>t, <1>3, <1>5, <2>1
       DEF LoopBounds, IterationsCounted, RepeatsBounded, WrapUpIsLast, steering, BuildRequest
  <2>4. LoopTurns'
    BY <1>t, <2>1 DEF LoopTurns, CallsAnswered, SalvageIsCalm, VerifiedByCalls, ClaimsAreProved,
                      steering, history
  <2> QED
    BY <2>2, <2>3, <2>4 DEF LoopInv
<1> QED
  BY <1>1, <1>2, <1>4, <1>5

\* A step inside the exchange, or back to the top, that changes none of the
\* bookkeeping.
LEMMA ExchangeKeeps ==
    ASSUME LoopInv, InCall, Escalate \/ HealUnserved \/ Overflow \/ CallFails
    PROVE  LoopInv'
<1>t. LoopTypes /\ LoopBounds /\ LoopTurns
  BY DEF LoopInv
<1>1. CASE Escalate \/ HealUnserved \/ Overflow
  <2>1. /\ phase' \in {"call", "retry"} /\ outcome' = outcome /\ unserved' \in 0..UnservedMax
        /\ UNCHANGED <<options, iterations, wrapUp, said, hasRecords, steering, dangling,
                       stopAsked, history>>
    BY <1>1, <1>t, AgentLoopAssumption DEF Escalate, HealUnserved, Overflow, Goes, LoopTypes, context
  <2>2. LoopTypes'
    BY <1>t, <2>1 DEF LoopTypes, steering, Phases, history
  <2>3. LoopBounds'
    BY <1>t, <2>1, InCall
       DEF LoopBounds, IterationsCounted, RepeatsBounded, WrapUpIsLast, steering, InCall
  <2>4. LoopTurns'
    BY <1>t, <2>1 DEF LoopTurns, CallsAnswered, SalvageIsCalm, VerifiedByCalls, ClaimsAreProved,
                      steering, history, InCall
  <2> QED
    BY <2>2, <2>3, <2>4 DEF LoopInv
<1>2. CASE CallFails
  <2>1. wrapUp.truncated \in BOOLEAN /\ FALSE \in BOOLEAN /\ ReportOf(said) \in Sayings
    BY <1>t DEF LoopTypes, WrapUps, ReportOf, Sayings
  <2>2. /\ phase' = "over" /\ phase' \in Phases /\ outcome' \in Outcomes
        /\ wrapUp.engaged \/ outcome'.kind # "respond"
        /\ said' \in Sayings
        /\ UNCHANGED <<options, iterations, wrapUp, hasRecords, steering, context, stopAsked, history>>
    BY <1>2, <1>t, <2>1, EndsIs DEF CallFails, LoopTypes
  <2>3. LoopTypes'
    BY <1>t, <2>2 DEF LoopTypes, steering, context, history
  <2> QED
    BY <1>t, <2>2, <2>3, OverKeeps DEF LoopBounds, IterationsCounted, steering
<1> QED
  BY <1>1, <1>2

\* What a round judged tool-free does to the run.
LEMMA ToolFreeKeeps ==
    ASSUME LoopInv, InCall \/ phase = "salvage", ~wrapUp.engaged,
           NEW e, e.text \in Sayings, e.spiral \in BOOLEAN, e.records \in BOOLEAN,
           e.moved \in BOOLEAN, FinishToolFree(e),
           hasRecords' \in BOOLEAN, heard' \in BOOLEAN, dangling' = FALSE,
           UNCHANGED <<options, iterations, wrapUp, dry, unserved, stopAsked>>
    PROVE  LoopInv'
<1>t. LoopTypes /\ LoopBounds /\ LoopTurns
  BY DEF LoopInv
<1>r. /\ rounds \in RoundStates /\ rounds.stall \in 0..StallRounds
      /\ rounds.repeat \in 0..RepeatRounds /\ rounds.claims \in 0..1
      /\ rounds.digest \in BOOLEAN /\ rounds.verified \in BOOLEAN
      /\ RepeatRounds \in Nat /\ StallRounds \in Nat
  BY <1>t, AgentLoopAssumption DEF LoopTypes, RoundStates
<1>v. /\ rounds.verified => calledSince
      /\ phase # "over" /\ phase \in Phases
      /\ rounds.repeat < RepeatRounds \/ ~rounds.digest
  BY <1>t DEF LoopTurns, VerifiedByCalls, InCall, LoopBounds, RepeatsBounded, Phases
<1>1. CASE Rung(e) # "none" /\ Nudged(e)
  <2>1. Rung(e) \in Nudge
    BY <1>1 DEF Rung, Nudge
  <2>2. /\ nudged' = nudged \cup {Rung(e)} /\ phase' = "begin" /\ outcome' = outcome
        /\ rounds' = [rounds EXCEPT !.moved = e.moved] /\ calledSince' = calledSince
        /\ said' \in Sayings /\ spiral' \in BOOLEAN
    BY <1>1 DEF Nudged, Goes, Sayings, Saying
  <2>3. /\ rounds' \in RoundStates /\ rounds'.repeat = rounds.repeat
        /\ rounds'.digest = rounds.digest /\ rounds'.verified = rounds.verified
    BY <1>r, <2>2 DEF RoundStates
  <2>4. LoopTypes'
    BY <1>t, <2>1, <2>2, <2>3 DEF LoopTypes, Phases
  <2>5. LoopBounds'
    BY <1>t, <1>v, <2>2, <2>3 DEF LoopBounds, IterationsCounted, RepeatsBounded, WrapUpIsLast
  <2>6. LoopTurns'
    BY <1>v, <2>2, <2>3 DEF LoopTurns, CallsAnswered, SalvageIsCalm, VerifiedByCalls, ClaimsAreProved
  <2> QED
    BY <2>4, <2>5, <2>6 DEF LoopInv
<1>n. /\ Noted(e) \in RoundStates /\ Noted(e).repeat = RepeatAfter(e) /\ Noted(e).stall = rounds.stall
      /\ Noted(e).claims = rounds.claims /\ Noted(e).verified = rounds.verified
  <2>1. RepeatAfter(e) \in 0..RepeatRounds
    BY <1>r, <1>v DEF RepeatAfter, SameDigest
  <2> HIDE DEF RepeatAfter
  <2> QED
    BY <1>r, <2>1 DEF Noted, RoundStates
<1>2. CASE said' = e.text /\ spiral' = e.spiral /\ MissionRound(e)
  <2> DEFINE claims == IF e.text = "claim" THEN 1 ELSE rounds.claims
             verified == rounds.verified /\ e.text # "claim"
  <2>1. /\ RepeatAfter(e) < RepeatRounds /\ rounds.stall < StallRounds
        /\ rounds' = [Noted(e) EXCEPT !.stall = StallsAfter, !.claims = claims, !.verified = verified]
        /\ calledSince' = (calledSince /\ e.text # "claim")
        /\ nudged' = {} /\ phase' = "begin" /\ outcome' = outcome
    BY <1>2, <1>n DEF MissionRound, Goes
  <2>2. StallsAfter \in 0..StallRounds /\ claims \in 0..1 /\ verified \in BOOLEAN
    BY <1>r, <2>1 DEF StallsAfter
  <2>3. verified => calledSince'
    BY <1>v, <2>1
  <2> HIDE DEF claims, verified
  <2>4. /\ rounds' \in RoundStates /\ rounds'.repeat = RepeatAfter(e) /\ rounds'.verified = verified
    BY <1>n, <2>1, <2>2 DEF RoundStates
  <2>5. LoopTypes'
    BY <1>t, <1>2, <2>1, <2>4 DEF LoopTypes, Phases
  <2>6. LoopBounds'
    BY <1>t, <1>v, <2>1, <2>4 DEF LoopBounds, IterationsCounted, RepeatsBounded, WrapUpIsLast
  <2>7. LoopTurns'
    BY <2>1, <2>3, <2>4 DEF LoopTurns, CallsAnswered, SalvageIsCalm, VerifiedByCalls, ClaimsAreProved
  <2> QED
    BY <2>5, <2>6, <2>7 DEF LoopInv
<1>3. CASE said' = e.text /\ spiral' = e.spiral /\ MissionOver(e)
  <2>1. /\ phase' = "over" /\ phase' \in Phases /\ outcome' \in Outcomes
        /\ UNCHANGED <<nudged, calledSince>>
        /\ rounds' = IF GoesOn(e.text) THEN Noted(e) ELSE rounds
    BY <1>3, EndsIs DEF MissionOver
  <2>2. LoopTypes'
    BY <1>t, <1>n, <1>r, <1>3, <2>1 DEF LoopTypes
  <2>3. LoopBounds'
    BY <1>t, <2>1 DEF LoopBounds, IterationsCounted, RepeatsBounded, WrapUpIsLast
  <2>4. CallsAnswered' /\ SalvageIsCalm' /\ VerifiedByCalls'
    BY <2>1 DEF CallsAnswered, SalvageIsCalm, VerifiedByCalls
  <2>5. ClaimsAreProved'
    <3>1. CASE GoesOn(e.text)
      <4>1. RepeatAfter(e) >= RepeatRounds \/ rounds.stall >= StallRounds
        BY <1>3, <3>1 DEF MissionOver
      <4>2. ~(rounds'.stall < StallRounds /\ rounds'.repeat < RepeatRounds)
        <5>1. RepeatAfter(e) \in Nat
          BY <1>r DEF RepeatAfter
        <5> HIDE DEF RepeatAfter
        <5> QED
          BY <1>n, <1>r, <2>1, <3>1, <4>1, <5>1
      <4> QED
        BY <4>2 DEF ClaimsAreProved
    <3>2. CASE ~GoesOn(e.text)
      BY <1>3, <1>r, <1>v, <2>1, <3>2 DEF GoesOn, Unverified, ClaimsAreProved
    <3> QED
      BY <3>1, <3>2
  <2> QED
    BY <2>2, <2>3, <2>4, <2>5 DEF LoopInv, LoopTurns
<1> QED
  BY <1>1, <1>2, <1>3 DEF FinishToolFree

\* A reply is judged.
LEMMA ReplyKeeps ==
    ASSUME LoopInv, NEW r \in Replies,
           \/ PostHocNudge(r) \/ TokensOut(r) \/ StoppedReply(r)
           \/ WrapUpReply(r) \/ CallsTools(r)
           \/ \E same \in BOOLEAN : PlainReply(r, same)
    PROVE  LoopInv'
<1>t. LoopTypes /\ LoopBounds /\ LoopTurns
  BY DEF LoopInv
<1>r. /\ r.text \in Saying /\ r.calls \in {"none", "malformed", "some"}
      /\ r.prose \in {"none", "callable", "orphan"} /\ r.circles \in {"no", "aborted", "after"}
      /\ r.prose # "none" => r.calls = "none" /\ r.text # ""
      /\ r.circles = "aborted" => r.text = ""
  BY DEF Replies, Reply
<1>s. /\ TextAfter(r) \in Sayings /\ ReportOf(TextAfter(r)) \in Sayings /\ "note" \in Sayings
      /\ SpiralOf(r) \in BOOLEAN /\ Stored(r) \in BOOLEAN
      /\ wrapUp.truncated \in BOOLEAN /\ TRUE \in BOOLEAN
  BY <1>t, <1>r DEF LoopTypes, TextAfter, ReportOf, Sayings, WrapUps, SpiralOf, Stored
<1>c. InCall => /\ phase \notin {"begin", "salvage", "tools", "malformed", "over"}
                /\ ~dangling /\ (rounds.verified => calledSince)
  BY <1>t DEF InCall, LoopTurns, CallsAnswered, VerifiedByCalls
<1>1. CASE PostHocNudge(r)
  <2>1. /\ phase' = "begin" /\ outcome' = outcome /\ nudged' \subseteq Nudge /\ spiral' \in BOOLEAN
        /\ heard' = FALSE /\ InCall
        /\ UNCHANGED <<options, iterations, wrapUp, said, hasRecords, rounds, dry,
                       context, stopAsked, calledSince>>
    BY <1>1, <1>t, <1>s DEF PostHocNudge, Goes, LoopTypes, Nudge
  <2>2. LoopTypes'
    BY <1>t, <2>1 DEF LoopTypes, Phases, context
  <2>3. LoopBounds'
    BY <1>c, <1>t, <2>1 DEF LoopBounds, IterationsCounted, RepeatsBounded, WrapUpIsLast
  <2>4. LoopTurns'
    BY <1>c, <2>1 DEF LoopTurns, CallsAnswered, SalvageIsCalm, VerifiedByCalls, ClaimsAreProved, context
  <2> QED
    BY <2>2, <2>3, <2>4 DEF LoopInv
<1>2. CASE TokensOut(r) \/ StoppedReply(r) \/ WrapUpReply(r)
  <2>1. /\ phase' = "over" /\ phase' \in Phases /\ outcome' \in Outcomes
        /\ outcome'.truncated \/ wrapUp.engaged
    BY <1>2, <1>s, EndsIs DEF TokensOut, StoppedReply, WrapUpReply
  <2>2. /\ said' \in Sayings /\ spiral' \in BOOLEAN /\ dangling' \in BOOLEAN
        /\ UNCHANGED <<options, iterations, wrapUp, hasRecords, nudged, rounds, dry, unserved,
                       stopAsked, history>>
    BY <1>2, <1>s, <1>t DEF TokensOut, StoppedReply, WrapUpReply, context, LoopTypes
  <2>3. LoopTypes'
    BY <1>t, <2>1, <2>2 DEF LoopTypes, history
  <2> QED
    BY <1>t, <2>1, <2>2, <2>3, OverKeeps DEF LoopBounds, IterationsCounted
<1>3. CASE CallsTools(r)
  <2>1. /\ InCall /\ ~wrapUp.engaged /\ said' \in Sayings /\ dangling' = TRUE
        /\ spiral' = SpiralOf(r) /\ spiral' \in BOOLEAN /\ heard' \in BOOLEAN /\ outcome' = outcome
        /\ UNCHANGED <<options, iterations, wrapUp, hasRecords, nudged, dry, unserved, stopAsked,
                       calledSince>>
    BY <1>3, <1>s DEF CallsTools, Accepted, Goes
  <2>2. /\ phase' \in {"salvage", "tools", "malformed"}
        /\ phase' = "salvage" => r.prose = "callable"
        /\ r.calls = "some" => phase' = "tools"
    BY <1>3, <1>r DEF CallsTools, Goes, ToolFree
  <2>3. /\ rounds' \in RoundStates /\ rounds'.repeat = rounds.repeat /\ rounds'.digest = rounds.digest
        /\ r.calls # "some" => rounds'.verified = rounds.verified
    <3>1. CASE r.calls = "some"
      <4>1. rounds' = [rounds EXCEPT !.stall = 0, !.verified = TRUE]
        BY <1>3, <3>1 DEF CallsTools
      <4>2. 0 \in 0..StallRounds /\ rounds \in RoundStates
        BY <1>t, AgentLoopAssumption DEF LoopTypes
      <4> QED
        BY <3>1, <4>1, <4>2 DEF RoundStates
    <3>2. CASE r.calls # "some"
      BY <1>3, <1>t, <3>2 DEF CallsTools, LoopTypes
    <3> QED
      BY <3>1, <3>2
  <2>4. LoopTypes'
    BY <1>t, <2>1, <2>2, <2>3 DEF LoopTypes, Phases
  <2>5. LoopBounds'
    BY <1>c, <1>t, <2>1, <2>2, <2>3 DEF LoopBounds, IterationsCounted, RepeatsBounded, WrapUpIsLast
  <2>6. SalvageIsCalm'
    BY <1>r, <2>1, <2>2 DEF SalvageIsCalm, SpiralOf
  <2>7. CallsAnswered' /\ VerifiedByCalls' /\ ClaimsAreProved'
    BY <1>c, <2>1, <2>2, <2>3 DEF CallsAnswered, VerifiedByCalls, ClaimsAreProved
  <2> QED
    BY <2>4, <2>5, <2>6, <2>7 DEF LoopInv, LoopTurns
<1>4. ASSUME NEW same \in BOOLEAN, PlainReply(r, same) PROVE LoopInv'
  <2> DEFINE e == [text |-> TextAfter(r), orphan |-> r.prose = "orphan",
                   spiral |-> SpiralOf(r), records |-> hasRecords,
                   moved |-> rounds.moved, same |-> same]
  <2>1. /\ e.text \in Sayings /\ e.spiral \in BOOLEAN /\ e.records \in BOOLEAN /\ e.moved \in BOOLEAN
    BY <1>s, <1>t DEF LoopTypes, RoundStates
  <2>2. /\ FinishToolFree(e) /\ InCall /\ ~wrapUp.engaged /\ dangling' = FALSE
        /\ heard' \in BOOLEAN /\ hasRecords' \in BOOLEAN
        /\ UNCHANGED <<options, iterations, wrapUp, dry, unserved, stopAsked>>
    BY <1>4, <1>t DEF PlainReply, Accepted, Stored, ToolFree, LoopTypes
  <2> HIDE DEF e
  <2> QED
    BY <2>1, <2>2, ToolFreeKeeps
<1> QED
  BY <1>1, <1>2, <1>3, <1>4

\* The tools of a round, and the salvage, return.
LEMMA ToolsKeep ==
    ASSUME LoopInv,
           \/ SalvageAdvanced
           \/ \E recorded, same \in BOOLEAN : SalvageFailed(recorded, same)
           \/ \E recorded, novel, capped \in BOOLEAN : ToolRound(recorded, novel, capped)
    PROVE  LoopInv'
<1>t. LoopTypes /\ LoopBounds /\ LoopTurns
  BY DEF LoopInv
<1>1. CASE SalvageAdvanced
  <2>1. /\ phase = "salvage" /\ phase' = "begin" /\ outcome' = outcome /\ dangling' = FALSE
        /\ hasRecords' = TRUE /\ calledSince' = TRUE
        /\ rounds' = [rounds EXCEPT !.stall = 0, !.verified = TRUE, !.moved = TRUE]
        /\ UNCHANGED <<options, iterations, wrapUp, said, nudged, spiral, dry, unserved,
                       stopAsked, heard>>
    BY <1>1 DEF SalvageAdvanced, Goes
  <2>2. 0 \in 0..StallRounds /\ rounds \in RoundStates
    BY <1>t, AgentLoopAssumption DEF LoopTypes
  <2>3. rounds' \in RoundStates /\ rounds'.repeat = rounds.repeat /\ rounds'.digest = rounds.digest
    BY <2>1, <2>2 DEF RoundStates
  <2>4. LoopTypes'
    BY <1>t, <2>1, <2>3 DEF LoopTypes, Phases
  <2>5. LoopBounds'
    BY <1>t, <2>1, <2>3 DEF LoopBounds, IterationsCounted, RepeatsBounded, WrapUpIsLast
  <2>6. LoopTurns'
    BY <2>1 DEF LoopTurns, CallsAnswered, SalvageIsCalm, VerifiedByCalls, ClaimsAreProved
  <2> QED
    BY <2>4, <2>5, <2>6 DEF LoopInv
<1>2. ASSUME NEW recorded \in BOOLEAN, NEW same \in BOOLEAN, SalvageFailed(recorded, same)
      PROVE  LoopInv'
  <2> DEFINE e == [text |-> said, orphan |-> FALSE, spiral |-> spiral,
                   records |-> hasRecords \/ recorded,
                   moved |-> rounds.moved \/ recorded, same |-> same]
  <2>1. /\ e.text \in Sayings /\ e.spiral \in BOOLEAN /\ e.records \in BOOLEAN /\ e.moved \in BOOLEAN
    BY <1>t DEF LoopTypes, RoundStates
  <2>2. /\ FinishToolFree(e) /\ phase = "salvage" /\ dangling' = FALSE
        /\ heard' \in BOOLEAN /\ hasRecords' \in BOOLEAN
        /\ UNCHANGED <<options, iterations, wrapUp, dry, unserved, stopAsked>>
    BY <1>2, <1>t DEF SalvageFailed, LoopTypes
  <2>3. ~wrapUp.engaged
    BY <1>t, <2>2 DEF LoopBounds, WrapUpIsLast
  <2> HIDE DEF e
  <2> QED
    BY <2>1, <2>2, <2>3, ToolFreeKeeps
<1>3. ASSUME NEW recorded \in BOOLEAN, NEW novel \in BOOLEAN, NEW capped \in BOOLEAN,
             ToolRound(recorded, novel, capped)
      PROVE  LoopInv'
  <2>1. /\ phase \in {"tools", "malformed"} /\ ~wrapUp.engaged /\ dry < ExhaustAfter
        /\ dry \in 0..ExhaustAfter /\ ExhaustAfter \in Nat /\ rounds \in RoundStates
    BY <1>3, <1>t, AgentLoopAssumption DEF ToolRound, LoopBounds, WrapUpIsLast, LoopTypes
  <2>2. /\ rounds' \in RoundStates /\ rounds'.repeat = rounds.repeat /\ rounds'.digest = rounds.digest
        /\ rounds'.verified = rounds.verified
    BY <1>3, <2>1 DEF ToolRound, RoundStates
  <2>3. DryAfter(novel) \in 0..ExhaustAfter
    BY <2>1 DEF DryAfter
  <2>4. /\ dry' \in 0..ExhaustAfter /\ wrapUp' \in WrapUps
        /\ ~wrapUp'.engaged => dry' < ExhaustAfter
    BY <1>3, <1>t, <2>1, <2>3 DEF ToolRound, WrapUps, LoopTypes
  <2>5. /\ said' \in Sayings /\ hasRecords' \in BOOLEAN /\ dangling' = FALSE
        /\ calledSince' = (calledSince \/ recorded) /\ calledSince' \in BOOLEAN
        /\ recorded \/ phase = "malformed" \/ stopAsked
        /\ UNCHANGED <<options, iterations, nudged, spiral, unserved, stopAsked, heard>>
    BY <1>3, <1>t DEF ToolRound, Recorded, LoopTypes, Sayings
  <2>6. /\ phase' \in Phases /\ outcome' \in Outcomes
        /\ \/ phase' = "begin" /\ outcome' = outcome
           \/ phase' = "over" /\ outcome'.truncated
    <3>1. CASE capped
      BY <1>3, <3>1, EndsIs DEF ToolRound
    <3>2. CASE ~capped
      BY <1>3, <1>t, <3>2 DEF ToolRound, Goes, LoopTypes, Phases
    <3> QED
      BY <3>1, <3>2
  <2>7. LoopTypes'
    BY <1>t, <2>2, <2>4, <2>5, <2>6 DEF LoopTypes
  <2>8. LoopBounds'
    BY <1>t, <2>1, <2>2, <2>4, <2>5, <2>6 DEF LoopBounds, IterationsCounted, RepeatsBounded, WrapUpIsLast
  <2>9. CallsAnswered' /\ SalvageIsCalm' /\ ClaimsAreProved'
    BY <2>5, <2>6 DEF CallsAnswered, SalvageIsCalm, ClaimsAreProved
  <2>10. VerifiedByCalls'
    BY <1>t, <2>1, <2>2, <2>5, <2>6 DEF VerifiedByCalls, LoopTurns
  <2> QED
    BY <2>7, <2>8, <2>9, <2>10 DEF LoopInv, LoopTurns
<1> QED
  BY <1>1, <1>2, <1>3

\* Every step of the loop keeps the invariant.
LEMMA LoopKeeps == LoopInv /\ [ANext]_agent => LoopInv'
<1> SUFFICES ASSUME LoopInv, [ANext]_agent PROVE LoopInv'
  OBVIOUS
<1>1. CASE LoopStep
  <2>1. CASE CallStep
    <3>1. CASE Escalate \/ HealUnserved \/ Overflow \/ CallFails
      BY <3>1, ExchangeKeeps DEF Escalate, HealUnserved, Overflow, CallFails, InCall
    <3> QED
      BY <2>1, <3>1, ReplyKeeps DEF CallStep
  <2> QED
    BY <1>1, <2>1, BeginKeeps, ToolsKeep DEF LoopStep
<1>2. CASE PressStop
  <2>1. /\ phase # "over" /\ stopAsked' = TRUE
        /\ UNCHANGED <<options, phase, outcome, iterations, wrapUp, said, hasRecords,
                       steering, context, history>>
    BY <1>2 DEF PressStop
  <2> QED
    BY <2>1 DEF LoopInv, LoopTypes, LoopBounds, IterationsCounted, RepeatsBounded, WrapUpIsLast,
         LoopTurns, CallsAnswered, SalvageIsCalm, VerifiedByCalls, ClaimsAreProved,
         steering, context, history
<1>3. CASE UNCHANGED agent
  BY <1>3 DEF agent, LoopInv, LoopTypes, LoopBounds, IterationsCounted, RepeatsBounded, WrapUpIsLast,
         LoopTurns, CallsAnswered, SalvageIsCalm, VerifiedByCalls, ClaimsAreProved
<1> QED
  BY <1>1, <1>2, <1>3 DEF ANext

\* run_streaming: for any options, replies, failures and any caps, no
\* request leaves a tool call without its answer, and at most one exchange
\* starts past the iteration cap: the reserved wrap-up.
THEOREM RequestsHold == ASpec => [](ATypeOK /\ RequestsSound)
<1>1. LoopInv => ATypeOK /\ RequestsSound
  <2> SUFFICES ASSUME LoopInv PROVE ATypeOK /\ RequestsSound
    OBVIOUS
  <2>1. ATypeOK
    BY DEF LoopInv, LoopTypes, ATypeOK, Phases, Outcomes, WrapUps, Sayings, RoundStates
  <2>2. RequestsPaired
    BY DEF LoopInv, LoopTurns, CallsAnswered, RequestsPaired, InCall
  <2>3. OneReservedIteration
    BY AgentLoopAssumption
       DEF LoopInv, LoopTypes, LoopBounds, IterationsCounted, OneReservedIteration, InCall
  <2> QED
    BY <2>1, <2>2, <2>3 DEF RequestsSound
<1> QED
  BY <1>1, LoopStarts, LoopKeeps, PTL DEF ASpec

\* continue_mission: a mission whose completion claim is accepted ran a tool
\* after an earlier claim, or ended on one of the two bounds of a grinding
\* one.
THEOREM ClaimsHold == ASpec => []ClaimsAreProved
<1>1. LoopInv => ClaimsAreProved
  BY DEF LoopInv, LoopTurns
<1> QED
  BY <1>1, LoopStarts, LoopKeeps, PTL DEF ASpec

\* The recovery from a spiral never discards the text of a round that said
\* something.
THEOREM RecoveryHolds == ASpec => RecoveryKeepsReplies
<1>1. ASSUME LoopInv, [ANext]_agent, ~UNCHANGED agent, nudged' \ nudged = {"spiral"} PROVE ~heard'
  <2>1. nudged' # nudged /\ "spiral" \in nudged' /\ nudged' # {}
    BY <1>1
  <2>2. ASSUME NEW e, FinishToolFree(e) PROVE e.spiral /\ Rung(e) = "spiral"
    <3>1. Nudged(e)
      BY <2>1, <2>2 DEF FinishToolFree, MissionRound, MissionOver
    <3> QED
      BY <1>1, <3>1 DEF Nudged, Rung
  <2>3. ASSUME NEW r \in Replies, NEW same \in BOOLEAN, PlainReply(r, same) PROVE ~heard'
    <3> DEFINE e == [text |-> TextAfter(r), orphan |-> r.prose = "orphan",
                     spiral |-> SpiralOf(r), records |-> hasRecords,
                     moved |-> rounds.moved, same |-> same]
    <3>0. FinishToolFree(e) /\ e.spiral = SpiralOf(r)
      BY <2>3 DEF PlainReply
    <3> HIDE DEF e
    <3>1. SpiralOf(r)
      BY <2>2, <3>0
    <3>2. r.text = "" /\ heard' = (r.text # "")
      BY <2>3, <3>1 DEF PlainReply, SpiralOf, Replies, Reply
    <3> QED
      BY <3>2
  <2>4. ASSUME NEW recorded \in BOOLEAN, NEW same \in BOOLEAN, SalvageFailed(recorded, same)
        PROVE  FALSE
    BY <1>1, <2>2, <2>4 DEF SalvageFailed, LoopInv, LoopTurns, SalvageIsCalm
  <2>5. ASSUME NEW r \in Replies, PostHocNudge(r) PROVE ~heard'
    BY <2>5 DEF PostHocNudge
  <2>6. ASSUME NEW r \in Replies, TokensOut(r) \/ StoppedReply(r) \/ WrapUpReply(r) \/ CallsTools(r)
        PROVE  FALSE
    BY <2>1, <2>6 DEF TokensOut, StoppedReply, WrapUpReply, CallsTools
  <2>7. CASE Escalate \/ HealUnserved \/ Overflow \/ CallFails
    BY <2>1, <2>7 DEF Escalate, HealUnserved, Overflow, CallFails, steering
  <2>8. CASE StopsAtBegin \/ WallClockOut \/ IterationsOut \/ WindowTooSmall
             \/ \E to \in {"routed", "call"} : BuildRequest(to)
    BY <2>1, <2>8 DEF StopsAtBegin, WallClockOut, IterationsOut, WindowTooSmall, BuildRequest, steering
  <2>9. CASE SalvageAdvanced \/ PressStop
             \/ \E recorded, novel, capped \in BOOLEAN : ToolRound(recorded, novel, capped)
    BY <2>1, <2>9 DEF SalvageAdvanced, ToolRound, PressStop, steering
  <2>10. CASE CallStep
    BY <2>3, <2>5, <2>6, <2>7, <2>10 DEF CallStep
  <2> QED
    BY <1>1, <2>4, <2>8, <2>9, <2>10 DEF ANext, LoopStep
<1>2. LoopInv /\ [ANext]_agent => [nudged' \ nudged = {"spiral"} => ~heard']_agent
  BY <1>1
<1> QED
  BY <1>2, LoopStarts, LoopKeeps, PTL DEF ASpec, RecoveryKeepsReplies
-----------------------------------------------------------------------------
(* McpTools: slots, notices and the registry.                              *)

\* The methods of a request, and none.
Methods == {"none", "call", "list"}
\* The lines the server writes: its notices and its answers.
Lines == [kind : {"changed", "ok", "mismatch"}, id : 0..IdMax, ver : 0..VersionMax]
\* The requests the server has yet to answer.
Asks == [id : 0..IdMax, method : Methods]
\* The states of a request.
Reqs == [at : {"idle", "write", "wait", "ok", "mismatch", "error", "woken", "registry"},
         id : 0..IdMax, method : Methods, retried : BOOLEAN, list : 0..VersionMax]

\* The types of the transport, the requesters and the registries.
McpTypes ==
    /\ version \in 0..VersionMax
    /\ inbox \subseteq Asks /\ stdout \in Seq(Lines)
    /\ slots \subseteq Id /\ nextId \in 1..IdMax + 1
    /\ req \in [Requester -> Reqs]
    /\ dirty \in BOOLEAN /\ permit \in BOOLEAN /\ failed \in BOOLEAN
    /\ cache \in 0..VersionMax /\ registry \in 0..VersionMax /\ announced \in 0..VersionMax

\* A slot is the id of exactly one request in flight, and every id is used.
SlotsHeld ==
    /\ \A c \in Requester : InFlight(c) => req[c].id \in slots
    /\ \A i \in slots : \E c \in Requester : InFlight(c) /\ req[c].id = i
    /\ \A c, d \in Requester : req[c].id = req[d].id => c = d \/ req[c].id = 0
    /\ \A c \in Requester : req[c].id < nextId
    /\ \A q \in inbox : q.id < nextId
    /\ \A i \in DOMAIN stdout : stdout[i].id < nextId

\* The watcher lists, and a list is not answered with a mismatch.
WatcherAsks ==
    /\ req[Watcher].at # "mismatch"
    /\ InFlight(Watcher) =>
          /\ req[Watcher].method = "list"
          /\ \A q \in inbox : q.id = req[Watcher].id => q.method = "list"
          /\ \A i \in DOMAIN stdout : stdout[i].id = req[Watcher].id => stdout[i].kind # "mismatch"

\* What the reader will read is no older than what it has read.
LinesOrdered ==
    /\ announced <= version
    /\ \A i \in DOMAIN stdout : announced <= stdout[i].ver /\ stdout[i].ver <= version
    /\ \A i, j \in DOMAIN stdout : i <= j => stdout[i].ver <= stdout[j].ver

\* A dirty flag has a permit or an awake watcher behind it; a registry that
\* is behind what was announced is dirty, or its listing has failed.
Noticed ==
    /\ dirty => permit \/ req[Watcher].at = "woken"
    /\ req[Watcher].at \in {"idle", "woken"} /\ registry < announced => dirty \/ failed
    /\ req[Watcher].at \in {"ok", "registry"} /\ req[Watcher].list < announced => dirty

\* The inductive invariant.
McpInv == McpTypes /\ SlotsHeld /\ WatcherAsks /\ LinesOrdered /\ Noticed

\* Nothing is asked, nothing announced.
LEMMA McpStarts == TInit => McpInv
<1> SUFFICES ASSUME TInit PROVE McpInv
  OBVIOUS
<1>0. IdMax \in Nat /\ VersionMax \in Nat /\ Watcher \in Requester
  BY McpAssumption DEF Requester
<1>1. NoReq \in Reqs /\ NoReq.at = "idle" /\ NoReq.id = 0
  BY <1>0 DEF NoReq, Reqs, Methods
<1>2. McpTypes
  <2>1. inbox \subseteq Asks /\ stdout \in Seq(Lines) /\ slots \subseteq Id
    BY DEF TInit
  <2>2. req \in [Requester -> Reqs]
    BY <1>1 DEF TInit
  <2>3. 0 \in 0..VersionMax /\ 1 \in 1..IdMax + 1
    BY <1>0
  <2> QED
    BY <2>1, <2>2, <2>3 DEF TInit, McpTypes
<1>3. SlotsHeld
  BY <1>1 DEF TInit, SlotsHeld, InFlight
<1>4. WatcherAsks /\ LinesOrdered /\ Noticed
  BY <1>0, <1>1 DEF TInit, WatcherAsks, LinesOrdered, Noticed, InFlight
<1> QED
  BY <1>2, <1>3, <1>4 DEF McpInv

\* A requester's call moves on; it keeps its slot, gives it up, or had none.
LEMMA SlotsMove ==
    ASSUME McpTypes, SlotsHeld, NEW c \in Requester, NEW r \in Reqs,
           req' = [req EXCEPT ![c] = r], r.id = req[c].id \/ r.id = 0,
           \/ InFlight(c) /\ r.at \in {"write", "wait"} /\ r.id = req[c].id /\ slots' = slots
           \/ InFlight(c) /\ r.at \notin {"write", "wait"} /\ slots' = slots \ {req[c].id}
           \/ ~InFlight(c) /\ r.at \notin {"write", "wait"} /\ slots' = slots,
           \A q \in inbox' : q \in inbox \/ q.id = req[c].id,
           UNCHANGED <<stdout, nextId>>
    PROVE  /\ SlotsHeld' /\ req' \in [Requester -> Reqs] /\ slots' \subseteq Id
           /\ req'[c] = r /\ \A d \in Requester : d # c => req'[d] = req[d]
<1>1. /\ req' \in [Requester -> Reqs] /\ req'[c] = r
      /\ \A d \in Requester : d # c => req'[d] = req[d]
  BY DEF McpTypes
<1>n. nextId \in Nat /\ nextId > 0
  <2>1. nextId \in 1..IdMax + 1 /\ IdMax \in Nat
    BY McpAssumption DEF McpTypes
  <2> QED
    BY <2>1
<1>2. slots' \subseteq slots /\ slots' \subseteq Id
  BY DEF McpTypes
<1>z. 0 \notin slots
  BY McpAssumption DEF McpTypes, Id
<1>3. \A d \in Requester : InFlight(d)' => InFlight(d) /\ req'[d].id = req[d].id
  BY <1>1 DEF InFlight
<1>4. \A d \in Requester : d # c /\ InFlight(d) => InFlight(d)'
  BY <1>1 DEF InFlight
<1>5. ASSUME NEW d \in Requester, InFlight(d)' PROVE req'[d].id \in slots'
  <2>1. req[d].id \in slots /\ req[d].id # 0
    BY <1>3, <1>5, <1>z DEF SlotsHeld
  <2>2. CASE d = c
    BY <1>1, <1>3, <1>5, <2>1, <2>2 DEF InFlight
  <2>3. CASE d # c
    BY <1>3, <1>5, <2>1, <2>3 DEF SlotsHeld
  <2> QED
    BY <2>2, <2>3
<1>6. ASSUME NEW i \in slots' PROVE \E d \in Requester : InFlight(d)' /\ req'[d].id = i
  <2>1. PICK d \in Requester : InFlight(d) /\ req[d].id = i
    BY <1>2 DEF SlotsHeld
  <2>2. CASE d = c
    BY <1>1, <2>1, <2>2 DEF InFlight
  <2>3. CASE d # c
    BY <1>1, <1>4, <2>1, <2>3
  <2> QED
    BY <2>2, <2>3
<1>7. \A d, e \in Requester : req'[d].id = req'[e].id => d = e \/ req'[d].id = 0
  BY <1>1 DEF SlotsHeld
<1>8. \A d \in Requester : req'[d].id < nextId'
  BY <1>1, <1>n DEF SlotsHeld
<1>9. \A q \in inbox' : q.id < nextId'
  BY DEF SlotsHeld
<1> QED
  BY <1>1, <1>2, <1>5, <1>6, <1>7, <1>8, <1>9 DEF SlotsHeld

\* StdioTransport::request registers a slot under an id nobody has.
LEMMA RegistersIs ==
    ASSUME McpTypes, SlotsHeld, NEW c \in Requester, NEW method \in {"call", "list"},
           NEW retried \in BOOLEAN, ~InFlight(c), Registers(c, method, retried),
           UNCHANGED <<inbox, stdout>>
    PROVE  /\ SlotsHeld' /\ req' \in [Requester -> Reqs] /\ slots' \subseteq Id
           /\ nextId' \in 1..IdMax + 1
           /\ \A d \in Requester : d # c => req'[d] = req[d]
           /\ req'[c].at = "write" /\ req'[c].method = method /\ req'[c].id = nextId
<1> DEFINE r == [at |-> "write", id |-> nextId, method |-> method, retried |-> retried, list |-> 0]
<1>0. /\ nextId \in Nat /\ nextId <= IdMax /\ nextId' = nextId + 1 /\ slots' = slots \cup {nextId}
      /\ req' = [req EXCEPT ![c] = r] /\ IdMax \in Nat /\ VersionMax \in Nat /\ nextId > 0
  BY McpAssumption DEF Registers, Sets, McpTypes
<1>1. r \in Reqs /\ r.at = "write" /\ r.method = method /\ r.id = nextId
  <2>1. nextId \in 0..IdMax /\ 0 \in 0..VersionMax
    BY <1>0
  <2> QED
    BY <2>1 DEF Reqs, Methods
<1> HIDE DEF r
<1>2. /\ req' \in [Requester -> Reqs] /\ req'[c] = r
      /\ \A d \in Requester : d # c => req'[d] = req[d]
  BY <1>0, <1>1 DEF McpTypes
<1>3. nextId' \in 1..IdMax + 1 /\ slots' \subseteq Id
  BY <1>0 DEF McpTypes, Id
<1>i. \A d \in Requester : req[d].id \in Nat /\ req[d].id < nextId
  <2> SUFFICES ASSUME NEW d \in Requester PROVE req[d].id \in Nat /\ req[d].id < nextId
    OBVIOUS
  <2>1. req[d].id \in 0..IdMax /\ req[d].id < nextId
    BY DEF McpTypes, Reqs, SlotsHeld
  <2> QED
    BY <1>0, <2>1
<1>4. \A d \in Requester : InFlight(d)' <=> d = c \/ InFlight(d)
  BY <1>1, <1>2 DEF InFlight
<1>5. \A d \in Requester : InFlight(d)' => req'[d].id \in slots'
  BY <1>0, <1>1, <1>2, <1>4 DEF SlotsHeld
<1>6. ASSUME NEW i \in slots' PROVE \E d \in Requester : InFlight(d)' /\ req'[d].id = i
  <2>1. CASE i = nextId
    BY <1>1, <1>2, <1>4, <2>1
  <2>2. CASE i # nextId
    <3>1. PICK d \in Requester : InFlight(d) /\ req[d].id = i
      BY <1>0, <2>2 DEF SlotsHeld
    <3>2. d # c
      BY <3>1
    <3> QED
      BY <1>2, <1>4, <3>1, <3>2
  <2> QED
    BY <2>1, <2>2
<1>7. \A d, e \in Requester : req'[d].id = req'[e].id => d = e \/ req'[d].id = 0
  BY <1>1, <1>2, <1>i, <1>0 DEF SlotsHeld
<1>8. \A d \in Requester : req'[d].id < nextId'
  BY <1>0, <1>1, <1>2, <1>i
<1>9. (\A q \in inbox' : q.id < nextId') /\ (\A i \in DOMAIN stdout' : stdout'[i].id < nextId')
  <2>1. ASSUME NEW q \in inbox PROVE q.id < nextId + 1
    <3>1. q.id \in 0..IdMax /\ q.id < nextId
      BY DEF McpTypes, Asks, SlotsHeld
    <3> QED
      BY <1>0, <3>1
  <2>2. ASSUME NEW i \in DOMAIN stdout PROVE stdout[i].id < nextId + 1
    <3>0. stdout[i] \in Lines
      BY DEF McpTypes
    <3>1. stdout[i].id \in 0..IdMax /\ stdout[i].id < nextId
      BY <3>0 DEF Lines, SlotsHeld
    <3> QED
      BY <1>0, <3>1
  <2> QED
    BY <1>0, <2>1, <2>2
<1> QED
  BY <1>1, <1>2, <1>3, <1>5, <1>6, <1>7, <1>8, <1>9 DEF SlotsHeld

\* A line is put behind the others.
LEMMA LineAdded ==
    ASSUME McpTypes, LinesOrdered, NEW line \in Lines, stdout' = Append(stdout, line),
           version' \in 0..VersionMax, version <= version', line.ver = version',
           announced' = announced
    PROVE  /\ stdout' \in Seq(Lines) /\ LinesOrdered'
           /\ \A i \in DOMAIN stdout' : \/ i \in DOMAIN stdout /\ stdout'[i] = stdout[i]
                                       \/ stdout'[i] = line
<1>0. stdout \in Seq(Lines) /\ VersionMax \in Nat /\ version \in Nat /\ announced \in Nat /\ version' \in Nat
  BY McpAssumption DEF McpTypes
<1>1. stdout' \in Seq(Lines) /\ DOMAIN stdout = 1..Len(stdout) /\ DOMAIN stdout' = 1..Len(stdout) + 1
      /\ Len(stdout) \in Nat
  BY <1>0
<1>2. /\ \A i \in DOMAIN stdout : i \in DOMAIN stdout' /\ stdout'[i] = stdout[i]
      /\ stdout'[Len(stdout) + 1] = line
      /\ \A i \in DOMAIN stdout' : i \in DOMAIN stdout \/ i = Len(stdout) + 1
  BY <1>0, <1>1
<1>3. \A i \in DOMAIN stdout : stdout[i].ver \in Nat
  <2> SUFFICES ASSUME NEW i \in DOMAIN stdout PROVE stdout[i].ver \in Nat
    OBVIOUS
  <2>1. stdout[i] \in Lines
    BY <1>0
  <2> QED
    BY <1>0, <2>1 DEF Lines
<1>4. announced <= version'
  BY <1>0 DEF LinesOrdered
<1>5. \A i \in DOMAIN stdout : announced <= stdout[i].ver /\ stdout[i].ver <= version'
  BY <1>0, <1>3 DEF LinesOrdered
<1>6. \A i \in DOMAIN stdout' : announced <= stdout'[i].ver /\ stdout'[i].ver <= version'
  BY <1>0, <1>2, <1>4, <1>5
<1>7. ASSUME NEW i \in DOMAIN stdout', NEW j \in DOMAIN stdout', i <= j
      PROVE  stdout'[i].ver <= stdout'[j].ver
  <2>1. CASE j \in DOMAIN stdout
    <3>1. i \in DOMAIN stdout
      BY <1>1, <1>7, <2>1
    <3> QED
      BY <1>2, <1>7, <2>1, <3>1 DEF LinesOrdered
  <2>2. CASE j \notin DOMAIN stdout
    BY <1>2, <1>6, <1>7, <2>2
  <2> QED
    BY <2>1, <2>2
<1> QED
  BY <1>1, <1>2, <1>4, <1>6, <1>7 DEF LinesOrdered

\* The reader takes the first line.
LEMMA LineRead ==
    ASSUME McpTypes, stdout # <<>>, stdout' = Tail(stdout)
    PROVE  /\ stdout' \in Seq(Lines) /\ Head(stdout) \in Lines
           /\ 1 \in DOMAIN stdout /\ Head(stdout) = stdout[1]
           /\ \A i \in DOMAIN stdout' : i \in Nat /\ i + 1 \in DOMAIN stdout /\ 1 <= i + 1
                                       /\ stdout'[i] = stdout[i + 1]
  BY DEF McpTypes

\* Reading a line keeps the rest in order.
LEMMA LinesStayOrdered ==
    ASSUME McpTypes, LinesOrdered, stdout # <<>>, stdout' = Tail(stdout), version' = version,
           announced' \in {announced, Head(stdout).ver}
    PROVE  LinesOrdered'
<1>1. /\ 1 \in DOMAIN stdout /\ Head(stdout) = stdout[1]
      /\ \A i \in DOMAIN stdout' : i \in Nat /\ i + 1 \in DOMAIN stdout /\ 1 <= i + 1
                                  /\ stdout'[i] = stdout[i + 1]
  BY LineRead
<1>2. announced' <= version
  BY <1>1 DEF LinesOrdered
<1>3. \A i \in DOMAIN stdout' : announced' <= stdout'[i].ver /\ stdout'[i].ver <= version
  BY <1>1 DEF LinesOrdered
<1>4. ASSUME NEW i \in DOMAIN stdout', NEW j \in DOMAIN stdout', i <= j
      PROVE  stdout'[i].ver <= stdout'[j].ver
  <2>1. i + 1 <= j + 1
    BY <1>1, <1>4
  <2> QED
    BY <1>1, <2>1 DEF LinesOrdered
<1> QED
  BY <1>2, <1>3, <1>4 DEF LinesOrdered

\* The server and the reader's notices.
LEMMA ServerKeeps ==
    ASSUME McpInv, ServerStep \/ ReadNotification \/ ReaderEnds \/ Close \/ UNCHANGED mcp
    PROVE  McpInv'
<1>i. McpTypes /\ SlotsHeld /\ WatcherAsks /\ LinesOrdered /\ Noticed
  BY DEF McpInv
<1>0. /\ IdMax \in Nat /\ VersionMax \in Nat /\ version \in 0..VersionMax /\ nextId \in 1..IdMax + 1
      /\ announced \in 0..VersionMax
  BY <1>i, McpAssumption DEF McpTypes
<1>1. ASSUME NEW line \in Lines, stdout' = Append(stdout, line), version' \in 0..VersionMax,
             version <= version', line.ver = version', inbox' \subseteq inbox, line.id < nextId,
             InFlight(Watcher) /\ line.id = req[Watcher].id => line.kind # "mismatch",
             UNCHANGED <<slots, nextId, req, lists>>
      PROVE  McpInv'
  <2>1. /\ stdout' \in Seq(Lines) /\ LinesOrdered'
        /\ \A i \in DOMAIN stdout' : \/ i \in DOMAIN stdout /\ stdout'[i] = stdout[i]
                                    \/ stdout'[i] = line
    BY <1>1, <1>i, LineAdded DEF lists
  <2>2. McpTypes'
    BY <1>1, <1>i, <2>1 DEF McpTypes, lists
  <2>3. SlotsHeld'
    BY <1>1, <1>i, <2>1 DEF SlotsHeld, InFlight
  <2>4. WatcherAsks'
    BY <1>1, <1>i, <2>1 DEF WatcherAsks, InFlight
  <2>5. Noticed'
    BY <1>1, <1>i DEF Noticed, lists
  <2> QED
    BY <2>1, <2>2, <2>3, <2>4, <2>5 DEF McpInv
<1>2. CASE ServerChanges
  <2> DEFINE line == [kind |-> "changed", id |-> 0, ver |-> version + 1]
  <2>1. /\ stdout' = Append(stdout, line) /\ version' = version + 1 /\ version' \in 0..VersionMax
        /\ version <= version'
        /\ UNCHANGED <<inbox, slots, nextId, req, lists>>
    BY <1>2, <1>0 DEF ServerChanges
  <2>2. 0 \in 0..IdMax /\ version + 1 \in 0..VersionMax /\ 0 < nextId
    BY <1>0, <2>1
  <2>3. line \in Lines /\ line.ver = version' /\ line.id = 0 /\ line.kind = "changed"
    BY <2>1, <2>2 DEF Lines
  <2> HIDE DEF line
  <2> QED
    BY <1>1, <2>1, <2>2, <2>3
<1>3. ASSUME NEW q \in inbox, NEW kind \in {"ok", "mismatch"}, ServerAnswers(q, kind) PROVE McpInv'
  <2> DEFINE line == [kind |-> kind, id |-> q.id, ver |-> version]
  <2>1. q.id \in 0..IdMax /\ q.id < nextId
    BY <1>i DEF McpTypes, Asks, SlotsHeld
  <2>2. /\ stdout' = Append(stdout, line) /\ version' = version /\ version <= version
        /\ inbox' \subseteq inbox /\ UNCHANGED <<slots, nextId, req, lists>>
        /\ kind = "mismatch" => q.method = "call"
    BY <1>3, <1>0 DEF ServerAnswers
  <2>3. line \in Lines /\ line.ver = version /\ line.id = q.id /\ line.kind = kind
    BY <1>0, <2>1 DEF Lines
  <2> HIDE DEF line
  <2>4. InFlight(Watcher) /\ line.id = req[Watcher].id => line.kind # "mismatch"
    BY <1>i, <2>2, <2>3 DEF WatcherAsks
  <2> QED
    BY <1>0, <1>1, <2>1, <2>2, <2>3, <2>4
<1>4. CASE ServerDies \/ ReaderEnds \/ Close \/ UNCHANGED mcp
  <2>1. inbox' \subseteq inbox /\ UNCHANGED <<version, stdout, slots, nextId, req, lists>>
    BY <1>4 DEF ServerDies, ReaderEnds, Close, mcp, lists
  <2>2. McpTypes' /\ LinesOrdered' /\ Noticed'
    BY <1>i, <2>1 DEF McpTypes, LinesOrdered, Noticed, lists
  <2>3. SlotsHeld' /\ WatcherAsks'
    BY <1>i, <2>1 DEF SlotsHeld, WatcherAsks, InFlight
  <2> QED
    BY <2>2, <2>3 DEF McpInv
<1>5. CASE ReadNotification
  <2>1. /\ stdout # <<>> /\ stdout' = Tail(stdout) /\ dirty' = TRUE /\ permit' = TRUE
        /\ announced' = Head(stdout).ver
        /\ UNCHANGED <<version, inbox, slots, nextId, req, cache, registry, failed>>
    BY <1>5 DEF ReadNotification, Mark
  <2>2. LinesOrdered'
    BY <1>i, <2>1, LinesStayOrdered
  <2>3. /\ stdout' \in Seq(Lines) /\ Head(stdout) \in Lines
        /\ \A i \in DOMAIN stdout' : i + 1 \in DOMAIN stdout /\ stdout'[i] = stdout[i + 1]
    BY <1>i, <2>1, LineRead
  <2>4. McpTypes'
    BY <1>i, <2>1, <2>3 DEF McpTypes, Lines
  <2>5. SlotsHeld' /\ WatcherAsks'
    BY <1>i, <2>1, <2>3 DEF SlotsHeld, WatcherAsks, InFlight
  <2>6. Noticed'
    BY <2>1 DEF Noticed
  <2> QED
    BY <2>2, <2>4, <2>5, <2>6 DEF McpInv
<1> QED
  BY <1>2, <1>3, <1>4, <1>5 DEF ServerStep

\* An answer completes the request whose slot it takes.
LEMMA AnswerKeeps == ASSUME McpInv, ReadResponse PROVE McpInv'
<1>i. McpTypes /\ SlotsHeld /\ WatcherAsks /\ LinesOrdered /\ Noticed
  BY DEF McpInv
<1> DEFINE line == Head(stdout)
<1>1. /\ stdout # <<>> /\ line.kind # "changed" /\ stdout' = Tail(stdout)
      /\ slots' = slots \ {line.id}
      /\ req' = [c \in Requester |->
                    IF line.id \in slots /\ req[c].id = line.id
                    THEN [req[c] EXCEPT !.at = line.kind, !.list = line.ver]
                    ELSE req[c]]
      /\ UNCHANGED <<version, inbox, nextId, lists>>
  BY DEF ReadResponse
<1>2. LinesOrdered'
  BY <1>i, <1>1, LinesStayOrdered DEF lists
<1>3. /\ stdout' \in Seq(Lines) /\ line \in Lines /\ 1 \in DOMAIN stdout /\ line = stdout[1]
      /\ \A i \in DOMAIN stdout' : i + 1 \in DOMAIN stdout /\ stdout'[i] = stdout[i + 1]
  BY <1>i, <1>1, LineRead
<1>4. line.kind \in {"ok", "mismatch"} /\ line.ver \in 0..VersionMax /\ announced <= line.ver
  BY <1>1, <1>3, <1>i DEF Lines, LinesOrdered
<1> HIDE DEF line
<1>5. ASSUME NEW c \in Requester, line.id \in slots, req[c].id = line.id
      PROVE  /\ InFlight(c) /\ req'[c] \in Reqs /\ req'[c].at = line.kind /\ req'[c].id = req[c].id
             /\ req'[c].list = line.ver
  <2>1. InFlight(c)
    <3>1. PICK d \in Requester : InFlight(d) /\ req[d].id = line.id
      BY <1>5, <1>i DEF SlotsHeld
    <3>2. line.id # 0
      BY <1>5, <1>i, McpAssumption DEF McpTypes, Id
    <3> QED
      BY <1>5, <1>i, <3>1, <3>2 DEF SlotsHeld
  <2>2. req[c] \in Reqs /\ req'[c] = [req[c] EXCEPT !.at = line.kind, !.list = line.ver]
    BY <1>1, <1>5, <1>i DEF McpTypes
  <2> QED
    BY <1>4, <1>5, <2>1, <2>2 DEF Reqs
<1>6. ASSUME NEW c \in Requester, ~(line.id \in slots /\ req[c].id = line.id) PROVE req'[c] = req[c]
  BY <1>1, <1>6
<1>7. req' \in [Requester -> Reqs]
  <2>1. \A c \in Requester : req'[c] \in Reqs
    BY <1>5, <1>6, <1>i DEF McpTypes
  <2>2. req' = [c \in Requester |-> req'[c]]
    BY <1>1
  <2> QED
    BY <2>1, <2>2
<1>8. McpTypes'
  BY <1>1, <1>3, <1>7, <1>i DEF McpTypes, lists
<1>9. \A c \in Requester : req'[c].id = req[c].id
  BY <1>5, <1>6
<1>10. \A c \in Requester : InFlight(c)' <=> InFlight(c) /\ ~(line.id \in slots /\ req[c].id = line.id)
  <2> SUFFICES ASSUME NEW c \in Requester
               PROVE  InFlight(c)' <=> InFlight(c) /\ ~(line.id \in slots /\ req[c].id = line.id)
    OBVIOUS
  <2>1. CASE line.id \in slots /\ req[c].id = line.id
    BY <1>4, <1>5, <2>1 DEF InFlight
  <2>2. CASE ~(line.id \in slots /\ req[c].id = line.id)
    BY <1>6, <2>2 DEF InFlight
  <2> QED
    BY <2>1, <2>2
<1>11. SlotsHeld'
  <2>1. \A c \in Requester : InFlight(c)' => req'[c].id \in slots'
    BY <1>1, <1>9, <1>10, <1>i DEF SlotsHeld
  <2>2. \A i \in slots' : \E c \in Requester : InFlight(c)' /\ req'[c].id = i
    BY <1>1, <1>9, <1>10, <1>i DEF SlotsHeld
  <2>3. \A c, d \in Requester : req'[c].id = req'[d].id => c = d \/ req'[c].id = 0
    BY <1>9, <1>i DEF SlotsHeld
  <2>4. /\ \A c \in Requester : req'[c].id < nextId'
        /\ \A q \in inbox' : q.id < nextId'
        /\ \A i \in DOMAIN stdout' : stdout'[i].id < nextId'
    BY <1>1, <1>3, <1>9, <1>i DEF SlotsHeld
  <2> QED
    BY <2>1, <2>2, <2>3, <2>4 DEF SlotsHeld
<1>w. Watcher \in Requester
  BY DEF Requester
<1>12. CASE line.id \in slots /\ req[Watcher].id = line.id
  <2>1. /\ InFlight(Watcher) /\ req'[Watcher].at = line.kind /\ req'[Watcher].list = line.ver
    BY <1>5, <1>12, <1>w
  <2>2. line.kind = "ok"
    BY <1>3, <1>4, <1>12, <1>i, <2>1 DEF WatcherAsks
  <2>3. WatcherAsks'
    BY <2>1, <2>2 DEF WatcherAsks, InFlight
  <2>4. req'[Watcher].at = "ok" /\ ~(line.ver < announced) /\ req[Watcher].at # "woken"
    <3>1. announced \in Nat /\ line.ver \in Nat
      BY <1>4, <1>i, McpAssumption DEF McpTypes
    <3> QED
      BY <1>4, <2>1, <2>2, <3>1 DEF InFlight
  <2>5. Noticed'
    BY <1>1, <1>i, <2>1, <2>4 DEF Noticed, lists
  <2> QED
    BY <1>2, <1>8, <1>11, <2>3, <2>5 DEF McpInv
<1>13. CASE ~(line.id \in slots /\ req[Watcher].id = line.id)
  <2>1. req'[Watcher] = req[Watcher]
    BY <1>6, <1>13, <1>w
  <2>2. WatcherAsks'
    BY <1>1, <1>3, <1>i, <2>1 DEF WatcherAsks, InFlight
  <2>3. Noticed'
    BY <1>1, <1>i, <2>1 DEF Noticed, lists
  <2> QED
    BY <1>2, <1>8, <1>11, <2>2, <2>3 DEF McpInv
<1> QED
  BY <1>12, <1>13

\* Writing a request, and the ways it ends without an answer.
LEMMA RequestKeeps == ASSUME McpInv, NEW c \in Requester, RequestStep(c) PROVE McpInv'
<1>i. McpTypes /\ SlotsHeld /\ WatcherAsks /\ LinesOrdered /\ Noticed /\ req[c] \in Reqs
  BY DEF McpInv, McpTypes
<1>w. Watcher \in Requester
  BY DEF Requester
<1>1. CASE Writes(c)
  <2> DEFINE r == [req[c] EXCEPT !.at = "wait"]
             ask == [id |-> req[c].id, method |-> req[c].method]
  <2>1. /\ r \in Reqs /\ r.at = "wait" /\ r.id = req[c].id /\ r.method = req[c].method
    BY <1>i DEF Reqs
  <2>2. /\ ask \in Asks /\ ask.id = req[c].id /\ ask.method = req[c].method
    BY <1>i DEF Reqs, Asks
  <2>3. /\ req' = [req EXCEPT ![c] = r] /\ req[c].at = "write" /\ inbox' = inbox \cup {ask}
        /\ UNCHANGED <<version, stdout, slots, nextId, lists>>
    BY <1>1 DEF Writes, Doing, Sets
  <2> HIDE DEF r, ask
  <2>4. InFlight(c)
    BY <2>3 DEF InFlight
  <2>5. /\ SlotsHeld' /\ req' \in [Requester -> Reqs] /\ slots' \subseteq Id
        /\ req'[c] = r /\ \A d \in Requester : d # c => req'[d] = req[d]
    BY <1>i, <2>1, <2>2, <2>3, <2>4, SlotsMove
  <2>6. McpTypes' /\ LinesOrdered'
    BY <1>i, <2>2, <2>3, <2>5 DEF McpTypes, LinesOrdered, lists
  <2>7. CASE c = Watcher
    <3>1. WatcherAsks'
      BY <1>i, <2>1, <2>2, <2>3, <2>4, <2>5, <2>7 DEF WatcherAsks, InFlight
    <3>2. Noticed'
      BY <1>i, <2>1, <2>3, <2>5, <2>7 DEF Noticed, lists
    <3> QED
      BY <2>5, <2>6, <3>1, <3>2 DEF McpInv
  <2>8. CASE c # Watcher
    <3>1. req'[Watcher] = req[Watcher]
      BY <1>w, <2>5, <2>8
    <3>2. InFlight(Watcher) => ask.id # req[Watcher].id
      <4>1. 0 \notin slots
        BY <1>i, McpAssumption DEF McpTypes, Id
      <4> QED
        BY <1>i, <1>w, <2>2, <2>8, <4>1 DEF SlotsHeld
    <3>3. WatcherAsks'
      BY <1>i, <2>3, <3>1, <3>2 DEF WatcherAsks, InFlight
    <3>4. Noticed'
      BY <1>i, <2>3, <3>1 DEF Noticed, lists
    <3> QED
      BY <2>5, <2>6, <3>3, <3>4 DEF McpInv
  <2> QED
    BY <2>7, <2>8
<1>2. CASE WriteFails(c) \/ TimesOut(c)
  <2> DEFINE r == [req[c] EXCEPT !.at = "error"]
  <2>1. /\ r \in Reqs /\ r.at = "error" /\ r.id = req[c].id
    BY <1>i DEF Reqs
  <2>2. /\ req' = [req EXCEPT ![c] = r] /\ InFlight(c) /\ slots' = slots \ {req[c].id}
        /\ UNCHANGED <<version, inbox, stdout, nextId, lists>>
    BY <1>2 DEF WriteFails, TimesOut, Doing, Sets, InFlight, SlotFreed, link
  <2> HIDE DEF r
  <2>3. /\ SlotsHeld' /\ req' \in [Requester -> Reqs] /\ slots' \subseteq Id
        /\ req'[c] = r /\ \A d \in Requester : d # c => req'[d] = req[d]
    BY <1>i, <2>1, <2>2, SlotsMove
  <2>4. McpTypes' /\ LinesOrdered'
    BY <1>i, <2>2, <2>3 DEF McpTypes, LinesOrdered, lists
  <2>5. WatcherAsks'
    BY <1>i, <1>w, <2>1, <2>2, <2>3 DEF WatcherAsks, InFlight
  <2>6. Noticed'
    BY <1>i, <1>w, <2>1, <2>2, <2>3 DEF Noticed, InFlight, lists
  <2> QED
    BY <2>3, <2>4, <2>5, <2>6 DEF McpInv
<1> QED
  BY <1>1, <1>2 DEF RequestStep

\* call_tool, from outside the exchange.
LEMMA CallerKeeps == ASSUME McpInv, NEW c \in ToolCaller, CallerStep(c) PROVE McpInv'
<1>i. McpTypes /\ SlotsHeld /\ WatcherAsks /\ LinesOrdered /\ Noticed
  BY DEF McpInv
<1>w. Watcher \in Requester /\ c \in Requester /\ c # Watcher /\ req[c] \in Reqs
  BY <1>i, McpAssumption DEF Requester, McpTypes
<1>1. ASSUME SlotsHeld', req' \in [Requester -> Reqs], slots' \subseteq Id, nextId' \in 1..IdMax + 1,
             \A d \in Requester : d # c => req'[d] = req[d], cache' \in 0..VersionMax,
             UNCHANGED <<link, dirty, permit, registry, announced, failed>>
      PROVE  McpInv'
  <2>1. req'[Watcher] = req[Watcher]
    BY <1>1, <1>w
  <2>2. McpTypes' /\ LinesOrdered'
    BY <1>1, <1>i DEF McpTypes, LinesOrdered, link
  <2>3. WatcherAsks' /\ Noticed'
    BY <1>1, <1>i, <2>1 DEF WatcherAsks, Noticed, InFlight, link
  <2> QED
    BY <1>1, <2>2, <2>3 DEF McpInv
<1>2. CASE CallTool(c) \/ Relists(c) \/ RelistAnswered(c) \/ AsksAgain(c)
  <2>1. /\ ~InFlight(c) /\ UNCHANGED <<link, dirty, permit, registry, announced, failed>>
        /\ cache' \in {cache, req[c].list}
    BY <1>2 DEF CallTool, Relists, RelistAnswered, AsksAgain, Doing, InFlight, lists
  <2>2. \E method \in {"call", "list"}, retried \in BOOLEAN : Registers(c, method, retried)
    BY <1>2, <1>w DEF CallTool, Relists, RelistAnswered, AsksAgain, Reqs
  <2>3. /\ SlotsHeld' /\ req' \in [Requester -> Reqs] /\ slots' \subseteq Id
        /\ nextId' \in 1..IdMax + 1 /\ \A d \in Requester : d # c => req'[d] = req[d]
    BY <1>i, <1>w, <2>1, <2>2, RegistersIs DEF link
  <2>4. cache' \in 0..VersionMax
    BY <1>i, <1>w, <2>1 DEF McpTypes, Reqs
  <2> QED
    BY <1>1, <2>1, <2>3, <2>4
<1>3. CASE CallEnds(c)
  <2>1. NoReq \in Reqs /\ NoReq.at = "idle" /\ NoReq.id = 0
    BY McpAssumption DEF NoReq, Reqs, Methods
  <2>2. /\ req' = [req EXCEPT ![c] = NoReq] /\ ~InFlight(c) /\ UNCHANGED <<link, slots, nextId, lists>>
    BY <1>3 DEF CallEnds, Doing, Sets, InFlight
  <2>3. /\ SlotsHeld' /\ req' \in [Requester -> Reqs] /\ slots' \subseteq Id
        /\ \A d \in Requester : d # c => req'[d] = req[d]
    BY <1>i, <1>w, <2>1, <2>2, SlotsMove DEF link
  <2> QED
    BY <1>1, <1>i, <2>2, <2>3 DEF McpTypes, lists
<1> QED
  BY <1>2, <1>3 DEF CallerStep

\* watch_list_changes, from outside the exchange.
LEMMA WatcherKeeps == ASSUME McpInv, WatcherStep PROVE McpInv'
<1>i. McpTypes /\ SlotsHeld /\ WatcherAsks /\ LinesOrdered /\ Noticed
  BY DEF McpInv
<1>w. Watcher \in Requester /\ req[Watcher] \in Reqs
  BY <1>i DEF Requester, McpTypes
<1>n. NoReq \in Reqs /\ NoReq.at = "idle" /\ NoReq.id = 0
  BY McpAssumption DEF NoReq, Reqs, Methods
<1>1. ASSUME NEW r \in Reqs, req' = [req EXCEPT ![Watcher] = r], ~InFlight(Watcher),
             r.at \in {"idle", "woken", "registry"}, r.id = req[Watcher].id \/ r.id = 0,
             UNCHANGED <<link, slots, nextId, announced>>,
             dirty' \in BOOLEAN, permit' \in BOOLEAN, failed' \in BOOLEAN,
             cache' \in 0..VersionMax, registry' \in 0..VersionMax
      PROVE  /\ McpTypes' /\ SlotsHeld' /\ WatcherAsks' /\ LinesOrdered' /\ req'[Watcher] = r
  <2>1. /\ SlotsHeld' /\ req' \in [Requester -> Reqs] /\ slots' \subseteq Id /\ req'[Watcher] = r
    BY <1>1, <1>i, <1>w, SlotsMove DEF link
  <2>2. McpTypes' /\ LinesOrdered'
    BY <1>1, <1>i, <2>1 DEF McpTypes, LinesOrdered, link
  <2>3. WatcherAsks'
    BY <1>1, <2>1 DEF WatcherAsks, InFlight
  <2> QED
    BY <2>1, <2>2, <2>3
<1>b. /\ dirty \in BOOLEAN /\ permit \in BOOLEAN /\ failed \in BOOLEAN /\ registry \in 0..VersionMax
      /\ cache \in 0..VersionMax /\ req[Watcher].list \in 0..VersionMax
  BY <1>i, <1>w DEF McpTypes, Reqs
<1>2. CASE WatcherWakes
  <2> DEFINE r == [NoReq EXCEPT !.at = "woken"]
  <2>1. r \in Reqs /\ r.at = "woken" /\ r.id = 0
    BY <1>n DEF Reqs
  <2>2. /\ req[Watcher].at = "idle" /\ permit' = FALSE /\ req' = [req EXCEPT ![Watcher] = r]
        /\ UNCHANGED <<link, slots, nextId, dirty, cache, registry, announced, failed>>
    BY <1>2 DEF WatcherWakes, Doing, Sets
  <2> HIDE DEF r
  <2>3. McpTypes' /\ SlotsHeld' /\ WatcherAsks' /\ LinesOrdered' /\ req'[Watcher] = r
    BY <1>1, <1>b, <2>1, <2>2 DEF InFlight
  <2>4. Noticed'
    BY <1>i, <2>1, <2>2, <2>3 DEF Noticed
  <2> QED
    BY <2>3, <2>4 DEF McpInv
<1>3. CASE WatcherTakes
  <2>1. CASE dirty
    <3>1. /\ Registers(Watcher, "list", FALSE) /\ ~InFlight(Watcher) /\ dirty' = FALSE
          /\ UNCHANGED <<link, permit, cache, registry, announced, failed>>
      BY <1>3, <2>1 DEF WatcherTakes, Doing, InFlight
    <3>2. /\ SlotsHeld' /\ req' \in [Requester -> Reqs] /\ slots' \subseteq Id
          /\ nextId' \in 1..IdMax + 1
          /\ req'[Watcher].at = "write" /\ req'[Watcher].method = "list" /\ req'[Watcher].id = nextId
      BY <1>i, <1>w, <3>1, RegistersIs DEF link
    <3>3. McpTypes' /\ LinesOrdered' /\ Noticed'
      BY <1>i, <3>1, <3>2 DEF McpTypes, LinesOrdered, Noticed, link
    <3>4. /\ \A q \in inbox : q.id # nextId
          /\ \A i \in DOMAIN stdout : stdout[i].id # nextId
      <4>1. \A q \in inbox : q.id \in Nat
        BY <1>i DEF McpTypes, Asks
      <4>2. \A i \in DOMAIN stdout : stdout[i].id \in Nat
        <5> SUFFICES ASSUME NEW i \in DOMAIN stdout PROVE stdout[i].id \in Nat
          OBVIOUS
        <5>1. stdout[i] \in Lines
          BY <1>i DEF McpTypes
        <5> QED
          BY <5>1 DEF Lines
      <4>3. nextId \in Nat
        BY <1>i DEF McpTypes
      <4> QED
        BY <1>i, <4>1, <4>2, <4>3 DEF SlotsHeld
    <3>5. WatcherAsks'
      BY <3>1, <3>2, <3>4 DEF WatcherAsks, link
    <3> QED
      BY <3>2, <3>3, <3>5 DEF McpInv
  <2>2. CASE ~dirty
    <3>1. /\ req[Watcher].at = "woken" /\ dirty' = FALSE /\ req' = [req EXCEPT ![Watcher] = NoReq]
          /\ UNCHANGED <<link, slots, nextId, permit, cache, registry, announced, failed>>
      BY <1>3, <2>2 DEF WatcherTakes, Doing, Sets
    <3>2. McpTypes' /\ SlotsHeld' /\ WatcherAsks' /\ LinesOrdered' /\ req'[Watcher] = NoReq
      BY <1>1, <1>b, <1>n, <3>1 DEF InFlight
    <3>3. Noticed'
      BY <1>i, <1>n, <2>2, <3>1, <3>2 DEF Noticed
    <3> QED
      BY <3>2, <3>3 DEF McpInv
  <2> QED
    BY <2>1, <2>2
<1>4. CASE WatcherCaches
  <2> DEFINE r == [req[Watcher] EXCEPT !.at = "registry"]
  <2>1. r \in Reqs /\ r.at = "registry" /\ r.id = req[Watcher].id /\ r.list = req[Watcher].list
    BY <1>w DEF Reqs
  <2>2. /\ req[Watcher].at = "ok" /\ cache' = req[Watcher].list /\ req' = [req EXCEPT ![Watcher] = r]
        /\ UNCHANGED <<link, slots, nextId, dirty, permit, registry, announced, failed>>
    BY <1>4 DEF WatcherCaches, Doing, Sets
  <2> HIDE DEF r
  <2>3. McpTypes' /\ SlotsHeld' /\ WatcherAsks' /\ LinesOrdered' /\ req'[Watcher] = r
    BY <1>1, <1>b, <2>1, <2>2 DEF InFlight
  <2>4. Noticed'
    BY <1>i, <2>1, <2>2, <2>3 DEF Noticed
  <2> QED
    BY <2>3, <2>4 DEF McpInv
<1>5. CASE WatcherRegisters
  <2>2. /\ req[Watcher].at = "registry" /\ registry' = req[Watcher].list
        /\ req' = [req EXCEPT ![Watcher] = NoReq] /\ dirty' = dirty
        /\ UNCHANGED <<link, slots, nextId, permit, cache, announced, failed>>
    BY <1>5 DEF WatcherRegisters, Doing, Sets, FlagAfterResync
  <2>3. McpTypes' /\ SlotsHeld' /\ WatcherAsks' /\ LinesOrdered' /\ req'[Watcher] = NoReq
    BY <1>1, <1>b, <1>n, <2>2 DEF InFlight
  <2>4. Noticed'
    BY <1>i, <1>n, <2>2, <2>3 DEF Noticed
  <2> QED
    BY <2>3, <2>4 DEF McpInv
<1>6. CASE WatcherFails
  <2>2. /\ req[Watcher].at = "error" /\ failed' = TRUE
        /\ req' = [req EXCEPT ![Watcher] = NoReq]
        /\ UNCHANGED <<link, slots, nextId, dirty, permit, cache, registry, announced>>
    BY <1>6 DEF WatcherFails, Doing, Sets
  <2>3. McpTypes' /\ SlotsHeld' /\ WatcherAsks' /\ LinesOrdered' /\ req'[Watcher] = NoReq
    BY <1>1, <1>b, <1>n, <2>2 DEF InFlight
  <2>4. Noticed'
    BY <1>i, <1>n, <2>2, <2>3 DEF Noticed
  <2> QED
    BY <2>3, <2>4 DEF McpInv
<1> QED
  BY <1>2, <1>3, <1>4, <1>5, <1>6 DEF WatcherStep

\* Every step of the server, the reader and the requesters keeps the
\* invariant.
LEMMA McpKeeps == McpInv /\ [TNext]_mcp => McpInv'
  BY ServerKeeps, AnswerKeeps, RequestKeeps, CallerKeeps, WatcherKeeps DEF TNext, ReaderStep

\* StdioTransport and watch_list_changes: for any number of callers and any
\* interleaving, every pending slot belongs to one request in flight and to
\* no other, and a change of the tool list that was announced is never
\* forgotten while the connection lives: the registry has it, a listing that
\* will have it is under way, or a listing of it has failed.
THEOREM McpHolds == TSpec => []McpSound
<1>1. ASSUME McpInv PROVE McpSound
  <2>1. TTypeOK
    BY <1>1 DEF McpInv, McpTypes, TTypeOK
  <2>2. SlotsAreRequests
    BY <1>1 DEF McpInv, SlotsHeld, SlotsAreRequests
  <2>3. AnnouncedIsOnItsWay
    <3>1. req[Watcher] \in Reqs
      BY <1>1 DEF McpInv, McpTypes, Requester
    <3> QED
      BY <1>1, <3>1 DEF McpInv, WatcherAsks, Noticed, AnnouncedIsOnItsWay, Resyncing, Reqs
  <2> QED
    BY <2>1, <2>2, <2>3 DEF McpSound
<1> QED
  BY <1>1, McpStarts, McpKeeps, PTL DEF TSpec
=============================================================================
