---------------------------- MODULE OutboundQueue ----------------------------
(***************************************************************************)
(* The queue of outgoing channel messages (nanna-channels/src/queue.rs),   *)
(* for one provider: callers that enqueue, concurrent callers of process,  *)
(* the rate limiter, and the bounded channel of events, which most senders *)
(* fill while they hold the lock on the queues.                            *)
(*                                                                         *)
(* Times are abstracted to whether a retry time or a cooldown has passed,  *)
(* and QueueStats, which nothing reads back, is left out.  The provider    *)
(* that answers a send and the consumer of the events are external.        *)
(***************************************************************************)
EXTENDS Naturals, FiniteSets

CONSTANTS
    Mail,          \* messages, numbered in the order they are enqueued
    Urgent,        \* those of the higher of two priorities
    Processor,     \* callers of process
    QueueMax,      \* max_queue_size
    MaxAttempts,   \* max_retries
    Burst,         \* the rate limiter's max_tokens
    EventMax,      \* capacity of the event channel
    LimitsMax      \* bound: answers of the provider that it is rate limited

ASSUME QueueAssumption ==
    /\ Mail \subseteq Nat /\ Urgent \subseteq Mail
    /\ {QueueMax, MaxAttempts, Burst, EventMax} \subseteq Nat \ {0} /\ LimitsMax \in Nat

VARIABLES
    mail,        \* where each message is, its attempts, whether its retry time is to come
    tokens,      \* RateLimiter.tokens, whole ones
    cooling,     \* RateLimiter.cooldown_until lies ahead
    events,      \* events in the channel
    lock,        \* who holds the write lock across an await: "free", "enqueue" or a processor
    proc,        \* the callers of process
    limits       \* history: how often each message was answered with a rate limit

outbound == <<mail, tokens, cooling, events, lock, proc, limits>>

NoProc == [pc |-> "idle", hand |-> {}, retry |-> {}]

QInit ==
    /\ mail = [i \in Mail |-> [at |-> "none", attempts |-> 0, late |-> FALSE]]
    /\ tokens = Burst /\ cooling = FALSE
    /\ events = 0 /\ lock = "free"
    /\ proc = [p \in Processor |-> NoProc]
    /\ limits = [i \in Mail |-> 0]

Queued == {i \in Mail : mail[i].at = "queued"}

\* Ord of QueuedMessage: by priority, then the older one.
Before(i, j) ==
    IF (i \in Urgent) = (j \in Urgent) THEN i < j ELSE i \in Urgent

Moved(messages, place) ==
    [i \in Mail |-> IF i \in messages THEN [mail[i] EXCEPT !.at = place] ELSE mail[i]]

StepsTo(p, pc) == proc' = [proc EXCEPT ![p].pc = pc]

(***************************************************************************)
(* enqueue_with_priority: a full queue drops the message it would send     *)
(* last, whatever comes in for it; the Queued event goes out under lock.   *)
(***************************************************************************)

Crowded ==
    IF Cardinality(Queued) >= QueueMax
    THEN {i \in Queued : \A j \in Queued : j # i => Before(j, i)} ELSE {}

Enqueue(i) ==
    /\ lock = "free"
    /\ mail[i].at = "none" /\ \A j \in Mail : j < i => mail[j].at # "none"
    /\ mail' = [Moved(Crowded, "dropped") EXCEPT ![i].at = "queued"]
    /\ lock' = "enqueue"
    /\ UNCHANGED <<tokens, cooling, events, proc, limits>>

\* The event is in the channel and the lock is dropped.
EnqueueEvent ==
    /\ lock = "enqueue" /\ events < EventMax
    /\ events' = events + 1
    /\ lock' = "free"
    /\ UNCHANGED <<mail, tokens, cooling, proc, limits>>

Clear ==
    /\ lock = "free" /\ Queued # {}
    /\ mail' = Moved(Queued, "cleared")
    /\ UNCHANGED <<tokens, cooling, events, lock, proc, limits>>

(***************************************************************************)
(* process.                                                                *)
(***************************************************************************)

CanSend == ~cooling /\ tokens >= 1
Ready == {i \in Queued : ~mail[i].late}

Process(p) ==
    /\ proc[p].pc = "idle"
    /\ StepsTo(p, "take")
    /\ UNCHANGED <<mail, tokens, cooling, events, lock, limits>>

\* take_ready_message: the best message whose retry time has come.
Take(p) ==
    /\ proc[p].pc = "take" /\ lock = "free"
    /\ IF CanSend /\ Ready # {}
       THEN LET best == {i \in Ready : \A j \in Ready : j # i => Before(i, j)}
            IN  /\ mail' = Moved(best, "held")
                /\ proc' = [proc EXCEPT ![p].hand = best, ![p].pc = "acquire"]
       ELSE StepsTo(p, "readd") /\ UNCHANGED mail
    /\ UNCHANGED <<tokens, cooling, events, lock, limits>>

\* Mutant: a message that finds no token is not put back.
NotRequeued(messages) == mail

Requeued(messages) == Moved(messages, "queued")

\* Mutant: the attempt is not counted.
Uncounted(m) == m

Attempted(m) == [m EXCEPT !.attempts = @ + 1]

\* The token may have gone to another caller since the message was taken.
Acquire(p) ==
    /\ proc[p].pc = "acquire" /\ lock = "free"
    /\ IF CanSend
       THEN /\ tokens' = tokens - 1
            /\ mail' = [i \in Mail |-> IF i \in proc[p].hand
                                       THEN Attempted(mail[i]) ELSE mail[i]]
            /\ StepsTo(p, "send")
       ELSE /\ mail' = Requeued(proc[p].hand)
            /\ proc' = [proc EXCEPT ![p].hand = {}, ![p].pc = "readd"]
            /\ UNCHANGED tokens
    /\ UNCHANGED <<cooling, events, lock, limits>>

\* The answer of Channel::send: the message is sent, or has failed for good;
\* the outcome is counted under the lock, which is held until the event is out.
Settles(p, place) ==
    /\ proc[p].pc = "send" /\ lock = "free"
    /\ mail' = Moved(proc[p].hand, place)
    /\ proc' = [proc EXCEPT ![p].hand = {}, ![p].pc = "event"]
    /\ lock' = p
    /\ UNCHANGED <<tokens, cooling, events, limits>>

\* The message is kept for a later call, its retry time ahead.
Keeps(p, next) ==
    /\ mail' = [i \in Mail |-> IF i \in proc[p].hand
                               THEN [mail[i] EXCEPT !.late = TRUE] ELSE mail[i]]
    /\ proc' = [proc EXCEPT ![p].hand = {}, ![p].pc = next,
                            ![p].retry = @ \cup proc[p].hand]

Spent(i) == mail[i].attempts >= MaxAttempts

SendOk(p) == Settles(p, "sent")

SendFailsForGood(p) ==
    /\ \A i \in proc[p].hand : Spent(i)
    /\ Settles(p, "failed")

SendFails(p) ==
    /\ proc[p].pc = "send"
    /\ \A i \in proc[p].hand : ~Spent(i)
    /\ Keeps(p, "tell")
    /\ UNCHANGED <<tokens, cooling, events, lock, limits>>

\* A 429 cools the limiter down; its attempts are not held against the message.
SendLimited(p) ==
    /\ proc[p].pc = "send" /\ lock = "free"
    /\ \A i \in proc[p].hand : limits[i] < LimitsMax
    /\ tokens' = 0 /\ cooling' = TRUE
    /\ limits' = [i \in Mail |-> limits[i] + (IF i \in proc[p].hand THEN 1 ELSE 0)]
    /\ Keeps(p, "tellLimit")
    /\ UNCHANGED <<events, lock>>

\* The event of a settled message, under the lock; of a retry, without it.
SettledEvent(p) ==
    /\ proc[p].pc = "event" /\ events < EventMax
    /\ events' = events + 1
    /\ lock' = "free"
    /\ StepsTo(p, "take")
    /\ UNCHANGED <<mail, tokens, cooling, limits>>

RetryEvent(p) ==
    /\ proc[p].pc \in {"tell", "tellLimit"} /\ events < EventMax
    /\ events' = events + 1
    /\ StepsTo(p, IF proc[p].pc = "tell" THEN "take" ELSE "readd")
    /\ UNCHANGED <<mail, tokens, cooling, lock, limits>>

\* What is to be retried goes back into the queue, past its limit if need be.
Readd(p) ==
    /\ proc[p].pc = "readd"
    /\ proc[p].retry # {} => lock = "free"
    /\ mail' = Requeued(proc[p].retry)
    /\ proc' = [proc EXCEPT ![p] = NoProc]
    /\ UNCHANGED <<tokens, cooling, events, lock, limits>>

(***************************************************************************)
(* Time, and the consumer of the events.                                   *)
(***************************************************************************)

Refill ==
    /\ tokens < Burst
    /\ tokens' = tokens + 1
    /\ UNCHANGED <<mail, cooling, events, lock, proc, limits>>

CooldownOver ==
    /\ cooling
    /\ cooling' = FALSE
    /\ UNCHANGED <<mail, tokens, events, lock, proc, limits>>

RetryTime(i) ==
    /\ mail[i].late
    /\ mail' = [mail EXCEPT ![i].late = FALSE]
    /\ UNCHANGED <<tokens, cooling, events, lock, proc, limits>>

Consume ==
    /\ events > 0
    /\ events' = events - 1
    /\ UNCHANGED <<mail, tokens, cooling, lock, proc, limits>>
----------------------------------------------------------------------------
Working(p) ==
    \/ Take(p) \/ Acquire(p) \/ SendOk(p) \/ SendFailsForGood(p) \/ SendFails(p)
    \/ SendLimited(p) \/ SettledEvent(p) \/ RetryEvent(p) \/ Readd(p)

Time == Refill \/ CooldownOver \/ \E i \in Mail : RetryTime(i)

QNext ==
    \/ \E i \in Mail : Enqueue(i)
    \/ EnqueueEvent \/ Clear \/ Consume \/ Time
    \/ \E p \in Processor : Process(p) \/ Working(p)

QSpec == QInit /\ [][QNext]_outbound

\* process is called again and again, its sends return, time passes, and
\* somebody consumes the events.
QFairness ==
    /\ \A p \in Processor : WF_outbound(Process(p)) /\ SF_outbound(Working(p))
    /\ WF_outbound(Time)
    /\ WF_outbound(EnqueueEvent) /\ WF_outbound(Consume)

FairQSpec == QSpec /\ QFairness
----------------------------------------------------------------------------
\* Types, and the bounds of the counters.
QTypeOK ==
    /\ \A i \in Mail : mail[i].at \in {"none", "queued", "held", "sent", "failed",
                                       "dropped", "cleared"}
    /\ tokens \in 0..Burst /\ events \in 0..EventMax
    /\ lock \in {"free", "enqueue"} \cup Processor

\* process and take_ready_message: a message that is neither settled nor in
\* the queue is in the hands of exactly one caller, which still returns it,
\* whatever other callers, the limiter and clear do meanwhile.
MailAccounted ==
    \A i \in Mail :
        LET holders == {p \in Processor : i \in proc[p].hand \cup proc[p].retry}
        IN  Cardinality(holders) = IF mail[i].at = "held" THEN 1 ELSE 0

\* max_attempts: apart from the provider's rate limits, a message is sent at
\* most max_attempts times, and one that failed was sent that often.
AttemptsBounded ==
    \A i \in Mail : /\ mail[i].attempts <= MaxAttempts + limits[i]
                    /\ mail[i].at = "failed" => mail[i].attempts >= MaxAttempts

\* Every message is in one place, and is tried as often as it should be.
MailSound == MailAccounted /\ AttemptsBounded

\* A message that was queued is sent, fails, or is dropped or cleared.
MailSettles ==
    \A i \in Mail : mail[i].at = "queued" ~> mail[i].at \in {"sent", "failed", "dropped", "cleared"}

\* QueueConfig.max_queue_size, "Maximum messages in queue per channel".
QueueWithinLimit == Cardinality(Queued) <= QueueMax

\* enqueue_with_priority, "Drop lowest priority message": no urgent message is
\* dropped for one that is not.
NoUrgentDroppedForLess ==
    [][\A i \in Urgent : mail[i].at = "queued" /\ mail'[i].at = "dropped" =>
          \A j \in Mail : mail[j].at = "none" /\ mail'[j].at = "queued" => j \in Urgent]_outbound
=============================================================================
