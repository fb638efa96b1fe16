------------------------------- MODULE WakeUps -------------------------------
(***************************************************************************)
(* Waiting on a condition with tokio's Notify: CancelToken (cancel.rs) and *)
(* the admission gates of ChatRunRegistry (chat_harness.rs).  A change of  *)
(* the condition and its notify_waiters are two steps; a waiter registers  *)
(* (Notified::enable), reads the condition, and only then sleeps.          *)
(***************************************************************************)
EXTENDS Naturals

CONSTANTS
    IdleWaiter,      \* callers of wait_idle
    ActiveWaiter,    \* callers of wait_active
    CancelWaiter,    \* callers of CancelToken::cancelled
    UntilWaiter,     \* callers of wait_until_idle, for the session OwnSession
    Session,
    OwnSession,
    OwedMax          \* bound: edges whose notify_waiters is still to come

ASSUME WakeAssumption ==
    /\ OwedMax \in Nat \ {0}
    /\ CancelWaiter \cap (IdleWaiter \cup ActiveWaiter \cup UntilWaiter) = {}

VARIABLES
    liveRuns,    \* ChatRunRegistry.active
    flag,        \* CancelInner.flag
    owed,        \* notify_waiters calls still to come on the registry's Notify
    tokenOwed,   \* and on the token's
    waiterAt,    \* where each waiter is
    woken        \* waiters whose registered Notified has been notified

gates == <<liveRuns, flag, owed, tokenOwed, waiterAt, woken>>

RegistryWaiter == IdleWaiter \cup ActiveWaiter \cup UntilWaiter
Waiter == RegistryWaiter \cup CancelWaiter

GInit ==
    /\ liveRuns = {}
    /\ flag = FALSE
    /\ owed = 0
    /\ tokenOwed = FALSE
    /\ waiterAt = [w \in Waiter |-> "loop"]
    /\ woken = {}

\* What a waiter waits for.
Awaited(w) ==
    \/ w \in IdleWaiter /\ liveRuns = {}
    \/ w \in ActiveWaiter /\ liveRuns # {}
    \/ w \in UntilWaiter /\ OwnSession \notin liveRuns
    \/ w \in CancelWaiter /\ flag

(***************************************************************************)
(* The edges.                                                              *)
(***************************************************************************)

TryClaim(s) ==
    /\ s \notin liveRuns /\ owed < OwedMax
    /\ liveRuns' = liveRuns \cup {s}
    /\ owed' = owed + 1
    /\ UNCHANGED <<flag, tokenOwed, waiterAt, woken>>

ReleaseRun(s) ==
    /\ s \in liveRuns /\ owed < OwedMax
    /\ liveRuns' = liveRuns \ {s}
    /\ owed' = owed + 1
    /\ UNCHANGED <<flag, tokenOwed, waiterAt, woken>>

\* Every waiter that has registered, asleep or not, is woken.
Registered == {w \in Waiter : waiterAt[w] \in {"registered", "asleep"}}

NotifyRegistry ==
    /\ owed > 0
    /\ owed' = owed - 1
    /\ woken' = woken \cup (Registered \cap RegistryWaiter)
    /\ UNCHANGED <<liveRuns, flag, tokenOwed, waiterAt>>

CancelStore ==
    /\ ~flag
    /\ flag' = TRUE
    /\ tokenOwed' = TRUE
    /\ UNCHANGED <<liveRuns, owed, waiterAt, woken>>

CancelNotify ==
    /\ tokenOwed
    /\ tokenOwed' = FALSE
    /\ woken' = woken \cup (Registered \cap CancelWaiter)
    /\ UNCHANGED <<liveRuns, flag, owed, waiterAt>>

(***************************************************************************)
(* A waiter.                                                               *)
(***************************************************************************)

Goes(w, place) == waiterAt' = [waiterAt EXCEPT ![w] = place]

\* cancelled() looks at the flag first; the gates register at once.
EnterLoop(w) ==
    /\ waiterAt[w] = "loop"
    /\ Goes(w, IF w \in CancelWaiter /\ flag THEN "returned" ELSE "unregistered")
    /\ UNCHANGED <<liveRuns, flag, owed, tokenOwed, woken>>

Enlist(w) ==
    /\ waiterAt[w] = "unregistered"
    /\ Goes(w, "registered")
    /\ UNCHANGED <<liveRuns, flag, owed, tokenOwed, woken>>

\* Mutant: a registered waiter sleeps without another look.
SleepUnchecked(w) ==
    /\ waiterAt[w] = "registered"
    /\ Goes(w, "asleep")
    /\ UNCHANGED <<liveRuns, flag, owed, tokenOwed, woken>>

CheckAgain(w) ==
    /\ waiterAt[w] = "registered"
    /\ Goes(w, IF Awaited(w) THEN "returned" ELSE "asleep")
    /\ woken' = IF Awaited(w) THEN woken \ {w} ELSE woken
    /\ UNCHANGED <<liveRuns, flag, owed, tokenOwed>>

WakeUp(w) ==
    /\ waiterAt[w] = "asleep"
    /\ w \in woken
    /\ Goes(w, "loop")
    /\ woken' = woken \ {w}
    /\ UNCHANGED <<liveRuns, flag, owed, tokenOwed>>

WaiterStep(w) == EnterLoop(w) \/ Enlist(w) \/ CheckAgain(w) \/ WakeUp(w)

GNext ==
    \/ \E s \in Session : TryClaim(s) \/ ReleaseRun(s)
    \/ NotifyRegistry \/ CancelStore \/ CancelNotify
    \/ \E w \in Waiter : WaiterStep(w)

GSpec == GInit /\ [][GNext]_gates

----------------------------------------------------------------------------
\* Types.
GTypeOK ==
    /\ liveRuns \subseteq Session
    /\ flag \in BOOLEAN /\ tokenOwed \in BOOLEAN
    /\ owed \in 0..OwedMax
    /\ waiterAt \in [Waiter -> {"loop", "unregistered", "registered", "asleep", "returned"}]
    /\ woken \subseteq Waiter

\* The waiter has been woken, or the notify that wakes it is still to come.
WakeUpDue(w) ==
    \/ w \in woken
    \/ w \in RegistryWaiter /\ owed > 0
    \/ w \in CancelWaiter /\ tokenOwed

\* "a waiter either sees the flag or receives the wakeup, never neither": no
\* waiter sleeps over a condition that holds unless its wake-up is due.
NoLostWakeUp == \A w \in Waiter : waiterAt[w] = "asleep" /\ Awaited(w) => WakeUpDue(w)
=============================================================================
