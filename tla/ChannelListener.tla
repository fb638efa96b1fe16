--------------------------- MODULE ChannelListener ---------------------------
(***************************************************************************)
(* A polling channel listener (the Telegram one) with its circuit breaker  *)
(* (nanna-channels/src/listeners).  The service is external: it keeps each *)
(* update until some poll's offset is past it, and numbers them upwards.   *)
(***************************************************************************)
EXTENDS Naturals

CONSTANTS
    UpdateMax,   \* bound: updates the service has
    MaxAuth,     \* max_auth_failures
    MaxConn      \* max_conn_failures

ASSUME ListenerAssumption ==
    UpdateMax \in Nat /\ MaxAuth \in Nat \ {0} /\ MaxConn \in Nat \ {0}

VARIABLES
    lat,         \* where the listener is
    offset,      \* TelegramListener.offset: 0 asks for the oldest update kept
    batch,       \* updates fetched and not yet handed over: from .. to
    auth,        \* CircuitBreaker.auth_failures
    conn,        \* CircuitBreaker.conn_failures
    kept,        \* the service still has the updates from this one on
    handed,      \* history: updates the router got, or convert_update dropped
    fails        \* history: failures since the last success, or since the start

listener == <<lat, offset, batch, auth, conn, kept, handed, fails>>

Update == 1..UpdateMax
NoBatch == [from |-> 1, to |-> 0]

LisInit ==
    /\ lat = "poll"
    /\ offset = 0
    /\ batch = NoBatch
    /\ auth = 0 /\ conn = 0
    /\ kept = 1
    /\ handed = {}
    /\ fails = 0

LisTypeOK ==
    /\ lat \in {"poll", "hand", "backoff", "stopped"}
    /\ offset \in Nat /\ kept \in Nat
    /\ batch \in [from : Nat, to : Nat]
    /\ auth \in Nat /\ conn \in Nat /\ fails \in Nat
    /\ handed \subseteq Nat

\* The service forgets what is below the offset of a poll that reached it.
KeptAfterPoll == IF offset > kept THEN offset ELSE kept

\* get_updates answers with the updates kept up to some last one, or with
\* none; record_success.
PollSucceeds(last) ==
    /\ lat = "poll"
    /\ last >= KeptAfterPoll - 1
    /\ kept' = KeptAfterPoll
    /\ batch' = [from |-> KeptAfterPoll, to |-> last]
    /\ lat' = IF last < KeptAfterPoll THEN "poll" ELSE "hand"
    /\ auth' = 0 /\ conn' = 0 /\ fails' = 0
    /\ UNCHANGED <<offset, handed>>

\* The offset is moved past the update first, then the update is sent.
HandOver ==
    /\ lat = "hand"
    /\ offset' = batch.from + 1
    /\ handed' = handed \cup {batch.from}
    /\ batch' = [batch EXCEPT !.from = @ + 1]
    /\ lat' = IF batch.from + 1 > batch.to THEN "poll" ELSE "hand"
    /\ UNCHANGED <<auth, conn, kept, fails>>

\* Mutant: a dropped receiver ends the batch, not the listener.
BatchEnds == "poll"

ListenerEnds == "stopped"

\* The router is gone: the update is acknowledged here and was never sent.
RouterGone ==
    /\ lat = "hand"
    /\ offset' = batch.from + 1
    /\ lat' = ListenerEnds
    /\ UNCHANGED <<batch, auth, conn, kept, handed, fails>>

\* The answer is lost or bad.  The poll may have reached the service.
LostPoll == kept' \in {kept, KeptAfterPoll}

AuthFails ==
    /\ lat = "poll"
    /\ LostPoll
    /\ auth' = auth + 1
    /\ conn' = 0
    /\ fails' = fails + 1
    /\ lat' = IF auth + 1 >= MaxAuth THEN "stopped" ELSE "backoff"
    /\ UNCHANGED <<offset, batch, handed>>

ConnFails ==
    /\ lat = "poll"
    /\ LostPoll
    /\ conn' = conn + 1
    /\ auth' = auth
    /\ fails' = fails + 1
    /\ lat' = IF conn + 1 >= MaxConn THEN "stopped" ELSE "backoff"
    /\ UNCHANGED <<offset, batch, handed>>

Backoff ==
    /\ lat = "backoff"
    /\ lat' = "poll"
    /\ UNCHANGED <<offset, batch, auth, conn, kept, handed, fails>>

\* The shutdown signal is heard only while a poll is out; the poll is dropped.
Shutdown ==
    /\ lat = "poll"
    /\ LostPoll
    /\ lat' = "stopped"
    /\ UNCHANGED <<offset, batch, auth, conn, handed, fails>>

\* A new listener, after a stop or a crash of the daemon at any point.
Restart ==
    /\ lat' = "poll"
    /\ offset' = 0
    /\ batch' = NoBatch
    /\ auth' = 0 /\ conn' = 0 /\ fails' = 0
    /\ UNCHANGED <<kept, handed>>

LisNext ==
    \/ \E last \in 0..UpdateMax : PollSucceeds(last)
    \/ HandOver \/ RouterGone
    \/ AuthFails \/ ConnFails \/ Backoff
    \/ Shutdown \/ Restart

LisSpec == LisInit /\ [][LisNext]_listener

(***************************************************************************)
(* The service forgets an update only after the router had it: poll_loop   *)
(* acknowledges before it sends, so the order of the acknowledgement, the  *)
(* send that can fail, the crash and the next poll decides (telegram.rs).  *)
(***************************************************************************)
NoUpdateLost == \A u \in Update : u < kept => u \in handed

(***************************************************************************)
(* No mix of authentication and connection failures keeps a listener that  *)
(* never succeeds polling for ever: the breaker resets the connection      *)
(* count on an authentication failure, and not the other way round         *)
(* (circuit_breaker.rs).                                                   *)
(***************************************************************************)
FailuresBounded == fails <= MaxAuth * MaxConn

\* A listener loses no update and does not fail for ever.
ListenerSound == NoUpdateLost /\ FailuresBounded

\* The strengthening FailuresBounded needs to be inductive: each
\* authentication failure accounts for fewer than MaxConn failures.
FailuresSpent ==
    /\ fails <= auth * MaxConn + conn
    /\ lat # "stopped" => auth < MaxAuth /\ conn < MaxConn
    /\ lat = "stopped" => fails <= MaxAuth * MaxConn
=============================================================================
