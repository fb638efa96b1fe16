--------------------------- MODULE ChannelProofs ----------------------------
(***************************************************************************)
(* Both directions of a channel, for any limits: the listener that hands   *)
(* updates to the router, and the queue of outgoing messages.              *)
(***************************************************************************)
EXTENDS ChannelListener, OutboundQueue, FiniteSetTheorems, TLAPS
-----------------------------------------------------------------------------
(* ChannelListener: offsets, hand-over and back-off.                       *)

\* What NoUpdateLost rests on: below the offset of a listener that can still
\* poll, and below the batch it hands over, the router had everything.
OffsetBehindHandover ==
    /\ \A u \in Update : u < kept => u \in handed
    /\ lat # "stopped" => \A u \in Update : u < offset => u \in handed
    /\ lat = "hand" => \A u \in Update : u < batch.from => u \in handed

\* The inductive invariant: the failures spent, and what the router had.
ListenerInv == LisTypeOK /\ FailuresSpent /\ OffsetBehindHandover

\* One factor more is one summand more.
LEMMA TimesNext ==
    ASSUME NEW a \in Nat, NEW c \in Nat
    PROVE  /\ (a + 1) * c = a * c + c
           /\ a * c \in Nat
  BY SMT

\* A product grows with its factor.
LEMMA TimesGrows ==
    ASSUME NEW a \in Nat, NEW b \in Nat, NEW c \in Nat, a <= b
    PROVE  a * c <= b * c
<1>1. PICK d \in Nat : b = a + d
  BY SMT
<1>2. (a + d) * c = a * c + d * c
  BY SMT
<1>3. d * c >= 0 /\ a * c \in Nat /\ d * c \in Nat
  BY SMT
<1> QED
  BY <1>1, <1>2, <1>3, SMT

\* What the breaker has counted bounds the failures while the listener polls.
LEMMA SpentIsBounded ==
    ASSUME LisTypeOK, FailuresSpent
    PROVE  FailuresBounded
<1>1. CASE lat = "stopped"
  BY <1>1 DEF FailuresSpent, FailuresBounded
<1>2. CASE lat # "stopped"
  <2>1. fails <= auth * MaxConn + conn /\ conn < MaxConn /\ auth + 1 <= MaxAuth
    BY <1>2, ListenerAssumption DEF FailuresSpent, LisTypeOK
  <2>2. (auth + 1) * MaxConn = auth * MaxConn + MaxConn /\ auth * MaxConn \in Nat
    BY TimesNext, ListenerAssumption DEF LisTypeOK
  <2>3. (auth + 1) * MaxConn <= MaxAuth * MaxConn
    BY <2>1, TimesGrows, ListenerAssumption DEF LisTypeOK
  <2>4. MaxAuth * MaxConn \in Nat
    BY TimesNext, ListenerAssumption
  <2> QED
    BY <2>1, <2>2, <2>3, <2>4, ListenerAssumption DEF LisTypeOK, FailuresBounded
<1> QED
  BY <1>1, <1>2

\* A failure of either kind leaves the failures within what is counted.
LEMMA FailureIsCounted ==
    ASSUME ListenerInv, AuthFails \/ ConnFails
    PROVE  FailuresSpent'
<1>1. /\ fails <= auth * MaxConn + conn /\ conn < MaxConn /\ auth < MaxAuth
      /\ fails' = fails + 1
      /\ auth \in Nat /\ conn \in Nat /\ fails \in Nat
      /\ MaxAuth \in Nat /\ MaxConn \in Nat
  BY ListenerAssumption DEF ListenerInv, FailuresSpent, LisTypeOK, AuthFails, ConnFails
<1>2. (auth + 1) * MaxConn = auth * MaxConn + MaxConn /\ auth * MaxConn \in Nat
  BY <1>1, TimesNext
<1>3. (auth + 1) * MaxConn <= MaxAuth * MaxConn
  BY <1>1, TimesGrows
<1>4. MaxAuth * MaxConn \in Nat
  BY <1>1, TimesNext
<1>5. fails' <= MaxAuth * MaxConn
  BY <1>1, <1>2, <1>3, <1>4
<1>6. CASE AuthFails
  <2>1. auth' = auth + 1 /\ conn' = 0 /\ (lat' # "stopped" => auth + 1 < MaxAuth)
    BY <1>1, <1>6 DEF AuthFails
  <2>2. auth' * MaxConn = auth * MaxConn + MaxConn
    BY <1>2, <2>1
  <2>3. fails' <= auth' * MaxConn + conn'
    BY <1>1, <1>2, <2>1, <2>2
  <2>4. 0 < MaxConn
    BY ListenerAssumption
  <2> QED
    BY <1>5, <2>1, <2>3, <2>4 DEF FailuresSpent
<1>7. CASE ConnFails
  <2>1. auth' = auth /\ conn' = conn + 1 /\ (lat' # "stopped" => conn + 1 < MaxConn)
    BY <1>1, <1>7 DEF ConnFails
  <2>2. auth' * MaxConn = auth * MaxConn
    BY <2>1
  <2>3. fails' <= auth' * MaxConn + conn'
    BY <1>1, <1>2, <2>1, <2>2
  <2> QED
    BY <1>1, <1>5, <2>1, <2>3 DEF FailuresSpent
<1> QED
  BY <1>6, <1>7

\* Every step keeps the types.
LEMMA ListenerTypes == ListenerInv /\ [LisNext]_listener => LisTypeOK'
<1> SUFFICES ASSUME ListenerInv, [LisNext]_listener PROVE LisTypeOK'
  OBVIOUS
<1> USE ListenerAssumption DEF ListenerInv, LisTypeOK
<1>1. KeptAfterPoll \in Nat
  BY DEF KeptAfterPoll
<1>2. ASSUME NEW last \in 0..UpdateMax, PollSucceeds(last) PROVE LisTypeOK'
  BY <1>1, <1>2 DEF PollSucceeds
<1>3. CASE HandOver
  BY <1>3 DEF HandOver
<1>4. CASE RouterGone
  BY <1>4 DEF RouterGone, ListenerEnds
<1>5. CASE AuthFails
  BY <1>1, <1>5 DEF AuthFails, LostPoll
<1>6. CASE ConnFails
  BY <1>1, <1>6 DEF ConnFails, LostPoll
<1>7. CASE Backoff
  BY <1>7 DEF Backoff
<1>8. CASE Shutdown
  BY <1>1, <1>8 DEF Shutdown, LostPoll
<1>9. CASE Restart
  BY <1>9 DEF Restart, NoBatch
<1>10. CASE UNCHANGED listener
  BY <1>10 DEF listener
<1> QED
  BY <1>2, <1>3, <1>4, <1>5, <1>6, <1>7, <1>8, <1>9, <1>10 DEF LisNext

\* Every step keeps the count of failures.
LEMMA ListenerCounts == ListenerInv /\ [LisNext]_listener => FailuresSpent'
<1> SUFFICES ASSUME ListenerInv, [LisNext]_listener PROVE FailuresSpent'
  OBVIOUS
<1>0. fails <= MaxAuth * MaxConn
  BY SpentIsBounded DEF ListenerInv, FailuresBounded
<1>1. 0 * MaxConn = 0 /\ MaxAuth * MaxConn \in Nat /\ 0 < MaxAuth /\ 0 < MaxConn
  BY TimesNext, ListenerAssumption
<1>2. ASSUME NEW last \in 0..UpdateMax, PollSucceeds(last) PROVE FailuresSpent'
  BY <1>1, <1>2 DEF PollSucceeds, FailuresSpent
<1>3. CASE HandOver \/ RouterGone \/ Backoff \/ Shutdown
  <2>1. UNCHANGED <<fails, auth, conn>> /\ lat # "stopped"
    BY <1>3 DEF HandOver, RouterGone, Backoff, Shutdown
  <2> QED
    BY <1>0, <2>1 DEF ListenerInv, FailuresSpent
<1>4. CASE AuthFails \/ ConnFails
  BY <1>4, FailureIsCounted
<1>5. CASE Restart
  BY <1>1, <1>5 DEF Restart, FailuresSpent
<1>6. CASE UNCHANGED listener
  BY <1>6 DEF listener, ListenerInv, FailuresSpent
<1> QED
  BY <1>2, <1>3, <1>4, <1>5, <1>6 DEF LisNext

\* Every step acknowledges only what was handed over.
LEMMA ListenerHandsOver == ListenerInv /\ [LisNext]_listener => OffsetBehindHandover'
<1> SUFFICES ASSUME ListenerInv, [LisNext]_listener PROVE OffsetBehindHandover'
  OBVIOUS
<1> USE DEF ListenerInv, LisTypeOK, OffsetBehindHandover, Update
<1>1. ASSUME lat # "stopped" PROVE \A u \in Update : u < KeptAfterPoll => u \in handed
  BY <1>1 DEF KeptAfterPoll
<1>2. ASSUME lat # "stopped", LostPoll PROVE \A u \in Update : u < kept' => u \in handed
  BY <1>1, <1>2 DEF LostPoll
<1>3. ASSUME NEW last \in 0..UpdateMax, PollSucceeds(last) PROVE OffsetBehindHandover'
  BY <1>1, <1>3 DEF PollSucceeds
<1>4. CASE HandOver
  BY <1>4 DEF HandOver
<1>5. CASE RouterGone
  BY <1>5 DEF RouterGone, ListenerEnds
<1>6. CASE AuthFails
  BY <1>2, <1>6 DEF AuthFails
<1>7. CASE ConnFails
  BY <1>2, <1>7 DEF ConnFails
<1>8. CASE Backoff
  BY <1>8 DEF Backoff
<1>9. CASE Shutdown
  BY <1>2, <1>9 DEF Shutdown
<1>10. CASE Restart
  BY <1>10 DEF Restart
<1>11. CASE UNCHANGED listener
  BY <1>11 DEF listener
<1> QED
  BY <1>3, <1>4, <1>5, <1>6, <1>7, <1>8, <1>9, <1>10, <1>11 DEF LisNext

\* The invariant of a listener holds however often it fails and restarts.
LEMMA ListenerInvariance == LisSpec => []ListenerInv
<1>1. LisInit => ListenerInv
  <2> SUFFICES ASSUME LisInit PROVE ListenerInv
    OBVIOUS
  <2>1. LisTypeOK
    BY DEF LisInit, LisTypeOK, NoBatch
  <2>2. FailuresSpent
    BY TimesNext, ListenerAssumption DEF LisInit, FailuresSpent
  <2>3. OffsetBehindHandover
    BY DEF LisInit, OffsetBehindHandover, Update
  <2> QED
    BY <2>1, <2>2, <2>3 DEF ListenerInv
<1>2. ListenerInv /\ [LisNext]_listener => ListenerInv'
  BY ListenerTypes, ListenerCounts, ListenerHandsOver DEF ListenerInv
<1> QED
  BY <1>1, <1>2, PTL DEF LisSpec

\* poll_loop and the breaker: the service is told to forget an update only
\* after the router had it, across failures, a lost router, shutdowns and
\* crashes; and a listener without a success stops after at most
\* MaxAuth * MaxConn failures, whatever their mix.
THEOREM ListenerHolds == LisSpec => []ListenerSound
<1>1. ListenerInv => FailuresBounded
  BY SpentIsBounded DEF ListenerInv
<1>2. ListenerInv => NoUpdateLost
  BY DEF ListenerInv, OffsetBehindHandover, NoUpdateLost
<1>3. ListenerInv => ListenerSound
  BY <1>1, <1>2 DEF ListenerSound
<1> QED
  BY <1>3, ListenerInvariance, PTL
-----------------------------------------------------------------------------
(* OutboundQueue: places, hands and attempts.                              *)

\* Where a message can be.
Places == {"none", "queued", "held", "sent", "failed", "dropped", "cleared"}
\* The places of a call of process_queue.
CallPcs == {"idle", "take", "acquire", "send", "event", "tell", "tellLimit", "readd"}
\* The rows of messages.
MailRow == [at : Places, attempts : Nat, late : BOOLEAN]
\* The states of a call.
ProcRow == [pc : CallPcs, hand : SUBSET Mail, retry : SUBSET Mail]

\* The types of rows, calls, limits and the bucket.
QueueTypes ==
    /\ mail \in [Mail -> MailRow]
    /\ proc \in [Processor -> ProcRow]
    /\ limits \in [Mail -> Nat]
    /\ tokens \in 0..Burst /\ events \in 0..EventMax
    /\ lock \in {"free", "enqueue"} \cup Processor

\* The messages a call has in its hands.
Holding(r) == r.hand \cup r.retry

\* A held message is in the hands of exactly one call, on one side.
Kept(m, q) ==
    /\ \A i \in Mail : m[i].at = "held" => \E p \in Processor : i \in Holding(q[p])
    /\ \A p \in Processor, i \in Mail : i \in Holding(q[p]) => m[i].at = "held"
    /\ \A p1, p2 \in Processor, i \in Mail :
          i \in Holding(q[p1]) /\ i \in Holding(q[p2]) => p1 = p2
    /\ \A p \in Processor : q[p].hand \cap q[p].retry = {}
    /\ \A p \in Processor : q[p].hand # {} => q[p].pc \in {"acquire", "send"}

\* A message has no more attempts than its budget and its rate limits allow,
\* and is failed only after all of them.
Tried(m, q, l) ==
    \A i \in Mail :
       /\ m[i].attempts <= MaxAttempts + l[i]
       /\ m[i].at = "failed" => m[i].attempts >= MaxAttempts
       /\ \/ m[i].attempts < MaxAttempts + l[i]
          \/ m[i].at \in {"sent", "failed"}
          \/ \E p \in Processor : q[p].pc = "send" /\ i \in q[p].hand

\* The inductive invariant of the queue.
MailInv == QueueTypes /\ Kept(mail, proc) /\ Tried(mail, proc, limits)
-----------------------------------------------------------------------------
\* Moving messages changes their places alone.
LEMMA MovedRows ==
    ASSUME mail \in [Mail -> MailRow], NEW S, NEW place \in Places
    PROVE  /\ Moved(S, place) \in [Mail -> MailRow]
           /\ \A i \in Mail :
                 /\ Moved(S, place)[i].attempts = mail[i].attempts
                 /\ Moved(S, place)[i].at = IF i \in S THEN place ELSE mail[i].at
<1>1. ASSUME NEW i \in Mail
      PROVE  /\ Moved(S, place)[i] \in MailRow
             /\ Moved(S, place)[i].attempts = mail[i].attempts
             /\ Moved(S, place)[i].at = IF i \in S THEN place ELSE mail[i].at
  <2> DEFINE r == mail[i]
  <2>1. r \in MailRow OBVIOUS
  <2>2. Moved(S, place)[i] = IF i \in S THEN [r EXCEPT !.at = place] ELSE r
    BY DEF Moved
  <2> HIDE DEF r
  <2>3. /\ [r EXCEPT !.at = place] \in MailRow
        /\ [r EXCEPT !.at = place].attempts = r.attempts
        /\ [r EXCEPT !.at = place].at = place
    BY <2>1 DEF MailRow
  <2> QED BY <2>1, <2>2, <2>3 DEF r
<1>2. Moved(S, place) = [i \in Mail |-> Moved(S, place)[i]] BY DEF Moved
<1> QED BY <1>1, <1>2

\* A row keeps its place and its attempts.
Alike(m, n) ==
    \A i \in Mail : n[i].at = m[i].at /\ n[i].attempts = m[i].attempts

\* One caller moves: what it takes up was free, what it lets go is not held.
LEMMA CallerMoves ==
    ASSUME NEW m, NEW q \in [Processor -> ProcRow], Kept(m, q),
           NEW n, NEW p \in Processor, NEW r \in ProcRow,
           r.hand \cap r.retry = {}, r.hand # {} => r.pc \in {"acquire", "send"},
           \A i \in Mail :
              /\ i \in Holding(r) => n[i].at = "held"
              /\ i \in Holding(r) \ Holding(q[p]) => m[i].at # "held"
              /\ i \in Holding(q[p]) \ Holding(r) => n[i].at # "held"
              /\ i \notin Holding(q[p]) \cup Holding(r) =>
                    (n[i].at = "held") <=> (m[i].at = "held")
    PROVE  Kept(n, [q EXCEPT ![p] = r])
<1> DEFINE h == [q EXCEPT ![p] = r]
<1>1. h[p] = r /\ \A x \in Processor \ {p} : h[x] = q[x] OBVIOUS
<1> HIDE DEF h
<1>2. \A i \in Mail : n[i].at = "held" => \E x \in Processor : i \in Holding(h[x])
  <2> SUFFICES ASSUME NEW i \in Mail, n[i].at = "held"
               PROVE  \E x \in Processor : i \in Holding(h[x])
    OBVIOUS
  <2>1. CASE i \in Holding(r) BY <1>1, <2>1
  <2>2. CASE i \notin Holding(r)
    <3>1. i \notin Holding(q[p]) /\ m[i].at = "held" BY <2>2
    <3>2. PICK x \in Processor : i \in Holding(q[x]) BY <3>1 DEF Kept
    <3> QED BY <1>1, <3>1, <3>2
  <2> QED BY <2>1, <2>2
<1>3. ASSUME NEW x \in Processor, NEW i \in Mail, i \in Holding(h[x])
      PROVE  n[i].at = "held"
  <2>1. CASE x = p BY <1>1, <1>3, <2>1
  <2>2. CASE x # p
    <3>1. i \in Holding(q[x]) BY <1>1, <1>3, <2>2
    <3>2. m[i].at = "held" /\ i \notin Holding(q[p]) BY <2>2, <3>1 DEF Kept
    <3> QED BY <3>2
  <2> QED BY <2>1, <2>2
<1>4. ASSUME NEW x \in Processor, NEW y \in Processor, NEW i \in Mail,
             i \in Holding(h[x]), i \in Holding(h[y])
      PROVE  x = y
  <2>1. \A z \in Processor \ {p} :
           i \in Holding(h[z]) => m[i].at = "held" /\ i \notin Holding(q[p])
    BY <1>1 DEF Kept
  <2>2. i \in Holding(r) /\ i \notin Holding(q[p]) => m[i].at # "held" OBVIOUS
  <2>3. CASE x = p BY <1>1, <1>4, <2>1, <2>2, <2>3
  <2>4. CASE y = p BY <1>1, <1>4, <2>1, <2>2, <2>4
  <2>5. CASE x # p /\ y # p BY <1>1, <1>4, <2>5 DEF Kept
  <2> QED BY <2>3, <2>4, <2>5
<1>5. \A x \in Processor : h[x].hand \cap h[x].retry = {} BY <1>1 DEF Kept
<1>6. \A x \in Processor : h[x].hand # {} => h[x].pc \in {"acquire", "send"}
  BY <1>1 DEF Kept
<1> QED BY <1>2, <1>3, <1>4, <1>5, <1>6 DEF Kept, h

\* The callers stay as they are, and so does what they hold.
LEMMA CallersStay ==
    ASSUME NEW m, NEW q, NEW n, Kept(m, q),
           \A i \in Mail : (n[i].at = "held") <=> (m[i].at = "held")
    PROVE  Kept(n, q)
BY DEF Kept

\* A step that sends nothing spends no attempt.
LEMMA TriedStays ==
    ASSUME NEW m, NEW q, NEW l, NEW n, NEW h, Tried(m, q, l),
           \A i \in Mail : n[i].attempts = m[i].attempts,
           \A i \in Mail : n[i].at # m[i].at => n[i].at # "failed" /\ m[i].at \notin {"sent", "failed"},
           \A x \in Processor : q[x].pc = "send" => h[x].pc = "send" /\ h[x].hand = q[x].hand
    PROVE  Tried(n, h, l)
<1> SUFFICES ASSUME NEW i \in Mail
             PROVE  /\ n[i].attempts <= MaxAttempts + l[i]
                    /\ n[i].at = "failed" => n[i].attempts >= MaxAttempts
                    /\ \/ n[i].attempts < MaxAttempts + l[i]
                       \/ n[i].at \in {"sent", "failed"}
                       \/ \E p \in Processor : h[p].pc = "send" /\ i \in h[p].hand
  BY DEF Tried
<1>1. /\ m[i].attempts <= MaxAttempts + l[i]
      /\ m[i].at = "failed" => m[i].attempts >= MaxAttempts
      /\ \/ m[i].attempts < MaxAttempts + l[i]
         \/ m[i].at \in {"sent", "failed"}
         \/ \E p \in Processor : q[p].pc = "send" /\ i \in q[p].hand
  BY DEF Tried
<1> QED BY <1>1
-----------------------------------------------------------------------------
\* A step that leaves the callers and the limits alone.
LEMMA OutsideMoves ==
    ASSUME MailInv, mail' \in [Mail -> MailRow], UNCHANGED <<proc, limits>>,
           tokens' \in 0..Burst, events' \in 0..EventMax,
           lock' \in {"free", "enqueue"} \cup Processor,
           \A i \in Mail : mail'[i].attempts = mail[i].attempts,
           \A i \in Mail : mail'[i].at # mail[i].at =>
              mail[i].at \in {"none", "queued"} /\ mail'[i].at \in {"queued", "dropped", "cleared"}
    PROVE  MailInv'
<1>1. QueueTypes' BY DEF MailInv, QueueTypes
<1>2. Kept(mail', proc)
  <2>1. \A i \in Mail : (mail'[i].at = "held") <=> (mail[i].at = "held") OBVIOUS
  <2> QED BY <2>1, CallersStay DEF MailInv
<1>3. Tried(mail', proc, limits)
  <2>1. \A i \in Mail : mail'[i].at # mail[i].at =>
           mail'[i].at # "failed" /\ mail[i].at \notin {"sent", "failed"}
    OBVIOUS
  <2>2. \A x \in Processor : proc[x].pc = "send" =>
           proc[x].pc = "send" /\ proc[x].hand = proc[x].hand
    OBVIOUS
  <2> QED BY <2>1, <2>2, TriedStays DEF MailInv
<1> QED BY <1>1, <1>2, <1>3 DEF MailInv

\* A step of a caller that sends nothing: what it took up was queued, what it
\* lets go is queued again.
LEMMA QuietCall ==
    ASSUME MailInv, NEW p \in Processor, NEW r \in ProcRow, proc[p].pc # "send",
           r.pc # "send",
           proc' = [proc EXCEPT ![p] = r], mail' \in [Mail -> MailRow],
           UNCHANGED limits,
           tokens' \in 0..Burst, events' \in 0..EventMax,
           lock' \in {"free", "enqueue"} \cup Processor,
           r.hand \cap r.retry = {}, r.hand # {} => r.pc = "acquire",
           \A i \in Mail : mail'[i].attempts = mail[i].attempts,
           \A i \in Mail :
              /\ i \in Holding(r) \ Holding(proc[p]) => mail[i].at = "queued" /\ mail'[i].at = "held"
              /\ i \in Holding(proc[p]) \ Holding(r) => mail'[i].at = "queued"
              /\ (i \in Holding(r)) <=> (i \in Holding(proc[p])) => mail'[i].at = mail[i].at
    PROVE  MailInv'
<1>1. \A i \in Mail : i \in Holding(proc[p]) => mail[i].at = "held"
  BY DEF MailInv, Kept
<1>2. Kept(mail', proc')
  <2>1. \A i \in Mail :
              /\ i \in Holding(r) => mail'[i].at = "held"
              /\ i \in Holding(r) \ Holding(proc[p]) => mail[i].at # "held"
              /\ i \in Holding(proc[p]) \ Holding(r) => mail'[i].at # "held"
              /\ i \notin Holding(proc[p]) \cup Holding(r) =>
                    (mail'[i].at = "held") <=> (mail[i].at = "held")
    BY <1>1
  <2>2. proc \in [Processor -> ProcRow] /\ Kept(mail, proc) BY DEF MailInv, QueueTypes
  <2>3. r.hand # {} => r.pc \in {"acquire", "send"} OBVIOUS
  <2> QED BY <2>1, <2>2, <2>3, CallerMoves
<1>3. Tried(mail', proc', limits)
  <2>1. \A i \in Mail : mail'[i].at # mail[i].at =>
           mail'[i].at # "failed" /\ mail[i].at \notin {"sent", "failed"}
    BY <1>1
  <2>2. \A x \in Processor : proc[x].pc = "send" =>
           proc'[x].pc = "send" /\ proc'[x].hand = proc[x].hand
    BY DEF MailInv, QueueTypes
  <2> QED BY <2>1, <2>2, TriedStays DEF MailInv
<1>4. QueueTypes' BY DEF MailInv, QueueTypes
<1> QED BY <1>2, <1>3, <1>4 DEF MailInv

\* The types, part by part.
LEMMA MailBounds ==
    ASSUME MailInv
    PROVE  /\ mail \in [Mail -> MailRow] /\ proc \in [Processor -> ProcRow]
           /\ limits \in [Mail -> Nat]
           /\ tokens \in 0..Burst /\ events \in 0..EventMax
           /\ lock \in {"free", "enqueue"} \cup Processor
           /\ Burst \in Nat \ {0} /\ EventMax \in Nat \ {0} /\ MaxAttempts \in Nat \ {0}
BY QueueAssumption DEF MailInv, QueueTypes

\* enqueue().
LEMMA EnqueueKeeps ==
    ASSUME MailInv, NEW i \in Mail, Enqueue(i)
    PROVE  MailInv'
<1> DEFINE d == Moved(Crowded, "dropped")
<1>1. Crowded \subseteq Queued BY DEF Crowded
<1>2. /\ d \in [Mail -> MailRow]
      /\ \A j \in Mail : /\ d[j].attempts = mail[j].attempts
                         /\ d[j].at = IF j \in Crowded THEN "dropped" ELSE mail[j].at
  BY MailBounds, MovedRows DEF Places
<1>3. /\ mail[i].at = "none" /\ mail' = [d EXCEPT ![i].at = "queued"]
      /\ lock' = "enqueue" /\ UNCHANGED <<tokens, events, proc, limits>>
  BY DEF Enqueue
<1> HIDE DEF d
<1>4. mail' = [d EXCEPT ![i] = [d[i] EXCEPT !.at = "queued"]] BY <1>3
<1>5. d[i] \in MailRow BY <1>2
<1> DEFINE r == [d[i] EXCEPT !.at = "queued"]
           b == d[i]
<1>6. r \in MailRow /\ r.attempts = b.attempts /\ r.at = "queued"
  <2> HIDE DEF b
  <2> QED BY <1>5 DEF MailRow, Places, b
<1> HIDE DEF r
<1>7. mail' \in [Mail -> MailRow] /\ mail'[i] = r
      /\ \A j \in Mail \ {i} : mail'[j] = d[j]
  BY <1>2, <1>4, <1>6 DEF r
<1>8. \A j \in Mail : mail'[j].attempts = mail[j].attempts
  BY <1>2, <1>6, <1>7
<1>9. \A j \in Mail : mail'[j].at # mail[j].at =>
         mail[j].at \in {"none", "queued"} /\ mail'[j].at \in {"queued", "dropped", "cleared"}
  BY <1>1, <1>2, <1>3, <1>6, <1>7 DEF Queued
<1> QED BY <1>3, <1>7, <1>8, <1>9, MailBounds, OutsideMoves

\* clear().
LEMMA ClearKeeps ==
    ASSUME MailInv, Clear
    PROVE  MailInv'
<1>1. /\ mail' = Moved(Queued, "cleared")
      /\ UNCHANGED <<tokens, events, lock, proc, limits>>
  BY DEF Clear
<1>2. /\ mail' \in [Mail -> MailRow]
      /\ \A j \in Mail : /\ mail'[j].attempts = mail[j].attempts
                         /\ mail'[j].at = IF j \in Queued THEN "cleared" ELSE mail[j].at
  BY <1>1, MailBounds, MovedRows DEF Places
<1>3. \A j \in Mail : mail'[j].at # mail[j].at =>
         mail[j].at \in {"none", "queued"} /\ mail'[j].at \in {"queued", "dropped", "cleared"}
  BY <1>2 DEF Queued
<1> QED BY <1>1, <1>2, <1>3, MailBounds, OutsideMoves

\* Events are sent and read, and time passes.
LEMMA TimeKeeps ==
    ASSUME MailInv, EnqueueEvent \/ Consume \/ Time
    PROVE  MailInv'
<1>1. CASE EnqueueEvent \/ Consume \/ Refill \/ CooldownOver
  <2>1. /\ tokens' \in 0..Burst /\ events' \in 0..EventMax
        /\ lock' \in {"free", "enqueue"} \cup Processor
        /\ UNCHANGED <<mail, proc, limits>>
    BY <1>1, MailBounds DEF EnqueueEvent, Consume, Refill, CooldownOver
  <2> QED BY <2>1, MailBounds, OutsideMoves
<1>2. ASSUME NEW i \in Mail, RetryTime(i) PROVE MailInv'
  <2> DEFINE b == mail[i]
             r == [b EXCEPT !.late = FALSE]
  <2>1. b \in MailRow BY MailBounds
  <2>2. r \in MailRow /\ r.at = b.at /\ r.attempts = b.attempts
    <3> HIDE DEF b
    <3> QED BY <2>1 DEF MailRow
  <2>3. mail' = [mail EXCEPT ![i] = r]
        /\ UNCHANGED <<tokens, events, lock, proc, limits>>
    BY <1>2 DEF RetryTime
  <2> HIDE DEF r
  <2>4. /\ mail' \in [Mail -> MailRow]
        /\ \A j \in Mail : mail'[j].at = mail[j].at /\ mail'[j].attempts = mail[j].attempts
    BY <2>2, <2>3, MailBounds
  <2> QED BY <2>3, <2>4, MailBounds, OutsideMoves
<1> QED BY <1>1, <1>2 DEF Time

\* A caller goes on with empty hands.
LEMMA StepsOn ==
    ASSUME MailInv, NEW p \in Processor, proc[p].pc \notin {"acquire", "send"},
           NEW pc \in CallPcs \ {"acquire", "send"}, StepsTo(p, pc),
           tokens' \in 0..Burst, events' \in 0..EventMax,
           lock' \in {"free", "enqueue"} \cup Processor,
           UNCHANGED <<mail, limits>>
    PROVE  MailInv'
<1> DEFINE b == proc[p]
           r == [b EXCEPT !.pc = pc]
<1>1. b \in ProcRow /\ b.hand = {} BY MailBounds DEF MailInv, Kept
<1>2. r \in ProcRow /\ r.pc = pc /\ r.hand = {} /\ r.retry = b.retry
  <2> HIDE DEF b
  <2> QED BY <1>1 DEF ProcRow
<1>3. proc' = [proc EXCEPT ![p] = r] BY DEF StepsTo
<1> HIDE DEF r
<1>4. Holding(r) = Holding(proc[p]) BY <1>1, <1>2 DEF Holding
<1>5. mail' \in [Mail -> MailRow] BY MailBounds
<1> QED BY <1>2, <1>3, <1>4, <1>5, QuietCall

\* A call begins, or tells what became of a message.
LEMMA CallStepsOn ==
    ASSUME MailInv, NEW p \in Processor, Process(p) \/ SettledEvent(p) \/ RetryEvent(p)
    PROVE  MailInv'
<1>1. CASE Process(p)
  BY <1>1, MailBounds, StepsOn DEF Process, CallPcs
<1>2. CASE SettledEvent(p)
  <2>1. /\ proc[p].pc = "event" /\ StepsTo(p, "take") /\ lock' = "free"
        /\ events' \in 0..EventMax
        /\ UNCHANGED <<mail, tokens, limits>>
    BY <1>2, MailBounds DEF SettledEvent
  <2> QED BY <2>1, MailBounds, StepsOn DEF CallPcs
<1>3. CASE RetryEvent(p)
  <2> DEFINE pc == IF proc[p].pc = "tell" THEN "take" ELSE "readd"
  <2>1. /\ proc[p].pc \in {"tell", "tellLimit"} /\ StepsTo(p, pc)
        /\ events' \in 0..EventMax
        /\ UNCHANGED <<mail, tokens, lock, limits>>
    BY <1>3, MailBounds DEF RetryEvent
  <2>2. pc \in CallPcs \ {"acquire", "send"} BY DEF CallPcs
  <2> HIDE DEF pc
  <2> QED BY <2>1, <2>2, MailBounds, StepsOn
<1> QED BY <1>1, <1>2, <1>3

\* A call takes what is due.
LEMMA TakeKeeps ==
    ASSUME MailInv, NEW p \in Processor, Take(p)
    PROVE  MailInv'
<1>1. /\ proc[p].pc = "take" /\ UNCHANGED <<tokens, events, lock, limits>>
  BY DEF Take
<1>2. CASE StepsTo(p, "readd") /\ UNCHANGED mail
  BY <1>1, <1>2, MailBounds, StepsOn DEF CallPcs
<1>3. CASE \E best \in SUBSET Queued :
              /\ mail' = Moved(best, "held")
              /\ proc' = [proc EXCEPT ![p].hand = best, ![p].pc = "acquire"]
  <2>1. PICK best \in SUBSET Queued :
              /\ mail' = Moved(best, "held")
              /\ proc' = [proc EXCEPT ![p].hand = best, ![p].pc = "acquire"]
    BY <1>3
  <2> DEFINE b == proc[p]
             r == [b EXCEPT !.hand = best, !.pc = "acquire"]
  <2>2. b \in ProcRow /\ b.hand = {} BY <1>1, MailBounds DEF MailInv, Kept
  <2>3. best \in SUBSET Mail BY DEF Queued
  <2>4. r \in ProcRow /\ r.pc = "acquire" /\ r.hand = best /\ r.retry = b.retry
    <3> HIDE DEF b
    <3> QED BY <2>2, <2>3 DEF ProcRow, CallPcs
  <2>5. proc' = [proc EXCEPT ![p] = r] BY <2>1
  <2> HIDE DEF r
  <2>6. /\ mail' \in [Mail -> MailRow]
        /\ \A i \in Mail : /\ mail'[i].attempts = mail[i].attempts
                           /\ mail'[i].at = IF i \in best THEN "held" ELSE mail[i].at
    BY <2>1, MailBounds, MovedRows DEF Places
  <2>7. \A i \in Mail : i \in b.retry => mail[i].at = "held"
    BY DEF MailInv, Kept, Holding
  <2>8. \A i \in best : i \in Mail /\ mail[i].at = "queued" BY DEF Queued
  <2>9. r.hand \cap r.retry = {} BY <2>3, <2>4, <2>7, <2>8
  <2>10. Holding(r) = best \cup b.retry /\ Holding(proc[p]) = b.retry
    BY <2>2, <2>4 DEF Holding
  <2>11. \A i \in Mail :
              /\ i \in Holding(r) \ Holding(proc[p]) => mail[i].at = "queued" /\ mail'[i].at = "held"
              /\ i \in Holding(proc[p]) \ Holding(r) => mail'[i].at = "queued"
              /\ (i \in Holding(r)) <=> (i \in Holding(proc[p])) => mail'[i].at = mail[i].at
    BY <2>6, <2>7, <2>8, <2>10
  <2> HIDE DEF b
  <2> QED BY <1>1, <2>4, <2>5, <2>6, <2>9, <2>11, MailBounds, QuietCall
<1>4. Ready \subseteq Queued BY DEF Ready
<1> QED BY <1>2, <1>3, <1>4 DEF Take

\* Acquire that finds no token, and Readd: what is let go is queued again.
LEMMA AcquireKeeps ==
    ASSUME MailInv, NEW p \in Processor, Acquire(p)
    PROVE  MailInv'
<1> DEFINE b == proc[p]
<1>1. /\ b.pc = "acquire" /\ UNCHANGED <<events, lock, limits>>
  BY DEF Acquire
<1>2. b \in ProcRow /\ b.hand \subseteq Mail BY MailBounds DEF ProcRow
<1>3. CASE CanSend
  <2>1. /\ tokens' = tokens - 1 /\ tokens >= 1
        /\ mail' = [i \in Mail |-> IF i \in b.hand THEN Attempted(mail[i]) ELSE mail[i]]
        /\ StepsTo(p, "send")
    BY <1>3 DEF Acquire, CanSend
  <2> DEFINE r == [b EXCEPT !.pc = "send"]
  <2>2. r \in ProcRow /\ r.pc = "send" /\ r.hand = b.hand /\ r.retry = b.retry
    <3> HIDE DEF b
    <3> QED BY <1>2 DEF ProcRow, CallPcs
  <2>3. proc' = [proc EXCEPT ![p] = r] BY <2>1 DEF StepsTo
  <2> HIDE DEF r
  <2>4. ASSUME NEW i \in Mail
        PROVE  /\ mail'[i] \in MailRow /\ mail'[i].at = mail[i].at
               /\ mail'[i].attempts = IF i \in b.hand THEN mail[i].attempts + 1
                                                     ELSE mail[i].attempts
    <3> DEFINE m == mail[i]
    <3>1. m \in MailRow BY MailBounds
    <3>2. mail'[i] = IF i \in b.hand THEN [m EXCEPT !.attempts = m.attempts + 1] ELSE m
      BY <2>1 DEF Attempted
    <3> HIDE DEF m
    <3>3. /\ [m EXCEPT !.attempts = m.attempts + 1] \in MailRow
          /\ [m EXCEPT !.attempts = m.attempts + 1].at = m.at
          /\ [m EXCEPT !.attempts = m.attempts + 1].attempts = m.attempts + 1
      BY <3>1 DEF MailRow
    <3> QED BY <3>1, <3>2, <3>3 DEF m
  <2>5. mail' \in [Mail -> MailRow] BY <2>1, <2>4
  <2>6. tokens' \in 0..Burst BY <2>1, MailBounds
  <2>7. QueueTypes' BY <1>1, <2>2, <2>3, <2>5, <2>6, MailBounds DEF QueueTypes
  <2>8. Kept(mail', proc')
    <3>1. Holding(r) = Holding(proc[p]) BY <2>2 DEF Holding
    <3>2. r.hand \cap r.retry = {} BY <2>2 DEF MailInv, Kept
    <3>3. \A i \in Mail :
              /\ i \in Holding(r) => mail'[i].at = "held"
              /\ i \in Holding(r) \ Holding(proc[p]) => mail[i].at # "held"
              /\ i \in Holding(proc[p]) \ Holding(r) => mail'[i].at # "held"
              /\ i \notin Holding(proc[p]) \cup Holding(r) =>
                    (mail'[i].at = "held") <=> (mail[i].at = "held")
      BY <2>4, <3>1 DEF MailInv, Kept
    <3>4. r.hand # {} => r.pc \in {"acquire", "send"} BY <2>2
    <3>5. Kept(mail, proc) BY DEF MailInv
    <3> QED BY <2>2, <2>3, <3>2, <3>3, <3>4, <3>5, MailBounds, CallerMoves
  <2>9. Tried(mail', proc', limits')
    <3> SUFFICES ASSUME NEW i \in Mail
                 PROVE  /\ mail'[i].attempts <= MaxAttempts + limits[i]
                        /\ mail'[i].at = "failed" => mail'[i].attempts >= MaxAttempts
                        /\ \/ mail'[i].attempts < MaxAttempts + limits[i]
                           \/ mail'[i].at \in {"sent", "failed"}
                           \/ \E x \in Processor : proc'[x].pc = "send" /\ i \in proc'[x].hand
      BY <1>1 DEF Tried
    <3>1. /\ mail[i].attempts <= MaxAttempts + limits[i]
          /\ mail[i].at = "failed" => mail[i].attempts >= MaxAttempts
          /\ \/ mail[i].attempts < MaxAttempts + limits[i]
             \/ mail[i].at \in {"sent", "failed"}
             \/ \E x \in Processor : proc[x].pc = "send" /\ i \in proc[x].hand
      BY DEF MailInv, Tried
    <3>2. mail[i].attempts \in Nat /\ limits[i] \in Nat BY MailBounds DEF MailRow
    <3>3. proc'[p] = r /\ \A x \in Processor \ {p} : proc'[x] = proc[x]
      BY <2>3, MailBounds
    <3>4. CASE i \in b.hand
      <4>1. mail[i].at = "held" BY <3>4 DEF MailInv, Kept, Holding
      <4>2. ~ \E x \in Processor : proc[x].pc = "send" /\ i \in proc[x].hand
        <5> SUFFICES ASSUME NEW x \in Processor, proc[x].pc = "send", i \in proc[x].hand
                     PROVE  FALSE
          OBVIOUS
        <5>1. x = p BY <3>4 DEF MailInv, Kept, Holding
        <5> QED BY <1>1, <5>1
      <4>3. mail[i].attempts < MaxAttempts + limits[i] BY <3>1, <4>1, <4>2
      <4>4. mail[i].attempts + 1 <= MaxAttempts + limits[i] BY <3>2, <4>3, MailBounds
      <4> QED BY <2>2, <2>4, <3>3, <3>4, <4>1, <4>4
    <3>5. CASE i \notin b.hand
      <4>1. \A x \in Processor : proc[x].pc = "send" /\ i \in proc[x].hand =>
               proc'[x].pc = "send" /\ i \in proc'[x].hand
        BY <1>1, <3>3
      <4> QED BY <2>4, <3>1, <3>5, <4>1
    <3> QED BY <3>4, <3>5
  <2> HIDE DEF b
  <2> QED BY <2>7, <2>8, <2>9 DEF MailInv
<1>4. CASE ~CanSend
  <2>1. /\ mail' = Moved(b.hand, "queued")
        /\ proc' = [proc EXCEPT ![p].hand = {}, ![p].pc = "readd"]
        /\ UNCHANGED tokens
    BY <1>4 DEF Acquire, Requeued
  <2> DEFINE r == [b EXCEPT !.hand = {}, !.pc = "readd"]
  <2>2. r \in ProcRow /\ r.pc = "readd" /\ r.hand = {} /\ r.retry = b.retry
    <3> HIDE DEF b
    <3> QED BY <1>2 DEF ProcRow, CallPcs
  <2>3. proc' = [proc EXCEPT ![p] = r] BY <2>1
  <2> HIDE DEF r
  <2>4. /\ mail' \in [Mail -> MailRow]
        /\ \A i \in Mail : /\ mail'[i].attempts = mail[i].attempts
                           /\ mail'[i].at = IF i \in b.hand THEN "queued" ELSE mail[i].at
    BY <2>1, MailBounds, MovedRows DEF Places
  <2>5. Holding(r) = b.retry /\ Holding(proc[p]) = b.hand \cup b.retry
        /\ b.hand \cap b.retry = {}
    BY <2>2 DEF Holding, MailInv, Kept
  <2>6. \A i \in Mail :
              /\ i \in Holding(r) \ Holding(proc[p]) => mail[i].at = "queued" /\ mail'[i].at = "held"
              /\ i \in Holding(proc[p]) \ Holding(r) => mail'[i].at = "queued"
              /\ (i \in Holding(r)) <=> (i \in Holding(proc[p])) => mail'[i].at = mail[i].at
    BY <2>4, <2>5
  <2>7. r.hand \cap r.retry = {} /\ proc[p].pc # "send" /\ r.pc # "send"
    BY <1>1, <2>2
  <2> HIDE DEF b
  <2> QED BY <1>1, <2>1, <2>2, <2>3, <2>4, <2>6, <2>7, MailBounds, QuietCall
<1> QED BY <1>3, <1>4

\* A call puts back what it kept.
LEMMA ReaddKeeps ==
    ASSUME MailInv, NEW p \in Processor, Readd(p)
    PROVE  MailInv'
<1> DEFINE b == proc[p]
<1>1. /\ b.pc = "readd" /\ mail' = Moved(b.retry, "queued")
      /\ proc' = [proc EXCEPT ![p] = NoProc]
      /\ UNCHANGED <<tokens, events, lock, limits>>
  BY DEF Readd, Requeued
<1>2. b.hand = {} BY <1>1 DEF MailInv, Kept
<1>3. /\ NoProc \in ProcRow /\ NoProc.pc = "idle" /\ NoProc.hand = {}
      /\ NoProc.retry = {}
  BY DEF NoProc, ProcRow, CallPcs
<1>4. /\ mail' \in [Mail -> MailRow]
      /\ \A i \in Mail : /\ mail'[i].attempts = mail[i].attempts
                         /\ mail'[i].at = IF i \in b.retry THEN "queued" ELSE mail[i].at
  BY <1>1, MailBounds, MovedRows DEF Places
<1>5. Holding(NoProc) = {} /\ Holding(proc[p]) = b.retry
  BY <1>2, <1>3 DEF Holding
<1>6. \A i \in Mail :
              /\ i \in Holding(NoProc) \ Holding(proc[p]) => mail[i].at = "queued" /\ mail'[i].at = "held"
              /\ i \in Holding(proc[p]) \ Holding(NoProc) => mail'[i].at = "queued"
              /\ (i \in Holding(NoProc)) <=> (i \in Holding(proc[p])) => mail'[i].at = mail[i].at
  BY <1>4, <1>5
<1>7. /\ proc[p].pc # "send" /\ NoProc.pc # "send"
      /\ NoProc.hand \cap NoProc.retry = {} /\ (NoProc.hand # {} => NoProc.pc = "acquire")
  BY <1>1, <1>3
<1> HIDE DEF b
<1> QED BY <1>1, <1>3, <1>4, <1>6, <1>7, MailBounds, QuietCall

\* Channel::send returns: what was sent is settled, or is kept for a retry
\* with attempts left.
LEMMA SendReturns ==
    ASSUME MailInv, NEW p \in Processor, proc[p].pc = "send",
           NEW r \in ProcRow, r.hand = {}, r.pc # "send",
           proc' = [proc EXCEPT ![p] = r],
           mail' \in [Mail -> MailRow], limits' \in [Mail -> Nat],
           tokens' \in 0..Burst, events' \in 0..EventMax,
           lock' \in {"free", "enqueue"} \cup Processor,
           \A i \in Mail : mail'[i].attempts = mail[i].attempts,
           \A i \in Mail : limits[i] <= limits'[i],
           \A i \in Mail \ proc[p].hand : mail'[i].at = mail[i].at,
           \/ /\ r.retry = proc[p].retry
              /\ \A i \in proc[p].hand :
                    /\ mail'[i].at \in {"sent", "failed"}
                    /\ mail'[i].at = "failed" => mail[i].attempts >= MaxAttempts
           \/ /\ r.retry = proc[p].retry \cup proc[p].hand
              /\ \A i \in proc[p].hand :
                    /\ mail'[i].at = mail[i].at
                    /\ mail[i].attempts < MaxAttempts + limits'[i]
    PROVE  MailInv'
<1> DEFINE b == proc[p]
<1>1. /\ \A i \in Mail : i \in Holding(b) => mail[i].at = "held"
      /\ b.hand \cap b.retry = {} /\ b.hand \subseteq Mail
  BY MailBounds DEF MailInv, Kept, ProcRow
<1>2. QueueTypes' BY MailBounds DEF QueueTypes
<1>3. Kept(mail', proc')
  <2>1. \A i \in Mail :
              /\ i \in Holding(r) => mail'[i].at = "held"
              /\ i \in Holding(r) \ Holding(b) => mail[i].at # "held"
              /\ i \in Holding(b) \ Holding(r) => mail'[i].at # "held"
              /\ i \notin Holding(b) \cup Holding(r) =>
                    (mail'[i].at = "held") <=> (mail[i].at = "held")
    BY <1>1 DEF Holding
  <2>2. r.hand \cap r.retry = {} /\ (r.hand # {} => r.pc \in {"acquire", "send"})
    OBVIOUS
  <2>3. Kept(mail, proc) BY DEF MailInv
  <2> QED BY <2>1, <2>2, <2>3, MailBounds, CallerMoves
<1>4. Tried(mail', proc', limits')
  <2> SUFFICES ASSUME NEW i \in Mail
               PROVE  /\ mail'[i].attempts <= MaxAttempts + limits'[i]
                      /\ mail'[i].at = "failed" => mail'[i].attempts >= MaxAttempts
                      /\ \/ mail'[i].attempts < MaxAttempts + limits'[i]
                         \/ mail'[i].at \in {"sent", "failed"}
                         \/ \E x \in Processor : proc'[x].pc = "send" /\ i \in proc'[x].hand
    BY DEF Tried
  <2>1. /\ mail[i].attempts <= MaxAttempts + limits[i]
        /\ mail[i].at = "failed" => mail[i].attempts >= MaxAttempts
        /\ \/ mail[i].attempts < MaxAttempts + limits[i]
           \/ mail[i].at \in {"sent", "failed"}
           \/ \E x \in Processor : proc[x].pc = "send" /\ i \in proc[x].hand
    BY DEF MailInv, Tried
  <2>2. /\ mail[i].attempts \in Nat /\ limits[i] \in Nat /\ limits'[i] \in Nat
        /\ limits[i] <= limits'[i] /\ mail'[i].attempts = mail[i].attempts
    BY MailBounds DEF MailRow
  <2>3. mail'[i].attempts <= MaxAttempts + limits'[i] BY <2>1, <2>2, MailBounds
  <2>4. CASE i \in b.hand
    <3>1. mail[i].at = "held" BY <1>1, <2>4 DEF Holding
    <3>2. CASE /\ mail'[i].at \in {"sent", "failed"}
               /\ mail'[i].at = "failed" => mail[i].attempts >= MaxAttempts
      BY <2>2, <2>3, <3>2
    <3>3. CASE mail'[i].at = mail[i].at /\ mail[i].attempts < MaxAttempts + limits'[i]
      BY <2>2, <2>3, <3>1, <3>3
    <3> QED BY <2>4, <3>2, <3>3
  <2>5. CASE i \notin b.hand
    <3>1. \A x \in Processor : proc[x].pc = "send" /\ i \in proc[x].hand =>
               proc'[x].pc = "send" /\ i \in proc'[x].hand
      BY <2>5, MailBounds
    <3>2. mail'[i].at = mail[i].at BY <2>5
    <3>3. mail[i].attempts < MaxAttempts + limits[i] =>
             mail'[i].attempts < MaxAttempts + limits'[i]
      BY <2>2, MailBounds
    <3> QED BY <2>1, <2>2, <2>3, <3>1, <3>2, <3>3
  <2> QED BY <2>4, <2>5
<1> QED BY <1>2, <1>3, <1>4 DEF MailInv

\* A message is settled: sent, or failed with its attempts spent.
LEMMA SettlesKeeps ==
    ASSUME MailInv, NEW p \in Processor, NEW place \in {"sent", "failed"},
           Settles(p, place),
           place = "failed" => \A i \in proc[p].hand : Spent(i)
    PROVE  MailInv'
<1> DEFINE b == proc[p]
           r == [b EXCEPT !.hand = {}, !.pc = "event"]
<1>1. /\ b.pc = "send" /\ mail' = Moved(b.hand, place) /\ lock' = p
      /\ proc' = [proc EXCEPT ![p] = r]
      /\ UNCHANGED <<tokens, events, limits>>
  BY DEF Settles
<1>2. b \in ProcRow /\ b.hand \subseteq Mail BY MailBounds DEF ProcRow
<1>3. r \in ProcRow /\ r.pc = "event" /\ r.hand = {} /\ r.retry = b.retry
  <2> HIDE DEF b
  <2> QED BY <1>2 DEF ProcRow, CallPcs
<1> HIDE DEF r
<1>4. /\ mail' \in [Mail -> MailRow]
      /\ \A i \in Mail : /\ mail'[i].attempts = mail[i].attempts
                         /\ mail'[i].at = IF i \in b.hand THEN place ELSE mail[i].at
  BY <1>1, MailBounds, MovedRows DEF Places
<1>5. /\ \A i \in Mail \ b.hand : mail'[i].at = mail[i].at
      /\ \A i \in b.hand :
            /\ mail'[i].at \in {"sent", "failed"}
            /\ mail'[i].at = "failed" => mail[i].attempts >= MaxAttempts
  BY <1>2, <1>4 DEF Spent
<1>6. \A i \in Mail : limits[i] <= limits'[i] BY <1>1, MailBounds
<1> QED BY <1>1, <1>3, <1>4, <1>5, <1>6, MailBounds, SendReturns

\* A message is kept for a retry.
LEMMA KeepsKeeps ==
    ASSUME MailInv, NEW p \in Processor, NEW next \in {"tell", "tellLimit"},
           proc[p].pc = "send", Keeps(p, next),
           limits' \in [Mail -> Nat], \A i \in Mail : limits[i] <= limits'[i],
           \A i \in proc[p].hand : mail[i].attempts < MaxAttempts + limits'[i],
           tokens' \in 0..Burst, UNCHANGED <<events, lock>>
    PROVE  MailInv'
<1> DEFINE b == proc[p]
           t == b.retry \cup b.hand
           r == [b EXCEPT !.hand = {}, !.pc = next, !.retry = t]
<1>1. /\ mail' = [i \in Mail |-> IF i \in b.hand
                                THEN [mail[i] EXCEPT !.late = TRUE] ELSE mail[i]]
      /\ proc' = [proc EXCEPT ![p] = r]
  BY DEF Keeps
<1>2. b \in ProcRow /\ b.hand \subseteq Mail /\ t \in SUBSET Mail BY MailBounds DEF ProcRow
<1>3. r \in ProcRow /\ r.pc = next /\ r.hand = {} /\ r.retry = t
  <2> HIDE DEF b, t
  <2> QED BY <1>2 DEF ProcRow, CallPcs
<1> HIDE DEF r
<1>4. ASSUME NEW i \in Mail
      PROVE  /\ mail'[i] \in MailRow /\ mail'[i].attempts = mail[i].attempts
             /\ mail'[i].at = mail[i].at
  <2> DEFINE m == mail[i]
  <2>1. m \in MailRow BY MailBounds
  <2>2. mail'[i] = IF i \in b.hand THEN [m EXCEPT !.late = TRUE] ELSE m BY <1>1
  <2> HIDE DEF m
  <2>3. /\ [m EXCEPT !.late = TRUE] \in MailRow
        /\ [m EXCEPT !.late = TRUE].attempts = m.attempts
        /\ [m EXCEPT !.late = TRUE].at = m.at
    BY <2>1 DEF MailRow
  <2> QED BY <2>1, <2>2, <2>3 DEF m
<1>5. mail' \in [Mail -> MailRow] BY <1>1, <1>4
<1>6. \A i \in b.hand : mail'[i].at = mail[i].at BY <1>2, <1>4
<1> QED BY <1>1, <1>3, <1>4, <1>5, <1>6, MailBounds, SendReturns

\* The four answers of a channel.
LEMMA SendKeeps ==
    ASSUME MailInv, NEW p \in Processor,
           SendOk(p) \/ SendFailsForGood(p) \/ SendFails(p) \/ SendLimited(p)
    PROVE  MailInv'
<1>1. CASE SendOk(p) BY <1>1, SettlesKeeps DEF SendOk
<1>2. CASE SendFailsForGood(p) BY <1>2, SettlesKeeps DEF SendFailsForGood
<1>3. proc[p].hand \subseteq Mail BY MailBounds DEF ProcRow
<1>4. \A i \in Mail : mail[i].attempts \in Nat /\ limits[i] \in Nat
  BY MailBounds DEF MailRow
<1>5. CASE SendFails(p)
  <2>1. /\ proc[p].pc = "send" /\ Keeps(p, "tell")
        /\ \A i \in proc[p].hand : ~(mail[i].attempts >= MaxAttempts)
        /\ UNCHANGED <<tokens, events, lock, limits>>
    BY <1>5 DEF SendFails, Spent
  <2>2. \A i \in proc[p].hand : mail[i].attempts < MaxAttempts + limits'[i]
    BY <1>3, <1>4, <2>1, MailBounds
  <2>3. \A i \in Mail : limits[i] <= limits'[i] BY <1>4, <2>1
  <2> QED BY <2>1, <2>2, <2>3, MailBounds, KeepsKeeps
<1>6. CASE SendLimited(p)
  <2>1. /\ proc[p].pc = "send" /\ Keeps(p, "tellLimit") /\ tokens' = 0
        /\ limits' = [i \in Mail |-> limits[i] + (IF i \in proc[p].hand THEN 1 ELSE 0)]
        /\ UNCHANGED <<events, lock>>
    BY <1>6 DEF SendLimited
  <2>2. limits' \in [Mail -> Nat] /\ \A i \in Mail : limits[i] <= limits'[i]
    BY <1>4, <2>1
  <2>3. \A i \in proc[p].hand : mail[i].attempts < MaxAttempts + limits'[i]
    <3> SUFFICES ASSUME NEW i \in proc[p].hand
                 PROVE  mail[i].attempts < MaxAttempts + limits'[i]
      OBVIOUS
    <3>1. i \in Mail /\ mail[i].attempts <= MaxAttempts + limits[i]
      BY <1>3 DEF MailInv, Tried
    <3>2. limits'[i] = limits[i] + 1 BY <2>1, <3>1
    <3> QED BY <1>4, <3>1, <3>2, MailBounds
  <2>4. tokens' \in 0..Burst BY <2>1, MailBounds
  <2> QED BY <2>1, <2>2, <2>3, <2>4, KeepsKeeps
<1> QED BY <1>1, <1>2, <1>5, <1>6

\* An empty queue.
LEMMA QueueStarts == QInit => MailInv
<1> SUFFICES ASSUME QInit PROVE MailInv OBVIOUS
<1> DEFINE m == [at |-> "none", attempts |-> 0, late |-> FALSE]
<1>1. m \in MailRow /\ m.at = "none" /\ m.attempts = 0 BY DEF MailRow, Places
<1>2. /\ NoProc \in ProcRow /\ NoProc.pc = "idle" /\ NoProc.hand = {}
      /\ NoProc.retry = {}
  BY DEF NoProc, ProcRow, CallPcs
<1>3. mail = [i \in Mail |-> m] BY DEF QInit
<1> HIDE DEF m
<1>4. /\ MaxAttempts \in Nat \ {0} /\ Burst \in Nat \ {0} /\ EventMax \in Nat \ {0}
  BY QueueAssumption
<1>5. QueueTypes
  <2>1. tokens \in 0..Burst /\ events \in 0..EventMax BY <1>4 DEF QInit
  <2>2. proc \in [Processor -> ProcRow] /\ limits \in [Mail -> Nat]
        /\ lock \in {"free", "enqueue"} \cup Processor
    BY <1>2 DEF QInit
  <2>3. mail \in [Mail -> MailRow] BY <1>1, <1>3
  <2> QED BY <2>1, <2>2, <2>3 DEF QueueTypes
<1>6. Kept(mail, proc) BY <1>1, <1>2, <1>3 DEF QInit, Kept, Holding
<1>7. Tried(mail, proc, limits) BY <1>1, <1>3, <1>4 DEF QInit, Tried
<1> QED BY <1>5, <1>6, <1>7 DEF MailInv

\* Every step keeps the invariant.
LEMMA QueueKeeps == MailInv /\ [QNext]_outbound => MailInv'
<1> SUFFICES ASSUME MailInv, [QNext]_outbound PROVE MailInv' OBVIOUS
<1>1. CASE \E i \in Mail : Enqueue(i) BY <1>1, EnqueueKeeps
<1>2. CASE Clear BY <1>2, ClearKeeps
<1>3. CASE EnqueueEvent \/ Consume \/ Time BY <1>3, TimeKeeps
<1>4. CASE \E p \in Processor : Process(p) \/ Working(p)
  BY <1>4, CallStepsOn, TakeKeeps, AcquireKeeps, SendKeeps, ReaddKeeps DEF Working
<1>5. CASE UNCHANGED outbound
  BY <1>5 DEF outbound, MailInv, QueueTypes, Kept, Tried
<1> QED BY <1>1, <1>2, <1>3, <1>4, <1>5 DEF QNext

\* MessageQueue::process_queue and its callers: for any number of messages,
\* calls that overlap and any limits, every message is in one place, a held
\* one in the hands of exactly one call, and none is tried more often than
\* max_attempts and its rate limits allow, or given up before.
THEOREM MailHolds == QSpec => [](QTypeOK /\ MailSound)
<1>1. MailInv => QTypeOK /\ MailSound
  <2> SUFFICES ASSUME MailInv PROVE QTypeOK /\ MailSound OBVIOUS
  <2>1. QTypeOK BY MailBounds DEF QTypeOK, MailRow, Places
  <2>2. AttemptsBounded BY DEF MailInv, Tried, AttemptsBounded
  <2>3. MailAccounted
    <3> SUFFICES ASSUME NEW i \in Mail
                 PROVE  Cardinality({p \in Processor : i \in proc[p].hand \cup proc[p].retry})
                           = IF mail[i].at = "held" THEN 1 ELSE 0
      BY DEF MailAccounted
    <3> DEFINE H == {p \in Processor : i \in proc[p].hand \cup proc[p].retry}
    <3>1. H = {p \in Processor : i \in Holding(proc[p])} BY DEF Holding
    <3>2. CASE mail[i].at = "held"
      <4>1. PICK p \in Processor : i \in Holding(proc[p]) BY <3>2 DEF MailInv, Kept
      <4>2. H = {p} BY <3>1, <4>1 DEF MailInv, Kept
      <4> QED BY <3>2, <4>2, FS_Singleton
    <3>3. CASE mail[i].at # "held"
      <4>1. H = {} BY <3>1, <3>3 DEF MailInv, Kept
      <4> QED BY <3>3, <4>1, FS_EmptySet
    <3> QED BY <3>2, <3>3
  <2> QED BY <2>1, <2>2, <2>3 DEF MailSound
<1> QED BY <1>1, QueueStarts, QueueKeeps, PTL DEF QSpec
=============================================================================
