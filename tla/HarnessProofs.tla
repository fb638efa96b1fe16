--------------------------- MODULE HarnessProofs ----------------------------
(***************************************************************************)
(* The ledger of a run of the harness, its final report and the moment an  *)
(* item is completed, proved for any plan, any checks and any limits. The  *)
(* inductive invariant HInv ties the ledger's tallies to the plan, the     *)
(* counters of every item to its budget, and what a sweep has already      *)
(* asked to the checked world; each handler of the loop is one lemma.      *)
(***************************************************************************)
EXTENDS Harness, FiniteSetTheorems, TLAPS
\* The states an item of the plan can be in.
PlanStates == {"absent", "open", "done", "abandoned"}

\* A progress record of an item (ItemProgress): its counters within their
\* limits.
Books == [stalled : Nat, replans : 0 .. MaxReplans, dry : 0 .. MaxReplans,
          narration : 0 .. Ladder, errors : 0 .. ItemErrors - 1,
          prechecked : BOOLEAN]

\* What one item can be charged: the dry streak never outruns the replans,
\* and the attempts stay below what the budget and the replans so far allow.
InBudget(b) == b.dry <= b.replans /\ b.stalled <= MaxSteps + 1 + 2 * b.replans

\* The run's ledger of verdicts and tallies.
Ledgers ==
    [verified : SUBSET Checked, abandoned : SUBSET Checked,
     unmet : SUBSET Checked, unverifiable : SUBSET (Item \ Checked),
     reopened : SUBSET Checked, precheck : SUBSET Item,
     outcomes : [Check -> Verdict \cup {"none"}], completed : Nat,
     walkedAway : Nat, revived : Nat, regressed : Nat, errors : Nat,
     unknown : BOOLEAN]

\* The ends of a run, and "running".
Ends == {"running", "Cancelled", "Exhausted", "AllTasksDone", "SourceError",
         "RunnerErrors"}

\* The types of the plan, the books, the ledger, the checked world and the
\* end.
Typed ==
    /\ plan \in [Item -> PlanStates]
    /\ progress \in [Item -> Books]
    /\ ledger \in Ledgers
    /\ world \in [Check -> BOOLEAN]
    /\ stop \in Ends

\* The kinds of a step.
Kinds == {"execute", "escalate", "replan"}

\* What the loop holds at each place.
Placed ==
    /\ at.pc = "step" => at \in [pc : {"step"}, item : Item, kind : Kinds]
    /\ at.pc = "judge" =>
          at \in [pc : {"judge"}, item : Item, outcome : Outcomes]
    /\ at.pc = "sweep" => at \in [pc : {"sweep"}, item : Item]
    /\ at.pc = "mid" =>
          at \in [pc : {"mid"}, revive : SUBSET Item, recheck : SUBSET Item]
    /\ at.pc = "drain" =>
          at \in [pc : {"drain"}, revive : SUBSET Item, recheck : SUBSET Item,
                  any : BOOLEAN]

\* A sweep only asks about items that the ledger has closed.
Chosen ==
    at.pc \in {"mid", "drain"} =>
       at.revive \subseteq ledger.abandoned /\ at.recheck \subseteq ledger.verified

\* Every book is in budget, and a step in hand was allowed: an execution
\* below the step limit, an escalation below the replan limit.
Budgets ==
    /\ \A i \in Item : InBudget(progress[i])
    /\ at.pc = "step" /\ at.kind = "execute" => progress[at.item].stalled < MaxSteps
    /\ at.pc = "step" /\ at.kind # "execute" => progress[at.item].replans < MaxReplans
    /\ at.pc = "judge" =>
          progress[at.item].stalled < MaxSteps + 2 * progress[at.item].replans

\* The item in hand is open.
Working == at.pc \in {"step", "judge"} => plan[at.item] = "open"

\* The items the plan p has in state k.
In(p, k) == {i \in Item : p[i] = k}

\* The tallies of the ledger are the plan's: what is closed and was not
\* reopened stands in the plan as it was filed, each counter counts its
\* items, and every reopening is filed as revived or regressed.
Balanced(p, l) ==
    /\ \A i \in l.abandoned \ l.reopened : p[i] = "abandoned"
    /\ \A i \in l.verified \ l.reopened : p[i] = "done"
    /\ l.completed = Cardinality(In(p, "done"))
    /\ l.walkedAway = Cardinality(In(p, "abandoned"))
    /\ l.revived + l.regressed = Cardinality(l.reopened)

\* A drain sweep that has heard no "unknown" and reopened nothing has asked:
\* what is verified and not left to ask holds, and what is filed as unmet
\* does not.
DrainAsked ==
    (at.pc = "drain" /\ ~ledger.unknown /\ ~SourceFails /\ ~at.any) =>
       /\ \A i \in ledger.verified \ (ledger.reopened \cup at.recheck) :
             world[CheckOf[i]]
       /\ \A i \in ledger.unmet : ~world[CheckOf[i]]
-----------------------------------------------------------------------------
\* The items in one state are finitely many.
LEMMA InSet ==
    ASSUME NEW p, NEW k
    PROVE  IsFiniteSet(In(p, k)) /\ Cardinality(In(p, k)) \in Nat
<1>1. In(p, k) \subseteq Item BY DEF In
<1>2. IsFiniteSet(In(p, k)) BY <1>1, HarnessAssumption, FS_Subset
<1> QED BY <1>2, FS_CardinalityType

\* The closed states of an item.
Closed == {"done", "abandoned"}

\* Closing an item adds one to the items in its new state and leaves the
\* other closed state alone.
LEMMA ItemCloses ==
    ASSUME NEW p \in [Item -> PlanStates], NEW i \in Item, p[i] = "open",
           NEW s \in Closed, NEW q, q[i] = s, \A j \in Item \ {i} : q[j] = p[j]
    PROVE  /\ Cardinality(In(q, s)) = Cardinality(In(p, s)) + 1
           /\ \A k \in Closed \ {s} : In(q, k) = In(p, k)
<1>1. In(q, s) = In(p, s) \cup {i} BY DEF In
<1>2. i \notin In(p, s) BY DEF In, Closed
<1>3. Cardinality(In(q, s)) = Cardinality(In(p, s)) + 1
  BY <1>1, <1>2, InSet, FS_AddElement
<1>4. \A k \in Closed \ {s} : In(q, k) = In(p, k) BY DEF In, Closed
<1> QED BY <1>3, <1>4

\* Reopening an item takes one from the items in the state it leaves.
LEMMA ItemReopens ==
    ASSUME NEW p \in [Item -> PlanStates], NEW i \in Item,
           NEW s \in Closed, p[i] = s,
           NEW q, q[i] = "open", \A j \in Item \ {i} : q[j] = p[j]
    PROVE  /\ Cardinality(In(p, s)) >= 1
           /\ Cardinality(In(q, s)) = Cardinality(In(p, s)) - 1
           /\ \A k \in Closed \ {s} : In(q, k) = In(p, k)
<1>1. In(q, s) = In(p, s) \ {i} BY DEF In, Closed
<1>2. i \in In(p, s) BY DEF In, Closed
<1>3. Cardinality(In(q, s)) = Cardinality(In(p, s)) - 1
  BY <1>1, <1>2, InSet, FS_RemoveElement
<1>4. Cardinality(In(q, s)) \in Nat /\ Cardinality(In(p, s)) \in Nat BY InSet
<1>5. \A k \in Closed \ {s} : In(q, k) = In(p, k) BY DEF In, Closed
<1>6. Cardinality(In(p, s)) >= 1 BY <1>3, <1>4
<1> QED BY <1>3, <1>5, <1>6

\* m differs from l in verdicts at most: every tally is the same.
SameBooks(l, m) ==
    /\ m.verified = l.verified /\ m.abandoned = l.abandoned
    /\ m.reopened = l.reopened /\ m.completed = l.completed
    /\ m.walkedAway = l.walkedAway /\ m.revived = l.revived
    /\ m.regressed = l.regressed

\* A step that closes and reopens nothing keeps the balance.
LEMMA BalancedKept ==
    ASSUME NEW p, NEW q, NEW l, NEW m, Balanced(p, l), SameBooks(l, m),
           l.verified \cup l.abandoned \subseteq Item,
           \A i \in Item : (q[i] = "done") <=> (p[i] = "done"),
           \A i \in Item : (q[i] = "abandoned") <=> (p[i] = "abandoned")
    PROVE  Balanced(q, m)
<1>1. In(q, "done") = In(p, "done") /\ In(q, "abandoned") = In(p, "abandoned")
  BY DEF In
<1>2. \A i \in m.abandoned \ m.reopened : q[i] = "abandoned"
  BY DEF Balanced, SameBooks
<1>3. \A i \in m.verified \ m.reopened : q[i] = "done"
  BY DEF Balanced, SameBooks
<1> QED BY <1>1, <1>2, <1>3 DEF Balanced, SameBooks

\* Noting a verdict touches no tally.
LEMMA NotedTyped ==
    ASSUME NEW l \in Ledgers, NEW i \in Checked, NEW v \in Verdict
    PROVE  /\ Noted(l, i, v) \in Ledgers
           /\ SameBooks(l, Noted(l, i, v))
           /\ Noted(l, i, v).unknown = l.unknown
           /\ Noted(l, i, v).unmet = l.unmet
<1>1. CheckOf[i] \in Check BY DEF Check, Checked
<1>2. [l.outcomes EXCEPT ![CheckOf[i]] = v] \in [Check -> Verdict \cup {"none"}]
  BY <1>1 DEF Ledgers
<1>3. Noted(l, i, v) = [l EXCEPT !.outcomes = [l.outcomes EXCEPT ![CheckOf[i]] = v]]
  BY DEF Noted, Ledgers
<1> DEFINE f == [l.outcomes EXCEPT ![CheckOf[i]] = v]
<1> HIDE DEF f
<1>4. [l EXCEPT !.outcomes = f] \in Ledgers BY <1>2 DEF Ledgers, f
<1>5. SameBooks(l, [l EXCEPT !.outcomes = f])
      /\ [l EXCEPT !.outcomes = f].unknown = l.unknown
      /\ [l EXCEPT !.outcomes = f].unmet = l.unmet
  BY DEF Ledgers, SameBooks
<1> QED BY <1>3, <1>4, <1>5 DEF f

\* record_completed() with its item done keeps the balance.
LEMMA CompletedBalances ==
    ASSUME NEW p \in [Item -> PlanStates], NEW l \in Ledgers, Balanced(p, l),
           NEW i \in Item, p[i] = "open"
    PROVE  /\ Completed(l, i) \in Ledgers
           /\ Balanced([p EXCEPT ![i] = "done"], Completed(l, i))
           /\ Completed(l, i).abandoned = l.abandoned
           /\ Completed(l, i).unknown = l.unknown
<1> DEFINE q == [p EXCEPT ![i] = "done"]
           m == Completed(l, i)
<1>0. m \in Ledgers
  <2> DEFINE V == IF i \in Checked THEN l.verified \cup {i} ELSE l.verified
             c == l.completed + 1
  <2>1. V \in SUBSET Checked /\ c \in Nat BY DEF Ledgers
  <2>2. m = [l EXCEPT !.completed = c, !.errors = 0, !.verified = V]
    BY DEF Completed
  <2> HIDE DEF V, c, m
  <2>3. [l EXCEPT !.completed = c, !.errors = 0, !.verified = V] \in Ledgers
    BY <2>1 DEF Ledgers
  <2> QED BY <2>2, <2>3
<1>1. /\ m.abandoned = l.abandoned /\ m.reopened = l.reopened
      /\ m.revived = l.revived /\ m.regressed = l.regressed
      /\ m.completed = l.completed + 1 /\ m.walkedAway = l.walkedAway
      /\ m.verified \subseteq l.verified \cup {i} /\ m.unknown = l.unknown
  BY DEF Completed, Ledgers
<1>2. /\ Cardinality(In(q, "done")) = Cardinality(In(p, "done")) + 1
      /\ In(q, "abandoned") = In(p, "abandoned")
  <2>1. "done" \in Closed /\ "abandoned" \in Closed \ {"done"} BY DEF Closed
  <2>2. q[i] = "done" /\ \A j \in Item \ {i} : q[j] = p[j] OBVIOUS
  <2> HIDE DEF q, m
  <2> QED BY <2>1, <2>2, ItemCloses
<1>3. l.verified \subseteq Item /\ l.abandoned \subseteq Item
  BY DEF Ledgers, Checked
<1>4. \A j \in Item : q[j] = IF j = i THEN "done" ELSE p[j] OBVIOUS
<1> HIDE DEF q, m
<1>5. \A j \in m.abandoned \ m.reopened : q[j] = "abandoned"
  BY <1>1, <1>3, <1>4 DEF Balanced
<1>6. \A j \in m.verified \ m.reopened : q[j] = "done"
  BY <1>1, <1>3, <1>4 DEF Balanced
<1>7. Balanced(q, m) BY <1>1, <1>2, <1>5, <1>6 DEF Balanced
<1> QED BY <1>0, <1>1, <1>7 DEF q, m

\* Filing an item as abandoned, with its item abandoned, keeps the balance.
LEMMA WalkedAwayBalances ==
    ASSUME NEW p \in [Item -> PlanStates], NEW l \in Ledgers, Balanced(p, l),
           NEW i \in Item, p[i] = "open"
    PROVE  /\ WalkedAway(l, i) \in Ledgers
           /\ Balanced([p EXCEPT ![i] = "abandoned"], WalkedAway(l, i))
<1> DEFINE q == [p EXCEPT ![i] = "abandoned"]
           m == WalkedAway(l, i)
<1>0. m \in Ledgers
  <2> DEFINE A == IF i \in Checked THEN l.abandoned \cup {i} ELSE l.abandoned
             U == IF i \in Checked THEN l.unverifiable ELSE l.unverifiable \cup {i}
             c == l.walkedAway + 1
  <2>1. A \in SUBSET Checked /\ U \in SUBSET (Item \ Checked) /\ c \in Nat
    BY DEF Ledgers
  <2>2. m = [l EXCEPT !.walkedAway = c, !.abandoned = A, !.unverifiable = U]
    BY DEF WalkedAway
  <2> HIDE DEF A, U, c, m
  <2>3. [l EXCEPT !.walkedAway = c, !.abandoned = A, !.unverifiable = U] \in Ledgers
    BY <2>1 DEF Ledgers
  <2> QED BY <2>2, <2>3
<1>1. /\ m.verified = l.verified /\ m.reopened = l.reopened
      /\ m.revived = l.revived /\ m.regressed = l.regressed
      /\ m.completed = l.completed /\ m.walkedAway = l.walkedAway + 1
      /\ m.abandoned \subseteq l.abandoned \cup {i}
  BY DEF WalkedAway, Ledgers
<1>2. /\ Cardinality(In(q, "abandoned")) = Cardinality(In(p, "abandoned")) + 1
      /\ In(q, "done") = In(p, "done")
  <2>1. "abandoned" \in Closed /\ "done" \in Closed \ {"abandoned"} BY DEF Closed
  <2>2. q[i] = "abandoned" /\ \A j \in Item \ {i} : q[j] = p[j] OBVIOUS
  <2> HIDE DEF q, m
  <2> QED BY <2>1, <2>2, ItemCloses
<1>3. l.verified \subseteq Item /\ l.abandoned \subseteq Item
  BY DEF Ledgers, Checked
<1>4. \A j \in Item : q[j] = IF j = i THEN "abandoned" ELSE p[j] OBVIOUS
<1> HIDE DEF q, m
<1>5. \A j \in m.abandoned \ m.reopened : q[j] = "abandoned"
  BY <1>1, <1>3, <1>4 DEF Balanced
<1>6. \A j \in m.verified \ m.reopened : q[j] = "done"
  BY <1>1, <1>3, <1>4 DEF Balanced
<1>7. Balanced(q, m) BY <1>1, <1>2, <1>5, <1>6 DEF Balanced
<1> QED BY <1>0, <1>7 DEF q, m

\* An item is reopened once, so the reopened ones grow by one.
LEMMA ReopenedOnceMore ==
    ASSUME NEW l \in Ledgers, NEW i \in Checked, i \notin l.reopened
    PROVE  Cardinality(l.reopened \cup {i}) = Cardinality(l.reopened) + 1
           /\ Cardinality(l.reopened) \in Nat
<1>1. l.reopened \subseteq Item BY DEF Ledgers, Checked
<1>2. IsFiniteSet(l.reopened) BY <1>1, HarnessAssumption, FS_Subset
<1> QED BY <1>2, FS_AddElement, FS_CardinalityType

\* Reviving an abandoned item keeps the balance.
LEMMA RevivedBalances ==
    ASSUME NEW p \in [Item -> PlanStates], NEW l \in Ledgers, Balanced(p, l),
           NEW i \in l.abandoned, i \notin l.reopened
    PROVE  /\ Revived(l, i) \in Ledgers
           /\ Balanced([p EXCEPT ![i] = "open"], Revived(l, i))
           /\ Revived(l, i).verified = l.verified
           /\ Revived(l, i).abandoned = l.abandoned
<1> DEFINE q == [p EXCEPT ![i] = "open"]
           m == Revived(l, i)
<1>a. i \in Checked /\ i \in Item BY DEF Ledgers, Checked
<1>b. p[i] = "abandoned" BY DEF Balanced
<1>2. /\ Cardinality(In(q, "abandoned")) = Cardinality(In(p, "abandoned")) - 1
      /\ Cardinality(In(p, "abandoned")) >= 1
      /\ In(q, "done") = In(p, "done")
  <2>1. "abandoned" \in Closed \ {"done"} /\ "done" \in Closed \ {"abandoned"} BY DEF Closed
  <2>2. q[i] = "open" /\ \A j \in Item \ {i} : q[j] = p[j] BY <1>a
  <2> HIDE DEF q, m
  <2> QED BY <2>1, <2>2, <1>a, <1>b, ItemReopens
<1>c. l.walkedAway \in Nat /\ l.walkedAway >= 1 BY <1>2 DEF Balanced, Ledgers
<1>d. Minus1(l.walkedAway) = l.walkedAway - 1 /\ Minus1(l.walkedAway) \in Nat
  BY <1>c DEF Minus1
<1>1. /\ m.abandoned = l.abandoned /\ m.verified = l.verified
      /\ m.reopened = l.reopened \cup {i} /\ m.regressed = l.regressed
      /\ m.revived = l.revived + 1 /\ m.completed = l.completed
      /\ m.walkedAway = Minus1(l.walkedAway)
  BY DEF Revived, Ledgers
<1>0. m \in Ledgers
  <2> DEFINE R == l.reopened \cup {i}
             P == l.precheck \cup {i}
             c == l.revived + 1
             w == Minus1(l.walkedAway)
  <2>1. R \in SUBSET Checked /\ P \in SUBSET Item /\ w \in Nat /\ c \in Nat
    BY <1>a, <1>d DEF Ledgers
  <2>2. m = [l EXCEPT !.reopened = R, !.precheck = P, !.revived = c,
                      !.walkedAway = w]
    BY DEF Revived
  <2> HIDE DEF R, P, c, w, m
  <2>3. [l EXCEPT !.reopened = R, !.precheck = P, !.revived = c,
                  !.walkedAway = w] \in Ledgers
    BY <2>1 DEF Ledgers
  <2> QED BY <2>2, <2>3
<1>3. l.verified \subseteq Item /\ l.abandoned \subseteq Item
  BY DEF Ledgers, Checked
<1>4. \A j \in Item : q[j] = IF j = i THEN "open" ELSE p[j] OBVIOUS
<1>e. l.revived \in Nat /\ l.regressed \in Nat BY DEF Ledgers
<1> HIDE DEF q, m
<1>5. \A j \in m.abandoned \ m.reopened : q[j] = "abandoned"
  BY <1>1, <1>3, <1>4 DEF Balanced
<1>6. \A j \in m.verified \ m.reopened : q[j] = "done"
  BY <1>1, <1>3, <1>4 DEF Balanced
<1>8. m.revived + m.regressed = Cardinality(m.reopened)
  BY <1>1, <1>a, <1>e, ReopenedOnceMore DEF Balanced
<1>7. Balanced(q, m) BY <1>1, <1>2, <1>d, <1>5, <1>6, <1>8 DEF Balanced
<1> QED BY <1>0, <1>1, <1>7 DEF q, m

\* Reopening a verified item whose check no longer holds keeps the balance.
LEMMA RegressedBalances ==
    ASSUME NEW p \in [Item -> PlanStates], NEW l \in Ledgers, Balanced(p, l),
           NEW i \in l.verified, i \notin l.reopened
    PROVE  /\ Regressed(l, i) \in Ledgers
           /\ Balanced([p EXCEPT ![i] = "open"], Regressed(l, i))
           /\ Regressed(l, i).verified = l.verified
           /\ Regressed(l, i).abandoned = l.abandoned
<1> DEFINE q == [p EXCEPT ![i] = "open"]
           m == Regressed(l, i)
<1>a. i \in Checked /\ i \in Item BY DEF Ledgers, Checked
<1>b. p[i] = "done" BY DEF Balanced
<1>2. /\ Cardinality(In(q, "done")) = Cardinality(In(p, "done")) - 1
      /\ Cardinality(In(p, "done")) >= 1
      /\ In(q, "abandoned") = In(p, "abandoned")
  <2>1. "abandoned" \in Closed \ {"done"} /\ "done" \in Closed \ {"abandoned"} BY DEF Closed
  <2>2. q[i] = "open" /\ \A j \in Item \ {i} : q[j] = p[j] BY <1>a
  <2> HIDE DEF q, m
  <2> QED BY <2>1, <2>2, <1>a, <1>b, ItemReopens
<1>c. l.completed \in Nat /\ l.completed >= 1 BY <1>2 DEF Balanced, Ledgers
<1>d. Minus1(l.completed) = l.completed - 1 /\ Minus1(l.completed) \in Nat
  BY <1>c DEF Minus1
<1>1. /\ m.abandoned = l.abandoned /\ m.verified = l.verified
      /\ m.reopened = l.reopened \cup {i} /\ m.revived = l.revived
      /\ m.regressed = l.regressed + 1 /\ m.walkedAway = l.walkedAway
      /\ m.completed = Minus1(l.completed)
  BY DEF Regressed, Ledgers
<1>0. m \in Ledgers
  <2> DEFINE R == l.reopened \cup {i}
             c == Minus1(l.completed)
             n == l.regressed + 1
  <2>1. R \in SUBSET Checked /\ c \in Nat /\ n \in Nat BY <1>a, <1>d DEF Ledgers
  <2>2. m = [l EXCEPT !.reopened = R, !.completed = c, !.regressed = n]
    BY DEF Regressed
  <2> HIDE DEF R, c, n, m
  <2>3. [l EXCEPT !.reopened = R, !.completed = c, !.regressed = n] \in Ledgers
    BY <2>1 DEF Ledgers
  <2> QED BY <2>2, <2>3
<1>3. l.verified \subseteq Item /\ l.abandoned \subseteq Item
  BY DEF Ledgers, Checked
<1>4. \A j \in Item : q[j] = IF j = i THEN "open" ELSE p[j] OBVIOUS
<1>e. l.revived \in Nat /\ l.regressed \in Nat BY DEF Ledgers
<1> HIDE DEF q, m
<1>5. \A j \in m.abandoned \ m.reopened : q[j] = "abandoned"
  BY <1>1, <1>3, <1>4 DEF Balanced
<1>6. \A j \in m.verified \ m.reopened : q[j] = "done"
  BY <1>1, <1>3, <1>4 DEF Balanced
<1>8. m.revived + m.regressed = Cardinality(m.reopened)
  BY <1>1, <1>a, <1>e, ReopenedOnceMore DEF Balanced
<1>7. Balanced(q, m) BY <1>1, <1>2, <1>d, <1>5, <1>6, <1>8 DEF Balanced
<1> QED BY <1>0, <1>1, <1>7 DEF q, m
-----------------------------------------------------------------------------
\* The inductive invariant of a run: types, places, budgets, the balance of
\* plan and ledger, what the drain has asked, and the final report itself.
HInv ==
    /\ Typed /\ Placed /\ Chosen /\ Budgets /\ Working
    /\ Balanced(plan, ledger)
    /\ DrainAsked /\ FinalReportHolds

\* A verdict that is not "unknown" says what the world is.
LEMMA VerdictsTrue ==
    ASSUME NEW i, NEW v \in Verdicts(i)
    PROVE  /\ v \in Verdict
           /\ v = "pass" => world[CheckOf[i]]
           /\ v = "fail" => ~world[CheckOf[i]]
BY DEF Verdicts, Verdict, Silent

\* The user's word refills the attempts and gives back no replan.
LEMMA Replenishes ==
    ASSUME NEW p \in [Item -> Books], \A j \in Item : InBudget(p[j]),
           NEW flip \in BOOLEAN
    PROVE  LET q == Replenished(p, flip)
           IN  /\ q \in [Item -> Books]
               /\ \A j \in Item : InBudget(q[j])
               /\ \A j \in Item : q[j].replans = p[j].replans
               /\ \A j \in Item : q[j].stalled = p[j].stalled \/ q[j].stalled = 0
<1>1. CASE ~flip BY <1>1 DEF Replenished
<1>2. CASE flip
  <2> DEFINE q == [j \in Item |-> [p[j] EXCEPT !.stalled = 0]]
  <2>1. ASSUME NEW j \in Item
        PROVE  /\ q[j] \in Books /\ q[j].replans = p[j].replans
               /\ q[j].stalled = 0 /\ q[j].dry = p[j].dry
    <3>1. p[j] \in Books OBVIOUS
    <3> DEFINE b == p[j]
    <3> HIDE DEF b
    <3>2. b \in Books BY <3>1 DEF b
    <3>3. [b EXCEPT !.stalled = 0] \in Books BY <3>2 DEF Books
    <3>4. /\ [b EXCEPT !.stalled = 0].replans = b.replans
          /\ [b EXCEPT !.stalled = 0].stalled = 0
          /\ [b EXCEPT !.stalled = 0].dry = b.dry
      BY <3>2 DEF Books
    <3>5. q[j] = [b EXCEPT !.stalled = 0] BY DEF b
    <3> QED BY <3>3, <3>4, <3>5 DEF b
  <2>2. q \in [Item -> Books] BY <2>1
  <2>3. \A j \in Item : q[j].replans \in Nat /\ p[j].dry <= p[j].replans
    BY <2>1 DEF InBudget, Books
  <2>4. Replenished(p, flip) = q BY <1>2 DEF Replenished
  <2> HIDE DEF q
  <2>5. \A j \in Item : InBudget(q[j])
    BY <2>1, <2>3, HarnessAssumption DEF InBudget
  <2> QED BY <2>1, <2>2, <2>4, <2>5
<1> QED BY <1>1, <1>2

\* A new item starts in budget.
LEMMA FreshBook ==
    Fresh \in Books /\ InBudget(Fresh)
BY HarnessAssumption DEF Fresh, Books, InBudget

\* Replacing one book by a book in budget.
LEMMA BookMoves ==
    ASSUME NEW p \in [Item -> Books], \A j \in Item : InBudget(p[j]),
           NEW i \in Item, NEW b \in Books, InBudget(b)
    PROVE  LET q == [p EXCEPT ![i] = b]
           IN  /\ q \in [Item -> Books]
               /\ \A j \in Item : InBudget(q[j])
               /\ q[i] = b
OBVIOUS

\* Between steps and sweeps only the books have anything to keep.
LEMMA Resting ==
    ASSUME at'.pc \in {"head", "next", "end"},
           \A j \in Item : InBudget(progress'[j])
    PROVE  Placed' /\ Chosen' /\ Budgets' /\ Working' /\ DrainAsked'
BY DEF Placed, Chosen, Budgets, Working, DrainAsked

\* An item that was swept leaves both lists of the sweep.
LEMMA SweptPlaces ==
    ASSUME Placed, Chosen, at.pc \in {"mid", "drain"}, NEW i,
           NEW r \in BOOLEAN, Swept(i, r)
    PROVE  /\ at'.pc = at.pc
           /\ at'.revive = at.revive \ {i} /\ at'.recheck = at.recheck \ {i}
           /\ at.pc = "drain" => at'.any = (at.any \/ r)
           /\ Placed'
<1>1. CASE at.pc = "mid"
  <2>1. DOMAIN at = {"pc", "revive", "recheck"} /\ at.revive \subseteq Item /\ at.recheck \subseteq Item BY <1>1 DEF Placed
  <2>2. at' = [pc |-> "mid", revive |-> at.revive \ {i}, recheck |-> at.recheck \ {i}]
    BY <1>1, <2>1 DEF Swept
  <2> QED BY <1>1, <2>1, <2>2 DEF Placed
<1>2. CASE at.pc = "drain"
  <2>1. DOMAIN at = {"pc", "revive", "recheck", "any"} /\ at.revive \subseteq Item /\ at.recheck \subseteq Item /\ at.any \in BOOLEAN BY <1>2 DEF Placed
  <2>2. at' = [pc |-> "drain", revive |-> at.revive \ {i},
               recheck |-> at.recheck \ {i}, any |-> at.any \/ r]
    BY <1>2, <2>1 DEF Swept
  <2> QED BY <1>2, <2>1, <2>2 DEF Placed
<1> QED BY <1>1, <1>2
-----------------------------------------------------------------------------
\* What the types say of each part of the ledger.
LEMMA TypedFacts ==
    ASSUME Typed
    PROVE  /\ plan \in [Item -> PlanStates] /\ progress \in [Item -> Books]
           /\ ledger \in Ledgers /\ world \in [Check -> BOOLEAN]
           /\ ledger.verified \subseteq Checked
           /\ ledger.abandoned \subseteq Checked
           /\ ledger.unmet \subseteq Checked
           /\ ledger.reopened \subseteq Checked
BY DEF Typed, Ledgers

\* A step that only moves the loop, or the run's end.
LEMMA LoopRests ==
    ASSUME HInv, at'.pc \in {"head", "next", "end"}, stop' \in Ends,
           stop' # "AllTasksDone",
           UNCHANGED <<plan, world, progress, ledger>>
    PROVE  HInv'
<1>1. Typed' BY DEF HInv, Typed
<1>2. Balanced(plan, ledger)' BY DEF HInv
<1>3. FinalReportHolds' BY DEF FinalReportHolds
<1>4. \A j \in Item : InBudget(progress'[j]) BY DEF HInv, Budgets
<1> QED BY <1>1, <1>2, <1>3, <1>4, Resting DEF HInv

\* A message of the user mid-run.
LEMMA InterjectKeeps ==
    ASSUME HInv, NEW S \in SUBSET Asked, Interject(S)
    PROVE  HInv'
<1>1. /\ at' = [pc |-> "next"] /\ stop' = stop /\ stop = "running"
      /\ plan' = [i \in Item |-> IF i \in S THEN "open" ELSE plan[i]]
      /\ \A i \in S : plan[i] = "absent"
      /\ UNCHANGED <<world, progress, ledger>>
  BY DEF Interject, Goto, At
<1>2. Typed' BY <1>1 DEF HInv, Typed, PlanStates
<1>3. Balanced(plan', ledger')
  <2>1. SameBooks(ledger, ledger') BY <1>1 DEF SameBooks
  <2>2. ledger.verified \cup ledger.abandoned \subseteq Item
    BY TypedFacts DEF HInv, Checked
  <2>3. /\ \A i \in Item : (plan'[i] = "done") <=> (plan[i] = "done")
        /\ \A i \in Item : (plan'[i] = "abandoned") <=> (plan[i] = "abandoned")
    BY <1>1
  <2> QED BY <2>1, <2>2, <2>3, BalancedKept DEF HInv
<1>4. FinalReportHolds' BY <1>1 DEF FinalReportHolds
<1>5. \A j \in Item : InBudget(progress'[j]) BY <1>1 DEF HInv, Budgets
<1> QED BY <1>1, <1>2, <1>3, <1>4, <1>5, Resting DEF HInv

\* An item is walked away from, or the source refuses to close it.
LEMMA AbandonKeeps ==
    ASSUME HInv, NEW i \in Item, plan[i] = "open", stop = "running",
           NEW l \in Ledgers, SameBooks(ledger, l), Abandon(i, l),
           UNCHANGED world
    PROVE  HInv'
<1>0. Balanced(plan, l)
  BY BalancedKept, TypedFacts DEF HInv, Checked
<1>1. CASE /\ plan' = [plan EXCEPT ![i] = "abandoned"]
           /\ ledger' = WalkedAway(l, i)
           /\ progress' = [progress EXCEPT ![i] = Fresh]
           /\ Goto("head") /\ UNCHANGED stop
  <2>1. ledger' \in Ledgers /\ Balanced(plan', ledger')
    BY <1>0, <1>1, TypedFacts, WalkedAwayBalances DEF HInv
  <2>2. plan' \in [Item -> PlanStates]
    BY <1>1, TypedFacts DEF HInv, PlanStates
  <2>3. /\ progress' \in [Item -> Books]
        /\ \A j \in Item : InBudget(progress'[j])
    BY <1>1, TypedFacts, BookMoves, FreshBook DEF HInv, Budgets
  <2>4. Typed' BY <1>1, <2>1, <2>2, <2>3 DEF HInv, Typed
  <2>5. at' = [pc |-> "head"] BY <1>1 DEF Goto
  <2>6. FinalReportHolds' BY <1>1 DEF FinalReportHolds
  <2> QED BY <2>1, <2>3, <2>4, <2>5, <2>6, Resting DEF HInv
<1>2. CASE /\ Stop("SourceError") /\ ledger' = l /\ UNCHANGED <<plan, progress>>
  <2>1. at' = [pc |-> "end"] /\ stop' = "SourceError" BY <1>2 DEF Stop
  <2>2. Typed' BY <1>2, <2>1 DEF HInv, Typed, Ends
  <2>3. Balanced(plan', ledger') BY <1>0, <1>2
  <2>4. FinalReportHolds' BY <2>1 DEF FinalReportHolds
  <2>5. \A j \in Item : InBudget(progress'[j]) BY <1>2 DEF HInv, Budgets
  <2> QED BY <2>1, <2>2, <2>3, <2>4, <2>5, Resting DEF HInv
<1> QED BY <1>1, <1>2 DEF Abandon

\* The budget gate of an item.
LEMMA AbandonExhaustedKeeps ==
    ASSUME HInv, NEW i \in Item, AbandonExhausted(i)
    PROVE  HInv'
<1>1. SameBooks(ledger, ledger) BY DEF SameBooks
<1>2. /\ plan[i] = "open" /\ stop = "running" /\ Abandon(i, ledger)
      /\ UNCHANGED world
  BY DEF AbandonExhausted, Selects, At
<1> QED BY <1>1, <1>2, TypedFacts, AbandonKeeps DEF HInv

\* The step after the gate is within the item's budget.
LEMMA StepPlaced ==
    ASSUME HInv, NEW i \in Item, plan[i] = "open", ~Exhausted(i),
           at' = StepAt(i), plan' = plan, \A j \in Item : InBudget(progress'[j]),
           progress'[i].replans = progress[i].replans,
           progress'[i].stalled = progress[i].stalled \/ progress'[i].stalled = 0
    PROVE  Placed' /\ Chosen' /\ Budgets' /\ Working' /\ DrainAsked'
<1>1. /\ at'.pc = "step" /\ at'.item = i /\ at'.kind \in Kinds
      /\ at' \in [pc : {"step"}, item : Item, kind : Kinds]
      /\ (at'.kind = "execute") => ~Stalled(i)
      /\ (at'.kind # "execute") => Stalled(i)
  BY DEF StepAt, Kinds
<1>2. progress[i] \in Books BY TypedFacts DEF HInv
<1>3. progress[i].stalled \in Nat /\ progress[i].replans \in Nat
  BY <1>2 DEF Books
<1>4. at'.kind = "execute" => progress'[i].stalled < MaxSteps
  BY <1>1, <1>3, HarnessAssumption DEF Stalled
<1>5. at'.kind # "execute" => progress'[i].replans < MaxReplans
  BY <1>1, <1>3, HarnessAssumption DEF Exhausted
<1>6. Budgets' BY <1>1, <1>4, <1>5 DEF Budgets
<1>7. Placed' /\ Chosen' /\ Working' /\ DrainAsked'
  BY <1>1 DEF Placed, Chosen, Working, DrainAsked
<1> QED BY <1>6, <1>7

\* Marking an item as prechecked changes no counter.
LEMMA Prechecks ==
    ASSUME HInv, NEW i \in Item
    PROVE  LET p == [progress EXCEPT ![i].prechecked = TRUE]
           IN  /\ p \in [Item -> Books]
               /\ \A j \in Item : InBudget(p[j])
               /\ p[i].stalled = progress[i].stalled
               /\ p[i].replans = progress[i].replans
<1> DEFINE b == [progress[i] EXCEPT !.prechecked = TRUE]
           c == progress[i]
<1>1. c \in Books /\ InBudget(c) BY TypedFacts DEF HInv, Budgets
<1>2. b = [c EXCEPT !.prechecked = TRUE] OBVIOUS
<1> HIDE DEF b, c
<1>3. b \in Books /\ b.stalled = c.stalled /\ b.replans = c.replans /\ b.dry = c.dry
  BY <1>1, <1>2 DEF Books
<1>4. InBudget(b) BY <1>1, <1>3 DEF InBudget
<1>5. [progress EXCEPT ![i].prechecked = TRUE] = [progress EXCEPT ![i] = b]
  BY DEF b
<1>6. progress \in [Item -> Books] /\ \A j \in Item : InBudget(progress[j])
  BY TypedFacts DEF HInv, Budgets
<1> QED BY <1>3, <1>4, <1>5, <1>6, BookMoves DEF c

\* A step begins.
LEMMA BeginStepKeeps ==
    ASSUME HInv, NEW i \in Item, BeginStep(i)
    PROVE  HInv'
<1>1. /\ plan[i] = "open" /\ stop = "running" /\ ~Exhausted(i)
      /\ at' = StepAt(i)
      /\ progress' = [progress EXCEPT ![i].prechecked = TRUE]
      /\ UNCHANGED <<plan, world, ledger, stop>>
  BY DEF BeginStep, Selects, At
<1>2. /\ progress' \in [Item -> Books]
      /\ \A j \in Item : InBudget(progress'[j])
      /\ progress'[i].stalled = progress[i].stalled
      /\ progress'[i].replans = progress[i].replans
  BY <1>1, Prechecks
<1>3. Typed' BY <1>1, <1>2 DEF HInv, Typed
<1>4. Balanced(plan', ledger') BY <1>1 DEF HInv
<1>5. FinalReportHolds' BY <1>1 DEF FinalReportHolds
<1> QED BY <1>1, <1>2, <1>3, <1>4, <1>5, StepPlaced DEF HInv

\* An item is checked before its first step.
LEMMA PrecheckItemKeeps ==
    ASSUME HInv, NEW i \in Item, NEW v \in Verdict, PrecheckItem(i, v)
    PROVE  HInv'
<1> DEFINE e == [progress EXCEPT ![i].prechecked = TRUE]
           flip == Flipped(ledger, i, v)
           p == Replenished(e, flip)
           l == IF v = "unknown" THEN [ledger EXCEPT !.unknown = TRUE]
                ELSE Noted(ledger, i, v)
<1>1. /\ plan[i] = "open" /\ stop = "running" /\ ~Exhausted(i)
      /\ i \in Checked
      /\ UNCHANGED <<world, stop>>
  BY DEF PrecheckItem, Selects, At, PrecheckDue
<1>2. \/ /\ v = "pass"
         /\ plan' = [plan EXCEPT ![i] = "done"]
         /\ ledger' = Completed(l, i)
         /\ progress' = [p EXCEPT ![i] = Fresh]
         /\ at' = [pc |-> "head"]
      \/ at' = StepAt(i) /\ ledger' = l /\ progress' = p /\ plan' = plan
  BY DEF PrecheckItem, Goto
<1>3. /\ e \in [Item -> Books]
      /\ \A j \in Item : InBudget(e[j])
      /\ e[i].stalled = progress[i].stalled
      /\ e[i].replans = progress[i].replans
  BY Prechecks
<1>4. flip \in BOOLEAN BY DEF Flipped
<1> HIDE DEF e, flip
<1>5. /\ p \in [Item -> Books]
      /\ \A j \in Item : InBudget(p[j])
      /\ p[i].replans = e[i].replans
      /\ p[i].stalled = e[i].stalled \/ p[i].stalled = 0
  BY <1>3, <1>4, Replenishes
<1> HIDE DEF p
<1>6. l \in Ledgers /\ SameBooks(ledger, l)
  <2>1. CASE v = "unknown"
    <3>1. [ledger EXCEPT !.unknown = TRUE] \in Ledgers
          /\ SameBooks(ledger, [ledger EXCEPT !.unknown = TRUE])
      BY TypedFacts DEF HInv, Ledgers, SameBooks
    <3> QED BY <2>1, <3>1
  <2>2. CASE v # "unknown"
    BY <2>2, <1>1, TypedFacts, NotedTyped DEF HInv
  <2> QED BY <2>1, <2>2
<1> HIDE DEF l
<1>7. Balanced(plan, l)
  BY <1>6, BalancedKept, TypedFacts DEF HInv, Checked
<1>8. FinalReportHolds' BY <1>1 DEF FinalReportHolds
<1>9. CASE /\ plan' = [plan EXCEPT ![i] = "done"]
           /\ ledger' = Completed(l, i)
           /\ progress' = [p EXCEPT ![i] = Fresh]
           /\ at' = [pc |-> "head"]
  <2>1. ledger' \in Ledgers /\ Balanced(plan', ledger')
    BY <1>1, <1>6, <1>7, <1>9, TypedFacts, CompletedBalances DEF HInv
  <2>2. plan' \in [Item -> PlanStates]
    BY <1>9, TypedFacts DEF HInv, PlanStates
  <2>3. /\ progress' \in [Item -> Books]
        /\ \A j \in Item : InBudget(progress'[j])
    BY <1>5, <1>9, BookMoves, FreshBook
  <2>4. Typed' BY <1>1, <2>1, <2>2, <2>3 DEF HInv, Typed
  <2> QED BY <1>8, <1>9, <2>1, <2>3, <2>4, Resting DEF HInv
<1>10. CASE at' = StepAt(i) /\ ledger' = l /\ progress' = p /\ plan' = plan
  <2>1. Typed' BY <1>1, <1>5, <1>6, <1>10 DEF HInv, Typed
  <2>2. Placed' /\ Chosen' /\ Budgets' /\ Working' /\ DrainAsked'
    BY <1>1, <1>3, <1>5, <1>10, StepPlaced
  <2> QED BY <1>7, <1>8, <1>10, <2>1, <2>2 DEF HInv
<1> QED BY <1>2, <1>9, <1>10

\* The runner fails under an item.
LEMMA RunnerFailsKeeps ==
    ASSUME HInv, RunnerFails
    PROVE  HInv'
<1> DEFINE i == at.item
           l == [ledger EXCEPT !.errors = ledger.errors + 1]
           b == progress[i]
           c == [b EXCEPT !.errors = b.errors + 1]
<1>1. /\ i \in Item /\ plan[i] = "open" /\ stop = "running"
      /\ UNCHANGED world
  BY DEF RunnerFails, At, HInv, Placed, Working
<1>2. l \in Ledgers /\ SameBooks(ledger, l)
  BY TypedFacts DEF HInv, Ledgers, SameBooks
<1>3. \/ Abandon(i, l)
      \/ /\ progress[i].errors + 1 < ItemErrors
         /\ progress' = [progress EXCEPT ![i].errors = @ + 1]
         /\ ledger' = l
         /\ Stop("RunnerErrors") \/ (Goto("head") /\ UNCHANGED stop)
         /\ UNCHANGED plan
  <2>1. l = [ledger EXCEPT !.errors = @ + 1] OBVIOUS
  <2> HIDE DEF l
  <2>2. progress[i] \in Books BY <1>1, TypedFacts DEF HInv
  <2>3. progress[i].errors \in Int BY <2>2, HarnessAssumption DEF Books
  <2>4. CASE progress[i].errors + 1 >= ItemErrors
    BY <2>1, <2>4 DEF RunnerFails
  <2>5. CASE ~(progress[i].errors + 1 >= ItemErrors)
    <3>1. progress[i].errors + 1 < ItemErrors BY <2>3, <2>5, HarnessAssumption
    <3> QED BY <2>1, <2>5, <3>1 DEF RunnerFails
  <2> QED BY <2>4, <2>5
<1> HIDE DEF l
<1>4. CASE Abandon(i, l) BY <1>1, <1>2, <1>4, AbandonKeeps
<1>5. CASE /\ progress[i].errors + 1 < ItemErrors
           /\ progress' = [progress EXCEPT ![i].errors = @ + 1]
           /\ ledger' = l
           /\ Stop("RunnerErrors") \/ (Goto("head") /\ UNCHANGED stop)
           /\ UNCHANGED plan
  <2>1. b \in Books /\ InBudget(b) BY <1>1, TypedFacts DEF HInv, Budgets
  <2>2. c \in Books /\ c.dry = b.dry /\ c.stalled = b.stalled /\ c.replans = b.replans
    <3> HIDE DEF b
    <3>1. b.errors + 1 \in 0 .. ItemErrors - 1
      BY <1>5, <2>1, HarnessAssumption DEF Books, b
    <3> QED BY <2>1, <3>1 DEF Books
  <2>3. InBudget(c) BY <2>1, <2>2 DEF InBudget
  <2>4. progress' = [progress EXCEPT ![i] = c] BY <1>5
  <2> HIDE DEF c, b
  <2>5. /\ progress' \in [Item -> Books]
        /\ \A j \in Item : InBudget(progress'[j])
    BY <1>1, <2>2, <2>3, <2>4, TypedFacts, BookMoves DEF HInv, Budgets
  <2>6. /\ at'.pc \in {"head", "end"} /\ stop' \in {"running", "RunnerErrors"}
    BY <1>1, <1>5 DEF Stop, Goto
  <2>7. Typed' BY <1>1, <1>2, <1>5, <2>5, <2>6 DEF HInv, Typed, Ends
  <2>8. Balanced(plan', ledger')
    BY <1>2, <1>5, BalancedKept, TypedFacts DEF HInv, Checked
  <2>9. FinalReportHolds' BY <2>6 DEF FinalReportHolds
  <2> QED BY <2>5, <2>6, <2>7, <2>8, <2>9, Resting DEF HInv
<1> QED BY <1>3, <1>4, <1>5

\* A step returns, with whatever the world and the plan have become.
LEMMA StepReturnsKeeps ==
    ASSUME HInv, NEW o \in Outcomes, NEW w \in [Check -> BOOLEAN],
           NEW new \in SUBSET Item, StepReturns(o, w, new)
    PROVE  HInv'
<1> DEFINE i == at.item
           a == [progress[i] EXCEPT !.narration = IF o \in Acted THEN 0 ELSE @]
           r == ReplansAfter(at.kind, a.replans)
<1>1. /\ i \in Item /\ plan[i] = "open" /\ stop = "running"
      /\ at.kind \in Kinds /\ at.pc = "step"
      /\ plan' = [j \in Item |-> IF j \in new THEN "open" ELSE plan[j]]
      /\ \A j \in new : plan[j] = "absent"
      /\ world' = w /\ ledger' = [ledger EXCEPT !.errors = 0]
  BY DEF StepReturns, At, HInv, Placed, Working
<1>2. a \in Books /\ InBudget(a) /\ a.replans = progress[i].replans
      /\ a.stalled = progress[i].stalled
  <2> DEFINE b == progress[i]
             n == IF o \in Acted THEN 0 ELSE b.narration
  <2>1. b \in Books /\ InBudget(b) BY <1>1, TypedFacts DEF HInv, Budgets
  <2>2. a = [b EXCEPT !.narration = n] OBVIOUS
  <2> HIDE DEF a, b
  <2>3. n \in 0 .. Ladder BY <2>1, HarnessAssumption DEF Books
  <2> HIDE DEF n
  <2>4. a \in Books /\ a.dry = b.dry /\ a.stalled = b.stalled /\ a.replans = b.replans
    BY <2>1, <2>2, <2>3 DEF Books
  <2>5. InBudget(a) BY <2>1, <2>4 DEF InBudget
  <2> QED BY <2>4, <2>5 DEF b
<1>3. /\ ledger' \in Ledgers /\ SameBooks(ledger, ledger')
  BY <1>1, TypedFacts DEF HInv, Ledgers, SameBooks
<1>4. Balanced(plan', ledger')
  <2>1. ledger.verified \cup ledger.abandoned \subseteq Item
    BY TypedFacts DEF HInv, Checked
  <2>2. /\ \A j \in Item : (plan'[j] = "done") <=> (plan[j] = "done")
        /\ \A j \in Item : (plan'[j] = "abandoned") <=> (plan[j] = "abandoned")
    BY <1>1
  <2> QED BY <1>3, <2>1, <2>2, BalancedKept DEF HInv
<1>5. plan' \in [Item -> PlanStates] /\ plan'[i] = "open"
  BY <1>1, TypedFacts DEF HInv, PlanStates
<1>6. /\ a.stalled \in Nat /\ a.replans \in Nat /\ a.dry \in Nat
      /\ a.dry <= a.replans /\ a.stalled <= MaxSteps + 1 + 2 * a.replans
  BY <1>2, HarnessAssumption DEF Books, InBudget
<1>7. CASE at.kind = "replan"
  <2>1. /\ at' = [pc |-> "head"] /\ stop' = stop
        /\ \E produced \in {new # {}, TRUE} :
              progress' = [progress EXCEPT ![i] =
                 [a EXCEPT !.replans = r,
                           !.stalled = IF produced THEN 0 ELSE a.stalled,
                           !.dry = IF produced THEN a.dry ELSE a.dry + 1]]
    BY <1>7 DEF StepReturns, Goto
  <2>2. r = a.replans + 1 /\ a.replans < MaxReplans
    BY <1>1, <1>2, <1>7 DEF ReplansAfter, HInv, Budgets
  <2> HIDE DEF a, r
  <2>3. PICK produced \in {new # {}, TRUE} :
          progress' = [progress EXCEPT ![i] =
                 [a EXCEPT !.replans = r,
                           !.stalled = IF produced THEN 0 ELSE a.stalled,
                           !.dry = IF produced THEN a.dry ELSE a.dry + 1]]
    BY <2>1
  <2> DEFINE t == IF produced THEN 0 ELSE a.stalled
             d == IF produced THEN a.dry ELSE a.dry + 1
             c == [a EXCEPT !.replans = r, !.stalled = t, !.dry = d]
  <2>4. /\ r \in 0 .. MaxReplans /\ t \in Nat /\ d \in 0 .. MaxReplans
        /\ d <= r /\ t <= MaxSteps + 1 + 2 * r
    BY <1>6, <2>2, HarnessAssumption
  <2>5. progress' = [progress EXCEPT ![i] = c] BY <2>3
  <2> HIDE DEF t, d
  <2>6. c \in Books /\ c.dry = d /\ c.stalled = t /\ c.replans = r
    BY <1>2, <2>4 DEF Books
  <2>7. InBudget(c) BY <2>4, <2>6 DEF InBudget
  <2> HIDE DEF c
  <2>8. /\ progress' \in [Item -> Books]
        /\ \A j \in Item : InBudget(progress'[j])
    BY <1>1, <2>5, <2>6, <2>7, TypedFacts, BookMoves DEF HInv, Budgets
  <2>9. Typed' BY <1>1, <1>3, <1>5, <2>1, <2>8 DEF HInv, Typed
  <2>10. FinalReportHolds' BY <1>1, <2>1 DEF FinalReportHolds
  <2> QED BY <1>4, <2>1, <2>8, <2>9, <2>10, Resting DEF HInv
<1>8. CASE at.kind # "replan"
  <2>1. /\ progress' = [progress EXCEPT ![i] = [a EXCEPT !.replans = r]]
        /\ FileStepFindings(i, o)
    BY <1>8 DEF StepReturns
  <2>2. /\ r \in 0 .. MaxReplans /\ a.replans <= r
        /\ a.stalled < MaxSteps + 2 * r
    <3>1. CASE at.kind = "execute"
      <4>1. r = a.replans /\ a.stalled < MaxSteps
        BY <1>1, <1>2, <3>1 DEF ReplansAfter, HInv, Budgets
      <4> HIDE DEF a, r
      <4>2. a.replans \in 0 .. MaxReplans BY <1>2 DEF Books
      <4> QED BY <1>6, <4>1, <4>2, HarnessAssumption
    <3>2. CASE at.kind # "execute"
      <4>1. r = a.replans + 1 /\ a.replans < MaxReplans
        BY <1>1, <1>2, <3>2 DEF ReplansAfter, HInv, Budgets
      <4> HIDE DEF a, r
      <4> QED BY <1>6, <4>1, HarnessAssumption
    <3> QED BY <3>1, <3>2
  <2> DEFINE c == [a EXCEPT !.replans = r]
  <2> HIDE DEF a, r
  <2>3. c \in Books /\ c.dry = a.dry /\ c.stalled = a.stalled /\ c.replans = r
    BY <1>2, <2>2 DEF Books
  <2>4. progress' = [progress EXCEPT ![i] = c] BY <2>1
  <2> HIDE DEF c
  <2>5. InBudget(c) BY <1>6, <2>2, <2>3, HarnessAssumption DEF InBudget
  <2>6. /\ progress' \in [Item -> Books]
        /\ \A j \in Item : InBudget(progress'[j])
        /\ progress'[i] = c
    BY <1>1, <2>3, <2>4, <2>5, TypedFacts, BookMoves DEF HInv, Budgets
  <2>7. CASE cancelled
    <3>1. at' = [pc |-> "end"] /\ stop' = "Cancelled"
      BY <2>1, <2>7 DEF FileStepFindings, Stop
    <3>2. Typed' BY <1>1, <1>3, <1>5, <2>6, <3>1 DEF HInv, Typed, Ends
    <3>3. FinalReportHolds' BY <3>1 DEF FinalReportHolds
    <3> QED BY <1>4, <2>6, <3>1, <3>2, <3>3, Resting DEF HInv
  <2>8. CASE ~cancelled
    <3>1. at' = [pc |-> "judge", item |-> i, outcome |-> o] /\ stop' = stop
      BY <2>1, <2>8 DEF FileStepFindings
    <3>2. Typed' BY <1>1, <1>3, <1>5, <2>6, <3>1 DEF HInv, Typed
    <3>3. FinalReportHolds' BY <1>1, <3>1 DEF FinalReportHolds
    <3>4. Placed' /\ Chosen' /\ Working' /\ DrainAsked'
      BY <1>1, <1>5, <3>1 DEF Placed, Chosen, Working, DrainAsked
    <3>5. Budgets' BY <2>2, <2>3, <2>6, <3>1 DEF Budgets
    <3> QED BY <1>4, <3>2, <3>3, <3>4, <3>5 DEF HInv
  <2> QED BY <2>7, <2>8
<1> QED BY <1>7, <1>8
-----------------------------------------------------------------------------
\* The loop moves on to the sweep, or stops short of a clean end.
LEMMA OnToSweep ==
    ASSUME NEW i \in Item, at' = [pc |-> "sweep", item |-> i],
           \A j \in Item : InBudget(progress'[j])
    PROVE  Placed' /\ Chosen' /\ Budgets' /\ Working' /\ DrainAsked'
BY DEF Placed, Chosen, Budgets, Working, DrainAsked

\* Charging a step that was allowed keeps the book in budget. An escalation
\* that named no new items falls through to the charge: the two attempts a
\* replan is worth.
LEMMA Charges ==
    ASSUME NEW b \in Books, InBudget(b), NEW o,
           b.stalled < MaxSteps + 2 * b.replans
    PROVE  Charged(b, o) \in Books /\ InBudget(Charged(b, o))
<1>1. /\ b.stalled \in Nat /\ b.replans \in Nat /\ b.narration \in 0 .. Ladder
      /\ b.dry <= b.replans
  BY HarnessAssumption DEF Books, InBudget
<1>2. ASSUME NEW t \in Nat, t <= b.stalled + 2
      PROVE  [b EXCEPT !.stalled = t] \in Books
             /\ InBudget([b EXCEPT !.stalled = t])
  <2> DEFINE c == [b EXCEPT !.stalled = t]
  <2>1. c \in Books /\ c.stalled = t /\ c.replans = b.replans /\ c.dry = b.dry
    BY DEF Books
  <2> HIDE DEF c
  <2>2. t <= MaxSteps + 1 + 2 * b.replans BY <1>1, <1>2, HarnessAssumption
  <2>3. InBudget(c) BY <1>1, <2>1, <2>2 DEF InBudget
  <2> QED BY <2>1, <2>3 DEF c
<1>3. ASSUME b.narration < Ladder
      PROVE  [b EXCEPT !.narration = b.narration + 1] \in Books
             /\ InBudget([b EXCEPT !.narration = b.narration + 1])
  <2> DEFINE n == b.narration + 1
             c == [b EXCEPT !.narration = n]
  <2>1. n \in 0 .. Ladder BY <1>1, <1>3, HarnessAssumption
  <2> HIDE DEF n
  <2>2. c \in Books /\ c.stalled = b.stalled /\ c.replans = b.replans /\ c.dry = b.dry
    BY <2>1 DEF Books
  <2> HIDE DEF c
  <2>3. InBudget(c) BY <2>2 DEF InBudget
  <2> QED BY <2>2, <2>3 DEF c, n
<1>4. \/ Charged(b, o) = [b EXCEPT !.stalled = 0]
      \/ b.narration < Ladder /\ Charged(b, o) = [b EXCEPT !.narration = b.narration + 1]
      \/ Charged(b, o) = [b EXCEPT !.stalled = b.stalled + 2]
      \/ Charged(b, o) = [b EXCEPT !.stalled = b.stalled + 1]
  BY DEF Charged
<1>5. CASE Charged(b, o) = [b EXCEPT !.stalled = 0]
  <2>1. 0 \in Nat /\ 0 <= b.stalled + 2 BY <1>1
  <2> QED BY <1>2, <1>5, <2>1
<1>6. CASE Charged(b, o) = [b EXCEPT !.stalled = b.stalled + 2]
  <2>1. b.stalled + 2 \in Nat /\ b.stalled + 2 <= b.stalled + 2 BY <1>1
  <2> QED BY <1>2, <1>6, <2>1
<1>7. CASE Charged(b, o) = [b EXCEPT !.stalled = b.stalled + 1]
  <2>1. b.stalled + 1 \in Nat /\ b.stalled + 1 <= b.stalled + 2 BY <1>1
  <2> QED BY <1>2, <1>7, <2>1
<1> QED BY <1>3, <1>4, <1>5, <1>6, <1>7

\* A step is charged to its item.
LEMMA ChargeKeeps ==
    ASSUME HInv, at.pc = "judge", stop = "running", NEW l \in Ledgers,
           SameBooks(ledger, l), Charge(l), UNCHANGED world
    PROVE  HInv'
<1> DEFINE i == at.item
           c == Charged(progress[i], at.outcome)
<1>1. i \in Item BY DEF HInv, Placed
<1>2. /\ progress' = [progress EXCEPT ![i] = c] /\ ledger' = l
      /\ at' = [pc |-> "sweep", item |-> i] /\ UNCHANGED <<plan, stop>>
  BY DEF Charge, SweepAfter
<1>3. c \in Books /\ InBudget(c)
  <2>1. progress[i] \in Books /\ InBudget(progress[i])
        /\ progress[i].stalled < MaxSteps + 2 * progress[i].replans
    BY <1>1, TypedFacts DEF HInv, Budgets
  <2> QED BY <2>1, Charges
<1> HIDE DEF c
<1>4. /\ progress' \in [Item -> Books]
      /\ \A j \in Item : InBudget(progress'[j])
  BY <1>1, <1>2, <1>3, TypedFacts, BookMoves DEF HInv, Budgets
<1>5. Typed' BY <1>2, <1>4 DEF HInv, Typed
<1>6. Balanced(plan', ledger')
  BY <1>2, BalancedKept, TypedFacts DEF HInv, Checked
<1>7. FinalReportHolds' BY <1>2 DEF FinalReportHolds
<1> QED BY <1>1, <1>2, <1>4, <1>5, <1>6, <1>7, OnToSweep DEF HInv

\* The item in hand is completed, or the source refuses.
LEMMA CompleteItemKeeps ==
    ASSUME HInv, at.pc = "judge", stop = "running",
           NEW l \in Ledgers, SameBooks(ledger, l),
           NEW p \in [Item -> Books], \A j \in Item : InBudget(p[j]),
           CompleteItem(l, p), UNCHANGED world
    PROVE  HInv'
<1> DEFINE i == at.item
<1>1. i \in Item /\ plan[i] = "open" BY DEF HInv, Placed, Working
<1>2. Balanced(plan, l)
  BY BalancedKept, TypedFacts DEF HInv, Checked
<1>3. \/ /\ plan' = [plan EXCEPT ![i] = "done"]
         /\ ledger' = Completed(l, i)
         /\ progress' = [p EXCEPT ![i] = Fresh]
         /\ SweepAfter(i) /\ UNCHANGED stop
      \/ /\ ledger' = [l EXCEPT !.errors = l.errors + 1]
         /\ progress' = p
         /\ Stop("SourceError") \/ (SweepAfter(i) /\ UNCHANGED stop)
         /\ UNCHANGED plan
  BY DEF CompleteItem
<1>4. CASE /\ plan' = [plan EXCEPT ![i] = "done"]
           /\ ledger' = Completed(l, i)
           /\ progress' = [p EXCEPT ![i] = Fresh]
           /\ SweepAfter(i) /\ UNCHANGED stop
  <2>1. ledger' \in Ledgers /\ Balanced(plan', ledger')
    BY <1>1, <1>2, <1>4, TypedFacts, CompletedBalances DEF HInv
  <2>2. plan' \in [Item -> PlanStates]
    BY <1>4, TypedFacts DEF HInv, PlanStates
  <2>3. /\ progress' \in [Item -> Books]
        /\ \A j \in Item : InBudget(progress'[j])
    BY <1>1, <1>4, BookMoves, FreshBook
  <2>4. Typed' BY <1>4, <2>1, <2>2, <2>3 DEF HInv, Typed
  <2>5. FinalReportHolds' BY <1>4 DEF FinalReportHolds
  <2>6. at' = [pc |-> "sweep", item |-> i] BY <1>4 DEF SweepAfter
  <2> QED BY <1>1, <2>1, <2>3, <2>4, <2>5, <2>6, OnToSweep DEF HInv
<1>5. CASE /\ ledger' = [l EXCEPT !.errors = l.errors + 1]
           /\ progress' = p
           /\ Stop("SourceError") \/ (SweepAfter(i) /\ UNCHANGED stop)
           /\ UNCHANGED plan
  <2>1. ledger' \in Ledgers /\ SameBooks(l, ledger')
    BY <1>5 DEF Ledgers, SameBooks
  <2>2. Balanced(plan', ledger')
    <3>1. l.verified \cup l.abandoned \subseteq Item BY DEF Ledgers, Checked
    <3> QED BY <1>2, <1>5, <2>1, <3>1, BalancedKept
  <2>3. stop' \in {"running", "SourceError"} BY <1>5 DEF Stop
  <2>4. Typed' BY <1>5, <2>1, <2>3 DEF HInv, Typed, Ends
  <2>5. FinalReportHolds' BY <2>3 DEF FinalReportHolds
  <2>6. CASE Stop("SourceError")
    <3>1. at' = [pc |-> "end"] BY <2>6 DEF Stop
    <3> QED BY <1>5, <2>2, <2>4, <2>5, <3>1, Resting DEF HInv
  <2>7. CASE SweepAfter(i)
    <3>1. at' = [pc |-> "sweep", item |-> i] BY <2>7 DEF SweepAfter
    <3> QED BY <1>1, <1>5, <2>2, <2>4, <2>5, <3>1, OnToSweep DEF HInv
  <2> QED BY <1>5, <2>6, <2>7
<1> QED BY <1>3, <1>4, <1>5

\* The verdict on the item in hand.
LEMMA JudgeKeeps ==
    ASSUME HInv, JudgeUnknown \/ JudgePassed \/ JudgeFailed \/ JudgeUnchecked
    PROVE  HInv'
<1>1. ledger \in Ledgers /\ SameBooks(ledger, ledger)
  BY TypedFacts DEF HInv, SameBooks
<1>2. /\ progress \in [Item -> Books]
      /\ \A j \in Item : InBudget(progress[j])
  BY TypedFacts DEF HInv, Budgets
<1>3. CASE JudgeUnknown
  <2> DEFINE l == [ledger EXCEPT !.unknown = TRUE]
  <2>1. l \in Ledgers /\ SameBooks(ledger, l) BY <1>1 DEF Ledgers, SameBooks
  <2>2. /\ at.pc = "judge" /\ stop = "running" /\ Charge(l) /\ UNCHANGED world
    BY <1>3 DEF JudgeUnknown, Judged, At
  <2> QED BY <2>1, <2>2, ChargeKeeps
<1>4. CASE JudgePassed
  <2> DEFINE l == Noted(ledger, at.item, "pass")
             flip == Flipped(ledger, at.item, "pass")
             p == Replenished(progress, flip)
  <2>1. /\ at.pc = "judge" /\ stop = "running" /\ CompleteItem(l, p)
        /\ UNCHANGED world /\ at.item \in Checked
    BY <1>4 DEF JudgePassed, Judged, At
  <2>2. l \in Ledgers /\ SameBooks(ledger, l)
    BY <1>1, <2>1, NotedTyped DEF Verdict
  <2>3. flip \in BOOLEAN BY DEF Flipped
  <2> HIDE DEF l, flip
  <2>4. p \in [Item -> Books] /\ \A j \in Item : InBudget(p[j])
    BY <1>2, <2>3, Replenishes
  <2> HIDE DEF p
  <2> QED BY <2>1, <2>2, <2>4, CompleteItemKeeps
<1>5. CASE JudgeFailed
  <2> DEFINE l == Noted(ledger, at.item, "fail")
  <2>1. /\ at.pc = "judge" /\ stop = "running" /\ Charge(l)
        /\ UNCHANGED world /\ at.item \in Checked
    BY <1>5 DEF JudgeFailed, Judged, At
  <2>2. l \in Ledgers /\ SameBooks(ledger, l)
    BY <1>1, <2>1, NotedTyped DEF Verdict
  <2> HIDE DEF l
  <2> QED BY <2>1, <2>2, ChargeKeeps
<1>6. CASE JudgeUnchecked
  <2>1. /\ at.pc = "judge" /\ stop = "running" /\ UNCHANGED world
        /\ CompleteItem(ledger, progress) \/ Charge(ledger)
    BY <1>6 DEF JudgeUnchecked, At
  <2> QED BY <1>1, <1>2, <2>1, ChargeKeeps, CompleteItemKeeps
<1> QED BY <1>3, <1>4, <1>5, <1>6
-----------------------------------------------------------------------------
\* The sweep after a step begins.
LEMMA MidRunSweepKeeps ==
    ASSUME HInv, NEW A \in SUBSET Checked, NEW V \in SUBSET Checked,
           MidRunSweep(A, V)
    PROVE  HInv'
<1>1. /\ at' = [pc |-> "mid", revive |-> A, recheck |-> V]
      /\ A \subseteq ledger.abandoned /\ V \subseteq ledger.verified
      /\ stop = "running"
      /\ UNCHANGED <<plan, world, progress, ledger, stop>>
  BY DEF MidRunSweep, Targets, Eligible, At
<1>2. A \subseteq Item /\ V \subseteq Item BY DEF Checked
<1>3. Typed' /\ Balanced(plan', ledger') BY <1>1 DEF HInv, Typed
<1>4. Placed' /\ Chosen' /\ Working' /\ DrainAsked'
  BY <1>1, <1>2 DEF Placed, Chosen, Working, DrainAsked
<1>5. Budgets' BY <1>1 DEF HInv, Budgets
<1>6. FinalReportHolds' BY <1>1 DEF FinalReportHolds
<1> QED BY <1>3, <1>4, <1>5, <1>6 DEF HInv

\* The sweep of a drained plan begins.
LEMMA DrainSweepKeeps ==
    ASSUME HInv, DrainSweep
    PROVE  HInv'
<1>1. /\ at' = [pc |-> "drain", revive |-> ledger.abandoned,
                recheck |-> ledger.verified, any |-> FALSE]
      /\ ledger' = [ledger EXCEPT !.unmet = {}]
      /\ stop = "running"
      /\ UNCHANGED <<plan, world, progress, stop>>
  BY DEF DrainSweep, At
<1>2. ledger.verified \subseteq Item /\ ledger.abandoned \subseteq Item
  BY TypedFacts DEF HInv, Checked
<1>3. /\ ledger' \in Ledgers /\ SameBooks(ledger, ledger') /\ ledger'.unmet = {}
  BY <1>1, TypedFacts DEF HInv, Ledgers, SameBooks
<1>4. Typed' BY <1>1, <1>3 DEF HInv, Typed
<1>5. Balanced(plan', ledger') BY <1>1, <1>2, <1>3, BalancedKept DEF HInv
<1>6. Placed' /\ Chosen' /\ Working'
  BY <1>1, <1>2, <1>3 DEF Placed, Chosen, Working, SameBooks
<1>7. DrainAsked' BY <1>1, <1>3 DEF DrainAsked, SameBooks
<1>8. Budgets' BY <1>1 DEF HInv, Budgets
<1>9. FinalReportHolds' BY <1>1 DEF FinalReportHolds
<1> QED BY <1>4, <1>5, <1>6, <1>7, <1>8, <1>9 DEF HInv

\* One item of a sweep is settled.
LEMMA SweepKeeps ==
    ASSUME HInv, at.pc \in {"mid", "drain"}, stop = "running", stop' = stop,
           world' = world, NEW i \in Checked, NEW r \in BOOLEAN, Swept(i, r),
           plan' \in [Item -> PlanStates], progress' \in [Item -> Books],
           \A j \in Item : InBudget(progress'[j]),
           ledger' \in Ledgers, Balanced(plan', ledger'),
           ledger'.verified = ledger.verified,
           ledger'.abandoned = ledger.abandoned,
           (at.pc = "drain" /\ ~ledger'.unknown /\ ~SourceFails /\ ~r) =>
              /\ ~ledger.unknown /\ ledger'.reopened = ledger.reopened
              /\ i \in ledger.verified \ ledger.reopened => world[CheckOf[i]]
              /\ ledger'.unmet \subseteq ledger.unmet \cup {i}
              /\ i \in ledger'.unmet \ ledger.unmet => ~world[CheckOf[i]]
    PROVE  HInv'
<1>1. /\ at'.pc = at.pc
      /\ at'.revive = at.revive \ {i} /\ at'.recheck = at.recheck \ {i}
      /\ at.pc = "drain" => at'.any = (at.any \/ r)
      /\ Placed'
  BY SweptPlaces DEF HInv
<1>2. Typed' BY DEF HInv, Typed
<1>3. Chosen' BY <1>1 DEF HInv, Chosen
<1>4. Budgets' /\ Working' BY <1>1 DEF Budgets, Working
<1>5. DrainAsked' BY <1>1 DEF HInv, DrainAsked
<1>6. FinalReportHolds' BY DEF FinalReportHolds
<1> QED BY <1>1, <1>2, <1>3, <1>4, <1>5, <1>6 DEF HInv

\* An item in a sweep that was not reopened is closed as its list says.
LEMMA SweptIsClosed ==
    ASSUME HInv, at.pc \in {"mid", "drain"}, NEW i, i \notin ledger.reopened
    PROVE  /\ i \in at.revive => i \in ledger.abandoned /\ i \notin ledger.verified
           /\ i \in at.recheck => i \in ledger.verified
BY DEF HInv, Chosen, Balanced

\* A sweep passes over an item it has already reopened.
LEMMA SkipReopenedKeeps ==
    ASSUME HInv, NEW i \in Checked, SkipReopened(i)
    PROVE  HInv'
<1>1. /\ at.pc = "drain" /\ stop = "running" /\ Swept(i, FALSE)
      /\ i \in ledger.reopened
      /\ UNCHANGED <<plan, world, progress, ledger, stop>>
  BY DEF SkipReopened, At
<1>2. /\ plan' \in [Item -> PlanStates] /\ progress' \in [Item -> Books]
      /\ \A j \in Item : InBudget(progress'[j])
      /\ ledger' \in Ledgers /\ Balanced(plan', ledger')
  BY <1>1, TypedFacts DEF HInv, Budgets
<1> QED BY <1>1, <1>2, SweepKeeps

\* What asking about an item says.
LEMMA AsksFacts ==
    ASSUME NEW i, NEW v, Asks(i, v)
    PROVE  /\ at.pc \in {"mid", "drain"} /\ stop = "running"
           /\ i \notin ledger.reopened /\ v \in Verdicts(i)
           /\ v = "pass" => world[CheckOf[i]]
           /\ v = "fail" => ~world[CheckOf[i]]
BY VerdictsTrue DEF Asks, Sweeping, At

\* A sweep hears "unknown".
LEMMA SweptUnknownKeeps ==
    ASSUME HInv, NEW i \in Checked, SweptUnknown(i)
    PROVE  HInv'
<1> DEFINE u == IF At("drain") /\ i \in at.revive THEN ledger.unmet \cup {i} ELSE ledger.unmet
<1>1. /\ Swept(i, FALSE)
      /\ ledger' = [ledger EXCEPT !.unknown = TRUE, !.unmet = u]
      /\ UNCHANGED <<plan, world, progress, stop>>
      /\ at.pc \in {"mid", "drain"} /\ stop = "running"
  BY AsksFacts DEF SweptUnknown
<1>2. u \subseteq Checked BY TypedFacts DEF HInv
<1> HIDE DEF u
<1>3. /\ ledger' \in Ledgers /\ SameBooks(ledger, ledger') /\ ledger'.unknown = TRUE
  BY <1>1, <1>2, TypedFacts DEF HInv, Ledgers, SameBooks
<1>4. /\ plan' \in [Item -> PlanStates] /\ progress' \in [Item -> Books]
      /\ \A j \in Item : InBudget(progress'[j])
      /\ Balanced(plan', ledger')
  BY <1>1, <1>3, BalancedKept, TypedFacts DEF HInv, Budgets, Checked
<1>5. ledger'.verified = ledger.verified /\ ledger'.abandoned = ledger.abandoned
  BY <1>3 DEF SameBooks
<1> QED BY <1>1, <1>3, <1>4, <1>5, SweepKeeps

\* The verdict of a sweep is noted, and the item filed as unmet or not.
LEMMA SweepNotes ==
    ASSUME HInv, at.pc \in {"mid", "drain"}, stop = "running", stop' = stop,
           NEW i \in Checked, NEW v \in Verdict,
           NEW l, l = Noted(ledger, i, v),
           ledger' = l \/ ledger' = [l EXCEPT !.unmet = @ \cup {i}],
           UNCHANGED <<plan, progress>>
    PROVE  /\ ledger' \in Ledgers /\ Balanced(plan', ledger')
           /\ ledger'.verified = ledger.verified
           /\ ledger'.abandoned = ledger.abandoned
           /\ ledger'.reopened = ledger.reopened
           /\ ledger'.unknown = ledger.unknown
           /\ ledger'.unmet = ledger.unmet
              \/ (ledger' # l /\ ledger'.unmet = ledger.unmet \cup {i})
           /\ plan' \in [Item -> PlanStates] /\ progress' \in [Item -> Books]
           /\ \A j \in Item : InBudget(progress'[j])
<1>1. /\ l \in Ledgers /\ SameBooks(ledger, l) /\ l.unknown = ledger.unknown
      /\ l.unmet = ledger.unmet
  BY NotedTyped, TypedFacts DEF HInv
<1>2. /\ ledger' \in Ledgers /\ SameBooks(l, ledger') /\ ledger'.unknown = l.unknown
      /\ ledger'.unmet = l.unmet \/ (ledger' # l /\ ledger'.unmet = l.unmet \cup {i})
  <2>1. CASE ledger' = l BY <1>1, <2>1 DEF SameBooks
  <2>2. CASE ledger' # l /\ ledger' = [l EXCEPT !.unmet = @ \cup {i}]
    <3> DEFINE u == l.unmet \cup {i}
    <3>1. u \in SUBSET Checked BY <1>1 DEF Ledgers
    <3>2. ledger' = [l EXCEPT !.unmet = u] BY <2>2
    <3> HIDE DEF u
    <3>3. ledger' \in Ledgers /\ SameBooks(l, ledger') /\ ledger'.unknown = l.unknown
          /\ ledger'.unmet = u
      BY <1>1, <3>1, <3>2 DEF Ledgers, SameBooks
    <3> QED BY <2>2, <3>3 DEF u
  <2> QED BY <2>1, <2>2
<1>3. SameBooks(ledger, ledger') BY <1>1, <1>2 DEF SameBooks
<1>4. Balanced(plan', ledger')
  BY <1>3, BalancedKept, TypedFacts DEF HInv, Checked
<1>5. /\ plan' \in [Item -> PlanStates] /\ progress' \in [Item -> Books]
      /\ \A j \in Item : InBudget(progress'[j])
  BY TypedFacts DEF HInv, Budgets
<1> QED BY <1>1, <1>2, <1>3, <1>4, <1>5 DEF SameBooks

\* An abandoned item is still unmet.
LEMMA StillUnmetKeeps ==
    ASSUME HInv, NEW i \in Checked, StillUnmet(i)
    PROVE  HInv'
<1> DEFINE k == Noted(ledger, i, "fail")
<1>1. /\ Swept(i, FALSE) /\ i \in at.revive
      /\ ledger' = k \/ ledger' = [k EXCEPT !.unmet = @ \cup {i}]
      /\ UNCHANGED <<plan, world, progress, stop>>
      /\ at.pc \in {"mid", "drain"} /\ stop = "running"
      /\ i \notin ledger.reopened /\ ~world[CheckOf[i]]
  BY AsksFacts DEF StillUnmet
<1>2. i \notin ledger.verified BY <1>1, SweptIsClosed
<1>3. "fail" \in Verdict BY DEF Verdict
<1> HIDE DEF k
<1>4. /\ ledger' \in Ledgers /\ Balanced(plan', ledger')
      /\ ledger'.verified = ledger.verified
      /\ ledger'.abandoned = ledger.abandoned
      /\ ledger'.reopened = ledger.reopened
      /\ ledger'.unknown = ledger.unknown
      /\ ledger'.unmet \subseteq ledger.unmet \cup {i}
      /\ plan' \in [Item -> PlanStates] /\ progress' \in [Item -> Books]
      /\ \A j \in Item : InBudget(progress'[j])
  BY <1>1, <1>3, SweepNotes DEF k
<1> QED BY <1>1, <1>2, <1>4, SweepKeeps

\* A verified item still holds.
LEMMA StillHoldsKeeps ==
    ASSUME HInv, NEW i \in Checked, StillHolds(i)
    PROVE  HInv'
<1> DEFINE k == Noted(ledger, i, "pass")
<1>1. /\ Swept(i, FALSE) /\ ledger' = k
      /\ UNCHANGED <<plan, world, progress, stop>>
      /\ at.pc \in {"mid", "drain"} /\ stop = "running"
      /\ i \notin ledger.reopened /\ world[CheckOf[i]]
  BY AsksFacts DEF StillHolds
<1>2. "pass" \in Verdict BY DEF Verdict
<1> HIDE DEF k
<1>3. /\ ledger' \in Ledgers /\ Balanced(plan', ledger')
      /\ ledger'.verified = ledger.verified
      /\ ledger'.abandoned = ledger.abandoned
      /\ ledger'.reopened = ledger.reopened
      /\ ledger'.unknown = ledger.unknown
      /\ ledger'.unmet = ledger.unmet
      /\ plan' \in [Item -> PlanStates] /\ progress' \in [Item -> Books]
      /\ \A j \in Item : InBudget(progress'[j])
  BY <1>1, <1>2, SweepNotes DEF k
<1> QED BY <1>1, <1>3, SweepKeeps

\* A sweep reopens i, or the source refuses and the verdict is all that is
\* noted.
LEMMA ReopenKeeps ==
    ASSUME HInv, at.pc \in {"mid", "drain"}, stop = "running", stop' = stop,
           world' = world, NEW i \in Checked,
           NEW p \in [Item -> Books], \A j \in Item : InBudget(p[j]),
           NEW k \in Ledgers, SameBooks(ledger, k),
           NEW l \in Ledgers, Balanced([plan EXCEPT ![i] = "open"], l),
           l.verified = k.verified, l.abandoned = k.abandoned,
           Reopen(i, p, l, k)
    PROVE  HInv'
<1>0. i \in Item BY DEF Checked
<1>1. CASE /\ plan' = [plan EXCEPT ![i] = "open"]
           /\ progress' = [p EXCEPT ![i] = Fresh]
           /\ ledger' = l /\ Swept(i, TRUE)
  <2>1. plan' \in [Item -> PlanStates]
    BY <1>1, TypedFacts DEF HInv, PlanStates
  <2>2. /\ progress' \in [Item -> Books]
        /\ \A j \in Item : InBudget(progress'[j])
    BY <1>0, <1>1, BookMoves, FreshBook
  <2>3. /\ ledger' \in Ledgers /\ Balanced(plan', ledger')
        /\ ledger'.verified = ledger.verified
        /\ ledger'.abandoned = ledger.abandoned
    BY <1>1 DEF SameBooks
  <2> QED BY <1>1, <2>1, <2>2, <2>3, SweepKeeps
<1>2. CASE /\ SourceFails /\ progress' = p /\ ledger' = k /\ Swept(i, FALSE)
           /\ UNCHANGED plan
  <2>1. Balanced(plan', ledger')
    BY <1>2, BalancedKept, TypedFacts DEF HInv, Checked
  <2>2. /\ ledger'.verified = ledger.verified
        /\ ledger'.abandoned = ledger.abandoned
    BY <1>2 DEF SameBooks
  <2>3. plan' \in [Item -> PlanStates] BY <1>2, TypedFacts DEF HInv
  <2> QED BY <1>2, <2>1, <2>2, <2>3, SweepKeeps
<1> QED BY <1>1, <1>2 DEF Reopen, Answers

\* An abandoned item whose check now holds is revived.
LEMMA ReviveKeeps ==
    ASSUME HInv, NEW i \in Checked, Revive(i)
    PROVE  HInv'
<1> DEFINE k == Noted(ledger, i, "pass")
           flip == At("mid") /\ Flipped(ledger, i, "pass")
           p == Replenished(progress, flip)
           l == Revived(k, i)
<1>1. /\ i \in at.revive /\ Reopen(i, p, l, k)
      /\ UNCHANGED <<world, stop>>
      /\ at.pc \in {"mid", "drain"} /\ stop = "running"
      /\ i \notin ledger.reopened
  BY AsksFacts DEF Revive
<1>2. i \in ledger.abandoned BY <1>1, SweptIsClosed
<1>3. k \in Ledgers /\ SameBooks(ledger, k)
  BY NotedTyped, TypedFacts DEF HInv, Verdict
<1>4. flip \in BOOLEAN BY DEF Flipped
<1> HIDE DEF k, flip
<1>5. p \in [Item -> Books] /\ \A j \in Item : InBudget(p[j])
  BY <1>4, TypedFacts, Replenishes DEF HInv, Budgets
<1>6. Balanced(plan, k) /\ plan \in [Item -> PlanStates]
  BY <1>3, BalancedKept, TypedFacts DEF HInv, Checked
<1>7. i \in k.abandoned /\ i \notin k.reopened BY <1>1, <1>2, <1>3 DEF SameBooks
<1>8. /\ l \in Ledgers /\ Balanced([plan EXCEPT ![i] = "open"], l)
      /\ l.verified = k.verified /\ l.abandoned = k.abandoned
  BY <1>3, <1>6, <1>7, RevivedBalances
<1> HIDE DEF p, l
<1> QED BY <1>1, <1>3, <1>5, <1>8, ReopenKeeps

\* A verified item whose check no longer holds is reopened.
LEMMA RegressKeeps ==
    ASSUME HInv, NEW i \in Checked, Regress(i)
    PROVE  HInv'
<1> DEFINE k == Noted(ledger, i, "fail")
           l == Regressed(k, i)
<1>1. /\ i \in at.recheck /\ Reopen(i, progress, l, k)
      /\ UNCHANGED <<world, stop>>
      /\ at.pc \in {"mid", "drain"} /\ stop = "running"
      /\ i \notin ledger.reopened
  BY AsksFacts DEF Regress
<1>2. i \in ledger.verified BY <1>1, SweptIsClosed
<1>3. k \in Ledgers /\ SameBooks(ledger, k)
  BY NotedTyped, TypedFacts DEF HInv, Verdict
<1> HIDE DEF k
<1>5. progress \in [Item -> Books] /\ \A j \in Item : InBudget(progress[j])
  BY TypedFacts DEF HInv, Budgets
<1>6. Balanced(plan, k) /\ plan \in [Item -> PlanStates]
  BY <1>3, BalancedKept, TypedFacts DEF HInv, Checked
<1>7. i \in k.verified /\ i \notin k.reopened BY <1>1, <1>2, <1>3 DEF SameBooks
<1>8. /\ l \in Ledgers /\ Balanced([plan EXCEPT ![i] = "open"], l)
      /\ l.verified = k.verified /\ l.abandoned = k.abandoned
  BY <1>3, <1>6, <1>7, RegressedBalances
<1> HIDE DEF l
<1> QED BY <1>1, <1>3, <1>5, <1>8, ReopenKeeps

\* The drain sweep ends: in work again, or in the run's clean end, whose
\* report is what the sweep has just asked.
LEMMA DrainEndsKeeps ==
    ASSUME HInv, DrainEnds
    PROVE  HInv'
<1>1. /\ at.pc = "drain" /\ stop = "running" /\ at.recheck = {} /\ at.revive = {}
      /\ UNCHANGED <<plan, world, progress, ledger>>
      /\ IF at.any THEN Goto("head") /\ UNCHANGED stop ELSE Stop("AllTasksDone")
  BY DEF DrainEnds, At
<1>2. at'.pc \in {"head", "end"} /\ stop' \in {"running", "AllTasksDone"}
  BY <1>1 DEF Goto, Stop
<1>3. Typed' BY <1>1, <1>2 DEF HInv, Typed, Ends
<1>4. Balanced(plan', ledger') BY <1>1 DEF HInv
<1>5. \A j \in Item : InBudget(progress'[j]) BY <1>1 DEF HInv, Budgets
<1>6. FinalReportHolds'
  <2>1. stop' = "AllTasksDone" => ~at.any BY <1>1 DEF Goto, Stop
  <2>2. stop' = "AllTasksDone" /\ ~ledger.unknown /\ ~SourceFails =>
           /\ \A i \in ledger.verified \ ledger.reopened : world[CheckOf[i]]
           /\ \A i \in ledger.unmet : ~world[CheckOf[i]]
    BY <1>1, <2>1 DEF HInv, DrainAsked
  <2> QED BY <1>1, <2>2 DEF FinalReportHolds
<1> QED BY <1>2, <1>3, <1>4, <1>5, <1>6, Resting DEF HInv

\* A cancel alone.
LEMMA CancelKeeps ==
    ASSUME HInv, UNCHANGED <<plan, world, at, progress, ledger, stop>>
    PROVE  HInv'
BY DEF HInv, Typed, Placed, Chosen, Budgets, Working, DrainAsked,
       FinalReportHolds

\* A run starts with an empty ledger.
LEMMA InitHolds == HInit => HInv
<1> SUFFICES ASSUME HInit PROVE HInv OBVIOUS
<1>1. EmptyLedger \in Ledgers
  BY HarnessAssumption DEF EmptyLedger, Ledgers
<1>2. \A i \in Item : plan[i] \in {"open", "absent"} BY DEF HInit
<1>3. In(plan, "done") = {} /\ In(plan, "abandoned") = {} BY <1>2 DEF In
<1>4. Balanced(plan, EmptyLedger)
  BY <1>3, FS_EmptySet DEF Balanced, EmptyLedger
<1>5. progress = [i \in Item |-> Fresh] BY DEF HInit
<1>6. progress \in [Item -> Books] /\ \A i \in Item : InBudget(progress[i])
  BY <1>5, FreshBook
<1>7. Typed BY <1>1, <1>6 DEF HInit, Typed, PlanStates, Ends
<1>8. Placed /\ Chosen /\ Working /\ DrainAsked /\ FinalReportHolds
  BY DEF HInit, Placed, Chosen, Working, DrainAsked, FinalReportHolds
<1>9. Budgets BY <1>6 DEF HInit, Budgets
<1>10. Balanced(plan, ledger) BY <1>4 DEF HInit
<1> QED BY <1>7, <1>8, <1>9, <1>10 DEF HInv

\* Every step of a run keeps the invariant.
LEMMA NextHolds == HInv /\ [HNext]_hvars => HInv'
<1> SUFFICES ASSUME HInv, [HNext]_hvars PROVE HInv' OBVIOUS
<1>1. CASE StopCancelled \/ StopExhausted \/ NextFails
  <2>1. /\ at'.pc = "end" /\ stop' \in Ends /\ stop' # "AllTasksDone"
        /\ UNCHANGED <<plan, world, progress, ledger>>
    BY <1>1 DEF StopCancelled, StopExhausted, NextFails, Stop, Ends
  <2> QED BY <2>1, LoopRests
<1>2. CASE \E S \in SUBSET Asked : Interject(S)
  BY <1>2, InterjectKeeps
<1>3. CASE \E i \in Item : AbandonExhausted(i) \/ BeginStep(i)
  BY <1>3, AbandonExhaustedKeeps, BeginStepKeeps
<1>4. CASE \E i \in Item, v \in Verdict : PrecheckItem(i, v)
  BY <1>4, PrecheckItemKeeps
<1>5. CASE RunnerFails BY <1>5, RunnerFailsKeeps
<1>6. CASE \E o \in Outcomes, w \in [Check -> BOOLEAN],
              new \in {{}} \cup {{i} : i \in Item \ Asked} : StepReturns(o, w, new)
  <2>1. PICK o \in Outcomes, w \in [Check -> BOOLEAN],
             new \in {{}} \cup {{i} : i \in Item \ Asked} : StepReturns(o, w, new)
    BY <1>6
  <2>2. new \in SUBSET Item OBVIOUS
  <2> QED BY <2>1, <2>2, StepReturnsKeeps
<1>7. CASE JudgeUnknown \/ JudgePassed \/ JudgeFailed \/ JudgeUnchecked
  BY <1>7, JudgeKeeps
<1>8. CASE \E A, V \in SUBSET Checked : MidRunSweep(A, V)
  BY <1>8, MidRunSweepKeeps
<1>9. CASE DrainSweep BY <1>9, DrainSweepKeeps
<1>10. CASE \E i \in Checked : \/ SkipReopened(i) \/ SweptUnknown(i) \/ Revive(i)
                               \/ StillUnmet(i) \/ Regress(i) \/ StillHolds(i)
  BY <1>10, SkipReopenedKeeps, SweptUnknownKeeps, ReviveKeeps,
     StillUnmetKeeps, RegressKeeps, StillHoldsKeeps
<1>11. CASE MidRunEnds
  <2>1. /\ at'.pc = "head" /\ stop' = "running"
        /\ UNCHANGED <<plan, world, progress, ledger>>
    BY <1>11 DEF MidRunEnds, Goto, At
  <2> QED BY <2>1, LoopRests DEF Ends
<1>12. CASE DrainEnds BY <1>12, DrainEndsKeeps
<1>13. CASE Cancel BY <1>13, CancelKeeps DEF Cancel
<1>14. CASE UNCHANGED hvars BY <1>14, CancelKeeps DEF hvars
<1> QED BY <1>1, <1>2, <1>3, <1>4, <1>5, <1>6, <1>7, <1>8, <1>9, <1>10,
           <1>11, <1>12, <1>13, <1>14 DEF HNext, Loop

\* The invariant holds throughout.
LEMMA HInvAlways == HSpec => []HInv
BY InitHolds, NextHolds, PTL DEF HSpec

\* The ledger of verdicts and tallies (RunLedger) agrees with the plan at
\* every moment: no item is counted twice, in two ways, or after it was
\* reopened, for any plan, any checks, any limits, and a source that may
\* refuse.
THEOREM LedgerHolds == HSpec => []LedgerSound
<1>1. HInv => LedgerSound
  <2> SUFFICES ASSUME HInv PROVE LedgerSound OBVIOUS
  <2>1. ASSUME NEW i \in Item
        PROVE  /\ progress[i].stalled \in 0 .. MaxSteps + 1 + 2 * MaxReplans
               /\ progress[i].replans \in 0 .. MaxReplans
               /\ progress[i].dry \in 0 .. MaxReplans
               /\ progress[i].narration \in 0 .. Ladder
               /\ progress[i].errors \in 0 .. ItemErrors - 1
    <3> DEFINE b == progress[i]
    <3>1. b \in Books /\ InBudget(b) BY TypedFacts DEF HInv, Budgets
    <3> HIDE DEF b
    <3>2. /\ b.stalled \in Nat /\ b.replans \in 0 .. MaxReplans
          /\ b.dry \in 0 .. MaxReplans /\ b.narration \in 0 .. Ladder
          /\ b.errors \in 0 .. ItemErrors - 1
      BY <3>1 DEF Books
    <3>3. b.stalled <= MaxSteps + 1 + 2 * MaxReplans
      BY <3>1, <3>2, HarnessAssumption DEF InBudget
    <3>4. b.stalled \in 0 .. MaxSteps + 1 + 2 * MaxReplans
      BY <3>2, <3>3, HarnessAssumption
    <3> QED BY <3>2, <3>4 DEF b
  <2>2. HTypeOK
    <3>1. ledger.unverifiable \subseteq Item \ Checked BY DEF HInv, Typed, Ledgers
    <3> QED BY <2>1, <3>1, TypedFacts DEF HTypeOK, HInv, Typed, PlanStates, Ends
  <2>3. CountsMatchPlan BY DEF HInv, Balanced, CountsMatchPlan, In
  <2>4. ReopenedOnce BY DEF HInv, Balanced, ReopenedOnce
  <2> QED BY <2>2, <2>3, <2>4 DEF LedgerSound
<1> QED BY <1>1, HInvAlways, PTL

\* A run that reports all tasks done, with every check answered and every
\* reopening accepted, leaves its first verdicts true: what it verified
\* holds at the end and what it lists as unmet does not, although each was
\* judged when the world was another.
THEOREM FinalReports == HSpec => []FinalReportHolds
<1>1. HInv => FinalReportHolds BY DEF HInv
<1> QED BY <1>1, HInvAlways, PTL

\* A step that closes one item as done, with its check holding.
LEMMA OneItemCloses ==
    ASSUME HInv, NEW i \in Item, NEW s,
           plan' = [plan EXCEPT ![i] = s], s = "done" => i \notin Checked \/ world[CheckOf[i]]
    PROVE  \A j \in Checked : (plan[j] # "done" /\ plan'[j] = "done") => world[CheckOf[j]]
BY TypedFacts DEF HInv, Checked

\* No step marks a checked item done whose check does not hold as it is
\* marked.
THEOREM CompletionsHold == HSpec => CompletedOnlyWhileHolding
<1> DEFINE A == \A i \in Checked :
                  (plan[i] # "done" /\ plan'[i] = "done") => world[CheckOf[i]]
<1>1. ASSUME HInv, [HNext]_hvars PROVE A
  <2>1. CASE UNCHANGED plan BY <2>1
  <2>2. CASE \E S \in SUBSET Item : plan' = [i \in Item |-> IF i \in S THEN "open" ELSE plan[i]]
    BY <2>2 DEF Checked
  <2>3. CASE \E i \in Item : plan' = [plan EXCEPT ![i] = "abandoned"]
    BY <1>1, <2>3, OneItemCloses
  <2>4. CASE \E i \in Item : plan' = [plan EXCEPT ![i] = "open"]
    BY <1>1, <2>4, OneItemCloses
  <2>5. CASE \E i \in Item, v \in Verdict : PrecheckItem(i, v)
    <3>1. PICK i \in Item, v \in Verdict : PrecheckItem(i, v) BY <2>5
    <3>2. /\ v \in Verdicts(i)
          /\ \/ UNCHANGED plan
             \/ v = "pass" /\ plan' = [plan EXCEPT ![i] = "done"]
      BY <3>1 DEF PrecheckItem
    <3>3. v = "pass" => world[CheckOf[i]] BY <3>2, VerdictsTrue
    <3> QED BY <1>1, <2>1, <3>2, <3>3, OneItemCloses
  <2>6. CASE JudgePassed
    <3>1. /\ at.item \in Checked /\ "pass" \in Verdicts(at.item)
          /\ UNCHANGED plan \/ plan' = [plan EXCEPT ![at.item] = "done"]
      BY <2>6 DEF JudgePassed, Judged, CompleteItem
    <3>2. world[CheckOf[at.item]] BY <3>1, VerdictsTrue
    <3>3. at.item \in Item BY <3>1 DEF Checked
    <3> QED BY <1>1, <2>1, <3>1, <3>2, <3>3, OneItemCloses
  <2>7. CASE JudgeUnchecked
    <3>1. /\ at.pc = "judge" /\ at.item \notin Checked
          /\ UNCHANGED plan \/ plan' = [plan EXCEPT ![at.item] = "done"]
      BY <2>7 DEF JudgeUnchecked, CompleteItem, Charge, At
    <3>2. at.item \in Item BY <1>1, <3>1 DEF HInv, Placed
    <3> QED BY <1>1, <2>1, <3>1, <3>2, OneItemCloses
  <2>8. ASSUME NEW i, NEW l, Abandon(i, l)
        PROVE  UNCHANGED plan \/ plan' = [plan EXCEPT ![i] = "abandoned"]
    BY <2>8 DEF Abandon
  <2>9. ASSUME \E i \in Item : AbandonExhausted(i) \/ BeginStep(i)
        PROVE  A
    BY <2>1, <2>3, <2>8, <2>9 DEF AbandonExhausted, BeginStep
  <2>10. CASE RunnerFails
    <3>1. UNCHANGED plan \/ plan' = [plan EXCEPT ![at.item] = "abandoned"]
      BY <2>8, <2>10 DEF RunnerFails
    <3>2. at.item \in Item BY <1>1, <2>10 DEF RunnerFails, At, HInv, Placed
    <3> QED BY <2>1, <2>3, <3>1, <3>2
  <2>11. CASE \E o \in Outcomes, w \in [Check -> BOOLEAN],
                 new \in {{}} \cup {{i} : i \in Item \ Asked} : StepReturns(o, w, new)
    BY <2>2, <2>11 DEF StepReturns
  <2>12. CASE \E S \in SUBSET Asked : Interject(S)
    BY <2>2, <2>12, HarnessAssumption DEF Interject
  <2>13. CASE \E i \in Checked : Revive(i) \/ Regress(i)
    BY <2>1, <2>4, <2>13 DEF Revive, Regress, Reopen, Checked
  <2>14. CASE \E i \in Checked : \/ SkipReopened(i) \/ SweptUnknown(i)
                                \/ StillUnmet(i) \/ StillHolds(i)
    BY <2>1, <2>14 DEF SkipReopened, SweptUnknown, StillUnmet, StillHolds
  <2>15. CASE \/ StopCancelled \/ StopExhausted \/ NextFails \/ JudgeUnknown
              \/ JudgeFailed \/ DrainSweep \/ MidRunEnds \/ DrainEnds \/ Cancel
    BY <2>1, <2>15 DEF StopCancelled, StopExhausted, NextFails, JudgeUnknown,
       JudgeFailed, Charge, DrainSweep, MidRunEnds, DrainEnds, Cancel
  <2>16. CASE \E X, V \in SUBSET Checked : MidRunSweep(X, V)
    BY <2>1, <2>16 DEF MidRunSweep
  <2>17. CASE UNCHANGED hvars BY <2>1, <2>17 DEF hvars
  <2> HIDE DEF A
  <2> QED BY <1>1, <2>5, <2>6, <2>7, <2>9, <2>10, <2>11, <2>12, <2>13, <2>14,
             <2>15, <2>16, <2>17 DEF HNext, Loop
<1>2. HInv /\ [HNext]_hvars =>
             [\A i \in Checked :
                (plan[i] # "done" /\ plan'[i] = "done") => world[CheckOf[i]]]_hvars
  BY <1>1
<1> QED BY <1>2, InitHolds, NextHolds, PTL DEF HSpec, CompletedOnlyWhileHolding
=============================================================================
