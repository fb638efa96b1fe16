-------------------------- MODULE TaskBoardProofs --------------------------
(***************************************************************************)
(* What the task store keeps for every number of tasks, every depth and    *)
(* dependency bound, every set of contracts and every set of patches.      *)
(***************************************************************************)
EXTENDS TaskBoard, TaskGraphTheorems

\* The rows of a scope, as a value: what TypeOK says of board.
BoardOK(b) ==
    /\ b = [t \in DOMAIN b |-> b[t]]
    /\ DOMAIN b \subseteq Id
    /\ \A t \in DOMAIN b : b[t] \in Row

\* What ReferencesLive says of board.
LiveRefs(b) ==
    \A t \in DOMAIN b : /\ b[t].parent \in DOMAIN b \cup {NoTask}
                        /\ b[t].deps \subseteq DOMAIN b

\* The inductive invariant: the graph checks are sound only on rows whose
\* references are live.
IInv ==
    /\ TypeOK
    /\ ReferencesLive
    /\ DepsAcyclic
    /\ HierarchyAcyclic
    /\ StampMatchesStatus

\* No id is the absent parent.
LEMMA NoTaskIsNoId == NoTask \notin Id
  BY BoundsAssumption DEF Id, NoTask

\* The edge functions of a scope are functions between its ids.
LEMMA EdgesType ==
    ASSUME NEW b, BoardOK(b)
    PROVE  /\ DepEdges(b) \in [Id -> SUBSET Id]
           /\ ParentEdge(b) \in [Id -> SUBSET Id]
           /\ ChildEdges(b) \in [Id -> SUBSET Id]
           /\ CascadeEdges(b) \in [Id -> SUBSET Id]
  BY DEF BoardOK, DepEdges, ParentEdge, ChildEdges, CascadeEdges, Children, Row

\* The type invariant gives the facts about the rows the lemmas below start
\* from.
LEMMA TypeOKBoard == TypeOK => BoardOK(board)
  BY BoundsAssumption DEF TypeOK, BoardOK, Id

\* Patching a row yields a row; it never turns it done, and it clears the
\* completion stamp of a row it opens.
LEMMA PatchedRow ==
    ASSUME NEW r \in Row, NEW p \in Patch
    PROVE  /\ ApplyPatch(r, p) \in Row
           /\ ApplyPatch(r, p).status = "done" => r.status = "done"
           /\ ~TouchesGraph(p) => /\ ApplyPatch(r, p).deps = r.deps
                                  /\ ApplyPatch(r, p).parent = r.parent
           /\ ApplyPatch(r, p).stamped => r.stamped
           /\ (ApplyPatch(r, p).status \notin Closed /\ ApplyPatch(r, p).stamped)
                 => r.status \notin Closed
           /\ ApplyPatch(r, p).status = "done" /\ r.stamped
                 => ApplyPatch(r, p).stamped
<1>1. PatchOK(p)
  BY BoundsAssumption
<1>2. ApplyPatch(r, p) \in Row
  BY <1>1 DEF PatchOK, ApplyPatch, Row
<1> QED
  BY <1>1, <1>2 DEF PatchOK, ApplyPatch, Row, TouchesGraph, Closed
-----------------------------------------------------------------------------
(* One lemma per way of writing the rows: each keeps a good board good.    *)

\* A done row is stamped, and an open one is not.
Stamps(b) ==
    \A t \in DOMAIN b : /\ b[t].status = "done" => b[t].stamped
                        /\ Open(b, t) => ~b[t].stamped

\* What every operation keeps of the rows.
Good(b) ==
    /\ BoardOK(b)
    /\ LiveRefs(b)
    /\ Acyclic(DepEdges(b))
    /\ Acyclic(ParentEdge(b))
    /\ Stamps(b)

\* Live ids are closed under both kinds of edges.
LEMMA LiveClosed ==
    ASSUME NEW b, BoardOK(b), LiveRefs(b), NEW S \in SUBSET (DOMAIN b)
    PROVE  /\ Reach(DepEdges(b), S) \subseteq DOMAIN b
           /\ Reach(ParentEdge(b), S) \subseteq DOMAIN b
<1>1. /\ ClosedUnder(DepEdges(b), DOMAIN b)
      /\ ClosedUnder(ParentEdge(b), DOMAIN b)
      /\ DOMAIN b \in SUBSET Id
  BY DEF ClosedUnder, DepEdges, ParentEdge, BoardOK, LiveRefs
<1> QED
  BY <1>1, EdgesType, ReachLeast

\* create(): nothing refers to a fresh id, so no cycle goes through it.
LEMMA InsertKeeps ==
    ASSUME NEW b, Good(b), NEW t \in Id \ DOMAIN b, NEW r \in Row,
           r.parent \in DOMAIN b \cup {NoTask}, r.deps \subseteq DOMAIN b,
           r.status = "pending", ~r.stamped
    PROVE  Good(Insert(b, t, r))
<1> DEFINE c == Insert(b, t, r)
<1>1. /\ DOMAIN c = DOMAIN b \cup {t}
      /\ c[t] = r
      /\ \A x \in DOMAIN b : c[x] = b[x]
  BY DEF Insert
<1>2. BoardOK(c)
  BY <1>1 DEF Insert, BoardOK, Good
<1>3. LiveRefs(c)
  BY <1>1 DEF LiveRefs, Good
<1>4. Stamps(c)
  BY <1>1 DEF Stamps, Good, Open, Closed
<1>e. /\ DepEdges(b) \in [Id -> SUBSET Id] /\ DepEdges(c) \in [Id -> SUBSET Id]
      /\ ParentEdge(b) \in [Id -> SUBSET Id] /\ ParentEdge(c) \in [Id -> SUBSET Id]
  BY <1>2, EdgesType DEF Good
<1>5. Acyclic(DepEdges(c))
  <2>1. \A m \in Id \ {t} : DepEdges(c)[m] = DepEdges(b)[m]
    BY <1>1 DEF DepEdges
  <2>2. DepEdges(c)[t] \subseteq DOMAIN b /\ DOMAIN b \in SUBSET Id
    BY <1>1 DEF DepEdges, Good, BoardOK
  <2>3. ClosedUnder(DepEdges(c), DOMAIN b)
    BY <1>1 DEF DepEdges, ClosedUnder, Good, LiveRefs, BoardOK
  <2>4. t \notin Reach(DepEdges(c), DepEdges(c)[t])
    BY <1>e, <2>2, <2>3, ReachLeast
  <2> QED
    BY <1>e, <2>1, <2>4, AcyclicOneNode DEF Good
<1>6. Acyclic(ParentEdge(c))
  <2>1. \A m \in Id \ {t} : ParentEdge(c)[m] = ParentEdge(b)[m]
    BY <1>1 DEF ParentEdge
  <2>2. ParentEdge(c)[t] \subseteq DOMAIN b /\ DOMAIN b \in SUBSET Id
    BY <1>1 DEF ParentEdge, Good, BoardOK
  <2>3. ClosedUnder(ParentEdge(c), DOMAIN b)
    BY <1>1 DEF ParentEdge, ClosedUnder, Good, LiveRefs, BoardOK
  <2>4. t \notin Reach(ParentEdge(c), ParentEdge(c)[t])
    BY <1>e, <2>2, <2>3, ReachLeast
  <2> QED
    BY <1>e, <2>1, <2>4, AcyclicOneNode DEF Good
<1> QED
  BY <1>2, <1>3, <1>4, <1>5, <1>6 DEF Good

\* update(): the checks on the one changed row are enough for the graph.
LEMMA PatchKeeps ==
    ASSUME NEW b, Good(b), NEW t \in DOMAIN b, NEW p \in Patch,
           LET c == [b EXCEPT ![t] = ApplyPatch(b[t], p)]
           IN TouchesGraph(p) => CheckGraphUpdate(c, t, "parent" \in DOMAIN p)
    PROVE  Good([b EXCEPT ![t] = ApplyPatch(b[t], p)])
<1> DEFINE r == ApplyPatch(b[t], p)
           c == [b EXCEPT ![t] = r]
<1>r. b[t] \in Row /\ r \in Row /\ t \in Id
  BY PatchedRow DEF Good, BoardOK
<1>1. /\ DOMAIN c = DOMAIN b
      /\ c[t] = r
      /\ \A x \in DOMAIN b \ {t} : c[x] = b[x]
  OBVIOUS
<1>2. BoardOK(c)
  BY <1>r, <1>1 DEF BoardOK, Good
<1>3. Stamps(c)
  <2>1. r.status = "done" => r.stamped
    BY <1>r, PatchedRow DEF Stamps, Good
  <2>2. r.status \notin Closed => ~r.stamped
    <3> SUFFICES ASSUME r.status \notin Closed, r.stamped PROVE FALSE
      BY <1>r DEF Row
    <3>1. b[t].status \notin Closed /\ b[t].stamped
      BY <1>r, PatchedRow
    <3> QED
      BY <3>1 DEF Stamps, Good, Open
  <2> QED
    BY <1>1, <2>1, <2>2 DEF Stamps, Good, Open
<1>e. /\ DepEdges(b) \in [Id -> SUBSET Id] /\ DepEdges(c) \in [Id -> SUBSET Id]
      /\ ParentEdge(b) \in [Id -> SUBSET Id] /\ ParentEdge(c) \in [Id -> SUBSET Id]
  BY <1>2, EdgesType DEF Good
<1>d. \A m \in Id \ {t} : DepEdges(c)[m] = DepEdges(b)[m]
  BY <1>1 DEF DepEdges
<1>p. \A m \in Id \ {t} : ParentEdge(c)[m] = ParentEdge(b)[m]
  BY <1>1 DEF ParentEdge
<1>4. CASE TouchesGraph(p)
  <2>1. CheckGraphUpdate(c, t, "parent" \in DOMAIN p)
    BY <1>4
  <2>2. /\ r.deps \subseteq DOMAIN b
        /\ t \notin Reach(DepEdges(c), r.deps)
        /\ r.parent # NoTask => r.parent \in DOMAIN b
        /\ r.parent # NoTask => t \notin Reach(ParentEdge(c), {r.parent} \ {NoTask})
    BY <1>1, <2>1 DEF CheckGraphUpdate, DependencyCycle, AncestorChain
  <2>3. LiveRefs(c)
    BY <1>1, <2>2 DEF LiveRefs, Good
  <2>4. Acyclic(DepEdges(c))
    <3>1. DepEdges(c)[t] = r.deps
      BY <1>1, <1>r DEF DepEdges
    <3>2. t \notin Reach(DepEdges(c), DepEdges(c)[t])
      BY <2>2, <3>1
    <3>3. Acyclic(DepEdges(b))
      BY DEF Good
    <3> HIDE DEF c
    <3> QED
      BY <1>e, <1>d, <1>r, <3>2, <3>3, AcyclicOneNode
  <2>5. Acyclic(ParentEdge(c))
    <3>1. ParentEdge(c)[t] = {r.parent} \ {NoTask}
      BY <1>1, <1>r DEF ParentEdge
    <3>2. CASE r.parent = NoTask
      <4>1. \A m \in Id : ParentEdge(c)[m] \subseteq ParentEdge(b)[m]
        BY <1>p, <3>1, <3>2
      <4> QED
        BY <1>e, <4>1, AcyclicFewerEdges DEF Good
    <3>3. CASE r.parent # NoTask
      <4>1. t \notin Reach(ParentEdge(c), ParentEdge(c)[t])
        BY <2>2, <3>1, <3>3
      <4>2. Acyclic(ParentEdge(b))
        BY DEF Good
      <4> HIDE DEF c
      <4> QED
        BY <1>e, <1>p, <1>r, <4>1, <4>2, AcyclicOneNode
    <3> QED
      BY <3>2, <3>3
  <2> QED
    BY <1>2, <1>3, <2>3, <2>4, <2>5 DEF Good
<1>5. CASE ~TouchesGraph(p)
  <2>1. r.deps = b[t].deps /\ r.parent = b[t].parent
    BY <1>5, <1>r, PatchedRow
  <2>2. LiveRefs(c)
    BY <1>1, <2>1 DEF LiveRefs, Good
  <2>3. DepEdges(c) = DepEdges(b) /\ ParentEdge(c) = ParentEdge(b)
    BY <1>1, <2>1 DEF DepEdges, ParentEdge
  <2> QED
    BY <1>2, <1>3, <2>2, <2>3 DEF Good
<1> QED
  BY <1>4, <1>5
\* The tasks a cascade from t visits.
Walked(b, t) == Reach(CascadeEdges(b), {t})

\* Everything a cascade visits lies below t and, but for t itself, carries no
\* contract of its own.
LEMMA WalkedBelow ==
    ASSUME NEW b, BoardOK(b), NEW t \in DOMAIN b
    PROVE  /\ Walked(b, t) \in SUBSET Id
           /\ t \in Walked(b, t)
           /\ \A w \in Walked(b, t) : t \in Reach(ParentEdge(b), {w})
           /\ \A w \in Walked(b, t) \ {t} : w \in DOMAIN b /\ ~OwnContract(b, w)
           /\ \A w \in Walked(b, t), c \in DOMAIN b :
                 (b[c].parent = w /\ ~OwnContract(b, c)) => c \in Walked(b, t)
<1> DEFINE P == ParentEdge(b)
           E == CascadeEdges(b)
           B == {w \in Id : t \in Reach(P, {w})}
           N == {w \in Id : w = t \/ (w \in DOMAIN b /\ ~OwnContract(b, w))}
<1>e. P \in [Id -> SUBSET Id] /\ E \in [Id -> SUBSET Id] /\ t \in Id
  BY EdgesType DEF BoardOK
<1>1. Walked(b, t) \in SUBSET Id /\ t \in Walked(b, t)
  BY <1>e, ReachGrows DEF Walked
<1>2. ClosedUnder(E, B)
  <2> SUFFICES ASSUME NEW w \in B, NEW c \in E[w] PROVE c \in B
    BY DEF ClosedUnder
  <2>1. c \in DOMAIN b /\ b[c].parent = w /\ c \in Id /\ w \in Id
    BY <1>e DEF CascadeEdges, Children, BoardOK
  <2>2. P[c] = {w}
    BY <2>1, NoTaskIsNoId DEF ParentEdge
  <2>3. Reach(P, {w}) \subseteq Reach(P, {c})
    BY <1>e, <2>1, <2>2, ReachStep
  <2> QED
    BY <2>1, <2>3
<1>3. t \in B
  BY <1>e, ReachGrows
<1>4. Walked(b, t) \subseteq B
  <2>1. Walked(b, t) = Reach(E, {t}) /\ B \in SUBSET Id
    BY DEF Walked
  <2> HIDE DEF B, E, P
  <2> QED
    BY <1>e, <1>2, <1>3, <2>1, ReachLeast
<1>5. ClosedUnder(E, N)
  BY <1>e DEF ClosedUnder, CascadeEdges, Children, BoardOK
<1>6. Walked(b, t) \subseteq N
  BY <1>e, <1>5, ReachLeast DEF Walked
<1>7. ASSUME NEW w \in Walked(b, t), NEW c \in DOMAIN b,
             b[c].parent = w, ~OwnContract(b, c)
      PROVE  c \in Walked(b, t)
  <2>1. c \in E[w]
    BY <1>1, <1>7 DEF CascadeEdges, Children
  <2> QED
    BY <1>e, <2>1, <1>7, ReachGrows DEF Walked
<1> QED
  BY <1>1, <1>4, <1>6, <1>7

\* The parent of t is above t, so the cascade never visits it.
LEMMA ParentNotWalked ==
    ASSUME NEW b, Good(b), NEW t \in DOMAIN b, b[t].parent # NoTask,
           NEW m \in Reach(ParentEdge(b), {b[t].parent})
    PROVE  t \notin Reach(ParentEdge(b), {m})
<1> DEFINE P == ParentEdge(b)
<1>e. P \in [Id -> SUBSET Id] /\ t \in Id /\ b[t].parent \in Id
  BY EdgesType DEF Good, BoardOK, LiveRefs
<1>1. P[t] = {b[t].parent}
  BY <1>e DEF ParentEdge
<1>2. t \notin Reach(P, P[t])
  BY <1>e, AcyclicNoReturn DEF Good
<1>3. Reach(P, {m}) \subseteq Reach(P, P[t])
  BY <1>e, <1>1, ReachTransitive
<1> QED
  BY <1>2, <1>3

\* cascade_cancel(): what it re-parents moves to above the branch, so the
\* hierarchy stays a forest.
LEMMA CascadeKeeps ==
    ASSUME NEW b, Good(b), NEW t \in DOMAIN b, b[t].status = "cancelled"
    PROVE  Good(CascadeCancel(b, t))
<1> DEFINE W == Walked(b, t)
           q == b[t].parent
           P == ParentEdge(b)
           c == CascadeCancel(b, t)
           M == {x \in DOMAIN b \ {t} : b[x].parent \in W /\ OwnContract(b, x)}
<1>b. BoardOK(b) /\ LiveRefs(b) /\ Stamps(b)
  BY DEF Good
<1>1. /\ DOMAIN c = DOMAIN b
      /\ \A x \in DOMAIN b :
            /\ c[x].deps = b[x].deps
            /\ c[x].stamped = b[x].stamped
            /\ c[x].status = b[x].status
                 \/ (c[x].status = "cancelled" /\ Open(b, x))
            /\ c[x] \in Row
  BY <1>b DEF CascadeCancel, Walked, BoardOK, Row, Status
<1>2. \A x \in DOMAIN b : c[x].parent = IF x \in M THEN q ELSE b[x].parent
  BY <1>b DEF CascadeCancel, Walked, BoardOK, Row
<1>3. BoardOK(c)
  BY <1>b, <1>1 DEF BoardOK, CascadeCancel
<1>4. LiveRefs(c)
  BY <1>b, <1>1, <1>2 DEF LiveRefs
<1>5. Stamps(c)
  <2> HIDE DEF c
  <2> QED
    BY <1>b, <1>1 DEF Stamps, Open, Closed
<1>e. /\ P \in [Id -> SUBSET Id] /\ ParentEdge(c) \in [Id -> SUBSET Id]
      /\ DOMAIN b \in SUBSET Id /\ M \in SUBSET Id
  BY <1>b, <1>3, EdgesType DEF BoardOK
<1>6. DepEdges(c) = DepEdges(b)
  BY <1>1 DEF DepEdges
<1>7. \A x \in Id \ M : ParentEdge(c)[x] = P[x]
  BY <1>1, <1>2 DEF ParentEdge
<1>8. \A x \in M : ParentEdge(c)[x] = {q} \ {NoTask}
  BY <1>1, <1>2, <1>e DEF ParentEdge
<1>9. Acyclic(ParentEdge(c))
  <2> SUFFICES ASSUME NEW X \in SUBSET Id, X # {},
                      \A n \in X : ParentEdge(c)[n] \cap X # {}
               PROVE FALSE
    BY <1>e DEF Acyclic
  <2>a. \A Y \in SUBSET Id : Y # {} => \E n \in Y : P[n] \cap Y = {}
    BY <1>e DEF Acyclic, Good
  <2>1. CASE X \cap M = {}
    <3>1. \A n \in X : ParentEdge(c)[n] = P[n]
      BY <2>1, <1>7
    <3> QED
      BY <3>1, <2>a
  <2>2. CASE X \cap M # {}
    <3> HIDE DEF c
    <3>1. q \in X /\ q # NoTask /\ q \in Id
      BY <2>2, <1>8
    <3> DEFINE A == Reach(P, {q})
               Y == X \cap A
    <3>2. q \in A /\ \A n \in A : P[n] \subseteq A
      <4>1. {q} \in SUBSET Id
        BY <3>1
      <4> HIDE DEF P, q
      <4> QED
        BY <1>e, <4>1, ReachGrows
    <3>3. PICK m \in Y : P[m] \cap Y = {}
      BY <2>a, <3>1, <3>2
    <3>4. P[m] \cap X = {}
      BY <3>2, <3>3
    <3>5. m \in M
      BY <1>7, <3>3, <3>4
    <3>6. t \in Reach(P, {b[m].parent}) /\ b[m].parent \in Id
      BY <1>b, <3>5, WalkedBelow
    <3>7. P[m] = {b[m].parent} /\ m \in Id
      BY <3>5, <3>6, <1>e, NoTaskIsNoId DEF ParentEdge
    <3>8. t \in Reach(P, {m})
      BY <1>e, <3>6, <3>7, ReachStep
    <3> QED
      BY <3>1, <3>3, <3>8, ParentNotWalked
  <2> QED
    BY <2>1, <2>2
<1> QED
  BY <1>3, <1>4, <1>5, <1>6, <1>9 DEF Good

\* complete(): closing rows moves nothing.
LEMMA MarkDoneKeeps ==
    ASSUME NEW b, Good(b), NEW S
    PROVE  Good(MarkDone(b, S))
<1> DEFINE c == MarkDone(b, S)
<1>1. /\ DOMAIN c = DOMAIN b
      /\ \A x \in DOMAIN b :
            /\ c[x].deps = b[x].deps /\ c[x].parent = b[x].parent
            /\ c[x] \in Row
            /\ c[x] = b[x] \/ (c[x].status = "done" /\ c[x].stamped)
  BY DEF MarkDone, Good, BoardOK, Row, Status
<1>2. BoardOK(c)
  BY <1>1 DEF BoardOK, Good, MarkDone
<1> HIDE DEF c
<1>3. LiveRefs(c)
  BY <1>1 DEF LiveRefs, Good
<1>4. Stamps(c)
  BY <1>1 DEF Stamps, Good, Open, Closed
<1>5. DepEdges(c) = DepEdges(b) /\ ParentEdge(c) = ParentEdge(b)
  BY <1>1 DEF DepEdges, ParentEdge
<1> QED
  BY <1>2, <1>3, <1>4, <1>5 DEF Good, c

\* delete(), clear(): dropping rows together with their children and every
\* reference to them.
LEMMA RemoveKeeps ==
    ASSUME NEW b, Good(b), NEW D,
           \A x \in DOMAIN b : b[x].parent \in D => x \in D
    PROVE  Good(Remove(b, D))
<1> DEFINE c == Remove(b, D)
<1>b. BoardOK(b) /\ LiveRefs(b) /\ Stamps(b)
  BY DEF Good
<1>1. /\ DOMAIN c = DOMAIN b \ D
      /\ \A x \in DOMAIN c :
            /\ c[x].deps = b[x].deps \ D /\ c[x].parent = b[x].parent
            /\ c[x].status = b[x].status /\ c[x].stamped = b[x].stamped
            /\ c[x] \in Row
  BY <1>b DEF Remove, BoardOK, Row
<1>2. BoardOK(c)
  <2>1. c = [x \in DOMAIN c |-> c[x]]
    BY DEF Remove
  <2> QED
    BY <1>b, <1>1, <2>1 DEF BoardOK
<1> HIDE DEF c
<1>3. LiveRefs(c)
  BY <1>b, <1>1 DEF LiveRefs
<1>4. Stamps(c)
  BY <1>b, <1>1 DEF Stamps, Open
<1>e. /\ DepEdges(b) \in [Id -> SUBSET Id] /\ DepEdges(c) \in [Id -> SUBSET Id]
      /\ ParentEdge(b) \in [Id -> SUBSET Id] /\ ParentEdge(c) \in [Id -> SUBSET Id]
  BY <1>b, <1>2, EdgesType
<1>5. \A x \in Id : /\ DepEdges(c)[x] \subseteq DepEdges(b)[x]
                    /\ ParentEdge(c)[x] \subseteq ParentEdge(b)[x]
  BY <1>1 DEF DepEdges, ParentEdge
<1>6. Acyclic(DepEdges(c))
  BY <1>e, <1>5, AcyclicFewerEdges DEF Good
<1>7. Acyclic(ParentEdge(c))
  BY <1>e, <1>5, AcyclicFewerEdges DEF Good
<1> QED
  BY <1>2, <1>3, <1>4, <1>6, <1>7 DEF Good, c
-----------------------------------------------------------------------------
(* The invariant.                                                          *)

\* IInv is Good of the board, plus the id counter.
LEMMA IInvGood ==
    IInv <=> /\ nextId \in 1 .. MaxId + 1
             /\ DOMAIN board \subseteq 1 .. nextId - 1
             /\ Good(board)
  BY BoundsAssumption
  DEF IInv, Good, TypeOK, BoardOK, ReferencesLive, LiveRefs, DepsAcyclic,
      HierarchyAcyclic, StampMatchesStatus, Stamps, Id

\* Subtrees are closed downwards.
LEMMA SubtreeClosed ==
    ASSUME NEW b, BoardOK(b), NEW S \in SUBSET Id
    PROVE  \A x \in DOMAIN b :
               b[x].parent \in Reach(ChildEdges(b), S) => x \in Reach(ChildEdges(b), S)
<1> SUFFICES ASSUME NEW x \in DOMAIN b, b[x].parent \in Reach(ChildEdges(b), S)
             PROVE  x \in Reach(ChildEdges(b), S)
  OBVIOUS
<1>1. ChildEdges(b) \in [Id -> SUBSET Id]
  BY EdgesType
<1>2. b[x].parent \in Id
  BY <1>1, ReachGrows
<1>3. x \in ChildEdges(b)[b[x].parent]
  BY <1>2 DEF ChildEdges, Children
<1> QED
  BY <1>1, <1>3, ReachGrows

\* What clear(closed_only) deletes is closed downwards too.
LEMMA ClearableClosedDown ==
    ASSUME NEW b, BoardOK(b)
    PROVE  \A x \in DOMAIN b :
               b[x].parent \in ClearableClosed(b) => x \in ClearableClosed(b)
<1> SUFFICES ASSUME NEW x \in DOMAIN b, b[x].parent \in ClearableClosed(b)
             PROVE  x \in ClearableClosed(b)
  OBVIOUS
<1> DEFINE p == b[x].parent
           C == ChildEdges(b)
<1>1. C \in [Id -> SUBSET Id] /\ p \in Id /\ x \in Id
  BY EdgesType DEF BoardOK, ClearableClosed
<1>2. x \in Reach(C, {p})
  <2>1. p \in Reach(C, {p})
    BY <1>1, ReachGrows
  <2> QED
    BY <1>1, <2>1, SubtreeClosed
<1>3. Reach(C, {x}) \subseteq Reach(C, {p})
  <2> HIDE DEF C, p
  <2> QED
    BY <1>1, <1>2, ReachTransitive
<1> QED
  BY <1>3 DEF ClearableClosed, SubtreeIds

\* An empty scope satisfies the inductive invariant.
LEMMA InitIInv == Init => IInv
<1> SUFFICES ASSUME Init PROVE IInv
  OBVIOUS
<1>1. DOMAIN board = {} /\ board = [t \in DOMAIN board |-> board[t]]
  BY DEF Init
<1>2. DepEdges(board) = [t \in Id |-> {}] /\ ParentEdge(board) = [t \in Id |-> {}]
  BY <1>1 DEF DepEdges, ParentEdge
<1>3. Acyclic(DepEdges(board)) /\ Acyclic(ParentEdge(board))
  BY <1>2 DEF Acyclic
<1> QED
  BY <1>1, <1>3, BoundsAssumption
  DEF Init, IInv, TypeOK, ReferencesLive, DepsAcyclic, HierarchyAcyclic,
      StampMatchesStatus

\* Every operation of the store preserves the inductive invariant, one step
\* per action.
LEMMA NextIInv == IInv /\ [Next]_vars => IInv'
<1> SUFFICES ASSUME IInv, [Next]_vars PROVE IInv'
  OBVIOUS
<1>g. /\ nextId \in 1 .. MaxId + 1
      /\ DOMAIN board \subseteq 1 .. nextId - 1
      /\ Good(board) /\ BoardOK(board)
  BY IInvGood DEF Good
<1>i. ASSUME nextId' \in 1 .. MaxId + 1, DOMAIN board' \subseteq 1 .. nextId' - 1,
             Good(board')
      PROVE  IInv'
  BY <1>i, BoundsAssumption
  DEF IInv, Good, TypeOK, BoardOK, ReferencesLive, LiveRefs, DepsAcyclic,
      HierarchyAcyclic, StampMatchesStatus, Stamps, Id
<1>1. ASSUME NEW p \in Id \cup {NoTask}, NEW deps \in SUBSET Id, NEW a \in Check,
             Create(p, deps, a)
      PROVE  IInv'
  <2> DEFINE r == NewRow(p, deps, a)
  <2>1. nextId \in Id \ DOMAIN board
    BY <1>g, <1>1, BoundsAssumption DEF Create, Id
  <2>2. /\ r \in Row /\ r.status = "pending" /\ ~r.stamped
        /\ r.parent = p /\ r.deps = deps
    BY DEF NewRow, Row, Status
  <2>3. p \in DOMAIN board \cup {NoTask} /\ deps \subseteq DOMAIN board
    BY <1>1 DEF Create, MayCreate, Open
  <2>4. Good(Insert(board, nextId, r))
    BY <1>g, <2>1, <2>2, <2>3, InsertKeeps
  <2>5. DOMAIN board' = DOMAIN board \cup {nextId} /\ nextId' = nextId + 1
    BY <1>1 DEF Create, Insert
  <2>6. DOMAIN board' \subseteq 1 .. nextId' - 1 /\ nextId' \in 1 .. MaxId + 1
    BY <1>g, <2>5, <1>1, BoundsAssumption DEF Create
  <2> QED
    BY <1>i, <1>1, <2>4, <2>6 DEF Create
<1>2. ASSUME NEW t \in Id, NEW p \in Patch, Update(t, p) PROVE IInv'
  <2> DEFINE r == ApplyPatch(board[t], p)
             b == [board EXCEPT ![t] = r]
  <2>1. /\ t \in DOMAIN board
        /\ TouchesGraph(p) => CheckGraphUpdate(b, t, "parent" \in DOMAIN p)
        /\ board' = IF r.status = "cancelled" /\ board[t].status # "cancelled"
                    THEN CascadeCancel(b, t) ELSE b
        /\ nextId' = nextId
    BY <1>2 DEF Update
  <2>2. Good(b) /\ DOMAIN b = DOMAIN board
    BY <1>g, <2>1, PatchKeeps
  <2>3. t \in DOMAIN b /\ b[t] = r
    BY <2>1
  <2>4. r.status = "cancelled" =>
           Good(CascadeCancel(b, t)) /\ DOMAIN CascadeCancel(b, t) = DOMAIN board
    <3> HIDE DEF r
    <3>1. DOMAIN CascadeCancel(b, t) = DOMAIN b
      BY DEF CascadeCancel
    <3> HIDE DEF b
    <3> QED
      BY <2>2, <2>3, <3>1, CascadeKeeps
  <2>5. Good(board') /\ DOMAIN board' = DOMAIN board
    BY <2>1, <2>2, <2>4
  <2> QED
    BY <1>g, <1>i, <2>1, <2>5
<1>3. ASSUME NEW t \in Id, Complete(t) PROVE IInv'
  <2>1. board' = MarkDone(board, {t} \cup AutoCompleted(board, t)) /\ nextId' = nextId
    BY <1>3 DEF Complete
  <2>2. Good(board')
    BY <1>g, <2>1, MarkDoneKeeps
  <2>3. DOMAIN board' = DOMAIN board
    BY <2>1 DEF MarkDone
  <2> QED
    BY <1>g, <1>i, <2>1, <2>2, <2>3
<1>4. ASSUME NEW t \in Id, Reopen(t) PROVE IInv'
  <2>1. /\ t \in DOMAIN board /\ nextId' = nextId
        /\ board' = [board EXCEPT ![t] = [board[t] EXCEPT !.status = "pending",
                                                        !.stamped = FALSE]]
    BY <1>4, <1>g DEF Reopen, BoardOK
  <2> DEFINE r == [board[t] EXCEPT !.status = "pending", !.stamped = FALSE]
  <2>2. /\ r \in Row /\ r.status = "pending" /\ ~r.stamped
        /\ r.parent = board[t].parent /\ r.deps = board[t].deps
    BY <2>1, <1>g DEF BoardOK, Row, Status
  <2> HIDE DEF r
  <2>3. /\ DOMAIN board' = DOMAIN board /\ board'[t] = r
        /\ \A x \in DOMAIN board \ {t} : board'[x] = board[x]
    BY <2>1 DEF r
  <2>4. BoardOK(board')
    BY <1>g, <2>1, <2>2, <2>3 DEF BoardOK
  <2>5. LiveRefs(board') /\ Stamps(board')
    BY <1>g, <2>2, <2>3 DEF LiveRefs, Stamps, Good, Open, Closed
  <2>6. DepEdges(board') = DepEdges(board) /\ ParentEdge(board') = ParentEdge(board)
    BY <2>2, <2>3 DEF DepEdges, ParentEdge
  <2> QED
    BY <1>g, <1>i, <2>1, <2>3, <2>4, <2>5, <2>6 DEF Good
<1>5. ASSUME NEW t \in Id, Delete(t) PROVE IInv'
  <2>1. board' = Remove(board, SubtreeIds(board, t)) /\ nextId' = nextId
    BY <1>5 DEF Delete
  <2>2. \A x \in DOMAIN board : board[x].parent \in SubtreeIds(board, t)
                               => x \in SubtreeIds(board, t)
    BY <1>g, SubtreeClosed DEF SubtreeIds
  <2>3. Good(board')
    BY <1>g, <2>1, <2>2, RemoveKeeps
  <2>4. DOMAIN board' \subseteq DOMAIN board
    BY <2>1 DEF Remove
  <2> QED
    BY <1>g, <1>i, <2>1, <2>3, <2>4
<1>6. ASSUME NEW closedOnly \in BOOLEAN, Clear(closedOnly) PROVE IInv'
  <2> DEFINE D == IF closedOnly THEN ClearableClosed(board) ELSE DOMAIN board
  <2>1. board' = Remove(board, D) /\ nextId' = nextId
    BY <1>6 DEF Clear
  <2>2. \A x \in DOMAIN board : board[x].parent \in D => x \in D
    BY <1>g, ClearableClosedDown
  <2> HIDE DEF D
  <2>3. Good(board')
    BY <1>g, <2>1, <2>2, RemoveKeeps
  <2>4. DOMAIN board' \subseteq DOMAIN board
    BY <2>1 DEF Remove
  <2> QED
    BY <1>g, <1>i, <2>1, <2>3, <2>4
<1>7. CASE UNCHANGED vars
  <2>1. nextId' = nextId /\ board' = board
    BY <1>7 DEF vars
  <2> QED
    BY <1>g, <1>i, <2>1
<1> QED
  BY <1>1, <1>2, <1>3, <1>4, <1>5, <1>6, <1>7 DEF Next

\* The rows and the references between them stay well-formed.
THEOREM Invariance == Spec => []IInv
  BY InitIInv, NextIInv, PTL DEF Spec

\* check_dependency_cycle() on the updated task keeps the whole dependency
\* graph acyclic.
THEOREM DependenciesNeverCycle == Spec => []DepsAcyclic
<1>1. IInv => DepsAcyclic
  BY DEF IInv
<1> QED
  BY <1>1, Invariance, PTL

\* Moves and cascades keep the hierarchy a forest.
THEOREM HierarchyStaysForest == Spec => []HierarchyAcyclic
<1>1. IInv => HierarchyAcyclic
  BY DEF IInv
<1> QED
  BY <1>1, Invariance, PTL

\* Rows stay well formed: typed, with fresh ids, live references and stamps
\* that agree with the status.
THEOREM RowsStaySound == Spec => []RowsSound
<1>1. IInv => RowsSound
  BY DEF IInv, RowsSound
<1> QED
  BY <1>1, Invariance, PTL

\* Without hierarchy, next() is never empty while a task is open: an acyclic
\* dependency graph has an open task that waits for no open one.
THEOREM FlatBoardsProgress == Spec => []FlatBoardNeverWedges
<1>1. IInv => FlatBoardNeverWedges
  <2> SUFFICES ASSUME IInv, \A t \in DOMAIN board : board[t].parent = NoTask,
                      NEW u \in DOMAIN board, Open(board, u)
               PROVE  \E t \in DOMAIN board : t \in Actionable(board)
    BY DEF FlatBoardNeverWedges, NoWedge
  <2> DEFINE X == {t \in DOMAIN board : Open(board, t)}
  <2>1. BoardOK(board)
    BY IInvGood DEF Good
  <2>2. X \in SUBSET (DOMAIN DepEdges(board)) /\ X # {}
    BY <2>1 DEF DepEdges, BoardOK
  <2>3. PICK t \in X : DepEdges(board)[t] \cap X = {}
    BY <2>2 DEF IInv, DepsAcyclic, Acyclic
  <2>4. DepEdges(board)[t] = board[t].deps
    BY <2>1, <2>3 DEF DepEdges, BoardOK
  <2>5. ~IsBlocked(board, t)
    BY <2>3, <2>4 DEF IsBlocked, Open
  <2>6. Children(board, t) = {}
    BY <2>1, <2>3, NoTaskIsNoId DEF Children, BoardOK
  <2> QED
    BY <2>3, <2>5, <2>6 DEF Actionable
<1> QED
  BY <1>1, Invariance, PTL

-----------------------------------------------------------------------------
(* What a step may never do.                                               *)

\* A parent on the path that ends pulls the whole path below it along, so
\* the auto-completed set leaves no open child behind.
LEMMA AutoCompletedWaits ==
    ASSUME NEW b, BoardOK(b), NEW t \in DOMAIN b,
           \A c \in Children(b, t) : ~Open(b, c),
           NEW x \in {t} \cup AutoCompleted(b, t), NEW k \in Children(b, x), Open(b, k)
    PROVE  k \in {t} \cup AutoCompleted(b, t)
<1> DEFINE chain == AncestorChain(b, b[t].parent)
           P == ParentEdge(b)
<1>1. x \in AutoCompleted(b, t) /\ x \in chain
  BY DEF AutoCompleted
<1>e. P \in [Id -> SUBSET Id] /\ chain \in SUBSET Id
  BY EdgesType DEF AncestorChain, Reach, BoardOK, ParentEdge
<1>2. k \in DOMAIN b /\ b[k].parent = x /\ k \in Id /\ x \in Id
  BY <1>1, <1>e DEF Children, BoardOK
<1>3. P[k] = {x} /\ x # NoTask
  BY <1>2, NoTaskIsNoId DEF ParentEdge
<1>4. x \in AncestorChain(b, x)
  <2>1. {x} \ {NoTask} = {x} /\ {x} \in SUBSET Id
    BY <1>2, <1>3
  <2> QED
    BY <1>e, <2>1, ReachGrows DEF AncestorChain
<1>5. k = t \/ k \in chain
  BY <1>1, <1>4 DEF AutoCompleted, EndsWith
<1>6. ASSUME NEW c \in chain, k \in AncestorChain(b, c) PROVE x \in AncestorChain(b, c)
  <2>1. {c} \ {NoTask} \in SUBSET Id
    BY <1>e
  <2> QED
    BY <1>e, <1>3, <1>6, <2>1, ReachGrows DEF AncestorChain
<1>7. k \in chain => k \in AutoCompleted(b, t)
  BY <1>1, <1>6 DEF AutoCompleted
<1> QED
  BY <1>5, <1>7

\* Nothing is marked done, by name or by auto-completion, over an open child.
THEOREM ParentWaits == Spec => ParentWaitsForChildren
<1> DEFINE A == \A t \in BecameDone : \A c \in Children(board', t) : ~Open(board', c)
<1>1. IInv /\ [Next]_vars => [A]_vars
  <2> SUFFICES ASSUME IInv, Next,
                      NEW t \in BecameDone, NEW c \in Children(board', t),
                      Open(board', c)
               PROVE FALSE
    OBVIOUS
  <2>g. BoardOK(board)
    BY IInvGood DEF Good
  <2>d. /\ t \in DOMAIN board /\ t \in DOMAIN board'
        /\ board[t].status # "done" /\ board'[t].status = "done"
    BY DEF BecameDone
  <2>1. ASSUME NEW p \in Id \cup {NoTask}, NEW deps \in SUBSET Id, NEW a \in Check,
               Create(p, deps, a)
        PROVE  FALSE
    <3>1. t # nextId
      BY <2>d, BoundsAssumption DEF IInv, TypeOK
    <3> QED
      BY <2>1, <2>d, <3>1 DEF Create, Insert
  <2>2. ASSUME NEW u \in Id, NEW p \in Patch, Update(u, p) PROVE FALSE
    <3> DEFINE r == ApplyPatch(board[u], p)
               b == [board EXCEPT ![u] = r]
    <3>1. u \in DOMAIN board /\ (board' = b \/ board' = CascadeCancel(b, u))
      BY <2>2 DEF Update
    <3>2. r.status = "done" => board[u].status = "done"
      BY <2>g, <3>1, PatchedRow DEF BoardOK
    <3>3. b[t].status # "done" /\ t \in DOMAIN b
      BY <2>d, <3>1, <3>2
    <3>4. r \in Row
      BY <2>g, <3>1, PatchedRow DEF BoardOK
    <3>5. b[t] \in Row
      BY <2>g, <2>d, <3>1, <3>4 DEF BoardOK
    <3> HIDE DEF b
    <3>6. CascadeCancel(b, u)[t].status # "done"
      BY <3>3, <3>5 DEF CascadeCancel, Row
    <3> QED
      BY <2>d, <3>1, <3>3, <3>6
  <2>3. ASSUME NEW u \in Id, Complete(u) PROVE FALSE
    <3> DEFINE S == {u} \cup AutoCompleted(board, u)
    <3>1. /\ u \in DOMAIN board
          /\ \A k \in Children(board, u) : ~Open(board, k)
          /\ board' = MarkDone(board, S)
      BY <2>3 DEF Complete
    <3> HIDE DEF S
    <3>2. t \in S
      BY <2>d, <3>1 DEF MarkDone
    <3>3. c \in DOMAIN board /\ c \notin S /\ board'[c] = board[c]
      BY <2>g, <3>1 DEF MarkDone, Open, Closed, Children, BoardOK, Row
    <3>4. c \in Children(board, t) /\ Open(board, c)
      BY <3>3 DEF Children, Open
    <3> QED
      BY <2>g, <3>1, <3>2, <3>3, <3>4, AutoCompletedWaits DEF S
  <2>4. ASSUME NEW u \in Id, Reopen(u) PROVE FALSE
    <3>1. board'[t].status \in {board[t].status, "pending"}
      BY <2>g, <2>d, <2>4 DEF Reopen, BoardOK, Row
    <3> QED
      BY <2>d, <3>1
  <2>5. ASSUME NEW D, board' = Remove(board, D) PROVE FALSE
    <3>1. board'[t].status = board[t].status
      BY <2>g, <2>d, <2>5 DEF Remove, BoardOK, Row
    <3> QED
      BY <2>d, <3>1
  <2> QED
    BY <2>1, <2>2, <2>3, <2>4, <2>5 DEF Next, Delete, Clear
<1> QED
  BY <1>1, Invariance, PTL DEF Spec, ParentWaitsForChildren

\* After the cascade nothing the walk visited is open, and nothing below it
\* escaped the walk.
LEMMA CascadeClosesWalk ==
    ASSUME NEW b, Good(b), NEW t \in DOMAIN b, b[t].status = "cancelled",
           NEW y \in Walked(b, t), y \in DOMAIN b
    PROVE  \A x \in SubtreeIds(CascadeCancel(b, t), y) : ~Open(CascadeCancel(b, t), x)
<1> DEFINE W == Walked(b, t)
           c == CascadeCancel(b, t)
<1>b. BoardOK(b) /\ BoardOK(c)
  BY CascadeKeeps DEF Good
<1>w. /\ W \in SUBSET Id /\ t \in W
      /\ \A w \in W : t \in Reach(ParentEdge(b), {w})
      /\ \A w \in W \ {t} : w \in DOMAIN b /\ ~OwnContract(b, w)
      /\ \A w \in W, k \in DOMAIN b :
            (b[k].parent = w /\ ~OwnContract(b, k)) => k \in W
  BY <1>b, WalkedBelow
<1>1. \A x \in W : ~Open(c, x)
  BY <1>b, <1>w DEF CascadeCancel, Walked, Open, Closed, BoardOK, Row
<1>2. b[t].parent \notin W
  <2>1. CASE b[t].parent = NoTask
    BY <1>w, <2>1, NoTaskIsNoId
  <2>2. CASE b[t].parent # NoTask
    <3>1. b[t].parent \in Id /\ ParentEdge(b) \in [Id -> SUBSET Id]
      BY <1>b, <2>2, EdgesType DEF BoardOK, Row
    <3>2. b[t].parent \in Reach(ParentEdge(b), {b[t].parent})
      BY <3>1, ReachGrows
    <3> QED
      BY <1>w, <2>2, <3>2, ParentNotWalked
  <2> QED
    BY <2>1, <2>2
<1>3. ClosedUnder(ChildEdges(c), W)
  <2> SUFFICES ASSUME NEW w \in W, NEW k \in ChildEdges(c)[w] PROVE k \in W
    BY DEF ClosedUnder
  <2>1. k \in DOMAIN b /\ c[k].parent = w /\ w \in Id
    BY <1>w DEF ChildEdges, Children, CascadeCancel
  <2>2. b[k].parent = w /\ (k = t \/ ~OwnContract(b, k))
    BY <1>b, <1>2, <2>1 DEF CascadeCancel, Walked, BoardOK, Row
  <2> QED
    BY <1>w, <2>1, <2>2
<1>4. SubtreeIds(c, y) \subseteq W
  <2>1. ChildEdges(c) \in [Id -> SUBSET Id]
    BY <1>b, EdgesType
  <2> HIDE DEF c, W
  <2>2. {y} \subseteq W
    BY DEF W
  <2> QED
    BY <1>w, <1>3, <2>1, <2>2, ReachLeast DEF SubtreeIds
<1> QED
  BY <1>1, <1>4

\* Cancelling a task leaves no open work below it.
THEOREM CancelledBranchIsClosed == Spec => CancelClosesBranch
<1> DEFINE A == \A t \in DOMAIN board \cap DOMAIN board' :
                  (board[t].status # "cancelled" /\ board'[t].status = "cancelled") =>
                      \A x \in SubtreeIds(board', t) : ~Open(board', x)
<1>1. IInv /\ [Next]_vars => [A]_vars
  <2> SUFFICES ASSUME IInv, Next,
                      NEW t \in DOMAIN board \cap DOMAIN board',
                      board[t].status # "cancelled", board'[t].status = "cancelled"
               PROVE  \A x \in SubtreeIds(board', t) : ~Open(board', x)
    OBVIOUS
  <2>g. Good(board) /\ BoardOK(board)
    BY IInvGood DEF Good
  <2>1. ASSUME NEW p \in Id \cup {NoTask}, NEW deps \in SUBSET Id, NEW a \in Check,
               Create(p, deps, a)
        PROVE  FALSE
    <3>1. t # nextId
      BY BoundsAssumption DEF IInv, TypeOK
    <3> QED
      BY <2>1, <3>1 DEF Create, Insert
  <2>2. ASSUME NEW u \in Id, NEW p \in Patch, Update(u, p)
        PROVE  \A x \in SubtreeIds(board', t) : ~Open(board', x)
    <3> DEFINE r == ApplyPatch(board[u], p)
               b == [board EXCEPT ![u] = r]
    <3>1. /\ u \in DOMAIN board
          /\ TouchesGraph(p) => CheckGraphUpdate(b, u, "parent" \in DOMAIN p)
          /\ board' = IF r.status = "cancelled" /\ board[u].status # "cancelled"
                      THEN CascadeCancel(b, u) ELSE b
      BY <2>2 DEF Update
    <3>2. Good(b)
      BY <2>g, <3>1, PatchKeeps
    <3>3. u \in DOMAIN b /\ DOMAIN b = DOMAIN board /\ b[u] = r
      BY <3>1
    <3>4. \A x \in DOMAIN board \ {u} : b[x] = board[x]
      BY <3>1
    <3> HIDE DEF b, r
    <3>5. r.status = "cancelled" /\ board' = CascadeCancel(b, u)
      BY <3>1, <3>3, <3>4
    <3>6. t \in Walked(b, u)
      <4>1. CASE t = u
        BY <3>2, <3>3, <4>1, WalkedBelow DEF Good
      <4>2. CASE t # u
        <5>1. b[t].status # "cancelled" /\ b[t] \in Row
          BY <3>2, <3>3, <3>4, <4>2 DEF Good, BoardOK
        <5> QED
          BY <3>3, <3>5, <4>2, <5>1 DEF CascadeCancel, Walked, Row
      <4> QED
        BY <4>1, <4>2
    <3> QED
      BY <3>2, <3>3, <3>5, <3>6, CascadeClosesWalk
  <2>3. ASSUME NEW u \in Id, Complete(u) PROVE FALSE
    <3>1. board'[t].status \in {board[t].status, "done"}
      BY <2>g, <2>3 DEF Complete, MarkDone, BoardOK, Row
    <3> QED
      BY <3>1
  <2>4. ASSUME NEW u \in Id, Reopen(u) PROVE FALSE
    <3>1. board'[t].status \in {board[t].status, "pending"}
      BY <2>g, <2>4 DEF Reopen, BoardOK, Row
    <3> QED
      BY <3>1
  <2>5. ASSUME NEW D, board' = Remove(board, D) PROVE FALSE
    <3>1. board'[t].status = board[t].status
      BY <2>g, <2>5 DEF Remove, BoardOK, Row
    <3> QED
      BY <3>1
  <2> QED
    BY <2>1, <2>2, <2>3, <2>4, <2>5 DEF Next, Delete, Clear
<1> QED
  BY <1>1, Invariance, PTL DEF Spec, CancelClosesBranch
-----------------------------------------------------------------------------
(* What holds along every path up the hierarchy.                           *)

\* The ancestors of a task.
Up(b, t) == Reach(ParentEdge(b), ParentEdge(b)[t])

\* No task depends directly on an ancestor, and no task is too deep.
Clean(b)   == \A t \in DOMAIN b : b[t].deps \cap Up(b, t) = {}
\* No task is too deep.
Shallow(b) == \A t \in DOMAIN b : Cardinality(Up(b, t)) < DepthMax

\* The ancestors of a task are the chain that starts at its parent: a finite set of ids.
LEMMA UpChain ==
    ASSUME NEW b, BoardOK(b), NEW t \in DOMAIN b
    PROVE  /\ AncestorChain(b, b[t].parent) = Up(b, t)
           /\ Up(b, t) \in SUBSET Id
           /\ IsFiniteSet(Up(b, t)) /\ Cardinality(Up(b, t)) \in Nat
<1>1. ParentEdge(b) \in [Id -> SUBSET Id] /\ t \in Id
  BY EdgesType DEF BoardOK
<1>2. ParentEdge(b)[t] = {b[t].parent} \ {NoTask} /\ ParentEdge(b)[t] \in SUBSET Id
  BY <1>1 DEF ParentEdge
<1>3. AncestorChain(b, b[t].parent) = Up(b, t)
  BY <1>2 DEF AncestorChain, Up
<1>4. Up(b, t) \in SUBSET Id
  BY <1>1, <1>2, ReachGrows DEF Up
<1>5. IsFiniteSet(Id)
  BY BoundsAssumption, FS_Interval DEF Id
<1> QED
  BY <1>3, <1>4, <1>5, FS_Subset, FS_CardinalityType

\* Every id is in a finite set.
LEMMA IdFinite == IsFiniteSet(Id) /\ Cardinality(Id) = MaxId
  BY BoundsAssumption, FS_Interval DEF Id

\* Rows that move only up their own chain, or stay, keep both bounds.
LEMMA HigherKeeps ==
    ASSUME NEW b, NEW c, BoardOK(b), BoardOK(c), DOMAIN c \subseteq DOMAIN b,
           \A x \in DOMAIN c : c[x].deps \subseteq b[x].deps,
           \A x \in DOMAIN c : ParentEdge(c)[x] \subseteq Up(b, x)
    PROVE  /\ Clean(b) => Clean(c)
           /\ Shallow(b) => Shallow(c)
<1> DEFINE P == ParentEdge(b)
           Q == ParentEdge(c)
<1>1. P \in [Id -> SUBSET Id] /\ Q \in [Id -> SUBSET Id]
  BY EdgesType
<1>2. ASSUME NEW x \in Id PROVE Q[x] \subseteq Up(b, x)
  BY <1>2 DEF ParentEdge
<1>3. ASSUME NEW x \in DOMAIN c PROVE Up(c, x) \subseteq Up(b, x)
  <2>1. x \in Id /\ P[x] \in SUBSET Id
    BY <1>1 DEF BoardOK
  <2>2. Up(b, x) \in SUBSET Id /\ \A n \in Up(b, x) : P[n] \subseteq Up(b, x)
    <3> HIDE DEF P
    <3>1. Up(b, x) = Reach(P, P[x])
      BY DEF P, Up
    <3> QED
      BY <1>1, <2>1, <3>1, ReachGrows
  <2>3. ASSUME NEW n \in Up(b, x) PROVE Q[n] \subseteq Up(b, x)
    <3>1. n \in Id /\ P[n] \subseteq Up(b, x)
      BY <2>2
    <3>2. Up(b, n) \subseteq Up(b, x)
      <4>1. Up(b, n) = Reach(P, P[n]) /\ Up(b, x) = Reach(P, P[x])
        BY DEF Up
      <4> HIDE DEF P
      <4> QED
        BY <1>1, <2>1, <3>1, <4>1, ReachTransitive
    <3> QED
      BY <1>2, <3>1, <3>2
  <2>4. Up(c, x) = Reach(Q, Q[x])
    BY DEF Up
  <2> HIDE DEF P, Q
  <2>5. ClosedUnder(Q, Up(b, x))
    BY <2>3 DEF ClosedUnder
  <2> QED
    BY <1>1, <1>2, <2>1, <2>2, <2>4, <2>5, ReachLeast
<1>4. Clean(b) => Clean(c)
  BY <1>3 DEF Clean
<1>5. ASSUME Shallow(b), NEW x \in DOMAIN c PROVE Cardinality(Up(c, x)) < DepthMax
  <2>1. /\ IsFiniteSet(Up(b, x)) /\ Cardinality(Up(b, x)) \in Nat
        /\ Cardinality(Up(c, x)) \in Nat
    BY UpChain
  <2>2. Cardinality(Up(c, x)) <= Cardinality(Up(b, x))
    BY <1>3, <2>1, FS_Subset
  <2>3. Cardinality(Up(b, x)) < DepthMax
    BY <1>5 DEF Shallow
  <2> QED
    BY <2>1, <2>2, <2>3, BoundsAssumption
<1> QED
  BY <1>4, <1>5 DEF Shallow

\* A task's parent is among its ancestors, with all of the parent's.
LEMMA UpParent ==
    ASSUME NEW b, Good(b), NEW t \in DOMAIN b
    PROVE  /\ ParentEdge(b)[t] \subseteq Up(b, t)
           /\ t \notin Up(b, t)
           /\ \A n \in Up(b, t) : ParentEdge(b)[n] \subseteq Up(b, t)
           /\ Up(b, t) \subseteq DOMAIN b
<1>1. ParentEdge(b) \in [Id -> SUBSET Id] /\ t \in Id /\ Acyclic(ParentEdge(b))
  BY EdgesType DEF Good, BoardOK
<1>2. ParentEdge(b)[t] \in SUBSET (DOMAIN b)
  BY <1>1 DEF ParentEdge, Good, LiveRefs
<1>3. ParentEdge(b)[t] \in SUBSET Id
  BY <1>1
<1> QED
  BY <1>1, <1>2, <1>3, ReachGrows, AcyclicNoReturn, LiveClosed DEF Up, Good

\* create(): the new task hangs below a parent that leaves room for it, and
\* none of its dependencies leads to an ancestor.
LEMMA InsertClean ==
    ASSUME NEW b, Good(b), NEW t \in Id \ DOMAIN b, NEW r \in Row,
           NEW p, NEW deps, MayCreate(b, p, deps), deps \subseteq DOMAIN b,
           r.parent = p, r.deps = deps,
           Good(Insert(b, t, r))
    PROVE  /\ Clean(b) => Clean(Insert(b, t, r))
           /\ Shallow(b) => Shallow(Insert(b, t, r))
<1> DEFINE c == Insert(b, t, r)
           P == ParentEdge(b)
           Q == ParentEdge(c)
<1>1. /\ DOMAIN c = DOMAIN b \cup {t} /\ c[t] = r
      /\ \A x \in DOMAIN b : c[x] = b[x]
  BY DEF Insert
<1>g. BoardOK(b) /\ BoardOK(c) /\ DOMAIN b \subseteq Id
  BY DEF Good, BoardOK
<1>e. P \in [Id -> SUBSET Id] /\ Q \in [Id -> SUBSET Id]
  BY <1>g, EdgesType
<1>p. \A x \in Id \ {t} : Q[x] = P[x]
  BY <1>1 DEF ParentEdge
<1>q. Q[t] = {p} \ {NoTask} /\ Q[t] \subseteq DOMAIN b
  BY <1>1, <1>e DEF ParentEdge, MayCreate, Open
<1> HIDE DEF c
<1>2. ASSUME NEW S \in SUBSET (DOMAIN b) PROVE Reach(Q, S) \subseteq Reach(P, S)
  <2>1. Reach(P, S) \subseteq DOMAIN b /\ S \in SUBSET Id
    BY <1>g, LiveClosed DEF Good
  <2> HIDE DEF P, Q
  <2>2. ClosedUnder(Q, Reach(P, S)) /\ S \subseteq Reach(P, S) /\ Reach(P, S) \in SUBSET Id
    BY <1>e, <1>p, <2>1, ReachGrows DEF ClosedUnder
  <2> QED
    BY <1>e, <2>2, ReachLeast
<1>3. ASSUME NEW x \in DOMAIN b PROVE Up(c, x) \subseteq Up(b, x)
  <2>1. P[x] \in SUBSET (DOMAIN b) /\ Q[x] = P[x]
    <3>1. x \in Id \ {t}
      BY <1>g
    <3>2. P[x] = {b[x].parent} \ {NoTask}
      BY <3>1 DEF ParentEdge
    <3> QED
      BY <1>p, <3>1, <3>2 DEF Good, LiveRefs
  <2> QED
    BY <1>2, <2>1 DEF Up
<1>4. Up(c, t) \subseteq AncestorChain(b, p)
  BY <1>2, <1>q DEF Up, AncestorChain
<1>5. deps \cap Up(c, t) = {}
  <2>1. CASE p = NoTask
    <3>1. Q[t] = {} /\ ClosedUnder(Q, {})
      BY <1>q, <2>1 DEF ClosedUnder
    <3>2. Up(c, t) = {}
      BY <1>e, <3>1, ReachLeast DEF Up
    <3> QED BY <3>2
  <2>2. CASE p # NoTask
    <3>1. deps \subseteq Reach(DepEdges(b), deps)
      BY <1>g, EdgesType, ReachGrows
    <3>2. deps # {} => Reach(DepEdges(b), deps) \cap AncestorChain(b, p) = {}
      BY <2>2 DEF MayCreate, NoAncestorDependency
    <3> QED
      BY <1>4, <3>1, <3>2
  <2> QED BY <2>1, <2>2
<1>6. Clean(b) => Clean(c)
  BY <1>1, <1>3, <1>5 DEF Clean
<1>7. Cardinality(Up(c, t)) < DepthMax
  <2>1. CASE p = NoTask
    <3>1. Q[t] = {} /\ ClosedUnder(Q, {})
      BY <1>q, <2>1 DEF ClosedUnder
    <3>2. Up(c, t) = {}
      BY <1>e, <3>1, ReachLeast DEF Up
    <3> QED BY <3>2, FS_EmptySet, BoundsAssumption
  <2>2. CASE p # NoTask
    <3>1. p \in DOMAIN b /\ p \in Id /\ ParentDepth(b, p) + 1 < DepthMax
      BY <1>g, <2>2 DEF MayCreate, Open
    <3>2. /\ ParentDepth(b, p) = Cardinality(Up(b, p)) /\ IsFiniteSet(Up(b, p))
          /\ ParentDepth(b, p) \in Nat
      BY <1>g, <3>1, UpChain DEF ParentDepth
    <3>3. AncestorChain(b, p) = {p} \cup Up(b, p)
      <4>1. {p} \ {NoTask} = {p}
        BY <2>2
      <4> HIDE DEF P
      <4>2. Reach(P, {p}) = {p} \cup Reach(P, P[p])
        BY <1>e, <3>1, ReachStep
      <4> QED
        BY <4>1, <4>2 DEF P, Up, AncestorChain
    <3>4. /\ IsFiniteSet({p} \cup Up(b, p))
          /\ Cardinality({p} \cup Up(b, p)) <= ParentDepth(b, p) + 1
      BY <3>2, FS_AddElement
    <3>5. Cardinality(Up(c, t)) <= Cardinality({p} \cup Up(b, p))
      BY <1>4, <3>3, <3>4, FS_Subset
    <3>6. Cardinality(Up(c, t)) \in Nat /\ Cardinality({p} \cup Up(b, p)) \in Nat
      BY <1>1, <1>g, <3>4, UpChain, FS_CardinalityType
    <3> QED
      BY <3>1, <3>2, <3>4, <3>5, <3>6, BoundsAssumption
  <2> QED BY <2>1, <2>2
<1>8. ASSUME Shallow(b), NEW x \in DOMAIN b PROVE Cardinality(Up(c, x)) < DepthMax
  <2>1. /\ IsFiniteSet(Up(b, x)) /\ Cardinality(Up(b, x)) \in Nat
        /\ Cardinality(Up(c, x)) \in Nat
    BY <1>1, <1>g, UpChain
  <2>2. Cardinality(Up(c, x)) <= Cardinality(Up(b, x))
    BY <1>3, <2>1, FS_Subset
  <2>3. Cardinality(Up(b, x)) < DepthMax
    BY <1>8 DEF Shallow
  <2> QED
    BY <2>1, <2>2, <2>3, BoundsAssumption
<1>9. Shallow(b) => Shallow(c)
  BY <1>1, <1>7, <1>8 DEF Shallow
<1> QED
  BY <1>6, <1>9 DEF c

\* What lies above a task, seen from above, lies below it.
LEMMA BelowAbove ==
    ASSUME NEW b, BoardOK(b), NEW t \in Id, NEW x \in Id, t \in Reach(ParentEdge(b), {x})
    PROVE  x \in SubtreeIds(b, t)
<1> DEFINE P == ParentEdge(b)
           C == ChildEdges(b)
           X == {n \in Id : x \in Reach(C, {n})}
<1>e. P \in [Id -> SUBSET Id] /\ C \in [Id -> SUBSET Id]
  BY EdgesType
<1>1. ASSUME NEW n \in X, NEW m \in P[n] PROVE m \in X
  <2>1. n \in Id /\ m \in Id /\ x \in Reach(C, {n})
    BY <1>e
  <2>2. n \in DOMAIN b /\ b[n].parent = m
    BY <2>1 DEF ParentEdge
  <2>3. n \in C[m]
    BY <2>1, <2>2 DEF ChildEdges, Children
  <2> HIDE DEF P, C
  <2>4. Reach(C, {m}) = {m} \cup Reach(C, C[m])
    BY <1>e, <2>1, ReachStep
  <2>5. C[m] \in SUBSET Id /\ C[m] \subseteq Reach(C, C[m])
    BY <1>e, <2>1, ReachGrows
  <2>6. {n} \in SUBSET Reach(C, C[m])
    BY <2>3, <2>5
  <2>7. Reach(C, {n}) \subseteq Reach(C, C[m])
    BY <1>e, <2>5, <2>6, ReachTransitive
  <2> QED
    BY <2>1, <2>4, <2>7
<1>2. ClosedUnder(P, X)
  BY <1>1 DEF ClosedUnder
<1>3. x \in X
  BY <1>e, ReachGrows
<1>4. Reach(P, {x}) \subseteq X
  <2> HIDE DEF P, C
  <2>1. {x} \subseteq X /\ X \in SUBSET Id
    BY <1>3
  <2> HIDE DEF X
  <2> QED
    BY <1>e, <1>2, <2>1, ReachLeast
<1> QED
  BY <1>4 DEF SubtreeIds

\* Of two tasks above a third, one is above the other: a row has one parent.
LEMMA OneWayUp ==
    ASSUME NEW b, BoardOK(b), NEW x \in Id,
           NEW t \in Reach(ParentEdge(b), {x}), NEW n \in Reach(ParentEdge(b), {x}),
           n \notin Reach(ParentEdge(b), ParentEdge(b)[t])
    PROVE  t \in Reach(ParentEdge(b), {n})
<1> DEFINE Q == ParentEdge(b)
           anc == Reach(Q, Q[t])
           X == {m \in Id : t \in Reach(Q, {m}) \/ m \in anc}
<1>e. Q \in [Id -> SUBSET Id] /\ t \in Id
  <2>1. Q \in [Id -> SUBSET Id] /\ {x} \in SUBSET Id
    BY EdgesType
  <2> QED
    BY <2>1, ReachGrows
<1>1. Q[t] \subseteq anc /\ anc \in SUBSET Id /\ \A m \in anc : Q[m] \subseteq anc
  <2> HIDE DEF Q
  <2>1. Q[t] \in SUBSET Id
    BY <1>e
  <2> QED
    BY <1>e, <2>1, ReachGrows
<1>2. ASSUME NEW m \in X, NEW k \in Q[m] PROVE k \in X
  <2>1. k \in Id /\ m \in Id
    BY <1>e
  <2>2. Q[m] = {k}
    BY <2>1 DEF ParentEdge
  <2>3. CASE m \in anc
    BY <1>1, <2>1, <2>3
  <2>4. CASE m = t
    BY <1>1, <2>1, <2>4
  <2>5. CASE m # t /\ t \in Reach(Q, {m})
    <3> HIDE DEF Q, anc
    <3>1. Reach(Q, {m}) = {m} \cup Reach(Q, Q[m])
      BY <1>e, <2>1, ReachStep
    <3>2. t \in Reach(Q, {k})
      BY <2>2, <2>5, <3>1
    <3> QED
      BY <2>1, <3>2
  <2> QED
    BY <2>3, <2>4, <2>5
<1>3. x \in X /\ X \in SUBSET Id
  OBVIOUS
<1>4. Reach(Q, {x}) \subseteq X
  <2>1. {x} \subseteq X /\ ClosedUnder(Q, X)
    BY <1>2, <1>3 DEF ClosedUnder
  <2> HIDE DEF Q, X
  <2> QED
    BY <1>e, <1>3, <2>1, ReachLeast
<1> QED
  BY <1>4

\* The height of a subtree is no less than the way up from any task in it.
LEMMA HeightBounds ==
    ASSUME NEW b, BoardOK(b), NEW t \in DOMAIN b
    PROVE  /\ SubtreeHeight(b, t) \in Nat
           /\ \A x \in SubtreeIds(b, t) :
                 Cardinality(AncestorChain(b, x) \cap SubtreeIds(b, t)) - 1
                     <= SubtreeHeight(b, t)
<1> DEFINE tree == SubtreeIds(b, t)
           way(x) == Cardinality(AncestorChain(b, x) \cap tree)
           below(x) == way(x) - 1
           S == {MaxId - way(x) : x \in tree}
<1>1. /\ tree \in SUBSET Id /\ t \in tree
      /\ ParentEdge(b) \in [Id -> SUBSET Id]
  <2>1. ChildEdges(b) \in [Id -> SUBSET Id] /\ {t} \in SUBSET Id
    BY EdgesType DEF BoardOK
  <2> QED
    BY <2>1, EdgesType, ReachGrows DEF SubtreeIds
<1>2. ASSUME NEW x \in tree PROVE way(x) \in 1 .. MaxId
  <2>1. x \in Id /\ x # NoTask
    BY <1>1, NoTaskIsNoId
  <2>2. {x} \ {NoTask} = {x}
    BY <2>1
  <2>3. x \in AncestorChain(b, x)
    <3>1. {x} \in SUBSET Id
      BY <2>1
    <3> QED
      BY <1>1, <2>2, <3>1, ReachGrows DEF AncestorChain
  <2> DEFINE Z == AncestorChain(b, x) \cap tree
  <2>4. Z \in SUBSET Id /\ Z # {}
    BY <1>1, <2>3
  <2> HIDE DEF Z
  <2>5. IsFiniteSet(Z) /\ Cardinality(Z) <= MaxId /\ Cardinality(Z) \in Nat
    BY <2>4, IdFinite, FS_Subset, FS_CardinalityType
  <2>6. Cardinality(Z) # 0
    BY <2>4, <2>5, FS_EmptySet
  <2>7. Cardinality(Z) \in 1 .. MaxId
    BY <2>5, <2>6, BoundsAssumption
  <2> QED
    BY <2>7 DEF Z
<1> HIDE DEF way
<1>3. \E h \in 0 .. MaxId : /\ \E x \in tree : below(x) = h
                            /\ \A x \in tree : below(x) <= h
  <2>1. ASSUME NEW x \in tree PROVE MaxId - way(x) \in Nat /\ way(x) \in Int
    BY <1>2, BoundsAssumption
  <2>2. S \in SUBSET Nat /\ S # {}
    BY <1>1, <2>1
  <2>3. PICK m \in S : \A k \in S : m <= k
    <3> HIDE DEF S
    <3> QED
      BY <2>2, LeastNatural
  <2>4. PICK x \in tree : m = MaxId - way(x)
    BY <2>3
  <2>5. way(x) \in 1 .. MaxId
    BY <1>2, <2>4
  <2>6. below(x) \in 0 .. MaxId
    BY <2>5, BoundsAssumption
  <2>7. ASSUME NEW y \in tree PROVE below(y) <= below(x)
    <3>1. m <= MaxId - way(y)
      BY <2>3
    <3>2. way(y) \in Int /\ way(x) \in Int /\ MaxId \in Int
      BY <1>2, <2>5, BoundsAssumption
    <3> QED
      BY <2>4, <3>1, <3>2
  <2> QED
    BY <2>4, <2>6, <2>7
<1>4. SubtreeHeight(b, t) = CHOOSE h \in 0 .. MaxId :
            /\ \E x \in tree : below(x) = h
            /\ \A x \in tree : below(x) <= h
  BY DEF SubtreeHeight, way
<1>5. /\ SubtreeHeight(b, t) \in 0 .. MaxId
      /\ \A x \in tree : below(x) <= SubtreeHeight(b, t)
  <2> HIDE DEF below, tree
  <2> QED
    BY <1>3, <1>4
<1>6. SubtreeHeight(b, t) \in Nat
  BY <1>5, BoundsAssumption
<1> QED
  BY <1>5, <1>6 DEF way

\* update(): the checks look at the whole moved subtree, its depth below the
\* new parent and its dependencies.
LEMMA PatchClean ==
    ASSUME NEW b, Good(b), NEW t \in DOMAIN b, NEW r \in Row, NEW moved \in BOOLEAN,
           NEW c, Good(c), DOMAIN c = DOMAIN b, c[t] = r,
           \A x \in DOMAIN b \ {t} : c[x] = b[x],
           CheckGraphUpdate(c, t, moved), ~moved => r.parent = b[t].parent
    PROVE  /\ Clean(b) => Clean(c)
           /\ Shallow(b) => Shallow(c)
<1> DEFINE P == ParentEdge(b)
           Q == ParentEdge(c)
           anc == AncestorChain(c, c[t].parent)
<1>g. BoardOK(b) /\ BoardOK(c) /\ DOMAIN b \subseteq Id /\ t \in Id
  BY DEF Good, BoardOK
<1>1. /\ DOMAIN c = DOMAIN b /\ c[t] = r
      /\ \A x \in DOMAIN b \ {t} : c[x] = b[x]
  OBVIOUS
<1>e. P \in [Id -> SUBSET Id] /\ Q \in [Id -> SUBSET Id]
  BY <1>g, EdgesType
<1>p. \A x \in Id \ {t} : Q[x] = P[x]
  BY <1>1 DEF ParentEdge
<1>2. anc = Up(c, t) /\ anc \in SUBSET Id /\ IsFiniteSet(anc) /\ Cardinality(anc) \in Nat
  BY <1>1, <1>g, UpChain
<1>u. /\ Q[t] \subseteq anc /\ \A n \in anc : Q[n] \subseteq anc
  BY <1>1, <1>2, UpParent
<1>3. CASE ~moved
  <2>1. Q = P
    BY <1>1, <1>3 DEF ParentEdge
  <2>2. \A x \in DOMAIN c : Up(c, x) = Up(b, x)
    BY <2>1 DEF Up
  <2>3. c[t].deps \cap Up(c, t) = {}
    <3>1. c[t].deps \subseteq Reach(DepEdges(c), c[t].deps)
      BY <1>1, <1>g, EdgesType, ReachGrows DEF Row
    <3> QED
      BY <1>2, <3>1 DEF CheckGraphUpdate, NoAncestorDependency
  <2> QED
    BY <1>1, <2>2, <2>3 DEF Clean, Shallow
<1>4. CASE moved
  <2>1. /\ NoAncestorDependency(c, anc, c[t].deps)
        /\ \A m \in SubtreeIds(c, t) \ {t} : NoAncestorDependency(c, anc, c[m].deps)
        /\ c[t].parent # NoTask => Cardinality(anc) + SubtreeHeight(c, t) < DepthMax
    BY <1>4 DEF CheckGraphUpdate, SubtreeAvoids
  <2>2. \A x \in DOMAIN c : c[x].deps \subseteq Reach(DepEdges(c), c[x].deps)
    <3>1. \A x \in DOMAIN c : c[x].deps \in SUBSET Id
      BY <1>g DEF BoardOK, Row
    <3> QED
      BY <1>g, <3>1, EdgesType, ReachGrows
  <2>3. c[t].deps \cap Up(c, t) = {}
    BY <1>1, <1>2, <2>1, <2>2 DEF NoAncestorDependency
  \* A task that is not below t keeps its ancestors.
  <2>4. ASSUME NEW x \in DOMAIN c PROVE Up(c, x) \subseteq Up(b, x) \cup anc
    <3>1. P[x] \in SUBSET Id /\ Up(b, x) \in SUBSET Id
      BY <1>1, <1>g, <1>e, UpChain
    <3>2. P[x] \subseteq Up(b, x) /\ \A n \in Up(b, x) : P[n] \subseteq Up(b, x)
      BY <1>1, UpParent
    <3>3. \A n \in Up(b, x) \cup anc : Q[n] \subseteq Up(b, x) \cup anc
      <4> SUFFICES ASSUME NEW n \in Up(b, x) \cup anc PROVE Q[n] \subseteq Up(b, x) \cup anc
        OBVIOUS
      <4>1. CASE n = t
        BY <1>u, <4>1
      <4>2. CASE n # t
        BY <1>u, <1>p, <1>2, <3>1, <3>2, <4>2
      <4> QED BY <4>1, <4>2
    <3>4. Q[x] \subseteq Up(b, x) \cup anc
      <4>1. CASE x = t
        BY <1>u, <4>1
      <4>2. CASE x # t
        BY <1>1, <1>g, <1>p, <3>2, <4>2
      <4> QED BY <4>1, <4>2
    <3>5. Up(c, x) = Reach(Q, Q[x])
      BY DEF Up
    <3> DEFINE X == Up(b, x) \cup anc
    <3>6. X \in SUBSET Id /\ Q[x] \subseteq X /\ ClosedUnder(Q, X)
      BY <1>2, <3>1, <3>3, <3>4 DEF ClosedUnder
    <3>7. Up(c, x) \subseteq X
      <4> HIDE DEF Q, X
      <4> QED
        BY <1>e, <3>5, <3>6, ReachLeast
    <3> QED
      BY <3>7
  <2>5. ASSUME NEW x \in DOMAIN c, x # t, t \notin Up(c, x) PROVE Up(c, x) \subseteq Up(b, x)
    <3>1. P[x] \in SUBSET Id /\ Up(b, x) \in SUBSET Id /\ Up(c, x) \in SUBSET Id
      BY <1>1, <1>g, <1>e, UpChain
    <3>2. P[x] \subseteq Up(b, x) /\ \A n \in Up(b, x) : P[n] \subseteq Up(b, x)
      BY <1>1, UpParent
    <3>3. /\ Q[x] \subseteq Up(c, x) /\ \A n \in Up(c, x) : Q[n] \subseteq Up(c, x)
      BY <1>1, UpParent
    <3> DEFINE I == Up(b, x) \cap Up(c, x)
    <3>4. Q[x] \subseteq I
      BY <1>1, <1>g, <1>p, <2>5, <3>2, <3>3
    <3>5. \A n \in I : Q[n] \subseteq I
      BY <1>p, <2>5, <3>1, <3>2, <3>3
    <3>6. Up(c, x) = Reach(Q, Q[x]) /\ I \in SUBSET Id
      BY <3>1 DEF Up
    <3>7. Up(c, x) \subseteq I
      <4> HIDE DEF Q, P, anc, I
      <4> QED
        BY <1>e, <3>4, <3>5, <3>6, ReachLeast DEF ClosedUnder
    <3> QED BY <3>7
  <2>6. ASSUME NEW x \in DOMAIN c, t \in Up(c, x)
        PROVE  /\ x \in SubtreeIds(c, t) \ {t}
               /\ Reach(Q, {x}) = {x} \cup Up(c, x)
    <3>1. x \in Id
      BY <1>1, <1>g
    <3>2. Reach(Q, {x}) = {x} \cup Up(c, x)
      <4> HIDE DEF Q
      <4>1. Reach(Q, {x}) = {x} \cup Reach(Q, Q[x])
        BY <1>e, <3>1, ReachStep
      <4> QED BY <4>1 DEF Q, Up
    <3>3. x # t
      BY <2>6, <1>1, UpParent
    <3> QED
      BY <1>g, <2>6, <3>1, <3>2, <3>3, BelowAbove
  <2>7. ASSUME Clean(b), NEW x \in DOMAIN c PROVE c[x].deps \cap Up(c, x) = {}
    <3>1. CASE x = t
      BY <2>3, <3>1
    <3>2. CASE x # t /\ t \notin Up(c, x)
      BY <1>1, <2>5, <2>7, <3>2 DEF Clean
    <3>3. CASE x # t /\ t \in Up(c, x)
      <4>1. c[x].deps \cap anc = {}
        BY <2>1, <2>2, <2>6, <3>3 DEF NoAncestorDependency
      <4>2. c[x].deps \cap Up(b, x) = {}
        BY <1>1, <2>7, <3>3 DEF Clean
      <4> QED
        BY <2>4, <4>1, <4>2
    <3> QED BY <3>1, <3>2, <3>3
  <2>8. ASSUME Shallow(b), NEW x \in DOMAIN c PROVE Cardinality(Up(c, x)) < DepthMax
    <3>u. /\ Up(c, x) \in SUBSET Id /\ IsFiniteSet(Up(c, x)) /\ Cardinality(Up(c, x)) \in Nat
          /\ Up(b, x) \in SUBSET Id /\ IsFiniteSet(Up(b, x)) /\ Cardinality(Up(b, x)) \in Nat
      BY <1>1, <1>g, UpChain
    <3>d. Cardinality(Up(b, x)) < DepthMax
      BY <1>1, <2>8 DEF Shallow
    <3>0. ASSUME Up(c, x) \subseteq Up(b, x) PROVE Cardinality(Up(c, x)) < DepthMax
      <4>1. Cardinality(Up(c, x)) <= Cardinality(Up(b, x))
        BY <3>u, <3>0, FS_Subset
      <4> QED
        BY <3>u, <3>d, <4>1, BoundsAssumption
    <3>1. CASE c[t].parent = NoTask
      <4>1. Q[t] = {}
        BY <1>g, <3>1 DEF ParentEdge
      <4>2. anc = {}
        <5>1. Up(c, t) = Reach(Q, Q[t]) /\ ClosedUnder(Q, {})
          BY DEF Up, ClosedUnder
        <5> HIDE DEF Q
        <5>2. Up(c, t) \subseteq {}
          BY <1>e, <4>1, <5>1, ReachLeast
        <5> QED BY <1>2, <5>2
      <4> QED
        BY <2>4, <3>0, <4>2
    <3>2. CASE c[t].parent # NoTask
      <4>1. /\ Cardinality(anc) + SubtreeHeight(c, t) < DepthMax
            /\ SubtreeHeight(c, t) \in Nat
        BY <2>1, <3>2, <1>1, <1>g, HeightBounds
      <4>2. CASE x = t
        BY <1>2, <4>1, <4>2, BoundsAssumption
      <4>3. CASE x # t /\ t \notin Up(c, x)
        BY <2>5, <3>0, <4>3
      <4>4. CASE x # t /\ t \in Up(c, x)
        <5> DEFINE tree == SubtreeIds(c, t)
                   way == AncestorChain(c, x) \cap tree
        <5>1. x \in tree /\ AncestorChain(c, x) = {x} \cup Up(c, x) /\ x \notin Up(c, x)
          <6>1. x # NoTask
            BY <1>1, <1>g, NoTaskIsNoId
          <6>2. {x} \ {NoTask} = {x}
            BY <6>1
          <6> QED
            BY <2>6, <4>4, <6>2, <1>1, UpParent DEF AncestorChain
        <5>2. Cardinality(way) - 1 <= SubtreeHeight(c, t)
          BY <1>1, <1>g, <5>1, HeightBounds
        <5>3. Up(c, x) \subseteq (way \ {x}) \cup anc
          <6> SUFFICES ASSUME NEW n \in Up(c, x), n \notin anc PROVE n \in way \ {x}
            OBVIOUS
          <6>1. n \in Up(b, x) /\ n \in Id /\ n # x
            BY <2>4, <3>u, <5>1
          <6>2. t \in Reach(Q, {n})
            <7>1. n \in Reach(Q, {x}) /\ t \in Reach(Q, {x}) /\ x \in Id
              BY <2>6, <4>4, <1>1, <1>g
            <7>2. n \notin Reach(Q, Q[t])
              BY <1>2 DEF Up
            <7> HIDE DEF Q
            <7> QED
              BY <1>g, <7>1, <7>2, OneWayUp DEF Q
          <6>3. n \in tree
            BY <1>g, <6>1, <6>2, BelowAbove
          <6> QED
            BY <5>1, <6>1, <6>3
        <5>4. x \in way /\ way \in SUBSET Id
          BY <5>1, <1>g, <1>1, <3>u
        <5> HIDE DEF way
        <5>5. /\ IsFiniteSet(way) /\ Cardinality(way) \in Nat /\ IsFiniteSet(way \ {x})
              /\ Cardinality(way \ {x}) = Cardinality(way) - 1
          BY <5>4, IdFinite, FS_Subset, FS_CardinalityType, FS_RemoveElement
        <5> DEFINE W == way \ {x}
        <5> HIDE DEF W
        <5>w. IsFiniteSet(W) /\ Cardinality(W) = Cardinality(way) - 1 /\ Up(c, x) \subseteq W \cup anc
          BY <5>3, <5>5 DEF W
        <5>6. /\ IsFiniteSet(W \cup anc) /\ Cardinality(W \cap anc) \in Nat
              /\ Cardinality(W \cup anc)
                    = Cardinality(W) + Cardinality(anc) - Cardinality(W \cap anc)
          <6>1. IsFiniteSet(W \cap anc)
            BY <5>w, FS_Intersection
          <6> HIDE DEF anc
          <6> QED
            BY <1>2, <5>w, <6>1, FS_Union, FS_CardinalityType
        <5>7. Cardinality(Up(c, x)) <= Cardinality(W \cup anc)
          BY <5>w, <5>6, FS_Subset
        <5>8. Cardinality(way) - 1 <= SubtreeHeight(c, t)
          BY <5>2 DEF way
        <5> HIDE DEF anc
        <5> QED
          BY <1>2, <3>u, <4>1, <5>5, <5>w, <5>6, <5>7, <5>8, BoundsAssumption
      <4> QED BY <4>2, <4>3, <4>4
    <3> QED BY <3>1, <3>2
  <2> QED
    BY <2>7, <2>8 DEF Clean, Shallow
<1> QED
  BY <1>3, <1>4

\* cascade_cancel(): what leaves the branch moves to an ancestor it had.
LEMMA CascadeClean ==
    ASSUME NEW b, Good(b), NEW t \in DOMAIN b, b[t].status = "cancelled"
    PROVE  /\ Clean(b) => Clean(CascadeCancel(b, t))
           /\ Shallow(b) => Shallow(CascadeCancel(b, t))
<1> DEFINE c == CascadeCancel(b, t)
           P == ParentEdge(b)
<1>g. BoardOK(b) /\ BoardOK(c)
  BY CascadeKeeps DEF Good
<1>e. P \in [Id -> SUBSET Id] /\ t \in Id
  BY <1>g, EdgesType DEF BoardOK
<1>1. /\ DOMAIN c = DOMAIN b
      /\ \A x \in DOMAIN b :
            /\ c[x].deps = b[x].deps
            /\ \/ c[x].parent = b[x].parent
               \/ c[x].parent = b[t].parent /\ b[x].parent \in Walked(b, t)
  BY <1>g DEF CascadeCancel, Walked, BoardOK, Row
<1>2. ASSUME NEW x \in DOMAIN b PROVE ParentEdge(c)[x] \subseteq Up(b, x)
  <2>1. x \in Id /\ ParentEdge(c)[x] = {c[x].parent} \ {NoTask} /\ P[x] = {b[x].parent} \ {NoTask}
    BY <1>1, <1>g DEF BoardOK, ParentEdge
  <2>2. /\ P[x] \subseteq Up(b, x) /\ \A n \in Up(b, x) : P[n] \subseteq Up(b, x)
        /\ Up(b, x) \in SUBSET Id
    BY <1>g, UpParent, UpChain
  <2>3. CASE c[x].parent = b[x].parent
    BY <2>1, <2>2, <2>3
  <2>4. CASE c[x].parent = b[t].parent /\ b[x].parent \in Walked(b, t)
    <3>1. t \in Reach(P, {b[x].parent}) /\ b[x].parent \in Id
      BY <1>g, <2>4, WalkedBelow
    <3>2. b[x].parent \in Up(b, x) /\ b[x].parent # NoTask
      BY <2>1, <2>2, <3>1, NoTaskIsNoId
    <3>3. t \in Up(b, x)
      <4> HIDE DEF P
      <4>1. ClosedUnder(P, Up(b, x)) /\ {b[x].parent} \subseteq Up(b, x)
        BY <2>2, <3>2 DEF ClosedUnder
      <4> QED
        BY <1>e, <2>2, <3>1, <4>1, ReachLeast
    <3>4. P[t] \subseteq Up(b, x) /\ P[t] = {b[t].parent} \ {NoTask}
      BY <2>2, <3>3, <1>e DEF ParentEdge
    <3> QED
      BY <2>1, <2>4, <3>4
  <2> QED
    BY <1>1, <2>3, <2>4
<1> HIDE DEF c
<1> QED
  BY <1>g, <1>1, <1>2, HigherKeeps DEF c

\* Both bounds, along every path of every board.
Bounded == Clean(board) /\ Shallow(board)

\* The empty board.
LEMMA InitBounded == Init => Bounded
<1> SUFFICES ASSUME Init PROVE DOMAIN board = {}
  BY DEF Bounded, Clean, Shallow
<1> QED
  BY DEF Init

\* A call that leaves the parent and the dependencies of every row it keeps,
\* or drops some of them.
LEMMA StillBounded ==
    ASSUME NEW b, Good(b), NEW c, Good(c), Clean(b), Shallow(b),
           DOMAIN c \subseteq DOMAIN b,
           \A x \in DOMAIN c : c[x].deps \subseteq b[x].deps /\ c[x].parent = b[x].parent
    PROVE  Clean(c) /\ Shallow(c)
<1>1. BoardOK(b) /\ BoardOK(c)
  BY DEF Good
<1>2. ASSUME NEW x \in DOMAIN c PROVE ParentEdge(c)[x] \subseteq Up(b, x)
  <2>1. x \in Id /\ ParentEdge(c)[x] = ParentEdge(b)[x] /\ x \in DOMAIN b
    BY <1>1, <1>2 DEF ParentEdge, BoardOK
  <2> QED
    BY <2>1, UpParent
<1> QED
  BY <1>1, <1>2, HigherKeeps

\* Every operation keeps both, one step per action.
LEMMA NextBounded == IInv /\ Bounded /\ [Next]_vars => Bounded'
<1> SUFFICES ASSUME IInv, Bounded, [Next]_vars PROVE Clean(board') /\ Shallow(board')
  BY DEF Bounded, Clean, Shallow, Up, ParentEdge
<1>g. Good(board) /\ BoardOK(board) /\ Clean(board) /\ Shallow(board)
  BY IInvGood DEF Good, Bounded
<1>n. Good(board')
  <2>1. IInv'
    BY NextIInv
  <2> QED
    BY <2>1, BoundsAssumption
    DEF IInv, Good, TypeOK, BoardOK, ReferencesLive, LiveRefs, DepsAcyclic,
        HierarchyAcyclic, StampMatchesStatus, Stamps, Id
<1>k. ASSUME DOMAIN board' \subseteq DOMAIN board,
             \A x \in DOMAIN board' : /\ board'[x].deps \subseteq board[x].deps
                                      /\ board'[x].parent = board[x].parent
      PROVE  Clean(board') /\ Shallow(board')
  BY <1>g, <1>n, <1>k, StillBounded
<1>1. ASSUME NEW p \in Id \cup {NoTask}, NEW deps \in SUBSET Id, NEW a \in Check,
             Create(p, deps, a)
      PROVE  Clean(board') /\ Shallow(board')
  <2> DEFINE r == NewRow(p, deps, a)
  <2>1. nextId \in Id \ DOMAIN board
    BY <1>1, IInvGood, BoundsAssumption DEF Create, Id
  <2>2. r \in Row /\ r.parent = p /\ r.deps = deps
    BY DEF NewRow, Row, Status
  <2>3. /\ board' = Insert(board, nextId, r) /\ MayCreate(board, p, deps)
        /\ deps \subseteq DOMAIN board
    BY <1>1 DEF Create, MayCreate
  <2> HIDE DEF r
  <2>4. Good(Insert(board, nextId, r))
    BY <1>n, <2>3
  <2> QED
    BY <1>g, <2>1, <2>2, <2>3, <2>4, InsertClean
<1>2. ASSUME NEW t \in Id, NEW p \in Patch, Update(t, p) PROVE Clean(board') /\ Shallow(board')
  <2> DEFINE r == ApplyPatch(board[t], p)
             b == [board EXCEPT ![t] = r]
             moved == "parent" \in DOMAIN p
  <2>1. /\ t \in DOMAIN board
        /\ TouchesGraph(p) => CheckGraphUpdate(b, t, moved)
        /\ board' = IF r.status = "cancelled" /\ board[t].status # "cancelled"
                    THEN CascadeCancel(b, t) ELSE b
    BY <1>2 DEF Update
  <2>2. Good(b)
    BY <1>g, <2>1, PatchKeeps
  <2>3. /\ t \in DOMAIN b /\ DOMAIN b = DOMAIN board /\ b[t] = r
        /\ \A x \in DOMAIN board \ {t} : b[x] = board[x]
    BY <2>1
  <2>4. r \in Row /\ (~moved => r.parent = board[t].parent) /\ moved \in BOOLEAN
    BY <1>g, <2>1, PatchedRow DEF BoardOK, ApplyPatch
  <2>5. ~TouchesGraph(p) => r.deps = board[t].deps /\ r.parent = board[t].parent
    BY <1>g, <2>1, PatchedRow DEF BoardOK
  <2> HIDE DEF r, b, moved
  <2>6. Clean(b) /\ Shallow(b)
    <3>1. CASE TouchesGraph(p)
      BY <1>g, <2>1, <2>2, <2>3, <2>4, <3>1, PatchClean
    <3>2. CASE ~TouchesGraph(p)
      BY <1>g, <2>2, <2>3, <2>5, <3>2, StillBounded
    <3> QED BY <3>1, <3>2
  <2> QED
    BY <2>1, <2>2, <2>3, <2>6, CascadeClean
<1>3. ASSUME NEW t \in Id, Complete(t) PROVE Clean(board') /\ Shallow(board')
  BY <1>3, <1>g, <1>k DEF Complete, MarkDone, BoardOK, Row
<1>4. ASSUME NEW t \in Id, Reopen(t) PROVE Clean(board') /\ Shallow(board')
  BY <1>4, <1>g, <1>k DEF Reopen, BoardOK, Row
<1>5. ASSUME NEW D, board' = Remove(board, D) PROVE Clean(board') /\ Shallow(board')
  BY <1>5, <1>g, <1>k DEF Remove, BoardOK, Row
<1>6. CASE UNCHANGED vars
  BY <1>6, <1>k DEF vars
<1> QED
  BY <1>1, <1>2, <1>3, <1>4, <1>5, <1>6 DEF Next, Delete, Clear

\* The invariant implies both bounds.
LEMMA BoundsImplied == IInv /\ Bounded => NoDirectAncestorDependency /\ DepthBounded
<1> SUFFICES ASSUME IInv, Bounded PROVE NoDirectAncestorDependency /\ DepthBounded
  OBVIOUS
<1>1. \A t \in DOMAIN board : AncestorChain(board, board[t].parent) = Up(board, t)
  BY IInvGood, UpChain DEF Good
<1> QED
  BY <1>1 DEF Bounded, Clean, Shallow, NoDirectAncestorDependency, DepthBounded, ParentDepth

\* check_dependencies() and check_parent(): no sequence of operations, with any
\* patches, makes a task depend directly on one of its ancestors.
THEOREM AncestorsNotAwaited == Spec => []NoDirectAncestorDependency
  BY BoundsImplied, InitIInv, NextIInv, InitBounded, NextBounded, PTL DEF Spec

\* create() and update(): no sequence of operations nests a task deeper than
\* TASK_DEPTH_MAX, moved subtrees and cascades included.
THEOREM DepthHolds == Spec => []DepthBounded
  BY BoundsImplied, InitIInv, NextIInv, InitBounded, NextBounded, PTL DEF Spec

\* What auto-completes carries no contract.
LEMMA AutoCompletedBare ==
    ASSUME NEW b, BoardOK(b), NEW t \in DOMAIN b, NEW a \in AutoCompleted(b, t)
    PROVE  b[a].acceptance = NoCheck
<1>1. a \in AncestorChain(b, b[t].parent)
  BY DEF AutoCompleted
<1>2. a \in Id /\ ParentEdge(b) \in [Id -> SUBSET Id]
  BY <1>1, UpChain, EdgesType
<1>3. a # NoTask /\ {a} \ {NoTask} = {a} /\ {a} \in SUBSET Id
  BY <1>2, NoTaskIsNoId
<1>4. a \in AncestorChain(b, a)
  BY <1>2, <1>3, ReachGrows DEF AncestorChain
<1> QED
  BY <1>1, <1>4 DEF AutoCompleted, EndsWith

\* Part of a singleton.
LEMMA AtMostOne ==
    ASSUME NEW u, NEW S, S \subseteq {u}
    PROVE  Cardinality(S) <= 1
<1>1. S = {} \/ S = {u}
  OBVIOUS
<1>2. Cardinality({u}) = 1
  BY FS_Singleton
<1>3. Cardinality({}) = 0
  BY FS_EmptySet
<1> QED
  BY <1>1, <1>2, <1>3

\* auto_complete_ancestors() closes nothing that carries a contract of its
\* own: one step makes at most one task with a contract done.
THEOREM ContractsEnd == Spec => ContractsCloseByName
<1> DEFINE N == {t \in BecameDone : board[t].acceptance # NoCheck}
           A == Cardinality({t \in BecameDone : board[t].acceptance # NoCheck}) <= 1
<1>1. IInv /\ [Next]_vars => [A]_vars
  <2> SUFFICES ASSUME IInv, Next PROVE Cardinality(N) <= 1
    OBVIOUS
  <2>g. BoardOK(board)
    BY IInvGood DEF Good
  <2>e. ASSUME NEW u, N \subseteq {u} PROVE Cardinality(N) <= 1
    BY <2>e, AtMostOne
  <2>n. ASSUME \A t \in DOMAIN board \cap DOMAIN board' :
                  board'[t].status = "done" => board[t].status = "done"
        PROVE  Cardinality(N) <= 1
    <3>1. N = {}
      BY <2>n DEF BecameDone
    <3> QED BY <3>1, FS_EmptySet
  <2>1. ASSUME NEW p \in Id \cup {NoTask}, NEW deps \in SUBSET Id, NEW a \in Check,
               Create(p, deps, a)
        PROVE  Cardinality(N) <= 1
    <3>1. nextId \notin DOMAIN board
      BY BoundsAssumption DEF IInv, TypeOK
    <3>2. board' = Insert(board, nextId, NewRow(p, deps, a))
      BY <2>1 DEF Create
    <3>3. \A t \in DOMAIN board : board'[t] = board[t]
      BY <3>1, <3>2 DEF Insert
    <3>4. \A t \in DOMAIN board \cap DOMAIN board' :
             board'[t].status = "done" => board[t].status = "done"
      BY <3>3
    <3> QED
      BY <2>n, <3>4
  <2>2. ASSUME NEW u \in Id, NEW p \in Patch, Update(u, p) PROVE Cardinality(N) <= 1
    <3> DEFINE r == ApplyPatch(board[u], p)
               b == [board EXCEPT ![u] = r]
    <3>1. u \in DOMAIN board /\ (board' = b \/ board' = CascadeCancel(b, u))
      BY <2>2 DEF Update
    <3>2. (r.status = "done" => board[u].status = "done") /\ r \in Row
      BY <2>g, <3>1, PatchedRow DEF BoardOK
    <3>3. /\ DOMAIN b = DOMAIN board
          /\ \A t \in DOMAIN b : /\ b[t].status = "done" => board[t].status = "done"
                                /\ b[t] \in Row
      BY <2>g, <3>1, <3>2 DEF BoardOK
    <3> HIDE DEF b
    <3>4. \A t \in DOMAIN b : CascadeCancel(b, u)[t].status = "done" => b[t].status = "done"
      BY <3>3 DEF CascadeCancel, Row
    <3> QED
      BY <2>n, <3>1, <3>3, <3>4
  <2>3. ASSUME NEW u \in Id, Complete(u) PROVE Cardinality(N) <= 1
    <3>1. /\ u \in DOMAIN board
          /\ board' = MarkDone(board, {u} \cup AutoCompleted(board, u))
      BY <2>3 DEF Complete
    <3>2. BecameDone \subseteq {u} \cup AutoCompleted(board, u)
      BY <3>1 DEF BecameDone, MarkDone
    <3>3. N \subseteq {u}
      BY <2>g, <3>1, <3>2, AutoCompletedBare
    <3> QED BY <2>e, <3>3
  <2>4. ASSUME NEW u \in Id, Reopen(u) PROVE Cardinality(N) <= 1
    BY <2>g, <2>4, <2>n DEF Reopen, BoardOK, Row
  <2>5. ASSUME NEW D, board' = Remove(board, D) PROVE Cardinality(N) <= 1
    BY <2>g, <2>5, <2>n DEF Remove, BoardOK, Row
  <2> QED
    BY <2>1, <2>2, <2>3, <2>4, <2>5 DEF Next, Delete, Clear
<1> QED
  BY <1>1, Invariance, PTL DEF Spec, ContractsCloseByName
=============================================================================
