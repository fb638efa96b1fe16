----------------------- MODULE TaskRepositoryProofs -------------------------
(***************************************************************************)
(* The task store as its callers use it: calls that take several critical  *)
(* sections, first interleaved and then one after the other, and the walk  *)
(* along the dependencies that a create or an update makes before it       *)
(* writes.                                                                 *)
(***************************************************************************)
EXTENDS TaskRepository, TaskBoardProofs, TaskWalk
-----------------------------------------------------------------------------
(* TaskRepository: interleaved calls keep the graph sound, as long as      *)
(* every write is checked.                                                 *)

\* No caller deletes, and no patch cancels: the rows that a call writes back
\* without looking at the current ones are those of delete() and of the cascade.
ChecksEveryEdge ==
    /\ Ops \cap {"delete", "clear"} = {}
    /\ \A p \in Patch : /\ TouchesGraph(p)
                        /\ "status" \in DOMAIN p => p.status # "cancelled"

\* A row as the columns it is made of agree.
StampAgrees(r) ==
    /\ r.status = "done" => r.stamped
    /\ r.status \notin Closed => ~r.stamped

\* What a call carries from one critical section to the next.
CarriesOK(c, b) ==
    /\ c.pc \in {"idle", "insert", "update", "complete", "ancestors", "reopen"}
    /\ c.pc = "insert" =>
         /\ c.row \in Row /\ c.row.status = "pending" /\ ~c.row.stamped
         /\ c.row.parent \in DOMAIN b \cup {NoTask} /\ c.row.deps \subseteq DOMAIN b
    /\ c.pc = "update" =>
         /\ c.id \in DOMAIN b /\ c.row \in Row /\ StampAgrees(c.row)
         /\ c.patch \in Patch /\ ~c.cancels

\* The callers that are about to insert.
Inserting(k) == {o \in Actor : k[o].pc = "insert"}

\* The inductive invariant of the concurrent store.  Ids are kept back for
\* the rows that are about to be inserted.
StoreSound(b, n, k) ==
    /\ n \in Nat \ {0}
    /\ n + Cardinality(Inserting(k)) <= MaxId + 1
    /\ DOMAIN b \subseteq 1 .. n - 1
    /\ Good(b)
    /\ DOMAIN k = Actor
    /\ \A a \in Actor : CarriesOK(k[a], b)

\* The callers that are about to insert are finitely many.
LEMMA InsertingFinite ==
    ASSUME NEW k
    PROVE  IsFiniteSet(Inserting(k)) /\ Cardinality(Inserting(k)) \in Nat
<1>1. Inserting(k) \subseteq Actor
  BY DEF Inserting
<1> QED
  BY <1>1, ActorAssumption, FS_Subset, FS_CardinalityType

\* A section that only changes what its caller carries.
LEMMA CarryKeeps ==
    ASSUME NEW b, NEW n, NEW k, StoreSound(b, n, k), NEW a \in Actor, NEW c,
           CarriesOK(c, b), c.pc # "insert",
           NEW d, Good(d), DOMAIN d = DOMAIN b
    PROVE  StoreSound(d, n, [k EXCEPT ![a] = c])
<1> DEFINE q == [k EXCEPT ![a] = c]
<1>1. Inserting(q) \subseteq Inserting(k)
  BY DEF Inserting, StoreSound
<1>2. Cardinality(Inserting(q)) <= Cardinality(Inserting(k))
  BY <1>1, InsertingFinite, FS_Subset
<1>3. DOMAIN q = Actor /\ \A o \in Actor : CarriesOK(q[o], d)
  BY DEF StoreSound, CarriesOK
<1>4. n + Cardinality(Inserting(q)) <= MaxId + 1
  BY <1>2, InsertingFinite, BoundsAssumption DEF StoreSound
<1> QED
  BY <1>3, <1>4 DEF StoreSound

\* The rows that are reopened keep their edges.
LEMMA ReopenKeeps ==
    ASSUME NEW b, Good(b), NEW t \in DOMAIN b
    PROVE  Good([b EXCEPT ![t].status = "pending", ![t].stamped = FALSE])
<1> DEFINE r == [b[t] EXCEPT !.status = "pending", !.stamped = FALSE]
           c == [b EXCEPT ![t] = r]
<1>1. c = [b EXCEPT ![t].status = "pending", ![t].stamped = FALSE]
  OBVIOUS
<1>2. /\ r \in Row /\ r.status = "pending" /\ ~r.stamped
      /\ r.parent = b[t].parent /\ r.deps = b[t].deps
  BY DEF Good, BoardOK, Row, Status
<1> HIDE DEF r
<1>3. /\ DOMAIN c = DOMAIN b /\ c[t] = r
      /\ \A x \in DOMAIN b \ {t} : c[x] = b[x]
  OBVIOUS
<1>4. BoardOK(c)
  BY <1>2, <1>3 DEF BoardOK, Good
<1> HIDE DEF c
<1>5. LiveRefs(c) /\ Stamps(c)
  BY <1>2, <1>3 DEF LiveRefs, Stamps, Good, Open, Closed
<1>6. DepEdges(c) = DepEdges(b) /\ ParentEdge(c) = ParentEdge(b)
  BY <1>2, <1>3 DEF DepEdges, ParentEdge
<1> QED
  BY <1>1, <1>4, <1>5, <1>6 DEF Good

\* A row written over another after the checks of check_graph_update() keeps
\* the rows good, whatever it replaces.
LEMMA CheckedRowKeeps ==
    ASSUME NEW b, Good(b), NEW t \in DOMAIN b, NEW r \in Row, StampAgrees(r),
           NEW moved, CheckGraphUpdate([b EXCEPT ![t] = r], t, moved)
    PROVE  Good([b EXCEPT ![t] = r])
<1> DEFINE c == [b EXCEPT ![t] = r]
<1>1. /\ DOMAIN c = DOMAIN b /\ c[t] = r /\ t \in Id
      /\ \A x \in DOMAIN b \ {t} : c[x] = b[x]
  BY DEF Good, BoardOK
<1>2. BoardOK(c)
  BY <1>1 DEF BoardOK, Good
<1>3. CheckGraphUpdate(c, t, moved)
  OBVIOUS
<1> HIDE DEF c
<1>4. /\ r.deps \subseteq DOMAIN b
      /\ t \notin Reach(DepEdges(c), r.deps)
      /\ r.parent # NoTask => r.parent \in DOMAIN b
      /\ r.parent # NoTask => t \notin Reach(ParentEdge(c), {r.parent} \ {NoTask})
  BY <1>1, <1>3 DEF CheckGraphUpdate, DependencyCycle, AncestorChain
<1>5. LiveRefs(c) /\ Stamps(c)
  BY <1>1, <1>4 DEF LiveRefs, Stamps, StampAgrees, Good, Open
<1>e. /\ DepEdges(b) \in [Id -> SUBSET Id] /\ DepEdges(c) \in [Id -> SUBSET Id]
      /\ ParentEdge(b) \in [Id -> SUBSET Id] /\ ParentEdge(c) \in [Id -> SUBSET Id]
      /\ Acyclic(DepEdges(b)) /\ Acyclic(ParentEdge(b))
  BY <1>2, EdgesType DEF Good
<1>6. Acyclic(DepEdges(c))
  <2>1. DepEdges(c)[t] = r.deps /\ \A m \in Id \ {t} : DepEdges(c)[m] = DepEdges(b)[m]
    BY <1>1 DEF DepEdges
  <2>2. t \notin Reach(DepEdges(c), DepEdges(c)[t])
    BY <1>4, <2>1
  <2> QED
    BY <1>e, <1>1, <2>1, <2>2, AcyclicOneNode
<1>7. Acyclic(ParentEdge(c))
  <2>1. /\ ParentEdge(c)[t] = {r.parent} \ {NoTask}
        /\ \A m \in Id \ {t} : ParentEdge(c)[m] = ParentEdge(b)[m]
    BY <1>1 DEF ParentEdge
  <2>2. CASE r.parent = NoTask
    <3>1. \A m \in Id : ParentEdge(c)[m] \subseteq ParentEdge(b)[m]
      BY <2>1, <2>2
    <3> QED
      BY <1>e, <3>1, AcyclicFewerEdges
  <2>3. CASE r.parent # NoTask
    <3>1. t \notin Reach(ParentEdge(c), ParentEdge(c)[t])
      BY <1>4, <2>1, <2>3
    <3>2. \A m \in Id \ {t} : ParentEdge(c)[m] = ParentEdge(b)[m]
      BY <2>1
    <3> QED
      BY <1>e, <1>1, <3>1, <3>2, AcyclicOneNode
  <2> QED
    BY <2>2, <2>3
<1> QED
  BY <1>2, <1>5, <1>6, <1>7 DEF Good, c

\* A call that has found its row stale, or that ends, carries nothing.
LEMMA IdleCarries == ASSUME NEW b PROVE CarriesOK(Idle, b) /\ Idle.pc # "insert"
  BY DEF CarriesOK, Idle

\* create() keeps an id back and carries a row whose references are live.
LEMMA CreateCheckKeeps ==
    ASSUME StoreSound(board, nextId, call), NEW a \in Actor,
           NEW p \in Id \cup {NoTask}, NEW deps \in SUBSET Id, NEW acc \in Check,
           CreateCheck(a, p, deps, acc)
    PROVE  StoreSound(board', nextId', call')
<1> DEFINE c == [pc |-> "insert", row |-> NewRow(p, deps, acc)]
<1>1. /\ MayCreate(board, p, deps) /\ call' = [call EXCEPT ![a] = c]
      /\ board' = board /\ nextId' = nextId
      /\ nextId + Cardinality(Inserting(call)) <= MaxId
      /\ call[a].pc = "idle"
  BY DEF CreateCheck, Continue, Starts, At, Inserting
<1>2. /\ c.row \in Row /\ c.row.status = "pending" /\ ~c.row.stamped
      /\ c.row.parent = p /\ c.row.deps = deps /\ c.pc = "insert"
  BY DEF NewRow, Row, Status
<1> HIDE DEF c
<1>3. p \in DOMAIN board \cup {NoTask} /\ deps \subseteq DOMAIN board
  BY <1>1 DEF MayCreate, Open
<1>4. CarriesOK(c, board)
  BY <1>2, <1>3 DEF CarriesOK
<1>5. Inserting(call') = Inserting(call) \cup {a} /\ a \notin Inserting(call)
  BY <1>1, <1>2 DEF Inserting, StoreSound
<1>6. Cardinality(Inserting(call')) = Cardinality(Inserting(call)) + 1
  BY <1>5, InsertingFinite, FS_AddElement
<1>7. nextId + Cardinality(Inserting(call')) <= MaxId + 1
  BY <1>1, <1>6, InsertingFinite, BoundsAssumption DEF StoreSound
<1>8. DOMAIN call' = Actor /\ \A o \in Actor : CarriesOK(call'[o], board)
  BY <1>1, <1>4 DEF StoreSound
<1> QED
  BY <1>1, <1>7, <1>8 DEF StoreSound

\* ... and the insert takes it: nothing refers to it yet.
LEMMA CreateInsertKeeps ==
    ASSUME StoreSound(board, nextId, call), NEW a \in Actor, CreateInsert(a)
    PROVE  StoreSound(board', nextId', call')
<1>1. /\ board' = Insert(board, nextId, call[a].row) /\ nextId' = nextId + 1
      /\ call' = [call EXCEPT ![a] = Idle] /\ call[a].pc = "insert"
  BY DEF CreateInsert, Return, Continue, At
<1>2. a \in Inserting(call) /\ Inserting(call') = Inserting(call) \ {a}
  BY <1>1 DEF Inserting, StoreSound, Idle
<1>3. Cardinality(Inserting(call')) = Cardinality(Inserting(call)) - 1
  BY <1>2, InsertingFinite, FS_RemoveElement
<1>4. /\ nextId \in Nat \ {0} /\ nextId + Cardinality(Inserting(call)) <= MaxId + 1
      /\ DOMAIN board \subseteq 1 .. nextId - 1 /\ Good(board) /\ DOMAIN call = Actor
      /\ \A o \in Actor : CarriesOK(call[o], board)
  BY DEF StoreSound
<1>5. Cardinality(Inserting(call')) \in Nat /\ Cardinality(Inserting(call)) \in Nat
  BY InsertingFinite
<1>6. /\ nextId \in 1 .. MaxId /\ nextId' \in Nat \ {0}
      /\ nextId' + Cardinality(Inserting(call')) <= MaxId + 1
  BY <1>1, <1>3, <1>4, <1>5, BoundsAssumption
<1>7. nextId \in Id \ DOMAIN board
  BY <1>4, <1>6 DEF Id
<1>8. Good(board')
  BY <1>1, <1>4, <1>7, InsertKeeps DEF CarriesOK
<1>9. DOMAIN board' = DOMAIN board \cup {nextId}
  BY <1>1 DEF Insert
<1>10. DOMAIN board' \subseteq 1 .. nextId' - 1
  BY <1>1, <1>4, <1>9
<1>11. ASSUME NEW o \in Actor PROVE CarriesOK(call'[o], board')
  <2>1. CASE o = a
    BY <1>1, <1>4, <2>1, IdleCarries
  <2>2. CASE o # a
    BY <1>1, <1>4, <1>9, <2>2 DEF CarriesOK
  <2> QED
    BY <2>1, <2>2
<1> QED
  BY <1>1, <1>4, <1>6, <1>8, <1>10, <1>11 DEF StoreSound

\* update() carries a patched copy of a live row, which cancels nothing.
LEMMA UpdateReadKeeps ==
    ASSUME ChecksEveryEdge, StoreSound(board, nextId, call), NEW a \in Actor,
           NEW t \in Id, NEW p \in Patch, UpdateRead(a, t, p)
    PROVE  StoreSound(board', nextId', call')
<1> DEFINE r == ApplyPatch(board[t], p)
           x == r.status = "cancelled" /\ board[t].status # "cancelled"
           c == [pc |-> "update", id |-> t, row |-> r, patch |-> p, cancels |-> x]
<1>1. /\ t \in DOMAIN board /\ call' = [call EXCEPT ![a] = c]
      /\ board' = board /\ nextId' = nextId
  BY DEF UpdateRead, Continue
<1>2. board[t] \in Row /\ StampAgrees(board[t]) /\ Good(board)
  BY <1>1 DEF StoreSound, Good, BoardOK, Stamps, StampAgrees, Open
<1>3. r \in Row
  BY <1>2, PatchedRow
<1>4. StampAgrees(r)
  <2>1. r.status = "done" => r.stamped
    BY <1>2, PatchedRow DEF StampAgrees
  <2>2. r.status \notin Closed => ~r.stamped
    <3> SUFFICES ASSUME r.status \notin Closed, r.stamped PROVE FALSE
      BY <1>3 DEF Row
    <3>1. board[t].status \notin Closed /\ board[t].stamped
      BY <1>2, PatchedRow
    <3> QED
      BY <3>1, <1>2 DEF StampAgrees
  <2> QED
    BY <2>1, <2>2 DEF StampAgrees
<1>5. ~x
  BY <1>2 DEF ChecksEveryEdge, ApplyPatch
<1>6. c.pc = "update" /\ c.id = t /\ c.row = r /\ c.patch = p /\ c.cancels = x
  OBVIOUS
<1> HIDE DEF r, x, c
<1>7. CarriesOK(c, board) /\ c.pc # "insert"
  BY <1>1, <1>3, <1>4, <1>5, <1>6 DEF CarriesOK
<1> QED
  BY <1>1, <1>2, <1>7, CarryKeeps

\* The copy is written only when the graph it leaves passes the checks.
LEMMA UpdateWriteKeeps ==
    ASSUME ChecksEveryEdge, StoreSound(board, nextId, call), NEW a \in Actor, UpdateWrite(a)
    PROVE  StoreSound(board', nextId', call')
<1> DEFINE c == call[a]
           b == [board EXCEPT ![c.id] = c.row]
<1>1. call[a].pc = "update" /\ nextId' = nextId
  BY DEF UpdateWrite, At
<1>2. /\ c.id \in DOMAIN board /\ c.row \in Row /\ StampAgrees(c.row)
      /\ c.patch \in Patch /\ ~c.cancels /\ Good(board)
  BY <1>1 DEF StoreSound, CarriesOK
<1>3. Insert(board, c.id, c.row) = b /\ WriteTask(board, c.id, c.row) = b
  BY <1>2 DEF Insert, WriteTask, Good, BoardOK
<1>4. TouchesGraph(c.patch)
  BY <1>2 DEF ChecksEveryEdge
<1>5. CASE /\ CheckGraphUpdate(b, c.id, "parent" \in DOMAIN c.patch)
           /\ board' = b /\ call' = [call EXCEPT ![a] = Idle]
  <2>1. Good(b) /\ DOMAIN b = DOMAIN board
    BY <1>2, <1>5, CheckedRowKeeps
  <2> HIDE DEF b
  <2> QED
    BY <1>1, <1>5, <2>1, IdleCarries, CarryKeeps
<1>6. CASE board' = board /\ call' = [call EXCEPT ![a] = Idle]
  BY <1>1, <1>2, <1>6, IdleCarries, CarryKeeps
<1> QED
  BY <1>2, <1>3, <1>4, <1>5, <1>6 DEF UpdateWrite, Return, Continue

\* complete() and reopen() leave every edge alone.
LEMMA CompleteKeeps ==
    ASSUME StoreSound(board, nextId, call), NEW a \in Actor,
           \/ \E t \in Id : CompleteRead(a, t)
           \/ CompleteMark(a) \/ CompleteAncestor(a)
    PROVE  StoreSound(board', nextId', call')
<1>g. Good(board) /\ \A S : Good(MarkDone(board, S)) /\ DOMAIN MarkDone(board, S) = DOMAIN board
  BY MarkDoneKeeps DEF StoreSound, MarkDone
<1>1. /\ nextId' = nextId
      /\ \E c : /\ call' = [call EXCEPT ![a] = c] /\ c.pc \in {"idle", "complete", "ancestors"}
                /\ board' = board \/ \E S : board' = MarkDone(board, S)
  <2>1. CASE \E t \in Id : CompleteRead(a, t)
    BY <2>1 DEF CompleteRead, Continue
  <2>2. CASE CompleteMark(a)
    BY <2>2 DEF CompleteMark, Continue, Return, Idle
  <2>3. CASE CompleteAncestor(a)
    <3>1. CASE board' = board /\ Return(a) /\ nextId' = nextId
      BY <3>1 DEF Return, Continue, Idle
    <3>2. CASE /\ board' = MarkDone(board, {call[a].current}) /\ nextId' = nextId
               /\ Continue(a, [call[a] EXCEPT !.closed = @ \cup {call[a].current},
                                              !.current = call[a].snap[call[a].current].parent])
      <4>1. call[a].pc = "ancestors"
        BY <2>3 DEF CompleteAncestor, At
      <4> DEFINE c == [call[a] EXCEPT !.closed = @ \cup {call[a].current},
                                      !.current = call[a].snap[call[a].current].parent]
      <4>2. c.pc = "ancestors"
        BY <4>1
      <4> QED
        BY <3>2, <4>2 DEF Continue
    <3> QED
      BY <2>3, <3>1, <3>2 DEF CompleteAncestor
  <2> QED
    BY <2>1, <2>2, <2>3
<1>2. PICK c : /\ call' = [call EXCEPT ![a] = c] /\ c.pc \in {"idle", "complete", "ancestors"}
               /\ board' = board \/ \E S : board' = MarkDone(board, S)
  BY <1>1
<1>3. CarriesOK(c, board) /\ c.pc # "insert"
  BY <1>2 DEF CarriesOK
<1>4. Good(board') /\ DOMAIN board' = DOMAIN board
  BY <1>2, <1>g
<1> QED
  BY <1>1, <1>2, <1>3, <1>4, CarryKeeps

\* reopen() reads, and writes back.
LEMMA ReopensKeep ==
    ASSUME StoreSound(board, nextId, call), NEW a \in Actor,
           (\E t \in Id : ReopenRead(a, t)) \/ ReopenWrite(a)
    PROVE  StoreSound(board', nextId', call')
<1>g. Good(board)
  BY DEF StoreSound
<1>1. CASE \E t \in Id : ReopenRead(a, t)
  <2>1. PICK t \in Id : ReopenRead(a, t)
    BY <1>1
  <2> DEFINE c == [pc |-> "reopen", id |-> t]
  <2>2. /\ call' = [call EXCEPT ![a] = c] /\ board' = board /\ nextId' = nextId
        /\ CarriesOK(c, board) /\ c.pc # "insert"
    BY <2>1 DEF ReopenRead, Continue, CarriesOK
  <2> QED
    BY <1>g, <2>2, CarryKeeps
<1>2. CASE ReopenWrite(a)
  <2> DEFINE t == call[a].id
  <2>1. /\ call' = [call EXCEPT ![a] = Idle] /\ nextId' = nextId
        /\ board' = IF t \in DOMAIN board
                    THEN [board EXCEPT ![t].status = "pending", ![t].stamped = FALSE]
                    ELSE board
    BY <1>2 DEF ReopenWrite, Return, Continue
  <2>2. Good(board')
    BY <1>g, <2>1, ReopenKeeps
  <2>3. DOMAIN board' = DOMAIN board
    BY <2>1
  <2> QED
    BY <2>1, <2>2, <2>3, IdleCarries, CarryKeeps
<1> QED
  BY <1>1, <1>2

\* The store starts empty.
LEMMA InitStoreSound == RInit => StoreSound(board, nextId, call)
<1> SUFFICES ASSUME RInit PROVE StoreSound(board, nextId, call)
  OBVIOUS
<1>1. Init /\ call = [a \in Actor |-> Idle] /\ nextId = 1
  BY DEF RInit, Init
<1>2. Good(board) /\ DOMAIN board \subseteq 1 .. nextId - 1
  BY <1>1, InitIInv, IInvGood
<1>3. Inserting(call) = {}
  BY <1>1 DEF Inserting, Idle
<1>4. nextId + Cardinality(Inserting(call)) <= MaxId + 1
  BY <1>1, <1>3, FS_EmptySet, BoundsAssumption
<1>5. DOMAIN call = Actor /\ \A a \in Actor : CarriesOK(call[a], board)
  BY <1>1, IdleCarries
<1> QED
  BY <1>1, <1>2, <1>4, <1>5 DEF StoreSound

\* Every critical section keeps the store sound, one step per section.
LEMMA NextStoreSound ==
    ASSUME ChecksEveryEdge, StoreSound(board, nextId, call), [RNext]_rvars
    PROVE  StoreSound(board', nextId', call')
<1>1. CASE UNCHANGED rvars
  BY <1>1 DEF rvars
<1>2. CASE RNext
  <2>1. PICK a \in Actor : Step(a)
    BY <1>2 DEF RNext
  <2>2. CarriesOK(call[a], board)
    BY DEF StoreSound
  <2>3. call[a].pc \notin {"cascade", "cascading", "delete", "strip", "clear"}
    BY <2>2 DEF CarriesOK
  <2>4. /\ ~CascadeLoad(a) /\ ~CascadeWrite(a) /\ ~DeleteRows(a) /\ ~StripReference(a)
        /\ ~ClearTarget(a)
    BY <2>3 DEF CascadeLoad, CascadeWrite, DeleteRows, StripReference, ClearTarget, At
  <2>5. /\ \A t \in Id : ~DeleteRead(a, t)
        /\ \A closedOnly \in BOOLEAN : ~ClearRead(a, closedOnly)
    BY DEF DeleteRead, ClearRead, Starts, ChecksEveryEdge
  <2> QED
    BY <2>1, <2>4, <2>5, CreateCheckKeeps, CreateInsertKeeps, UpdateReadKeeps,
       UpdateWriteKeeps, CompleteKeeps, ReopensKeep DEF Step
<1> QED
  BY <1>1, <1>2

\* Callers of the store whose critical sections interleave: as long as
\* nobody deletes or cancels and every update is one whose edges are checked
\* when it is written, no interleaving makes a cycle of dependencies or of
\* parents, stale copies and all, for any number of callers and tasks.
THEOREM CheckedEdgesHold ==
    ASSUME ChecksEveryEdge
    PROVE  RSpec => []EdgesAcyclic
<1> DEFINE I == StoreSound(board, nextId, call)
<1>1. RInit => I
  BY InitStoreSound
<1>2. I /\ [RNext]_rvars => I'
  <2>1. ASSUME I, [RNext]_rvars PROVE StoreSound(board', nextId', call')
    BY <2>1, NextStoreSound
  <2> QED
    BY <2>1
<1>3. I => EdgesAcyclic
  BY DEF StoreSound, Good, EdgesAcyclic, DepsAcyclic, HierarchyAcyclic
<1> HIDE DEF I
<1> QED
  BY <1>1, <1>2, <1>3, PTL DEF RSpec
-----------------------------------------------------------------------------
(* A lone caller: the critical sections of a call make one step of         *)
(* TaskBoard.                                                              *)

\* The abstract board reads rows as TaskBoard does.
LEMMA AtomicReads ==
    /\ Atomic!Id = Id /\ Atomic!NoTask = NoTask /\ Atomic!Check = Check
    /\ Atomic!Closed = Closed
    /\ \A f, S : Atomic!Reach(f, S) = Reach(f, S)
    /\ \A b, t : Atomic!Open(b, t) = Open(b, t)
    /\ \A b, t : Atomic!Children(b, t) = Children(b, t)
    /\ \A b : Atomic!DepEdges(b) = DepEdges(b)
    /\ \A b : Atomic!ParentEdge(b) = ParentEdge(b)
    /\ \A b : Atomic!ChildEdges(b) = ChildEdges(b)
<1>1. Atomic!Id = Id /\ Atomic!NoTask = NoTask /\ Atomic!Check = Check
      /\ Atomic!Closed = Closed
  BY DEF Atomic!Id, Id, Atomic!NoTask, NoTask, Atomic!Check, Check, Atomic!Closed, Closed
<1>2. \A f, S : Atomic!Reach(f, S) = Reach(f, S)
  BY DEF Atomic!Reach, Reach, Atomic!ClosedUnder, ClosedUnder
<1>3. \A b, t : Atomic!Open(b, t) = Open(b, t)
  BY <1>1 DEF Atomic!Open, Open
<1>4. \A b, t : Atomic!Children(b, t) = Children(b, t)
  BY DEF Atomic!Children, Children
<1>5. \A b : Atomic!DepEdges(b) = DepEdges(b)
  BY <1>1 DEF Atomic!DepEdges, DepEdges
<1>6. \A b : Atomic!ParentEdge(b) = ParentEdge(b)
  BY <1>1 DEF Atomic!ParentEdge, ParentEdge
<1>7. \A b : Atomic!ChildEdges(b) = ChildEdges(b)
  BY <1>1, <1>4 DEF Atomic!ChildEdges, ChildEdges
<1> QED
  BY <1>1, <1>2, <1>3, <1>4, <1>5, <1>6, <1>7

\* It counts as the board does.
LEMMA AtomicCounts == \A S : Atomic!Cardinality(S) = Cardinality(S)
  BY DEF Atomic!Cardinality, Cardinality

\* It walks chains and subtrees alike.
LEMMA AtomicWalks ==
    /\ \A b, p : Atomic!AncestorChain(b, p) = AncestorChain(b, p)
    /\ \A b, t : Atomic!SubtreeIds(b, t) = SubtreeIds(b, t)
    /\ \A b, t : Atomic!ParentDepth(b, t) = ParentDepth(b, t)
    /\ \A b, t : Atomic!SubtreeHeight(b, t) = SubtreeHeight(b, t)
    /\ \A b, S, D : Atomic!NoAncestorDependency(b, S, D) = NoAncestorDependency(b, S, D)
    /\ \A b, t : Atomic!DependencyCycle(b, t) = DependencyCycle(b, t)
    /\ \A b, t, S : Atomic!SubtreeAvoids(b, t, S) = SubtreeAvoids(b, t, S)
<1>1. \A b, p : Atomic!AncestorChain(b, p) = AncestorChain(b, p)
  BY AtomicReads DEF Atomic!AncestorChain, AncestorChain
<1>2. \A b, t : Atomic!SubtreeIds(b, t) = SubtreeIds(b, t)
  BY AtomicReads DEF Atomic!SubtreeIds, SubtreeIds
<1>3. ASSUME NEW b, NEW t PROVE Atomic!ParentDepth(b, t) = ParentDepth(b, t)
  <2>1. Atomic!AncestorChain(b, b[t].parent) = AncestorChain(b, b[t].parent)
    BY <1>1
  <2> QED
    BY <2>1, AtomicCounts DEF Atomic!ParentDepth, ParentDepth
<1>4. ASSUME NEW b, NEW t PROVE Atomic!SubtreeHeight(b, t) = SubtreeHeight(b, t)
  <2>1. Atomic!SubtreeIds(b, t) = SubtreeIds(b, t)
    BY <1>2
  <2>2. \A x : Atomic!Cardinality(Atomic!AncestorChain(b, x) \cap SubtreeIds(b, t))
                = Cardinality(AncestorChain(b, x) \cap SubtreeIds(b, t))
    BY <1>1, AtomicCounts
  <2> QED
    BY <2>1, <2>2 DEF Atomic!SubtreeHeight, SubtreeHeight
<1>5. \A b, S, D : Atomic!NoAncestorDependency(b, S, D) = NoAncestorDependency(b, S, D)
  BY AtomicReads DEF Atomic!NoAncestorDependency, NoAncestorDependency
<1>6. \A b, t : Atomic!DependencyCycle(b, t) = DependencyCycle(b, t)
  BY AtomicReads DEF Atomic!DependencyCycle, DependencyCycle
<1>7. \A b, t, S : Atomic!SubtreeAvoids(b, t, S) = SubtreeAvoids(b, t, S)
  BY <1>2, <1>5 DEF Atomic!SubtreeAvoids, SubtreeAvoids
<1> QED
  BY <1>1, <1>2, <1>3, <1>4, <1>5, <1>6, <1>7

\* It admits the same changes.
LEMMA AtomicGuards ==
    /\ \A b, p, deps : Atomic!MayCreate(b, p, deps) = MayCreate(b, p, deps)
    /\ \A p : Atomic!TouchesGraph(p) = TouchesGraph(p)
    /\ \A b, t, m : Atomic!CheckGraphUpdate(b, t, m) = CheckGraphUpdate(b, t, m)
<1>1. ASSUME NEW b, NEW p, NEW deps
      PROVE  Atomic!MayCreate(b, p, deps) = MayCreate(b, p, deps)
  <2>1. /\ Atomic!NoTask = NoTask /\ Atomic!Open(b, p) = Open(b, p)
        /\ Atomic!ParentDepth(b, p) = ParentDepth(b, p)
        /\ Atomic!AncestorChain(b, p) = AncestorChain(b, p)
        /\ Atomic!NoAncestorDependency(b, AncestorChain(b, p), deps)
             = NoAncestorDependency(b, AncestorChain(b, p), deps)
    BY AtomicReads, AtomicWalks
  <2> QED
    BY <2>1, AtomicCounts DEF Atomic!MayCreate, MayCreate
<1>2. \A p : Atomic!TouchesGraph(p) = TouchesGraph(p)
  BY DEF Atomic!TouchesGraph, TouchesGraph
<1>3. ASSUME NEW b, NEW t, NEW m
      PROVE  Atomic!CheckGraphUpdate(b, t, m) = CheckGraphUpdate(b, t, m)
  <2> DEFINE up == AncestorChain(b, b[t].parent)
  <2>1. /\ Atomic!NoTask = NoTask /\ Atomic!Open(b, b[t].parent) = Open(b, b[t].parent)
        /\ Atomic!AncestorChain(b, b[t].parent) = up
        /\ Atomic!DependencyCycle(b, t) = DependencyCycle(b, t)
        /\ Atomic!SubtreeHeight(b, t) = SubtreeHeight(b, t)
        /\ Atomic!NoAncestorDependency(b, up, b[t].deps) = NoAncestorDependency(b, up, b[t].deps)
        /\ Atomic!SubtreeAvoids(b, t, up) = SubtreeAvoids(b, t, up)
    BY AtomicReads, AtomicWalks
  <2> QED
    BY <2>1, AtomicCounts DEF Atomic!CheckGraphUpdate, CheckGraphUpdate
<1> QED
  BY <1>1, <1>2, <1>3

\* It leaves the same rows behind.
LEMMA AtomicWrites ==
    /\ \A p, deps, acc : Atomic!NewRow(p, deps, acc) = NewRow(p, deps, acc)
    /\ \A b, t, r : Atomic!Insert(b, t, r) = Insert(b, t, r)
    /\ \A r, p : Atomic!ApplyPatch(r, p) = ApplyPatch(r, p)
    /\ \A b, t : Atomic!CascadeCancel(b, t) = CascadeCancel(b, t)
    /\ \A b, S : Atomic!MarkDone(b, S) = MarkDone(b, S)
    /\ \A b, t : Atomic!AutoCompleted(b, t) = AutoCompleted(b, t)
    /\ \A b, D : Atomic!Remove(b, D) = Remove(b, D)
    /\ \A b : Atomic!ClearableClosed(b) = ClearableClosed(b)
<1>1. \A p, deps, acc : Atomic!NewRow(p, deps, acc) = NewRow(p, deps, acc)
  BY DEF Atomic!NewRow, NewRow
<1>2. \A b, t, r : Atomic!Insert(b, t, r) = Insert(b, t, r)
  BY DEF Atomic!Insert, Insert
<1>3. \A r, p : Atomic!ApplyPatch(r, p) = ApplyPatch(r, p)
  BY DEF Atomic!ApplyPatch, ApplyPatch
<1>4. \A b, t : Atomic!CascadeCancel(b, t) = CascadeCancel(b, t)
  <2>1. \A b, t : Atomic!OwnContract(b, t) = OwnContract(b, t)
    BY AtomicReads DEF Atomic!OwnContract, OwnContract
  <2>2. \A b : Atomic!CascadeEdges(b) = CascadeEdges(b)
    BY <2>1, AtomicReads DEF Atomic!CascadeEdges, CascadeEdges
  <2> QED
    BY <2>1, <2>2, AtomicReads DEF Atomic!CascadeCancel, CascadeCancel
<1>5. \A b, S : Atomic!MarkDone(b, S) = MarkDone(b, S)
  BY DEF Atomic!MarkDone, MarkDone
<1>6. \A b, t : Atomic!AutoCompleted(b, t) = AutoCompleted(b, t)
  <2>1. \A b, t, c : Atomic!EndsWith(b, t, c) = EndsWith(b, t, c)
    BY AtomicReads, AtomicWalks DEF Atomic!EndsWith, EndsWith
  <2> QED
    BY <2>1, AtomicWalks DEF Atomic!AutoCompleted, AutoCompleted
<1>7. \A b, D : Atomic!Remove(b, D) = Remove(b, D)
  BY DEF Atomic!Remove, Remove
<1>8. \A b : Atomic!ClearableClosed(b) = ClearableClosed(b)
  BY AtomicReads, AtomicWalks DEF Atomic!ClearableClosed, ClearableClosed
<1> QED
  BY <1>1, <1>2, <1>3, <1>4, <1>5, <1>6, <1>7, <1>8

\* One step of TaskBoard, as a relation between the rows and the counters.
Creates(b, n, d, m) ==
    /\ n <= MaxId /\ m = n + 1
    /\ \E p \in Id \cup {NoTask}, deps \in SUBSET Id, acc \in Check :
         MayCreate(b, p, deps) /\ d = Insert(b, n, NewRow(p, deps, acc))
Patches(b, d) ==
    \E t \in DOMAIN b \cap Id, p \in Patch :
        LET r == ApplyPatch(b[t], p)
            c == [b EXCEPT ![t] = r]
        IN /\ "deps" \in DOMAIN p => Cardinality(p.deps) <= DepsMax
           /\ TouchesGraph(p) => CheckGraphUpdate(c, t, "parent" \in DOMAIN p)
           /\ d = IF r.status = "cancelled" /\ b[t].status # "cancelled"
                  THEN CascadeCancel(c, t) ELSE c
Completes(b, d) ==
    \E t \in DOMAIN b \cap Id :
        /\ b[t].status # "done" /\ \A c \in Children(b, t) : ~Open(b, c)
        /\ d = MarkDone(b, {t} \cup AutoCompleted(b, t))
Reopens(b, d) ==
    \E t \in DOMAIN b \cap Id :
        /\ b[t].status \in Closed
        /\ d = [b EXCEPT ![t].status = "pending", ![t].stamped = FALSE]
\* What a delete() or a clear() of the rows b takes.
Taken(b, D) == \/ \E t \in DOMAIN b \cap Id : D = SubtreeIds(b, t)
               \/ D = ClearableClosed(b) \/ D = DOMAIN b
Does(b, n, d, m) ==
    \/ d = b /\ m = n
    \/ Creates(b, n, d, m)
    \/ m = n /\ \/ Patches(b, d) \/ Completes(b, d) \/ Reopens(b, d)
                \/ \E D : Taken(b, D) /\ d = Remove(b, D)

\* Such a step of the promised rows is a step of the abstract board.
LEMMA DoesAtomic ==
    LET b == Promise(call[LoneCaller], board)
    IN Does(b, nextId, b', nextId') => [Atomic!Next]_(Atomic!vars)
<1> DEFINE b == Promise(call[LoneCaller], board)
<1> SUFFICES ASSUME Does(b, nextId, b', nextId')
             PROVE  [Atomic!Next]_(Atomic!vars)
  OBVIOUS
<1>1. CASE b' = b /\ nextId' = nextId
  BY <1>1 DEF Atomic!vars
<1>2. CASE Creates(b, nextId, b', nextId')
  <2> HIDE DEF b
  <2>1. PICK p \in Id \cup {NoTask}, deps \in SUBSET Id, acc \in Check :
          MayCreate(b, p, deps) /\ b' = Insert(b, nextId, NewRow(p, deps, acc))
    BY <1>2 DEF Creates
  <2>2. Atomic!Create(p, deps, acc)
    BY <1>2, <2>1, AtomicGuards, AtomicWrites DEF Atomic!Create, Creates, b
  <2> QED
    BY <2>2, AtomicReads DEF Atomic!Next
<1>3. CASE nextId' = nextId /\ Patches(b, b')
  <2> HIDE DEF b
  <2>1. PICK t \in DOMAIN b \cap Id, p \in Patch :
          LET r == ApplyPatch(b[t], p)
              c == [b EXCEPT ![t] = r]
          IN /\ "deps" \in DOMAIN p => Cardinality(p.deps) <= DepsMax
             /\ TouchesGraph(p) => CheckGraphUpdate(c, t, "parent" \in DOMAIN p)
             /\ b' = IF r.status = "cancelled" /\ b[t].status # "cancelled"
                     THEN CascadeCancel(c, t) ELSE c
    BY <1>3 DEF Patches
  <2> DEFINE r == ApplyPatch(b[t], p)
             c == [b EXCEPT ![t] = r]
  <2>2. /\ Atomic!ApplyPatch(b[t], p) = r /\ Atomic!TouchesGraph(p) = TouchesGraph(p)
        /\ Atomic!CheckGraphUpdate(c, t, "parent" \in DOMAIN p)
             = CheckGraphUpdate(c, t, "parent" \in DOMAIN p)
        /\ Atomic!CascadeCancel(c, t) = CascadeCancel(c, t)
    BY AtomicGuards, AtomicWrites
  <2>3. Atomic!Update(t, p)
    BY <1>3, <2>1, <2>2, AtomicCounts DEF Atomic!Update, b
  <2> QED
    BY <2>3, AtomicReads DEF Atomic!Next
<1>4. CASE nextId' = nextId /\ Completes(b, b')
  <2> HIDE DEF b
  <2>1. PICK t \in DOMAIN b \cap Id :
          /\ b[t].status # "done" /\ \A c \in Children(b, t) : ~Open(b, c)
          /\ b' = MarkDone(b, {t} \cup AutoCompleted(b, t))
    BY <1>4 DEF Completes
  <2>2. Atomic!Complete(t)
    BY <1>4, <2>1, AtomicReads, AtomicWrites DEF Atomic!Complete, b
  <2> QED
    BY <2>2, AtomicReads DEF Atomic!Next
<1>5. CASE nextId' = nextId /\ Reopens(b, b')
  <2> HIDE DEF b
  <2>1. PICK t \in DOMAIN b \cap Id :
          /\ b[t].status \in Closed
          /\ b' = [b EXCEPT ![t].status = "pending", ![t].stamped = FALSE]
    BY <1>5 DEF Reopens
  <2>2. Atomic!Reopen(t)
    BY <1>5, <2>1, AtomicReads DEF Atomic!Reopen, b
  <2> QED
    BY <2>2, AtomicReads DEF Atomic!Next
<1>6. CASE nextId' = nextId /\ \E D : Taken(b, D) /\ b' = Remove(b, D)
  <2> HIDE DEF b
  <2>1. PICK D : Taken(b, D) /\ b' = Remove(b, D)
    BY <1>6
  <2>2. CASE \E t \in DOMAIN b \cap Id : D = SubtreeIds(b, t)
    <3>1. PICK t \in DOMAIN b \cap Id : D = SubtreeIds(b, t)
      BY <2>2
    <3>2. Atomic!Delete(t)
      BY <1>6, <2>1, <3>1, AtomicWalks, AtomicWrites DEF Atomic!Delete, b
    <3> QED
      BY <3>2, AtomicReads DEF Atomic!Next
  <2>3. CASE D = ClearableClosed(b)
    <3>1. Atomic!Clear(TRUE)
      BY <1>6, <2>1, <2>3, AtomicWrites DEF Atomic!Clear, b
    <3> QED
      BY <3>1 DEF Atomic!Next
  <2>4. CASE D = DOMAIN b
    <3>1. Atomic!Clear(FALSE)
      BY <1>6, <2>1, <2>4, AtomicWrites DEF Atomic!Clear, b
    <3> QED
      BY <3>1 DEF Atomic!Next
  <2> QED
    BY <2>1, <2>2, <2>3, <2>4 DEF Taken
<1> QED
  BY <1>1, <1>2, <1>3, <1>4, <1>5, <1>6 DEF Does
-----------------------------------------------------------------------------
(* What a lone caller's call carries.                                      *)

\* A row to insert, whose checks still hold.
InsertReady(c, b, n) ==
    /\ n <= MaxId
    /\ \E p \in Id \cup {NoTask}, deps \in SUBSET Id, acc \in Check :
          MayCreate(b, p, deps) /\ c.row = NewRow(p, deps, acc)

\* A patched copy of a live row.
UpdateReady(c, b) ==
    /\ c.id \in DOMAIN b /\ c.patch \in Patch
    /\ c.row = ApplyPatch(b[c.id], c.patch)
    /\ "deps" \in DOMAIN c.patch => Cardinality(c.patch.deps) <= DepsMax
    /\ c.cancels <=> c.row.status = "cancelled" /\ b[c.id].status # "cancelled"

\* A cancelled row, written, whose branch is still to be closed.
CascadeReady(c, b) ==
    /\ c.id \in DOMAIN b /\ c.row = b[c.id] /\ c.row.status = "cancelled"

\* The rest of a cascade: with it the rows are good.
CascadeHalf(c, b) ==
    /\ c = [pc |-> "cascading", todo |-> c.todo, level |-> c.level]
    /\ DOMAIN c.todo \subseteq DOMAIN b
    /\ Good(Apply(b, c.todo))

\* A live row that is not done.
CompleteReady(c, b) ==
    /\ c.id \in DOMAIN b /\ c.row = b[c.id] /\ c.row.status # "done"

\* The ancestors of the task that a call completes, as it found them.
Chain(c) == AncestorChain(c.snap, c.snap[c.id].parent)
\* What the walk up from there has marked done.
Marked(c) == {c.id} \cup (Chain(c) \ AncestorChain(c.snap, c.current))

\* The walk has marked the task and the ancestors it has passed, all of which
\* end with it.
WalkHalf(c, b) ==
    /\ c = [pc |-> "ancestors", id |-> c.id, snap |-> c.snap, current |-> c.current,
            closed |-> c.closed]
    /\ Good(c.snap) /\ c.id \in DOMAIN c.snap
    /\ c.current \in Chain(c) \cup {NoTask}
    /\ b = MarkDone(c.snap, Marked(c))
    /\ c.closed = Marked(c) \cup {x \in DOMAIN c.snap : ~Open(c.snap, x)}
    /\ Marked(c) \ {c.id} \subseteq AutoCompleted(c.snap, c.id)

\* A live row that is closed.
ReopenReady(c, b) == c.id \in DOMAIN b /\ b[c.id].status \in Closed

\* The rows D and all rows below them.
DownClosed(b, D) == \A x \in DOMAIN b : b[x].parent \in D => x \in D
\* What spares open tasks takes none.
Spares(c, b, D) == c.spares => \A x \in D : ~Open(b, x)

\* The rows a delete() is about to take, the first ones or the next ones of a
\* clear().
DeleteReady(c, b) ==
    /\ \E t \in DOMAIN b : c = Doom(b, t, c.rest, c.begun, c.spares)
    /\ DOMAIN c.rest \subseteq Id
    /\ DownClosed(b, c.doomed \cup DOMAIN c.rest)
    /\ Spares(c, b, c.doomed \cup DOMAIN c.rest)
    /\ ~c.begun => Taken(b, c.doomed \cup DOMAIN c.rest)

\* The references still to strip, and the rows still to clear after that.
StripHalf(c, b) ==
    /\ c = [pc |-> "strip", doomed |-> c.doomed, rest |-> c.rest, begun |-> TRUE,
            spares |-> c.spares, todo |-> c.todo]
    /\ DOMAIN c.todo \subseteq DOMAIN b /\ DOMAIN c.rest \subseteq Id
    /\ Good(Apply(b, c.todo))
    /\ DownClosed(Apply(b, c.todo), DOMAIN c.rest)
    /\ Spares(c, Apply(b, c.todo), DOMAIN c.rest)

\* The rows still to clear.
ClearHalf(c, b) ==
    /\ c = [pc |-> "clear", rest |-> c.rest, begun |-> c.begun, spares |-> c.spares]
    /\ DOMAIN c.rest \subseteq Id
    /\ DownClosed(b, DOMAIN c.rest)
    /\ Spares(c, b, DOMAIN c.rest)
    /\ ~c.begun => DOMAIN c.rest = ClearableClosed(b) \/ DOMAIN c.rest = DOMAIN b

\* The inductive invariant: the rows are good except between the first and the
\* last write of a cascade or of a delete, and what the call carries is true
\* of them.
LoneHolds(c, b, n) ==
    /\ n \in 1 .. MaxId + 1 /\ DOMAIN b \subseteq 1 .. n - 1 /\ BoardOK(b)
    /\ c.pc \in {"idle", "insert", "update", "cascade", "cascading", "complete",
                 "ancestors", "reopen", "delete", "strip", "clear"}
    /\ c.pc \notin {"cascading", "strip"} => Good(b)
    /\ c.pc = "insert" => InsertReady(c, b, n)
    /\ c.pc = "update" => UpdateReady(c, b)
    /\ c.pc = "cascade" => CascadeReady(c, b)
    /\ c.pc = "cascading" => CascadeHalf(c, b)
    /\ c.pc = "complete" => CompleteReady(c, b)
    /\ c.pc = "ancestors" => WalkHalf(c, b)
    /\ c.pc = "reopen" => ReopenReady(c, b)
    /\ c.pc = "delete" => DeleteReady(c, b)
    /\ c.pc = "strip" => StripHalf(c, b)
    /\ c.pc = "clear" => ClearHalf(c, b)

\* A section that takes the caller from c, b, n to e, d, m.
Moves(c, b, n, e, d, m) ==
    LoneHolds(e, d, m) /\ Does(Promise(c, b), n, Promise(e, d), m)

\* The rows promised, place by place.
LEMMA PromiseIs ==
    ASSUME NEW c, NEW b
    PROVE  /\ c.pc \in {"idle", "insert", "update", "complete", "reopen"} => Promise(c, b) = b
           /\ c.pc = "cascade" => Promise(c, b) = CascadeCancel(b, c.id)
           /\ c.pc = "cascading" => Promise(c, b) = Apply(b, c.todo)
           /\ c.pc = "ancestors" =>
                Promise(c, b) = MarkDone(b, AutoCompleted(c.snap, c.id))
           /\ c.pc = "strip" => Promise(c, b) = Remove(Apply(b, c.todo), DOMAIN c.rest)
           /\ c.pc = "delete" /\ c.begun =>
                Promise(c, b) = Remove(b, c.doomed \cup DOMAIN c.rest)
           /\ c.pc = "clear" /\ c.begun => Promise(c, b) = Remove(b, DOMAIN c.rest)
           /\ c.pc \in {"delete", "clear"} /\ ~c.begun => Promise(c, b) = b
  BY DEF Promise

\* A cascade being written promises the rest of its plan.
LEMMA PromisePlan ==
    ASSUME NEW c, NEW b, c.pc = "cascading" PROVE Promise(c, b) = Apply(b, c.todo)
  BY DEF Promise

\* A completion promises the ancestors its snapshot closes.
LEMMA PromiseWalk ==
    ASSUME NEW c, NEW b, c.pc = "ancestors"
    PROVE  Promise(c, b) = MarkDone(b, AutoCompleted(c.snap, c.id))
  BY DEF Promise

\* A delete that has dropped its rows promises the references gone, and the
\* rows a clear() has left.
LEMMA PromiseStrip ==
    ASSUME NEW c, NEW b, c.pc = "strip"
    PROVE  Promise(c, b) = Remove(Apply(b, c.todo), DOMAIN c.rest)
  BY DEF Promise

\* A delete in the midst of a clear() promises its rows and those left gone.
LEMMA PromiseDoom ==
    ASSUME NEW c, NEW b, c.pc = "delete", c.begun
    PROVE  Promise(c, b) = Remove(b, c.doomed \cup DOMAIN c.rest)
  BY DEF Promise

\* A section that writes nothing.
LEMMA ReadMoves ==
    ASSUME NEW c, NEW b, NEW n, NEW e, LoneHolds(c, b, n), Good(b),
           c.pc = "idle", Promise(e, b) = b,
           LoneHolds(e, b, n)
    PROVE  Moves(c, b, n, e, b, n)
  BY PromiseIs DEF Moves, Does

\* Idle is where no call is.
LEMMA IdleHolds ==
    ASSUME NEW b, NEW n, Good(b), n \in 1 .. MaxId + 1, DOMAIN b \subseteq 1 .. n - 1
    PROVE  LoneHolds(Idle, b, n) /\ Promise(Idle, b) = b
<1>1. Idle.pc = "idle"
  BY DEF Idle
<1> QED
  BY <1>1, PromiseIs DEF LoneHolds, Good

\* Writing one row of a plan leaves the rest of the plan to write.
LEMMA ApplyOne ==
    ASSUME NEW b, NEW todo, BoardOK(b), (DOMAIN todo) \subseteq DOMAIN b,
           NEW x \in DOMAIN todo, BoardOK(Apply(b, todo))
    PROVE  LET d == WriteTask(b, x, todo[x])
               left == [y \in DOMAIN todo \ {x} |-> todo[y]]
           IN /\ DOMAIN d = DOMAIN b /\ BoardOK(d)
              /\ DOMAIN left \subseteq DOMAIN d
              /\ Apply(d, left) = Apply(b, todo)
<1> DEFINE d == WriteTask(b, x, todo[x])
           left == [y \in DOMAIN todo \ {x} |-> todo[y]]
<1>1. d = [b EXCEPT ![x] = todo[x]] /\ DOMAIN d = DOMAIN b /\ x \in DOMAIN b
  BY DEF WriteTask
<1>2. DOMAIN left = DOMAIN todo \ {x}
  OBVIOUS
<1>3. todo[x] \in Row
  BY <1>1 DEF Apply, BoardOK
<1>4. BoardOK(d)
  BY <1>1, <1>3 DEF BoardOK
<1>5. Apply(d, left) = Apply(b, todo)
  BY <1>1 DEF Apply
<1> QED
  BY <1>1, <1>2, <1>4, <1>5

\* With nothing left to write the rows are the ones promised.
LEMMA ApplyNone ==
    ASSUME NEW b, BoardOK(b), NEW todo, DOMAIN todo = {}
    PROVE  Apply(b, todo) = b
  BY DEF Apply, BoardOK

\* Without one field a row is as it was.
LEMMA StrippedRow ==
    ASSUME NEW r \in Row, NEW D
    PROVE  /\ r.deps \cap D = {} => [r EXCEPT !.deps = @ \ D] = r
           /\ [r EXCEPT !.deps = @ \ D] \in Row
           /\ [r EXCEPT !.deps = @ \ D].deps = r.deps \ D
<1>1. r.deps \cap D = {} => r.deps \ D = r.deps
  OBVIOUS
<1> QED
  BY <1>1 DEF Row

\* Taking two sets of tasks from the dependencies of a row is taking both.
LEMMA StrippedTwice ==
    ASSUME NEW r \in Row, NEW D, NEW R
    PROVE  [[r EXCEPT !.deps = @ \ D] EXCEPT !.deps = @ \ R]
             = [r EXCEPT !.deps = @ \ (D \cup R)]
<1>1. (r.deps \ D) \ R = r.deps \ (D \cup R)
  OBVIOUS
<1> QED
  BY <1>1 DEF Row

\* Removing rows that are not there, and removing twice.
LEMMA RemoveTwice ==
    ASSUME NEW b, BoardOK(b), NEW D, NEW R
    PROVE  Remove(Remove(b, D), R) = Remove(b, D \cup R)
<1> DEFINE c == Remove(b, D)
           d == Remove(c, R)
           e == Remove(b, D \cup R)
<1>1. DOMAIN d = DOMAIN e
  BY DEF Remove
<1>2. ASSUME NEW x \in DOMAIN e PROVE d[x] = e[x]
  <2>1. x \in DOMAIN b /\ x \notin D /\ x \notin R /\ b[x] \in Row
    BY DEF Remove, BoardOK
  <2>2. c[x] = [b[x] EXCEPT !.deps = @ \ D] /\ x \in DOMAIN c
    BY <2>1 DEF Remove
  <2>3. d[x] = [c[x] EXCEPT !.deps = @ \ R]
    BY <2>1, <2>2 DEF Remove
  <2>4. e[x] = [b[x] EXCEPT !.deps = @ \ (D \cup R)]
    BY <2>1 DEF Remove
  <2> HIDE DEF c, d, e
  <2> QED
    <3>1. [[b[x] EXCEPT !.deps = @ \ D] EXCEPT !.deps = @ \ R]
            = [b[x] EXCEPT !.deps = @ \ (D \cup R)]
      <4> DEFINE r == b[x]
      <4>1. r \in Row
        BY <2>1
      <4> HIDE DEF r
      <4>2. [[r EXCEPT !.deps = @ \ D] EXCEPT !.deps = @ \ R]
              = [r EXCEPT !.deps = @ \ (D \cup R)]
        BY <4>1, StrippedTwice
      <4> QED
        BY <4>2 DEF r
    <3> QED
      BY <2>2, <2>3, <2>4, <3>1
<1>3. d = [x \in DOMAIN d |-> d[x]] /\ e = [x \in DOMAIN e |-> e[x]]
  BY DEF Remove
<1> HIDE DEF d, e
<1> QED
  BY <1>1, <1>2, <1>3 DEF d, e

\* Rows that no row and no dependency names are no rows to remove.
LEMMA RemoveFewer ==
    ASSUME NEW b, BoardOK(b), LiveRefs(b), NEW D, NEW R, (D \cap DOMAIN b) \subseteq R, R \subseteq D
    PROVE  Remove(b, D) = Remove(b, R)
<1>1. DOMAIN b \ D = DOMAIN b \ R
  OBVIOUS
<1>2. ASSUME NEW x \in DOMAIN b \ R
      PROVE  [b[x] EXCEPT !.deps = @ \ D] = [b[x] EXCEPT !.deps = @ \ R]
  <2>1. b[x].deps \subseteq DOMAIN b
    BY DEF LiveRefs
  <2>2. b[x].deps \ D = b[x].deps \ R
    BY <2>1
  <2> QED
    BY <2>2
<1> QED
  BY <1>1, <1>2 DEF Remove

\* Removing nothing.
LEMMA RemoveNone ==
    ASSUME NEW b, BoardOK(b), NEW D, D = {}
    PROVE  Remove(b, D) = b
<1>1. ASSUME NEW x \in DOMAIN b PROVE [b[x] EXCEPT !.deps = @ \ D] = b[x]
  <2>1. b[x] \in Row /\ b[x].deps \cap D = {}
    BY DEF BoardOK
  <2> QED
    BY <2>1, StrippedRow
<1> QED
  BY <1>1 DEF Remove, BoardOK

\* The rows left when D has gone and the references to it have not.
Without(b, D) == [x \in DOMAIN b \ D |-> b[x]]

\* The references that delete() strips after the rows are gone are those that
\* named them.
LEMMA DoomRemoves ==
    ASSUME NEW b, BoardOK(b), NEW t, NEW rest, NEW begun, NEW spares, NEW c,
           c = Doom(b, t, rest, begun, spares)
    PROVE  /\ BoardOK(Without(b, c.doomed)) /\ DOMAIN c.todo \subseteq DOMAIN Without(b, c.doomed)
           /\ DOMAIN Without(b, c.doomed) = DOMAIN b \ c.doomed
           /\ Apply(Without(b, c.doomed), c.todo) = Remove(b, c.doomed)
<1> DEFINE D == SubtreeIds(b, t)
           d == [x \in DOMAIN b \ D |-> b[x]]
           named == {x \in DOMAIN b \ D : b[x].deps \cap D # {}}
           todo == [x \in named |-> [b[x] EXCEPT !.deps = @ \ D]]
<1>1. c.doomed = D /\ c.todo = todo /\ Without(b, c.doomed) = d
  BY DEF Doom, Without
<1>2. BoardOK(d) /\ DOMAIN todo \subseteq DOMAIN d /\ DOMAIN d = DOMAIN b \ D
  BY DEF BoardOK
<1>3. ASSUME NEW x \in DOMAIN b \ D
      PROVE  (IF x \in DOMAIN todo THEN todo[x] ELSE d[x]) = [b[x] EXCEPT !.deps = @ \ D]
  <2>1. CASE x \in named
    BY <2>1
  <2>2. CASE x \notin named
    <3>1. d[x] = b[x] /\ b[x].deps \cap D = {} /\ b[x] \in Row
      BY <2>2 DEF BoardOK
    <3> QED
      BY <2>2, <3>1, StrippedRow
  <2> QED
    BY <2>1, <2>2
<1> HIDE DEF D, d, todo
<1>4. Apply(d, todo) = Remove(b, D)
  BY <1>2, <1>3 DEF Apply, Remove
<1> QED
  BY <1>1, <1>2, <1>4

\* Marking twice is marking both.
LEMMA MarkTwice ==
    ASSUME NEW b, BoardOK(b), NEW M, NEW A
    PROVE  MarkDone(MarkDone(b, M), A) = MarkDone(b, M \cup A)
<1> DEFINE done(r) == [r EXCEPT !.status = "done", !.stamped = TRUE]
<1>1. \A x \in DOMAIN b : done(done(b[x])) = done(b[x])
  BY DEF BoardOK, Row
<1>2. DOMAIN MarkDone(b, M) = DOMAIN b
  BY DEF MarkDone
<1>3. \A x \in DOMAIN b : MarkDone(b, M)[x] = IF x \in M THEN done(b[x]) ELSE b[x]
  BY DEF MarkDone
<1> HIDE DEF done
<1>4. MarkDone(MarkDone(b, M), A)
        = [x \in DOMAIN b |-> IF x \in A THEN done(MarkDone(b, M)[x]) ELSE MarkDone(b, M)[x]]
  BY <1>2 DEF MarkDone, done
<1>5. MarkDone(b, M \cup A) = [x \in DOMAIN b |-> IF x \in M \cup A THEN done(b[x]) ELSE b[x]]
  BY DEF MarkDone, done
<1>6. ASSUME NEW x \in DOMAIN b
      PROVE  (IF x \in A THEN done(MarkDone(b, M)[x]) ELSE MarkDone(b, M)[x])
               = IF x \in M \cup A THEN done(b[x]) ELSE b[x]
  BY <1>1, <1>3
<1> QED
  BY <1>4, <1>5, <1>6
-----------------------------------------------------------------------------
(* One lemma per section.                                                  *)

\* create(): the checks.
LEMMA CreateMoves ==
    ASSUME NEW c, NEW b, NEW n, LoneHolds(c, b, n), c.pc = "idle",
           NEW p \in Id \cup {NoTask}, NEW deps \in SUBSET Id, NEW acc \in Check,
           n <= MaxId, MayCreate(b, p, deps),
           NEW e, e = [pc |-> "insert", row |-> NewRow(p, deps, acc)]
    PROVE  Moves(c, b, n, e, b, n)
<1>1. e.pc = "insert" /\ e.row = NewRow(p, deps, acc)
  OBVIOUS
<1>2. InsertReady(e, b, n)
  BY <1>1 DEF InsertReady
<1>3. LoneHolds(e, b, n) /\ Good(b)
  BY <1>1, <1>2 DEF LoneHolds
<1> QED
  BY <1>1, <1>3, PromiseIs, ReadMoves

\* create(): the insert.
LEMMA InsertMoves ==
    ASSUME NEW c, NEW b, NEW n, LoneHolds(c, b, n), c.pc = "insert"
    PROVE  Moves(c, b, n, Idle, Insert(b, n, c.row), n + 1)
<1> DEFINE d == Insert(b, n, c.row)
<1>1. /\ n \in 1 .. MaxId + 1 /\ DOMAIN b \subseteq 1 .. n - 1 /\ Good(b) /\ n <= MaxId
      /\ InsertReady(c, b, n)
  BY DEF LoneHolds, InsertReady
<1>2. PICK p \in Id \cup {NoTask}, deps \in SUBSET Id, acc \in Check :
        MayCreate(b, p, deps) /\ c.row = NewRow(p, deps, acc)
  BY <1>1 DEF InsertReady
<1>3. /\ c.row \in Row /\ c.row.parent = p /\ c.row.deps = deps
      /\ c.row.status = "pending" /\ ~c.row.stamped
  BY <1>2 DEF NewRow, Row, Status
<1>4. c.row.parent \in DOMAIN b \cup {NoTask} /\ c.row.deps \subseteq DOMAIN b
  BY <1>2, <1>3 DEF MayCreate, Open
<1>5. n \in Id \ DOMAIN b /\ n + 1 \in 1 .. MaxId + 1
  BY <1>1, BoundsAssumption DEF Id
<1>6. Good(d)
  BY <1>1, <1>3, <1>4, <1>5, InsertKeeps
<1>7. DOMAIN d = DOMAIN b \cup {n}
  BY DEF Insert
<1>8. DOMAIN d \subseteq 1 .. (n + 1) - 1
  BY <1>1, <1>5, <1>7, BoundsAssumption
<1>9. Creates(b, n, d, n + 1)
  BY <1>1, <1>2 DEF Creates
<1> HIDE DEF d
<1>10. LoneHolds(Idle, d, n + 1) /\ Promise(Idle, d) = d
  BY <1>5, <1>6, <1>8, IdleHolds
<1>11. Promise(c, b) = b
  BY PromiseIs
<1>12. Does(b, n, d, n + 1)
  BY <1>9 DEF Does
<1>13. Moves(c, b, n, Idle, d, n + 1)
  BY <1>10, <1>11, <1>12 DEF Moves
<1> QED
  BY <1>13 DEF d

\* update(): the copy.
LEMMA CopyMoves ==
    ASSUME NEW c, NEW b, NEW n, LoneHolds(c, b, n), c.pc = "idle",
           NEW t \in DOMAIN b, NEW p \in Patch,
           "deps" \in DOMAIN p => Cardinality(p.deps) <= DepsMax,
           NEW e, e = [pc |-> "update", id |-> t, row |-> ApplyPatch(b[t], p), patch |-> p,
                       cancels |-> ApplyPatch(b[t], p).status = "cancelled"
                                   /\ b[t].status # "cancelled"]
    PROVE  Moves(c, b, n, e, b, n)
<1>1. /\ e.pc = "update" /\ e.id = t /\ e.row = ApplyPatch(b[t], p) /\ e.patch = p
      /\ e.cancels <=> e.row.status = "cancelled" /\ b[t].status # "cancelled"
  OBVIOUS
<1>2. UpdateReady(e, b)
  BY <1>1 DEF UpdateReady
<1>3. LoneHolds(e, b, n) /\ Good(b)
  BY <1>1, <1>2 DEF LoneHolds
<1> QED
  BY <1>1, <1>3, PromiseIs, ReadMoves

\* update(): the write, with or without a branch to close.
LEMMA WriteMoves ==
    ASSUME NEW c, NEW b, NEW n, LoneHolds(c, b, n), c.pc = "update",
           TouchesGraph(c.patch) =>
             CheckGraphUpdate(Insert(b, c.id, c.row), c.id, "parent" \in DOMAIN c.patch),
           NEW e, e = IF c.cancels THEN [pc |-> "cascade", id |-> c.id, row |-> c.row] ELSE Idle
    PROVE  Moves(c, b, n, e, WriteTask(b, c.id, c.row), n)
<1> DEFINE d == [b EXCEPT ![c.id] = c.row]
<1>1. /\ n \in 1 .. MaxId + 1 /\ DOMAIN b \subseteq 1 .. n - 1 /\ Good(b) /\ BoardOK(b)
      /\ UpdateReady(c, b)
  BY DEF LoneHolds
<1>2. /\ c.id \in DOMAIN b /\ c.patch \in Patch /\ c.row = ApplyPatch(b[c.id], c.patch)
      /\ "deps" \in DOMAIN c.patch => Cardinality(c.patch.deps) <= DepsMax
      /\ c.cancels <=> c.row.status = "cancelled" /\ b[c.id].status # "cancelled"
      /\ c.id \in Id
  BY <1>1 DEF UpdateReady, BoardOK
<1>3. Insert(b, c.id, c.row) = d /\ WriteTask(b, c.id, c.row) = d
  BY <1>1, <1>2 DEF Insert, WriteTask, BoardOK
<1>4. /\ TouchesGraph(c.patch) => CheckGraphUpdate(d, c.id, "parent" \in DOMAIN c.patch)
      /\ d = [b EXCEPT ![c.id] = ApplyPatch(b[c.id], c.patch)]
  BY <1>2, <1>3
<1>5. Good(d)
  BY <1>1, <1>2, <1>4, PatchKeeps
<1>6. DOMAIN d = DOMAIN b /\ d[c.id] = c.row
  BY <1>2
<1>7. Patches(b, IF c.cancels THEN CascadeCancel(d, c.id) ELSE d)
  <2> DEFINE r == ApplyPatch(b[c.id], c.patch)
             w == IF r.status = "cancelled" /\ b[c.id].status # "cancelled"
                  THEN CascadeCancel(d, c.id) ELSE d
  <2>1. (IF c.cancels THEN CascadeCancel(d, c.id) ELSE d) = w
    BY <1>2
  <2>2. Patches(b, w)
    BY <1>2, <1>4 DEF Patches
  <2> QED
    BY <2>1, <2>2
<1> HIDE DEF d
<1>8. LoneHolds(e, d, n) /\ Promise(e, d) = IF c.cancels THEN CascadeCancel(d, c.id) ELSE d
  <2>1. CASE c.cancels
    <3>1. e.pc = "cascade" /\ e.id = c.id /\ e.row = c.row
      BY <2>1
    <3>2. CascadeReady(e, d)
      BY <1>2, <1>6, <2>1, <3>1 DEF CascadeReady
    <3>3. LoneHolds(e, d, n)
      BY <1>1, <1>5, <1>6, <3>1, <3>2 DEF LoneHolds, Good
    <3>4. Promise(e, d) = CascadeCancel(d, c.id)
      BY <3>1, PromiseIs
    <3> QED
      BY <2>1, <3>3, <3>4
  <2>2. CASE ~c.cancels
    BY <1>1, <1>5, <1>6, <2>2, IdleHolds
  <2> QED
    BY <2>1, <2>2
<1>9. Promise(c, b) = b
  BY PromiseIs
<1> QED
  BY <1>3, <1>7, <1>8, <1>9 DEF Moves, Does

\* A section that ends a call without a write.
LEMMA ReturnMoves ==
    ASSUME NEW c, NEW b, NEW n, LoneHolds(c, b, n), Good(b), Promise(c, b) = b
    PROVE  Moves(c, b, n, Idle, b, n)
<1>1. LoneHolds(Idle, b, n) /\ Promise(Idle, b) = b
  BY IdleHolds DEF LoneHolds
<1> QED
  BY <1>1 DEF Moves, Does

\* cascade_cancel(): the plan.
LEMMA PlanMoves ==
    ASSUME NEW c, NEW b, NEW n, LoneHolds(c, b, n), c.pc = "cascade",
           NEW f, f = Insert(b, c.id, c.row),
           NEW hit, hit = {x \in DOMAIN b \ {c.id} : CascadeCancel(f, c.id)[x] # f[x]},
           NEW level,
           NEW e, e = [pc |-> "cascading", todo |-> [x \in hit |-> CascadeCancel(f, c.id)[x]],
                       level |-> level]
    PROVE  Moves(c, b, n, e, b, n)
<1> DEFINE after == CascadeCancel(b, c.id)
<1>1. /\ n \in 1 .. MaxId + 1 /\ DOMAIN b \subseteq 1 .. n - 1 /\ Good(b) /\ BoardOK(b)
      /\ c.id \in DOMAIN b /\ c.row = b[c.id] /\ c.row.status = "cancelled"
  BY DEF LoneHolds, CascadeReady
<1>2. f = b
  BY <1>1 DEF Insert, BoardOK
<1>3. DOMAIN after = DOMAIN b /\ after[c.id] = b[c.id] /\ after = [x \in DOMAIN b |-> after[x]]
  BY <1>1 DEF CascadeCancel
<1>4. Good(after)
  BY <1>1, CascadeKeeps
<1>5. Promise(c, b) = after
  BY PromiseIs
<1> HIDE DEF after
<1>6. /\ e.pc = "cascading" /\ DOMAIN e.todo = hit /\ hit \subseteq DOMAIN b
      /\ \A x \in hit : e.todo[x] = after[x]
      /\ e = [pc |-> "cascading", todo |-> e.todo, level |-> e.level]
  BY <1>2 DEF after
<1>7. \A x \in DOMAIN b \ hit : after[x] = b[x]
  BY <1>2, <1>3 DEF after
<1>8. Apply(b, e.todo) = after
  BY <1>3, <1>6, <1>7 DEF Apply
<1>9. CascadeHalf(e, b)
  BY <1>4, <1>6, <1>8 DEF CascadeHalf
<1>10. LoneHolds(e, b, n)
  BY <1>1, <1>6, <1>9 DEF LoneHolds
<1>11. Promise(e, b) = after
  <2>1. Promise(e, b) = Apply(b, e.todo)
    BY <1>6, PromisePlan
  <2> QED
    BY <1>8, <2>1
<1> QED
  BY <1>5, <1>10, <1>11 DEF Moves, Does

\* cascade_cancel(): one write.
LEMMA CascadeMoves ==
    ASSUME NEW c, NEW b, NEW n, LoneHolds(c, b, n), c.pc = "cascading", NEW x \in DOMAIN c.todo,
           NEW e, e = [c EXCEPT !.todo = [y \in DOMAIN c.todo \ {x} |-> c.todo[y]]]
    PROVE  Moves(c, b, n, e, WriteTask(b, x, c.todo[x]), n)
<1> DEFINE d == WriteTask(b, x, c.todo[x])
           left == [y \in DOMAIN c.todo \ {x} |-> c.todo[y]]
<1>1. /\ n \in 1 .. MaxId + 1 /\ DOMAIN b \subseteq 1 .. n - 1 /\ BoardOK(b)
      /\ c = [pc |-> "cascading", todo |-> c.todo, level |-> c.level]
      /\ DOMAIN c.todo \subseteq DOMAIN b /\ Good(Apply(b, c.todo))
      /\ BoardOK(Apply(b, c.todo))
  BY DEF LoneHolds, CascadeHalf, Good
<1>2. /\ DOMAIN d = DOMAIN b /\ BoardOK(d) /\ DOMAIN left \subseteq DOMAIN d
      /\ Apply(d, left) = Apply(b, c.todo)
  BY <1>1, ApplyOne
<1> HIDE DEF d, left
<1>3. e = [c EXCEPT !.todo = left]
  BY DEF left
<1>4. e.pc = "cascading" /\ e.todo = left /\ e = [pc |-> "cascading", todo |-> e.todo, level |-> e.level]
  BY <1>1, <1>3
<1>5. CascadeHalf(e, d)
  BY <1>1, <1>2, <1>4 DEF CascadeHalf
<1>6. LoneHolds(e, d, n)
  BY <1>1, <1>2, <1>4, <1>5 DEF LoneHolds
<1>7. Promise(c, b) = Promise(e, d)
  <2>1. Promise(c, b) = Apply(b, c.todo)
    BY PromiseIs
  <2>2. Promise(e, d) = Apply(d, e.todo)
    BY <1>4, PromiseIs
  <2> QED
    BY <1>2, <1>4, <2>1, <2>2
<1>8. Moves(c, b, n, e, d, n)
  BY <1>6, <1>7 DEF Moves, Does
<1> QED
  BY <1>8 DEF d

\* cascade_cancel(): all written.
LEMMA CascadedMoves ==
    ASSUME NEW c, NEW b, NEW n, LoneHolds(c, b, n), c.pc = "cascading", DOMAIN c.todo = {}
    PROVE  Moves(c, b, n, Idle, b, n)
<1>1. BoardOK(b) /\ Good(Apply(b, c.todo)) /\ Promise(c, b) = Apply(b, c.todo)
  BY PromiseIs DEF LoneHolds, CascadeHalf
<1>2. Apply(b, c.todo) = b
  BY <1>1, ApplyNone
<1> QED
  BY <1>1, <1>2, ReturnMoves

\* complete(): the row.
LEMMA FoundMoves ==
    ASSUME NEW c, NEW b, NEW n, LoneHolds(c, b, n), c.pc = "idle",
           NEW t \in DOMAIN b, b[t].status # "done",
           NEW e, e = [pc |-> "complete", id |-> t, row |-> b[t]]
    PROVE  Moves(c, b, n, e, b, n)
<1>1. e.pc = "complete" /\ e.id = t /\ e.row = b[t]
  OBVIOUS
<1>2. CompleteReady(e, b)
  BY <1>1 DEF CompleteReady
<1>3. LoneHolds(e, b, n) /\ Good(b)
  BY <1>1, <1>2 DEF LoneHolds
<1> QED
  BY <1>1, <1>3, PromiseIs, ReadMoves

\* complete(): the mark, with which the ancestors are promised.
LEMMA MarkMoves ==
    ASSUME NEW c, NEW b, NEW n, LoneHolds(c, b, n), c.pc = "complete",
           \A k \in Children(b, c.id) : ~Open(b, k),
           NEW e, e = [pc |-> "ancestors", id |-> c.id, snap |-> b, current |-> c.row.parent,
                       closed |-> {c.id} \cup {x \in DOMAIN b : ~Open(b, x)}]
    PROVE  Moves(c, b, n, e, MarkDone(b, {c.id}), n)
<1> DEFINE t == c.id
           d == MarkDone(b, {t})
<1>1. /\ n \in 1 .. MaxId + 1 /\ DOMAIN b \subseteq 1 .. n - 1 /\ Good(b) /\ BoardOK(b)
      /\ t \in DOMAIN b /\ c.row = b[t] /\ b[t].status # "done" /\ t \in Id
  BY DEF LoneHolds, CompleteReady, BoardOK
<1>2. /\ e.pc = "ancestors" /\ e.id = t /\ e.snap = b /\ e.current = b[t].parent
      /\ e.closed = {t} \cup {x \in DOMAIN b : ~Open(b, x)}
      /\ e = [pc |-> "ancestors", id |-> e.id, snap |-> e.snap, current |-> e.current,
              closed |-> e.closed]
  BY <1>1
<1>3. Marked(e) = {t} /\ Chain(e) = AncestorChain(b, b[t].parent)
  BY <1>2 DEF Marked, Chain
<1>4. e.current \in Chain(e) \cup {NoTask}
  <2>1. CASE b[t].parent = NoTask
    BY <1>2, <2>1
  <2>2. CASE b[t].parent # NoTask
    <3>1. b[t].parent \in Id /\ ParentEdge(b) \in [Id -> SUBSET Id]
      BY <1>1, <2>2, EdgesType DEF BoardOK, Row
    <3>2. {b[t].parent} \ {NoTask} = {b[t].parent} /\ {b[t].parent} \in SUBSET Id
      BY <2>2, <3>1
    <3>3. {b[t].parent} \subseteq Reach(ParentEdge(b), {b[t].parent})
      BY <3>1, <3>2, ReachGrows
    <3> QED
      BY <1>2, <1>3, <3>2, <3>3 DEF AncestorChain
  <2> QED
    BY <2>1, <2>2
<1>5. Good(d) /\ BoardOK(d) /\ DOMAIN d = DOMAIN b
  BY <1>1, MarkDoneKeeps DEF Good, MarkDone
<1>6. WalkHalf(e, d)
  BY <1>1, <1>2, <1>3, <1>4 DEF WalkHalf
<1>7. LoneHolds(e, d, n)
  BY <1>1, <1>2, <1>5, <1>6 DEF LoneHolds
<1>8. Promise(e, d) = MarkDone(b, {t} \cup AutoCompleted(b, t))
  <2>1. Promise(e, d) = MarkDone(d, AutoCompleted(e.snap, e.id))
    BY <1>2, PromiseWalk
  <2> QED
    BY <1>1, <1>2, <2>1, MarkTwice
<1>9. Promise(c, b) = b
  BY PromiseIs
<1>10. Completes(b, Promise(e, d))
  BY <1>1, <1>8 DEF Completes
<1> HIDE DEF d
<1>11. Does(b, n, Promise(e, d), n)
  BY <1>10 DEF Does
<1> QED
  BY <1>7, <1>9, <1>11 DEF Moves, d

\* The chain above a task: the task, and then what is above its parent, which
\* does not come back to it.
LEMMA ChainStep ==
    ASSUME NEW s, Good(s), NEW k \in DOMAIN s
    PROVE  /\ AncestorChain(s, k) = {k} \cup AncestorChain(s, s[k].parent)
           /\ k \notin AncestorChain(s, s[k].parent)
           /\ AncestorChain(s, s[k].parent) = Up(s, k)
           /\ AncestorChain(s, k) = Reach(ParentEdge(s), {k})
           /\ AncestorChain(s, k) \in SUBSET (DOMAIN s)
           /\ AncestorChain(s, NoTask) = {}
<1> DEFINE P == ParentEdge(s)
<1>1. P \in [Id -> SUBSET Id] /\ k \in Id /\ k # NoTask /\ BoardOK(s) /\ LiveRefs(s)
  BY EdgesType, NoTaskIsNoId DEF Good, BoardOK
<1>2. AncestorChain(s, s[k].parent) = Up(s, k)
  BY <1>1, UpChain
<1>3. AncestorChain(s, k) = Reach(P, {k})
  <2>1. {k} \ {NoTask} = {k}
    BY <1>1
  <2> QED
    BY <2>1 DEF AncestorChain
<1>4. Reach(P, {k}) = {k} \cup Reach(P, P[k])
  <2> HIDE DEF P
  <2> QED
    BY <1>1, ReachStep
<1>5. k \notin Up(s, k) /\ Up(s, k) \subseteq DOMAIN s
  BY UpParent
<1>6. AncestorChain(s, NoTask) = {}
  <2>1. {NoTask} \ {NoTask} = {} /\ {} \in SUBSET Id /\ ClosedUnder(P, {})
    BY DEF ClosedUnder
  <2>2. Reach(P, {}) \subseteq {}
    <3> HIDE DEF P
    <3> QED
      BY <1>1, <2>1, ReachLeast
  <2> QED
    BY <2>1, <2>2 DEF AncestorChain
<1> QED
  BY <1>2, <1>3, <1>4, <1>5, <1>6 DEF Up

\* Of two tasks above each other neither is above the other twice.
LEMMA ChainOrder ==
    ASSUME NEW s, Good(s), NEW k \in DOMAIN s, NEW a \in AncestorChain(s, k)
    PROVE  /\ AncestorChain(s, a) \subseteq AncestorChain(s, k)
           /\ k \in AncestorChain(s, a) => a = k
<1> DEFINE P == ParentEdge(s)
<1>1. P \in [Id -> SUBSET Id] /\ k \in Id /\ P[k] \in SUBSET Id
  BY EdgesType DEF Good, BoardOK
<1>2. a \in DOMAIN s /\ AncestorChain(s, k) = Reach(P, {k})
  BY ChainStep
<1>3. AncestorChain(s, a) = Reach(P, {a})
  BY <1>2, ChainStep
<1>4. Reach(P, {a}) \subseteq Reach(P, {k})
  <2>1. {k} \in SUBSET Id /\ {a} \in SUBSET Reach(P, {k})
    BY <1>1, <1>2
  <2> HIDE DEF P
  <2> QED
    BY <1>1, <2>1, ReachTransitive
<1>5. ASSUME k \in AncestorChain(s, a), a # k PROVE FALSE
  <2>1. a \in Reach(P, P[k]) /\ k \notin Reach(P, P[k])
    <3>1. /\ AncestorChain(s, k) = {k} \cup AncestorChain(s, s[k].parent)
          /\ AncestorChain(s, s[k].parent) = Up(s, k) /\ k \notin AncestorChain(s, s[k].parent)
      BY ChainStep
    <3> QED
      BY <1>5, <3>1 DEF Up
  <2>2. Reach(P, {a}) \subseteq Reach(P, P[k])
    <3>1. {a} \in SUBSET Reach(P, P[k])
      BY <2>1
    <3> HIDE DEF P
    <3> QED
      BY <1>1, <3>1, ReachTransitive
  <2> QED
    BY <1>3, <1>5, <2>1, <2>2
<1> QED
  BY <1>2, <1>3, <1>4, <1>5

\* A child of a task is not above it.
LEMMA ChildBelow ==
    ASSUME NEW s, Good(s), NEW k \in DOMAIN s, NEW j \in Children(s, k)
    PROVE  j \notin AncestorChain(s, k)
<1>1. j \in DOMAIN s /\ s[j].parent = k
  BY DEF Children
<1> QED
  BY <1>1, ChainStep

\* The chain of a call: below it is the task itself; from any member on it is
\* that member's chain.
LEMMA ChainAbove ==
    ASSUME NEW c, Good(c.snap), c.id \in DOMAIN c.snap
    PROVE  /\ c.id \notin Chain(c) /\ Chain(c) \subseteq DOMAIN c.snap
           /\ \A k \in Chain(c) : /\ AncestorChain(c.snap, k) \subseteq Chain(c)
                                  /\ c.snap[k].parent \in Chain(c) \cup {NoTask}
<1> DEFINE s == c.snap
           t == c.id
           P == ParentEdge(s)
<1>1. Chain(c) = Up(s, t) /\ t \notin Chain(c) /\ Up(s, t) \subseteq DOMAIN s
  <2>1. AncestorChain(s, s[t].parent) = Up(s, t) /\ t \notin AncestorChain(s, s[t].parent)
    BY ChainStep
  <2> QED
    BY <2>1, UpParent DEF Chain
<1>2. ASSUME NEW k \in Chain(c)
      PROVE  AncestorChain(s, k) \subseteq Chain(c) /\ s[k].parent \in Chain(c) \cup {NoTask}
  <2>1. k \in DOMAIN s
    BY <1>1
  <2>2. P[k] \subseteq Up(s, t)
    BY <1>1, UpParent
  <2>3. s[k].parent \in Chain(c) \cup {NoTask}
    <3>1. k \in Id
      BY <2>1 DEF Good, BoardOK
    <3>2. P[k] = {s[k].parent} \ {NoTask}
      BY <2>1, <3>1 DEF ParentEdge
    <3> QED
      BY <1>1, <2>2, <3>2
  <2>4. AncestorChain(s, k) \subseteq Up(s, t)
    <3>1. P \in [Id -> SUBSET Id] /\ P[t] \in SUBSET Id /\ {k} \in SUBSET Reach(P, P[t])
      BY <1>1, EdgesType DEF Good, BoardOK, Up
    <3>2. Reach(P, {k}) \subseteq Reach(P, P[t])
      <4> HIDE DEF P
      <4> QED
        BY <3>1, ReachTransitive
    <3>3. AncestorChain(s, k) = Reach(P, {k})
      BY <2>1, ChainStep
    <3> QED
      BY <3>2, <3>3 DEF Up
  <2> QED
    BY <1>1, <2>3, <2>4
<1> QED
  BY <1>1, <1>2

\* complete(): the ancestor that the walk is about to mark ends with the task.
LEMMA EndsWithTask ==
    ASSUME NEW c, NEW b, WalkHalf(c, b), AncestorEnds(c)
    PROVE  c.current \in Chain(c) /\ c.current \in AutoCompleted(c.snap, c.id)
<1> DEFINE s == c.snap
           t == c.id
           k == c.current
<1>1. /\ Good(s) /\ t \in DOMAIN s /\ k \in DOMAIN s /\ k \in Chain(c) \cup {NoTask}
      /\ k \notin c.closed /\ s[k].acceptance = NoCheck /\ Children(s, k) \subseteq c.closed
      /\ c.closed = Marked(c) \cup {x \in DOMAIN s : ~Open(s, x)}
      /\ Marked(c) \ {t} \subseteq AutoCompleted(s, t)
  BY DEF WalkHalf, AncestorEnds
<1>2. k \in Chain(c)
  BY <1>1, NoTaskIsNoId DEF Good, BoardOK
<1>3. EndsWith(s, t, k)
  <2>1. Open(s, k)
    BY <1>1
  <2>2. ASSUME NEW j \in Children(s, k), Open(s, j) PROVE j = t \/ j \in Chain(c)
    BY <1>1, <2>2 DEF Marked
  <2> QED
    BY <1>1, <2>1, <2>2 DEF EndsWith, Chain
<1>4. ASSUME NEW a \in Chain(c), k \in AncestorChain(s, a) PROVE EndsWith(s, t, a)
  <2>1. a \in DOMAIN s
    BY <1>1, ChainAbove
  <2>2. CASE a \in AncestorChain(s, k)
    BY <1>1, <1>3, <1>4, <2>1, <2>2, ChainOrder
  <2>3. CASE a \notin AncestorChain(s, k)
    <3>1. a \in AutoCompleted(s, t)
      <4>1. a \in Marked(c) /\ a # t
        BY <1>1, <2>3, ChainAbove DEF Marked
      <4> QED
        BY <1>1, <4>1
    <3>2. a \in AncestorChain(s, a)
      <4>1. AncestorChain(s, a) = {a} \cup AncestorChain(s, s[a].parent)
        BY <1>1, <2>1, ChainStep
      <4> QED
        BY <4>1
    <3> QED
      BY <1>4, <3>1, <3>2 DEF AutoCompleted, Chain
  <2> QED
    BY <2>2, <2>3
<1> QED
  BY <1>2, <1>4 DEF AutoCompleted, Chain

\* complete(): where the walk stops, nothing above ends with the task.
LEMMA StopsWithTask ==
    ASSUME NEW c, NEW b, WalkHalf(c, b), ~AncestorEnds(c)
    PROVE  AutoCompleted(c.snap, c.id) \subseteq Marked(c)
<1> DEFINE s == c.snap
           t == c.id
           k == c.current
<1>1. /\ Good(s) /\ t \in DOMAIN s /\ k \in Chain(c) \cup {NoTask}
      /\ c.closed = Marked(c) \cup {x \in DOMAIN s : ~Open(s, x)}
  BY DEF WalkHalf
<1> SUFFICES ASSUME NEW a \in AutoCompleted(s, t), a \notin Marked(c) PROVE FALSE
  OBVIOUS
<1>2. a \in Chain(c) /\ a \in AncestorChain(s, k)
  BY DEF AutoCompleted, Chain, Marked
<1>3. k \in Chain(c) /\ k \in DOMAIN s /\ k # t
  <2>1. k # NoTask
    BY <1>1, <1>2, ChainStep
  <2> QED
    BY <1>1, <2>1, ChainAbove
<1>4. EndsWith(s, t, k)
  BY <1>2, <1>3 DEF AutoCompleted, Chain
<1>5. k \notin c.closed
  <2>1. AncestorChain(s, k) = {k} \cup AncestorChain(s, s[k].parent)
    BY <1>1, <1>3, ChainStep
  <2> QED
    BY <1>1, <1>3, <1>4, <2>1 DEF EndsWith, Marked
<1>6. ASSUME NEW j \in Children(s, k) PROVE j \in c.closed
  <2>1. j \in DOMAIN s /\ j \notin AncestorChain(s, k)
    BY <1>1, <1>3, ChildBelow DEF Children
  <2> QED
    BY <1>1, <1>4, <2>1 DEF EndsWith, Marked, Chain
<1> QED
  BY <1>3, <1>4, <1>5, <1>6 DEF AncestorEnds, EndsWith

\* complete(): an ancestor is marked.
LEMMA AscendMoves ==
    ASSUME NEW c, NEW b, NEW n, LoneHolds(c, b, n), c.pc = "ancestors", AncestorEnds(c),
           NEW e, e = [c EXCEPT !.closed = @ \cup {c.current},
                                !.current = c.snap[c.current].parent]
    PROVE  Moves(c, b, n, e, MarkDone(b, {c.current}), n)
<1> DEFINE s == c.snap
           t == c.id
           k == c.current
           d == MarkDone(b, {k})
           A == AutoCompleted(s, t)
<1>1. /\ n \in 1 .. MaxId + 1 /\ DOMAIN b \subseteq 1 .. n - 1 /\ Good(b) /\ BoardOK(b)
      /\ WalkHalf(c, b)
  BY DEF LoneHolds
<1>2. /\ c = [pc |-> "ancestors", id |-> t, snap |-> s, current |-> k, closed |-> c.closed]
      /\ Good(s) /\ BoardOK(s) /\ t \in DOMAIN s
      /\ b = MarkDone(s, Marked(c))
      /\ c.closed = Marked(c) \cup {x \in DOMAIN s : ~Open(s, x)}
      /\ Marked(c) \ {t} \subseteq A
  BY <1>1 DEF WalkHalf, Good
<1>3. k \in Chain(c) /\ k \in A /\ k \in DOMAIN s /\ t \notin Chain(c)
  BY <1>1, <1>2, EndsWithTask, ChainAbove
<1>4. /\ e.pc = "ancestors" /\ e.id = t /\ e.snap = s /\ e.current = s[k].parent
      /\ e.closed = c.closed \cup {k}
      /\ e = [pc |-> "ancestors", id |-> e.id, snap |-> e.snap, current |-> e.current,
              closed |-> e.closed]
  BY <1>2
<1>5. Chain(e) = Chain(c)
  BY <1>4 DEF Chain
<1>6. Marked(e) = Marked(c) \cup {k}
  <2>1. /\ AncestorChain(s, k) = {k} \cup AncestorChain(s, s[k].parent)
        /\ k \notin AncestorChain(s, s[k].parent)
    BY <1>2, <1>3, ChainStep
  <2> QED
    BY <1>3, <1>4, <1>5, <2>1 DEF Marked
<1>7. d = MarkDone(s, Marked(e)) /\ DOMAIN d = DOMAIN b
  BY <1>2, <1>6, MarkTwice DEF MarkDone
<1>8. Good(d) /\ BoardOK(d)
  BY <1>1, MarkDoneKeeps DEF Good
<1>9. e.current \in Chain(e) \cup {NoTask}
  BY <1>2, <1>3, <1>4, <1>5, ChainAbove
<1>10. WalkHalf(e, d)
  BY <1>2, <1>3, <1>4, <1>6, <1>7, <1>9 DEF WalkHalf
<1>11. LoneHolds(e, d, n)
  BY <1>1, <1>4, <1>7, <1>8, <1>10 DEF LoneHolds
<1>12. Promise(e, d) = MarkDone(b, {k} \cup A)
  <2>1. Promise(e, d) = MarkDone(d, AutoCompleted(e.snap, e.id))
    BY <1>4, PromiseWalk
  <2> QED
    BY <1>1, <1>4, <2>1, MarkTwice
<1>13. Promise(c, b) = MarkDone(b, A)
  BY PromiseIs
<1>14. {k} \cup A = A
  BY <1>3
<1> HIDE DEF d, A
<1>15. Moves(c, b, n, e, d, n)
  BY <1>11, <1>12, <1>13, <1>14 DEF Moves, Does
<1> QED
  BY <1>15 DEF d

\* complete(): the walk stops.
LEMMA AscendedMoves ==
    ASSUME NEW c, NEW b, NEW n, LoneHolds(c, b, n), c.pc = "ancestors", ~AncestorEnds(c)
    PROVE  Moves(c, b, n, Idle, b, n)
<1>1. /\ Good(b) /\ WalkHalf(c, b) /\ Good(c.snap) /\ BoardOK(c.snap)
      /\ b = MarkDone(c.snap, Marked(c))
  BY DEF LoneHolds, WalkHalf, Good
<1>2. Marked(c) \cup AutoCompleted(c.snap, c.id) = Marked(c)
  BY <1>1, StopsWithTask
<1>3. MarkDone(b, AutoCompleted(c.snap, c.id)) = b
  BY <1>1, <1>2, MarkTwice
<1> QED
  BY <1>1, <1>3, PromiseIs, ReturnMoves

\* reopen(): the row.
LEMMA ClosedMoves ==
    ASSUME NEW c, NEW b, NEW n, LoneHolds(c, b, n), c.pc = "idle",
           NEW t \in DOMAIN b, b[t].status \in Closed,
           NEW e, e = [pc |-> "reopen", id |-> t]
    PROVE  Moves(c, b, n, e, b, n)
<1>1. e.pc = "reopen" /\ e.id = t
  OBVIOUS
<1>2. ReopenReady(e, b)
  BY <1>1 DEF ReopenReady
<1>3. LoneHolds(e, b, n) /\ Good(b)
  BY <1>1, <1>2 DEF LoneHolds
<1> QED
  BY <1>1, <1>3, PromiseIs, ReadMoves

\* reopen(): the write.
LEMMA ReopenMoves ==
    ASSUME NEW c, NEW b, NEW n, LoneHolds(c, b, n), c.pc = "reopen",
           NEW d, d = IF c.id \in DOMAIN b
                      THEN [b EXCEPT ![c.id].status = "pending", ![c.id].stamped = FALSE]
                      ELSE b
    PROVE  Moves(c, b, n, Idle, d, n)
<1> DEFINE t == c.id
<1>1. /\ n \in 1 .. MaxId + 1 /\ DOMAIN b \subseteq 1 .. n - 1 /\ Good(b)
      /\ t \in DOMAIN b /\ b[t].status \in Closed /\ t \in Id
  BY DEF LoneHolds, ReopenReady, BoardOK
<1>2. d = [b EXCEPT ![t].status = "pending", ![t].stamped = FALSE]
  BY <1>1
<1>3. Good(d) /\ DOMAIN d = DOMAIN b
  BY <1>1, <1>2, ReopenKeeps
<1>4. Reopens(b, d)
  BY <1>1, <1>2 DEF Reopens
<1>5. LoneHolds(Idle, d, n) /\ Promise(Idle, d) = d
  BY <1>1, <1>3, IdleHolds
<1> QED
  BY <1>4, <1>5, PromiseIs DEF Moves, Does

\* The subtree of a task is part of what is closed downwards and holds it.
LEMMA SubtreeWithin ==
    ASSUME NEW b, BoardOK(b), NEW t \in DOMAIN b, NEW D \in SUBSET Id, t \in D, DownClosed(b, D)
    PROVE  SubtreeIds(b, t) \subseteq D
<1>1. ChildEdges(b) \in [Id -> SUBSET Id]
  BY EdgesType
<1>2. ClosedUnder(ChildEdges(b), D)
  BY DEF ClosedUnder, ChildEdges, Children, DownClosed
<1> QED
  BY <1>1, <1>2, ReachLeast DEF SubtreeIds

\* A task's subtree holds it and what is below it.
LEMMA SubtreeHolds ==
    ASSUME NEW b, BoardOK(b), NEW t \in DOMAIN b
    PROVE  /\ t \in SubtreeIds(b, t) /\ SubtreeIds(b, t) \in SUBSET Id
           /\ DownClosed(b, SubtreeIds(b, t))
<1>1. ChildEdges(b) \in [Id -> SUBSET Id] /\ {t} \in SUBSET Id
  BY EdgesType DEF BoardOK
<1>2. t \in SubtreeIds(b, t) /\ SubtreeIds(b, t) \in SUBSET Id
  BY <1>1, ReachGrows DEF SubtreeIds
<1>3. DownClosed(b, SubtreeIds(b, t))
  BY <1>1, SubtreeClosed DEF DownClosed, SubtreeIds
<1> QED
  BY <1>2, <1>3

\* The local state of a delete().
LEMMA DoomIs ==
    ASSUME NEW b, NEW t, NEW rest, NEW begun, NEW spares, NEW e, e = Doom(b, t, rest, begun, spares)
    PROVE  /\ e.pc = "delete" /\ e.doomed = SubtreeIds(b, t) /\ e.rest = rest
           /\ e.begun = begun /\ e.spares = spares
           /\ e = Doom(b, t, e.rest, e.begun, e.spares)
           /\ e = [pc |-> "delete", doomed |-> e.doomed, rest |-> e.rest, begun |-> e.begun,
                   spares |-> e.spares, todo |-> e.todo]
  BY DEF Doom

\* delete(): the doomed rows.
LEMMA DoomMoves ==
    ASSUME NEW c, NEW b, NEW n, LoneHolds(c, b, n), c.pc = "idle", NEW t \in DOMAIN b,
           NEW e, e = Doom(b, t, NoRest, FALSE, FALSE)
    PROVE  Moves(c, b, n, e, b, n)
<1>1. /\ e.pc = "delete" /\ e.doomed = SubtreeIds(b, t) /\ e.rest = NoRest
      /\ ~e.begun /\ ~e.spares
      /\ e = Doom(b, t, e.rest, e.begun, e.spares)
  BY DEF Doom
<1>2. DOMAIN NoRest = {}
  BY DEF NoRest
<1>3. Good(b) /\ BoardOK(b) /\ DOMAIN b \subseteq Id
  BY DEF LoneHolds, BoardOK
<1>4. e.doomed \cup DOMAIN e.rest = SubtreeIds(b, t)
  BY <1>1, <1>2
<1>5. /\ DownClosed(b, e.doomed \cup DOMAIN e.rest)
      /\ Taken(b, e.doomed \cup DOMAIN e.rest)
      /\ Spares(e, b, e.doomed \cup DOMAIN e.rest)
  BY <1>1, <1>3, <1>4, SubtreeHolds DEF Taken, Spares
<1>6. DeleteReady(e, b)
  BY <1>1, <1>2, <1>5 DEF DeleteReady
<1>7. LoneHolds(e, b, n)
  BY <1>1, <1>6 DEF LoneHolds
<1> QED
  BY <1>1, <1>3, <1>7, PromiseIs, ReadMoves

\* delete(): the rows go, and the references to them are still to strip.
LEMMA DropMoves ==
    ASSUME NEW c, NEW b, NEW n, LoneHolds(c, b, n), c.pc = "delete",
           NEW e, e = [c EXCEPT !.pc = "strip", !.begun = TRUE]
    PROVE  Moves(c, b, n, e, [x \in DOMAIN b \ c.doomed |-> b[x]], n)
<1> DEFINE D == c.doomed
           R == DOMAIN c.rest
           d == [x \in DOMAIN b \ D |-> b[x]]
           f == Remove(b, D)
<1>1. /\ n \in 1 .. MaxId + 1 /\ DOMAIN b \subseteq 1 .. n - 1 /\ Good(b) /\ BoardOK(b)
      /\ DeleteReady(c, b)
  BY DEF LoneHolds
<1>2. PICK t \in DOMAIN b : c = Doom(b, t, c.rest, c.begun, c.spares)
  BY <1>1 DEF DeleteReady
<1>3. /\ D = SubtreeIds(b, t)
      /\ c = [pc |-> "delete", doomed |-> D, rest |-> c.rest, begun |-> c.begun,
              spares |-> c.spares, todo |-> c.todo]
  BY <1>2, DoomIs
<1>4. /\ R \subseteq Id /\ DownClosed(b, D \cup R) /\ Spares(c, b, D \cup R)
      /\ ~c.begun => Taken(b, D \cup R)
  BY <1>1 DEF DeleteReady
<1>5. /\ BoardOK(d) /\ DOMAIN c.todo \subseteq DOMAIN d /\ DOMAIN d = DOMAIN b \ D
      /\ Apply(d, c.todo) = f
  <2> DEFINE rest == c.rest
             begun == c.begun
             spares == c.spares
  <2>1. c = Doom(b, t, rest, begun, spares)
    BY <1>2
  <2>2. d = Without(b, c.doomed)
    BY DEF Without
  <2>3. c.doomed = D
    OBVIOUS
  <2> HIDE DEF rest, begun, spares, d, D
  <2>4. BoardOK(b)
    BY <1>1
  <2> QED
    BY <2>1, <2>2, <2>3, <2>4, DoomRemoves
<1>6. /\ e.pc = "strip" /\ e.doomed = D /\ e.rest = c.rest /\ e.begun /\ e.spares = c.spares
      /\ e.todo = c.todo
      /\ e = [pc |-> "strip", doomed |-> e.doomed, rest |-> e.rest, begun |-> TRUE,
              spares |-> e.spares, todo |-> e.todo]
  BY <1>3
<1>7. Good(f)
  BY <1>1, <1>2, <1>3, SubtreeHolds, RemoveKeeps DEF DownClosed
<1>8. /\ DOMAIN f = DOMAIN b \ D
      /\ \A x \in DOMAIN f : f[x].parent = b[x].parent /\ f[x].status = b[x].status
  BY <1>1 DEF Remove, BoardOK, Row
<1>9. DownClosed(f, R)
  BY <1>4, <1>8 DEF DownClosed
<1>10. Spares(e, f, R)
  BY <1>4, <1>6, <1>8 DEF Spares, Open
<1>11. StripHalf(e, d)
  BY <1>4, <1>5, <1>6, <1>7, <1>9, <1>10 DEF StripHalf
<1>12. LoneHolds(e, d, n)
  BY <1>1, <1>5, <1>6, <1>11 DEF LoneHolds
<1>13. Promise(e, d) = Remove(b, D \cup R)
  BY <1>1, <1>5, <1>6, PromiseIs, RemoveTwice
<1> HIDE DEF d, f
<1>14. Does(Promise(c, b), n, Promise(e, d), n)
  <2>1. CASE c.begun
    BY <1>13, <2>1, PromiseIs DEF Does
  <2>2. CASE ~c.begun
    BY <1>4, <1>13, <2>2, PromiseIs DEF Does
  <2> QED
    BY <2>1, <2>2
<1>15. Moves(c, b, n, e, d, n)
  BY <1>12, <1>14 DEF Moves
<1> QED
  BY <1>15 DEF d

\* A reference stripped leaves the rest of the call as it was.
LEMMA StripWrites ==
    ASSUME NEW c, NEW D, NEW rest, NEW spares, NEW todo, NEW left,
           c = [pc |-> "strip", doomed |-> D, rest |-> rest, begun |-> TRUE,
                spares |-> spares, todo |-> todo],
           NEW e, e = [c EXCEPT !.todo = left]
    PROVE  /\ e.pc = "strip" /\ e.doomed = D /\ e.rest = rest /\ e.spares = spares
           /\ e.todo = left
           /\ e = [pc |-> "strip", doomed |-> D, rest |-> rest, begun |-> TRUE,
                   spares |-> spares, todo |-> left]
  OBVIOUS

\* delete(): one reference stripped.
LEMMA StripMoves ==
    ASSUME NEW c, NEW b, NEW n, LoneHolds(c, b, n), c.pc = "strip", NEW x \in DOMAIN c.todo,
           NEW e, e = [c EXCEPT !.todo = [y \in DOMAIN c.todo \ {x} |-> c.todo[y]]]
    PROVE  Moves(c, b, n, e, WriteTask(b, x, c.todo[x]), n)
<1> DEFINE d == WriteTask(b, x, c.todo[x])
           left == [y \in DOMAIN c.todo \ {x} |-> c.todo[y]]
<1>1. /\ n \in 1 .. MaxId + 1 /\ DOMAIN b \subseteq 1 .. n - 1 /\ BoardOK(b)
      /\ StripHalf(c, b)
  BY DEF LoneHolds
<1>2. /\ c = [pc |-> "strip", doomed |-> c.doomed, rest |-> c.rest, begun |-> TRUE,
              spares |-> c.spares, todo |-> c.todo]
      /\ DOMAIN c.todo \subseteq DOMAIN b /\ BoardOK(Apply(b, c.todo))
  BY <1>1 DEF StripHalf, Good
<1>3. /\ DOMAIN d = DOMAIN b /\ BoardOK(d) /\ DOMAIN left \subseteq DOMAIN d
      /\ Apply(d, left) = Apply(b, c.todo)
  BY <1>1, <1>2, ApplyOne
<1> HIDE DEF d, left
<1>4. e = [c EXCEPT !.todo = left]
  BY DEF left
<1>5. /\ e.pc = "strip" /\ e.doomed = c.doomed /\ e.rest = c.rest /\ e.spares = c.spares
      /\ e.todo = left
      /\ e = [pc |-> "strip", doomed |-> e.doomed, rest |-> e.rest, begun |-> TRUE,
              spares |-> e.spares, todo |-> e.todo]
  <2> DEFINE D == c.doomed
             rest == c.rest
             spares == c.spares
             todo == c.todo
  <2>1. c = [pc |-> "strip", doomed |-> D, rest |-> rest, begun |-> TRUE,
             spares |-> spares, todo |-> todo]
    BY <1>2
  <2> HIDE DEF D, rest, spares, todo
  <2>2. /\ e.pc = "strip" /\ e.doomed = D /\ e.rest = rest /\ e.spares = spares
        /\ e.todo = left
        /\ e = [pc |-> "strip", doomed |-> D, rest |-> rest, begun |-> TRUE,
                spares |-> spares, todo |-> left]
    BY <1>4, <2>1, StripWrites
  <2>3. D = c.doomed /\ rest = c.rest /\ spares = c.spares
    BY DEF D, rest, spares
  <2> QED
    BY <2>2, <2>3, Zenon
<1>6. StripHalf(e, d)
  BY <1>1, <1>3, <1>5 DEF StripHalf, Spares
<1>7. LoneHolds(e, d, n)
  BY <1>1, <1>3, <1>5, <1>6 DEF LoneHolds
<1>8. Promise(c, b) = Promise(e, d)
  <2>1. Promise(c, b) = Remove(Apply(b, c.todo), DOMAIN c.rest)
    BY PromiseIs
  <2>2. Promise(e, d) = Remove(Apply(d, e.todo), DOMAIN e.rest)
    BY <1>5, PromiseStrip
  <2> QED
    BY <1>3, <1>5, <2>1, <2>2
<1>9. Moves(c, b, n, e, d, n)
  BY <1>7, <1>8 DEF Moves, Does
<1> QED
  BY <1>9 DEF d

\* delete(): all references stripped, and the next target of a clear() if there
\* is one.
LEMMA StrippedMoves ==
    ASSUME NEW c, NEW b, NEW n, LoneHolds(c, b, n), c.pc = "strip", DOMAIN c.todo = {},
           NEW e, e = IF c.rest = NoRest THEN Idle
                      ELSE [pc |-> "clear", rest |-> c.rest, begun |-> TRUE, spares |-> c.spares]
    PROVE  Moves(c, b, n, e, b, n)
<1>1. /\ n \in 1 .. MaxId + 1 /\ DOMAIN b \subseteq 1 .. n - 1 /\ BoardOK(b)
      /\ StripHalf(c, b)
  BY DEF LoneHolds
<1>2. Apply(b, c.todo) = b
  BY <1>1, ApplyNone
<1>3. /\ Good(b) /\ DOMAIN c.rest \subseteq Id /\ DownClosed(b, DOMAIN c.rest)
      /\ Spares(c, b, DOMAIN c.rest)
  BY <1>1, <1>2 DEF StripHalf
<1>4. Promise(c, b) = Remove(b, DOMAIN c.rest)
  BY <1>2, PromiseIs
<1>5. CASE c.rest = NoRest
  <2>1. DOMAIN c.rest = {}
    BY <1>5 DEF NoRest
  <2>2. Promise(c, b) = b
    BY <1>1, <1>4, <2>1, RemoveNone
  <2> QED
    BY <1>3, <1>5, <2>2, ReturnMoves
<1>6. CASE c.rest # NoRest
  <2>1. /\ e.pc = "clear" /\ e.rest = c.rest /\ e.begun /\ e.spares = c.spares
        /\ e = [pc |-> "clear", rest |-> e.rest, begun |-> e.begun, spares |-> e.spares]
    BY <1>6
  <2>2. ClearHalf(e, b)
    BY <1>3, <2>1 DEF ClearHalf, Spares
  <2>3. LoneHolds(e, b, n)
    BY <1>1, <1>3, <2>1, <2>2 DEF LoneHolds
  <2>4. Promise(e, b) = Promise(c, b)
    <3>1. Promise(e, b) = Remove(b, DOMAIN e.rest)
      BY <2>1, PromiseIs
    <3> QED
      BY <1>4, <2>1, <3>1
  <2> QED
    BY <2>3, <2>4 DEF Moves, Does
<1> QED
  BY <1>5, <1>6

\* clear(): the targets.
LEMMA TargetsMoves ==
    ASSUME NEW c, NEW b, NEW n, LoneHolds(c, b, n), c.pc = "idle", NEW closedOnly \in BOOLEAN,
           NEW D, D = IF closedOnly THEN ClearableClosed(b) ELSE DOMAIN b,
           NEW rest, DOMAIN rest = D,
           NEW e, e = [pc |-> "clear", begun |-> FALSE, spares |-> closedOnly, rest |-> rest]
    PROVE  Moves(c, b, n, e, b, n)
<1>1. /\ e.pc = "clear" /\ ~e.begun /\ e.spares = closedOnly /\ e.rest = rest
      /\ e = [pc |-> "clear", rest |-> e.rest, begun |-> e.begun, spares |-> e.spares]
  OBVIOUS
<1>2. Good(b) /\ BoardOK(b) /\ DOMAIN b \subseteq Id
  BY DEF LoneHolds, BoardOK
<1>3. D \subseteq DOMAIN b
  BY DEF ClearableClosed
<1>4. DownClosed(b, D)
  BY <1>2, ClearableClosedDown DEF DownClosed
<1>5. Spares(e, b, D)
  BY <1>1, <1>2, SubtreeHolds DEF Spares, ClearableClosed
<1>6. ClearHalf(e, b)
  BY <1>1, <1>2, <1>3, <1>4, <1>5 DEF ClearHalf
<1>7. LoneHolds(e, b, n)
  BY <1>1, <1>6 DEF LoneHolds
<1> QED
  BY <1>1, <1>2, <1>7, PromiseIs, ReadMoves

\* clear(): the next target is still there.
LEMMA TargetMoves ==
    ASSUME NEW c, NEW b, NEW n, LoneHolds(c, b, n), c.pc = "clear",
           NEW t \in DOMAIN c.rest, t \in DOMAIN b,
           NEW left, DOMAIN left = (DOMAIN c.rest) \ {t},
           NEW e, e = Doom(b, t, left, c.begun, c.spares)
    PROVE  Moves(c, b, n, e, b, n)
<1> DEFINE R == DOMAIN c.rest
<1>1. Good(b) /\ BoardOK(b) /\ ClearHalf(c, b)
  BY DEF LoneHolds
<1>2. /\ R \subseteq Id /\ DownClosed(b, R) /\ Spares(c, b, R)
      /\ ~c.begun => R = ClearableClosed(b) \/ R = DOMAIN b
  BY <1>1 DEF ClearHalf
<1>3. /\ e.pc = "delete" /\ e.doomed = SubtreeIds(b, t) /\ e.rest = left
      /\ e.begun = c.begun /\ e.spares = c.spares
      /\ e = Doom(b, t, e.rest, e.begun, e.spares)
  BY DoomIs
<1>4. SubtreeIds(b, t) \subseteq R /\ t \in SubtreeIds(b, t)
  BY <1>1, <1>2, SubtreeWithin, SubtreeHolds
<1>5. e.doomed \cup DOMAIN e.rest = R
  BY <1>3, <1>4
<1>6. DeleteReady(e, b)
  <2>1. DOMAIN e.rest \subseteq Id
    BY <1>2, <1>3
  <2>2. ~e.begun => Taken(b, R)
    BY <1>2, <1>3 DEF Taken
  <2>3. Spares(e, b, R)
    BY <1>2, <1>3 DEF Spares
  <2> QED
    BY <1>2, <1>3, <1>5, <2>1, <2>2, <2>3 DEF DeleteReady
<1>7. LoneHolds(e, b, n)
  BY <1>3, <1>6 DEF LoneHolds
<1>8. Promise(e, b) = Promise(c, b)
  <2>1. CASE c.begun
    <3>1. Promise(e, b) = Remove(b, e.doomed \cup DOMAIN e.rest)
      BY <1>3, <2>1, PromiseDoom
    <3>2. Promise(c, b) = Remove(b, R)
      BY <2>1, PromiseIs
    <3> QED
      BY <1>5, <3>1, <3>2
  <2>2. CASE ~c.begun
    <3>1. Promise(e, b) = b
      BY <1>3, <2>2, PromiseIs
    <3>2. Promise(c, b) = b
      BY <2>2, PromiseIs
    <3> QED
      BY <3>1, <3>2
  <2> QED
    BY <2>1, <2>2
<1> QED
  BY <1>7, <1>8 DEF Moves, Does

\* clear(): an earlier delete has taken the next target.
LEMMA SkippedMoves ==
    ASSUME NEW c, NEW b, NEW n, LoneHolds(c, b, n), c.pc = "clear",
           NEW t \in DOMAIN c.rest, t \notin DOMAIN b,
           NEW left, DOMAIN left = (DOMAIN c.rest) \ {t},
           NEW e, e = [c EXCEPT !.rest = left]
    PROVE  Moves(c, b, n, e, b, n)
<1> DEFINE R == DOMAIN c.rest
<1>1. Good(b) /\ BoardOK(b) /\ LiveRefs(b) /\ ClearHalf(c, b)
  BY DEF LoneHolds, Good
<1>2. /\ R \subseteq Id /\ DownClosed(b, R) /\ Spares(c, b, R)
      /\ ~c.begun => R = ClearableClosed(b) \/ R = DOMAIN b
      /\ c = [pc |-> "clear", rest |-> c.rest, begun |-> c.begun, spares |-> c.spares]
  BY <1>1 DEF ClearHalf
<1>3. c.begun
  BY <1>2 DEF ClearableClosed
<1>4. /\ e.pc = "clear" /\ e.rest = left /\ e.begun /\ e.spares = c.spares
      /\ e = [pc |-> "clear", rest |-> e.rest, begun |-> e.begun, spares |-> e.spares]
  BY <1>2, <1>3
<1>5. DownClosed(b, R \ {t}) /\ Spares(e, b, R \ {t})
  BY <1>2, <1>4 DEF DownClosed, Spares
<1>6. ClearHalf(e, b)
  BY <1>2, <1>4, <1>5 DEF ClearHalf
<1>7. LoneHolds(e, b, n)
  BY <1>4, <1>6 DEF LoneHolds
<1>8. Remove(b, R) = Remove(b, R \ {t})
  <2>1. (R \cap DOMAIN b) \subseteq R \ {t}
    OBVIOUS
  <2> QED
    BY <1>1, <2>1, RemoveFewer
<1>9. Promise(e, b) = Promise(c, b)
  <2>1. Promise(e, b) = Remove(b, DOMAIN e.rest)
    BY <1>4, PromiseIs
  <2>2. Promise(c, b) = Remove(b, R)
    BY <1>3, PromiseIs
  <2> QED
    BY <1>4, <1>8, <2>1, <2>2
<1> QED
  BY <1>7, <1>9 DEF Moves, Does

\* clear(): no target is left.
LEMMA ClearedMoves ==
    ASSUME NEW c, NEW b, NEW n, LoneHolds(c, b, n), c.pc = "clear", DOMAIN c.rest = {}
    PROVE  Moves(c, b, n, Idle, b, n)
<1>1. Good(b) /\ BoardOK(b)
  BY DEF LoneHolds
<1>2. Promise(c, b) = b
  <2>1. CASE c.begun
    BY <1>1, <2>1, PromiseIs, RemoveNone
  <2>2. CASE ~c.begun
    BY <2>2, PromiseIs
  <2> QED
    BY <2>1, <2>2
<1> QED
  BY <1>1, <1>2, ReturnMoves
-----------------------------------------------------------------------------
(* A lone caller and its steps.                                            *)

\* There is one caller.
Alone == Actor = {LoneCaller}

\* The inductive invariant of a lone caller.
LoneInv == LoneHolds(call[LoneCaller], board, nextId) /\ DOMAIN call = Actor

\* Every critical section moves the rows promised by one step of the board, or
\* by none.
LEMMA SectionMoves ==
    ASSUME Alone, LoneInv, NEW a, a = LoneCaller, Step(a)
    PROVE  /\ Moves(call[a], board, nextId, call'[a], board', nextId')
           /\ DOMAIN call' = Actor
<1> DEFINE c == call[a]
           e == call'[a]
<1>a. a \in Actor /\ DOMAIN call = Actor /\ LoneHolds(c, board, nextId)
  BY DEF Alone, LoneInv
<1>e. \A x : call' = [call EXCEPT ![a] = x] => e = x /\ DOMAIN call' = Actor
  BY <1>a
<1>r. ASSUME Return(a), c.pc \notin {"cascade", "cascading", "ancestors", "strip", "clear", "delete"},
             board' = board, nextId' = nextId
      PROVE  Moves(c, board, nextId, e, board', nextId') /\ DOMAIN call' = Actor
  <2>1. e = Idle /\ DOMAIN call' = Actor
    BY <1>e, <1>r DEF Return, Continue
  <2>2. Good(board) /\ Promise(c, board) = board
    BY <1>a, <1>r, PromiseIs DEF LoneHolds
  <2> QED
    BY <1>a, <1>r, <2>1, <2>2, ReturnMoves
<1>1. ASSUME NEW p \in Id \cup {NoTask}, NEW deps \in SUBSET Id, NEW acc \in Check,
             CreateCheck(a, p, deps, acc)
      PROVE  Moves(c, board, nextId, e, board', nextId') /\ DOMAIN call' = Actor
  <2>1. /\ c.pc = "idle" /\ MayCreate(board, p, deps)
        /\ nextId + Cardinality({o \in Actor : At(o, "insert")}) <= MaxId
        /\ call' = [call EXCEPT ![a] = [pc |-> "insert", row |-> NewRow(p, deps, acc)]]
        /\ board' = board /\ nextId' = nextId
    BY <1>1 DEF CreateCheck, Starts, Continue
  <2>2. {o \in Actor : At(o, "insert")} = {}
    BY <2>1 DEF Alone, At
  <2>3. nextId <= MaxId
    <3>1. Cardinality({o \in Actor : At(o, "insert")}) = 0
      BY <2>2, FS_EmptySet
    <3> QED
      BY <1>a, <2>1, <3>1, BoundsAssumption DEF LoneHolds
  <2> QED
    BY <1>a, <1>e, <2>1, <2>3, CreateMoves
<1>2. ASSUME CreateInsert(a)
      PROVE  Moves(c, board, nextId, e, board', nextId') /\ DOMAIN call' = Actor
  BY <1>a, <1>e, <1>2, InsertMoves DEF CreateInsert, At, Return, Continue
<1>3. ASSUME NEW t \in Id, NEW p \in Patch, UpdateRead(a, t, p)
      PROVE  Moves(c, board, nextId, e, board', nextId') /\ DOMAIN call' = Actor
  BY <1>a, <1>e, <1>3, CopyMoves DEF UpdateRead, Starts, Continue
<1>4. ASSUME UpdateWrite(a)
      PROVE  Moves(c, board, nextId, e, board', nextId') /\ DOMAIN call' = Actor
  <2>1. c.pc = "update" /\ nextId' = nextId
    BY <1>4 DEF UpdateWrite, At
  <2> DEFINE admitted == TouchesGraph(c.patch) =>
                 CheckGraphUpdate(Insert(board, c.id, c.row), c.id, "parent" \in DOMAIN c.patch)
             next == IF c.cancels THEN [pc |-> "cascade", id |-> c.id, row |-> c.row] ELSE Idle
  <2>2. CASE admitted /\ board' = WriteTask(board, c.id, c.row) /\ call' = [call EXCEPT ![a] = next]
    <3>1. e = next /\ DOMAIN call' = Actor
      BY <1>e, <2>2
    <3>2. Moves(c, board, nextId, next, WriteTask(board, c.id, c.row), nextId)
      BY <1>a, <2>1, <2>2, WriteMoves
    <3> QED
      BY <2>1, <2>2, <3>1, <3>2
  <2>3. CASE Return(a) /\ board' = board
    BY <1>r, <2>1, <2>3
  <2> QED
    BY <1>4, <2>2, <2>3 DEF UpdateWrite, Return, Continue
<1>5. ASSUME CascadeLoad(a)
      PROVE  Moves(c, board, nextId, e, board', nextId') /\ DOMAIN call' = Actor
  <2> DEFINE f == Insert(board, c.id, c.row)
             after == CascadeCancel(f, c.id)
             hit == {x \in DOMAIN board \ {c.id} : after[x] # f[x]}
             level == [x \in hit |-> ParentDepth(f, x)]
             plan == [pc |-> "cascading", todo |-> [x \in hit |-> after[x]], level |-> level]
  <2>1. c.pc = "cascade" /\ board' = board /\ nextId' = nextId /\ call' = [call EXCEPT ![a] = plan]
    BY <1>5 DEF CascadeLoad, At, Continue
  <2>2. e = plan /\ DOMAIN call' = Actor
    BY <1>e, <2>1
  <2>3. Moves(c, board, nextId, plan, board, nextId)
    BY <1>a, <2>1, PlanMoves
  <2> QED
    BY <2>1, <2>2, <2>3
<1>6. ASSUME CascadeWrite(a)
      PROVE  Moves(c, board, nextId, e, board', nextId') /\ DOMAIN call' = Actor
  <2>1. c.pc = "cascading" /\ nextId' = nextId
    BY <1>6 DEF CascadeWrite, At
  <2>2. ASSUME NEW x \in DOMAIN c.todo, board' = WriteTask(board, x, c.todo[x]),
               call' = [call EXCEPT ![a] = [c EXCEPT !.todo =
                                              [y \in DOMAIN c.todo \ {x} |-> c.todo[y]]]]
        PROVE  Moves(c, board, nextId, e, board', nextId') /\ DOMAIN call' = Actor
    BY <1>a, <1>e, <2>1, <2>2, CascadeMoves
  <2>3. ASSUME DOMAIN c.todo = {}, board' = board, call' = [call EXCEPT ![a] = Idle]
        PROVE  Moves(c, board, nextId, e, board', nextId') /\ DOMAIN call' = Actor
    BY <1>a, <1>e, <2>1, <2>3, CascadedMoves
  <2> QED
    BY <1>6, <2>2, <2>3 DEF CascadeWrite, Return, Continue
<1>7. ASSUME NEW t \in Id, CompleteRead(a, t)
      PROVE  Moves(c, board, nextId, e, board', nextId') /\ DOMAIN call' = Actor
  BY <1>a, <1>e, <1>7, FoundMoves DEF CompleteRead, Starts, Continue
<1>8. ASSUME CompleteMark(a)
      PROVE  Moves(c, board, nextId, e, board', nextId') /\ DOMAIN call' = Actor
  <2> DEFINE begun == [pc |-> "ancestors", id |-> c.id, snap |-> board, current |-> c.row.parent,
                       closed |-> {c.id} \cup {x \in DOMAIN board : ~Open(board, x)}]
  <2>1. c.pc = "complete" /\ nextId' = nextId
    BY <1>8 DEF CompleteMark, At
  <2>2. CASE /\ \A k \in Children(board, c.id) : ~Open(board, k)
             /\ board' = MarkDone(board, {c.id}) /\ call' = [call EXCEPT ![a] = begun]
    <3>1. e = begun /\ DOMAIN call' = Actor
      BY <1>e, <2>2
    <3>2. Moves(c, board, nextId, begun, MarkDone(board, {c.id}), nextId)
      BY <1>a, <2>1, <2>2, MarkMoves
    <3> QED
      BY <2>1, <2>2, <3>1, <3>2
  <2>3. CASE Return(a) /\ board' = board
    BY <1>r, <2>1, <2>3
  <2> QED
    BY <1>8, <2>2, <2>3 DEF CompleteMark, Continue
<1>9. ASSUME CompleteAncestor(a)
      PROVE  Moves(c, board, nextId, e, board', nextId') /\ DOMAIN call' = Actor
  <2>1. c.pc = "ancestors" /\ nextId' = nextId
    BY <1>9 DEF CompleteAncestor, At
  <2>2. ASSUME AncestorEnds(c), board' = MarkDone(board, {c.current}),
               call' = [call EXCEPT ![a] = [c EXCEPT !.closed = @ \cup {c.current},
                                                     !.current = c.snap[c.current].parent]]
        PROVE  Moves(c, board, nextId, e, board', nextId') /\ DOMAIN call' = Actor
    BY <1>a, <1>e, <2>1, <2>2, AscendMoves
  <2>3. ASSUME ~AncestorEnds(c), board' = board, call' = [call EXCEPT ![a] = Idle]
        PROVE  Moves(c, board, nextId, e, board', nextId') /\ DOMAIN call' = Actor
    BY <1>a, <1>e, <2>1, <2>3, AscendedMoves
  <2> QED
    BY <1>9, <2>2, <2>3 DEF CompleteAncestor, Return, Continue
<1>10. ASSUME NEW t \in Id, ReopenRead(a, t)
       PROVE  Moves(c, board, nextId, e, board', nextId') /\ DOMAIN call' = Actor
  BY <1>a, <1>e, <1>10, ClosedMoves DEF ReopenRead, Starts, Continue
<1>11. ASSUME ReopenWrite(a)
       PROVE  Moves(c, board, nextId, e, board', nextId') /\ DOMAIN call' = Actor
  BY <1>a, <1>e, <1>11, ReopenMoves DEF ReopenWrite, At, Return, Continue
<1>12. ASSUME NEW t \in Id, DeleteRead(a, t)
       PROVE  Moves(c, board, nextId, e, board', nextId') /\ DOMAIN call' = Actor
  BY <1>a, <1>e, <1>12, DoomMoves DEF DeleteRead, Starts, Continue
<1>13. ASSUME DeleteRows(a)
       PROVE  Moves(c, board, nextId, e, board', nextId') /\ DOMAIN call' = Actor
  <2> DEFINE next == [c EXCEPT !.pc = "strip", !.begun = TRUE]
             d == [x \in DOMAIN board \ c.doomed |-> board[x]]
  <2>1. /\ c.pc = "delete" /\ board' = d /\ nextId' = nextId
        /\ call' = [call EXCEPT ![a] = next]
    BY <1>13 DEF DeleteRows, At, Continue
  <2>2. e = next /\ DOMAIN call' = Actor
    BY <1>e, <2>1
  <2>3. Moves(c, board, nextId, next, d, nextId)
    BY <1>a, <2>1, DropMoves
  <2> QED
    BY <2>1, <2>2, <2>3
<1>14. ASSUME StripReference(a)
       PROVE  Moves(c, board, nextId, e, board', nextId') /\ DOMAIN call' = Actor
  <2>1. c.pc = "strip" /\ nextId' = nextId
    BY <1>14 DEF StripReference, At
  <2>2. ASSUME NEW x \in DOMAIN c.todo, board' = WriteTask(board, x, c.todo[x]),
               call' = [call EXCEPT ![a] = [c EXCEPT !.todo =
                                              [y \in DOMAIN c.todo \ {x} |-> c.todo[y]]]]
        PROVE  Moves(c, board, nextId, e, board', nextId') /\ DOMAIN call' = Actor
    BY <1>a, <1>e, <2>1, <2>2, StripMoves
  <2> DEFINE next == IF c.rest = NoRest THEN Idle
                     ELSE [pc |-> "clear", rest |-> c.rest, begun |-> TRUE, spares |-> c.spares]
  <2>3. ASSUME DOMAIN c.todo = {}, board' = board, call' = [call EXCEPT ![a] = next]
        PROVE  Moves(c, board, nextId, e, board', nextId') /\ DOMAIN call' = Actor
    <3>1. e = next /\ DOMAIN call' = Actor
      BY <1>e, <2>3
    <3>2. Moves(c, board, nextId, next, board, nextId)
      BY <1>a, <2>1, <2>3, StrippedMoves
    <3> QED
      BY <2>1, <2>3, <3>1, <3>2
  <2> QED
    BY <1>14, <2>2, <2>3 DEF StripReference, Return, Continue
<1>15. ASSUME NEW closedOnly \in BOOLEAN, ClearRead(a, closedOnly)
       PROVE  Moves(c, board, nextId, e, board', nextId') /\ DOMAIN call' = Actor
  <2> DEFINE D == IF closedOnly THEN ClearableClosed(board) ELSE DOMAIN board
             rest == [t \in D |-> ParentDepth(board, t)]
             next == [pc |-> "clear", begun |-> FALSE, spares |-> closedOnly, rest |-> rest]
  <2>1. c.pc = "idle" /\ board' = board /\ nextId' = nextId /\ call' = [call EXCEPT ![a] = next]
    BY <1>15 DEF ClearRead, Starts, Continue
  <2>2. e = next /\ DOMAIN call' = Actor
    BY <1>e, <2>1
  <2>3. DOMAIN rest = D
    OBVIOUS
  <2>4. Moves(c, board, nextId, next, board, nextId)
    BY <1>a, <2>1, <2>3, TargetsMoves
  <2> QED
    BY <2>1, <2>2, <2>4
<1>16. ASSUME ClearTarget(a)
       PROVE  Moves(c, board, nextId, e, board', nextId') /\ DOMAIN call' = Actor
  <2> DEFINE left(t) == [x \in DOMAIN c.rest \ {t} |-> c.rest[x]]
  <2>1. c.pc = "clear" /\ board' = board /\ nextId' = nextId
    BY <1>16 DEF ClearTarget, At
  <2>2. ASSUME NEW t \in DOMAIN c.rest, t \in DOMAIN board,
               call' = [call EXCEPT ![a] = Doom(board, t, left(t), c.begun, c.spares)]
        PROVE  Moves(c, board, nextId, e, board', nextId') /\ DOMAIN call' = Actor
    <3>1. e = Doom(board, t, left(t), c.begun, c.spares) /\ DOMAIN call' = Actor
      BY <1>e, <2>2
    <3>2. DOMAIN left(t) = (DOMAIN c.rest) \ {t}
      OBVIOUS
    <3> HIDE DEF left
    <3> QED
      BY <1>a, <2>1, <2>2, <3>1, <3>2, TargetMoves
  <2>3. ASSUME NEW t \in DOMAIN c.rest, t \notin DOMAIN board,
               call' = [call EXCEPT ![a] = [c EXCEPT !.rest = left(t)]]
        PROVE  Moves(c, board, nextId, e, board', nextId') /\ DOMAIN call' = Actor
    <3>1. e = [c EXCEPT !.rest = left(t)] /\ DOMAIN call' = Actor
      BY <1>e, <2>3
    <3>2. DOMAIN left(t) = (DOMAIN c.rest) \ {t}
      OBVIOUS
    <3> HIDE DEF left
    <3> QED
      BY <1>a, <2>1, <2>3, <3>1, <3>2, SkippedMoves
  <2>4. ASSUME DOMAIN c.rest = {}, call' = [call EXCEPT ![a] = Idle]
        PROVE  Moves(c, board, nextId, e, board', nextId') /\ DOMAIN call' = Actor
    BY <1>a, <1>e, <2>1, <2>4, ClearedMoves
  <2> QED
    BY <1>16, <2>2, <2>3, <2>4 DEF ClearTarget, Return, Continue
<1> QED
  BY <1>1, <1>2, <1>3, <1>4, <1>5, <1>6, <1>7, <1>8, <1>9, <1>10, <1>11, <1>12, <1>13,
     <1>14, <1>15, <1>16 DEF Step

\* Before the first call.
LEMMA LoneStarts == Alone /\ RInit => LoneInv /\ Atomic!Init
<1> SUFFICES ASSUME Alone, RInit PROVE LoneInv /\ Atomic!Init
  OBVIOUS
<1>1. Init /\ call = [a \in Actor |-> Idle] /\ LoneCaller \in Actor
  BY DEF RInit, Alone
<1>2. call[LoneCaller] = Idle /\ DOMAIN call = Actor
  BY <1>1
<1>3. /\ nextId \in 1 .. MaxId + 1 /\ DOMAIN board \subseteq 1 .. nextId - 1 /\ Good(board)
  BY <1>1, InitIInv, IInvGood
<1>4. LoneHolds(Idle, board, nextId) /\ Promise(Idle, board) = board
  BY <1>3, IdleHolds
<1> QED
  BY <1>1, <1>2, <1>4 DEF LoneInv, Atomic!Init, Init

\* Every step keeps the invariant and is, for the rows promised, a step of the
\* board.
LEMMA LoneSteps == Alone /\ LoneInv /\ [RNext]_rvars => LoneInv' /\ [Atomic!Next]_(Atomic!vars)
<1> SUFFICES ASSUME Alone, LoneInv, [RNext]_rvars
             PROVE  LoneInv' /\ [Atomic!Next]_(Atomic!vars)
  OBVIOUS
<1> DEFINE p == Promise(call[LoneCaller], board)
<1>p. p' = Promise(call'[LoneCaller], board')
  BY DEF Promise
<1>1. CASE RNext
  <2>1. Step(LoneCaller)
    BY <1>1 DEF RNext, Alone
  <2>2. /\ LoneHolds(call'[LoneCaller], board', nextId') /\ DOMAIN call' = Actor
        /\ Does(p, nextId, Promise(call'[LoneCaller], board'), nextId')
    BY <2>1, SectionMoves DEF Moves
  <2>3. LoneInv'
    BY <2>2 DEF LoneInv
  <2>4. Does(p, nextId, p', nextId')
    <3> HIDE DEF p
    <3> QED
      BY <1>p, <2>2
  <2> QED
    BY <2>3, <2>4, DoesAtomic
<1>2. CASE UNCHANGED rvars
  <2>1. call' = call /\ board' = board /\ nextId' = nextId
    BY <1>2 DEF rvars
  <2>2. LoneInv'
    BY <2>1 DEF LoneInv
  <2>3. p' = p
    <3> HIDE DEF p
    <3> QED
      BY <1>p, <2>1 DEF p
  <2> QED
    BY <2>1, <2>2, <2>3 DEF Atomic!vars
<1> QED
  BY <1>1, <1>2

\* Whatever else it does between two critical sections, a caller alone cannot
\* tell the store from the board whose every operation is one step: update()
\* with its cascade, complete() with its ancestors, delete() and clear() with
\* their rows and references, each takes effect at its first write and ends
\* with what it promised then.
THEOREM LoneCallerAtomic == ASSUME Alone PROVE RSpec => ImplementsTaskBoard
<1>1. RInit => LoneInv /\ Atomic!Init
  BY LoneStarts
<1>2. LoneInv /\ [RNext]_rvars => LoneInv' /\ [Atomic!Next]_(Atomic!vars)
  BY LoneSteps
<1> QED
  BY <1>1, <1>2, PTL DEF RSpec, ImplementsTaskBoard, Atomic!Spec

\* A section takes an open task off the board only for a delete() or a clear()
\* that asks for it.
LEMMA SectionSpares ==
    ASSUME Alone, LoneInv, Step(LoneCaller),
           NEW t \in DOMAIN board \ DOMAIN board', Open(board, t)
    PROVE  \E a \in Actor : At(a, "delete") /\ call'[a].pc = "strip" /\ ~call[a].spares
<1> DEFINE a == LoneCaller
           c == call[a]
<1>a. a \in Actor /\ LoneHolds(c, board, nextId) /\ DOMAIN call = Actor
  BY DEF Alone, LoneInv
<1>k. ASSUME NEW x, NEW r, board' = WriteTask(board, x, r) PROVE FALSE
  BY <1>k DEF WriteTask
<1>m. ASSUME NEW S, board' = MarkDone(board, S) PROVE FALSE
  BY <1>m DEF MarkDone
<1>u. ASSUME board' = board PROVE FALSE
  BY <1>u
<1>1. ~CreateInsert(a)
  BY DEF CreateInsert, Insert
<1>2. ~UpdateWrite(a) /\ ~CascadeWrite(a) /\ ~StripReference(a)
  BY <1>k, <1>u DEF UpdateWrite, CascadeWrite, StripReference
<1>3. ~CompleteMark(a) /\ ~CompleteAncestor(a)
  BY <1>m, <1>u DEF CompleteMark, CompleteAncestor
<1>4. ~ReopenWrite(a)
  BY <1>u DEF ReopenWrite
<1>5. CASE DeleteRows(a)
  <2>1. /\ c.pc = "delete" /\ board' = [x \in DOMAIN board \ c.doomed |-> board[x]]
        /\ call' = [call EXCEPT ![a] = [c EXCEPT !.pc = "strip", !.begun = TRUE]]
    BY <1>5 DEF DeleteRows, At, Continue
  <2>2. t \in c.doomed
    BY <2>1
  <2>3. DeleteReady(c, board)
    BY <1>a, <2>1 DEF LoneHolds
  <2>4. ~c.spares
    BY <2>2, <2>3 DEF DeleteReady, Spares
  <2>5. PICK s \in DOMAIN board : c = Doom(board, s, c.rest, c.begun, c.spares)
    BY <2>3 DEF DeleteReady
  <2>6. c = [pc |-> "delete", doomed |-> c.doomed, rest |-> c.rest, begun |-> c.begun,
             spares |-> c.spares, todo |-> c.todo]
    BY <2>5, DoomIs
  <2>7. call'[a].pc = "strip"
    BY <1>a, <2>1, <2>6
  <2> QED
    BY <1>a, <2>1, <2>4, <2>7 DEF At
<1> QED
  BY <1>1, <1>2, <1>3, <1>4, <1>5, <1>u
  DEF Step, CreateCheck, UpdateRead, CascadeLoad, CompleteRead, ReopenRead, DeleteRead,
      ClearRead, ClearTarget

\* clear(closed_only) of a caller alone takes no open task, although it deletes
\* target after target with everything below.
THEOREM ClearSpares == ASSUME Alone PROVE RSpec => ClearSparesOpenTasks
<1> DEFINE A == \A t \in DOMAIN board \ DOMAIN board' : Open(board, t) =>
                   \E a \in Actor : At(a, "delete") /\ call'[a].pc = "strip" /\ ~call[a].spares
<1>1. RInit => LoneInv
  BY LoneStarts
<1>2. LoneInv /\ [RNext]_rvars => LoneInv'
  BY LoneSteps
<1>3. LoneInv /\ [RNext]_rvars => [A]_rvars
  <2>1. ASSUME LoneInv, RNext PROVE A
    <3>1. Step(LoneCaller)
      BY <2>1 DEF RNext, Alone
    <3> QED
      BY <2>1, <3>1, SectionSpares
  <2> QED
    BY <2>1
<1> QED
  BY <1>1, <1>2, <1>3, PTL DEF RSpec, ClearSparesOpenTasks
-----------------------------------------------------------------------------
(* TaskWalk: the walk decides reachability.                                *)

\* The loop keeps its frontier invariant (check_ancestor_dependency).
THEOREM WalkInvariant == WSpec => []WalkInv
<1>1. WInit => WalkInv
  <2> SUFFICES ASSUME WInit PROVE WalkInv
    OBVIOUS
  <2>1. start \subseteq Reach(succ, start)
    BY ReachGrows DEF WInit
  <2> QED
    BY <2>1 DEF WInit, WalkInv, WTypeOK
<1>2. WalkInv /\ [WNext]_walk => WalkInv'
  <2> SUFFICES ASSUME WalkInv, [WNext]_walk PROVE WalkInv'
    OBVIOUS
  <2> USE DEF WalkInv, WTypeOK
  <2>1. ASSUME NEW n \in Node, Hit(n) PROVE WalkInv'
    BY <2>1 DEF Hit
  <2>2. ASSUME NEW n \in Node, Skip(n) PROVE WalkInv'
    BY <2>2 DEF Skip
  <2>3. ASSUME NEW n \in Node, Expand(n) PROVE WalkInv'
    <3>1. succ[n] \subseteq Reach(succ, start)
      BY <2>3, ReachGrows DEF Expand
    <3>2. succ[n] \subseteq Node
      BY <2>3 DEF Expand
    <3> QED
      BY <2>3, <3>1, <3>2 DEF Expand
  <2>4. CASE Exhausted
    BY <2>4 DEF Exhausted
  <2>5. CASE UNCHANGED walk
    BY <2>5 DEF walk
  <2> QED
    BY <2>1, <2>2, <2>3, <2>4, <2>5 DEF WNext
<1> QED
  BY <1>1, <1>2, PTL DEF WSpec

\* The frontier invariant decides the verdict and the visited set.
LEMMA WalkInvDecides == WalkInv => VerdictIsReachability /\ VisitedIsReach
<1> SUFFICES ASSUME WalkInv PROVE VerdictIsReachability /\ VisitedIsReach
  OBVIOUS
<1>1. verdict = "err" => Reach(succ, start) \cap targets # {}
  BY DEF WalkInv
<1>2. ASSUME verdict = "ok" PROVE visited = Reach(succ, start)
  <2>1. queue = {} /\ start \subseteq visited /\ ClosedUnder(succ, visited)
    BY <1>2 DEF WalkInv, ClosedUnder
  <2>2. Reach(succ, start) \subseteq visited
    BY <2>1, ReachLeast DEF WalkInv, WTypeOK
  <2> QED
    BY <2>2 DEF WalkInv
<1>3. verdict = "ok" => Reach(succ, start) \cap targets = {}
  BY <1>2 DEF WalkInv
<1> QED
  BY <1>1, <1>2, <1>3 DEF VerdictIsReachability, VisitedIsReach

\* check_dependency_cycle and check_ancestor_dependency reject a change
\* exactly when a target can be reached along depends_on, and
\* subtree_ids_from returns exactly the tasks below the root.
THEOREM WalkDecides == WSpec => []WalkSound
<1>1. WalkInv => WalkSound
  BY WalkInvDecides DEF WalkSound
<1> QED
  BY <1>1, WalkInvariant, PTL
=============================================================================
