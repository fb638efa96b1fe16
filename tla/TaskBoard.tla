----------------------------- MODULE TaskBoard -----------------------------
(***************************************************************************)
(* One scope of the task store (crates/nanna-storage/src/tasks.rs), with   *)
(* every operation of TaskRepository as one atomic step: what the store    *)
(* promises to a caller that has it to itself.  TaskRepository.tla splits  *)
(* the same operations at the points where the code releases the           *)
(* connection mutex.                                                       *)
(*                                                                         *)
(* A row keeps the columns that the other operations read: status, parent, *)
(* dependencies, the acceptance contract and whether completed_at is set.  *)
(* Title, notes, labels, dates and ordering are left out: no guard here    *)
(* reads them.  A rejected call changes nothing, so it is not a step.      *)
(***************************************************************************)
EXTENDS Integers, FiniteSets, TaskGraph

CONSTANTS
    MaxId,      \* bound on the ids the AUTOINCREMENT column hands out
    DepthMax,   \* TASK_DEPTH_MAX
    DepsMax,    \* TASK_DEPS_MAX
    ScopeMax,   \* TASKS_PER_SCOPE_MAX
    Contract,   \* distinct acceptance checks
    NoCheck,    \* acceptance: None
    Patch       \* the TaskPatch values callers send

Id      == 1 .. MaxId
NoTask  == 0                    \* parent_id: None; ids start at 1
Status  == {"pending", "in_progress", "done", "cancelled"}
Closed  == {"done", "cancelled"}
Check   == Contract \cup {NoCheck}

Row == [status : Status, parent : Id \cup {NoTask}, deps : SUBSET Id,
        acceptance : Check, stamped : BOOLEAN]

\* A patch is a record with any subset of these fields: an absent field is
\* a None in TaskPatch.
PatchOK(p) ==
    /\ DOMAIN p \subseteq {"status", "parent", "deps", "acceptance"}
    /\ "status" \in DOMAIN p => p.status \in Status \ {"done"}
    /\ "parent" \in DOMAIN p => p.parent \in Id \cup {NoTask}
    /\ "deps" \in DOMAIN p => p.deps \in SUBSET Id
    /\ "acceptance" \in DOMAIN p => p.acceptance \in Check

ASSUME BoundsAssumption ==
    /\ MaxId \in Nat /\ DepthMax \in Nat \ {0} /\ DepsMax \in Nat /\ ScopeMax \in Nat
    /\ NoCheck \notin Contract
    /\ \A p \in Patch : PatchOK(p)

VARIABLES
    board,      \* the scope's rows by id: DOMAIN board are the live tasks
    nextId      \* the AUTOINCREMENT counter: ids are never reused

vars == <<board, nextId>>
-----------------------------------------------------------------------------
(* Reading a scope.  Every operator takes the rows it reads, b, because    *)
(* the code evaluates them on snapshots.                                   *)

Open(b, t)     == t \in DOMAIN b /\ b[t].status \notin Closed
Children(b, t) == {c \in DOMAIN b : b[c].parent = t}

DepEdges(b) ==
    [t \in Id |-> IF t \in DOMAIN b THEN b[t].deps ELSE {}]
ParentEdge(b) ==
    [t \in Id |-> IF t \in DOMAIN b THEN {b[t].parent} \ {NoTask} ELSE {}]
ChildEdges(b) ==
    [t \in Id |-> Children(b, t)]

\* p and everything above it.
AncestorChain(b, p) == Reach(ParentEdge(b), {p} \ {NoTask})

\* root and everything below it.
SubtreeIds(b, root) == Reach(ChildEdges(b), {root})

\* Depth counted from the root: a root has depth 0.
ParentDepth(b, t) == Cardinality(AncestorChain(b, b[t].parent))

\* Mutant: the moved subtree counts as a leaf.
HeightIgnored(b, root) == 0

\* Longest path below root.
SubtreeHeight(b, root) ==
    LET tree == SubtreeIds(b, root)
        below(t) == Cardinality(AncestorChain(b, t) \cap tree) - 1
    IN CHOOSE h \in 0 .. MaxId :
          /\ \E t \in tree : below(t) = h
          /\ \A t \in tree : below(t) <= h

\* A dependency blocks only when it is present in the scope and open.
IsBlocked(b, t) == \E d \in b[t].deps : Open(b, d)

\* What next() may return: open, unblocked, no open child.
Actionable(b) ==
    {t \in DOMAIN b : /\ Open(b, t)
                      /\ ~IsBlocked(b, t)
                      /\ \A c \in Children(b, t) : ~Open(b, c)}

\* No dependency in deps leads, directly or through others, to an ancestor.
NoAncestorDependency(b, ancestors, deps) ==
    Reach(DepEdges(b), deps) \cap ancestors = {}

\* Mutant: only a direct dependency on itself is refused.
DirectCycleOnly(b, t) == t \in b[t].deps

\* Following dependencies from t leads back to t.
DependencyCycle(b, t) == t \in Reach(DepEdges(b), b[t].deps)

\* Mutant: a move is checked for the moved task alone.
MovedTaskAvoids(b, t, ancestors) == TRUE

\* No task below t depends on one of the ancestors.
SubtreeAvoids(b, t, ancestors) ==
    \A m \in SubtreeIds(b, t) \ {t} :
        NoAncestorDependency(b, ancestors, b[m].deps)
-----------------------------------------------------------------------------
(* Writing a scope: the rows an operation leaves behind.                   *)

\* Guard of create(), evaluated on the rows b.
MayCreate(b, p, deps) ==
    /\ Cardinality(deps) <= DepsMax
    /\ Cardinality(DOMAIN b) < ScopeMax
    /\ p # NoTask => /\ Open(b, p)
                     /\ ParentDepth(b, p) + 1 < DepthMax
    /\ deps \subseteq DOMAIN b
    /\ (p # NoTask /\ deps # {}) =>
          NoAncestorDependency(b, AncestorChain(b, p), deps)

NewRow(p, deps, a) ==
    [status |-> "pending", parent |-> p, deps |-> deps,
     acceptance |-> a, stamped |-> FALSE]

Insert(b, t, r) == [x \in DOMAIN b \cup {t} |-> IF x = t THEN r ELSE b[x]]

ApplyPatch(r, p) ==
    LET s == IF "status" \in DOMAIN p THEN p.status ELSE r.status
    IN [status     |-> s,
        parent     |-> IF "parent" \in DOMAIN p THEN p.parent ELSE r.parent,
        deps       |-> IF "deps" \in DOMAIN p THEN p.deps ELSE r.deps,
        acceptance |-> IF "acceptance" \in DOMAIN p THEN p.acceptance
                       ELSE r.acceptance,
        stamped    |-> r.stamped /\ ~("status" \in DOMAIN p /\ s # "cancelled")]

TouchesGraph(p) == "deps" \in DOMAIN p \/ "parent" \in DOMAIN p

\* Mutant: a new parent is not checked.
CheckDepsOnly(b, t, parentChanged) ==
    /\ b[t].deps \subseteq DOMAIN b \ {t}
    /\ ~DependencyCycle(b, t)

\* The rows b already hold the patched row of t.
CheckGraphUpdate(b, t, parentChanged) ==
    LET p         == b[t].parent
        ancestors == AncestorChain(b, p)
    IN /\ b[t].deps \subseteq DOMAIN b \ {t}
       /\ ~DependencyCycle(b, t)
       /\ p # NoTask =>
             /\ p \in DOMAIN b \ {t}
             /\ parentChanged => Open(b, p)
             /\ t \notin ancestors
             /\ Cardinality(ancestors) < DepthMax
             /\ parentChanged =>
                   Cardinality(ancestors) + SubtreeHeight(b, t) < DepthMax
       /\ NoAncestorDependency(b, ancestors, b[t].deps)
       /\ parentChanged => SubtreeAvoids(b, t, ancestors)

\* An open child whose acceptance check is its own, not its parent's.
OwnContract(b, c) ==
    /\ Open(b, c)
    /\ b[c].acceptance # NoCheck
    /\ b[c].parent \in DOMAIN b =>
          b[b[c].parent].acceptance # b[c].acceptance

\* Mutant: the cascade stops at closed children.
CascadeOpenOnly(b) ==
    [t \in Id |-> {c \in Children(b, t) : Open(b, c) /\ ~OwnContract(b, c)}]

\* The tasks the cascade visits from t: it passes through closed children
\* and stops at children with a contract of their own.
CascadeEdges(b) ==
    [t \in Id |-> {c \in Children(b, t) : ~OwnContract(b, c)}]

\* Close the open subtree of the cancelled t; a child with a contract of its
\* own moves, with its subtree, under t's parent.
CascadeCancel(b, t) ==
    LET walked == Reach(CascadeEdges(b), {t})
    IN [x \in DOMAIN b |->
          IF x = t THEN b[x]
          ELSE IF b[x].parent \in walked /\ OwnContract(b, x)
               THEN [b[x] EXCEPT !.parent = b[t].parent]
          ELSE IF x \in walked /\ Open(b, x)
               THEN [b[x] EXCEPT !.status = "cancelled"]
          ELSE b[x]]

MarkDone(b, S) ==
    [x \in DOMAIN b |->
       IF x \in S THEN [b[x] EXCEPT !.status = "done", !.stamped = TRUE]
       ELSE b[x]]

\* Mutants: a contract ends with the children; one child ends the parent.
EndsWithContract(b, t, c) ==
    /\ Open(b, c)
    /\ \A k \in Children(b, c) :
          Open(b, k) => k = t \/ k \in AncestorChain(b, b[t].parent)
EndsWithSiblingsOpen(b, t, c) == Open(b, c) /\ b[c].acceptance = NoCheck

\* The ancestor c of t is open, carries no contract, and has no open child
\* besides t and t's other ancestors.
EndsWith(b, t, c) ==
    /\ Open(b, c)
    /\ b[c].acceptance = NoCheck
    /\ \A k \in Children(b, c) :
          Open(b, k) => k = t \/ k \in AncestorChain(b, b[t].parent)

\* An ancestor auto-completes with t when every task from t's parent up to it
\* ends with t.
AutoCompleted(b, t) ==
    LET chain == AncestorChain(b, b[t].parent)
    IN {a \in chain :
          \A c \in chain : a \in AncestorChain(b, c) => EndsWith(b, t, c)}

\* Mutant: the references to deleted rows stay behind.
RemoveUnstripped(b, D) == [x \in DOMAIN b \ D |-> b[x]]

\* Drop the rows D and every reference to them from the other rows.
Remove(b, D) ==
    [x \in DOMAIN b \ D |-> [b[x] EXCEPT !.deps = @ \ D]]

\* Mutant: a closed task goes, whatever is below it.
EveryClosed(b) == {t \in DOMAIN b : ~Open(b, t)}

\* What clear(closed_only) deletes: closed tasks without an open descendant.
ClearableClosed(b) ==
    {t \in DOMAIN b : \A x \in SubtreeIds(b, t) : ~Open(b, x)}
-----------------------------------------------------------------------------
Init == board = <<>> /\ nextId = 1

Create(p, deps, a) ==
    /\ nextId <= MaxId
    /\ MayCreate(board, p, deps)
    /\ board' = Insert(board, nextId, NewRow(p, deps, a))
    /\ nextId' = nextId + 1

Update(t, p) ==
    /\ t \in DOMAIN board
    /\ "deps" \in DOMAIN p => Cardinality(p.deps) <= DepsMax
    /\ LET r == ApplyPatch(board[t], p)
           b == [board EXCEPT ![t] = r]
       IN /\ TouchesGraph(p) => CheckGraphUpdate(b, t, "parent" \in DOMAIN p)
          /\ board' = IF r.status = "cancelled" /\ board[t].status # "cancelled"
                      THEN CascadeCancel(b, t) ELSE b
    /\ UNCHANGED nextId

Complete(t) ==
    /\ t \in DOMAIN board
    /\ board[t].status # "done"
    /\ \A c \in Children(board, t) : ~Open(board, c)
    /\ board' = MarkDone(board, {t} \cup AutoCompleted(board, t))
    /\ UNCHANGED nextId

Reopen(t) ==
    /\ t \in DOMAIN board
    /\ board[t].status \in Closed
    /\ board' = [board EXCEPT ![t].status = "pending", ![t].stamped = FALSE]
    /\ UNCHANGED nextId

Delete(t) ==
    /\ t \in DOMAIN board
    /\ board' = Remove(board, SubtreeIds(board, t))
    /\ UNCHANGED nextId

Clear(closedOnly) ==
    /\ board' = Remove(board, IF closedOnly THEN ClearableClosed(board)
                              ELSE DOMAIN board)
    /\ UNCHANGED nextId

Next ==
    \/ \E p \in Id \cup {NoTask}, deps \in SUBSET Id, a \in Check :
          Create(p, deps, a)
    \/ \E t \in Id, p \in Patch : Update(t, p)
    \/ \E t \in Id : Complete(t)
    \/ \E t \in Id : Reopen(t)
    \/ \E t \in Id : Delete(t)
    \/ \E closedOnly \in BOOLEAN : Clear(closedOnly)

Spec == Init /\ [][Next]_vars
-----------------------------------------------------------------------------
(* Type invariant: the rows of a scope and the id counter keep their types *)
(* and no live id has been handed out twice.                               *)
TypeOK ==
    /\ nextId \in 1 .. MaxId + 1
    /\ board = [t \in DOMAIN board |-> board[t]]
    /\ DOMAIN board \subseteq 1 .. nextId - 1
    /\ \A t \in DOMAIN board : board[t] \in Row

\* Every parent and dependency a row names is a live row: delete() takes
\* whole subtrees and strips the references it leaves dangling.
ReferencesLive ==
    \A t \in DOMAIN board :
        /\ board[t].parent \in DOMAIN board \cup {NoTask}
        /\ board[t].deps \subseteq DOMAIN board

\* check_dependency_cycle() on the one updated task is enough to keep the
\* whole dependency graph acyclic.
DepsAcyclic == Acyclic(DepEdges(board))

\* The hierarchy stays a forest, through re-parenting by update() and by the
\* cascade of a cancel.
HierarchyAcyclic == Acyclic(ParentEdge(board))

\* No task is deeper than TASK_DEPTH_MAX allows, whichever order subtrees are
\* built, moved and re-parented in.
DepthBounded == \A t \in DOMAIN board : ParentDepth(board, t) < DepthMax

\* No task depends directly on one of its own ancestors.
NoDirectAncestorDependency ==
    \A t \in DOMAIN board :
        board[t].deps \cap AncestorChain(board, board[t].parent) = {}

\* completed_at is set on every done row and on no open one.
StampMatchesStatus ==
    \A t \in DOMAIN board :
        /\ board[t].status = "done" => board[t].stamped
        /\ Open(board, t) => ~board[t].stamped

\* Rows are well formed: types and ids, references that delete() leaves live,
\* and completion stamps that reopen() takes down.
RowsSound == TypeOK /\ ReferencesLive /\ StampMatchesStatus

\* As the comments on check_ancestor_dependency() have it: while a task is
\* open, next() finds one to work on.
NoWedge ==
    (\E t \in DOMAIN board : Open(board, t)) => Actionable(board) # {}

\* On a board without hierarchy the cycle check alone keeps next() productive:
\* while a task is open, one is actionable.
FlatBoardNeverWedges ==
    (\A t \in DOMAIN board : board[t].parent = NoTask) => NoWedge

BecameDone ==
    {t \in DOMAIN board \cap DOMAIN board' :
        board[t].status # "done" /\ board'[t].status = "done"}

\* Nothing becomes done, by name or by auto-completion, while a child of it
\* is open.
ParentWaitsForChildren ==
    [][\A t \in BecameDone : \A c \in Children(board', t) : ~Open(board', c)]_vars

\* One step closes at most one task that carries a contract: a contract is
\* never met by auto-completion.
ContractsCloseByName ==
    [][Cardinality({t \in BecameDone : board[t].acceptance # NoCheck}) <= 1]_vars

\* A cancelled branch leaves no open work below it: what survives the cascade
\* has left the branch.
CancelClosesBranch ==
    [][\A t \in DOMAIN board \cap DOMAIN board' :
         (board[t].status # "cancelled" /\ board'[t].status = "cancelled") =>
            \A x \in SubtreeIds(board', t) : ~Open(board', x)]_vars
=============================================================================
