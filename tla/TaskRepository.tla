--------------------------- MODULE TaskRepository ---------------------------
(***************************************************************************)
(* The task store as it runs (crates/nanna-storage/src/tasks.rs): several  *)
(* callers share one connection behind a mutex, and every operation takes  *)
(* and releases that mutex several times.  One action is one critical      *)
(* section; what a call carries from one section to the next, rows it read *)
(* and may write back later, is in call[a].                                *)
(*                                                                         *)
(* The guards and the rows written are the operators of TaskBoard, applied *)
(* to the rows the code applies them to: the current ones when they are    *)
(* loaded under the guard, a snapshot otherwise.                           *)
(***************************************************************************)
EXTENDS TaskBoard

CONSTANTS
    Actor,      \* concurrent callers: tools, IPC handlers, harness runs
    Ops         \* the operations they use

ASSUME ActorAssumption == IsFiniteSet(Actor)

VARIABLE call   \* call[a]: the operation a is in, and its local state

rvars == <<board, nextId, call>>

Idle == [pc |-> "idle"]

\* Ends the critical section of a: the call continues with local state c.
Continue(a, c) == call' = [call EXCEPT ![a] = c]
Return(a)      == Continue(a, Idle)

\* UPDATE ... WHERE id = t: every column from r, nothing if t is gone.
WriteTask(b, t, r) == IF t \in DOMAIN b THEN [b EXCEPT ![t] = r] ELSE b

Starts(a, op) == call[a].pc = "idle" /\ op \in Ops
At(a, pc)     == call[a].pc = pc
-----------------------------------------------------------------------------
RInit == Init /\ call = [a \in Actor |-> Idle]

(* create(): validates a snapshot, then inserts under a second guard.      *)

CreateCheck(a, p, deps, acc) ==
    /\ Starts(a, "create")
    /\ nextId + Cardinality({o \in Actor : At(o, "insert")}) <= MaxId
    /\ MayCreate(board, p, deps)
    /\ Continue(a, [pc |-> "insert", row |-> NewRow(p, deps, acc)])
    /\ UNCHANGED <<board, nextId>>

CreateInsert(a) ==
    /\ At(a, "insert")
    /\ board' = Insert(board, nextId, call[a].row)
    /\ nextId' = nextId + 1
    /\ Return(a)

(* update(): reads the row, patches the copy, writes the whole copy back.  *)
(* Only a patch of parent or dependencies is checked against the rows of   *)
(* the moment of the write.                                                *)

UpdateRead(a, t, p) ==
    /\ Starts(a, "update")
    /\ t \in DOMAIN board
    /\ "deps" \in DOMAIN p => Cardinality(p.deps) <= DepsMax
    /\ LET r == ApplyPatch(board[t], p)
       IN Continue(a, [pc |-> "update", id |-> t, row |-> r, patch |-> p,
                       cancels |-> r.status = "cancelled"
                                   /\ board[t].status # "cancelled"])
    /\ UNCHANGED <<board, nextId>>

\* Mutant: the copy is written without checking it against current rows.
UpdateWriteUnchecked(a) ==
    /\ At(a, "update")
    /\ board' = WriteTask(board, call[a].id, call[a].row)
    /\ Return(a)
    /\ UNCHANGED nextId

UpdateWrite(a) ==
    /\ At(a, "update")
    /\ LET c == call[a]
           admitted == TouchesGraph(c.patch) =>
                         CheckGraphUpdate(Insert(board, c.id, c.row), c.id,
                                          "parent" \in DOMAIN c.patch)
       IN \/ /\ admitted
             /\ board' = WriteTask(board, c.id, c.row)
             /\ IF c.cancels
                THEN Continue(a, [pc |-> "cascade", id |-> c.id, row |-> c.row])
                ELSE Return(a)
          \/ /\ ~admitted
             /\ Return(a)
             /\ UNCHANGED board
    /\ UNCHANGED nextId

\* cascade_cancel(): plans from a snapshot with its own copy of the row.
CascadeLoad(a) ==
    /\ At(a, "cascade")
    /\ LET c == call[a]
           b == Insert(board, c.id, c.row)
           after == CascadeCancel(b, c.id)
           hit == {x \in DOMAIN board \ {c.id} : after[x] # b[x]}
       IN Continue(a, [pc |-> "cascading",
                       todo |-> [x \in hit |-> after[x]],
                       level |-> [x \in hit |-> ParentDepth(b, x)]])
    /\ UNCHANGED <<board, nextId>>

\* Mutant: a task visited is visited again.
CascadeAgain(a) ==
    /\ At(a, "cascading")
    /\ LET c == call[a]
       IN \/ \E x \in DOMAIN c.todo :
               /\ board' = WriteTask(board, x, c.todo[x])
               /\ Continue(a, c)
          \/ /\ DOMAIN c.todo = {}
             /\ Return(a)
             /\ UNCHANGED board
    /\ UNCHANGED nextId

\* One write_task() of the cascade, breadth first.
CascadeWrite(a) ==
    /\ At(a, "cascading")
    /\ LET c == call[a]
       IN \/ \E x \in DOMAIN c.todo :
               /\ \A y \in DOMAIN c.todo : c.level[x] <= c.level[y]
               /\ board' = WriteTask(board, x, c.todo[x])
               /\ Continue(a, [c EXCEPT !.todo =
                                 [y \in DOMAIN c.todo \ {x} |-> c.todo[y]]])
          \/ /\ DOMAIN c.todo = {}
             /\ Return(a)
             /\ UNCHANGED board
    /\ UNCHANGED nextId

(* complete(): check-then-mark under one guard, then ancestors one at a    *)
(* time from the rows loaded under that guard.                             *)

CompleteRead(a, t) ==
    /\ Starts(a, "complete")
    /\ t \in DOMAIN board
    /\ board[t].status # "done"
    /\ Continue(a, [pc |-> "complete", id |-> t, row |-> board[t]])
    /\ UNCHANGED <<board, nextId>>

CompleteMark(a) ==
    /\ At(a, "complete")
    /\ LET t == call[a].id
       IN \/ /\ \A c \in Children(board, t) : ~Open(board, c)
             /\ board' = MarkDone(board, {t})
             /\ Continue(a, [pc |-> "ancestors", id |-> t,
                             snap |-> board,
                             current |-> call[a].row.parent,
                             closed |-> {t} \cup
                                {x \in DOMAIN board : ~Open(board, x)}])
          \/ /\ \E c \in Children(board, t) : Open(board, c)
             /\ Return(a)
             /\ UNCHANGED board
    /\ UNCHANGED nextId

\* Mutant: a contract does not stop the walk.
AncestorEndsUnverified(c) ==
    /\ c.current \in DOMAIN c.snap
    /\ c.current \notin c.closed
    /\ Children(c.snap, c.current) \subseteq c.closed

\* The next ancestor ends as well, as far as the snapshot tells.
AncestorEnds(c) ==
    /\ c.current \in DOMAIN c.snap
    /\ c.current \notin c.closed
    /\ c.snap[c.current].acceptance = NoCheck
    /\ Children(c.snap, c.current) \subseteq c.closed

CompleteAncestor(a) ==
    /\ At(a, "ancestors")
    /\ LET c == call[a]
       IN \/ /\ AncestorEnds(c)
             /\ board' = MarkDone(board, {c.current})
             /\ Continue(a, [c EXCEPT !.closed = @ \cup {c.current},
                                      !.current = c.snap[c.current].parent])
          \/ /\ ~AncestorEnds(c)
             /\ Return(a)
             /\ UNCHANGED board
    /\ UNCHANGED nextId

(* reopen(): reads the status, then writes three columns.                  *)

ReopenRead(a, t) ==
    /\ Starts(a, "reopen")
    /\ t \in DOMAIN board
    /\ board[t].status \in Closed
    /\ Continue(a, [pc |-> "reopen", id |-> t])
    /\ UNCHANGED <<board, nextId>>

ReopenWrite(a) ==
    /\ At(a, "reopen")
    /\ LET t == call[a].id
       IN board' = IF t \in DOMAIN board
                   THEN [board EXCEPT ![t].status = "pending",
                                      ![t].stamped = FALSE]
                   ELSE board
    /\ Return(a)
    /\ UNCHANGED nextId

(* delete() and clear(): a snapshot decides which rows go and which rows   *)
(* are written back without the references to them.  clear() calls         *)
(* delete() for one target after the other; rest are the targets left,     *)
(* with their depth in clear()'s own snapshot, begun says that rows have   *)
(* been deleted, and spares that open tasks are to stay.                   *)

NoRest == [x \in {} |-> 0]

\* The local state of a delete() of t over the rows b.
Doom(b, t, rest, begun, spares) ==
    LET doomed == SubtreeIds(b, t)
        named  == {x \in DOMAIN b \ doomed : b[x].deps \cap doomed # {}}
    IN [pc |-> "delete", doomed |-> doomed, rest |-> rest, begun |-> begun,
        spares |-> spares,
        todo |-> [x \in named |-> [b[x] EXCEPT !.deps = @ \ doomed]]]

DeleteRead(a, t) ==
    /\ Starts(a, "delete")
    /\ t \in DOMAIN board
    /\ Continue(a, Doom(board, t, NoRest, FALSE, FALSE))
    /\ UNCHANGED <<board, nextId>>

DeleteRows(a) ==
    /\ At(a, "delete")
    /\ board' = [x \in DOMAIN board \ call[a].doomed |-> board[x]]
    /\ Continue(a, [call[a] EXCEPT !.pc = "strip", !.begun = TRUE])
    /\ UNCHANGED nextId

StripReference(a) ==
    /\ At(a, "strip")
    /\ LET c == call[a]
       IN \/ \E x \in DOMAIN c.todo :
               /\ board' = WriteTask(board, x, c.todo[x])
               /\ Continue(a, [c EXCEPT !.todo =
                                 [y \in DOMAIN c.todo \ {x} |-> c.todo[y]]])
          \/ /\ DOMAIN c.todo = {}
             /\ IF c.rest = NoRest THEN Return(a)
                ELSE Continue(a, [pc |-> "clear", rest |-> c.rest, begun |-> TRUE,
                                  spares |-> c.spares])
             /\ UNCHANGED board
    /\ UNCHANGED nextId

ClearRead(a, closedOnly) ==
    /\ Starts(a, "clear")
    /\ LET targets == IF closedOnly THEN ClearableClosed(board) ELSE DOMAIN board
       IN Continue(a, [pc |-> "clear", begun |-> FALSE, spares |-> closedOnly,
                       rest |-> [t \in targets |-> ParentDepth(board, t)]])
    /\ UNCHANGED <<board, nextId>>

\* The deepest target left, skipped when an earlier delete took it.
ClearTarget(a) ==
    /\ At(a, "clear")
    /\ LET c == call[a]
           without(t) == [x \in DOMAIN c.rest \ {t} |-> c.rest[x]]
       IN \/ \E t \in DOMAIN c.rest :
               /\ \A x \in DOMAIN c.rest : c.rest[x] <= c.rest[t]
               /\ Continue(a, IF t \in DOMAIN board
                              THEN Doom(board, t, without(t), c.begun, c.spares)
                              ELSE [c EXCEPT !.rest = without(t)])
          \/ DOMAIN c.rest = {} /\ Return(a)
    /\ UNCHANGED <<board, nextId>>
-----------------------------------------------------------------------------
Step(a) ==
    \/ \E p \in Id \cup {NoTask}, deps \in SUBSET Id, acc \in Check :
          CreateCheck(a, p, deps, acc)
    \/ CreateInsert(a)
    \/ \E t \in Id, p \in Patch : UpdateRead(a, t, p)
    \/ UpdateWrite(a)
    \/ CascadeLoad(a)
    \/ CascadeWrite(a)
    \/ \E t \in Id : CompleteRead(a, t)
    \/ CompleteMark(a)
    \/ CompleteAncestor(a)
    \/ \E t \in Id : ReopenRead(a, t)
    \/ ReopenWrite(a)
    \/ \E t \in Id : DeleteRead(a, t)
    \/ DeleteRows(a)
    \/ StripReference(a)
    \/ \E closedOnly \in BOOLEAN : ClearRead(a, closedOnly)
    \/ ClearTarget(a)

RNext == \E a \in Actor : Step(a)

RSpec == RInit /\ [][RNext]_rvars

\* A call that has started is run to its end: its task is polled again after
\* every await, and the mutex is fair.
Progress(a) ==
    /\ call[a].pc # "idle"
    /\ Step(a)

FairRSpec == RSpec /\ \A a \in Actor : WF_rvars(Progress(a))
-----------------------------------------------------------------------------
(* Refinement, for a caller that is alone: the operation takes effect at   *)
(* its first write, and the rows promised to the caller are the current    *)
(* ones with the writes still to come.                                     *)

Apply(b, todo) == [x \in DOMAIN b |-> IF x \in DOMAIN todo THEN todo[x] ELSE b[x]]

\* The rows b as c will leave them.
Promise(c, b) ==
    CASE c.pc = "cascade"   -> CascadeCancel(b, c.id)
      [] c.pc = "cascading" -> Apply(b, c.todo)
      [] c.pc = "ancestors" -> MarkDone(b, AutoCompleted(c.snap, c.id))
      [] c.pc = "strip"     -> Remove(Apply(b, c.todo), DOMAIN c.rest)
      [] c.pc = "delete" /\ c.begun -> Remove(b, c.doomed \cup DOMAIN c.rest)
      [] c.pc = "clear" /\ c.begun  -> Remove(b, DOMAIN c.rest)
      [] OTHER -> b

\* A lone caller cannot tell the store from TaskBoard, where every operation
\* is one step.
LoneCaller == CHOOSE a \in Actor : TRUE
Atomic == INSTANCE TaskBoard WITH board <- Promise(call[LoneCaller], board)
ImplementsTaskBoard == Atomic!Spec

\* Every call returns: no cascade, ancestor walk, strip or clear loop runs on.
CallsReturn == \A a \in Actor : [](call[a].pc # "idle" => <>(call[a].pc = "idle"))

(* What concurrent callers keep and what they do not.                      *)

\* Check and write in one critical section: where every update names its
\* edges, concurrent callers close no cycle in either graph.
EdgesAcyclic == DepsAcyclic /\ HierarchyAcyclic

\* Nothing becomes done, by name or by auto-completion, while a child of it
\* is open (the documentation of complete()).
ParentNeverDoneOverOpenChild ==
    [][\A t \in BecameDone : \A c \in Children(board', t) : ~Open(board', c)]_rvars

\* Clearing closed tasks never takes an open task with them (the comment in
\* clear()): an open task goes only where a caller deletes or clears it.
ClearSparesOpenTasks ==
    [][\A t \in DOMAIN board \ DOMAIN board' : Open(board, t) =>
         \E a \in Actor :
            At(a, "delete") /\ call'[a].pc = "strip" /\ ~call[a].spares]_rvars
=============================================================================
