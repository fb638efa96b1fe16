------------------------------ MODULE TaskWalk ------------------------------
(***************************************************************************)
(* The work-list loop the task store runs over its edges                   *)
(* (check_dependency_cycle, check_ancestor_dependency and, without targets *)
(* to hit, subtree_ids_from in crates/nanna-storage/src/tasks.rs): pop a   *)
(* task, fail if it is a target, skip it if visited, otherwise queue what  *)
(* it leads to.  TaskBoard uses Reach where the code runs this loop.       *)
(*                                                                         *)
(* The queue is kept as a set: which pending task is popped next depends   *)
(* on the order of the ids in depends_on, and popping a task twice is      *)
(* popping a visited one.                                                  *)
(***************************************************************************)
EXTENDS TaskGraph, FiniteSets

CONSTANT Node

VARIABLES
    succ,       \* the edges walked, fixed while the loop runs
    start,      \* the tasks the queue starts with
    targets,    \* the ancestors, or the task itself for the cycle check
    queue, visited,
    verdict     \* "running", then "ok" or "err"

walk == <<succ, start, targets, queue, visited, verdict>>

WInit ==
    /\ succ \in [Node -> SUBSET Node]
    /\ start \in SUBSET Node
    /\ targets \in SUBSET Node
    /\ queue = start
    /\ visited = {}
    /\ verdict = "running"

\* The popped task is a target: the change is rejected.
Hit(n) ==
    /\ verdict = "running" /\ n \in queue /\ n \in targets
    /\ verdict' = "err"
    /\ UNCHANGED <<succ, start, targets, queue, visited>>

\* The popped task was seen before.
Skip(n) ==
    /\ verdict = "running" /\ n \in queue /\ n \notin targets /\ n \in visited
    /\ queue' = queue \ {n}
    /\ UNCHANGED <<succ, start, targets, visited, verdict>>

\* Mutants: a new task is not marked visited; the rest of the queue is lost.
ExpandUnmarked(n) ==
    /\ verdict = "running" /\ n \in queue /\ n \notin targets /\ n \notin visited
    /\ queue' = (queue \ {n}) \cup succ[n]
    /\ UNCHANGED <<succ, start, targets, visited, verdict>>
ExpandLosing(n) ==
    /\ verdict = "running" /\ n \in queue /\ n \notin targets /\ n \notin visited
    /\ visited' = visited \cup {n}
    /\ queue' = succ[n]
    /\ UNCHANGED <<succ, start, targets, verdict>>

\* The popped task is new: its successors are queued.
Expand(n) ==
    /\ verdict = "running" /\ n \in queue /\ n \notin targets /\ n \notin visited
    /\ visited' = visited \cup {n}
    /\ queue' = (queue \ {n}) \cup succ[n]
    /\ UNCHANGED <<succ, start, targets, verdict>>

Exhausted ==
    /\ verdict = "running" /\ queue = {}
    /\ verdict' = "ok"
    /\ UNCHANGED <<succ, start, targets, queue, visited>>

WNext == (\E n \in Node : Hit(n) \/ Skip(n) \/ Expand(n)) \/ Exhausted

WSpec == WInit /\ [][WNext]_walk /\ WF_walk(WNext)

\* Type invariant of the loop.
WTypeOK ==
    /\ succ \in [Node -> SUBSET Node]
    /\ start \in SUBSET Node /\ targets \in SUBSET Node
    /\ queue \in SUBSET Node /\ visited \in SUBSET Node
    /\ verdict \in {"running", "ok", "err"}

\* The loop rejects exactly when a target is reachable from where it starts.
VerdictIsReachability ==
    /\ verdict = "err" => Reach(succ, start) \cap targets # {}
    /\ verdict = "ok"  => Reach(succ, start) \cap targets = {}

\* Without targets to hit, what the loop has visited is the reachable set.
VisitedIsReach == verdict = "ok" => visited = Reach(succ, start)

\* What makes the two inductive: the frontier covers every way out of what
\* has been visited, and nothing unreachable is ever queued.
WalkInv ==
    /\ WTypeOK
    /\ visited \cup queue \subseteq Reach(succ, start)
    /\ start \subseteq visited \cup queue
    /\ \A n \in visited : succ[n] \subseteq visited \cup queue
    /\ visited \cap targets = {}
    /\ verdict = "err" => queue \cap targets # {}
    /\ verdict = "ok" => queue = {}

\* The verdict and, for subtree_ids_from, the visited set.
WalkSound == VerdictIsReachability /\ VisitedIsReach

\* The loop ends, cyclic edges included.
WalkEnds == <>(verdict # "running")
=============================================================================
