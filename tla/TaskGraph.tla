----------------------------- MODULE TaskGraph -----------------------------
(***************************************************************************)
(* Reachability and acyclicity over a finite graph given by its successor  *)
(* function, as the task store uses them (crates/nanna-storage/src/        *)
(* tasks.rs): dependency edges, parent edges, child edges.                 *)
(*                                                                         *)
(* Both notions are stated without recursion, so that facts about them can *)
(* be proved: Reach is the intersection of the closed supersets, and a     *)
(* finite graph is acyclic when every non-empty set of its nodes contains  *)
(* one without a successor in that set.  TaskWalk checks and proves that   *)
(* the work-list loop of the code computes Reach.                          *)
(***************************************************************************)

\* X contains everything its members lead to.
ClosedUnder(succ, X) == \A n \in X : succ[n] \subseteq X

\* The nodes reachable from S in zero or more steps.
Reach(succ, S) ==
    {n \in DOMAIN succ :
        \A X \in SUBSET (DOMAIN succ) :
            (S \subseteq X /\ ClosedUnder(succ, X)) => n \in X}

\* No node lies on a cycle (for a finite graph).
Acyclic(succ) ==
    \A X \in SUBSET (DOMAIN succ) :
        X # {} => \E n \in X : succ[n] \cap X = {}
=============================================================================
