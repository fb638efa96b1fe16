--------------------------- MODULE MCTaskBoard ---------------------------
(* Instances of TaskBoard for TLC.  No guard of the store tells in_progress *)
(* from pending, so the status patches reopen and cancel.                   *)
EXTENDS TaskBoard

Reopened  == {[status |-> s] : s \in {"pending", "cancelled"}}
Rewired   == {[deps |-> d] : d \in SUBSET Id}
Moved     == {[parent |-> p] : p \in Id \cup {NoTask}}
Recheck   == {[acceptance |-> a] : a \in Check}
MovedWith == {[deps |-> {d}, parent |-> p] : d, p \in Id}
Shelved   == {[status |-> "cancelled", parent |-> p] : p \in Id}

\* Dependencies and hierarchy together, on few tasks.
GraphPatch == Reopened \cup Rewired \cup Moved \cup MovedWith \cup Recheck \cup Shelved

\* Hierarchy and contracts alone, on more tasks.
TreePatch == Reopened \cup Moved
==========================================================================
