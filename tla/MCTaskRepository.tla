-------------------------- MODULE MCTaskRepository --------------------------
(* Instances of TaskRepository for TLC. *)
EXTENDS TaskRepository, TLC

\* A title edit, or any other field no guard reads: the empty patch.
TitleOnly == [f \in {} |-> 0]

\* A lone caller cancels: the patch whose update() goes on after its write.
LonePatch == {[status |-> "cancelled"]}

\* Every patch goes through check_graph_update.
CheckedPatch ==
    {[deps |-> d] : d \in SUBSET Id}
    \cup {[parent |-> p] : p \in Id \cup {NoTask}}

RewirePatch == {TitleOnly} \cup {[deps |-> d] : d \in SUBSET Id}
TitlePatch  == {TitleOnly}

LoneOps == {"create", "update", "complete", "reopen", "delete", "clear"}

Callers == Permutations(Actor)
=============================================================================
