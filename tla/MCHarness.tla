------------------------------ MODULE MCHarness ------------------------------
(* Instances of Harness for TLC. *)
EXTENDS Harness, TLC

\* Every item has a check of its own.
OwnChecks == [i \in Item |-> i]

\* What the user asks for has no check.
AskedUnchecked == [i \in Item |-> IF i \in Asked THEN NoCheck ELSE i]

Items == Permutations(Item)
=============================================================================
