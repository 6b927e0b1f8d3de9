------------------------------ MODULE MCIntake ------------------------------
(* Bounded instances of Intake; machines, labels and digests are only       *)
(* compared for equality.                                                   *)
EXTENDS Intake, TLC

Symmetry == Permutations(Machines) \cup Permutations(Labels) \cup Permutations(Digests)
=============================================================================
