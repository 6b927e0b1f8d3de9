--------------------------- MODULE MCFamilyVault ---------------------------
(* Bounded instances of FamilyVault.  Names, devices and processes are only *)
(* compared for equality.                                                   *)
EXTENDS FamilyVault, TLC

Symmetry == Permutations(Names) \cup Permutations(Procs)
=============================================================================
