------------------------------ MODULE MCVaultLock -----------------------------
(* VaultLock with the model values that may be exchanged for one another. *)
EXTENDS VaultLock, TLC

Alike == Permutations(Runs) \cup Permutations(Secrets)
=============================================================================
