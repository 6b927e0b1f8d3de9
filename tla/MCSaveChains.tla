---------------------------- MODULE MCSaveChains ----------------------------
(* Machines and contents of files are interchangeable.                      *)
EXTENDS SaveChains

Symmetry == Permutations(Machines) \cup Permutations(Blobs)
=============================================================================
