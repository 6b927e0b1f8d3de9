------------------------------ MODULE Deletion ------------------------------
(***************************************************************************)
(* What every burn of the flamethrower promises about the things it can    *)
(* destroy (a vault's key, the key of a sealed file, a file on disk):      *)
(* a deletion certificate is issued for what is gone, what a certificate   *)
(* names never comes back, and the audit log records certificates only.    *)
(* keyring.py and fileburn.py are shown to implement it.                   *)
(***************************************************************************)
CONSTANT Things

VARIABLES
  live,       \* things that can still be read from the disk
  certified,  \* things a deletion certificate names
  logged      \* things the audit log says were deleted

dvars == <<live, certified, logged>>

DInit == live \subseteq Things /\ certified = {} /\ logged = {}

\* A new thing may be written over an old one.
Appear(x) ==
  /\ x \notin live \cup certified
  /\ \E old \in SUBSET live : live' = (live \ old) \cup {x}
  /\ UNCHANGED <<certified, logged>>

Destroy(x) ==
  /\ x \in live
  /\ live' = live \ {x}
  /\ UNCHANGED <<certified, logged>>

Certify(x) ==
  /\ x \notin live \cup certified
  /\ certified' = certified \cup {x}
  /\ UNCHANGED <<live, logged>>

Record(x) ==
  /\ x \in certified \ logged
  /\ logged' = logged \cup {x}
  /\ UNCHANGED <<live, certified>>

DNext == \E x \in Things : Appear(x) \/ Destroy(x) \/ Certify(x) \/ Record(x)

DSpec == DInit /\ [][DNext]_dvars

\* What is certified is gone, and only what is certified is logged.
CertifiedIsGone == live \cap certified = {} /\ logged \subseteq certified
=============================================================================
