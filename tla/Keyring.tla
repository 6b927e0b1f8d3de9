------------------------------ MODULE Keyring ------------------------------
(***************************************************************************)
(* Tier 1 of the flamethrower: the key of every vault, its optional escrow *)
(* copy, and the ceremonies that create, destroy and recover keys          *)
(* (flamethrower/keyring.py).  Destroying the key is destroying the data,  *)
(* so what counts is which copy of which key is on disk after each step.   *)
(*                                                                         *)
(* One ceremony runs at a time (the tool is interactive, audit.py:160-162),*)
(* but it may stop between any two writes: Crash loses the ceremony's      *)
(* memory and keeps the disk.  A key file being written or overwritten     *)
(* holds Junk until the write is complete.  The dry run of a ceremony      *)
(* changes nothing and has no action: the guards are those of the real run.*)
(***************************************************************************)
EXTENDS AuditLog

CONSTANTS
  Names,      \* vault names
  Keys,       \* key values the generator may return, each at most once
  Absent, Junk, None,  \* no such file; a file that is no key; no entry
  MaxLosses   \* bound on copies lost to the disk

Copies == {"keyring", "escrow"}
FileValues == Keys \cup {Absent, Junk}

ASSUME KeyringAssumption ==
  /\ Absent \notin Keys /\ Junk \notin Keys /\ Absent # Junk
  /\ None \notin [key : Keys, escrow : BOOLEAN]
  /\ MaxLosses \in Nat

VARIABLES
  stored,        \* stored[copy][name]: keys/<name>.key and escrow/<name>.key
  meta,          \* keyring.json: name -> [key, escrow], key standing for key_id and receipt
  certificates,  \* certificates/*.json
  op,            \* the running ceremony
  used,          \* keys generated so far (they are random: never twice the same)
  made,          \* <<copy, key>>: complete copies ever written
  lost           \* <<copy, key>>: copies the disk lost

kvars == <<stored, meta, certificates, op, used, made, lost>>
vars == <<kvars, avars>>

NoOp == [pc |-> "idle", kind |-> "none", name |-> None, entry |-> None,
         copy |-> "keyring", kills |-> {}, queue |-> {}, cert |-> None]
Idle == op.pc = "idle"
Registered == {n \in Names : meta[n] # None}
Deletions == {c \in certificates : c.type = "deletion"}
CertIds == {c.id : c \in certificates}

KInit ==
  /\ stored = [copy \in Copies |-> [n \in Names |-> Absent]]
  /\ meta = [n \in Names |-> None]
  /\ certificates = {}
  /\ op = NoOp
  /\ used = {} /\ made = {} /\ lost = {}

Init == KInit /\ InitAudit

Put(copy, n, value) == stored' = [stored EXCEPT ![copy][n] = value]
Goto(pc) == op' = [op EXCEPT !.pc = pc]

-----------------------------------------------------------------------------
(* create-vault: key file, escrow file, then the entry in keyring.json.     *)

\* Mutant: the name is not looked up first.
CreateVaultAgain(n, escrow) ==
  /\ Idle
  /\ \E k \in Keys \ used :
       /\ used' = used \cup {k}
       /\ op' = [NoOp EXCEPT !.pc = "write", !.kind = "create", !.name = n,
                             !.entry = [key |-> k, escrow |-> escrow]]
  /\ Put("keyring", n, Junk)
  /\ UNCHANGED <<meta, certificates, made, lost, avars>>

CreateVault(n, escrow) ==
  /\ Idle
  /\ n \notin Registered
  /\ \E k \in Keys \ used :
       /\ used' = used \cup {k}
       /\ op' = [NoOp EXCEPT !.pc = "write", !.kind = "create", !.name = n,
                             !.entry = [key |-> k, escrow |-> escrow]]
  /\ Put("keyring", n, Junk)
  /\ UNCHANGED <<meta, certificates, made, lost, avars>>

\* Mutant: the entry is saved before the escrow copy is made.
WriteFirstCopy ==
  /\ op.pc = "write" /\ op.kind = "create"
  /\ Put(op.copy, op.name, op.entry.key)
  /\ made' = made \cup {<<op.copy, op.entry.key>>}
  /\ Goto("save")
  /\ UNCHANGED <<meta, certificates, used, lost, avars>>

\* The write of a copy completes (fsync); an escrowed vault gets its second copy.
WriteCopy ==
  /\ op.pc = "write" /\ op.kind = "create"
  /\ Put(op.copy, op.name, op.entry.key)
  /\ made' = made \cup {<<op.copy, op.entry.key>>}
  /\ Goto(IF op.copy = "keyring" /\ op.entry.escrow THEN "open" ELSE "save")
  /\ UNCHANGED <<meta, certificates, used, lost, avars>>

OpenEscrow ==
  /\ op.pc = "open"
  /\ Put("escrow", op.name, Junk)
  /\ op' = [op EXCEPT !.pc = "write", !.copy = "escrow"]
  /\ UNCHANGED <<meta, certificates, used, made, lost, avars>>

SaveEntry ==
  /\ op.pc = "save"
  /\ meta' = [meta EXCEPT ![op.name] = op.entry]
  /\ op' = NoOp
  /\ UNCHANGED <<stored, certificates, used, made, lost, avars>>

-----------------------------------------------------------------------------
(* destroy-vault and destroy-master: overwrite and unlink every copy that   *)
(* exists, issue the certificate, log it, then drop the entry.              *)

StartBurn(kind, names) ==
  /\ Idle
  /\ op' = [NoOp EXCEPT !.pc = "next", !.kind = kind, !.queue = names]
  /\ UNCHANGED <<stored, meta, certificates, used, made, lost, avars>>

DestroyVault(n) == n \in Registered /\ StartBurn("destroy", {n})
DestroyMaster == StartBurn("master", Registered)

NextVault ==
  /\ op.pc = "next"
  /\ \/ /\ op.queue = {}
        /\ op' = NoOp
     \/ \E n \in op.queue :
          op' = [op EXCEPT !.pc = "burn", !.name = n, !.entry = meta[n],
                           !.copy = "keyring", !.kills = {}, !.queue = @ \ {n}]
  /\ UNCHANGED <<stored, meta, certificates, used, made, lost, avars>>

\* Mutants: the escrow copy is forgotten; the certificate is.
AfterKeyringCopy(kills) == op' = [op EXCEPT !.pc = "certify", !.kills = kills]
AfterCopyUncertified(kills) ==
  op' = IF op.copy = "keyring"
        THEN [op EXCEPT !.pc = "burn", !.copy = "escrow", !.kills = kills]
        ELSE [op EXCEPT !.pc = "forget", !.kills = kills]

AfterCopy(kills) ==
  op' = IF op.copy = "keyring"
        THEN [op EXCEPT !.pc = "burn", !.copy = "escrow", !.kills = kills]
        ELSE [op EXCEPT !.pc = "certify", !.kills = kills]

SkipAbsentCopy ==
  /\ op.pc = "burn"
  /\ stored[op.copy][op.name] = Absent
  /\ AfterCopy(op.kills)
  /\ UNCHANGED <<stored, meta, certificates, used, made, lost, avars>>

OverwriteCopy ==
  /\ op.pc = "burn"
  /\ stored[op.copy][op.name] # Absent
  /\ Put(op.copy, op.name, Junk)
  /\ Goto("unlink")
  /\ UNCHANGED <<meta, certificates, used, made, lost, avars>>

UnlinkCopy ==
  /\ op.pc = "unlink"
  /\ Put(op.copy, op.name, Absent)
  /\ AfterCopy(op.kills \cup {op.copy})
  /\ UNCHANGED <<meta, certificates, used, made, lost, avars>>

\* Certificate ids are random and never drawn twice; which one it is makes no difference.
NewCertId == CHOOSE id \in Certs \ CertIds : TRUE

\* Mutant: the certificate is only written after the log entry.
IssueLater ==
  /\ op.pc = "certify"
  /\ CertIds # Certs
  /\ op' = [op EXCEPT !.pc = "log", !.cert = NewCertId]
  /\ UNCHANGED <<stored, meta, certificates, used, made, lost, avars>>

IssueCertificate ==
  /\ op.pc = "certify"
  /\ CertIds # Certs
  /\ certificates' = certificates \cup
       {[id |-> NewCertId, vault |-> op.name, key |-> op.entry.key, copies |-> op.kills,
         type |-> IF op.kind = "recover" THEN "recovery" ELSE "deletion"]}
  /\ op' = [op EXCEPT !.pc = "log", !.cert = NewCertId]
  /\ UNCHANGED <<stored, meta, used, made, lost, avars>>

\* audit.append; an OSError, before or amid the write, is a warning on stderr and the
\* ceremony goes on.
LogCertificate ==
  /\ op.pc = "log"
  /\ Log(op.cert) \/ LogTorn(op.cert) \/ UNCHANGED avars
  /\ IF op.kind = "recover" THEN op' = NoOp ELSE Goto("forget")
  /\ UNCHANGED <<stored, meta, certificates, used, made, lost>>

\* Mutant: the loop of destroy-master returns after one vault.
ForgetAndReturn ==
  /\ op.pc = "forget"
  /\ meta' = [meta EXCEPT ![op.name] = None]
  /\ op' = NoOp
  /\ UNCHANGED <<stored, certificates, used, made, lost, avars>>

ForgetVault ==
  /\ op.pc = "forget"
  /\ meta' = [meta EXCEPT ![op.name] = None]
  /\ Goto("next")
  /\ UNCHANGED <<stored, certificates, used, made, lost, avars>>

-----------------------------------------------------------------------------
(* recover-vault: put the escrow copy back where the live key is missing.   *)

EscrowUsable(n) == meta[n].escrow /\ stored["escrow"][n] = meta[n].key
\* Mutant: a present live key is overwritten.
RecoverableOverLive(n) == n \in Registered /\ EscrowUsable(n)

Recoverable(n) ==
  n \in Registered /\ stored["keyring"][n] = Absent /\ EscrowUsable(n)

RecoverVault(n) ==
  /\ Idle
  /\ Recoverable(n)
  /\ Put("keyring", n, Junk)
  /\ op' = [NoOp EXCEPT !.pc = "install", !.kind = "recover", !.name = n,
                        !.entry = meta[n]]
  /\ UNCHANGED <<meta, certificates, used, made, lost, avars>>

\* The installed copy is read back, and matches.
InstallKey ==
  /\ op.pc = "install"
  /\ Put("keyring", op.name, op.entry.key)
  /\ made' = made \cup {<<"keyring", op.entry.key>>}
  /\ Goto("certify")
  /\ UNCHANGED <<meta, certificates, used, lost, avars>>

\* What is read back is not that key: the disk lost it again.  The file is unlinked, or that
\* fails too, and the recovery is refused.
RefuseKey ==
  /\ op.pc = "install"
  /\ lost' = lost \cup {<<"keyring", op.entry.key>>}
  /\ Cardinality(lost') <= MaxLosses
  /\ \E junk \in {Absent, Junk} : Put("keyring", op.name, junk)
  /\ op' = NoOp
  /\ UNCHANGED <<meta, certificates, used, made, avars>>

-----------------------------------------------------------------------------
(* What the ceremonies must survive.                                        *)

Crash ==
  /\ ~Idle
  /\ crashes < MaxCrashes
  /\ \/ /\ crashes' = crashes + 1
        /\ UNCHANGED <<lines, tail, recorded, tampers>>
     \/ op.pc = "log" /\ LogTorn(op.cert)
  /\ op' = NoOp
  /\ UNCHANGED <<stored, meta, certificates, used, made, lost>>

\* The disk loses or corrupts a copy of a key (the reason recovery exists).
LoseCopy(copy, n) ==
  /\ Idle
  /\ stored[copy][n] \in Keys
  /\ Cardinality(lost) < MaxLosses
  /\ <<copy, stored[copy][n]>> \notin lost
  /\ lost' = lost \cup {<<copy, stored[copy][n]>>}
  /\ \E junk \in {Absent, Junk} : Put(copy, n, junk)
  /\ UNCHANGED <<meta, certificates, op, used, made, avars>>

Ceremony ==
  \/ WriteCopy \/ OpenEscrow \/ SaveEntry
  \/ NextVault \/ SkipAbsentCopy \/ OverwriteCopy \/ UnlinkCopy
  \/ IssueCertificate \/ LogCertificate \/ ForgetVault
  \/ InstallKey \/ RefuseKey

Next ==
  \/ \E n \in Names, escrow \in BOOLEAN : CreateVault(n, escrow)
  \/ \E n \in Names : DestroyVault(n) \/ RecoverVault(n)
  \/ DestroyMaster
  \/ Ceremony
  \/ Crash
  \/ \E copy \in Copies, n \in Names : LoseCopy(copy, n)

Spec == Init /\ [][Next]_vars

\* A ceremony that was started goes on until it is done, fails or crashes.
FairSpec == Spec /\ WF_vars(Ceremony)

-----------------------------------------------------------------------------
(* Properties                                                               *)

EntryType == [key : Keys, escrow : BOOLEAN]
OpType ==
  [pc : {"idle", "write", "open", "save", "next", "burn", "unlink",
         "certify", "log", "forget", "install"},
   kind : {"none", "create", "destroy", "master", "recover"},
   name : Names \cup {None}, entry : EntryType \cup {None}, copy : Copies,
   kills : SUBSET Copies, queue : SUBSET Names, cert : Certs \cup {None}]
CertificateType ==
  [id : Certs, vault : Names, key : Keys, copies : SUBSET Copies,
   type : {"deletion", "recovery"}]

\* Type invariant: files hold a key, junk or nothing; entries and certificates name keys
\* that were generated; the ceremony works on a vault name.
TypeOK ==
  /\ stored \in [Copies -> [Names -> FileValues]]
  /\ meta \in [Names -> EntryType \cup {None}]
  /\ certificates \subseteq CertificateType
  /\ op \in OpType
  /\ used \subseteq Keys
  /\ made \subseteq Copies \X Keys
  /\ lost \subseteq Copies \X Keys

\* Once a deletion certificate names a key, no copy of that key is on disk again, under
\* any vault name, whatever crashes, retries and recoveries follow (keyring.py
\* destroy_vault: every copy is burnt before the certificate is written).
CertifiedKeyIsGone ==
  \A c \in Deletions, copy \in Copies, n \in Names : stored[copy][n] # c.key

\* The live key file of a registered vault never holds another vault's key or an older
\* key of the same vault: neither a create that overwrites the leftovers of a crashed
\* one nor a recovery can fork the key (keyring.py:145-152, 372-387).
NoForeignLiveKey ==
  \A n \in Registered : stored["keyring"][n] \in {meta[n].key, Absent, Junk}

Burning(n) == op.kind \in {"destroy", "master"} /\ op.name = n

\* The registry never promises a copy that was not completely written first: the entry
\* follows the key file and, for an escrowed vault, the escrow file (create_vault).
RegisteredKeyWasWritten ==
  \A n \in Registered :
     /\ <<"keyring", meta[n].key>> \in made
     /\ meta[n].escrow => <<"escrow", meta[n].key>> \in made

\* What the registry says of a key is true: its copies were written, and no other key is in
\* the place of the live one (create_vault, recover_vault).
RegistryIsTrue == NoForeignLiveKey /\ RegisteredKeyWasWritten

\* A key leaves the registry only under a deletion certificate that names it
\* (destroy_vault saves keyring.json last).
NoUncertifiedRemoval ==
  [][\A n \in Registered :
        meta'[n] # meta[n] => \E c \in Deletions : c.vault = n /\ c.key = meta[n].key]_vars

\* Only a confirmed burn or the disk destroys a good copy: creating, recovering,
\* crashing and logging never overwrite a registered vault's key.
OnlyBurnsDestroyKeys ==
  [][\A n \in Registered, copy \in Copies :
        (stored[copy][n] = meta[n].key /\ stored'[copy][n] # meta[n].key)
          => Burning(n) \/ <<copy, meta[n].key>> \in lost']_vars

LiveKeys == {k \in Keys : \E copy \in Copies, n \in Names : stored[copy][n] = k}
CertifiedKeys == {c.key : c \in Deletions}
\* A log entry without its certificate might be about any key.
LoggedKeys ==
  IF recorded \subseteq CertIds
  THEN {c.key : c \in {d \in Deletions : d.id \in recorded}}
  ELSE Keys

D == INSTANCE Deletion WITH
  Things <- Keys, live <- LiveKeys, certified <- CertifiedKeys, logged <- LoggedKeys

\* The ceremonies implement the promise of every burn: a key is certified as deleted only
\* when no copy of it can be read, none comes back after that, and the log records only
\* what is certified (keyring.py _destroy_key_copies, _issue_certificate, audit.append,
\* in that order, and recover_vault).
DeletionSpec == D!DSpec

\* destroy-master, undisturbed, ends with an empty registry and no key file of a
\* registered vault left.
MasterBurnCompletes ==
  (op.kind = "master")
     ~> (op.kind # "master" /\ (crashes > 0 \/ Registered = {}))
=============================================================================
