------------------------------ MODULE VaultLock ------------------------------
(***************************************************************************)
(* Sealing a vault directory: lock and unlock (vault/vault_lock.py) and    *)
(* the encrypted backup (vault/backup.py) in its two containers, one block *)
(* behind the openssl command or numbered chunks (vault/chunkseal.py).     *)
(*                                                                         *)
(* tree[p] is the version of the file at path p; a version stands for its  *)
(* bytes and for their SHA-256.  Every command reads the directory twice,  *)
(* once for the file list of the header (vault/manifest.py) and once for   *)
(* the archive, while other programs may write into it (Edit).  The burn   *)
(* that ends a lock is the one of DirBurn, here one step per file.         *)
(*                                                                         *)
(* A MAC binds a block to its place and to the secret: a block opens under *)
(* the secret it was sealed with, at its own number, unless it was damaged.*)
(***************************************************************************)
EXTENDS Naturals, Sequences, FiniteSets, FiniteSetsExt, SequencesExt

CONSTANTS
  Runs,        \* commands that may run at the same time
  NumPaths,    \* paths in the vault, in the order they are sorted
  NumBackups,  \* backup files the target has room for
  Secrets,     \* passphrase and key files that pass the 0600 checks
  WrongSecret, \* one that nothing is sealed under
  MaxCommands, MaxEdits, MaxDamage  \* bounds

Paths == 1..NumPaths
Versions == 1..(NumPaths + MaxEdits)
Missing == 0
Garbled == NumPaths + MaxEdits + 1  \* bytes that came out of a damaged block

\* File 1 is the --out file of vault-lock; the others are <user>-<utc>.castle.
LockFile == 1
Backups == 2..(NumBackups + 1)
Files == {LockFile} \cup Backups
NoFile == [format |-> "none"]

ASSUME VaultLockAssumption ==
  /\ NumPaths \in Nat /\ NumBackups \in Nat
  /\ MaxCommands \in Nat /\ MaxEdits \in Nat /\ MaxDamage \in Nat

VARIABLES
  tree,      \* the vault directory
  standing,  \* it exists
  sealed,    \* the sealed files
  run,       \* what each command is doing
  certs,     \* backup certificates: <<file, file list>>
  opened,    \* what unlock reported as verified: <<file, directory>>
  destroyed, \* what locks burned: <<path, version>>
  strays,    \* those of them that a disturbed lock burned
  forfeited, \* versions given up otherwise: edited, damaged, in a replaced file
  touched,   \* files replaced by a later seal or damaged
  past,      \* everything the directory ever held, as a whole
  disturbed, \* locks whose directory or output file somebody else wrote meanwhile
  crossed,   \* commands during which an unlock extracted
  commands, edits, damages

vaultVars == <<tree, standing, sealed, run, certs, opened, destroyed, strays, forfeited, touched, past,
               disturbed, crossed, commands, edits, damages>>
bounds == <<commands, edits, damages>>
history == <<destroyed, strays, forfeited, touched, past, disturbed, crossed>>

NoRun == [at |-> "idle", kind |-> "none", out |-> LockFile, format |-> "none", secret |-> "none",
          todo |-> {}, files |-> {}, tar |-> << >>]

VaultInit ==
  /\ tree = [p \in Paths |-> p]
  /\ standing = TRUE
  /\ sealed = [f \in Files |-> NoFile]
  /\ run = [r \in Runs |-> NoRun]
  /\ certs = {} /\ opened = {}
  /\ destroyed = {} /\ strays = {} /\ forfeited = {} /\ touched = {}
  /\ disturbed = {} /\ crossed = {}
  /\ past = {{<<p, p>> : p \in Paths}}
  /\ commands = 0 /\ edits = 0 /\ damages = 0

Present == {p \in Paths : tree[p] # Missing}
Contents == {<<p, tree[p]>> : p \in Present}
Exists(f) == sealed[f] # NoFile
Goto(r, at) == run' = [run EXCEPT ![r].at = at]
Stop(r) == run' = [run EXCEPT ![r] = NoRun]

-----------------------------------------------------------------------------
(* The containers.                                                          *)

Block(i, members) == [index |-> i, members |-> members, good |-> TRUE]

\* chunkseal.seal splits the archive and numbers the chunks; an empty archive is one chunk.
Blocks(format, tar) ==
  IF format = "chunks" /\ tar # << >>
  THEN [i \in DOMAIN tar |-> Block(i, <<tar[i]>>)]
  ELSE <<Block(1, tar)>>

Container(r) ==
  [format |-> run[r].format, secret |-> run[r].secret, files |-> run[r].files,
   count |-> Len(Blocks(run[r].format, run[r].tar)),
   body |-> Blocks(run[r].format, run[r].tar),
   \* what went in, to compare with
   origin |-> [files |-> run[r].files, tar |-> run[r].tar, crossed |-> r \in crossed]]

BlockOpens(c, i) == c.body[i].good /\ c.body[i].index = i
Decrypted(c, i) ==
  IF BlockOpens(c, i)
  THEN c.body[i].members
  ELSE [j \in DOMAIN c.body[i].members |-> <<c.body[i].members[j][1], Garbled>>]
Payload(c) == FlattenSeq([i \in DOMAIN c.body |-> Decrypted(c, i)])

\* The key pair comes from the secret and what the header says of its derivation; under
\* another secret no MAC matches.
SameKeys(c, secret) == c.secret = secret
\* The body falls into whole chunks, as many as the header says.
WholeBody(c) == Len(c.body) = c.count

\* Mutant: decrypt without looking at the MACs.
OpensUnchecked(c, secret) == c.secret = secret

\* _open_ciphertext, open_sealed: the secret, every MAC, the number of chunks, the
\* payload's own hash.
Opens(c, secret) ==
  /\ SameKeys(c, secret)
  /\ WholeBody(c)
  /\ \A i \in DOMAIN c.body : BlockOpens(c, i)
  /\ Payload(c) = c.origin.tar

\* Mutant: only the names are compared.
ListsNames(c) == {m[1] : m \in ToSet(Payload(c))} = {e[1] : e \in c.files}
\* _verify_tarball_bytes: the members and the file list of the header agree both ways.
ListsExactly(c) == ToSet(Payload(c)) = c.files

\* The proof a backup is put to, whichever container it is in.
Restorable(c, secret) == Opens(c, secret) /\ ListsExactly(c)

VerifyOk(f, secret) == Exists(f) /\ Restorable(sealed[f], secret)

-----------------------------------------------------------------------------
(* Sealing: file list, archive, one replace of the output file.             *)

Begin(r, kind, out, format, secret) ==
  /\ run[r] = NoRun
  /\ commands < MaxCommands
  /\ commands' = commands + 1
  /\ run' = [run EXCEPT ![r] = [NoRun EXCEPT !.at = "scan", !.kind = kind, !.out = out,
                                             !.format = format, !.secret = secret,
                                             !.todo = Present]]
  /\ disturbed' = disturbed \ {r}
  /\ crossed' = crossed \ {r}
  /\ UNCHANGED <<tree, standing, sealed, certs, opened, destroyed, strays, forfeited, touched, past,
                 edits, damages>>

Lock(r, secret) == standing /\ Begin(r, "lock", LockFile, "vault", secret)

\* The name carries the second of the plan; a taken name gets a suffix.
Backup(r, format, secret) ==
  standing /\ \E out \in Backups : ~Exists(out) /\ Begin(r, "backup", out, format, secret)

Here(r) == Min(run[r].todo)

\* build_manifest; a listed file that is gone is no regular file and refuses the seal.
Scan(r) ==
  /\ run[r].at = "scan" /\ run[r].todo # {}
  /\ IF tree[Here(r)] = Missing
     THEN Stop(r)
     ELSE run' = [run EXCEPT ![r].todo = @ \ {Here(r)},
                             ![r].files = @ \cup {<<Here(r), tree[Here(r)]>>}]
  /\ UNCHANGED <<tree, standing, sealed, certs, opened, history, bounds>>

ListAgain(r) ==
  /\ run[r].at = "scan" /\ run[r].todo = {}
  /\ run' = [run EXCEPT ![r].at = "archive", ![r].todo = Present]
  /\ UNCHANGED <<tree, standing, sealed, certs, opened, history, bounds>>

\* _build_tarball reads the files a second time.
Archive(r) ==
  /\ run[r].at = "archive" /\ run[r].todo # {}
  /\ IF tree[Here(r)] = Missing
     THEN Stop(r)
     ELSE run' = [run EXCEPT ![r].todo = @ \ {Here(r)},
                             ![r].tar = Append(@, <<Here(r), tree[Here(r)]>>)]
  /\ UNCHANGED <<tree, standing, sealed, certs, opened, history, bounds>>

Replaced(f) == IF Exists(f) THEN {f} ELSE {}
Held(f) == IF Exists(f) THEN ToSet(sealed[f].origin.tar) ELSE {}

\* Everybody else's lock that is under way.
OtherLocks(r) == {q \in Runs \ {r} : run[q].kind = "lock"}

\* Mutant: a write that failed goes unnoticed.
WriteNothing(r) ==
  /\ run[r].at = "archive" /\ run[r].todo = {}
  /\ Goto(r, "check")
  /\ UNCHANGED <<tree, standing, sealed, certs, opened, history, bounds>>

\* _write_locked, _write_chunked: whatever was at the output name is replaced.
WriteSealed(r) ==
  /\ run[r].at = "archive" /\ run[r].todo = {}
  /\ sealed' = [sealed EXCEPT ![run[r].out] = Container(r)]
  /\ touched' = touched \cup Replaced(run[r].out)
  /\ forfeited' = forfeited \cup (Held(run[r].out) \ Contents)
  /\ disturbed' = IF run[r].kind = "lock" THEN disturbed \cup OtherLocks(r) ELSE disturbed
  /\ Goto(r, "check")
  /\ UNCHANGED <<tree, standing, certs, opened, destroyed, strays, past, crossed, bounds>>

-----------------------------------------------------------------------------
(* A backup is certified once the file on the target is proved restorable.  *)

\* Mutant: certified as soon as it is written.
CertifyUnproved(r) ==
  /\ run[r].at = "check" /\ run[r].kind = "backup"
  /\ certs' = certs \cup {<<run[r].out, run[r].files>>}
  /\ Stop(r)
  /\ UNCHANGED <<tree, standing, sealed, opened, history, bounds>>

\* Otherwise the file stays, without certificate.
Prove(r) ==
  /\ run[r].at = "check" /\ run[r].kind = "backup"
  /\ certs' = IF VerifyOk(run[r].out, run[r].secret)
              THEN certs \cup {<<run[r].out, sealed[run[r].out].files>>}
              ELSE certs
  /\ Stop(r)
  /\ UNCHANGED <<tree, standing, sealed, opened, history, bounds>>

-----------------------------------------------------------------------------
(* A lock checks the ciphertext it holds in memory, then burns.             *)

\* The self-check compares the archive with its own hash.  Without --yes, and in vault_init,
\* the command stops here, with the output file written.
SelfCheck(r) ==
  /\ run[r].at = "check" /\ run[r].kind = "lock"
  /\ \/ Stop(r)
     \/ Opens(Container(r), run[r].secret) /\ Goto(r, "list")
  /\ UNCHANGED <<tree, standing, sealed, certs, opened, history, bounds>>

\* dirburn lists the directory as it is now.
ListForBurn(r) ==
  /\ run[r].at = "list"
  /\ IF standing
     THEN run' = [run EXCEPT ![r].at = "burn", ![r].todo = Present]
     ELSE Stop(r)
  /\ UNCHANGED <<tree, standing, sealed, certs, opened, history, bounds>>

BurnFile(r) ==
  /\ run[r].at = "burn" /\ run[r].todo # {}
  /\ IF tree[Here(r)] = Missing
     THEN Stop(r) /\ UNCHANGED <<tree, destroyed, strays, past, disturbed>>
     ELSE /\ destroyed' = destroyed \cup {<<Here(r), tree[Here(r)]>>}
          /\ strays' = IF r \in disturbed
                       THEN strays \cup {<<Here(r), tree[Here(r)]>>} ELSE strays
          /\ tree' = [tree EXCEPT ![Here(r)] = Missing]
          /\ past' = past \cup {Contents'}
          /\ run' = [run EXCEPT ![r].todo = @ \ {Here(r)}]
          /\ disturbed' = disturbed \cup OtherLocks(r)
  /\ UNCHANGED <<standing, sealed, certs, opened, forfeited, touched, crossed, bounds>>

RemoveDir(r) ==
  /\ run[r].at = "burn" /\ run[r].todo = {}
  /\ standing' = (Present # {})
  /\ Stop(r)
  /\ UNCHANGED <<tree, sealed, certs, opened, history, bounds>>

-----------------------------------------------------------------------------
(* Unlock: into a directory that does not exist or is empty.                *)

Unlock(r, f, secret) ==
  /\ run[r] = NoRun
  /\ commands < MaxCommands
  /\ Exists(f) /\ sealed[f].format = "vault"
  /\ Present = {}
  /\ commands' = commands + 1
  /\ standing' = TRUE
  /\ run' = [run EXCEPT ![r] = [NoRun EXCEPT !.at = "open", !.kind = "unlock", !.out = f,
                                             !.secret = secret]]
  /\ UNCHANGED <<tree, sealed, certs, opened, history, edits, damages>>

\* The MAC before the decryption, the payload's hash before the extraction.
OpenSealed(r) ==
  /\ run[r].at = "open"
  /\ IF Opens(sealed[run[r].out], run[r].secret)
     THEN run' = [run EXCEPT ![r].at = "extract", ![r].files = sealed[run[r].out].files,
                             ![r].tar = Payload(sealed[run[r].out])]
     ELSE Stop(r)
  /\ UNCHANGED <<tree, standing, sealed, certs, opened, history, bounds>>

Extract(r) ==
  /\ run[r].at = "extract" /\ run[r].tar # << >>
  /\ LET m == Head(run[r].tar) IN
       /\ tree' = [tree EXCEPT ![m[1]] = m[2]]
       /\ forfeited' = IF tree[m[1]] = Missing
                       THEN forfeited ELSE forfeited \cup {<<m[1], tree[m[1]]>>}
  /\ past' = past \cup {Contents'}
  /\ run' = [run EXCEPT ![r].tar = Tail(@)]
  /\ disturbed' = disturbed \cup OtherLocks(r)
  /\ crossed' = Runs
  /\ UNCHANGED <<standing, sealed, certs, opened, destroyed, strays, touched, bounds>>

\* Mutant: the extracted files are not compared with the header.
ReportExtracted(r) ==
  /\ run[r].at = "extract" /\ run[r].tar = << >>
  /\ opened' = opened \cup {<<run[r].out, Contents>>}
  /\ Stop(r)
  /\ UNCHANGED <<tree, standing, sealed, certs, history, bounds>>

\* Every file against its hash, and the same set of files; a mismatch is an error that
\* leaves the extracted files where they are.
CheckExtracted(r) ==
  /\ run[r].at = "extract" /\ run[r].tar = << >>
  /\ opened' = IF Contents = run[r].files
               THEN opened \cup {<<run[r].out, Contents>>} ELSE opened
  /\ Stop(r)
  /\ UNCHANGED <<tree, standing, sealed, certs, history, bounds>>

-----------------------------------------------------------------------------
(* The surroundings.                                                        *)

\* Another program writes, or a user deletes, a file of the vault.
Edit(p) ==
  /\ standing
  /\ edits < MaxEdits
  /\ edits' = edits + 1
  /\ tree' \in {[tree EXCEPT ![p] = v] : v \in {NumPaths + edits + 1, Missing}}
  /\ tree' # tree
  /\ past' = past \cup {Contents'}
  /\ forfeited' = forfeited \cup ({<<p, tree[p]>>} \cap Contents)
  /\ disturbed' = disturbed \cup {r \in Runs : run[r].kind = "lock"}
  /\ UNCHANGED <<standing, sealed, run, certs, opened, destroyed, strays, touched, crossed,
                 commands, damages>>

\* A block changes, two blocks change places, the file is cut short, or the file list of
\* its header loses an entry.
Damaged(c) ==
  {[c EXCEPT !.body[i].good = FALSE] : i \in DOMAIN c.body}
  \cup {[c EXCEPT !.body[x[1]] = c.body[x[2]], !.body[x[2]] = c.body[x[1]]] :
           x \in {y \in (DOMAIN c.body) \X (DOMAIN c.body) : y[1] < y[2]}}
  \cup {[c EXCEPT !.body = Front(@)]}
  \cup {[c EXCEPT !.files = @ \ {e}] : e \in c.files}

Damage(f) ==
  /\ Exists(f)
  /\ damages < MaxDamage
  /\ damages' = damages + 1
  /\ \E c \in Damaged(sealed[f]) : sealed' = [sealed EXCEPT ![f] = c]
  /\ touched' = touched \cup {f}
  /\ forfeited' = forfeited \cup Held(f)
  /\ UNCHANGED <<tree, standing, run, certs, opened, destroyed, strays, past, disturbed, crossed,
                 commands, edits>>

Dies(r) ==
  /\ run[r] # NoRun
  /\ Stop(r)
  /\ UNCHANGED <<tree, standing, sealed, certs, opened, history, bounds>>

VaultNext ==
  \/ \E r \in Runs :
       \/ \E secret \in Secrets :
            \/ Lock(r, secret)
            \/ \E format \in {"vault", "chunks"} : Backup(r, format, secret)
       \/ \E f \in Files, secret \in Secrets \cup {WrongSecret} : Unlock(r, f, secret)
       \/ Scan(r) \/ ListAgain(r) \/ Archive(r) \/ WriteSealed(r) \/ Prove(r)
       \/ SelfCheck(r) \/ ListForBurn(r) \/ BurnFile(r) \/ RemoveDir(r)
       \/ OpenSealed(r) \/ Extract(r) \/ CheckExtracted(r)
       \/ Dies(r)
  \/ \E p \in Paths : Edit(p)
  \/ \E f \in Files : Damage(f)

VaultSpec == VaultInit /\ [][VaultNext]_vaultVars

-----------------------------------------------------------------------------
(* Properties                                                               *)

Openable(f) == Exists(f) /\ \E s \in Secrets : Opens(sealed[f], s)
Recoverable == Contents \cup UNION {ToSet(Payload(sealed[f])) : f \in {g \in Files : Openable(g)}}

\* A lock never destroys what it has not sealed: every version it burned is in the
\* directory again or in a sealed file that opens.  Not covered: what a lock burned after
\* somebody else wrote into its directory or over its output file, and what was given up
\* since by an edit, by an unlock that extracted over it, by damage, or by sealing again over
\* a file that held more than the directory did (vault_lock.py vault_lock).
LockedIsRecoverable == destroyed \ (strays \cup forfeited) \subseteq Recoverable

\* A certificate means the backup restores bit-exact: as long as the file is as it was
\* written it opens, and its members are the files of the certificate
\* (backup.py create_backup, _prove_restorable).
CertifiedBackupRestores ==
  \A c \in certs : c[1] \notin touched =>
     /\ \E s \in Secrets : VerifyOk(c[1], s)
     /\ sealed[c[1]].files = c[2]

\* A backup that verifies is a state the vault was in as a whole, though the files are read
\* one by one while others write, and though the file may have been damaged since: reading
\* twice, list and archive, and comparing them is what makes it a snapshot.  Not covered: a
\* file sealed while an unlock extracted, which brings old versions back between the two
\* reads (backup.py _verify_tarball_bytes; chunkseal.py open_sealed).
VerifiedIsASnapshot ==
  \A f \in Files, s \in Secrets :
    VerifyOk(f, s) => ToSet(Payload(sealed[f])) \in past \/ sealed[f].origin.crossed

\* A backup is worth its certificate, and what verify-backup says of any sealed file is true
\* (backup.py create_backup, verify_backup).
BackupsRestore == CertifiedBackupRestores /\ VerifiedIsASnapshot

\* "Tampered ciphertext is refused, never partially restored": bytes that came out of a
\* damaged or misplaced block never reach the directory; and when unlock says "verified", the
\* directory holds just the versions that were listed when the file was sealed, although others
\* may write into it then and during the extraction.  Not covered: a sealed file that was
\* damaged or replaced, whose list may have been edited (vault_lock.py vault_unlock).
UnlockedAsSealed ==
  [][/\ \A p \in Paths : tree'[p] # Garbled
     /\ \A o \in opened' \ opened :
          o[2] = sealed[o[1]].origin.files \/ o[1] \in touched]_vaultVars
=============================================================================
