# Castle OS in TLA+

Models, model-checking runs and proofs for the stateful tools of Castle OS
(`src/tools/castle/`): destruction of keys, files and disks, family accounts
with their secrets and receipts, tokens, sealing and backups. Every definition
is translated from the source; `PROJECT.json` names, for each of them, the file
and the lines it stands for.

    tlc -config keyring.cfg Keyring.tla             # one run; section 3 names all
    tlapm FlamethrowerProofs.tla                    # the proofs of one module

## 1. The system

Castle OS is an installable image with a set of command-line tools. Each tool
is a Python (or shell/PowerShell) program that an operator starts, that reads a
few JSON or JSONL files, changes them, and ends. There is no daemon and **no
lock anywhere**: state lives on disk, commands may overlap, and any command may
die between two writes. What is hard to get right is therefore

* the *order of the writes* of one command, seen from the command that comes
  after its death;
* files that are *read, edited in memory and replaced as a whole*, so that a
  second command can overwrite the first;
* directories and disks that are *read twice*, while others write;
* *references by name* (accounts, devices, record ids) that outlive what they
  named;
* irreversible steps (a burnt key, an erased disk) in the middle of a protocol,
  and the certificates that say they happened.

| Component | Source | State it keeps | Operations | Who it talks to | What makes it correct |
|---|---|---|---|---|---|
| Keyring (flamethrower tier 1) | `flamethrower/keyring.py` | `keys/*.key`, `escrow/*.key`, `keyring.json`, `certificates/*.json` | create-vault, destroy-vault, destroy-master, recover-vault | writes the audit log; called by the family vault | a certified key is nowhere; no key is lost without a certificate; no vault runs on a foreign key |
| Burn audit log | `flamethrower/audit.py` | `audit.jsonl`, a hash chain | append, verify, tail | called by every burn | tampering stays visible; an honest log verifies |
| File burn | `flamethrower/fileburn.py` | sealed bundles, their keys and escrow, `files.json`, certificates | seal, unseal, burn, verify-cert | audit log; called by the directory burn | a listed name opens; a certified key is nowhere; no key is forgotten |
| Directory burn | `flamethrower/dirburn.py` | burn manifests | burn-directory, verify | file burn; called by the vault lock | manifests and certificates are true; only listed files die |
| File shredder (tier 3) | `flamethrower/tier3.py`, burn of `flamethrower.py` | certificates | shred | the file system | what is certified is overwritten everywhere |
| Slack wipe, media detection | `flamethrower/slack.py`, `media.py` | certificates | wipe-slack, wipe-free, classify | the file system, sysfs | a file loses nothing; a disk is never taken for a better one |
| Device erase (tier 2) | `flamethrower/tier2.py` | certificates | erase | firmware, the operator | only the confirmed disk dies; success means clean; a locked disk is reported |
| Family vault | `vault/vault.py` | `users.json`, one directory per account | create/delete user, devices, integrations, shares, verify | creates and destroys keys in the keyring | the under-18 surface; shares are what was granted; account, key and directory belong together |
| Guardian | `vault/guardian.py` | (the vault's) | revoke device, revoke share, graduate, review | the same `users.json` | only the guardian acts on a child |
| Tailnet | `vault/tailnet.py` | `tailnet.json` | onboard, claim, drop, status, dns-refresh | joins with `users.json` by device name | a revoked device is not active |
| Secret store | `vault/secretstore.py` | `*.secret`, `index.json` | add, get, rotate, delete, list | the account and its key | what is listed opens; what was deleted is gone; nothing outlives the account |
| Receipts, POS hook, scans | `vault/receipts.py`, `poshook.py`, `scan.py` | receipt directories, `index.jsonl` | ingest (three sources), list, show | senders that retry | nothing is listed twice; what is listed is whole |
| Vault lock, cold backup, manifest | `vault/vault_lock.py`, `backup.py`, `manifest.py` | sealed files, backup certificates | lock, unlock, init, create/verify backup | chunk sealing, directory burn | nothing is burned that cannot be restored; a backup is a snapshot |
| Chunked sealing | `vault/chunkseal.py` | none | seal, open | vault lock, backup | order, number and bytes of chunks are authenticated |
| Token authority | `tokens/tokens.py` | `keys.json`, `keys/*.key`, `revoked.jsonl` | init, rotate-keys, mint, verify, revoke, prune | services verify tokens | old keys verify and never mint; a revocation outlives its token |
| Backup intake | `backup/intake.py` | `intake.jsonl`, staged files | register, verify, list, retire | the recovery runbook | damage is reported; what was retired stays gone; only the confirmed file burns |
| Manifest audit | `vault/verify.py` | none | verify | none | (reporting) |
| Flamethrower front end | `flamethrower/flamethrower.py` | none | plan, burn, dispatch | all tiers | (arguments) |
| Save-chain engine | `chains/modules/vault.ps1` | `journal.jsonl`, `snapshots/` | commit, restore, verify, diff, log, watch | watched save files | a snapshot is the file its commit names |
| Save-chain sync | `chains/scripts/chains-sync.sh` | pins in `config.json`; journal and blobs of a remote folder | push, fetch | several machines over one folder | journals only grow; what a journal names is there; a rollback is refused |
| Chain doctor, planner | `chains/scripts/chains-doctor.sh`, `chains-sync-plan.sh` | repair backups | scan, fix, plan | engine, sync | a fix takes nothing a journal names |
| Chains command line | `chains/chains.sh`, `chains.ps1` | none | wrappers | sync, doctor | (arguments) |
| Installer, image, build | `castle-install`, `build.sh`, `profile/` | partitions | install | external programs | (I/O) |

## 2. The modules

| Module | Models | Builds on |
|---|---|---|
| `AuditLog` | the log file, its lines, torn writes, edits by hand | |
| `Deletion` | *abstract*: what every burn promises of things, certificates and the log | |
| `Keyring` | copies of keys, registry, certificates, the running ceremony; every append to the log is `AuditLog`'s `Log` or `LogTorn` | extends `AuditLog`, implements `Deletion` |
| `FileBurn` | seal and burn of single files, for several callers at once | implements `Deletion` |
| `DirBurn` | the directory burn as one caller of `FileBurn`, its command line as another, and other writers | extends `FileBurn` |
| `DiskBurn` | shred, slack wipe and free-space wipe of the files of one disk, next to other programs | |
| `DeviceErase` | the whole-disk erase next to all of `DiskBurn`, with mounts and disk swaps | extends `DiskBurn` |
| `FamilyVault` | `vault.py` + `guardian.py` + `tailnet.py` over the shared registry; of the keyring only what an account sees (`ring[n]`: no key, a live key, a live key with escrow) | |
| `SecretStore` | the secrets of one account, and that account's deletion and re-creation | |
| `Receipts` | mail, pushes and scans over one index | |
| `VaultLock` | lock, unlock and both backup containers over one directory | |
| `Tokens` | the token authority with a clock | |
| `Intake` | the backup intake | |
| `SaveChains` | commit, push, fetch and doctor --fix of several machines over one remote | |
| `FlamethrowerProofs` | theorems (section 4) of `AuditLog`, `Keyring`, `DiskBurn` and `DeviceErase` | these |
| `BackupProofs` | theorems of `Intake` and `VaultLock` | these |
| `DirBurnProofs` | theorems of `FileBurn` and `DirBurn` | `DirBurn` |
| `FamilyVaultProofs`, `TokensProofs`, `SecretStoreProofs`, `ReceiptsProofs`, `SaveChainsProofs` | theorems of one module each | their module |

`MC*` modules only give sets of values and symmetries. Operators whose comment
begins with `Mutant:` are plausible bugs: no action uses them; substituting one
for the operator named in `PROJECT.json` "mutants" must make the listed property
fail, which shows that the property depends on that piece of the code.

A pattern runs through the modules: a command is a record (`op`, `call`, `run`,
`job`) holding its next step and what it read so far, each step is an action
with one access to shared state, and a death (`Crash`, `Dies`, `Killed`, `Die`)
drops the record and keeps the disk. Variables that the code does not have are history, are named as such in
their comments and never guard an action.

### State and actions

**AuditLog.** `lines` and `tail` are the file: how it ends matters because
`append` opens it in mode `"a"` and never looks at its last byte, so an entry
written behind a torn line joins it (`Written`). SHA-256 is injective: the hash
of a body is the list of everything chained before it. `Log` is the whole of
`append` (scan for the last hash and the highest number, write, fsync),
`LogTorn` a death amid the write. `EditEntry`, `DeleteEntry` and `SwapEntries`
are edits by somebody who does not recompute hashes. `DeleteEntry` spares the
newest entry: the log keeps no head and no length, so a log cut at its end is
an older log and verifies.

**Deletion.** `live`, `certified` and `logged` things; a thing appears only if
it was never certified, is certified only when it is gone, and is logged only
when it is certified. `Keyring` maps keys in any copy, deletion certificates and
the log entries that name them; `FileBurn` maps file keys in either place.

**Keyring.** A ceremony is a sequence of actions with one disk write each; `op`
is its memory. Create: `CreateVault` (open the key file: `Junk`) → `WriteCopy`
→ `OpenEscrow` → `WriteCopy` → `SaveEntry`. Burn: `DestroyVault` or
`DestroyMaster` → `NextVault` → for each copy `SkipAbsentCopy`, or
`OverwriteCopy` → `UnlinkCopy` → `IssueCertificate` → `LogCertificate` →
`ForgetVault`. Recover: `RecoverVault` → `InstallKey` → `IssueCertificate` →
`LogCertificate`, or `RefuseKey` when what is read back is not the key. `Crash` ends any ceremony and keeps the disk; `LoseCopy` is
the disk losing or corrupting a copy, which is what recovery is for. Key ids
and receipts are derived from the key in the code, so an entry simply names the
key. One ceremony runs at a time: `audit.py:160-162` puts concurrent burns out
of scope.

**FileBurn.** `disk[place][name]` is what lies at a place: the bundle (named by
the key that opens it), the key file, the escrow copy. Seal: `Seal` →
`WriteSealed` for each file → `Register`. Burn: for each copy `SkipMissing`, or
`Overwrite` → `Unlink` → `Certify` → `LogBurn` (which may fail, and the burn goes
on) → `Reload` → `Forget`. `files.json` is loaded at the start and replaced as a
whole at the end (`SaveRegistry`), so two callers can undo each other's entry
(`raced`).

**DirBurn.** `tree[p]` is the version that is read at a path and `file[p]` the
file the path leads to: names of one file read the same, and one file (`Beyond`)
is outside the target. `BurnDirectory` lists the tree and refuses it for a
symlink or two names of one file (`Refused`); per file the burn reads it, seals
and burns the copy through `FileBurn`, then opens the path again and overwrites
whatever file it leads to, under all its names (`OverwriteOriginal`), and unlinks
the one name (`UnlinkOriginal`); then `RemoveDirs`, manifest and verify. Other
programs write in place or replace (`Edit`) and make a path a hard link or a
symlink (`AddLink`) at any moment, `Cli` is the command line of the primitive,
and the directory burn may die at any step.

**DiskBurn.** Data is where it can still be read: in blocks of files, in the
slack behind a file's end, in free blocks (`residue`), in flash cells no write
reaches (`spare`), in renamed litter. An overwrite replaces a block on spinning
rust and leaves the old cell behind on flash (`Over`). A shred runs
`RandomPass`, `Overwrite`, `Verify`, `Rename`, `TruncateUnlink`, `CertifyShred`
per target, and `SkipTarget` when one fails; a slack wipe `ExtendFile` →
`TruncateFile` → `CertifySlack`; a free wipe `FillFree` → `UnlinkFiller` →
`CertifyFree` with `Writeback` of unsynced pages by the system at any moment.
Other programs append (`AppendTo`), replace (`SaveOver`), remove and rename, also
over another file (`MoveFile`). Targets are opened by path: `Overwrite` and
`ExtendFile` take the file that is at the path by then, and what a command has
open (`Opened`) stays that file under whatever name. `escaped` remembers what the
plan meant to burn and another program freed or took to another path first.
`Classify` is the media gate; `Devices` are what sysfs may say of a disk.

**DeviceErase.** `StartErase` (plan and guards) → `ConfirmSerial` → `Rescan` →
one action per step of the plan (`ZeroFill`, `SetPassword`, `FirmwareErase`,
`StartSanitize`; or `StepFails`) → `CertifyErase`. What the firmware does is
external and assumed to be what the code's comments say: a crypto or block erase
reaches every cell, a sanitize ends some time later (`SanitizeEnds`). The guard
against mounts sees what the code sees (`Erasable`): nothing if the mount table
cannot be read, and nothing if the file system is on a node of another name
(`device.stacked`). `neighbour` stands for the other namespaces of a controller,
which no guard asks about. `Mount`, `Unmount` and `Swap` are the people around
the machine.

**FamilyVault.** A command is an action that loads `users.json`, checks, and
keeps an edited *copy* (`run[p].doc`), followed by its writes: `MakeVaultDir`,
`CreateKey`, `BurnKey`, `WipeVaultDir`, `SaveUsers`, or `SaveTailnet`. Saving
replaces the registry by the copy, stale or not. `Serial` says whether commands
overlap. `ids` numbers accounts and devices in the order they were made; the
code does not keep such numbers, only names, and decides by names alone.
`granted` is what the activity log says has been granted and not revoked,
`burnt` the names whose key a deletion burned.
`vault.verify` is the operator `Problems`.

**SecretStore.** A secret is a file and an entry of the index. `Begin` → `Load`
(which makes the directory when it is not there) → `TakeKey` → `WriteDraft` (a
temporary file of the command's own, kept in `drafts`) → `ReplaceFile` → `SaveIndex` for add and
rotate, `Overwrite` → `Unlink` → `SaveIndex` for delete.
The index saved is the one that was loaded. The account dies in the order of
`delete_user`: `BurnKey` → `ShredSecret` for each → `WipeTree` → `Deregister`,
and `Recreate` makes it again. `raced` and `contested` remember commands that
overlapped, `halfDone` those that died.

**Receipts.** `Ingest` → `CheckNew` (reads the index) → `CheckTxn` (pushes only)
→ `MakeDir` → `WriteFirst` → `WriteSecond` → `AppendIndex`. The directory of the
day is the only thing two ingests of one message fight for. `TearLine` is a
death amid the append; the next line joins the torn one and neither can be read
(`Garbage`). `NextDay` changes the date in directory names.

**VaultLock.** Every command reads the directory twice, for the file list
(`vault/manifest.py`) and for the archive, one file at a time, while `Edit`
writes into it. A container is one block behind openssl or numbered chunks, each
with a MAC that binds it to its place (`Opens`). A lock seals, proves the file
restorable in memory (`Prove`), writes it (`WriteSealed`) and burns what it then
finds in the directory, by a listing of its own; a backup ends with its
certificate; an unlock extracts and compares with the list (`CheckExtracted`).
`Damage` changes a block of a sealed file. Both a wrong secret and a damaged
block make `Opens` fail. What went into a sealed file is remembered next
to it (`origin`), with whether an unlock extracted meanwhile (`crossed`).

**Tokens.** Steps lie between two accesses to a shared file or the clock:
`rotate-keys` is `RotateKeys` (load, write the key file) → `AddKey` (save) →
`RetireOthers` (load) → `SaveLast` (save); `mint` is `Mint` → `Issue`;
`verify` is `Verify` (key file, MAC, claims) → `CheckRevoked`; `prune` is
`PruneRevoked` (read) → `ReplaceList`. `Tick` and `Setback` move the clock.
A token is a record nobody but `Issue` makes, which is what the MAC gives.

**Intake.** `disk[path]` is absent, good (hashes to its digest) or bad. A
record id is a prefix of the digest, so it stands for the digest. `Register`
(hash the source) → `FinishCopy` → `AppendIntake`, where `SourceChanges` may come
before the copy, which nobody hashes; `Retire` → `Overwrite` → `Unlink` (or
`ReadBackFails`) → `AppendRetirement`. `verify` changes nothing and is the
operator `Issues`. `Rot` is the drive. A torn record makes every later command
refuse the log (`torn`).

**SaveChains.** Each machine has a journal, a snapshot store and a pin; the
remote has a journal and a store. The watched file is no state: its owner writes
it at any moment, so `Commit` and `CopyFile` each read some content, and a
restore, a commit followed by a write of the file, adds nothing else. Commit is
`Commit` (hash the file, read the journal, begin the copy) → `CopyFile` or
`CopyFails`, which stops nothing → `AppendEntry`. Push is `Push` (all checks) →
`CheckBlob` / `OpenBlob` → `UploadBlob` for each blob → `OpenDraft` →
`WriteDraft` → `WriteRemote` → `SetPin`, where the draft (`journal.jsonl.tmp`) is
one file for all pushes: what comes of two that write it at once is
`Overlaid`; fetch is `Fetch` (all
checks and the verified stage) → `InstallBlob` for each blob → `WriteJournal` →
`SetPin`; the doctor is `Fix` → `MoveOrphan` → `RewriteConfig`. `Crash` ends a
command, a failed transfer included, and keeps the disks; `RollBack` puts an
older remote journal back, `DamageBlob` damages a blob of the remote. A commit is
its number. Numbers follow timestamps and not the order in which commits are
made: a new commit takes any number that is free, so clocks may disagree or be
set back.

## 3. The runs

Every run ends within four minutes on two workers.

| Run | Result | States | What it shows |
|---|---|---|---|
| `audit_chain` | passes | 15 k | Appends, torn appends and edits by hand in any order: `verify` reports every edit that is not at the end, and only edits and tears; a tear costs one record at most; a chain that broke stays broken. |
| `keyring` | passes | 0.37 M | All ceremonies with a crash after any write and a lost copy, also of a key just installed: what the registry, the certificates and the log say is true, only burns destroy keys, the ceremonies implement `Deletion`, and destroy-master ends with an empty registry unless it crashes. |
| `vault_serial` | passes | 1.5 M | One command at a time, one of them dying: the under-18 surface, shares as granted, keys and directories with their accounts; `vault.verify` reports nothing but references to deleted accounts. |
| `tokens_serial` | passes | 3.2 M | Rotation, minting, revocation and pruning with a crash and a clock set back: every token's key is there, some key can mint and no retired one does, and a revocation outlives its token. |
| `intake` | passes | 1.5 M | Register, verify and retire with crashes, failing burns, drive damage and a source that changes before it is copied: the records are true, damage is reported, only the confirmed file burns. |
| `dir_burn` | passes | 4.3 M | A directory burn through the per-file primitive, next to the command line of that primitive, with a crash, edits, and hard links and symlinks made at any moment: manifests and certificates are true, only what was listed or linked since dies, and the primitive implements `Deletion`. |
| `vault_lock` | passes | 1.7 M | Lock, unlock and backups in both containers, two at a time, with edits, damage and crashes: what a lock burned is recoverable, what verifies is a snapshot, damaged bytes never reach the vault. |
| `secrets` | passes | 2.0 M | The five commands, two at a time and next to the deletion of the account, with a crash that may leave a temporary file: what is listed opens, of what was deleted at most a temporary file of a command that died is left, and nothing outlives the account. |
| `receipts` | passes | 3.2 M | Mail, pushes and scans sent several times and at once, with crashes, torn index lines and a change of date: nothing is listed twice, what is listed is whole, a torn line costs one receipt. |
| `disk_burns` | passes | 3.9 M | Shreds, slack wipes and free-space wipes of the files of one disk, on six kinds of disk, next to erases of the disk, with failing writes, programs that append, replace, rename and remove, mounts the guards see or not, and swaps: what is certified is destroyed, and only what was confirmed. |
| `save_chains` | passes | 4.3 M | Two machines commit, repair and sync through one folder at the same time and with clocks that disagree, with a death, a failed copy, a rollback or a damaged blob: what a journal names is there, journals only grow, and a remote that lost something is refused. |
| `free_wipe_unsynced` | violation |  | The free-space wipe unlinks its last filler before it has reached the disk. |

A violation run checks a sentence of the repository's own documentation and
finds the code not keeping it; `PROJECT.json` "findings" quotes the sentence.

Type invariants are theorems (section 4) where a module is proved about, and
not repeated in the runs.

### Bounds, and why they are enough

* `audit_chain`: four certificates, two torn writes, one edit. Four entries are
  enough for an edit with entries before and after it and an append after that;
  two tears reach a tear on top of a tear.
* `keyring`: two names, two keys, one crash, one lost copy, four certificates.
  Two names are the least for a key to turn up under a foreign name and for
  destroy-master to have an order; two keys let a name be used again. One crash
  is the least for a retry; more of them are covered by the theorems. No
  symmetry: the run has a liveness property.
* `vault_serial`: two names (`mom`, `sam`) make a guardian and a child, or a
  giver and a receiver; three ids let an account or device be made, removed and
  made again next to one other. Names are interchangeable. Races are covered by
  the theorem `ChildrenStayRestricted`.
* `tokens_serial`: three keys (a rotation that died, and one after it), one
  token, leeway and lifetime of one tick, four instants: the token's last valid
  instant, the boundary and the first instant after it are distinct. One crash,
  one setback. A list holds one revocation before it is too large, so the size
  limit is reached. Key ids are numbers because equal creation seconds are
  decided by the id; they are not interchangeable.
* `intake`: two machines and two digests, three records, one crash, one damaged
  file; machines, labels and digests are interchangeable.
* `dir_burn`: two paths in the target and a file outside it, one name of the
  command line, two keys, two burns, two edits or links, one crash: a burn that
  dies is followed by another, the primitive is used by two programs at once, and
  a link can be made and then replaced before or after the target is examined.
* `vault_lock`: two files, a lock file and one backup, two commands, two edits,
  one damaged block; crashes are not bounded. Two commands are a lock with a
  backup or an unlock next to it, or after it; two edits change a file between
  the two reads and again between list and burn. Commands are interchangeable.
* `secrets`: two names, two commands at once out of five, one crash, two lives
  of the account: all overlaps of two commands, with a third one after them, and
  the deletion and re-creation of the account around any of them.
* `receipts`: two pushes of one transaction, one mail and one scan, four
  ingests, two at once, two crashes, two days: each can be retried after a
  death and next to its first attempt. Callers are interchangeable.
* `disk_burns`: two files, either of which can be appended to, replaced, removed
  or renamed away or over the other while it is burned, five pieces of data, two
  commands, one failure, one rename, mount or swap, over the six kinds of disk in
  `MCDevices`: spinning with its file system on a node of its own or of another
  name, SATA flash, USB, and NVMe with a crypto erase or with a sanitize.
* `save_chains`: two machines, two contents, two commits, one mishap (a death, a
  failed copy, a rollback or a damaged blob). Two machines are the least for a
  push next to a push or a fetch; two commits make a parent and a child on one
  machine, with timestamps in either order, or histories that diverge. More
  mishaps are covered by the theorems. Machines and contents are interchangeable.
* Deadlock is not checked: every bound stops the model, and so does an operator
  who stops giving commands.

### Fairness

Only `Keyring` has a fair specification, `FairSpec`: `WF_vars(Ceremony)`, the
steps of a ceremony that was confirmed. A program that runs goes on to its next
line unless it dies, and its death is `Crash`, an action without fairness.
Nothing makes an operator start a ceremony, and no fairness says so.
`MasterBurnCompletes` uses it: once destroy-master runs, it ends with an empty
registry unless it crashed. The other components are sequences of commands
nobody is obliged to give; they have no liveness property.

### Properties under conditions

A condition is there because the property is false without it; each stands for
something the code does not prevent (section 5).

* `SharesAreCurrent`, `KeysAsPromised`, `OldKidsNeverMint`, `ActiveKeyExists`
  and `RevocationsHold` hold for one command at a time; two at once lose
  updates of `users.json`, `keys.json` and `revoked.jsonl`.
* `AccountsAreWhole` is about commands that did not die, and lets references to
  deleted accounts stand.
* `RevocationsHold` assumes a clock that does not go back: a clock set back
  revives tokens whose revocation was pruned.
* `RecordsAreTrue` is not about a file whose source changed between its hash and
  its copy; `VerifyCatchesDamage` is, but only about records whose id nobody
  shares.
* `ListedIsReadable` is about commands that do not overlap, `DeletedIsGone`
  about names only one command worked on; an entry can come back for a deleted
  secret, its file cannot. The temporary files of commands that died before
  their rename are excepted, for no deletion touches them.
  `NothingOutlivesTheAccount` is about deletions
  of the account next to which nothing else ran.
* `NoDuplicates`: not for a message whose ingests a change of date separates,
  and not for two pushes of one transaction at the same time.
* `RegistryMatchesKeys` is about callers that did not undo each other's save,
  its second half also about burns that did not die.
* `PapersAreTrue` allows one certificate of a file that still exists per burn
  that died: the certificate is written before the original is removed.
* `OnlyListedFilesDie` lets die what a link leads to that was made since the
  target was examined, and the file outside if a listed name is one of its hard
  links; `PapersAreTrue` is about paths that were never made a link.
* `LockedIsRecoverable`: not for what a lock burned after somebody else wrote
  into its directory, nor what was given up since: by an edit, by an unlock
  over it, in a sealed file that was damaged or replaced.
* `BackupsRestore`: that what verifies is a snapshot does not hold of a file that
  was sealed while an unlock extracted into the directory. New versions are
  different from all old ones, so that list and archive agree only on what did
  not change between their readings; an unlock brings old versions back.
* `UnlockedAsSealed`: the directory holds what was listed when the file was sealed
  unless that file was damaged or replaced.
* `LockedIsReported` is about commands that did not die.
* `CertifiedIsOverwritten` is about certificates that claim a kill (those of
  flash claim none) and about what no other program freed, replaced or took to
  another path between the plan and the overwrite. `SlackWipeKeepsThePlanned` is
  about what the file held at the plan. The certificates of the free wipe are in
  `free_wipe_unsynced`.
* `JournalsAreWhole`: not for the content of a name of which a copy failed, died
  half-way, met a file that was being written or truncated another copy, nor of a
  blob somebody damaged; not for the order of a commit whose timestamp is not
  after its parent's; and the order and readability of journals only until two
  pushes wrote their drafts at once (`mixed`).
* `JournalsOnlyGrow`: the remote's journal, until two pushes overlapped.
* `OnlyWhatWasConfirmedDies`: up to a disk changed or mounted after the guards
  looked, and to mounts the guards cannot see; other namespaces of the controller
  die with a sanitize or a format, and with nothing else.

## 4. The proofs

Checked by TLAPS for every value of the constants, under the assumptions named
in the modules (`KeyringAssumption`, `VaultAssumption`, `TokensAssumption`,
`DirBurnAssumption`, `SaveChainsAssumption`, `VaultLockAssumption`,
`DiskBurnAssumption`, `NoFileAssumption`, …: bounds are naturals, the absent
values are no proper ones, `Kids` is finite, the command line of the file burn uses no name of the
form `dirburn-<burn>-<index>`, a disk has at least one file and each file starts
with data of its own). Nothing is assumed of the set of `Devices`. Bounds are in
the guards, so a theorem also holds for every larger bound. Each inductive
invariant was checked by TLC on small instances before it was proved.

| Module | Theorem | Statement |
|---|---|---|
| `FlamethrowerProofs` | `TypeCorrect` | the type invariant |
|  | `CertifiedKeysStayGone` | `[]CertifiedKeyIsGone`: a key named by a deletion certificate is on disk under no name, ever again |
|  | `TheRegistryIsTrue` | `[]RegistryIsTrue` |
|  | `RemovalsAreCertified` | `NoUncertifiedRemoval`: no entry leaves the registry without its certificate |
|  | `NothingElseDestroysKeys` | `OnlyBurnsDestroyKeys` |
|  | `CeremoniesImplementDeletion` | `DeletionSpec`: every ceremony is a behaviour of `Deletion` |
|  | `CertifiedKeysAreUnreadable` | `[]D!CertifiedIsGone`, the promise of `Deletion`, of the keyring |
|  | `BrokenChainsStayBroken` | `BrokenChainStaysBroken`, from any log of any length |
|  | `VerifyFindsTheEdit` | `[](tampers <= 1 => VerifyIsExact)` |
|  | `CrashesCostOneRecordEach` | `[]TornWriteCostsOneRecord` |
|  | `CertificatesAreTrue` | `[]CertifiedIsOverwritten`, next to erases of the disk |
|  | `SlackWipesOnlySlack` | `SlackWipeKeepsThePlanned`, next to erases of the disk |
|  | `ErasesAreTrue` | `[]ErasedMeansClean` |
|  | `LocksAreReported` | `LockedIsReported` |
|  | `ErasesOnlyTheConfirmed` | `OnlyWhatWasConfirmedDies` |
| `FamilyVaultProofs` | `TypeCorrect` | the type invariant |
|  | `ChildrenStayRestricted` | `[]ChildSurface`, for commands that race |
|  | `KeysKeepTheirPromise` | `[]KeysAsPromised`, if `Serial` |
|  | `SharesAreTheGrants` | `[]SharesAreCurrent`, if `Serial` |
|  | `AccountsStayWhole` | `[]AccountsAreWhole`, if `Serial` |
| `TokensProofs` | `TypeCorrect` | the type invariant |
|  | `EveryTokenHasItsKey` | `[]MintedKeysExist`, for commands that race |
|  | `KeysInForce` | `[](ActiveKeyExists /\ OldKidsNeverMint)`, given `[]OneRotation` |
|  | `RevocationsAreKept` | `[]RevocationsHold`, given `[]ChecksAside` and `[][PruneAlone]_vars` |
|  | `OneCommandAtATime` | the three conditions hold of one process |
| `ReceiptsProofs` | `TypeCorrect` | the type invariant |
|  | `RetriesNeverCreateDupes` | `[]NoDuplicates` |
|  | `ListedReceiptsAreWhole` | `[]ListedIsWhole` |
|  | `TornLinesCostOneReceiptEach` | `[]TornLineCostsOneReceipt` |
| `SecretStoreProofs` | `TypeCorrect` | the type invariant |
|  | `ListedCanBeRead` | `[]ListedIsReadable` |
|  | `DeletedStaysGone` | `[]DeletedIsGone` |
|  | `NothingIsLeft` | `[]NothingOutlivesTheAccount` |
| `BackupProofs` | `TypeCorrect` | the type invariant |
|  | `TheRecordsAreTrue` | `[]RecordsAreTrue` |
|  | `OnlyTheOldestBurns` | `OnlyTargetsBurn` |
|  | `DamageIsReported` | `[]VerifyCatchesDamage` |
|  | `LockingLosesNothing` | `[]LockedIsRecoverable` |
|  | `BackupsAreWhole` | `[]BackupsRestore`, for certified backups and for all that verifies |
|  | `UnlockingRestores` | `UnlockedAsSealed` |
| `SaveChainsProofs` | `JournalsStayWhole` | `[]JournalsAreWhole` |
|  | `RollbacksStayRefused` | `RollbacksAreRefused` |
|  | `JournalsKeepGrowing` | `JournalsOnlyGrow` |
| `DirBurnProofs` | `FileBurnImplementsDeletion` | `DeletionSpec` of `FileBurn`, for two programs at once |
|  | `RegistryAndKeysAgree` | `[]RegistryMatchesKeys` |
|  | `BurnPapersAreTrue` | `[]PapersAreTrue` |
|  | `BurnsDestroyWhatTheyListed` | `OnlyListedFilesDie` |

The proofs have the same outline: `IInv` strengthens the property, one lemma
shows that the initial states satisfy it and one lemma or step per action that
it is kept, and the theorems follow. The strengthenings are where the reasons
are:

* **Keyring.** `CertifiedKeyIsGone` alone is not inductive: a recovery could
  restore a certified key from escrow, a create could reuse one, a burn could
  have passed over a copy. `IInv` adds that every key in the registry, in a
  file or on a certificate was generated (`RegisteredAreUsed`,
  `StoredAreUsed`, `CertifiedAreUsed`), that a registered key is found under
  its own name only (`KeysHaveOneName`), and what the running ceremony knows:
  a key being created is fresh and uncertified (`CreatingFreshKey`), a burn
  that has reached its certificate has removed both copies of the entry it
  works on (`BurningRegisteredKey`), a recovery still has its escrow copy,
  which therefore belongs to no certificate (`RecoveringFromEscrow`).
  `KInv` adds what a ceremony has done before it changes an entry: the copies
  of a key are complete before its entry is saved (`CopiesBeforeEntry`), and its
  certificate is written before the entry is dropped
  (`CertificateBeforeRemoval`).
* **Refinement of Deletion by the keyring.** `FlamethrowerProofs` shows step by
  step that each ceremony is a step of `Deletion` or a stutter. `JInv` adds to
  `IInv` which certificates the log can name and what a file that is being
  written holds, so that a key appears only once and the log never names a key
  before its certificate. `CertifiedKeysAreUnreadable` then transfers the
  promise of the abstract specification.
* **FamilyVault.** For any number of processes. A stale copy written back is
  the danger, so `IInv` adds `MemoryIsStorable`: *every* copy of the registry
  held in memory by a command that is going to write it is itself a well-typed
  registry of restricted children. It does not matter which copy wins. The other
  three properties are false for commands that overlap; under `Serial` (which
  the theorems take as a hypothesis) `FInv` adds to them that nobody else runs
  (`Alone`), what the command under way is about to save (`Commits`), and that
  an account is whole unless this command is between its writes
  (`WholeUnlessInTransit`).
* **Tokens.** For any number of processes. `IInv` adds `MemoryIsBacked`: every
  key named by a copy of `keys.json` that is about to be saved has its file
  already, also when the copy is stale, and a mint under way saw its key file.
  That the file is written before the entry is what makes this true.
  The later theorems carry as hypotheses exactly the overlaps that must not
  happen, stated of the behaviour: `[]OneRotation` (no two inits or rotations at
  once) for the keys in force; `[]ChecksAside` and `[][PruneAlone]_vars` (no
  verify between its checks next to a prune, and nothing else changes the list
  while prune replaces it) for revocations. Mints, revocations and clock changes
  may overlap with everything. `OneCommandAtATime` shows that all three hold of
  one process. `KeyMemory` and `ListMemory` are what a command relies on between
  two steps: the copy to be saved keeps its new key active, and prune keeps every
  revocation whose token still verifies.
* **Receipts.** For any number of ingests. That a message is listed once rests
  on the directory of the day: whoever is past `MakeDir` owns it
  (`OwnDirectory`), so no line and no other ingest has the same receipt; that it
  is listed on one day rests on `OnOneDay`, and a transaction on `OneByOne`.
  `ListedIsWhole` follows from what an ingest has written at each step. For
  `TornLineCostsOneReceipt` an index that ends in a cut line owes one receipt in
  advance (`TearsPay`), which the next line pays when it joins the cut one.
* **AuditLog.** Every entry, torn or whole, is chained to the last line that can
  be read, so what is in front of it is judged as before: the first break stays
  one, however the last line ends. `VInv` adds that an unedited log is chained
  and numbered through its readable entries and was broken by at most one edit
  since, and that a torn end owes one record in advance (`CrashesPay`).
  `VerifyFindsTheEdit` is about at most one edit: a second one can undo the first.
* **SecretStore.** For any number of commands. `Overlaps` says that whoever is
  not alone is remembered as such; `IndexIsKept` that, as long as nobody
  overlapped, the loaded index is the index and the key in hand is the key;
  `TreeIsGone` that a wiped tree stays so unless somebody raced, and that a
  directory made anew is empty; `DeletionsHold` that nobody is about to store a
  deleted secret again; `DraftsAreHeld` that a temporary file belongs to a
  command about to rename it or was left by a death.
* **Intake.** `Registering` and `Retiring` are what a command knows while it
  runs: no record has the file it copies, and the file it retires is the oldest
  of its id and not retired. `RetirementsAreOfIntakes` then ties every
  retirement to a record, which is why a record that does not share its id is
  never skipped by `verify`.

* **File burn.** Two programs use the primitive at once and can undo each
  other's saves. `PInv` says what cannot be undone: a key on record anywhere, on
  disk, in `files.json` or in a program's copy of it (`Bears`), is the key of one
  name; the key of a running seal is known to nobody else (`SealIsSecret`), so
  no burn can certify it and be followed by its write; a burn has removed the
  copies it has passed under *every* name (`BurnIsThorough`). From this every
  step is one of `Deletion`. `RInv` then follows the entry of the name a call
  works on, as long as no save was undone.
* **Directory burn.** The steps are sorted by what they do to the walk
  (`WalkMoves`), to the records (`RecordSteps`) and to the tree (`TreeMoves`),
  and every invariant is shown for these kinds. The chain of reasons:
  names of a burn are new, since burn ids are not drawn twice and a path is
  taken up once (`NamesAreNew`); so what is on record for the name at hand was
  sealed as it was read (`SealedAsRead`); so the certificate is one of that
  version, before the original is touched (`RemovedAreCertified`); so what a list
  says of a file is true when the file is put on it, and stays true, because
  other programs write versions that were not there before (`ListsAreTrue`).
  Names of one file are the exception, and `LinksAreMarked` says which they are:
  a path that was never made a link (`NeverLinked`) shares neither its file nor
  its version with another path or with the file outside. A target that was
  examined had no links, so what an overwrite reaches under another name was
  linked since (`LinksAreNew`). A
  burn reserves one certified survivor when it starts and gives it back with its
  manifest (`LeftoversAreFew`), which is where the bound of `PapersAreTrue` on
  burns that died comes from.
* **SaveChains.** For any number of machines. `Kept` says that a machine has the
  blobs of its journal, of the entry it is about to append and of the log it is
  about to merge but for those still to install, `Uploaded` the same of the log
  a push is about to write, up to the blobs of which a copy failed (`spoilt`);
  `Ordered` that parents with an earlier timestamp come first in every log read
  or written, which a merge keeps because it appends in the order of timestamps
  (`InOrder`). Both say of the remote's log only what holds until two pushes
  wrote their drafts at once, before which a draft is the log of the one push
  that wrote it (`OneDraft`); `PinCovers` that the pin, and whatever a command
  is about to pin, holds all that the machine ever saw. `OnePush`: unless two
  pushes overlapped, the log a push read is still in front of what it writes.

* **Vault lock.** For any number of commands, files, backups, edits and damages.
  The heart is what a command has in hand between its steps. A lock that nobody
  disturbed has all that it has gone through, then all that the directory holds,
  in a file that opens, unless that was given up (`LockHolds`); so what its burn
  takes is recoverable. For snapshots `ReadTwice` says, in the middle of the
  second reading, that some past state of the directory has the versions on
  which list and archive agree so far and those of the files still to read that
  are as listed. When the archive is complete and agrees with the list, that
  state is what was sealed. It needs that versions are not written twice
  (`HoldsWritten`, `PastInv`), which an unlock next to a seal breaks (`crossed`).
  A sealed file keeps what went into it and its list only loses entries
  (`IsContainer`, `SealedInv`), so a damaged one that still verifies is still
  that snapshot.
* **Disk burns.** For any files and any kinds of disk, next to other programs and
  erases. `DiskInv` rests on `Apart` and `Inner`: a piece of data is in one place
  that a name leads to, or in none, and not in a block and behind the end of one
  file. A burn on a hard disk can then say of what it planned to destroy that it
  is out of every other file and in the part of its target that will be
  overwritten, or was freed or taken to another path by another program
  (`Pending`, `escaped`), and after the overwrite that it is nowhere (`Treated`).
  That a slack wipe cuts off nothing its file held at the plan is `SlackInv`:
  behind the planned size no file has any of it (`Behind`), whichever file the
  path leads to by then. No step brings data back (`Older`), so
  certificates stay true. On flash nothing is claimed, and `Rust` says where that
  matters: only flash has cells that no write reaches.
* **Device erase.** `EraseInv` adds that burns of one disk exclude each other
  (`OneAtATime`), that a running erase has a plan its media allows (`Planned`),
  that what it is going to certify is clean once the firmware is done (`Clean`),
  that what was confirmed is so still or was changed too late to be noticed
  (`Confirmed`), and that only a plan with a password locks a disk and its last
  step unlocks it (`Unlocking`), so that no certificate of success is written on
  a locked disk.

The proofs also corrected the models. That a verified file is a snapshot is
false next to an unlock, which the runs had been too small to show; the condition
`crossed` came out of the proof. The litter of a shred that failed keeps the
slack of the file as well as its blocks (`Occupied`).

Only model-checked:

* `MasterBurnCompletes`: liveness under fairness is beyond this prover.
* `FreeWipeReachesTheDisk` is refuted by its run.

## 5. What the code does that its documentation does not say

One disagreement is shown by a run: the free-space wipe skips the sync of its
last filler when the disk is full, which is how it ends (`slack.py:336`), against
`slack.py:263-265` (`free_wipe_unsynced`).

The following were met while modelling. They are part of the models, most of
them as the conditions listed above:

* *Keyring.* `recover_vault` advises to destroy the vault first and recover
  then (`keyring.py:373-376`); the burn takes the escrow copy with it. A burn
  that dies and is repeated issues a certificate that lists only the copies the
  second attempt found; a certificate whose log append failed stays unlogged.
* *Audit log.* Its end can be cut off without `verify` noticing; an entry
  appended after a torn write is lost although `append` returned.
* *Accounts.* `delete_user` leaves the grants made to the deleted name, and the
  next account of that name holds them (`vault.py:345`, against `vault.py:243`).
  A deletion that dies after the burn leaves an account without a key that
  cannot be deleted (`vault.py:332`, against `vault.py:358-359`). Of two
  commands at once the later writer undoes the other (`vault.py:113`). Deleting
  a guardian leaves the child to nobody. `grant_share`, `revoke_share` and
  `add_device` take any `--by` for an adult's account. `verify` does not report
  the directory of a creation that died.
* *Tailnet.* A device that was revoked and added again is active without a
  claim (`tailnet.py:254`, against `tailnet.py:247-248`).
* *Tokens.* Prune replaces the list it read and loses a revocation appended
  meanwhile (`tokens.py:507`). Two rotations at once can retire each other's
  key. `verify` checks expiry before it reads the blacklist. A list over the
  size limit is refused by `prune-revoked` too.
* *Intake.* The source is hashed and then copied (`intake.py:159`, `191`), and
  the copy is never hashed: a source that changes in between is recorded under a
  digest its copy does not have, which `verify` finds. Records of the same bytes
  share an id: retiring one machine's file hides the other's from `verify`
  (`intake.py:226`, against `intake.py:215`). `register` after a retirement, or
  with another quarantine flag, answers with the old record and stages nothing.
* *Secrets.* A command next to another one saves the index it loaded and drops
  the other's entry; one next to a deletion of the account makes the directory
  again, after which `create_user` refuses the name. An add or a rotation that
  dies before its rename (`secretstore.py:197-205`) leaves a temporary file that
  opens with the account's key and that no command looks for: deleting the secret
  (`secretstore.py:367-368`) removes the file of its name only, although a retry
  may have stored the very same secret. It goes with the account.
* *Directory burn.* Links are refused when the directory is listed
  (`dirburn.py:92-135`) and not looked for again: the overwrite opens the path
  (`dirburn.py:186`), follows a symlink put there since and writes through every
  other name of the file, so a file that was not listed loses its bytes. A listed
  name that is a hard link of a file outside the directory is not refused at all.
* *Receipts.* An ingest that dies leaves its directory, which refuses the retry
  of that day; a torn index line makes every listing, and every push with a
  transaction id, fail.
* *Vault lock.* A lock burns what a *second* listing of the directory finds
  (`vault_lock.py:367`), so a file added or changed since the archive was built
  dies unsealed, against `vault_lock.py:33-34`. A lock that died in its burn and
  is repeated seals what is left and replaces the fuller file
  (`vault_lock.py:253`). The self-check compares the archive with itself, not
  with the file list. A refused unlock leaves what it extracted
  (`vault_lock.py:399`). A dry run of lock still writes the sealed file. Two
  backups within one second have the same name (`backup.py:163`). An unlock into
  a directory that is being sealed can bring a version back between the reading
  of the list and that of the archive.
* *Slack wipe.* The certificate says "read-back sampled" (`slack.py:234`) and
  nothing is read back. The size is taken at the plan (`slack.py:160`), the file
  is opened by name later (`slack.py:210`) and cut to that size (`slack.py:219`):
  a file that grew in between, or a longer one moved over its name, loses what is
  behind it, against "preserves the file's contents and size exactly"
  (`slack.py:31`, `slack.py:154`). A crash leaves the file padded.
* *Device erase.* A step that ends in an exception other than the one that is
  caught (`tier2.py:81`, or an error of the zero fill) writes no certificate,
  although every burn is said to write one (`tier2.py:25`), and the ATA password
  stays set. An NVMe sanitize is certified when it has been started. The
  pattern that looks for crypto erase also matches "Not Supported"
  (`tier2.py:102`). The guard against mounts fails open: a mount table that cannot
  be read counts as empty (`tier2.py:246-251`), and mounts are matched by the name
  of the node (`tier2.py:254-261`), so a file system behind LVM, dm-crypt or md is
  not seen; such a disk is erased under those who use it. A sanitize is given to
  the controller (`tier2.py:169-172`), and a format may be, while one namespace
  was checked and confirmed.
* *Shredder.* Its log is written at the end only. The device and inode recorded
  at the plan (`tier3.py:181`) are compared among the targets and never with the
  file that is opened later (`tier3.py:276`, `395`): a target renamed away and
  made again in the meantime keeps its data while the certificate claims a kill.
* *Save chains.* A `Copy-Item` that fails does not stop a commit
  (`vault.ps1:360`), which appends an entry whose blob is missing. All pushes
  write one `journal.jsonl.tmp` (`chains-sync.sh:236-241`): two at once can
  rename a torn or mixed journal into place. A merge sorts by the clock of the
  machine that committed (`chains-sync.sh:233`), so a child with an earlier
  timestamp than its parent comes in front of it. A snapshot is copied in place
  under a hash that was taken before (`vault.ps1:358`); if the copy dies or the
  game writes meanwhile, wrong bytes lie under the name, and every later commit,
  push and fetch takes a file that is there for the right one. A push that dies
  in a copy makes every later push of that blob end with "remote is corrupt"
  (`chains-sync.sh:303`). Two pushes at once drop the commits of the first from
  the remote (`chains-sync.sh:315`), after which the first machine's pin refuses
  to sync. A commit made while a fetch runs on the same machine is dropped when
  the fetch replaces the journal (`chains-sync.sh:367`). After a merge of
  histories that diverged, `verify` fails, for it wants every parent right in
  front (`vault.ps1:567`, against `vault.ps1:664-665`), and the doctor reports a
  second first commit as a dangling parent. A push of an empty journal pins no
  ids, which the doctor calls malformed. `read_journal` looks for duplicate ids
  in a set it never fills (`chains-sync.sh:163-167`). An explicit vault id is
  saved before anything is checked (`chains-sync.sh:129-131`). The engine's own
  merge writes `$_` instead of the entry (`vault.ps1:691`).

## 6. What is not modelled, and why

* Cryptography (keys, MACs, hashes, AES) is identity of values. Certificate and
  log wording, dates other than the one in a receipt's name, and file name
  extensions are left out. Activity logs are written and never read back.
* **Save chains.** The push and fetch of `vault.ps1` are a second implementation
  of the protocol of `chains-sync.sh` and are left out, and so are its
  subcommands that edit the watch list. The planner and the scan of the doctor
  only report; the command line wraps the rest. A commit has one file, one
  remote is used, a torn line (which every reader refuses) occurs in the remote's
  journal and not in a machine's own, and one command runs on a machine at a time.
* **Directory burn.** The directory itself is not replaced by a symlink while it
  is burned, and nothing but regular files lies in it. A symlink to another file
  of the target is treated like a hard link of it.
* **Secret store.** What a secret says is left out: a file is the generation of
  the key it opens with.
* **Manifest audit** (`vault/verify.py`), the flamethrower's plan and argument
  parsing, `dns_refresh` (a DNS file from `status`): they keep no state.
* **Installer, image and build**: partition commands and configuration.
* `rmtree(ignore_errors=True)` (`vault.py:344`) removes a directory as a whole.
  An account named `family` or `world` (`vault.py:258`) is excluded: names are
  distinct from the two scopes. Two ceremonies of the keyring at once
  (`keyring.py:394`) are out of scope by `audit.py:160-162`. `FamilyVault` and
  `SecretStore` each model what they need of an account; they are not composed.

## 7. Plan

1. *Done:* all of `flamethrower/`, `vault/`, `tokens/` and `backup/` that keeps
   state, and the sync of `chains/`; `Deletion` with its two implementations;
   eight modules of proofs.
2. *Done:* theorems for every component that has a module: the keyring and its
   log, accounts, tokens, receipts, secrets, intake, both file burns, the save
   chains, the vault lock, the disk burns and the device erase.
3. Overlapping commands on one machine in `SaveChains`; `FamilyVault` and
   `SecretStore` composed over one account.
