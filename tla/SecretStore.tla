----------------------------- MODULE SecretStore -----------------------------
(***************************************************************************)
(* The API keys one account keeps encrypted in its vault                   *)
(* (vault/secretstore.py), while the account itself may be deleted and     *)
(* created again (vault/vault.py).                                         *)
(*                                                                         *)
(* A secret is a file vaults/<user>/secrets/<name>.secret, sealed with the *)
(* account's data key, and an entry of index.json next to it.  The file is *)
(* written under a temporary name of the command's own and renamed; a      *)
(* command that dies in between leaves that draft behind.  A command       *)
(* loads the index, works on the file and saves the index it loaded; there *)
(* is no lock, so commands interleave at these steps, and each may die     *)
(* between them.  The data key is generation key of the account, 0 when it *)
(* has been burned; a file is the generation it was sealed with, under     *)
(* which alone it opens, or 0 when it is not there.                        *)
(***************************************************************************)
EXTENDS Naturals, FiniteSets

CONSTANTS
  Names,                             \* names that pass _check_name
  Callers,                           \* commands that may run at the same time
  MaxCommands, MaxLives, MaxCrashes  \* bounds

ASSUME SecretStoreAssumption ==
  MaxCommands \in Nat /\ MaxLives \in Nat \ {0} /\ MaxCrashes \in Nat

VARIABLES
  registered,  \* the account is in users.json
  key,         \* its data key, 0 when there is none
  standing,    \* vaults/<user> exists
  file,        \* the .secret files
  drafts,      \* the .secret.tmp.<pid> files
  index,       \* the names in index.json
  call,        \* what each command is doing
  lives,       \* how many times the account was created
  commands, crashes,
  litter,      \* the drafts that deaths left behind
  deleted,     \* names whose deletion was reported, since their last add or rotation began
  halfDone,    \* names whose add or deletion died on the way
  raced,       \* two commands that write the index overlapped, or any one a deletion of the account
  contested    \* names two commands worked on at once, or one while the account died

vars == <<registered, key, standing, file, drafts, index, call, lives, commands, crashes,
          litter, deleted, halfDone, raced, contested>>
account == <<registered, key, lives>>
files == <<file, drafts, litter>>
history == <<deleted, halfDone, raced, contested>>

Scrambled == MaxLives + 1
Pids == 1..MaxCommands
Writing == {"add", "rotate", "delete"}
\* What delete_user does after the account's key.
Deleting == {"shred", "wipe", "deregister"}

NoCall == [op |-> "none", at |-> "idle", name |-> "none", loaded |-> {}, key |-> 0, pid |-> 0]

Init ==
  /\ registered = TRUE /\ key = 1 /\ standing = TRUE /\ lives = 1
  /\ file = [n \in Names |-> 0]
  /\ drafts = {} /\ litter = {}
  /\ index = {}
  /\ call = [c \in Callers |-> NoCall]
  /\ commands = 0 /\ crashes = 0
  /\ deleted = {} /\ halfDone = {} /\ raced = FALSE /\ contested = {}

Sealed(n) == file[n] # 0
Readable(n) == key # 0 /\ file[n] = key
Running(ops) == {c \in Callers : call[c].op \in ops}
Goto(c, at) == call' = [call EXCEPT ![c].at = at]
Return(c) == call' = [call EXCEPT ![c] = NoCall]

-----------------------------------------------------------------------------
(* The commands on a secret.                                                *)

\* _require_adult, _check_name; the dry run of a delete reads like a get.
Begin(c, op, n) ==
  /\ call[c] = NoCall
  /\ commands < MaxCommands
  /\ registered
  /\ commands' = commands + 1
  /\ call' = [call EXCEPT ![c] = [op |-> op, at |-> "load", name |-> n, loaded |-> {}, key |-> 0,
                                  pid |-> commands + 1]]
  /\ raced' = (raced \/ Running({"delete_user"}) # {} \/ (op \in Writing /\ Running(Writing) # {}))
  /\ contested' = IF op \in Writing /\ \E d \in Callers : \/ call[d].op = "delete_user"
                                                         \/ (call[d].op \in Writing /\ call[d].name = n)
                  THEN contested \cup {n} ELSE contested
  /\ deleted' = IF op \in {"add", "rotate"} THEN deleted \ {n} ELSE deleted
  /\ UNCHANGED <<account, standing, files, index, crashes, halfDone>>

\* _load_index makes the directory when it is not there, and a directory just made holds no
\* index.  An add wants a new name, a rotation and a deletion a listed one; get and
\* list_secrets are done.
Load(c) ==
  /\ call[c].at = "load"
  /\ standing' = TRUE
  /\ IF \/ call[c].op = "list"
        \/ call[c].op = "add" /\ call[c].name \in index
        \/ call[c].op \in {"rotate", "delete"} /\ call[c].name \notin index
     THEN Return(c)
     ELSE call' = [call EXCEPT ![c].loaded = index,
                               ![c].at = IF call[c].op = "delete" THEN "overwrite" ELSE "key"]
  /\ UNCHANGED <<account, files, index, commands, crashes, history>>

\* _user_key refuses when the file is not there.
TakeKey(c) ==
  /\ call[c].at = "key"
  /\ IF key = 0 THEN Return(c) ELSE call' = [call EXCEPT ![c].key = key, ![c].at = "write"]
  /\ UNCHANGED <<account, standing, files, index, commands, crashes, history>>

\* <name>.secret.tmp.<pid>, sealed with the key the command c took.
Draft(c) == [name |-> call[c].name, key |-> call[c].key, pid |-> call[c].pid]

\* _write_secret_file up to its fsync: the directory is made again, and the ciphertext
\* lies under a name nobody else uses.
WriteDraft(c) ==
  /\ call[c].at = "write"
  /\ drafts' = drafts \cup {Draft(c)}
  /\ standing' = TRUE
  /\ Goto(c, "replace")
  /\ UNCHANGED <<account, file, litter, index, commands, crashes, history>>

\* Mutant: a rotation shreds the old file before it puts the new one in its place.
ShredThenReplace(c) ==
  /\ call[c].at = "replace"
  /\ LET n == call[c].name IN
       IF call[c].op = "rotate" /\ Sealed(n)
       THEN file' = [file EXCEPT ![n] = 0] /\ UNCHANGED <<drafts, call>>
       ELSE /\ file' = [file EXCEPT ![n] = call[c].key]
            /\ drafts' = drafts \ {Draft(c)}
            /\ Goto(c, "save")
  /\ UNCHANGED <<account, standing, litter, index, commands, crashes, history>>

\* os.replace: the draft takes the place of the file in one step.  When the tree was wiped
\* in the meantime it raises, and the command ends.
ReplaceFile(c) ==
  /\ call[c].at = "replace"
  /\ IF Draft(c) \in drafts
     THEN /\ file' = [file EXCEPT ![call[c].name] = call[c].key]
          /\ drafts' = drafts \ {Draft(c)}
          /\ Goto(c, "save")
     ELSE Return(c) /\ UNCHANGED <<file, drafts>>
  /\ UNCHANGED <<account, standing, litter, index, commands, crashes, history>>

\* Mutant: the index entry goes and the file stays.
DropEntry(c) ==
  /\ call[c].at = "overwrite"
  /\ Goto(c, "save")
  /\ UNCHANGED <<account, standing, files, index, commands, crashes, history>>

\* _overwrite_and_unlink, of a file that is there.
Overwrite(c) ==
  /\ call[c].at = "overwrite"
  /\ IF Sealed(call[c].name)
     THEN /\ file' = [file EXCEPT ![call[c].name] = Scrambled]
          /\ Goto(c, "unlink")
     ELSE Goto(c, "save") /\ UNCHANGED file
  /\ UNCHANGED <<account, standing, drafts, litter, index, commands, crashes, history>>

Unlink(c) ==
  /\ call[c].at = "unlink"
  /\ file' = [file EXCEPT ![call[c].name] = 0]
  /\ Goto(c, "save")
  /\ UNCHANGED <<account, standing, drafts, litter, index, commands, crashes, history>>

Entries(c) ==
  IF call[c].op = "delete" THEN call[c].loaded \ {call[c].name}
                           ELSE call[c].loaded \cup {call[c].name}

\* _save_index: the index that was loaded, with this command's change, replaces the file.
SaveIndex(c) ==
  /\ call[c].at = "save"
  /\ index' = Entries(c)
  /\ standing' = TRUE
  /\ deleted' = IF call[c].op = "delete" THEN deleted \cup {call[c].name} ELSE deleted
  /\ halfDone' = halfDone \ {call[c].name}
  /\ Return(c)
  /\ UNCHANGED <<account, files, commands, crashes, raced, contested>>

-----------------------------------------------------------------------------
(* The account.                                                             *)

\* delete_user: keyring.destroy_vault comes first; FamilyVault has the steps before it.
BurnKey(c) ==
  /\ call[c] = NoCall
  /\ commands < MaxCommands
  /\ registered /\ key # 0
  /\ commands' = commands + 1
  /\ key' = 0
  /\ call' = [call EXCEPT ![c] = [op |-> "delete_user", at |-> "shred", name |-> "none",
                                  loaded |-> {n \in Names : Sealed(n)}, key |-> 0, pid |-> 0]]
  /\ raced' = (raced \/ Running(Writing \cup {"list"}) # {})
  /\ contested' = contested \cup {call[d].name : d \in Running(Writing)}
  /\ UNCHANGED <<registered, lives, standing, files, index, crashes, deleted, halfDone>>

\* Every ciphertext that was listed under its own name, then the tree.
ShredSecret(c) ==
  /\ call[c].at = "shred"
  /\ IF call[c].loaded = {}
     THEN Goto(c, "wipe") /\ UNCHANGED file
     ELSE \E n \in call[c].loaded :
            /\ file' = [file EXCEPT ![n] = 0]
            /\ call' = [call EXCEPT ![c].loaded = @ \ {n}]
  /\ UNCHANGED <<account, standing, drafts, litter, index, commands, crashes, history>>

\* Mutant: the tree is left to the key's death.
KeepTree(c) ==
  /\ call[c].at = "wipe"
  /\ Goto(c, "deregister")
  /\ UNCHANGED <<account, standing, files, index, commands, crashes, history>>

\* shutil.rmtree, with the drafts.
WipeTree(c) ==
  /\ call[c].at = "wipe"
  /\ file' = [n \in Names |-> 0]
  /\ drafts' = {}
  /\ index' = {}
  /\ standing' = FALSE
  /\ Goto(c, "deregister")
  /\ UNCHANGED <<account, litter, commands, crashes, history>>

Deregister(c) ==
  /\ call[c].at = "deregister"
  /\ registered' = FALSE
  /\ Return(c)
  /\ UNCHANGED <<key, lives, standing, files, index, commands, crashes, history>>

\* create_user makes the vault directory and refuses one that is there.
Recreate ==
  /\ ~registered /\ ~standing
  /\ lives < MaxLives
  /\ registered' = TRUE /\ standing' = TRUE
  /\ lives' = lives + 1 /\ key' = lives + 1
  /\ deleted' = {}
  /\ UNCHANGED <<files, index, call, commands, crashes, halfDone, raced, contested>>

-----------------------------------------------------------------------------
\* A killed command leaves the disk as it is, with its draft.
Crash(c) ==
  /\ call[c] # NoCall
  /\ crashes < MaxCrashes
  /\ crashes' = crashes + 1
  /\ halfDone' = CASE call[c].op = "delete_user" -> Names
                   [] call[c].at \in {"unlink", "save"} -> halfDone \cup {call[c].name}
                   [] OTHER -> halfDone
  /\ litter' = IF call[c].at = "replace" THEN litter \cup {Draft(c)} ELSE litter
  /\ Return(c)
  /\ UNCHANGED <<account, standing, file, drafts, index, commands, deleted, raced, contested>>

\* What each command does once it has begun.
AddSecret(c) ==
  call[c].op = "add" /\ (Load(c) \/ TakeKey(c) \/ WriteDraft(c) \/ ReplaceFile(c) \/ SaveIndex(c))
RotateSecret(c) ==
  call[c].op = "rotate" /\ (Load(c) \/ TakeKey(c) \/ WriteDraft(c) \/ ReplaceFile(c) \/ SaveIndex(c))
DeleteSecret(c) ==
  call[c].op = "delete" /\ (Load(c) \/ Overwrite(c) \/ Unlink(c) \/ SaveIndex(c))
ListSecrets(c) == call[c].op = "list" /\ Load(c)

Next ==
  \/ \E c \in Callers :
       \/ \E op \in {"add", "rotate", "delete", "list"}, n \in Names : Begin(c, op, n)
       \/ AddSecret(c) \/ RotateSecret(c) \/ DeleteSecret(c) \/ ListSecrets(c)
       \/ BurnKey(c) \/ ShredSecret(c) \/ WipeTree(c) \/ Deregister(c)
       \/ Crash(c)
  \/ Recreate

Spec == Init /\ [][Next]_vars

-----------------------------------------------------------------------------
(* Properties                                                               *)

CallType ==
  [op : {"none", "list", "delete_user"} \cup Writing,
   at : {"idle", "load", "key", "write", "replace", "overwrite", "unlink", "save"} \cup Deleting,
   name : Names \cup {"none"}, loaded : SUBSET Names, key : 0..MaxLives, pid : 0..MaxCommands]

DraftType == [name : Names, key : 1..lives, pid : Pids]

\* Type invariant.  A command that holds a key holds one that existed, and no file is
\* sealed with anything else.
TypeOK ==
  /\ registered \in BOOLEAN /\ standing \in BOOLEAN /\ raced \in BOOLEAN
  /\ lives \in 1..MaxLives /\ key \in {0, lives}
  /\ file \in [Names -> (0..lives) \cup {Scrambled}]
  /\ drafts \subseteq DraftType /\ litter \subseteq DraftType
  /\ index \subseteq Names /\ deleted \subseteq Names
  /\ halfDone \subseteq Names /\ contested \subseteq Names
  /\ call \in [Callers -> CallType]
  /\ commands \in 0..MaxCommands /\ crashes \in 0..MaxCrashes

\* The names list_secrets shows can be read, at every moment of a rotation and whatever died
\* before: the file is written before the index.  Only a deletion under way, or one that
\* died, leaves a listed name without its file.  Not covered: commands that overlap, the
\* later of which saves the index it loaded before (secretstore.py add_secret,
\* rotate_secret, delete_secret).
BeingDeleted(n) == \E c \in Callers : call[c].op = "delete" /\ call[c].name = n
ListedIsReadable ==
  ~raced /\ key # 0 =>
    \A n \in index : Readable(n) \/ BeingDeleted(n) \/ n \in halfDone

\* Of a secret that was reported deleted no file is left under its name, though a command on
\* another name may bring its entry back into the index, until an add or a rotation stores it
\* anew; and a temporary file of it is one that a death left.  Such a draft delete_secret does
\* not touch: it stays, readable with the account's key, and holds what its add or rotation
\* was to store, which a retry may have stored since (secretstore.py _write_secret_file,
\* delete_secret).
DeletedIsGone ==
  \A n \in deleted \ contested :
     ~Sealed(n) /\ \A d \in drafts : d.name = n => d \in litter

\* When the account is gone so is every ciphertext, the drafts that deaths left included, and
\* its name can be used again: a
\* command that was under way, even list_secrets, would make the directory again, and one
\* that had read the key would write a file (vault.py delete_user, secretstore.py
\* _secrets_dir).
NothingOutlivesTheAccount ==
  ~registered => /\ \A n \in Names \ contested : ~Sealed(n) /\ \A d \in drafts : d.name # n
                 /\ standing => raced
=============================================================================
