------------------------------ MODULE FileBurn ------------------------------
(***************************************************************************)
(* The per-file burn of the flamethrower (flamethrower/fileburn.py): a     *)
(* file is sealed under a key of its own, and burned by destroying every   *)
(* copy of that key, then the ciphertext.                                  *)
(*                                                                         *)
(* `disk[place][name]' is what is stored for a sealed name: the ciphertext *)
(* bundle (named by the key it is sealed under), the key file and the      *)
(* escrow copy.  Keys are numbered in the order they are drawn; content[k] *)
(* is what was sealed under key k.  Sealing and burning are functions that *)
(* other tools call: each caller has a `call', one step of it writes one   *)
(* file.  files.json is loaded, edited in memory and replaced as a whole,  *)
(* so callers that overlap can undo each other's entries.                  *)
(***************************************************************************)
EXTENDS Naturals, Integers, Sequences, FiniteSets

CONSTANTS
  Names,    \* names a file can be sealed under
  NoName,   \* no name
  Callers,  \* programs that use the primitive
  MaxKeys   \* bound on the keys drawn

ASSUME FileBurnAssumption == MaxKeys \in Nat

Missing == 0    \* no such file, no entry in files.json
Scrap == -1     \* a file overwritten with random bytes
Keys == 1..MaxKeys

KeyPlaces == {"filekeys", "escrow"}
Places == KeyPlaces \cup {"files"}

VARIABLES
  disk,     \* what is stored at each place under each name
  registry, \* files.json: name -> key of its entry (key_id and receipt)
  content,  \* content[k]: what was sealed under key k
  certs,    \* certificates/*.json: <<name, key>>
  logged,   \* keys of the certificates in the audit log
  call,     \* what each caller is doing
  raced     \* a save of files.json undid another program's

fvars == <<disk, registry, content, certs, logged, call, raced>>

NoCall == [at |-> "idle", op |-> "none", name |-> NoName, key |-> Missing, escrow |-> FALSE,
           reg |-> [n \in Names |-> Missing]]
Returned(self) == call[self].at \in {"idle", "done", "failed"}

FInit ==
  /\ disk = [place \in Places |-> [n \in Names |-> Missing]]
  /\ registry = [n \in Names |-> Missing]
  /\ content = << >>
  /\ certs = {} /\ logged = {}
  /\ call = [self \in Callers |-> NoCall]
  /\ raced = FALSE

Finish(self, at) == call' = [call EXCEPT ![self] = [NoCall EXCEPT !.at = at]]
Goto(self, at) == call' = [call EXCEPT ![self].at = at]
Store(self, place, value) == disk' = [disk EXCEPT ![place][call[self].name] = value]
Stored(self) == disk[call[self].at][call[self].name]

\* The registry as it was loaded, with one entry changed, replaces the file.
SaveRegistry(self, entry) ==
  /\ registry' = [call[self].reg EXCEPT ![call[self].name] = entry]
  /\ raced' = (raced \/ call[self].reg # registry)

-----------------------------------------------------------------------------
(* seal: bundle, key file, escrow copy if asked for, then the entry.        *)

\* Mutant: the registry is not consulted.
SealAgain(self, n, data, escrow) ==
  /\ Len(content) < MaxKeys
  /\ content' = Append(content, data)
  /\ call' = [call EXCEPT ![self] =
       [at |-> "files", op |-> "seal", name |-> n, key |-> Len(content) + 1,
        escrow |-> escrow, reg |-> registry]]
  /\ UNCHANGED <<disk, registry, certs, logged, raced>>

Seal(self, n, data, escrow) ==
  /\ registry[n] = Missing
  /\ Len(content) < MaxKeys
  /\ content' = Append(content, data)
  /\ call' = [call EXCEPT ![self] =
       [at |-> "files", op |-> "seal", name |-> n, key |-> Len(content) + 1,
        escrow |-> escrow, reg |-> registry]]
  /\ UNCHANGED <<disk, registry, certs, logged, raced>>

AfterWrite(self) ==
  CASE call[self].at = "files" -> "filekeys"
    [] call[self].at = "filekeys" -> IF call[self].escrow THEN "escrow" ELSE "register"
    [] call[self].at = "escrow" -> "register"

WriteSealed(self) ==
  /\ call[self].op = "seal" /\ call[self].at \in Places
  /\ Store(self, call[self].at, call[self].key)
  /\ Goto(self, AfterWrite(self))
  /\ UNCHANGED <<registry, content, certs, logged, raced>>

\* The registry as it was loaded when the seal began, with the new entry.
Register(self) ==
  /\ call[self].at = "register"
  /\ SaveRegistry(self, call[self].key)
  /\ Finish(self, "done")
  /\ UNCHANGED <<disk, content, certs, logged>>

\* unseal needs the entry, the key file and a bundle made with that key.
CanUnseal(n) ==
  /\ registry[n] # Missing
  /\ disk["filekeys"][n] \in Keys
  /\ disk["files"][n] = disk["filekeys"][n]

-----------------------------------------------------------------------------
(* burn: every key copy, the ciphertext, certificate, log, then the entry.  *)

BeginBurn(self, n) ==
  /\ registry[n] # Missing
  /\ call' = [call EXCEPT ![self] =
       [NoCall EXCEPT !.at = "filekeys", !.op = "burn", !.name = n, !.key = registry[n]]]
  /\ UNCHANGED <<disk, registry, content, certs, logged, raced>>

\* Mutant: the escrow copy is passed over.
AfterBurnNoEscrow(self) ==
  CASE call[self].at = "filekeys" -> "files"
    [] call[self].at = "escrow" -> "files"
    [] call[self].at = "files" -> "certify"
AfterBurn(self) ==
  CASE call[self].at = "filekeys" -> "escrow"
    [] call[self].at = "escrow" -> "files"
    [] call[self].at = "files" -> "certify"

Burning(self) == call[self].op = "burn" /\ call[self].at \in Places

SkipMissing(self) ==
  /\ Burning(self)
  /\ Stored(self) = Missing
  /\ Goto(self, AfterBurn(self))
  /\ UNCHANGED <<disk, registry, content, certs, logged, raced>>

Overwrite(self) ==
  /\ Burning(self)
  /\ Stored(self) \in Keys
  /\ Store(self, call[self].at, Scrap)
  /\ UNCHANGED <<registry, content, certs, logged, call, raced>>

\* What a crash left overwritten is overwritten again: it stays scrap.
Unlink(self) ==
  /\ Burning(self)
  /\ Stored(self) = Scrap
  /\ Store(self, call[self].at, Missing)
  /\ Goto(self, AfterBurn(self))
  /\ UNCHANGED <<registry, content, certs, logged, raced>>

Certify(self) ==
  /\ call[self].at = "certify"
  /\ certs' = certs \cup {<<call[self].name, call[self].key>>}
  /\ Goto(self, "log")
  /\ UNCHANGED <<disk, registry, content, logged, raced>>

\* audit.append; an OSError is a warning and the burn goes on.
LogBurn(self) ==
  /\ call[self].at = "log"
  /\ logged' \in {logged, logged \cup {call[self].key}}
  /\ Goto(self, "reload")
  /\ UNCHANGED <<disk, registry, content, certs, raced>>

\* files.json is loaded again; an entry that is no longer there is a KeyError.
Reload(self) ==
  /\ call[self].at = "reload"
  /\ IF registry[call[self].name] = Missing
     THEN Finish(self, "failed")
     ELSE call' = [call EXCEPT ![self].at = "forget", ![self].reg = registry]
  /\ UNCHANGED <<disk, registry, content, certs, logged, raced>>

Forget(self) ==
  /\ call[self].at = "forget"
  /\ SaveRegistry(self, Missing)
  /\ Finish(self, "done")
  /\ UNCHANGED <<disk, content, certs, logged>>

Abandon(self) == Finish(self, "idle")

FileStep(self) ==
  \/ WriteSealed(self) \/ Register(self)
  \/ SkipMissing(self) \/ Overwrite(self) \/ Unlink(self)
  \/ Certify(self) \/ LogBurn(self) \/ Reload(self) \/ Forget(self)

-----------------------------------------------------------------------------
(* Properties of the primitive, whoever calls it.                           *)

Live == {k \in Keys : \E place \in KeyPlaces, n \in Names : disk[place][n] = k}
Certified == {c[2] : c \in certs}

D == INSTANCE Deletion WITH
  Things <- Keys, live <- Live, certified <- Certified, logged <- logged

\* The per-file burn keeps the promise of every burn: a key is certified only once none
\* of its copies can be read, it never comes back, and the log names certified keys only
\* (fileburn.py burn: copies, ciphertext, certificate, audit record, in that order).
DeletionSpec == D!DSpec

\* A listed file whose key file is there opens with it: the bundle and the key are on
\* disk before the entry is, and a burn destroys the key before the bundle (seal, burn).
\* For programs whose saves of files.json do not undo each other.
RegisteredOpens ==
  ~raced => \A n \in Names : (registry[n] # Missing /\ disk["filekeys"][n] \in Keys)
              => CanUnseal(n) /\ disk["filekeys"][n] = registry[n]

BeingSealed == {call[self].key : self \in {c \in Callers : call[c].op = "seal"}}
=============================================================================
