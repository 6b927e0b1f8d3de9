----------------------------- MODULE SaveChains -----------------------------
(***************************************************************************)
(* The save chains of several machines and the folder they sync through:   *)
(* commit (chains/modules/vault.ps1), push and fetch                       *)
(* (chains/scripts/chains-sync.sh) and the repairs of the doctor           *)
(* (chains/scripts/chains-doctor.sh --fix).  Each machine watches one file.*)
(* The program that owns it writes it at any moment, so that every reading *)
(* may find another content; a restore is a commit and such a write.       *)
(*                                                                         *)
(* A journal is a sequence of commit ids.  Ids are hashes of the commit,   *)
(* so that the same id means the same commit everywhere; here they number  *)
(* the commits in the order of their timestamps, and of their hashes where *)
(* those are the same.  That need not be the order they were made in: a    *)
(* clock may be set back, and those of two machines disagree.  A snapshot  *)
(* store keeps contents under their hashes; the hash stands for the        *)
(* content.  Nothing is locked, and a command may die between two writes.  *)
(* One command runs on a machine at a time; the machines run theirs side   *)
(* by side.                                                                *)
(***************************************************************************)
EXTENDS SequencesExt

CONSTANTS
  Machines,
  Remote,         \* the folder they sync through
  Blobs, Torn,    \* contents of the file; a half-written copy, or a journal nobody can read
  Absent, None,   \* no such file; no such entry or journal
  MaxCommits,     \* bounds on the commits made and on the things that go wrong
  MaxMishaps

Places == Machines \cup {Remote}

ASSUME SaveChainsAssumption ==
  /\ Remote \notin Machines
  /\ Torn \notin Blobs /\ Absent \notin Blobs \cup {Torn}
  /\ Torn # None /\ {Torn, None} \cap Seq(Nat) = {}
  /\ None \notin [parent : Nat \cup {None}, blob : Blobs]
  /\ \A ids \in SUBSET (1 .. MaxCommits) : ids # None
  /\ MaxCommits \in Nat /\ MaxMishaps \in Nat

VARIABLES
  commits,    \* the commits made: id -> [parent, blob] or None
  journal,    \* journal[m]: .chains/journal.jsonl
  remote,     \* journal.jsonl of the remote, None before the first push
  draft,      \* journal.jsonl.tmp beside it, None if there is none
  writers,    \* the machines that have this draft open
  store,      \* store[place][name]: the content of snapshots/<name>, blobs/<name>
  pin,        \* pin[m]: the ids in remotePins of config.json
  run,        \* run[m]: the command under way on m
  \* history
  seen,       \* seen[m]: the ids the remote held when a sync of m succeeded
  spoilt,     \* names of which a copy failed, died, took other bytes or truncated another one
  damaged,    \* blobs of the remote somebody damaged
  contended,  \* two pushes overlapped
  mixed,      \* and wrote their drafts at the same time
  mishaps

drafts == <<draft, writers>>
disk == <<commits, journal, remote, drafts, store, pin>>
history == <<seen, spoilt, damaged, contended, mixed, mishaps>>
vars == <<disk, run, history>>

Idle == [pc |-> "idle", kind |-> "none", base |-> <<>>, from |-> <<>>,
         todo |-> {}, name |-> None, ids |-> None]

Init ==
  /\ commits = [id \in 1 .. MaxCommits |-> None]
  /\ journal = [m \in Machines |-> <<>>]
  /\ remote = None /\ draft = None /\ writers = {}
  /\ store = [place \in Places |-> [name \in Blobs |-> Absent]]
  /\ pin = [m \in Machines |-> None]
  /\ run = [m \in Machines |-> Idle]
  /\ seen = [m \in Machines |-> {}]
  /\ spoilt = {} /\ damaged = {} /\ contended = FALSE /\ mixed = FALSE /\ mishaps = 0

Made == {id \in 1 .. MaxCommits : commits[id] # None}
BlobOf(id) == commits[id].blob
BlobsOf(ids) == {BlobOf(id) : id \in ids}
Ids(log) == ToSet(log)
Good(place, name) == store[place][name] = name
Put(place, name, content) == store' = [store EXCEPT ![place][name] = content]

Start(m, kind, record) ==
  /\ run[m] = Idle
  /\ run' = [run EXCEPT ![m] = [record EXCEPT !.kind = kind]]

Continue(m, record) == run' = [run EXCEPT ![m] = record]
End(m) == Continue(m, Idle)

-----------------------------------------------------------------------------
(* commit.                                                                  *)

HeadOf(log) == IF log = <<>> THEN None ELSE Last(log)

NothingNew(r) == r.base # <<>> /\ BlobOf(Last(r.base)) = r.name

\* The file is hashed, the journal read and, unless the store has the hash, a copy begun.
Commit(m, content) ==
  LET begun == [Idle EXCEPT !.pc = "append", !.name = content, !.base = journal[m]]
  IN /\ Made # 1 .. MaxCommits
     /\ IF store[m][content] = Absent
        THEN Put(m, content, Torn) /\ Start(m, "commit", [begun EXCEPT !.pc = "copy"])
        ELSE Start(m, "commit", begun) /\ UNCHANGED store
     /\ UNCHANGED <<commits, journal, remote, drafts, pin, history>>

\* The copy completes.  It took the file as it is now, under the hash it had before.
CopyFile(m, content) == LET r == run[m] IN
  /\ r.pc = "copy"
  /\ Put(m, r.name, content)
  /\ spoilt' = IF content = r.name THEN spoilt ELSE spoilt \cup {r.name}
  /\ Continue(m, [r EXCEPT !.pc = "append"])
  /\ UNCHANGED <<commits, journal, remote, drafts, pin, seen, damaged, contended, mixed, mishaps>>

\* The copy fails, with nothing or a part of it there: no error stops the script, and the entry
\* is appended all the same.
CopyFails(m) == LET r == run[m] IN
  /\ r.pc = "copy"
  /\ mishaps < MaxMishaps
  /\ mishaps' = mishaps + 1
  /\ \E left \in {Absent, Torn} : Put(m, r.name, left)
  /\ spoilt' = spoilt \cup {r.name}
  /\ Continue(m, [r EXCEPT !.pc = "append"])
  /\ UNCHANGED <<commits, journal, remote, drafts, pin, seen, damaged, contended, mixed>>

AppendEntry(m) == LET r == run[m] IN
  /\ r.pc = "append"
  /\ IF NothingNew(r)
     THEN UNCHANGED <<commits, journal>>
     ELSE \E id \in (1 .. MaxCommits) \ Made :
            /\ commits' = [commits EXCEPT ![id] = [parent |-> HeadOf(r.base), blob |-> r.name]]
            /\ journal' = [journal EXCEPT ![m] = Append(@, id)]
  /\ End(m)
  /\ UNCHANGED <<remote, drafts, store, pin, history>>

-----------------------------------------------------------------------------
(* push and fetch.                                                          *)

\* The remote must hold every pinned id; one that was never pinned is trusted.
\* Mutant: the remote only has to be there.
RemoteIsThere(m) == pin[m] # None => remote # None
PinHolds(m) == pin[m] # None => remote # None /\ pin[m] \subseteq Ids(remote)

Readable == remote # Torn
RemoteLog == IF remote \in {None, Torn} THEN <<>> ELSE remote
NewTo(base, log) == Ids(log) \ Ids(base)

\* Mutant: what is new is put in the order it has in the other journal, in front.
MergedInFront(base, log) == SelectSeq(log, LAMBDA id : id \in NewTo(base, log)) \o base
InOrder(ids) ==
  [i \in 1 .. Cardinality(ids) |-> CHOOSE id \in ids : Cardinality({x \in ids : x < id}) = i - 1]
Merged(base, log) == base \o InOrder(NewTo(base, log))

\* All that is read and checked before the first write.  The first push makes the
\* journal of the remote, also when it then finds that a blob is missing.
Push(m) == LET missing == {b \in BlobsOf(NewTo(RemoteLog, journal[m])) : store[m][b] = Absent} IN
  /\ run[m] = Idle
  /\ Readable /\ PinHolds(m)
  /\ remote' = RemoteLog
  /\ IF missing # {}
     THEN UNCHANGED <<run, contended>>
     ELSE /\ Start(m, "push", [Idle EXCEPT !.pc = "blobs", !.base = journal[m], !.from = RemoteLog,
                                           !.todo = BlobsOf(NewTo(RemoteLog, journal[m]))])
          /\ contended' = (contended \/ \E n \in Machines : run[n].kind = "push")
  /\ UNCHANGED <<commits, journal, drafts, store, pin, seen, spoilt, damaged, mixed, mishaps>>

\* A blob the remote has is compared; a wrong one ends the push.
CheckBlob(m, b) == LET r == run[m] IN
  /\ r.pc = "blobs" /\ b \in r.todo
  /\ IF store[Remote][b] = Absent
     THEN Continue(m, [r EXCEPT !.pc = "open", !.name = b, !.todo = @ \ {b}])
     ELSE IF Good(Remote, b) THEN Continue(m, [r EXCEPT !.todo = @ \ {b}]) ELSE End(m)
  /\ UNCHANGED <<disk, history>>

\* The copy truncates what another push may have put there since.
OpenBlob(m) == LET r == run[m] IN
  /\ r.pc = "open"
  /\ Put(Remote, r.name, Torn)
  /\ spoilt' = IF store[Remote][r.name] = Absent THEN spoilt ELSE spoilt \cup {r.name}
  /\ Continue(m, [r EXCEPT !.pc = "upload"])
  /\ UNCHANGED <<commits, journal, remote, drafts, pin, seen, damaged, contended, mixed, mishaps>>

UploadBlob(m) == LET r == run[m] IN
  /\ r.pc = "upload"
  /\ Put(Remote, r.name, store[m][r.name])
  /\ Continue(m, [r EXCEPT !.pc = "blobs", !.name = None])
  /\ UNCHANGED <<commits, journal, remote, drafts, pin, history>>

\* Mutant: the journal does not wait for the blobs.
OpenDraftFirst(m) == LET r == run[m] IN
  /\ r.pc = "blobs" /\ r.kind = "push"
  /\ draft' = <<>> /\ writers' = writers \cup {m}
  /\ mixed' = (mixed \/ \E n \in Machines : run[n].pc \in {"draft", "rename"})
  /\ Continue(m, [Idle EXCEPT !.pc = "draft", !.kind = "push", !.from = Merged(r.from, r.base)])
  /\ UNCHANGED <<commits, journal, remote, store, pin, seen, spoilt, damaged, contended, mishaps>>

\* The draft has the same name for every push: opening it empties the one that is there.
OpenDraft(m) == LET r == run[m] IN
  /\ r.pc = "blobs" /\ r.todo = {}
  /\ draft' = <<>> /\ writers' = writers \cup {m}
  /\ mixed' = (mixed \/ \E n \in Machines : run[n].pc \in {"draft", "rename"})
  /\ Continue(m, [Idle EXCEPT !.pc = "draft", !.kind = "push", !.from = Merged(r.from, r.base)])
  /\ UNCHANGED <<commits, journal, remote, store, pin, seen, spoilt, damaged, contended, mishaps>>

\* What is in a file when `log` has been written into it, at its own places: the whole log,
\* unless somebody else wrote there in the meantime.  A reader takes lines that happen to fit
\* for a journal, also when an id comes twice.
Overlay(old, log, k) ==
  [i \in 1 .. Max({Len(old), Len(log)}) |->
     IF i \in DOMAIN old /\ (i <= k \/ i > Len(log)) THEN old[i] ELSE log[i]]
Overlaid(old, log) ==
  IF old = <<>> THEN {log}
  ELSE {Torn, log} \cup
       IF old = Torn THEN {}
       ELSE {Overlay(old, log, k) : k \in DOMAIN old}

\* The draft is written, or the journal, if another push has renamed the file that was opened
\* (and it may be neither by now).
WriteDraft(m) == LET r == run[m] IN
  /\ r.pc = "draft"
  /\ IF m \in writers
     THEN draft' \in Overlaid(draft, r.from) /\ UNCHANGED remote
     ELSE remote' \in {remote} \cup Overlaid(remote, r.from) /\ UNCHANGED draft
  /\ writers' = writers \ {m}
  /\ Continue(m, [Idle EXCEPT !.pc = "rename", !.kind = "push", !.ids = Ids(r.from)])
  /\ UNCHANGED <<commits, journal, store, pin, history>>

\* os.replace takes the draft that is there, whoever wrote it, and fails if there is none.
WriteRemote(m) == LET r == run[m] IN
  /\ r.pc = "rename"
  /\ IF draft = None
     THEN End(m) /\ UNCHANGED <<remote, drafts>>
     ELSE /\ remote' = draft
          /\ draft' = None /\ writers' = {}
          /\ Continue(m, [Idle EXCEPT !.pc = "pin", !.kind = "push", !.ids = r.ids])
  /\ UNCHANGED <<commits, journal, store, pin, history>>

\* Blobs the remote's journal names and the machine lacks, checked in a stage.
Missing(m) == {b \in BlobsOf(Ids(RemoteLog)) : store[m][b] = Absent}
Stageable(m) ==
  /\ \A b \in BlobsOf(NewTo(journal[m], RemoteLog)) : store[Remote][b] # Absent
  /\ \A b \in Missing(m) : Good(Remote, b)

\* Everything up to the checked stage only reads.
Fetch(m) ==
  /\ remote # None /\ Readable
  /\ PinHolds(m)
  /\ Stageable(m)
  /\ Start(m, "fetch", [Idle EXCEPT !.pc = "install", !.base = journal[m], !.from = remote,
                                   !.todo = Missing(m)])
  /\ UNCHANGED <<disk, history>>

\* One staged blob moves into the store, unless one is there by now.
InstallBlob(m, b) == LET r == run[m] IN
  /\ r.pc = "install" /\ b \in r.todo
  /\ IF store[m][b] = Absent THEN Put(m, b, b) ELSE UNCHANGED store
  /\ Continue(m, [r EXCEPT !.todo = @ \ {b}])
  /\ UNCHANGED <<commits, journal, remote, drafts, pin, history>>

\* Mutant: the journal of the remote replaces the one of the machine.
TakeRemoteJournal(m) == LET r == run[m] IN
  /\ r.pc = "install" /\ r.todo = {}
  /\ journal' = [journal EXCEPT ![m] = r.from]
  /\ Continue(m, [Idle EXCEPT !.pc = "pin", !.kind = r.kind, !.ids = Ids(r.from)])
  /\ UNCHANGED <<commits, remote, drafts, store, pin, history>>

\* The journal that was read, with what is new, replaces the one there is now.
WriteJournal(m) == LET r == run[m] IN
  /\ r.pc = "install" /\ r.todo = {}
  /\ journal' = [journal EXCEPT ![m] = Merged(r.base, r.from)]
  /\ Continue(m, [Idle EXCEPT !.pc = "pin", !.kind = r.kind, !.ids = Ids(r.from)])
  /\ UNCHANGED <<commits, remote, drafts, store, pin, history>>

SetPin(m) == LET r == run[m] IN
  /\ r.pc = "pin"
  /\ pin' = [pin EXCEPT ![m] = r.ids]
  /\ seen' = [seen EXCEPT ![m] = @ \cup r.ids]
  /\ End(m)
  /\ UNCHANGED <<commits, journal, remote, drafts, store, spoilt, damaged, contended, mixed, mishaps>>

-----------------------------------------------------------------------------
(* chains-doctor --fix: snapshots no commit names are moved away, and a pin *)
(* without ids is dropped.                                                  *)

\* Mutant: what the newest commit does not name is an orphan.
NotInHead(m) ==
  {b \in Blobs : store[m][b] # Absent /\ (journal[m] = <<>> \/ b # BlobOf(Last(journal[m])))}
Orphans(m) == {b \in Blobs : store[m][b] # Absent} \ BlobsOf(Ids(journal[m]))

Fix(m) ==
  /\ Orphans(m) # {} \/ pin[m] = {}
  /\ Start(m, "fix", [Idle EXCEPT !.pc = "move", !.todo = Orphans(m),
                                 !.ids = IF pin[m] = {} THEN None ELSE pin[m]])
  /\ UNCHANGED <<disk, history>>

MoveOrphan(m, b) == LET r == run[m] IN
  /\ r.pc = "move" /\ b \in r.todo
  /\ Put(m, b, Absent)
  /\ Continue(m, [r EXCEPT !.todo = @ \ {b}])
  /\ UNCHANGED <<commits, journal, remote, drafts, pin, history>>

\* config.json is rewritten as it was read, without the dropped pin.
RewriteConfig(m) == LET r == run[m] IN
  /\ r.pc = "move" /\ r.todo = {}
  /\ pin' = [pin EXCEPT ![m] = r.ids]
  /\ End(m)
  /\ UNCHANGED <<commits, journal, remote, drafts, store, history>>

-----------------------------------------------------------------------------
(* What the commands must survive.                                          *)

Crash(m) == LET r == run[m] IN
  /\ r # Idle
  /\ mishaps < MaxMishaps
  /\ mishaps' = mishaps + 1
  /\ spoilt' = IF r.pc \in {"copy", "upload"} THEN spoilt \cup {r.name} ELSE spoilt
  /\ writers' = writers \ {m}
  /\ End(m)
  /\ UNCHANGED <<commits, journal, remote, draft, store, pin, seen, damaged, contended, mixed>>

\* Somebody puts an older copy of the journal back, or damages a blob of the remote.
RollBack ==
  /\ mishaps < MaxMishaps
  /\ remote # None /\ Readable
  /\ \E n \in 0 .. Len(remote) - 1 : remote' = SubSeq(remote, 1, n)
  /\ mishaps' = mishaps + 1
  /\ UNCHANGED <<commits, journal, drafts, store, pin, run, seen, spoilt, damaged, contended, mixed>>

DamageBlob(b) ==
  /\ mishaps < MaxMishaps
  /\ store[Remote][b] = b
  /\ Put(Remote, b, Torn)
  /\ damaged' = damaged \cup {b}
  /\ mishaps' = mishaps + 1
  /\ UNCHANGED <<commits, journal, remote, drafts, pin, run, seen, spoilt, contended, mixed>>

Step(m) ==
  \/ Push(m) \/ Fetch(m) \/ Fix(m)
  \/ CopyFails(m) \/ AppendEntry(m) \/ OpenBlob(m) \/ UploadBlob(m)
  \/ OpenDraft(m) \/ WriteDraft(m) \/ WriteRemote(m)
  \/ WriteJournal(m) \/ SetPin(m) \/ RewriteConfig(m)
  \/ \E b \in Blobs :
       \/ Commit(m, b) \/ CopyFile(m, b)
       \/ CheckBlob(m, b) \/ InstallBlob(m, b) \/ MoveOrphan(m, b)
  \/ Crash(m)

Next == (\E m \in Machines : Step(m)) \/ RollBack \/ \E b \in Blobs : DamageBlob(b)

Spec == Init /\ [][Next]_vars

-----------------------------------------------------------------------------
(* Properties                                                               *)

\* A commit comes after its parent, if the clocks saw it made after its parent.
ParentsFirst(log) ==
  \A i \in DOMAIN log : LET parent == commits[log[i]].parent IN
    parent # None /\ parent < log[i] => \E j \in 1 .. i - 1 : log[j] = parent

\* Everything a journal names is there.  A commit comes after its parent, also where
\* histories that diverged were merged (the doctor reports a parent that dangles), but for a
\* timestamp that is not after its parent's, and for pushes that wrote their drafts at the
\* same time: only they leave the remote a journal that nobody can read or that mixes two.
\* Its content is stored, on a machine whatever is done to the remote and whatever the doctor
\* moves away (fetch checks and moves the blobs before it extends the journal), at the remote
\* however many machines push and die at once (push copies the blobs first).  Not so the
\* content of a name of which a copy failed, died half-way, met a file that was being written
\* or truncated another copy: nothing repairs what that may leave (New-SaveCommit, push).
JournalsAreWhole ==
  /\ \A m \in Machines :
       /\ mixed \/ ParentsFirst(journal[m])
       /\ \A b \in BlobsOf(Ids(journal[m])) : Good(m, b) \/ b \in spoilt
  /\ mixed \/ (Readable /\ ParentsFirst(RemoteLog))
  /\ \A b \in BlobsOf(Ids(RemoteLog)) : Good(Remote, b) \/ b \in spoilt \cup damaged

\* A journal only grows at its end: no fetch loses or reorders a commit of the machine, and
\* no push one of the remote unless two pushes overlapped, whatever died (merged_entries).
JournalsOnlyGrow ==
  [][/\ \A m \in Machines : IsPrefix(journal[m], journal'[m])
     /\ contended' \/ mishaps' # mishaps \/ IsPrefix(RemoteLog, RemoteLog')]_vars

Syncing(m) == run[m].kind \in {"push", "fetch"}

\* A sync goes ahead only with a remote that still has everything the machine ever saw
\* there, whatever died, was repaired, put back or lost between two pushes in the meantime
\* (the pin check).
RollbacksAreRefused ==
  [][\A m \in Machines : ~Syncing(m) /\ Syncing(m)' => seen[m] \subseteq Ids(remote')]_vars
=============================================================================
