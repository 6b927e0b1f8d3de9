------------------------------- MODULE Intake -------------------------------
(***************************************************************************)
(* The backup intake (backup/intake.py): register copies a file under the  *)
(* intake root and appends its record to intake.jsonl, verify re-hashes    *)
(* every live file, retire destroys a superseded file and appends a        *)
(* retirement record.                                                      *)
(*                                                                         *)
(* The operator runs one command at a time; it may die between any two     *)
(* writes, the drive may damage any file, and another program may change a *)
(* source between its hash and its copy.  Names and digests are values; a  *)
(* record id is the first half of the digest, so it stands for the digest. *)
(* The date and extension of a file name are left out.                     *)
(* activity.jsonl is written last and never read: it is not modelled.      *)
(***************************************************************************)
EXTENDS Naturals, FiniteSets, Sequences

CONSTANTS
  Machines, Labels, Digests,
  None,
  MaxRecords, MaxCrashes, MaxRot   \* bounds

Dirs == {"images", "quarantine", "data"}
Path == [machine : Machines, dir : Dirs, label : Labels, sha : Digests]

ASSUME IntakeAssumption ==
  None \notin [type : {"intake", "retirement"}, path : Path]
  /\ MaxRecords \in Nat /\ MaxCrashes \in Nat /\ MaxRot \in Nat

VARIABLES
  disk,      \* disk[path]: "absent", "good" (hashes to its digest) or "bad"
  records,   \* intake.jsonl, oldest first
  torn,      \* its last line was cut short
  op,        \* the running command: next step and record
  rotted,    \* files the drive damaged
  drifted,   \* files whose source changed after it was hashed
  burnt,     \* files a retire began to overwrite
  crashes

vars == <<disk, records, torn, op, rotted, drifted, burnt, crashes>>

NoOp == [pc |-> "idle", rec |-> None]
Idle == op.pc = "idle"

Init ==
  /\ disk = [path \in Path |-> "absent"]
  /\ records = <<>>
  /\ torn = FALSE
  /\ op = NoOp
  /\ rotted = {} /\ drifted = {} /\ burnt = {}
  /\ crashes = 0

Id(rec) == rec.path.sha
Recorded == {records[i] : i \in DOMAIN records}
Intakes == {r \in Recorded : r.type = "intake"}
Retirements == {r \in Recorded : r.type = "retirement"}
RetiredIds(machines) == {Id(r) : r \in {x \in Retirements : x.path.machine \in machines}}

\* _append_record.  No command gets this far when a line is torn.
AppendRecord(rec) == records' = Append(records, rec)

-----------------------------------------------------------------------------
(* register                                                                 *)

DirOf(kind, quarantine) ==
  IF kind = "data" THEN "data" ELSE IF quarantine THEN "quarantine" ELSE "images"

SameIntake(rec, m, label, sha) ==
  rec.path.machine = m /\ rec.path.label = label /\ Id(rec) = sha

\* Mutant: a retired intake no longer counts.
RegisteredLive(m, label, sha) ==
  \E r \in Intakes : SameIntake(r, m, label, sha) /\ Id(r) \notin RetiredIds(Machines)

Registered(m, label, sha) == \E r \in Recorded : SameIntake(r, m, label, sha)

\* A machine, label and digest on record is answered with that record: nothing changes.
Register(m, kind, label, sha, quarantine) ==
  LET path == [machine |-> m, dir |-> DirOf(kind, quarantine), label |-> label, sha |-> sha] IN
  /\ Idle /\ ~torn
  /\ ~Registered(m, label, sha)
  /\ quarantine => kind = "disk-image"
  /\ Len(records) < MaxRecords
  /\ disk' = [disk EXCEPT ![path] = "bad"]
  /\ op' = [pc |-> "copy", rec |-> [type |-> "intake", path |-> path]]
  /\ drifted' = drifted \ {path}
  /\ UNCHANGED <<records, torn, rotted, burnt, crashes>>

\* Mutant: the record does not wait for the copy.
RecordEarly ==
  /\ op.pc = "copy"
  /\ op' = [op EXCEPT !.pc = "record"]
  /\ UNCHANGED <<disk, records, torn, rotted, drifted, burnt, crashes>>

\* Another program changes the source that was hashed and is not yet copied.
SourceChanges ==
  /\ op.pc = "copy"
  /\ Cardinality(drifted) < MaxRot
  /\ drifted' = drifted \cup {op.rec.path}
  /\ UNCHANGED <<disk, records, torn, op, rotted, burnt, crashes>>

\* The copy is not hashed again: the record carries the digest of the source as it was.
FinishCopy ==
  /\ op.pc = "copy"
  /\ disk' = [disk EXCEPT ![op.rec.path] = IF op.rec.path \in drifted THEN "bad" ELSE "good"]
  /\ op' = [op EXCEPT !.pc = "record"]
  /\ UNCHANGED <<records, torn, rotted, drifted, burnt, crashes>>

AppendIntake ==
  /\ op.pc = "record" /\ op.rec.type = "intake"
  /\ AppendRecord(op.rec)
  /\ op' = NoOp
  /\ UNCHANGED <<disk, torn, rotted, drifted, burnt, crashes>>

-----------------------------------------------------------------------------
(* verify: the live records of the chosen machines that do not hash.        *)

Live(machines) ==
  {r \in Intakes : r.path.machine \in machines /\ Id(r) \notin RetiredIds(machines)}

\* Mutant: presence is enough.
IssuesMissing(machines) == {r \in Live(machines) : disk[r.path] = "absent"}

Issues(machines) == {r \in Live(machines) : disk[r.path] # "good"}

-----------------------------------------------------------------------------
(* retire: the first record with the id, if it can still be verified.       *)

Holds(i, sha) == records[i].type = "intake" /\ Id(records[i]) = sha

\* Mutant: the newest record with the id.
IsNewest(i, sha) == Holds(i, sha) /\ \A j \in DOMAIN records : Holds(j, sha) => j <= i
IsTarget(i, sha) == Holds(i, sha) /\ \A j \in DOMAIN records : Holds(j, sha) => i <= j

Retire(sha, label, release) ==
  /\ Idle /\ ~torn
  /\ sha \notin RetiredIds(Machines)
  /\ \E i \in DOMAIN records :
       LET path == records[i].path IN
       /\ IsTarget(i, sha)
       /\ label = path.label
       /\ path.dir = "quarantine" => release
       /\ disk[path] = "good"
       /\ op' = [pc |-> "burn", rec |-> [type |-> "retirement", path |-> path]]
  /\ UNCHANGED <<disk, records, torn, rotted, drifted, burnt, crashes>>

Overwrite ==
  /\ op.pc = "burn"
  /\ disk' = [disk EXCEPT ![op.rec.path] = "bad"]
  /\ burnt' = burnt \cup {op.rec.path}
  /\ op' = [op EXCEPT !.pc = "unlink"]
  /\ UNCHANGED <<records, torn, rotted, drifted, crashes>>

\* The sampled read-back refuses to unlink when old bytes survived.
ReadBackFails ==
  /\ op.pc = "unlink"
  /\ op' = NoOp
  /\ UNCHANGED <<disk, records, torn, rotted, drifted, burnt, crashes>>

Unlink ==
  /\ op.pc = "unlink"
  /\ disk' = [disk EXCEPT ![op.rec.path] = "absent"]
  /\ op' = [op EXCEPT !.pc = "record"]
  /\ UNCHANGED <<records, torn, rotted, drifted, burnt, crashes>>

AppendRetirement ==
  /\ op.pc = "record" /\ op.rec.type = "retirement"
  /\ AppendRecord(op.rec)
  /\ op' = NoOp
  /\ UNCHANGED <<disk, torn, rotted, drifted, burnt, crashes>>

-----------------------------------------------------------------------------
Crash ==
  /\ ~Idle
  /\ crashes < MaxCrashes
  /\ torn' \in {torn, op.pc = "record" \/ torn}
  /\ op' = NoOp
  /\ crashes' = crashes + 1
  /\ UNCHANGED <<disk, records, rotted, drifted, burnt>>

Rot(path) ==
  /\ Idle
  /\ Cardinality(rotted) < MaxRot
  /\ disk[path] = "good"
  /\ \E damage \in {"bad", "absent"} : disk' = [disk EXCEPT ![path] = damage]
  /\ rotted' = rotted \cup {path}
  /\ UNCHANGED <<records, torn, op, drifted, burnt, crashes>>

Next ==
  \/ \E m \in Machines, kind \in {"disk-image", "data"}, label \in Labels, sha \in Digests,
        quarantine \in BOOLEAN :
       Register(m, kind, label, sha, quarantine)
  \/ SourceChanges \/ FinishCopy \/ AppendIntake
  \/ \E sha \in Digests, label \in Labels, release \in BOOLEAN : Retire(sha, label, release)
  \/ Overwrite \/ ReadBackFails \/ Unlink \/ AppendRetirement
  \/ Crash
  \/ \E path \in Path : Rot(path)

Spec == Init /\ [][Next]_vars

-----------------------------------------------------------------------------
(* Properties                                                               *)

Record == [type : {"intake", "retirement"}, path : Path]

\* Type invariant of the files, the log and the running command.
TypeOK ==
  /\ disk \in [Path -> {"absent", "good", "bad"}]
  /\ records \in Seq(Record)
  /\ torn \in BOOLEAN
  /\ op \in [pc : {"idle", "copy", "record", "burn", "unlink"},
             rec : Record \cup {None}]
  /\ rotted \subseteq Path /\ drifted \subseteq Path /\ burnt \subseteq Path
  /\ crashes \in 0..MaxCrashes

RetiredPaths == {r.path : r \in Retirements}
SoleRecord(r) == \A x \in Intakes : Id(x) = Id(r) => x = r

\* Damage is caught: a registered file that is gone or altered, by the drive, by a burn
\* that died or failed half way, or by anything but its own recorded retirement, is
\* reported by verify, as long as no other record shares its id.  So is a copy made from a
\* source that changed after it was hashed, which the register that made it reports as done.
VerifyCatchesDamage ==
  (Idle /\ ~torn) =>
     \A r \in Intakes :
        (SoleRecord(r) /\ r.path \notin RetiredPaths /\ disk[r.path] # "good")
          => r \in Issues(Machines) /\ r \in Issues({r.path.machine})

\* A retired backup stays destroyed: registering, crashing and retrying never bring the
\* file of a retirement record back (the record is appended after the unlink, and a
\* second registration of the same bytes is a no-op).
RetiredIsGone == \A path \in RetiredPaths : disk[path] = "absent"

\* A record is a promise about a complete file: the file of every intake record hashes to
\* its digest, also when earlier registrations of the same file died half way or copied
\* another source (the copy ends before the append), unless the drive damaged it, a retire
\* began to burn it, or its source changed between the hash and the copy of the very
\* registration on record: intake.py hashes the source, copies it later and never hashes
\* the copy.
RecordedFilesAreWhole ==
  \A r \in Intakes : r.path \in rotted \cup burnt \cup drifted \/ disk[r.path] = "good"

\* The records tell the truth about the files, whatever command died over them (intake.py
\* register, retire).
RecordsAreTrue == RetiredIsGone /\ RecordedFilesAreWhole

\* A retire burns the file it was confirmed for and no other: every burnt file is the one of
\* the oldest record of its id, though other records may share it (intake.py retire).
OnlyTargetsBurn ==
  \A path \in burnt :
     \E i \in DOMAIN records :
        /\ records[i].path = path
        /\ \A j \in 1..(i - 1) : Id(records[j]) # path.sha
=============================================================================
