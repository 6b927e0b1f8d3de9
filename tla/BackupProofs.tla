---------------------------- MODULE BackupProofs ----------------------------
(***************************************************************************)
(* Proofs about what keeps the vault's files: the intake of drives, and    *)
(* Vault Lock with its cold backups.                                       *)
(*                                                                         *)
(* Intake, for any machines, labels and digests and any crashes and        *)
(* damage: the records tell the truth, a retire burns the file it was      *)
(* confirmed for, and verify reports all damage.                           *)
(*                                                                         *)
(* VaultLock, for any number of paths, runs, backups and secrets, any      *)
(* edits, damage and crashes: what a lock burned is in a sealed file that  *)
(* opens, a verified backup restores what it certified, and an unlock      *)
(* puts back what was sealed.                                              *)
(***************************************************************************)
EXTENDS Intake, VaultLock, WellFoundedInduction, TLAPS

USE IntakeAssumption

(* The strengthening.                                                       *)

\* A retire works on the oldest record of its id.
IsOldest(path) ==
  \E i \in DOMAIN records :
     /\ records[i].path = path /\ records[i].type = "intake"
     /\ \A j \in 1..(i - 1) : Id(records[j]) # path.sha

OnRecord(path) == \E r \in Recorded : SameIntake(r, path.machine, path.label, path.sha)

\* What a command knows while it runs: no record has the file it copies, and the file it
\* retires is one that was not retired before.
Registering ==
  op.pc = "copy" \/ (op.pc = "record" /\ op.rec.type = "intake") =>
    /\ op.rec.type = "intake"
    /\ ~OnRecord(op.rec.path)
    /\ op.pc = "record" => op.rec.path \in drifted \/ disk[op.rec.path] = "good"

Retiring ==
  op.pc \in {"burn", "unlink"} \/ (op.pc = "record" /\ op.rec.type = "retirement") =>
    /\ op.rec.type = "retirement"
    /\ IsOldest(op.rec.path)
    /\ op.rec.path.sha \notin RetiredIds(Machines)
    /\ op.pc # "burn" => op.rec.path \in burnt
    /\ op.pc = "record" => disk[op.rec.path] = "absent"

RetirementsAreOfIntakes == \A r \in Retirements : \E x \in Intakes : x.path = r.path

IInv ==
  /\ TypeOK
  /\ ~Idle => ~torn /\ op.rec \in Record
  /\ Registering /\ Retiring
  /\ RetirementsAreOfIntakes
  /\ RecordsAreTrue
  /\ OnlyTargetsBurn

-----------------------------------------------------------------------------
(* What the records hold, and what an append adds.                          *)

LEMMA RecordedAreRecords ==
  ASSUME TypeOK
  PROVE  /\ Recorded \subseteq Record
         /\ \A r \in Recorded : r.path \in Path /\ r.type \in {"intake", "retirement"}
         /\ \A path \in Path : path.machine \in Machines
<1>1. \A i \in DOMAIN records : records[i] \in Record
  <2>1. records \in Seq(Record)
    BY DEF TypeOK
  <2> QED
    BY <2>1
<1> QED
  BY <1>1 DEF Recorded, Record, Path

LEMMA AppendAdds ==
  ASSUME TypeOK, NEW rec \in Record, AppendRecord(rec)
  PROVE  /\ records' \in Seq(Record)
         /\ Recorded' = Recorded \cup {rec}
         /\ DOMAIN records \subseteq DOMAIN records'
         /\ \A i \in DOMAIN records : records'[i] = records[i] /\ 1..(i - 1) \subseteq DOMAIN records
<1>1. /\ records \in Seq(Record) /\ records' = Append(records, rec)
      /\ Len(records) \in Nat /\ DOMAIN records = 1..Len(records)
  BY DEF TypeOK, AppendRecord
<1>2. /\ records' \in Seq(Record) /\ DOMAIN records' = 1..(Len(records) + 1)
      /\ \A i \in DOMAIN records : records'[i] = records[i]
      /\ records'[Len(records) + 1] = rec
  BY <1>1
<1>3. DOMAIN records' = DOMAIN records \cup {Len(records) + 1}
  BY <1>1, <1>2
<1>4. Recorded' = Recorded \cup {rec}
  BY ZenonT(60), <1>2, <1>3 DEF Recorded
<1>5. \A i \in DOMAIN records : 1..(i - 1) \subseteq DOMAIN records
  BY <1>1
<1> QED
  BY <1>2, <1>3, <1>4, <1>5

\* What was first stays first.
LEMMA OldestStays ==
  ASSUME TypeOK, NEW rec \in Record, AppendRecord(rec), NEW path, IsOldest(path)
  PROVE  IsOldest(path)'
<1>1. PICK i \in DOMAIN records :
        /\ records[i].path = path /\ records[i].type = "intake"
        /\ \A j \in 1..(i - 1) : Id(records[j]) # path.sha
  BY DEF IsOldest
<1>2. i \in DOMAIN records' /\ records'[i] = records[i]
  BY AppendAdds
<1>3. \A j \in 1..(i - 1) : records'[j] = records[j]
  BY AppendAdds
<1> QED
  BY <1>1, <1>2, <1>3 DEF IsOldest, Id

LEMMA RetiredAreOnRecord ==
  ASSUME IInv, NEW path \in RetiredPaths
  PROVE  OnRecord(path) /\ path \in Path /\ path.sha \in RetiredIds(Machines) /\ disk[path] = "absent"
<1>1. PICK r \in Recorded : r.type = "retirement" /\ r.path = path
  BY DEF RetiredPaths, Retirements
<1>2. PICK x \in Intakes : x.path = path
  BY <1>1 DEF IInv, RetirementsAreOfIntakes, Retirements
<1>3. OnRecord(path)
  BY <1>2 DEF OnRecord, SameIntake, Intakes, Id
<1>4. path \in Path /\ path.machine \in Machines
  BY <1>1, RecordedAreRecords DEF IInv
<1>5. path.sha \in RetiredIds(Machines)
  BY <1>1, <1>4 DEF RetiredIds, Retirements, Id
<1> QED
  BY <1>3, <1>4, <1>5 DEF IInv, RecordsAreTrue, RetiredIsGone

LEMMA IntakesAreOnRecord ==
  ASSUME TypeOK, NEW r \in Intakes
  PROVE  OnRecord(r.path) /\ r.path \in Path
BY RecordedAreRecords DEF OnRecord, SameIntake, Intakes, Id

-----------------------------------------------------------------------------
(* The steps.  Only an append changes what the records say.                 *)

SameRecords == records' = records

LEMMA SameRecordsSameViews ==
  ASSUME SameRecords
  PROVE  /\ Recorded' = Recorded /\ Intakes' = Intakes /\ Retirements' = Retirements
         /\ RetiredPaths' = RetiredPaths
         /\ RetiredIds(Machines)' = RetiredIds(Machines)
         /\ \A path : IsOldest(path)' <=> IsOldest(path)
         /\ \A path : OnRecord(path)' <=> OnRecord(path)
         /\ RetirementsAreOfIntakes' <=> RetirementsAreOfIntakes
BY DEF SameRecords, Recorded, Intakes, Retirements, RetiredPaths, RetiredIds, IsOldest, OnRecord,
       RetirementsAreOfIntakes, SameIntake, Id

\* A step that only touches one file keeps the truth of the records when the file is on no
\* record, or is not retired and counted as damaged or burnt, or is found whole.
LEMMA OneFile ==
  ASSUME IInv, SameRecords, NEW path \in Path, NEW state \in {"absent", "good", "bad"},
         disk' = [disk EXCEPT ![path] = state],
         rotted \subseteq rotted', burnt \subseteq burnt', drifted \ {path} \subseteq drifted',
         OnRecord(path) => path \notin RetiredPaths /\ path \in rotted' \cup burnt'
  PROVE  RecordsAreTrue' /\ disk' \in [Path -> {"absent", "good", "bad"}] /\ disk'[path] = state
<1>1. disk \in [Path -> {"absent", "good", "bad"}]
  BY DEF IInv, TypeOK
<1>2. /\ disk' \in [Path -> {"absent", "good", "bad"}] /\ disk'[path] = state
      /\ \A p \in Path \ {path} : disk'[p] = disk[p]
  BY <1>1
<1>3. RetiredIsGone'
  <2>1. \A p \in RetiredPaths : p \in Path /\ p # path /\ disk[p] = "absent"
    BY RetiredAreOnRecord
  <2> QED
    BY <1>2, <2>1, SameRecordsSameViews DEF RetiredIsGone
<1>4. RecordedFilesAreWhole'
  <2>1. ASSUME NEW r \in Intakes
        PROVE  r.path \in rotted' \cup burnt' \cup drifted' \/ disk'[r.path] = "good"
    <3>1. OnRecord(r.path) /\ r.path \in Path
      BY IntakesAreOnRecord DEF IInv
    <3>2. r.path \in rotted \cup burnt \cup drifted \/ disk[r.path] = "good"
      BY DEF IInv, RecordsAreTrue, RecordedFilesAreWhole
    <3> QED
      BY <1>2, <3>1, <3>2
  <2> QED
    BY <2>1, SameRecordsSameViews DEF RecordedFilesAreWhole
<1> QED
  BY <1>2, <1>3, <1>4 DEF RecordsAreTrue

LEMMA RegisterKeeps ==
  ASSUME IInv, NEW m \in Machines, NEW kind, NEW label \in Labels, NEW sha \in Digests,
         NEW quarantine \in BOOLEAN, Register(m, kind, label, sha, quarantine)
  PROVE  IInv'
<1> DEFINE path == [machine |-> m, dir |-> DirOf(kind, quarantine), label |-> label, sha |-> sha]
<1>1. path \in Path /\ path.machine = m /\ path.label = label /\ path.sha = sha
  BY DEF Path, DirOf, Dirs
<1>2. /\ op' = [pc |-> "copy", rec |-> [type |-> "intake", path |-> path]]
      /\ disk' = [disk EXCEPT ![path] = "bad"]
      /\ SameRecords /\ UNCHANGED <<torn, rotted, burnt, crashes>> /\ ~torn
      /\ drifted' = drifted \ {path}
      /\ ~Registered(m, label, sha)
  BY DEF Register, SameRecords
<1> HIDE DEF path
<1>3. ~OnRecord(path)
  BY <1>1, <1>2 DEF OnRecord, Registered
<1>4. RecordsAreTrue' /\ disk' \in [Path -> {"absent", "good", "bad"}]
  BY <1>1, <1>2, <1>3, OneFile
<1>5. op'.pc = "copy" /\ op'.rec \in Record /\ op'.rec.type = "intake" /\ op'.rec.path = path
  BY <1>1, <1>2 DEF Record
<1>6. TypeOK'
  BY <1>1, <1>2, <1>4 DEF IInv, TypeOK, SameRecords, Record
<1>7. Registering' /\ Retiring'
  BY <1>2, <1>3, <1>5, SameRecordsSameViews DEF Registering, Retiring
<1>8. OnlyTargetsBurn' /\ RetirementsAreOfIntakes'
  BY <1>2, SameRecordsSameViews DEF IInv, OnlyTargetsBurn, SameRecords, Id
<1> QED
  BY <1>2, <1>4, <1>5, <1>6, <1>7, <1>8 DEF IInv

LEMMA FinishCopyKeeps ==
  ASSUME IInv, FinishCopy
  PROVE  IInv'
<1> DEFINE path == op.rec.path
           state == IF path \in drifted THEN "bad" ELSE "good"
<1>1. /\ op.pc = "copy" /\ op' = [op EXCEPT !.pc = "record"]
      /\ disk' = [disk EXCEPT ![path] = state]
      /\ SameRecords /\ UNCHANGED <<torn, rotted, drifted, burnt, crashes>>
  BY DEF FinishCopy, SameRecords
<1>2. /\ op \in [pc : {"idle", "copy", "record", "burn", "unlink"}, rec : Record \cup {None}]
      /\ op.rec \in Record /\ ~torn /\ path \in Path
  BY <1>1 DEF IInv, TypeOK, Idle, Record
<1>3. op'.pc = "record" /\ op'.rec = op.rec
      /\ op' \in [pc : {"idle", "copy", "record", "burn", "unlink"}, rec : Record \cup {None}]
  BY <1>1, <1>2
<1>4. ~OnRecord(path) /\ op.rec.type = "intake"
  BY <1>1 DEF IInv, Registering
<1>5. /\ RecordsAreTrue' /\ disk' \in [Path -> {"absent", "good", "bad"}]
      /\ path \in drifted \/ disk'[path] = "good"
  <2>1. state \in {"absent", "good", "bad"}
    OBVIOUS
  <2> QED
    BY <1>1, <1>2, <1>4, <2>1, OneFile
<1>6. TypeOK'
  BY <1>1, <1>3, <1>5 DEF IInv, TypeOK, SameRecords
<1>7. Registering' /\ Retiring'
  BY <1>1, <1>3, <1>4, <1>5, SameRecordsSameViews DEF Registering, Retiring
<1>8. OnlyTargetsBurn' /\ RetirementsAreOfIntakes'
  BY <1>1, SameRecordsSameViews DEF IInv, OnlyTargetsBurn, SameRecords, Id
<1>9. ~Idle' => ~torn' /\ op'.rec \in Record
  BY <1>1, <1>2, <1>3
<1> QED
  BY <1>5, <1>6, <1>7, <1>8, <1>9 DEF IInv

LEMMA SourceChangesKeeps ==
  ASSUME IInv, SourceChanges
  PROVE  IInv'
<1>1. /\ op.pc = "copy" /\ drifted' = drifted \cup {op.rec.path} /\ SameRecords
      /\ UNCHANGED <<disk, torn, op, rotted, burnt, crashes>>
  BY DEF SourceChanges, SameRecords
<1>2. op.rec \in Record /\ op.rec.path \in Path
  BY <1>1 DEF IInv, Idle, Record
<1>3. TypeOK'
  BY <1>1, <1>2 DEF IInv, TypeOK, SameRecords
<1>4. Registering' /\ Retiring' /\ (~Idle' => ~torn' /\ op'.rec \in Record)
  BY <1>1, SameRecordsSameViews DEF IInv, Registering, Retiring, Idle
<1>5. OnlyTargetsBurn' /\ RetirementsAreOfIntakes'
  BY <1>1, SameRecordsSameViews DEF IInv, OnlyTargetsBurn, SameRecords, Id
<1>6. RecordsAreTrue'
  BY <1>1, SameRecordsSameViews DEF IInv, RecordsAreTrue, RetiredIsGone, RecordedFilesAreWhole
<1> QED
  BY <1>3, <1>4, <1>5, <1>6 DEF IInv

\* Both appends end their command.
LEMMA AppendKeeps ==
  ASSUME IInv, AppendIntake \/ AppendRetirement
  PROVE  IInv'
<1> DEFINE rec == op.rec
<1>1. /\ op.pc = "record" /\ AppendRecord(rec) /\ op' = NoOp
      /\ UNCHANGED <<disk, torn, rotted, drifted, burnt, crashes>>
  BY DEF AppendIntake, AppendRetirement
<1>2. rec \in Record /\ rec.path \in Path /\ rec.type \in {"intake", "retirement"} /\ TypeOK
  BY <1>1 DEF IInv, Idle, Record
<1>3. op'.pc = "idle" /\ op' \in [pc : {"idle", "copy", "record", "burn", "unlink"}, rec : Record \cup {None}]
  BY <1>1 DEF NoOp
<1>4. Recorded' = Recorded \cup {rec} /\ records' \in Seq(Record)
  BY <1>1, <1>2, AppendAdds
<1>5. TypeOK'
  BY <1>1, <1>3, <1>4 DEF IInv, TypeOK
<1>6. Registering' /\ Retiring' /\ (~Idle' => ~torn' /\ op'.rec \in Record)
  BY <1>3 DEF Registering, Retiring, Idle
<1>7. OnlyTargetsBurn'
  <2>1. ASSUME NEW path \in burnt
        PROVE  \E i \in DOMAIN records' :
                 records'[i].path = path /\ \A j \in 1..(i - 1) : Id(records'[j]) # path.sha
    <3>1. PICK i \in DOMAIN records :
            records[i].path = path /\ \A j \in 1..(i - 1) : Id(records[j]) # path.sha
      BY DEF IInv, OnlyTargetsBurn
    <3>2. i \in DOMAIN records' /\ records'[i] = records[i] /\ \A j \in 1..(i - 1) : records'[j] = records[j]
      BY <1>1, <1>2, AppendAdds
    <3> QED
      BY <3>1, <3>2 DEF Id
  <2> QED
    BY <1>1, <2>1 DEF OnlyTargetsBurn, Id
<1>8. RetirementsAreOfIntakes' /\ RecordsAreTrue'
  <2>1. CASE rec.type = "intake"
    <3>1. Intakes' = Intakes \cup {rec} /\ Retirements' = Retirements /\ RetiredPaths' = RetiredPaths
      BY <1>4, <2>1 DEF Intakes, Retirements, RetiredPaths
    <3>2. rec.path \in drifted \/ disk[rec.path] = "good"
      BY <1>1, <2>1 DEF IInv, Registering
    <3> QED
      BY <1>1, <3>1, <3>2
      DEF IInv, RetirementsAreOfIntakes, RecordsAreTrue, RetiredIsGone, RecordedFilesAreWhole
  <2>2. CASE rec.type = "retirement"
    <3>1. /\ Intakes' = Intakes /\ Retirements' = Retirements \cup {rec}
          /\ RetiredPaths' = RetiredPaths \cup {rec.path}
      BY <1>4, <2>2 DEF Intakes, Retirements, RetiredPaths
    <3>2. disk[rec.path] = "absent" /\ IsOldest(rec.path)
      BY <1>1, <2>2 DEF IInv, Retiring
    <3>3. \E x \in Intakes : x.path = rec.path
      BY <3>2 DEF IsOldest, Intakes, Recorded
    <3> QED
      BY <1>1, <3>1, <3>2, <3>3
      DEF IInv, RetirementsAreOfIntakes, RecordsAreTrue, RetiredIsGone, RecordedFilesAreWhole
  <2> QED
    BY <1>2, <2>1, <2>2
<1> QED
  BY <1>5, <1>6, <1>7, <1>8 DEF IInv

LEMMA RetireKeeps ==
  ASSUME IInv, NEW sha \in Digests, NEW label \in Labels, NEW release \in BOOLEAN,
         Retire(sha, label, release)
  PROVE  IInv'
<1>1. PICK i \in DOMAIN records :
        /\ IsTarget(i, sha)
        /\ op' = [pc |-> "burn", rec |-> [type |-> "retirement", path |-> records[i].path]]
  BY DEF Retire
<1>2. /\ SameRecords /\ UNCHANGED <<disk, torn, rotted, drifted, burnt, crashes>> /\ ~torn
      /\ sha \notin RetiredIds(Machines)
  BY DEF Retire, SameRecords
<1> DEFINE path == records[i].path
<1>3. /\ records[i] \in Recorded /\ path \in Path /\ records[i].type = "intake" /\ path.sha = sha
      /\ records \in Seq(Record) /\ i \in 1..Len(records) /\ Len(records) \in Nat
  BY <1>1, RecordedAreRecords DEF Recorded, IInv, TypeOK, IsTarget, Holds, Id
<1>4. IsOldest(path)
  <2>1. ASSUME NEW j \in 1..(i - 1), Id(records[j]) = sha
        PROVE  FALSE
    <3>1. j \in DOMAIN records /\ ~(i <= j)
      BY <1>3, <2>1
    <3>2. records[j] \in Recorded /\ records[j].type # "intake"
      BY <1>1, <2>1, <3>1 DEF Recorded, IsTarget, Holds
    <3>3. records[j] \in Retirements /\ records[j].path.machine \in Machines
      BY <3>2, RecordedAreRecords DEF Retirements, IInv
    <3> QED
      BY <1>2, <2>1, <3>3 DEF RetiredIds
  <2> QED
    BY <1>1, <1>3, <2>1 DEF IsOldest
<1>5. op'.pc = "burn" /\ op'.rec \in Record /\ op'.rec.type = "retirement" /\ op'.rec.path = path
  BY <1>1, <1>3 DEF Record
<1>6. TypeOK'
  BY <1>1, <1>2, <1>3 DEF IInv, TypeOK, SameRecords, Record
<1>7. Registering' /\ Retiring'
  BY <1>2, <1>3, <1>4, <1>5, SameRecordsSameViews DEF Registering, Retiring
<1>8. OnlyTargetsBurn' /\ RetirementsAreOfIntakes' /\ RecordsAreTrue'
  BY <1>2, SameRecordsSameViews
  DEF IInv, OnlyTargetsBurn, SameRecords, Id, RecordsAreTrue, RetiredIsGone, RecordedFilesAreWhole
<1> QED
  BY <1>2, <1>5, <1>6, <1>7, <1>8 DEF IInv

\* The file a retire burns has its own record and is not retired.
LEMMA OverwriteKeeps ==
  ASSUME IInv, Overwrite
  PROVE  IInv'
<1> DEFINE path == op.rec.path
<1>1. /\ op.pc = "burn" /\ op' = [op EXCEPT !.pc = "unlink"] /\ disk' = [disk EXCEPT ![path] = "bad"]
      /\ burnt' = burnt \cup {path} /\ SameRecords /\ UNCHANGED <<torn, rotted, drifted, crashes>>
  BY DEF Overwrite, SameRecords
<1>2. /\ op \in [pc : {"idle", "copy", "record", "burn", "unlink"}, rec : Record \cup {None}]
      /\ op.rec \in Record /\ ~torn /\ path \in Path
  BY <1>1 DEF IInv, TypeOK, Idle, Record
<1>3. op'.pc = "unlink" /\ op'.rec = op.rec
      /\ op' \in [pc : {"idle", "copy", "record", "burn", "unlink"}, rec : Record \cup {None}]
  BY <1>1, <1>2
<1>4. op.rec.type = "retirement" /\ IsOldest(path) /\ path.sha \notin RetiredIds(Machines)
  BY <1>1 DEF IInv, Retiring
<1>5. path \notin RetiredPaths
  BY <1>4, RetiredAreOnRecord
<1>6. RecordsAreTrue' /\ disk' \in [Path -> {"absent", "good", "bad"}]
  BY <1>1, <1>2, <1>5, OneFile
<1>7. TypeOK'
  BY <1>1, <1>2, <1>3, <1>6 DEF IInv, TypeOK, SameRecords
<1>8. Registering' /\ Retiring'
  BY <1>1, <1>3, <1>4, SameRecordsSameViews DEF Registering, Retiring
<1>9. OnlyTargetsBurn' /\ RetirementsAreOfIntakes'
  BY <1>1, <1>4, SameRecordsSameViews DEF IInv, OnlyTargetsBurn, SameRecords, Id, IsOldest
<1> QED
  BY <1>1, <1>2, <1>3, <1>6, <1>7, <1>8, <1>9 DEF IInv

LEMMA UnlinkKeeps ==
  ASSUME IInv, Unlink
  PROVE  IInv'
<1> DEFINE path == op.rec.path
<1>1. /\ op.pc = "unlink" /\ op' = [op EXCEPT !.pc = "record"] /\ disk' = [disk EXCEPT ![path] = "absent"]
      /\ SameRecords /\ UNCHANGED <<torn, rotted, drifted, burnt, crashes>>
  BY DEF Unlink, SameRecords
<1>2. /\ op \in [pc : {"idle", "copy", "record", "burn", "unlink"}, rec : Record \cup {None}]
      /\ op.rec \in Record /\ ~torn /\ path \in Path
  BY <1>1 DEF IInv, TypeOK, Idle, Record
<1>3. op'.pc = "record" /\ op'.rec = op.rec
      /\ op' \in [pc : {"idle", "copy", "record", "burn", "unlink"}, rec : Record \cup {None}]
  BY <1>1, <1>2
<1>4. /\ op.rec.type = "retirement" /\ IsOldest(path) /\ path.sha \notin RetiredIds(Machines)
      /\ path \in burnt
  BY <1>1 DEF IInv, Retiring
<1>5. path \notin RetiredPaths
  BY <1>4, RetiredAreOnRecord
<1>6. RecordsAreTrue' /\ disk' \in [Path -> {"absent", "good", "bad"}] /\ disk'[path] = "absent"
  BY <1>1, <1>2, <1>4, <1>5, OneFile
<1>7. TypeOK'
  BY <1>1, <1>3, <1>6 DEF IInv, TypeOK, SameRecords
<1>8. Registering' /\ Retiring'
  BY <1>1, <1>3, <1>4, <1>6, SameRecordsSameViews DEF Registering, Retiring
<1>9. OnlyTargetsBurn' /\ RetirementsAreOfIntakes'
  BY <1>1, SameRecordsSameViews DEF IInv, OnlyTargetsBurn, SameRecords, Id
<1> QED
  BY <1>1, <1>2, <1>3, <1>6, <1>7, <1>8, <1>9 DEF IInv

\* A command that dies, or gives up after the read-back, leaves the files and the records.
LEMMA EndKeeps ==
  ASSUME IInv, ReadBackFails \/ Crash
  PROVE  IInv'
<1>1. /\ op' = NoOp /\ SameRecords /\ UNCHANGED <<disk, rotted, drifted, burnt>>
      /\ torn' \in BOOLEAN /\ crashes' \in 0..MaxCrashes
  <2>1. torn \in BOOLEAN /\ crashes \in 0..MaxCrashes
    BY DEF IInv, TypeOK
  <2>2. torn' \in BOOLEAN
    BY <2>1 DEF ReadBackFails, Crash
  <2>3. crashes' \in 0..MaxCrashes
    BY <2>1 DEF ReadBackFails, Crash
  <2> QED
    BY <2>2, <2>3 DEF ReadBackFails, Crash, SameRecords
<1>2. op'.pc = "idle" /\ op' \in [pc : {"idle", "copy", "record", "burn", "unlink"}, rec : Record \cup {None}]
  BY <1>1 DEF NoOp
<1>3. TypeOK'
  BY <1>1, <1>2 DEF IInv, TypeOK, SameRecords
<1>4. Registering' /\ Retiring' /\ (~Idle' => ~torn' /\ op'.rec \in Record)
  BY <1>2 DEF Registering, Retiring, Idle
<1>5. OnlyTargetsBurn' /\ RetirementsAreOfIntakes' /\ RecordsAreTrue'
  BY <1>1, SameRecordsSameViews
  DEF IInv, OnlyTargetsBurn, SameRecords, Id, RecordsAreTrue, RetiredIsGone, RecordedFilesAreWhole
<1> QED
  BY <1>3, <1>4, <1>5 DEF IInv

LEMMA RotKeeps ==
  ASSUME IInv, NEW path \in Path, Rot(path)
  PROVE  IInv'
<1>1. PICK damage \in {"bad", "absent"} : disk' = [disk EXCEPT ![path] = damage]
  BY DEF Rot
<1>2. /\ op.pc = "idle" /\ disk[path] = "good" /\ rotted' = rotted \cup {path}
      /\ SameRecords /\ UNCHANGED <<torn, op, drifted, burnt, crashes>>
  BY DEF Rot, Idle, SameRecords
<1>3. path \notin RetiredPaths
  BY <1>2, RetiredAreOnRecord
<1>4. RecordsAreTrue' /\ disk' \in [Path -> {"absent", "good", "bad"}]
  BY <1>1, <1>2, <1>3, OneFile
<1>5. TypeOK'
  BY <1>2, <1>4 DEF IInv, TypeOK, SameRecords
<1>6. Registering' /\ Retiring' /\ (~Idle' => ~torn' /\ op'.rec \in Record)
  BY <1>2 DEF Registering, Retiring, Idle
<1>7. OnlyTargetsBurn' /\ RetirementsAreOfIntakes'
  BY <1>2, SameRecordsSameViews DEF IInv, OnlyTargetsBurn, SameRecords, Id
<1> QED
  BY <1>4, <1>5, <1>6, <1>7 DEF IInv

LEMMA InitHolds ==
  ASSUME Init
  PROVE  IInv
<1>1. Recorded = {} /\ Intakes = {} /\ Retirements = {} /\ RetiredPaths = {}
  BY DEF Init, Recorded, Intakes, Retirements, RetiredPaths
<1>2. op.pc = "idle" /\ op \in [pc : {"idle", "copy", "record", "burn", "unlink"}, rec : Record \cup {None}]
  BY DEF Init, NoOp
<1>3. TypeOK
  <2>1. disk \in [Path -> {"absent", "good", "bad"}] /\ records \in Seq(Record)
    BY DEF Init
  <2>2. torn \in BOOLEAN
    BY DEF Init
  <2> QED
    BY <1>2, <2>1, <2>2 DEF Init, TypeOK
<1> QED
  BY <1>1, <1>2, <1>3 DEF Init, IInv, Idle, Registering, Retiring, RetirementsAreOfIntakes,
     RecordsAreTrue, RetiredIsGone, RecordedFilesAreWhole, OnlyTargetsBurn

LEMMA StepKeeps ==
  ASSUME IInv, [Next]_vars
  PROVE  IInv'
<1>1. CASE UNCHANGED vars
  <2>1. SameRecords /\ UNCHANGED <<disk, torn, op, rotted, drifted, burnt, crashes>>
    BY <1>1 DEF vars, SameRecords
  <2>2. TypeOK' /\ OnlyTargetsBurn' /\ RecordsAreTrue' /\ RetirementsAreOfIntakes'
    BY <2>1, SameRecordsSameViews
    DEF IInv, TypeOK, OnlyTargetsBurn, SameRecords, Id, RecordsAreTrue, RetiredIsGone, RecordedFilesAreWhole
  <2>3. Registering' /\ Retiring' /\ (~Idle' => ~torn' /\ op'.rec \in Record)
    BY <2>1, SameRecordsSameViews DEF IInv, Registering, Retiring, Idle
  <2> QED
    BY <2>2, <2>3 DEF IInv
<1>2. CASE Next
  BY <1>2, RegisterKeeps, SourceChangesKeeps, FinishCopyKeeps, AppendKeeps, RetireKeeps,
     OverwriteKeeps, UnlinkKeeps, EndKeeps, RotKeeps DEF Next
<1> QED
  BY <1>1, <1>2

LEMMA Invariant == Spec => []IInv
  BY InitHolds, StepKeeps, PTL DEF Spec

-----------------------------------------------------------------------------
(* The theorems                                                             *)

\* Files, log and the running command keep their types; every record names a path of the
\* intake (intake.py register, retire).
THEOREM TypeCorrect == Spec => []TypeOK
<1>1. IInv => TypeOK
  BY DEF IInv
<1> QED
  BY <1>1, Invariant, PTL

\* A retired file is gone for good and every other file on record is whole, unless the drive
\* or a burn touched it or it was copied from a source that changed after its hash (intake.py
\* register, retire).
THEOREM TheRecordsAreTrue == Spec => []RecordsAreTrue
<1>1. IInv => RecordsAreTrue
  BY DEF IInv
<1> QED
  BY <1>1, Invariant, PTL

\* Whatever records share an id, only the file of the oldest is ever burnt (intake.py
\* retire).
THEOREM OnlyTheOldestBurns == Spec => []OnlyTargetsBurn
<1>1. IInv => OnlyTargetsBurn
  BY DEF IInv
<1> QED
  BY <1>1, Invariant, PTL

\* verify reports every damaged file that has a record to itself, whoever damaged it
\* (intake.py verify).
THEOREM DamageIsReported == Spec => []VerifyCatchesDamage
<1>1. IInv => VerifyCatchesDamage
  <2> SUFFICES ASSUME IInv, NEW r \in Intakes,
                      SoleRecord(r), r.path \notin RetiredPaths, disk[r.path] # "good"
               PROVE  r \in Issues(Machines) /\ r \in Issues({r.path.machine})
    BY DEF VerifyCatchesDamage
  <2>1. ASSUME NEW x \in Retirements PROVE Id(x) # Id(r)
    <3>1. PICK y \in Intakes : y.path = x.path
      BY DEF IInv, RetirementsAreOfIntakes
    <3>2. x.path \in RetiredPaths
      BY DEF RetiredPaths
    <3> QED
      BY <3>1, <3>2 DEF SoleRecord, Id
  <2>2. Id(r) \notin RetiredIds(Machines) /\ Id(r) \notin RetiredIds({r.path.machine})
    BY <2>1 DEF RetiredIds
  <2>3. r.path.machine \in Machines
    BY RecordedAreRecords DEF IInv, Intakes
  <2> QED
    BY <2>2, <2>3 DEF Issues, Live
<1> QED
  BY <1>1, Invariant, PTL

HIDE IntakeAssumption

-----------------------------------------------------------------------------
(* Vault Lock and the cold backups.                                         *)

USE VaultLockAssumption

Entry == Paths \X Versions
Written == {e \in Entry : e[2] <= NumPaths + edits}

States == {"idle", "scan", "archive", "check", "list", "burn", "open", "extract"}
RunType ==
  [at : States, kind : {"none", "lock", "backup", "unlock"}, out : Files,
   format : {"none", "vault", "chunks"}, secret : Secrets \cup {WrongSecret, "none"},
   todo : SUBSET Paths, files : SUBSET Entry, tar : Seq(Entry)]
Origins == [files : SUBSET Entry, tar : Seq(Entry), crossed : BOOLEAN]

\* A sealed file keeps what went into it, and its file list only ever loses entries.
IsContainer(c) ==
  /\ c = [format |-> c.format, secret |-> c.secret, files |-> c.files, count |-> c.count,
          body |-> c.body, origin |-> c.origin]
  /\ c.origin \in Origins
  /\ c.files \subseteq c.origin.files

VaultTypeOK ==
  /\ tree \in [Paths -> Versions \cup {Missing}]
  /\ DOMAIN sealed = Files
  /\ run \in [Runs -> RunType]
  /\ edits \in 0..MaxEdits
  /\ \A f \in Files : Exists(f) => IsContainer(sealed[f])
  /\ certs \subseteq Files \X SUBSET Entry

\* Who is at which step, and where it writes.
InStep(r) ==
  /\ run[r].at \in {"scan", "archive", "check"} => run[r].kind \in {"lock", "backup"}
  /\ run[r].at \in {"list", "burn"} => run[r].kind = "lock"
  /\ run[r].kind \in {"lock", "backup"} => run[r].secret \in Secrets /\ run[r].format # "none"
  /\ run[r].kind = "lock" => run[r].out = LockFile
  /\ run[r].kind = "backup" => run[r].out \in Backups
  /\ run[r].at = "scan" => run[r].tar = << >>

\* Two containers that a secret opens or does not open alike.
SameSeal(c, d) ==
  c.secret = d.secret /\ c.body = d.body /\ c.count = d.count /\ c.origin.tar = d.origin.tar

\* What a lock that nobody disturbed has in hand: first all of the directory it has gone
\* through, then all the directory holds, in a file that opens unless it was given up.
LockHolds(r) ==
  run[r].kind = "lock" /\ r \notin disturbed =>
    /\ run[r].at = "archive" =>
         \A p \in Present \ run[r].todo : <<p, tree[p]>> \in ToSet(run[r].tar)
    /\ run[r].at \in {"check", "list", "burn"} => Contents \subseteq ToSet(run[r].tar)
    /\ run[r].at = "check" =>
         \/ ToSet(run[r].tar) \subseteq forfeited
         \/ Exists(LockFile) /\ SameSeal(sealed[LockFile], Container(r))
    /\ run[r].at \in {"list", "burn"} =>
         \/ ToSet(run[r].tar) \subseteq forfeited
         \/ /\ Exists(LockFile)
            /\ sealed[LockFile].origin.tar = run[r].tar
            /\ Opens(sealed[LockFile], run[r].secret)

\* While no unlock extracts, an archive agrees with the file list only where the directory
\* has not changed since a moment between the two readings.
PathsOf(S) == {e[1] : e \in S}
Agrees(S, paths, tar, list, now) ==
  /\ PathsOf(S) = PathsOf(tar) \cup paths
  /\ tar \cap list \subseteq S
  /\ \A p \in paths : <<p, now[p]>> \in list => <<p, now[p]>> \in S
ReadTwice(r) ==
  run[r].at = "archive" /\ r \notin crossed =>
    \E S \in past : Agrees(S, run[r].todo, ToSet(run[r].tar), run[r].files, tree)

\* An unlock compares with the list its file was sealed with.
Unlocking(r) ==
  /\ run[r].at = "open" => Exists(run[r].out)
  /\ run[r].at = "extract" =>
       \/ run[r].out \in touched
       \/ Exists(run[r].out) /\ run[r].files = sealed[run[r].out].origin.files

\* Nobody holds a version that was not written yet.
HoldsWritten(r) == run[r].files \subseteq Written /\ ToSet(run[r].tar) \subseteq Written

RunInv(r) == InStep(r) /\ LockHolds(r) /\ ReadTwice(r) /\ Unlocking(r) /\ HoldsWritten(r)

SealedInv(f) ==
  Exists(f) =>
    /\ sealed[f].origin.files \subseteq Written /\ ToSet(sealed[f].origin.tar) \subseteq Written
    /\ f \notin touched => sealed[f].files = sealed[f].origin.files
    /\ ~sealed[f].origin.crossed /\ ToSet(sealed[f].origin.tar) \subseteq sealed[f].origin.files
         => ToSet(sealed[f].origin.tar) \in past

\* A whole state of the directory has one version of a path.
OneVersionEach(S) == \A d, e \in S : d[1] = e[1] => d = e
PastInv == Contents \in past /\ Contents \subseteq Written /\ \A S \in past : OneVersionEach(S) /\ S \subseteq Entry

VaultInv ==
  /\ VaultTypeOK
  /\ \A r \in Runs : RunInv(r)
  /\ \A f \in Files : SealedInv(f)
  /\ PastInv
  /\ LockedIsRecoverable
  /\ CertifiedBackupRestores

-----------------------------------------------------------------------------
(* Sequences and least elements.                                            *)

LEMMA SetOfAppend ==
  ASSUME NEW S, NEW s \in Seq(S), NEW x
  PROVE ToSet(Append(s, x)) = ToSet(s) \cup {x}
<1> DEFINE t == Append(s, x)
<1>1. s \in Seq(S \cup {x}) /\ x \in S \cup {x}
  OBVIOUS
<1>2. /\ Len(s) \in Nat /\ DOMAIN s = 1..Len(s)
      /\ DOMAIN t = 1..(Len(s) + 1) /\ t[Len(s) + 1] = x /\ \A i \in 1..Len(s) : t[i] = s[i]
  BY <1>1
<1> HIDE DEF t
<1>3. ToSet(t) \subseteq ToSet(s) \cup {x}
  BY <1>2 DEF ToSet
<1>4. ToSet(s) \subseteq ToSet(t)
  BY <1>2 DEF ToSet
<1>5. x \in ToSet(t)
  BY <1>2 DEF ToSet
<1> QED
  BY <1>3, <1>4, <1>5 DEF t

LEMMA SetOfTail ==
  ASSUME NEW S, NEW s \in Seq(S), s # << >>
  PROVE ToSet(Tail(s)) \subseteq ToSet(s) /\ Head(s) \in ToSet(s) /\ ToSet(s) \subseteq S
<1>1. /\ Len(s) \in Nat /\ Len(s) > 0 /\ DOMAIN s = 1..Len(s)
      /\ DOMAIN Tail(s) = 1..(Len(s) - 1) /\ \A i \in 1..(Len(s) - 1) : Tail(s)[i] = s[i + 1]
  OBVIOUS
<1>2. ToSet(Tail(s)) \subseteq ToSet(s)
  BY <1>1 DEF ToSet
<1>3. Head(s) = s[1] /\ 1 \in DOMAIN s
  BY <1>1
<1>4. ToSet(s) \subseteq S
  BY <1>1 DEF ToSet
<1> QED
  BY <1>2, <1>3, <1>4 DEF ToSet

LEMMA EmptySet == ToSet(<< >>) = {}
BY DEF ToSet

LEMMA LeastIsMember ==
  ASSUME NEW ps \in SUBSET Paths, ps # {} PROVE Min(ps) \in ps
<1> DEFINE R == OpToRel(<, Nat)
<1>1. ASSUME NEW x \in Nat, NEW y \in Nat, ~(<<x, y>> \in R) PROVE y <= x
  BY <1>1 DEF OpToRel
<1>2. IsWellFoundedOn(R, Nat)
  BY NatLessThanWellFounded
<1>3. ps \subseteq Nat
  BY DEF Paths
<1> HIDE DEF R
<1>4. PICK p \in ps : \A q \in ps : ~(<<q, p>> \in R)
  BY <1>2, <1>3, WFMin
<1>5. \A q \in ps : p <= q
  BY <1>1, <1>3, <1>4
<1>6. \E x \in ps : \A y \in ps : x <= y
  BY <1>5
<1> QED
  BY <1>6 DEF Min

-----------------------------------------------------------------------------
(* Containers.                                                              *)

\* What opens holds what went in.
LEMMA OpensIsArchive ==
  ASSUME NEW c, NEW s, Opens(c, s) PROVE Payload(c) = c.origin.tar
BY DEF Opens

LEMMA SameSealOpensAlike ==
  ASSUME NEW c, NEW d, NEW s, SameSeal(c, d), Opens(d, s) PROVE Opens(c, s)
<1>1. c.secret = d.secret /\ c.body = d.body /\ c.count = d.count /\ c.origin.tar = d.origin.tar
  BY DEF SameSeal
<1>2. \A i : BlockOpens(c, i) = BlockOpens(d, i)
  BY <1>1 DEF BlockOpens
<1>3. \A i : Decrypted(c, i) = Decrypted(d, i)
  BY <1>1, <1>2 DEF Decrypted
<1>4. Payload(c) = Payload(d)
  BY <1>1, <1>3 DEF Payload
<1>5. SameKeys(c, s) = SameKeys(d, s) /\ WholeBody(c) = WholeBody(d)
  BY <1>1 DEF SameKeys, WholeBody
<1> QED
  BY <1>1, <1>2, <1>4, <1>5 DEF Opens

\* What a sealed file that opens holds.
Stored(F, e) ==
  \E f \in Files, s \in Secrets : F[f] # NoFile /\ Opens(F[f], s) /\ e \in ToSet(F[f].origin.tar)

LEMMA StoredIs ==
  ASSUME NEW F, NEW e
  PROVE  e \in UNION {ToSet(Payload(F[f])) :
                      f \in {g \in Files : F[g] # NoFile /\ \E s \in Secrets : Opens(F[g], s)}}
         <=> Stored(F, e)
<1> DEFINE O == {g \in Files : F[g] # NoFile /\ \E s \in Secrets : Opens(F[g], s)}
<1>1. \A f \in O : Payload(F[f]) = F[f].origin.tar
  BY OpensIsArchive
<1>2. (\E f \in O : e \in ToSet(F[f].origin.tar)) <=> Stored(F, e)
  BY DEF Stored
<1>3. e \in UNION {ToSet(Payload(F[f])) : f \in O} <=> \E f \in O : e \in ToSet(Payload(F[f]))
  OBVIOUS
<1> HIDE DEF O
<1>4. e \in UNION {ToSet(Payload(F[f])) : f \in O} <=> Stored(F, e)
  BY <1>1, <1>2, <1>3
<1> QED
  BY <1>4 DEF O

LEMMA SafeNow ==
  LockedIsRecoverable <=> \A e \in destroyed \ (strays \cup forfeited) : e \in Contents \/ Stored(sealed, e)
<1>1. \A e : e \in Recoverable <=> e \in Contents \/ Stored(sealed, e)
  BY StoredIs DEF Recoverable, Openable, Exists
<1> QED
  BY <1>1 DEF LockedIsRecoverable

LEMMA SafeNext ==
  LockedIsRecoverable' <=>
    \A e \in destroyed' \ (strays' \cup forfeited') : e \in Contents' \/ Stored(sealed', e)
<1>1. \A e : e \in Recoverable' <=> e \in Contents' \/ Stored(sealed', e)
  BY StoredIs DEF Recoverable, Openable, Exists
<1> QED
  BY <1>1 DEF LockedIsRecoverable

LEMMA ContainerIsContainer ==
  ASSUME VaultTypeOK, NEW r \in Runs
  PROVE  /\ IsContainer(Container(r))
         /\ Container(r).origin = [files |-> run[r].files, tar |-> run[r].tar, crossed |-> r \in crossed]
         /\ Container(r).files = run[r].files
         /\ run[r].format # "none" => Container(r) # NoFile
<1>1. run[r] \in RunType
  BY DEF VaultTypeOK
<1>2. run[r].files \in SUBSET Entry /\ run[r].tar \in Seq(Entry)
  BY <1>1 DEF RunType
<1>3. (r \in crossed) \in BOOLEAN
  OBVIOUS
<1>4. [files |-> run[r].files, tar |-> run[r].tar, crossed |-> r \in crossed] \in Origins
  BY <1>2, <1>3 DEF Origins
<1>5. Container(r).format = run[r].format /\ NoFile.format = "none"
  BY DEF Container, NoFile
<1>6. run[r].format # "none" => Container(r) # NoFile
  BY <1>5
<1> QED
  BY <1>4, <1>6 DEF Container, IsContainer

-----------------------------------------------------------------------------
(* What a step leaves as it is.                                             *)

\* A step that writes neither the directory nor the sealed file of a lock keeps what that
\* lock has in hand.
LEMMA LockFrame ==
  ASSUME NEW q \in Runs, LockHolds(q), run'[q] = run[q],
         run[q].kind = "lock" /\ q \notin disturbed' =>
           /\ q \notin disturbed /\ tree' = tree /\ forfeited \subseteq forfeited'
           /\ \/ sealed'[LockFile] = sealed[LockFile]
              \/ Exists(LockFile) => ToSet(sealed[LockFile].origin.tar) \subseteq forfeited'
  PROVE  LockHolds(q)'
<1> SUFFICES ASSUME run[q].kind = "lock", q \notin disturbed' PROVE LockHolds(q)'
  BY DEF LockHolds
<1>1. /\ q \notin disturbed /\ tree' = tree /\ forfeited \subseteq forfeited'
      /\ \/ sealed'[LockFile] = sealed[LockFile]
         \/ Exists(LockFile) => ToSet(sealed[LockFile].origin.tar) \subseteq forfeited'
  OBVIOUS
<1>2. Present' = Present /\ Contents' = Contents
  BY <1>1 DEF Present, Contents
<1>3. Container(q)'.secret = Container(q).secret /\ Container(q)'.body = Container(q).body
      /\ Container(q)'.count = Container(q).count /\ Container(q)'.origin.tar = Container(q).origin.tar
      /\ Container(q).origin.tar = run[q].tar
  BY DEF Container
<1>4. \A c : SameSeal(c, Container(q)) => SameSeal(c, Container(q)') /\ c.origin.tar = run[q].tar
  BY <1>3 DEF SameSeal
<1>5. run[q].at = "archive" =>
         \A p \in Present' \ run[q].todo : <<p, tree'[p]>> \in ToSet(run[q].tar)
  BY <1>1, <1>2 DEF LockHolds
<1>6. run[q].at \in {"check", "list", "burn"} => Contents' \subseteq ToSet(run[q].tar)
  BY <1>1, <1>2 DEF LockHolds
<1>7. ASSUME run[q].at = "check"
      PROVE  \/ ToSet(run[q].tar) \subseteq forfeited'
             \/ Exists(LockFile)' /\ SameSeal(sealed'[LockFile], Container(q)')
  BY <1>1, <1>4, <1>7 DEF LockHolds, Exists
<1>8. ASSUME run[q].at \in {"list", "burn"}
      PROVE  \/ ToSet(run[q].tar) \subseteq forfeited'
             \/ /\ Exists(LockFile)'
                /\ sealed'[LockFile].origin.tar = run[q].tar
                /\ Opens(sealed'[LockFile], run[q].secret)
  BY <1>1, <1>8 DEF LockHolds, Exists
<1> QED
  BY <1>5, <1>6, <1>7, <1>8 DEF LockHolds

LEMMA ReadTwiceFrame ==
  ASSUME NEW q \in Runs, ReadTwice(q), run'[q] = run[q], run[q].todo \subseteq Paths,
         q \notin crossed' =>
           /\ q \notin crossed /\ past \subseteq past'
           /\ \A p \in Paths : tree'[p] = tree[p] \/ <<p, tree'[p]>> \notin run[q].files
  PROVE  ReadTwice(q)'
<1> SUFFICES ASSUME run[q].at = "archive", q \notin crossed'
             PROVE  \E S \in past' : Agrees(S, run[q].todo, ToSet(run[q].tar), run[q].files, tree')
  BY DEF ReadTwice
<1>1. PICK S \in past : Agrees(S, run[q].todo, ToSet(run[q].tar), run[q].files, tree)
  BY DEF ReadTwice
<1>2. S \in past'
  BY <1>1
<1>3. \A p \in run[q].todo : <<p, tree'[p]>> \in run[q].files => <<p, tree'[p]>> \in S
  BY <1>1 DEF Agrees
<1>4. Agrees(S, run[q].todo, ToSet(run[q].tar), run[q].files, tree')
  BY <1>1, <1>3 DEF Agrees
<1> QED
  BY <1>2, <1>4

LEMMA UnlockingFrame ==
  ASSUME NEW q \in Runs, Unlocking(q), run'[q] = run[q], touched \subseteq touched',
         Exists(run[q].out) =>
           Exists(run[q].out)' /\ (run[q].out \in touched' \/ sealed'[run[q].out] = sealed[run[q].out])
  PROVE  Unlocking(q)'
<1>1. run[q].at = "open" => Exists(run[q].out)'
  BY DEF Unlocking
<1>2. run[q].at = "extract" =>
        \/ run[q].out \in touched'
        \/ Exists(run[q].out)' /\ run[q].files = sealed'[run[q].out].origin.files
  BY DEF Unlocking
<1> QED
  BY <1>1, <1>2 DEF Unlocking

LEMMA HoldsFrame ==
  ASSUME NEW q \in Runs, HoldsWritten(q), run'[q] = run[q], Written \subseteq Written'
  PROVE  HoldsWritten(q)'
BY DEF HoldsWritten

LEMMA SealedFrame ==
  ASSUME NEW f \in Files, SealedInv(f), sealed'[f] = sealed[f], Written \subseteq Written',
         touched \subseteq touched', past \subseteq past'
  PROVE  SealedInv(f)'
<1> SUFFICES ASSUME Exists(f)' PROVE SealedInv(f)'
  BY DEF SealedInv
<1>1. Exists(f)
  BY DEF Exists
<1>2. sealed'[f].origin.files \subseteq Written' /\ ToSet(sealed'[f].origin.tar) \subseteq Written'
  BY <1>1 DEF SealedInv
<1>3. f \notin touched' => sealed'[f].files = sealed'[f].origin.files
  BY <1>1 DEF SealedInv
<1>4. ~sealed'[f].origin.crossed /\ ToSet(sealed'[f].origin.tar) \subseteq sealed'[f].origin.files
         => ToSet(sealed'[f].origin.tar) \in past'
  BY <1>1 DEF SealedInv
<1> QED
  BY <1>2, <1>3, <1>4 DEF SealedInv

LEMMA CertsFrame ==
  ASSUME CertifiedBackupRestores, certs' = certs, touched \subseteq touched',
         \A f \in Files : Exists(f) => sealed'[f] = sealed[f] \/ f \in touched',
         certs \subseteq Files \X SUBSET Entry
  PROVE  CertifiedBackupRestores'
<1> SUFFICES ASSUME NEW c \in certs, c[1] \notin touched'
             PROVE  (\E s \in Secrets : VerifyOk(c[1], s)') /\ sealed'[c[1]].files = c[2]
  BY DEF CertifiedBackupRestores
<1>1. PICK s \in Secrets : VerifyOk(c[1], s)
  BY DEF CertifiedBackupRestores
<1>2. sealed[c[1]].files = c[2]
  BY DEF CertifiedBackupRestores
<1>3. Exists(c[1]) /\ c[1] \in Files
  BY <1>1 DEF VerifyOk
<1>4. sealed'[c[1]] = sealed[c[1]]
  BY <1>3
<1>5. VerifyOk(c[1], s)'
  BY <1>1, <1>4 DEF VerifyOk, Exists
<1> QED
  BY <1>2, <1>4, <1>5

\* A step of one command that changes nothing but what that command knows.
LEMMA CommandStep ==
  ASSUME VaultInv, NEW r \in Runs, NEW new \in RunType, run' = [run EXCEPT ![r] = new],
         UNCHANGED <<tree, sealed, destroyed, strays, forfeited, touched, past, edits>>,
         \A q \in Runs \ {r} : (q \in disturbed' <=> q \in disturbed)
                               /\ (q \in crossed' <=> q \in crossed),
         RunInv(r)', CertifiedBackupRestores', certs' \subseteq Files \X SUBSET Entry
  PROVE  VaultInv'
<1>1. run'[r] = new /\ \A q \in Runs \ {r} : run'[q] = run[q]
  BY DEF VaultInv, VaultTypeOK
<1>2. Written' = Written /\ Present' = Present /\ Contents' = Contents
  BY DEF Written, Present, Contents
<1>3. VaultTypeOK'
  BY <1>1 DEF VaultInv, VaultTypeOK, Exists
<1>4. ASSUME NEW q \in Runs, q # r PROVE RunInv(q)'
  <2>1. RunInv(q) /\ run'[q] = run[q]
    BY <1>1, <1>4 DEF VaultInv
  <2>2. run[q].todo \subseteq Paths
    BY DEF VaultInv, VaultTypeOK, RunType
  <2>3. InStep(q)'
    BY <2>1 DEF RunInv, InStep
  <2>4. LockHolds(q)'
    BY <1>4, <2>1, LockFrame DEF RunInv
  <2>5. ReadTwice(q)'
    BY <1>4, <2>1, <2>2, ReadTwiceFrame DEF RunInv
  <2>6. Unlocking(q)'
    BY <2>1, UnlockingFrame DEF RunInv, Exists
  <2>7. HoldsWritten(q)'
    BY <1>2, <2>1, HoldsFrame DEF RunInv
  <2> QED
    BY <2>3, <2>4, <2>5, <2>6, <2>7 DEF RunInv
<1>5. ASSUME NEW f \in Files PROVE SealedInv(f)'
  BY <1>2, SealedFrame DEF VaultInv
<1>6. PastInv'
  BY <1>2 DEF VaultInv, PastInv
<1>7. Recoverable' = Recoverable
  BY <1>2 DEF Recoverable, Openable, Exists
<1>8. LockedIsRecoverable'
  BY <1>7 DEF VaultInv, LockedIsRecoverable
<1> QED
  BY <1>3, <1>4, <1>5, <1>6, <1>8 DEF VaultInv

-----------------------------------------------------------------------------
(* Steps of one command that write nothing but its own progress.            *)

LEMMA QuietStep ==
  ASSUME VaultInv, NEW r \in Runs, NEW new \in RunType, run' = [run EXCEPT ![r] = new],
         UNCHANGED <<tree, sealed, certs, history, bounds>>,
         RunInv(r)'
  PROVE  VaultInv'
<1>1. UNCHANGED <<tree, sealed, destroyed, strays, forfeited, touched, past, disturbed, crossed, edits, certs>>
  BY DEF history, bounds
<1>2. certs \subseteq Files \X SUBSET Entry
  BY DEF VaultInv, VaultTypeOK
<1>3. CertifiedBackupRestores'
  BY <1>1, <1>2, CertsFrame DEF VaultInv
<1> QED
  BY <1>1, <1>2, <1>3, CommandStep

LEMMA IdleInv ==
  ASSUME NEW r \in Runs, run'[r] = NoRun PROVE RunInv(r)'
<1>1. run'[r].at = "idle" /\ run'[r].kind = "none" /\ run'[r].files = {} /\ run'[r].tar = << >>
  BY DEF NoRun
<1>2. ToSet(run'[r].tar) = {}
  BY <1>1, EmptySet
<1> QED
  BY <1>1, <1>2 DEF RunInv, InStep, LockHolds, ReadTwice, Unlocking, HoldsWritten

LEMMA NoRunType == NoRun \in RunType
<1>1. << >> \in Seq(Entry) /\ LockFile \in Files
  BY DEF Files, LockFile
<1> QED
  BY <1>1 DEF NoRun, RunType, States

LEMMA StopKeeps ==
  ASSUME VaultInv, NEW r \in Runs, Stop(r), UNCHANGED <<tree, sealed, certs, history, bounds>>
  PROVE  VaultInv'
<1>1. run' = [run EXCEPT ![r] = NoRun] /\ run'[r] = NoRun
  BY DEF Stop, VaultInv, VaultTypeOK
<1> QED
  BY <1>1, QuietStep, IdleInv, NoRunType

LEMMA BeginKeeps ==
  ASSUME VaultInv, NEW r \in Runs, NEW kind \in {"lock", "backup"}, NEW out \in Files,
         NEW format \in {"vault", "chunks"}, NEW secret \in Secrets,
         kind = "lock" => out = LockFile, kind = "backup" => out \in Backups,
         Begin(r, kind, out, format, secret)
  PROVE  VaultInv'
<1> DEFINE new == [NoRun EXCEPT !.at = "scan", !.kind = kind, !.out = out, !.format = format,
                                !.secret = secret, !.todo = Present]
<1>1. /\ run' = [run EXCEPT ![r] = new]
      /\ UNCHANGED <<tree, standing, sealed, certs, opened, destroyed, strays, forfeited, touched, past,
                     edits, damages>>
      /\ disturbed' = disturbed \ {r} /\ crossed' = crossed \ {r}
  BY DEF Begin
<1>2. new \in RunType
  <2>1. Present \in SUBSET Paths
    BY DEF Present
  <2> QED
    BY <2>1, NoRunType DEF RunType, NoRun, States
<1>3. run'[r] = new
  BY <1>1 DEF VaultInv, VaultTypeOK
<1>4. /\ new.at = "scan" /\ new.kind = kind /\ new.out = out /\ new.format = format
      /\ new.secret = secret /\ new.files = {} /\ new.tar = << >>
  BY DEF NoRun
<1> HIDE DEF new
<1>5. ToSet(run'[r].tar) = {}
  BY <1>3, <1>4, EmptySet
<1>6. RunInv(r)'
  BY <1>3, <1>4, <1>5 DEF RunInv, InStep, LockHolds, ReadTwice, Unlocking, HoldsWritten
<1>7. certs \subseteq Files \X SUBSET Entry
  BY DEF VaultInv, VaultTypeOK
<1>8. CertifiedBackupRestores'
  BY <1>1, <1>7, CertsFrame DEF VaultInv
<1> QED
  BY <1>1, <1>2, <1>6, <1>7, <1>8, CommandStep

LEMMA LockKeeps ==
  ASSUME VaultInv, NEW r \in Runs, NEW secret \in Secrets, Lock(r, secret) PROVE VaultInv'
<1>1. Begin(r, "lock", LockFile, "vault", secret) /\ LockFile \in Files
  BY DEF Lock, Files
<1> QED
  BY <1>1, BeginKeeps

LEMMA BackupKeeps ==
  ASSUME VaultInv, NEW r \in Runs, NEW format \in {"vault", "chunks"}, NEW secret \in Secrets,
         Backup(r, format, secret)
  PROVE  VaultInv'
<1>1. PICK out \in Backups : Begin(r, "backup", out, format, secret)
  BY DEF Backup
<1>2. out \in Files
  BY DEF Files
<1> QED
  BY <1>1, <1>2, BeginKeeps

LEMMA UnlockKeeps ==
  ASSUME VaultInv, NEW r \in Runs, NEW f \in Files, NEW secret \in Secrets \cup {WrongSecret},
         Unlock(r, f, secret)
  PROVE  VaultInv'
<1> DEFINE new == [NoRun EXCEPT !.at = "open", !.kind = "unlock", !.out = f, !.secret = secret]
<1>1. /\ run' = [run EXCEPT ![r] = new] /\ Exists(f)
      /\ UNCHANGED <<tree, sealed, certs, opened, history, edits, damages>>
  BY DEF Unlock
<1>2. UNCHANGED <<destroyed, strays, forfeited, touched, past, disturbed, crossed>>
  BY <1>1 DEF history
<1>3. new \in RunType
  BY NoRunType DEF RunType, NoRun, States
<1>4. run'[r] = new
  BY <1>1 DEF VaultInv, VaultTypeOK
<1>5. /\ new.at = "open" /\ new.kind = "unlock" /\ new.out = f /\ new.files = {} /\ new.tar = << >>
  BY DEF NoRun
<1> HIDE DEF new
<1>6. ToSet(run'[r].tar) = {} /\ Exists(f)'
  BY <1>1, <1>4, <1>5, EmptySet DEF Exists
<1>7. RunInv(r)'
  BY <1>4, <1>5, <1>6 DEF RunInv, InStep, LockHolds, ReadTwice, Unlocking, HoldsWritten
<1>8. certs \subseteq Files \X SUBSET Entry
  BY DEF VaultInv, VaultTypeOK
<1>9. CertifiedBackupRestores'
  BY <1>1, <1>2, <1>8, CertsFrame DEF VaultInv
<1> QED
  BY <1>1, <1>2, <1>3, <1>7, <1>8, <1>9, CommandStep

\* The path a command is at is one of the paths, and what is there was written.
LEMMA HereIsPath ==
  ASSUME VaultInv, NEW r \in Runs, run[r].todo # {}
  PROVE  /\ Here(r) \in run[r].todo /\ Here(r) \in Paths
         /\ tree[Here(r)] # Missing => <<Here(r), tree[Here(r)]>> \in Contents \cap Entry \cap Written
<1>1. run[r] \in RunType
  BY DEF VaultInv, VaultTypeOK
<1>2. run[r].todo \in SUBSET Paths
  BY <1>1 DEF RunType
<1>3. Here(r) \in run[r].todo
  BY <1>2, LeastIsMember DEF Here
<1>4. tree[Here(r)] # Missing => <<Here(r), tree[Here(r)]>> \in Contents
  BY <1>2, <1>3 DEF Contents, Present
<1>5. Contents \subseteq Written /\ Written \subseteq Entry
  BY DEF VaultInv, PastInv, Written
<1> QED
  BY <1>2, <1>3, <1>4, <1>5

LEMMA ScanKeeps ==
  ASSUME VaultInv, NEW r \in Runs, Scan(r) PROVE VaultInv'
<1>1. UNCHANGED <<tree, sealed, certs, history, bounds>> /\ run[r].at = "scan" /\ run[r].todo # {}
  BY DEF Scan
<1>2. CASE tree[Here(r)] = Missing
  BY <1>1, <1>2, StopKeeps DEF Scan
<1>3. CASE tree[Here(r)] # Missing
  <2> DEFINE new == [run[r] EXCEPT !.todo = @ \ {Here(r)}, !.files = @ \cup {<<Here(r), tree[Here(r)]>>}]
  <2>1. run' = [run EXCEPT ![r] = new]
    BY <1>3 DEF Scan
  <2>2. run[r] \in RunType /\ RunInv(r) /\ run'[r] = new
    BY <2>1 DEF VaultInv, VaultTypeOK
  <2>3. <<Here(r), tree[Here(r)]>> \in Entry \cap Written
    BY <1>1, <1>3, HereIsPath
  <2>4. new \in RunType
    BY <2>2, <2>3 DEF RunType
  <2>5. /\ new.at = "scan" /\ new.kind = run[r].kind /\ new.secret = run[r].secret
        /\ new.format = run[r].format /\ new.out = run[r].out /\ new.tar = run[r].tar
        /\ new.files = run[r].files \cup {<<Here(r), tree[Here(r)]>>}
    BY <1>1, <2>2 DEF RunType
  <2> HIDE DEF new
  <2>6. InStep(r)'
    BY <1>1, <2>2, <2>5 DEF RunInv, InStep
  <2>7. LockHolds(r)' /\ ReadTwice(r)' /\ Unlocking(r)'
    BY <2>2, <2>5 DEF LockHolds, ReadTwice, Unlocking
  <2>8. edits' = edits
    BY <1>1 DEF bounds
  <2>9. HoldsWritten(r)'
    BY <2>2, <2>3, <2>5, <2>8 DEF RunInv, HoldsWritten, Written
  <2> QED
    BY <1>1, <2>1, <2>4, <2>6, <2>7, <2>9, QuietStep DEF RunInv
<1> QED
  BY <1>2, <1>3

LEMMA PathsOfOneMore ==
  ASSUME NEW S, NEW p, NEW v PROVE PathsOf(S \cup {<<p, v>>}) = PathsOf(S) \cup {p}
<1>1. <<p, v>>[1] = p
  OBVIOUS
<1> QED
  BY <1>1, Zenon DEF PathsOf

LEMMA PathsOfContents == PathsOf(Contents) = Present
<1>1. \A p : <<p, tree[p]>>[1] = p
  OBVIOUS
<1> QED
  BY <1>1, Zenon DEF PathsOf, Contents

LEMMA ListAgainKeeps ==
  ASSUME VaultInv, NEW r \in Runs, ListAgain(r) PROVE VaultInv'
<1> DEFINE new == [run[r] EXCEPT !.at = "archive", !.todo = Present]
<1>1. /\ UNCHANGED <<tree, sealed, certs, history, bounds>> /\ run[r].at = "scan"
      /\ run' = [run EXCEPT ![r] = new]
  BY DEF ListAgain
<1>2. run[r] \in RunType /\ RunInv(r) /\ run'[r] = new
  BY <1>1 DEF VaultInv, VaultTypeOK
<1>3. Present \in SUBSET Paths
  BY DEF Present
<1>4. new \in RunType
  BY <1>2, <1>3 DEF RunType, States
<1>5. /\ new.at = "archive" /\ new.kind = run[r].kind /\ new.secret = run[r].secret
      /\ new.format = run[r].format /\ new.out = run[r].out /\ new.tar = run[r].tar
      /\ new.files = run[r].files /\ new.todo = Present
  BY <1>1, <1>2 DEF RunType
<1> HIDE DEF new
<1>6. InStep(r)'
  BY <1>1, <1>2, <1>5 DEF RunInv, InStep
<1>7. run'[r].tar = << >> /\ ToSet(run'[r].tar) = {}
  BY <1>1, <1>2, <1>5, EmptySet DEF RunInv, InStep
<1>8. UNCHANGED <<tree, past, edits>> /\ Present' = Present
  BY <1>1 DEF history, bounds, Present
<1>9. LockHolds(r)' /\ Unlocking(r)'
  BY <1>2, <1>5, <1>8 DEF LockHolds, Unlocking
<1>10. Agrees(Contents, Present, {}, run[r].files, tree)
  <2>1. PathsOf(Contents) = Present
    BY PathsOfContents
  <2> QED
    BY <2>1 DEF Agrees, PathsOf, Contents
<1>11. ReadTwice(r)'
  BY <1>2, <1>5, <1>7, <1>8, <1>10 DEF ReadTwice, VaultInv, PastInv
<1>12. HoldsWritten(r)'
  BY <1>2, <1>5, <1>7, <1>8 DEF RunInv, HoldsWritten, Written
<1> QED
  BY <1>1, <1>4, <1>6, <1>9, <1>11, <1>12, QuietStep DEF RunInv

LEMMA ArchiveKeeps ==
  ASSUME VaultInv, NEW r \in Runs, Archive(r) PROVE VaultInv'
<1>1. UNCHANGED <<tree, sealed, certs, history, bounds>> /\ run[r].at = "archive" /\ run[r].todo # {}
  BY DEF Archive
<1>2. CASE tree[Here(r)] = Missing
  BY <1>1, <1>2, StopKeeps DEF Archive
<1>3. CASE tree[Here(r)] # Missing
  <2> DEFINE e == <<Here(r), tree[Here(r)]>>
  <2> DEFINE new == [run[r] EXCEPT !.todo = @ \ {Here(r)}, !.tar = Append(@, e)]
  <2>1. run' = [run EXCEPT ![r] = new]
    BY <1>3 DEF Archive
  <2>2. run[r] \in RunType /\ RunInv(r) /\ run'[r] = new
    BY <2>1 DEF VaultInv, VaultTypeOK
  <2>3. e \in Entry \cap Written /\ Here(r) \in run[r].todo
    BY <1>1, <1>3, HereIsPath
  <2>4. run[r].tar \in Seq(Entry) /\ run[r].todo \subseteq Paths
    BY <2>2 DEF RunType
  <2>5. Append(run[r].tar, e) \in Seq(Entry) /\ ToSet(Append(run[r].tar, e)) = ToSet(run[r].tar) \cup {e}
    BY <2>3, <2>4, SetOfAppend
  <2>6. new \in RunType
    BY <2>2, <2>5 DEF RunType
  <2>7. /\ new.at = "archive" /\ new.kind = run[r].kind /\ new.secret = run[r].secret
        /\ new.format = run[r].format /\ new.out = run[r].out /\ new.files = run[r].files
        /\ new.todo = run[r].todo \ {Here(r)} /\ new.tar = Append(run[r].tar, e)
    BY <1>1, <2>2 DEF RunType
  <2> HIDE DEF new
  <2>8. InStep(r)' /\ Unlocking(r)'
    BY <1>1, <2>2, <2>7 DEF RunInv, InStep, Unlocking
  <2>9. UNCHANGED <<tree, past, disturbed, crossed, edits>> /\ Present' = Present
    BY <1>1 DEF history, bounds, Present
  <2>10. LockHolds(r)'
    <3>1. SUFFICES ASSUME run[r].kind = "lock", r \notin disturbed, NEW p \in Present \ new.todo
                  PROVE  <<p, tree[p]>> \in ToSet(new.tar)
      BY <2>2, <2>7, <2>9 DEF LockHolds
    <3>2. CASE p = Here(r)
      BY <2>5, <2>7, <3>2
    <3>3. CASE p # Here(r)
      BY <1>1, <2>2, <2>5, <2>7, <3>1, <3>3 DEF RunInv, LockHolds
    <3> QED
      BY <3>2, <3>3
  <2>11. ReadTwice(r)'
    <3>1. SUFFICES ASSUME r \notin crossed
                  PROVE  \E S \in past : Agrees(S, new.todo, ToSet(new.tar), new.files, tree)
      BY <2>2, <2>9 DEF ReadTwice
    <3>2. PICK S \in past : Agrees(S, run[r].todo, ToSet(run[r].tar), run[r].files, tree)
      BY <1>1, <2>2, <3>1 DEF RunInv, ReadTwice
    <3>3. PathsOf(ToSet(new.tar)) = PathsOf(ToSet(run[r].tar)) \cup {Here(r)}
      <4>1. ToSet(new.tar) = ToSet(run[r].tar) \cup {<<Here(r), tree[Here(r)]>>}
        BY <2>5, <2>7
      <4>2. PathsOf(ToSet(run[r].tar) \cup {<<Here(r), tree[Here(r)]>>})
              = PathsOf(ToSet(run[r].tar)) \cup {Here(r)}
        BY PathsOfOneMore, Zenon
      <4> QED
        BY <4>1, <4>2
    <3>4. PathsOf(S) = PathsOf(ToSet(new.tar)) \cup new.todo
      BY <2>3, <2>7, <3>2, <3>3 DEF Agrees
    <3>5. e \in new.files => e \in S
      BY <2>3, <2>7, <3>2 DEF Agrees
    <3>6. ToSet(new.tar) \cap new.files \subseteq S
      BY <2>5, <2>7, <3>2, <3>5 DEF Agrees
    <3>7. \A p \in new.todo : <<p, tree[p]>> \in new.files => <<p, tree[p]>> \in S
      BY <2>7, <3>2 DEF Agrees
    <3> QED
      BY <3>4, <3>6, <3>7 DEF Agrees
  <2>12. HoldsWritten(r)'
    BY <2>2, <2>3, <2>5, <2>7, <2>9 DEF RunInv, HoldsWritten, Written
  <2> QED
    BY <1>1, <2>1, <2>6, <2>8, <2>10, <2>11, <2>12, QuietStep DEF RunInv
<1> QED
  BY <1>2, <1>3

\* A command that goes on to another step and knows what it knew.
LEMMA GoesOn ==
  ASSUME VaultInv, NEW r \in Runs, NEW at \in States,
         run' = [run EXCEPT ![r].at = at],
         UNCHANGED <<tree, sealed, certs, history, bounds>>,
         InStep(r)', LockHolds(r)', at \notin {"archive", "open", "extract"}
  PROVE  VaultInv'
<1> DEFINE new == [run[r] EXCEPT !.at = at]
<1>1. run' = [run EXCEPT ![r] = new]
  OBVIOUS
<1>2. run[r] \in RunType /\ RunInv(r) /\ run'[r] = new
  BY <1>1 DEF VaultInv, VaultTypeOK
<1>3. new \in RunType
  BY <1>2 DEF RunType
<1>4. new.at = at /\ new.tar = run[r].tar /\ new.files = run[r].files
  BY <1>2 DEF RunType
<1> HIDE DEF new
<1>5. ReadTwice(r)' /\ Unlocking(r)'
  BY <1>2, <1>4 DEF ReadTwice, Unlocking
<1>6. edits' = edits
  BY DEF bounds
<1>7. HoldsWritten(r)'
  BY <1>2, <1>4, <1>6 DEF RunInv, HoldsWritten, Written
<1> QED
  BY <1>1, <1>3, <1>5, <1>7, QuietStep DEF RunInv

LEMMA SelfCheckKeeps ==
  ASSUME VaultInv, NEW r \in Runs, SelfCheck(r) PROVE VaultInv'
<1>1. UNCHANGED <<tree, sealed, certs, history, bounds>> /\ run[r].at = "check" /\ run[r].kind = "lock"
  BY DEF SelfCheck
<1>2. CASE Stop(r)
  BY <1>1, <1>2, StopKeeps
<1>3. CASE Opens(Container(r), run[r].secret) /\ Goto(r, "list")
  <2>1. run' = [run EXCEPT ![r].at = "list"]
    BY <1>3 DEF Goto
  <2>2. run[r] \in RunType /\ RunInv(r)
    BY DEF VaultInv, VaultTypeOK
  <2>3. /\ run'[r].at = "list" /\ run'[r].kind = "lock" /\ run'[r].tar = run[r].tar
        /\ run'[r].secret = run[r].secret /\ run'[r].out = run[r].out
        /\ run'[r].format = run[r].format
    BY <1>1, <2>1, <2>2 DEF VaultInv, VaultTypeOK, RunType
  <2>4. InStep(r)'
    BY <1>1, <2>2, <2>3 DEF RunInv, InStep
  <2>5. UNCHANGED <<disturbed, forfeited>> /\ Contents' = Contents
    BY <1>1 DEF history, Contents, Present
  <2>6. LockHolds(r)'
    <3>1. SUFFICES ASSUME r \notin disturbed PROVE LockHolds(r)'
      BY <2>5 DEF LockHolds
    <3>2. Contents \subseteq ToSet(run[r].tar)
      BY <1>1, <2>2, <3>1 DEF RunInv, LockHolds
    <3>3. CASE ToSet(run[r].tar) \subseteq forfeited
      BY <2>3, <2>5, <3>2, <3>3 DEF LockHolds
    <3>4. CASE Exists(LockFile) /\ SameSeal(sealed[LockFile], Container(r))
      <4>1. Opens(sealed[LockFile], run[r].secret)
        BY <1>3, <3>4, SameSealOpensAlike
      <4>2. sealed[LockFile].origin.tar = run[r].tar
        BY <3>4 DEF SameSeal, Container
      <4> QED
        BY <1>1, <2>3, <2>5, <3>2, <3>4, <4>1, <4>2 DEF LockHolds, Exists
    <3> QED
      BY <1>1, <2>2, <3>1, <3>3, <3>4 DEF RunInv, LockHolds
  <2> QED
    BY <1>1, <2>1, <2>4, <2>6, GoesOn DEF States
<1> QED
  BY <1>2, <1>3 DEF SelfCheck

LEMMA ListForBurnKeeps ==
  ASSUME VaultInv, NEW r \in Runs, ListForBurn(r) PROVE VaultInv'
<1>1. UNCHANGED <<tree, sealed, certs, history, bounds>> /\ run[r].at = "list"
  BY DEF ListForBurn
<1>2. CASE ~standing
  BY <1>1, <1>2, StopKeeps DEF ListForBurn
<1>3. CASE standing
  <2> DEFINE new == [run[r] EXCEPT !.at = "burn", !.todo = Present]
  <2>1. run' = [run EXCEPT ![r] = new]
    BY <1>3 DEF ListForBurn
  <2>2. run[r] \in RunType /\ RunInv(r) /\ run'[r] = new
    BY <2>1 DEF VaultInv, VaultTypeOK
  <2>3. Present \in SUBSET Paths
    BY DEF Present
  <2>4. new \in RunType
    BY <2>2, <2>3 DEF RunType, States
  <2>5. /\ new.at = "burn" /\ new.kind = run[r].kind /\ new.secret = run[r].secret
        /\ new.format = run[r].format /\ new.out = run[r].out /\ new.tar = run[r].tar
        /\ new.files = run[r].files
    BY <1>1, <2>2 DEF RunType
  <2> HIDE DEF new
  <2>6. InStep(r)' /\ Unlocking(r)' /\ ReadTwice(r)'
    BY <1>1, <2>2, <2>5 DEF RunInv, InStep, Unlocking, ReadTwice
  <2>7. UNCHANGED <<disturbed, forfeited, edits>> /\ Contents' = Contents
    BY <1>1 DEF history, bounds, Contents, Present
  <2>8. LockHolds(r)'
    BY <1>1, <2>2, <2>5, <2>7 DEF RunInv, LockHolds, Exists
  <2>9. HoldsWritten(r)'
    BY <2>2, <2>5, <2>7 DEF RunInv, HoldsWritten, Written
  <2> QED
    BY <1>1, <2>1, <2>4, <2>6, <2>8, <2>9, QuietStep DEF RunInv
<1> QED
  BY <1>2, <1>3

LEMMA OpenSealedKeeps ==
  ASSUME VaultInv, NEW r \in Runs, OpenSealed(r) PROVE VaultInv'
<1>1. UNCHANGED <<tree, sealed, certs, history, bounds>> /\ run[r].at = "open"
  BY DEF OpenSealed
<1> DEFINE f == run[r].out
<1>2. CASE ~Opens(sealed[f], run[r].secret)
  BY <1>1, <1>2, StopKeeps DEF OpenSealed
<1>3. CASE Opens(sealed[f], run[r].secret)
  <2> DEFINE new == [run[r] EXCEPT !.at = "extract", !.files = sealed[f].files,
                                   !.tar = Payload(sealed[f])]
  <2>1. run' = [run EXCEPT ![r] = new]
    BY <1>3 DEF OpenSealed
  <2>2. run[r] \in RunType /\ RunInv(r) /\ run'[r] = new /\ f \in Files
    BY <2>1 DEF VaultInv, VaultTypeOK, RunType
  <2>3. Exists(f) /\ IsContainer(sealed[f]) /\ SealedInv(f)
    BY <1>1, <2>2 DEF RunInv, Unlocking, VaultInv, VaultTypeOK
  <2>4. Payload(sealed[f]) = sealed[f].origin.tar
    BY <1>3, OpensIsArchive
  <2>5. /\ sealed[f].origin.tar \in Seq(Entry) /\ sealed[f].files \subseteq sealed[f].origin.files
        /\ sealed[f].origin.files \subseteq Entry
    BY <2>3 DEF IsContainer, Origins
  <2>6. new \in RunType
    BY <2>2, <2>4, <2>5 DEF RunType, States
  <2>7. /\ new.at = "extract" /\ new.kind = run[r].kind /\ new.secret = run[r].secret
        /\ new.format = run[r].format /\ new.out = f /\ new.tar = sealed[f].origin.tar
        /\ new.files = sealed[f].files
    BY <1>1, <2>2, <2>4 DEF RunType
  <2> HIDE DEF new
  <2>8. UNCHANGED <<touched, edits, sealed>>
    BY <1>1 DEF history, bounds
  <2>9. InStep(r)' /\ LockHolds(r)' /\ ReadTwice(r)'
    BY <1>1, <2>2, <2>7 DEF RunInv, InStep, LockHolds, ReadTwice
  <2>10. Unlocking(r)'
    BY <2>2, <2>3, <2>7, <2>8 DEF Unlocking, SealedInv, Exists
  <2>11. HoldsWritten(r)'
    BY <2>2, <2>3, <2>5, <2>7, <2>8 DEF SealedInv, HoldsWritten, Written
  <2> QED
    BY <1>1, <2>1, <2>6, <2>9, <2>10, <2>11, QuietStep DEF RunInv
<1> QED
  BY <1>2, <1>3

LEMMA ProveKeeps ==
  ASSUME VaultInv, NEW r \in Runs, Prove(r) PROVE VaultInv'
<1> DEFINE f == run[r].out
<1>1. /\ UNCHANGED <<tree, sealed, history, bounds>>
      /\ run' = [run EXCEPT ![r] = NoRun]
      /\ run[r].at = "check" /\ run[r].kind = "backup"
      /\ certs' = IF VerifyOk(f, run[r].secret) THEN certs \cup {<<f, sealed[f].files>>} ELSE certs
  BY DEF Prove, Stop
<1>2. UNCHANGED <<tree, sealed, destroyed, strays, forfeited, touched, past, disturbed, crossed, edits>>
  BY <1>1 DEF history, bounds
<1>3. run[r] \in RunType /\ RunInv(r) /\ run'[r] = NoRun /\ f \in Files
  BY <1>1 DEF VaultInv, VaultTypeOK, RunType
<1>4. RunInv(r)'
  BY <1>3, IdleInv
<1>5. run[r].secret \in Secrets
  BY <1>1, <1>3 DEF RunInv, InStep
<1>6. certs \subseteq Files \X SUBSET Entry
  BY DEF VaultInv, VaultTypeOK
<1>7. ASSUME VerifyOk(f, run[r].secret) PROVE sealed[f].files \in SUBSET Entry
  <2>1. IsContainer(sealed[f])
    BY <1>3, <1>7 DEF VerifyOk, VaultInv, VaultTypeOK
  <2> QED
    BY <2>1 DEF IsContainer, Origins
<1>8. certs' \subseteq Files \X SUBSET Entry
  BY <1>1, <1>3, <1>6, <1>7
<1>9. ASSUME NEW c \in certs', c[1] \notin touched'
      PROVE  (\E s \in Secrets : VerifyOk(c[1], s)') /\ sealed'[c[1]].files = c[2]
  <2>1. \A g, s : VerifyOk(g, s)' <=> VerifyOk(g, s)
    BY <1>2 DEF VerifyOk, Exists
  <2>2. CASE c \in certs
    BY <1>2, <1>9, <2>1, <2>2 DEF VaultInv, CertifiedBackupRestores
  <2>3. CASE c \notin certs
    BY <1>1, <1>2, <1>5, <2>1, <2>3
  <2> QED
    BY <2>2, <2>3
<1>10. CertifiedBackupRestores'
  BY <1>9 DEF CertifiedBackupRestores
<1> QED
  BY <1>1, <1>2, <1>4, <1>8, <1>10, CommandStep, NoRunType

LEMMA StoppingStepsKeep ==
  ASSUME VaultInv, NEW r \in Runs, RemoveDir(r) \/ CheckExtracted(r) \/ Dies(r) PROVE VaultInv'
<1>1. Stop(r) /\ UNCHANGED <<tree, sealed, certs, history, bounds>>
  BY DEF RemoveDir, CheckExtracted, Dies
<1> QED
  BY <1>1, StopKeeps

-----------------------------------------------------------------------------
(* The steps that write.                                                    *)

LEMMA NotMarked ==
  ASSUME NEW files, NEW tar, NEW r, NEW S, NEW o,
         o = [files |-> files, tar |-> tar, crossed |-> r \in S]
  PROVE  ~o.crossed => r \notin S
OBVIOUS

LEMMA WriteSealedKeeps ==
  ASSUME VaultInv, NEW r \in Runs, WriteSealed(r) PROVE VaultInv'
<1> DEFINE o == run[r].out
<1>1. /\ run[r].at = "archive" /\ run[r].todo = {}
      /\ sealed' = [sealed EXCEPT ![o] = Container(r)]
      /\ touched' = touched \cup Replaced(o)
      /\ forfeited' = forfeited \cup (Held(o) \ Contents)
      /\ disturbed' = IF run[r].kind = "lock" THEN disturbed \cup OtherLocks(r) ELSE disturbed
      /\ run' = [run EXCEPT ![r].at = "check"]
      /\ UNCHANGED <<tree, certs, destroyed, strays, past, crossed, edits>>
  BY DEF WriteSealed, Goto, bounds
<1>2. run[r] \in RunType /\ RunInv(r) /\ o \in Files /\ o \in DOMAIN sealed
  BY DEF VaultInv, VaultTypeOK, RunType
<1>3. Written' = Written /\ Present' = Present /\ Contents' = Contents
  BY <1>1 DEF Written, Present, Contents
<1>4. run[r].kind \in {"lock", "backup"} /\ run[r].format # "none"
  BY <1>1, <1>2 DEF RunInv, InStep
<1>5. /\ sealed'[o] = Container(r) /\ Exists(o)' /\ IsContainer(Container(r))
      /\ Container(r).origin = [files |-> run[r].files, tar |-> run[r].tar, crossed |-> r \in crossed]
      /\ Container(r).files = run[r].files
  BY <1>1, <1>2, <1>4, ContainerIsContainer DEF VaultInv, Exists
<1>6. \A f \in Files \ {o} : sealed'[f] = sealed[f]
  BY <1>1, <1>2
<1>7. \A f \in Files : Exists(f) => Exists(f)' /\ (sealed'[f] = sealed[f] \/ f \in touched')
  BY <1>1, <1>5, <1>6 DEF Replaced, Exists
<1>8. VaultTypeOK'
  <2>1. run' \in [Runs -> RunType]
    <3>1. [run[r] EXCEPT !.at = "check"] \in RunType
      BY <1>2 DEF RunType, States
    <3>2. run' = [run EXCEPT ![r] = [run[r] EXCEPT !.at = "check"]]
      BY <1>1
    <3> QED
      BY <3>1, <3>2 DEF VaultInv, VaultTypeOK
  <2>2. DOMAIN sealed' = Files
    BY <1>1 DEF VaultInv, VaultTypeOK
  <2>3. ASSUME NEW f \in Files, Exists(f)' PROVE IsContainer(sealed'[f])
    BY <1>5, <1>6, <2>3 DEF VaultInv, VaultTypeOK, Exists
  <2> QED
    BY <1>1, <2>1, <2>2, <2>3 DEF VaultInv, VaultTypeOK
<1>9. ASSUME NEW q \in Runs, q # r PROVE RunInv(q)'
  <2>1. RunInv(q) /\ run'[q] = run[q] /\ run[q] \in RunType
    BY <1>1, <1>9 DEF VaultInv, VaultTypeOK
  <2>2. InStep(q)'
    BY <2>1 DEF RunInv, InStep
  <2>3. ASSUME run[q].kind = "lock", q \notin disturbed'
        PROVE  q \notin disturbed /\ sealed'[LockFile] = sealed[LockFile]
    <3>1. q \in OtherLocks(r)
      BY <1>9, <2>3 DEF OtherLocks
    <3>2. run[r].kind = "backup" /\ q \notin disturbed
      BY <1>1, <1>4, <2>3, <3>1
    <3>3. o \in Backups
      BY <1>2, <3>2 DEF RunInv, InStep
    <3>4. o # LockFile /\ LockFile \in Files
      BY <3>3 DEF Backups, LockFile, Files
    <3> QED
      BY <1>6, <3>2, <3>4
  <2>4. LockHolds(q)'
    BY <1>1, <2>1, <2>3, LockFrame DEF RunInv
  <2>5. ReadTwice(q)'
    BY <1>1, <2>1, ReadTwiceFrame DEF RunInv, RunType
  <2>6. Unlocking(q)'
    <3>1. run[q].out \in Files /\ touched \subseteq touched'
      BY <1>1, <2>1 DEF RunType
    <3> QED
      BY <1>7, <2>1, <3>1, UnlockingFrame DEF RunInv
  <2>7. HoldsWritten(q)'
    BY <1>3, <2>1, HoldsFrame DEF RunInv
  <2> QED
    BY <2>2, <2>4, <2>5, <2>6, <2>7 DEF RunInv
<1>10. RunInv(r)'
  <2>1. /\ run'[r].at = "check" /\ run'[r].kind = run[r].kind /\ run'[r].tar = run[r].tar
        /\ run'[r].secret = run[r].secret /\ run'[r].out = o /\ run'[r].files = run[r].files
        /\ run'[r].format = run[r].format
    BY <1>1, <1>2 DEF VaultInv, VaultTypeOK, RunType
  <2>2. InStep(r)' /\ ReadTwice(r)' /\ Unlocking(r)' /\ HoldsWritten(r)'
    BY <1>1, <1>2, <1>3, <2>1 DEF RunInv, InStep, ReadTwice, Unlocking, HoldsWritten
  <2>3. LockHolds(r)'
    <3>1. SUFFICES ASSUME run[r].kind = "lock", r \notin disturbed' PROVE LockHolds(r)'
      BY <2>1 DEF LockHolds
    <3>2. r \notin disturbed /\ o = LockFile
      BY <1>1, <1>2, <3>1 DEF RunInv, InStep
    <3>3. \A p \in Present : <<p, tree[p]>> \in ToSet(run[r].tar)
      BY <1>1, <1>2, <3>1, <3>2 DEF RunInv, LockHolds
    <3>4. Contents \subseteq ToSet(run[r].tar)
      BY <3>3 DEF Contents
    <3>5. SameSeal(Container(r), Container(r)')
      BY <2>1 DEF SameSeal, Container
    <3> QED
      BY <1>3, <1>5, <2>1, <3>2, <3>4, <3>5 DEF LockHolds
  <2> QED
    BY <2>2, <2>3 DEF RunInv
<1>11. ASSUME NEW f \in Files PROVE SealedInv(f)'
  <2>1. CASE f # o
    BY <1>1, <1>3, <1>6, <2>1, SealedFrame DEF VaultInv
  <2>2. CASE f = o
    <3>1. /\ sealed'[f].origin.files = run[r].files /\ sealed'[f].origin.tar = run[r].tar
          /\ sealed'[f].files = run[r].files
      BY <1>5, <2>2
    <3>7. ~sealed'[f].origin.crossed => r \notin crossed
      <4>1. sealed'[f].origin = [files |-> run[r].files, tar |-> run[r].tar, crossed |-> r \in crossed]
        BY <1>5, <2>2
      <4> QED
        BY <4>1, NotMarked
    <3>2. run[r].files \subseteq Written' /\ ToSet(run[r].tar) \subseteq Written'
      BY <1>2, <1>3 DEF RunInv, HoldsWritten
    <3>3. ASSUME r \notin crossed, ToSet(run[r].tar) \subseteq run[r].files
          PROVE  ToSet(run[r].tar) \in past
      <4>1. PICK S \in past : Agrees(S, run[r].todo, ToSet(run[r].tar), run[r].files, tree)
        BY <1>1, <1>2, <3>3 DEF RunInv, ReadTwice
      <4>2. PathsOf(S) = PathsOf(ToSet(run[r].tar)) /\ ToSet(run[r].tar) \subseteq S
        BY <1>1, <3>3, <4>1 DEF Agrees
      <4>3. OneVersionEach(S)
        BY <4>1 DEF VaultInv, PastInv
      <4>4. ASSUME NEW x \in S PROVE x \in ToSet(run[r].tar)
        <5>1. x[1] \in PathsOf(S)
          BY DEF PathsOf
        <5>2. PICK y \in ToSet(run[r].tar) : y[1] = x[1]
          BY <4>2, <5>1 DEF PathsOf
        <5> QED
          BY <4>2, <4>3, <5>2 DEF OneVersionEach
      <4>5. S = ToSet(run[r].tar)
        BY <4>2, <4>4
      <4> QED
        BY <4>1, <4>5
    <3>4. ~sealed'[f].origin.crossed /\ ToSet(sealed'[f].origin.tar) \subseteq sealed'[f].origin.files
            => ToSet(sealed'[f].origin.tar) \in past'
      BY <1>1, <3>1, <3>3, <3>7
    <3>5. f \notin touched' => sealed'[f].files = sealed'[f].origin.files
      BY <3>1
    <3>6. sealed'[f].origin.files \subseteq Written' /\ ToSet(sealed'[f].origin.tar) \subseteq Written'
      BY <3>1, <3>2
    <3> QED
      BY <3>4, <3>5, <3>6 DEF SealedInv
  <2> QED
    BY <2>1, <2>2
<1>12. PastInv'
  BY <1>1, <1>3 DEF VaultInv, PastInv
<1>13. LockedIsRecoverable'
  <2>1. ASSUME NEW e \in destroyed' \ (strays' \cup forfeited') PROVE e \in Contents' \/ Stored(sealed', e)
    <3>1. e \in Contents \/ Stored(sealed, e)
      BY <1>1, <2>1, SafeNow DEF VaultInv
    <3>2. ASSUME e \notin Contents PROVE Stored(sealed', e)
      <4>1. PICK f \in Files, s \in Secrets :
              sealed[f] # NoFile /\ Opens(sealed[f], s) /\ e \in ToSet(sealed[f].origin.tar)
        BY <3>1, <3>2 DEF Stored
      <4>2. f # o
        BY <1>1, <2>1, <3>2, <4>1 DEF Held, Exists
      <4> QED
        BY <1>6, <4>1, <4>2 DEF Stored
    <3> QED
      BY <1>3, <3>1, <3>2
  <2> QED
    BY <2>1, SafeNext
<1>14. CertifiedBackupRestores'
  BY <1>1, <1>7, CertsFrame DEF VaultInv, VaultTypeOK
<1> QED
  BY <1>8, <1>9, <1>10, <1>11, <1>12, <1>13, <1>14 DEF VaultInv

\* Damage changes no record of what went in, and only takes entries from the file list.
LEMMA DamagedIsContainer ==
  ASSUME NEW c, IsContainer(c), NEW d \in Damaged(c)
  PROVE  IsContainer(d) /\ d.origin = c.origin /\ d # NoFile
<1>1. c = [format |-> c.format, secret |-> c.secret, files |-> c.files, count |-> c.count,
           body |-> c.body, origin |-> c.origin]
  BY DEF IsContainer
<1>2. CASE \E b : d = [c EXCEPT !.body = b]
  <2>1. PICK b : d = [c EXCEPT !.body = b]
    BY <1>2
  <2>2. d = [format |-> c.format, secret |-> c.secret, files |-> c.files, count |-> c.count,
             body |-> b, origin |-> c.origin]
    BY <1>1, <2>1
  <2> QED
    BY <2>2 DEF IsContainer, NoFile
<1>3. CASE \E e \in c.files : d = [c EXCEPT !.files = @ \ {e}]
  <2>1. PICK e \in c.files : d = [c EXCEPT !.files = @ \ {e}]
    BY <1>3
  <2>2. d = [format |-> c.format, secret |-> c.secret, files |-> c.files \ {e}, count |-> c.count,
             body |-> c.body, origin |-> c.origin]
    BY <1>1, <2>1
  <2> QED
    BY <2>2 DEF IsContainer, NoFile
<1>4. (\E b : d = [c EXCEPT !.body = b]) \/ (\E e \in c.files : d = [c EXCEPT !.files = @ \ {e}])
  BY DEF Damaged
<1> QED
  BY <1>2, <1>3, <1>4

LEMMA DamageKeeps ==
  ASSUME VaultInv, NEW f \in Files, Damage(f) PROVE VaultInv'
<1>1. PICK c \in Damaged(sealed[f]) : sealed' = [sealed EXCEPT ![f] = c]
  BY DEF Damage
<1>2. /\ Exists(f) /\ touched' = touched \cup {f} /\ forfeited' = forfeited \cup Held(f)
      /\ UNCHANGED <<tree, run, certs, destroyed, strays, past, disturbed, crossed, edits>>
  BY DEF Damage
<1>3. IsContainer(sealed[f]) /\ SealedInv(f)
  BY <1>2 DEF VaultInv, VaultTypeOK
<1>4. IsContainer(c) /\ c.origin = sealed[f].origin /\ c # NoFile
  BY <1>3, DamagedIsContainer
<1>5. sealed'[f] = c /\ Exists(f)' /\ \A g \in Files \ {f} : sealed'[g] = sealed[g]
  BY <1>1, <1>4 DEF VaultInv, VaultTypeOK, Exists
<1>6. Written' = Written /\ Contents' = Contents
  BY <1>2 DEF Written, Contents, Present
<1>7. \A g \in Files : Exists(g) => Exists(g)' /\ (sealed'[g] = sealed[g] \/ g \in touched')
  BY <1>2, <1>5 DEF Exists
<1>8. VaultTypeOK'
  <2>1. DOMAIN sealed' = Files
    BY <1>1 DEF VaultInv, VaultTypeOK
  <2>2. ASSUME NEW g \in Files, Exists(g)' PROVE IsContainer(sealed'[g])
    BY <1>4, <1>5, <2>2 DEF VaultInv, VaultTypeOK, Exists
  <2> QED
    BY <1>2, <2>1, <2>2 DEF VaultInv, VaultTypeOK
<1>9. ASSUME NEW q \in Runs PROVE RunInv(q)'
  <2>1. RunInv(q) /\ run'[q] = run[q] /\ run[q] \in RunType
    BY <1>2 DEF VaultInv, VaultTypeOK
  <2>2. InStep(q)'
    BY <2>1 DEF RunInv, InStep
  <2>3. \/ sealed'[LockFile] = sealed[LockFile]
        \/ Exists(LockFile) => ToSet(sealed[LockFile].origin.tar) \subseteq forfeited'
    <3>1. LockFile \in Files
      BY DEF Files
    <3> QED
      BY <1>2, <1>5, <3>1 DEF Held
  <2>4. LockHolds(q)'
    BY <1>2, <2>1, <2>3, LockFrame DEF RunInv
  <2>5. ReadTwice(q)'
    BY <1>2, <2>1, ReadTwiceFrame DEF RunInv, RunType
  <2>6. Unlocking(q)'
    <3>1. run[q].out \in Files /\ touched \subseteq touched'
      BY <1>2, <2>1 DEF RunType
    <3> QED
      BY <1>7, <2>1, <3>1, UnlockingFrame DEF RunInv
  <2>7. HoldsWritten(q)'
    BY <1>6, <2>1, HoldsFrame DEF RunInv
  <2> QED
    BY <2>2, <2>4, <2>5, <2>6, <2>7 DEF RunInv
<1>10. ASSUME NEW g \in Files PROVE SealedInv(g)'
  <2>1. CASE g # f
    BY <1>2, <1>5, <1>6, <2>1, SealedFrame DEF VaultInv
  <2>2. CASE g = f
    BY <1>2, <1>3, <1>4, <1>5, <1>6, <2>2 DEF SealedInv
  <2> QED
    BY <2>1, <2>2
<1>11. PastInv'
  BY <1>2, <1>6 DEF VaultInv, PastInv
<1>12. LockedIsRecoverable'
  <2>1. ASSUME NEW e \in destroyed' \ (strays' \cup forfeited') PROVE e \in Contents' \/ Stored(sealed', e)
    <3>1. e \in Contents \/ Stored(sealed, e)
      BY <1>2, <2>1, SafeNow DEF VaultInv
    <3>2. ASSUME Stored(sealed, e) PROVE Stored(sealed', e)
      <4>1. PICK g \in Files, s \in Secrets :
              sealed[g] # NoFile /\ Opens(sealed[g], s) /\ e \in ToSet(sealed[g].origin.tar)
        BY <3>2 DEF Stored
      <4>2. g # f
        BY <1>2, <2>1, <4>1 DEF Held
      <4> QED
        BY <1>5, <4>1, <4>2 DEF Stored
    <3> QED
      BY <1>6, <3>1, <3>2
  <2> QED
    BY <2>1, SafeNext
<1>13. CertifiedBackupRestores'
  BY <1>2, <1>7, CertsFrame DEF VaultInv, VaultTypeOK
<1> QED
  BY <1>8, <1>9, <1>10, <1>11, <1>12, <1>13 DEF VaultInv

\* A step that writes the directory: what it leaves is new or was written before.
LEMMA TreeStep ==
  ASSUME VaultInv, tree' \in [Paths -> Versions \cup {Missing}], edits' \in 0..MaxEdits,
         edits <= edits', past' = past \cup {Contents'},
         \A p \in Paths : tree'[p] # Missing => tree'[p] <= NumPaths + edits',
         UNCHANGED <<sealed, touched, certs>>
  PROVE  /\ Written \subseteq Written' /\ past \subseteq past' /\ Contents' \subseteq Written'
         /\ PastInv'
         /\ \A f \in Files : SealedInv(f)'
         /\ CertifiedBackupRestores'
<1>1. edits \in Nat /\ edits' \in Nat
  BY DEF VaultInv, VaultTypeOK
<1>2. Written \subseteq Written'
  <2>1. \A e \in Entry : e[2] \in Nat
    BY DEF Entry, Versions
  <2> QED
    BY <1>1, <2>1 DEF Written
<1>3. Contents' \subseteq Entry
  BY DEF Contents, Present, Entry
<1>4. Contents' \subseteq Written'
  BY <1>3 DEF Contents, Present, Written
<1>5. OneVersionEach(Contents')
  BY DEF OneVersionEach, Contents
<1>6. PastInv'
  <2>1. \A S \in past' : OneVersionEach(S) /\ S \subseteq Entry
    BY <1>3, <1>5 DEF VaultInv, PastInv
  <2> QED
    BY <1>4, <2>1 DEF PastInv
<1>7. \A f \in Files : SealedInv(f)'
  BY <1>2, SealedFrame DEF VaultInv
<1>8. CertifiedBackupRestores'
  BY CertsFrame DEF VaultInv, VaultTypeOK
<1> QED
  BY <1>2, <1>4, <1>6, <1>7, <1>8

LEMMA BurnFileKeeps ==
  ASSUME VaultInv, NEW r \in Runs, BurnFile(r) PROVE VaultInv'
<1> DEFINE p == Here(r)
<1> DEFINE b == <<p, tree[p]>>
<1>1. CASE tree[p] = Missing
  <2>1. Stop(r) /\ UNCHANGED <<tree, sealed, certs, history, bounds>>
    BY <1>1 DEF BurnFile, history
  <2> QED
    BY <2>1, StopKeeps
<1>2. CASE tree[p] # Missing
  <2>1. /\ run[r].at = "burn" /\ run[r].todo # {}
        /\ destroyed' = destroyed \cup {b}
        /\ strays' = IF r \in disturbed THEN strays \cup {b} ELSE strays
        /\ tree' = [tree EXCEPT ![p] = Missing]
        /\ past' = past \cup {Contents'}
        /\ run' = [run EXCEPT ![r].todo = @ \ {p}]
        /\ disturbed' = disturbed \cup OtherLocks(r)
        /\ UNCHANGED <<sealed, certs, forfeited, touched, crossed, edits>>
    BY <1>2 DEF BurnFile, bounds
  <2>2. /\ b \in Contents /\ p \in Paths /\ p \in run[r].todo
    BY <1>2, <2>1, HereIsPath
  <2>3. run[r] \in RunType /\ RunInv(r) /\ VaultTypeOK
    BY DEF VaultInv, VaultTypeOK
  <2>4. tree' \in [Paths -> Versions \cup {Missing}]
    BY <2>1, <2>3 DEF VaultTypeOK
  <2>5. \A q \in Paths : tree'[q] = tree[q] \/ tree'[q] = Missing
    BY <2>1, <2>3 DEF VaultTypeOK
  <2>6. Contents' = Contents \ {b}
    <3>1. tree'[p] = Missing /\ \A q \in Paths \ {p} : tree'[q] = tree[q]
      BY <2>1, <2>2, <2>3 DEF VaultTypeOK
    <3>2. Present' = Present \ {p}
      BY <3>1, <2>2 DEF Present
    <3> QED
      BY <3>1, <3>2, <2>2 DEF Contents, Present
  <2>7. \A q \in Paths : tree'[q] # Missing => tree'[q] <= NumPaths + edits'
    <3>1. ASSUME NEW q \in Paths, tree'[q] # Missing PROVE tree'[q] <= NumPaths + edits'
      <4>1. <<q, tree[q]>> \in Contents /\ tree'[q] = tree[q]
        BY <2>5, <3>1 DEF Contents, Present
      <4> QED
        BY <2>1, <4>1 DEF VaultInv, PastInv, Written
    <3> QED
      BY <3>1
  <2>8. /\ Written \subseteq Written' /\ past \subseteq past' /\ PastInv'
        /\ (\A f \in Files : SealedInv(f)') /\ CertifiedBackupRestores'
    BY <2>1, <2>3, <2>4, <2>7, TreeStep DEF VaultTypeOK
  <2>9. VaultTypeOK'
    <3>1. [run[r] EXCEPT !.todo = @ \ {p}] \in RunType
      BY <2>3 DEF RunType
    <3>2. run' = [run EXCEPT ![r] = [run[r] EXCEPT !.todo = @ \ {p}]]
      BY <2>1
    <3>3. run' \in [Runs -> RunType]
      BY <2>3, <3>1, <3>2 DEF VaultTypeOK
    <3> QED
      BY <2>1, <2>3, <2>4, <3>3 DEF VaultTypeOK, Exists
  <2>10. ASSUME NEW q \in Runs, q # r PROVE RunInv(q)'
    <3>1. RunInv(q) /\ run'[q] = run[q] /\ run[q] \in RunType
      BY <2>1, <2>10 DEF VaultInv, VaultTypeOK
    <3>2. InStep(q)'
      BY <3>1 DEF RunInv, InStep
    <3>3. run[q].kind = "lock" => q \in disturbed'
      BY <2>1, <2>10 DEF OtherLocks
    <3>4. LockHolds(q)'
      BY <3>1, <3>3, LockFrame DEF RunInv
    <3>5. \A x \in Paths : tree'[x] = tree[x] \/ <<x, tree'[x]>> \notin run[q].files
      <4>1. \A x : <<x, Missing>> \notin Entry
        BY DEF Entry, Versions, Missing
      <4> QED
        BY <2>5, <3>1, <4>1 DEF RunType
    <3>6. ReadTwice(q)'
      BY <2>1, <2>8, <3>1, <3>5, ReadTwiceFrame DEF RunInv, RunType
    <3>7. Unlocking(q)'
      BY <2>1, <3>1, UnlockingFrame DEF RunInv, Exists
    <3>8. HoldsWritten(q)'
      BY <2>8, <3>1, HoldsFrame DEF RunInv
    <3> QED
      BY <3>2, <3>4, <3>6, <3>7, <3>8 DEF RunInv
  <2>11. RunInv(r)'
    <3>1. /\ run'[r].at = "burn" /\ run'[r].kind = run[r].kind /\ run'[r].tar = run[r].tar
          /\ run'[r].secret = run[r].secret /\ run'[r].out = run[r].out /\ run'[r].files = run[r].files
          /\ run'[r].format = run[r].format
      BY <2>1, <2>3 DEF VaultTypeOK, RunType
    <3>2. InStep(r)' /\ ReadTwice(r)' /\ Unlocking(r)'
      BY <2>1, <2>3, <3>1 DEF RunInv, InStep, ReadTwice, Unlocking
    <3>3. HoldsWritten(r)'
      BY <2>3, <2>8, <3>1 DEF RunInv, HoldsWritten
    <3>4. LockHolds(r)'
      BY <2>1, <2>3, <2>6, <3>1 DEF RunInv, LockHolds, Exists
    <3> QED
      BY <3>2, <3>3, <3>4 DEF RunInv
  <2>12. LockedIsRecoverable'
    <3>1. ASSUME NEW e \in destroyed' \ (strays' \cup forfeited')
          PROVE  e \in Contents' \/ Stored(sealed', e)
      <4>1. CASE e = b
        <5>1. r \notin disturbed /\ run[r].kind = "lock" /\ b \notin forfeited
          BY <2>1, <2>3, <3>1, <4>1 DEF RunInv, InStep
        <5>2. b \in ToSet(run[r].tar)
          BY <2>1, <2>2, <2>3, <5>1 DEF RunInv, LockHolds
        <5>3. /\ Exists(LockFile) /\ sealed[LockFile].origin.tar = run[r].tar
              /\ Opens(sealed[LockFile], run[r].secret) /\ run[r].secret \in Secrets
              /\ LockFile \in Files
          BY <2>1, <2>3, <5>1, <5>2 DEF RunInv, LockHolds, InStep, Files
        <5> QED
          BY <2>1, <4>1, <5>2, <5>3 DEF Stored, Exists
      <4>2. CASE e # b
        <5>1. e \in Contents \/ Stored(sealed, e)
          BY <2>1, <3>1, <4>2, SafeNow DEF VaultInv
        <5> QED
          BY <2>1, <2>6, <4>2, <5>1
      <4> QED
        BY <4>1, <4>2
    <3> QED
      BY <3>1, SafeNext
  <2> QED
    BY <2>8, <2>9, <2>10, <2>11, <2>12 DEF VaultInv
<1> QED
  BY <1>1, <1>2

LEMMA ExtractKeeps ==
  ASSUME VaultInv, NEW r \in Runs, Extract(r) PROVE VaultInv'
<1> DEFINE m == Head(run[r].tar)
<1>1. /\ run[r].at = "extract" /\ run[r].tar # << >>
      /\ tree' = [tree EXCEPT ![m[1]] = m[2]]
      /\ forfeited' = IF tree[m[1]] = Missing THEN forfeited
                      ELSE forfeited \cup {<<m[1], tree[m[1]]>>}
      /\ past' = past \cup {Contents'}
      /\ run' = [run EXCEPT ![r].tar = Tail(@)]
      /\ disturbed' = disturbed \cup OtherLocks(r)
      /\ crossed' = Runs
      /\ UNCHANGED <<sealed, certs, destroyed, strays, touched, edits>>
  BY DEF Extract, bounds
<1>2. run[r] \in RunType /\ RunInv(r) /\ VaultTypeOK
  BY DEF VaultInv, VaultTypeOK
<1>3. run[r].tar \in Seq(Entry)
  BY <1>2 DEF RunType
<1>4. Tail(run[r].tar) \in Seq(Entry) /\ ToSet(Tail(run[r].tar)) \subseteq ToSet(run[r].tar)
      /\ m \in ToSet(run[r].tar)
  BY <1>1, <1>3, SetOfTail
<1>5. m \in Written
  BY <1>2, <1>4 DEF RunInv, HoldsWritten
<1>6. m[1] \in Paths /\ m[2] \in Versions /\ m[2] <= NumPaths + edits
  BY <1>5 DEF Written, Entry
<1> HIDE DEF m
<1>7. tree' \in [Paths -> Versions \cup {Missing}]
  BY <1>1, <1>2, <1>6 DEF VaultTypeOK
<1>8. tree'[m[1]] = m[2] /\ \A q \in Paths \ {m[1]} : tree'[q] = tree[q]
  BY <1>1, <1>2, <1>6 DEF VaultTypeOK
<1>9. \A q \in Paths : tree'[q] # Missing => tree'[q] <= NumPaths + edits'
  <2>1. ASSUME NEW q \in Paths, q # m[1], tree'[q] # Missing PROVE tree'[q] <= NumPaths + edits'
    <3>1. <<q, tree[q]>> \in Contents /\ tree'[q] = tree[q]
      BY <1>8, <2>1 DEF Contents, Present
    <3> QED
      BY <1>1, <3>1 DEF VaultInv, PastInv, Written
  <2> QED
    BY <1>1, <1>6, <1>8, <2>1
<1>10. /\ Written \subseteq Written' /\ past \subseteq past' /\ PastInv'
       /\ (\A f \in Files : SealedInv(f)') /\ CertifiedBackupRestores'
  BY <1>1, <1>2, <1>7, <1>9, TreeStep DEF VaultTypeOK
<1>11. VaultTypeOK'
  <2>1. [run[r] EXCEPT !.tar = Tail(@)] \in RunType
    BY <1>2, <1>4 DEF RunType
  <2>2. run' = [run EXCEPT ![r] = [run[r] EXCEPT !.tar = Tail(@)]]
    BY <1>1
  <2>3. run' \in [Runs -> RunType]
    BY <1>2, <2>1, <2>2 DEF VaultTypeOK
  <2> QED
    BY <1>1, <1>2, <1>7, <2>3 DEF VaultTypeOK, Exists
<1>12. ASSUME NEW q \in Runs, q # r PROVE RunInv(q)'
  <2>1. RunInv(q) /\ run'[q] = run[q] /\ run[q] \in RunType
    BY <1>1, <1>12 DEF VaultInv, VaultTypeOK
  <2>2. InStep(q)'
    BY <2>1 DEF RunInv, InStep
  <2>3. run[q].kind = "lock" => q \in disturbed'
    BY <1>1, <1>12 DEF OtherLocks
  <2>4. LockHolds(q)'
    BY <2>1, <2>3, LockFrame DEF RunInv
  <2>5. ReadTwice(q)'
    BY <1>1 DEF ReadTwice
  <2>6. Unlocking(q)'
    BY <1>1, <2>1, UnlockingFrame DEF RunInv, Exists
  <2>7. HoldsWritten(q)'
    BY <1>10, <2>1, HoldsFrame DEF RunInv
  <2> QED
    BY <2>2, <2>4, <2>5, <2>6, <2>7 DEF RunInv
<1>13. RunInv(r)'
  <2>1. /\ run'[r].at = "extract" /\ run'[r].kind = run[r].kind /\ run'[r].tar = Tail(run[r].tar)
        /\ run'[r].secret = run[r].secret /\ run'[r].out = run[r].out /\ run'[r].files = run[r].files
        /\ run'[r].format = run[r].format
    BY <1>1, <1>2 DEF VaultTypeOK, RunType
  <2>2. InStep(r)' /\ LockHolds(r)' /\ ReadTwice(r)' /\ Unlocking(r)'
    BY <1>1, <1>2, <2>1 DEF RunInv, InStep, LockHolds, ReadTwice, Unlocking, Exists
  <2>3. HoldsWritten(r)'
    BY <1>2, <1>4, <1>10, <2>1 DEF RunInv, HoldsWritten
  <2> QED
    BY <2>2, <2>3 DEF RunInv
<1>14. LockedIsRecoverable'
  <2>1. ASSUME NEW e \in destroyed' \ (strays' \cup forfeited')
        PROVE  e \in Contents' \/ Stored(sealed', e)
    <3>1. e \in Contents \/ Stored(sealed, e)
      BY <1>1, <2>1, SafeNow DEF VaultInv
    <3>2. ASSUME e \in Contents PROVE e \in Contents'
      <4>1. PICK q \in Present : e = <<q, tree[q]>>
        BY <3>2 DEF Contents
      <4>2. q \in Paths /\ tree[q] # Missing
        BY DEF Present
      <4>3. q # m[1]
        BY <1>1, <2>1, <4>1, <4>2
      <4>4. tree'[q] = tree[q] /\ q \in Present'
        BY <1>8, <4>2, <4>3 DEF Present
      <4> QED
        BY <4>1, <4>4 DEF Contents
    <3> QED
      BY <1>1, <3>1, <3>2
  <2> QED
    BY <2>1, SafeNext
<1> QED
  BY <1>10, <1>11, <1>12, <1>13, <1>14 DEF VaultInv

LEMMA EditKeeps ==
  ASSUME VaultInv, NEW p \in Paths, Edit(p) PROVE VaultInv'
<1>1. PICK v \in {NumPaths + edits + 1, Missing} : tree' = [tree EXCEPT ![p] = v]
  BY DEF Edit
<1>2. /\ edits < MaxEdits /\ edits' = edits + 1
      /\ past' = past \cup {Contents'}
      /\ forfeited' = forfeited \cup ({<<p, tree[p]>>} \cap Contents)
      /\ disturbed' = disturbed \cup {r \in Runs : run[r].kind = "lock"}
      /\ UNCHANGED <<sealed, run, certs, destroyed, strays, touched, crossed>>
  BY DEF Edit
<1>3. VaultTypeOK /\ edits \in 0..MaxEdits /\ edits \in Nat
  BY DEF VaultInv, VaultTypeOK
<1>4. v \in Versions \cup {Missing} /\ (v # Missing => v = NumPaths + edits + 1)
  BY <1>2, <1>3 DEF Versions
<1>5. tree' \in [Paths -> Versions \cup {Missing}]
  BY <1>1, <1>3, <1>4 DEF VaultTypeOK
<1>6. tree'[p] = v /\ \A q \in Paths \ {p} : tree'[q] = tree[q]
  BY <1>1, <1>3 DEF VaultTypeOK
<1>7. edits' \in 0..MaxEdits /\ edits <= edits' /\ edits' \in Nat
  BY <1>2, <1>3
<1>8. \A q \in Paths : tree'[q] # Missing => tree'[q] <= NumPaths + edits'
  <2>1. ASSUME NEW q \in Paths, q # p, tree'[q] # Missing PROVE tree'[q] <= NumPaths + edits'
    <3>1. <<q, tree[q]>> \in Contents /\ tree'[q] = tree[q]
      BY <1>6, <2>1 DEF Contents, Present
    <3>2. tree[q] <= NumPaths + edits /\ tree[q] \in Nat
      BY <3>1 DEF VaultInv, PastInv, Written, Entry, Versions
    <3> QED
      BY <1>2, <1>3, <3>1, <3>2
  <2>2. v # Missing => v <= NumPaths + edits'
    BY <1>2, <1>3, <1>4
  <2> QED
    BY <1>6, <2>1, <2>2
<1>9. /\ Written \subseteq Written' /\ past \subseteq past' /\ PastInv'
      /\ (\A f \in Files : SealedInv(f)') /\ CertifiedBackupRestores'
  BY <1>2, <1>3, <1>5, <1>7, <1>8, TreeStep
<1>10. VaultTypeOK'
  BY <1>2, <1>3, <1>5, <1>7 DEF VaultTypeOK, Exists
<1>11. ASSUME NEW q \in Runs PROVE RunInv(q)'
  <2>1. RunInv(q) /\ run'[q] = run[q] /\ run[q] \in RunType
    BY <1>2 DEF VaultInv, VaultTypeOK
  <2>2. InStep(q)'
    BY <2>1 DEF RunInv, InStep
  <2>3. run[q].kind = "lock" => q \in disturbed'
    BY <1>2
  <2>4. LockHolds(q)'
    BY <2>1, <2>3, LockFrame DEF RunInv
  <2>5. \A x \in Paths : tree'[x] = tree[x] \/ <<x, tree'[x]>> \notin run[q].files
    <3>1. <<p, v>> \notin Written
      BY <1>3, <1>4 DEF Written, Entry, Versions, Missing
    <3>2. run[q].files \subseteq Written
      BY <2>1 DEF RunInv, HoldsWritten
    <3> QED
      BY <1>6, <3>1, <3>2
  <2>6. ReadTwice(q)'
    BY <1>2, <1>9, <2>1, <2>5, ReadTwiceFrame DEF RunInv, RunType
  <2>7. Unlocking(q)'
    BY <1>2, <2>1, UnlockingFrame DEF RunInv, Exists
  <2>8. HoldsWritten(q)'
    BY <1>9, <2>1, HoldsFrame DEF RunInv
  <2> QED
    BY <2>2, <2>4, <2>6, <2>7, <2>8 DEF RunInv
<1>12. LockedIsRecoverable'
  <2>1. ASSUME NEW e \in destroyed' \ (strays' \cup forfeited')
        PROVE  e \in Contents' \/ Stored(sealed', e)
    <3>1. e \in Contents \/ Stored(sealed, e)
      BY <1>2, <2>1, SafeNow DEF VaultInv
    <3>2. ASSUME e \in Contents PROVE e \in Contents'
      <4>1. PICK q \in Present : e = <<q, tree[q]>>
        BY <3>2 DEF Contents
      <4>2. q \in Paths /\ tree[q] # Missing
        BY DEF Present
      <4>3. q # p
        BY <1>2, <2>1, <3>2, <4>1
      <4>4. tree'[q] = tree[q] /\ q \in Present'
        BY <1>6, <4>2, <4>3 DEF Present
      <4> QED
        BY <4>1, <4>4 DEF Contents
    <3> QED
      BY <1>2, <3>1, <3>2
  <2> QED
    BY <2>1, SafeNext
<1> QED
  BY <1>9, <1>10, <1>11, <1>12 DEF VaultInv

-----------------------------------------------------------------------------
(* The theorems.                                                            *)

LEMMA VaultInitHolds == VaultInit => VaultInv
<1> SUFFICES ASSUME VaultInit PROVE VaultInv
  OBVIOUS
<1>1. \A f \in Files : ~Exists(f)
  BY DEF VaultInit, Exists
<1>2. tree \in [Paths -> Versions \cup {Missing}] /\ \A p \in Paths : tree[p] = p
  BY DEF VaultInit, Versions, Paths
<1>3. run \in [Runs -> RunType]
  BY NoRunType DEF VaultInit
<1>4. edits = 0 /\ edits \in 0..MaxEdits
  BY DEF VaultInit
<1>5. VaultTypeOK
  BY <1>1, <1>2, <1>3, <1>4 DEF VaultInit, VaultTypeOK
<1>6. ASSUME NEW r \in Runs PROVE RunInv(r)
  <2>1. run[r] = NoRun
    BY DEF VaultInit
  <2>2. /\ run[r].at = "idle" /\ run[r].kind = "none" /\ run[r].files = {}
        /\ run[r].tar = << >> /\ ToSet(run[r].tar) = {}
    BY <2>1, EmptySet DEF NoRun
  <2> QED
    BY <2>2 DEF RunInv, InStep, LockHolds, ReadTwice, Unlocking, HoldsWritten
<1>7. Contents = {<<p, p>> : p \in Paths}
  BY <1>2 DEF Contents, Present, Paths, Missing
<1>8. {<<p, p>> : p \in Paths} \subseteq Written
  BY <1>4 DEF Written, Entry, Versions, Paths
<1>9. OneVersionEach({<<p, p>> : p \in Paths})
  BY DEF OneVersionEach
<1>10. PastInv
  BY <1>7, <1>8, <1>9 DEF VaultInit, PastInv, Written
<1> QED
  BY <1>1, <1>5, <1>6, <1>10
     DEF VaultInit, VaultInv, SealedInv, LockedIsRecoverable, CertifiedBackupRestores

LEMMA NextKeeps == VaultInv /\ [VaultNext]_vaultVars => VaultInv'
<1> SUFFICES ASSUME VaultInv, [VaultNext]_vaultVars PROVE VaultInv'
  OBVIOUS
<1>1. CASE UNCHANGED vaultVars
  <2>1. /\ UNCHANGED <<tree, sealed, run, certs, destroyed, strays, forfeited, touched, past, disturbed,
                       crossed, edits>>
    BY <1>1 DEF vaultVars
  <2>2. \A q \in Runs : RunInv(q)'
    BY <2>1 DEF VaultInv, RunInv, InStep, LockHolds, ReadTwice, Unlocking, HoldsWritten, Exists, SameSeal,
               Container, Present, Contents, Written
  <2>3. \A f \in Files : SealedInv(f)'
    BY <2>1 DEF VaultInv, SealedInv, Exists, Written
  <2>4. VaultTypeOK' /\ PastInv' /\ CertifiedBackupRestores' /\ LockedIsRecoverable'
    BY <2>1 DEF VaultInv, VaultTypeOK, PastInv, CertifiedBackupRestores, LockedIsRecoverable, Recoverable,
               Openable, Exists, VerifyOk, Contents, Present, Written
  <2> QED
    BY <2>2, <2>3, <2>4 DEF VaultInv
<1>2. CASE \E r \in Runs, secret \in Secrets :
             Lock(r, secret) \/ \E format \in {"vault", "chunks"} : Backup(r, format, secret)
  BY <1>2, LockKeeps, BackupKeeps
<1>3. CASE \E r \in Runs, f \in Files, secret \in Secrets \cup {WrongSecret} : Unlock(r, f, secret)
  BY <1>3, UnlockKeeps
<1>4. CASE \E r \in Runs : Scan(r) \/ ListAgain(r) \/ Archive(r) \/ WriteSealed(r) \/ Prove(r)
  BY <1>4, ScanKeeps, ListAgainKeeps, ArchiveKeeps, WriteSealedKeeps, ProveKeeps
<1>5. CASE \E r \in Runs : SelfCheck(r) \/ ListForBurn(r) \/ BurnFile(r) \/ RemoveDir(r)
  BY <1>5, SelfCheckKeeps, ListForBurnKeeps, BurnFileKeeps, StoppingStepsKeep
<1>6. CASE \E r \in Runs : OpenSealed(r) \/ Extract(r) \/ CheckExtracted(r) \/ Dies(r)
  BY <1>6, OpenSealedKeeps, ExtractKeeps, StoppingStepsKeep
<1>7. CASE (\E p \in Paths : Edit(p)) \/ (\E f \in Files : Damage(f))
  BY <1>7, EditKeeps, DamageKeeps
<1> QED
  BY <1>1, <1>2, <1>3, <1>4, <1>5, <1>6, <1>7 DEF VaultNext

\* What the model keeps of every command, file and version, and that the directory holds
\* whole files only.
THEOREM VaultInvariant == VaultSpec => []VaultInv
BY VaultInitHolds, NextKeeps, PTL DEF VaultSpec

\* A lock never destroys what it has not sealed, for any number of commands, paths, edits and
\* damages: the version is in the directory or in a file that opens, unless the lock was
\* disturbed or the version was given up since (vault_lock.py vault_lock).
THEOREM LockingLosesNothing == VaultSpec => []LockedIsRecoverable
<1>1. VaultInv => LockedIsRecoverable
  BY DEF VaultInv
<1> QED
  BY <1>1, VaultInvariant, PTL

\* A certified backup opens, verifies and holds the file list of its certificate as long as
\* nobody writes the file; and what verify-backup accepts is a whole state the vault was in,
\* unless an unlock extracted while it was sealed (backup.py create_backup, verify_backup).
THEOREM BackupsAreWhole == VaultSpec => []BackupsRestore
<1>1. VaultInv => VerifiedIsASnapshot
  <2> SUFFICES ASSUME VaultInv, NEW f \in Files, NEW s \in Secrets, VerifyOk(f, s)
               PROVE  ToSet(Payload(sealed[f])) \in past \/ sealed[f].origin.crossed
    BY DEF VerifiedIsASnapshot
  <2>1. Exists(f) /\ Opens(sealed[f], s) /\ ListsExactly(sealed[f])
    BY DEF VerifyOk, Restorable
  <2>2. Payload(sealed[f]) = sealed[f].origin.tar
    BY <2>1, OpensIsArchive
  <2>3. ToSet(sealed[f].origin.tar) = sealed[f].files /\ sealed[f].files \subseteq sealed[f].origin.files
    BY <2>1, <2>2 DEF ListsExactly, VaultInv, VaultTypeOK, IsContainer
  <2> QED
    BY <2>1, <2>2, <2>3 DEF VaultInv, SealedInv
<1>2. VaultInv => BackupsRestore
  BY <1>1 DEF VaultInv, BackupsRestore
<1> QED
  BY <1>2, VaultInvariant, PTL

\* Bytes out of a damaged block never reach the vault, and what unlock reports as verified is
\* the file list the file was sealed with, whatever else writes (vault_lock.py vault_unlock).
THEOREM UnlockingRestores == VaultSpec => UnlockedAsSealed
<1> DEFINE P == /\ \A p \in Paths : tree'[p] # Garbled
                /\ \A o \in opened' \ opened : o[2] = sealed[o[1]].origin.files \/ o[1] \in touched
<1>1. ASSUME VaultInv, VaultInv', [VaultNext]_vaultVars PROVE P \/ UNCHANGED vaultVars
  <2>1. \A p \in Paths : tree'[p] # Garbled
    <3>1. tree' \in [Paths -> Versions \cup {Missing}]
      BY <1>1 DEF VaultInv, VaultTypeOK
    <3>2. Garbled \notin Versions \cup {Missing}
      BY DEF Garbled, Versions, Missing
    <3> QED
      BY <3>1, <3>2
  <2>2. CASE \E r \in Runs : CheckExtracted(r)
    <3>1. PICK r \in Runs : CheckExtracted(r)
      BY <2>2
    <3>2. /\ run[r].at = "extract"
          /\ opened' \subseteq opened \cup {<<run[r].out, Contents>>}
          /\ opened' # opened => Contents = run[r].files
      BY <3>1 DEF CheckExtracted
    <3>3. run[r].out \in touched \/ run[r].files = sealed[run[r].out].origin.files
      BY <1>1, <3>2 DEF VaultInv, RunInv, Unlocking
    <3> QED
      BY <2>1, <3>2, <3>3
  <2>3. CASE opened' = opened
    BY <2>1, <2>3
  <2>4. (\E r \in Runs : CheckExtracted(r)) \/ opened' = opened
    BY <1>1, ZenonT(60) DEF VaultNext, Lock, Backup, Begin, Unlock, Scan, ListAgain, Archive, WriteSealed, Prove,
                SelfCheck, ListForBurn, BurnFile, RemoveDir, OpenSealed, Extract, Dies, Edit, Damage,
                vaultVars
  <2> QED
    BY <2>2, <2>3, <2>4
<1>2. ASSUME VaultInv, VaultInv', [VaultNext]_vaultVars PROVE [P]_vaultVars
  BY <1>1, <1>2
<1> QED
  BY <1>2, VaultInvariant, PTL DEF VaultSpec, UnlockedAsSealed
=============================================================================
