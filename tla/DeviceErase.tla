------------------------------ MODULE DeviceErase ------------------------------
(***************************************************************************)
(* Erasing a whole disk (flamethrower/tier2.py): the plan its media        *)
(* allows, the guards, and the steps, next to somebody who mounts the disk *)
(* or changes it for another one, and next to the file burns of the same   *)
(* disk.                                                                   *)
(***************************************************************************)
EXTENDS DiskBurn

VARIABLES
  burn,        \* the erase under way
  spared,      \* the other disk still has its data
  neighbour,   \* every other namespace of the NVMe controllers still has its data
  locked,      \* the ATA password is set on the disk in the slot
  sanitizing,  \* the firmware still works on a sanitize command
  erasures     \* certificates of erases

beside == <<spared, neighbour>>
eraseVars == <<burn, beside, locked, sanitizing, erasures>>
diskVars == <<fileVars, job, jobs, faults>>
deviceVars == <<disk, diskVars, moves, eraseVars>>

NoBurn == [at |-> "idle", todo |-> << >>, serial |-> 0, typed |-> 0, data |-> {},
           blind |-> FALSE, remounted |-> FALSE, swapped |-> FALSE]

EraseInit ==
  /\ FilesInit
  /\ burn = NoBurn
  /\ spared = TRUE /\ neighbour = TRUE
  /\ locked = FALSE /\ sanitizing = FALSE
  /\ erasures = {}

\* Mutant: zeros for what offers nothing better.
PlanZeros(d) == IF d.erase = "crypto" THEN <<"format">> ELSE <<"zero-fill">>

\* plan_erase: what really kills this kind of disk, or a refusal.
Plan(d) ==
  CASE Classify(d) = "nvme" /\ d.erase = "crypto" -> <<"format">>
    [] Classify(d) = "nvme" /\ d.erase = "sanitize" -> <<"sanitize">>
    [] Classify(d) = "sata_ssd" /\ d.erase \in {"enhanced", "normal"} -> <<"set-pass", "erase">>
    [] Classify(d) = "hdd" -> <<"zero-fill">>
    [] OTHER -> << >>

\* Mutant: the mounts are not looked at.
ErasableMounted(readable) == TRUE

\* assert_erasable: the mount table, if it can be read, has no node of the disk's name or its
\* partitions' names.  A table that cannot be read counts as empty.
Erasable(readable) == ~(mounted /\ ~device.stacked /\ readable)

StartErase(typed, readable) ==
  /\ burn = NoBurn /\ job = NoJob /\ ~sanitizing /\ jobs < MaxJobs
  /\ Plan(device) # << >> /\ Erasable(readable)
  /\ jobs' = jobs + 1
  /\ burn' = [NoBurn EXCEPT !.at = "confirm", !.todo = Plan(device), !.serial = slot, !.typed = typed,
                            !.blind = mounted /\ ~readable]
  /\ UNCHANGED <<disk, fileVars, job, faults, beside, locked, sanitizing, erasures, moves>>

\* confirm_serial: somebody reads a serial off a disk and types it.
ConfirmSerial ==
  /\ burn.at = "confirm"
  /\ burn' = IF burn.typed = burn.serial THEN [burn EXCEPT !.at = "rescan"] ELSE NoBurn
  /\ UNCHANGED <<disk, diskVars, beside, locked, sanitizing, erasures, moves>>

\* Mutant: the confirmation was enough.
SkipRescan ==
  /\ burn.at = "rescan"
  /\ burn' = [burn EXCEPT !.at = "step"]
  /\ UNCHANGED <<disk, diskVars, beside, locked, sanitizing, erasures, moves>>

\* _rescan_serial: the disk in the slot is still that one; then the countdown.
Rescan ==
  /\ burn.at = "rescan"
  /\ burn' = IF slot = burn.serial THEN [burn EXCEPT !.at = "step"] ELSE NoBurn
  /\ UNCHANGED <<disk, diskVars, beside, locked, sanitizing, erasures, moves>>

\* Everything the disk in the slot holds is gone, but for the cells in `left`.
Wiped(left) ==
  IF slot = 1
  THEN /\ files' = [p \in Paths |-> NoFile]
       /\ residue' = {} /\ litter' = {} /\ filler' = NoFiller
       /\ spare' = left
       /\ UNCHANGED <<certs, fresh, escaped, spared>>
  ELSE /\ spared' = FALSE
       /\ UNCHANGED fileVars

Step == Head(burn.todo)
\* The step said it is done.
Done ==
  burn' = [burn EXCEPT !.todo = Tail(@), !.at = IF Len(burn.todo) = 1 THEN "certify" ELSE "step",
             !.data = IF slot = 1 THEN Everywhere ELSE {}]

\* zero_fill: every addressable sector; a flash disk has others.
ZeroFill ==
  /\ burn.at = "step" /\ Step = "zero-fill"
  /\ Wiped(IF Flash(device) THEN Everywhere ELSE {})
  /\ Done
  /\ UNCHANGED <<disk, job, jobs, faults, neighbour, locked, sanitizing, erasures, moves>>

SetPassword ==
  /\ burn.at = "step" /\ Step = "set-pass"
  /\ locked' = TRUE
  /\ Done
  /\ UNCHANGED <<disk, diskVars, beside, sanitizing, erasures, moves>>

\* The firmware erases everything, and ends the security it was asked under.  Some
\* controllers format all their namespaces at once.
FirmwareErase ==
  /\ burn.at = "step" /\ Step \in {"format", "erase"}
  /\ Wiped({})
  /\ locked' = FALSE
  /\ neighbour' \in IF Step = "format" THEN {neighbour, FALSE} ELSE {neighbour}
  /\ Done
  /\ UNCHANGED <<disk, job, jobs, faults, sanitizing, erasures, moves>>

\* The command only starts the sanitize, of the whole controller.
StartSanitize ==
  /\ burn.at = "step" /\ Step = "sanitize"
  /\ sanitizing' = TRUE
  /\ Done
  /\ UNCHANGED <<disk, diskVars, beside, locked, erasures, moves>>

\* Mutant: the other steps are tried all the same.
GoOn ==
  /\ burn.at = "step"
  /\ Done
  /\ UNCHANGED <<disk, diskVars, beside, locked, sanitizing, erasures, moves>>

\* A step that returns an error ends the erase, with a certificate that says so.
StepFails ==
  /\ burn.at = "step"
  /\ burn' = [burn EXCEPT !.at = "failed"]
  /\ UNCHANGED <<disk, diskVars, beside, locked, sanitizing, erasures, moves>>

CertifyErase ==
  /\ burn.at \in {"certify", "failed"}
  /\ erasures' = erasures \cup {[disk |-> burn.serial, success |-> burn.at = "certify",
                                 swapped |-> burn.swapped, data |-> burn.data]}
  /\ burn' = NoBurn
  /\ UNCHANGED <<disk, diskVars, beside, locked, sanitizing, moves>>

\* A step that hangs for ten minutes, an error of the zero fill, Ctrl-C: nothing is certified.
Die ==
  /\ burn # NoBurn /\ faults < MaxFaults
  /\ faults' = faults + 1
  /\ burn' = NoBurn
  /\ UNCHANGED <<disk, fileVars, job, jobs, beside, locked, sanitizing, erasures, moves>>

Erase == ConfirmSerial \/ Rescan \/ ZeroFill \/ SetPassword \/ FirmwareErase \/ StartSanitize
         \/ StepFails \/ CertifyErase \/ Die

-----------------------------------------------------------------------------
(* The disk and those who use it.                                           *)

SanitizeEnds ==
  /\ sanitizing
  /\ sanitizing' = FALSE
  /\ neighbour' = FALSE
  /\ Wiped({})
  /\ UNCHANGED <<disk, job, jobs, faults, burn, locked, erasures, moves>>

Mount ==
  /\ ~mounted /\ ~locked /\ moves < MaxMoves
  /\ mounted' = TRUE
  /\ burn' = [burn EXCEPT !.remounted = burn # NoBurn]
  /\ moves' = moves + 1
  /\ UNCHANGED <<device, slot, diskVars, beside, locked, sanitizing, erasures>>

\* A file system in use stays mounted.
Unmount ==
  /\ mounted /\ job = NoJob
  /\ mounted' = FALSE
  /\ UNCHANGED <<device, slot, diskVars, moves, eraseVars>>

\* The disk is taken out and the other one put in.
Swap ==
  /\ ~mounted /\ ~locked /\ ~sanitizing /\ moves < MaxMoves
  /\ slot' = 3 - slot
  /\ burn' = [burn EXCEPT !.swapped = burn.at \in {"step", "certify", "failed"}]
  /\ moves' = moves + 1
  /\ UNCHANGED <<device, mounted, diskVars, beside, locked, sanitizing, erasures>>

\* One person uses one command at a time; other programs write all the while.
OneCommand == job' # NoJob => burn = NoBurn /\ ~sanitizing

EraseNext ==
  \/ FileStep /\ OneCommand /\ UNCHANGED eraseVars
  \/ \E typed \in 1..2, readable \in BOOLEAN : StartErase(typed, readable)
  \/ Erase
  \/ SanitizeEnds \/ Mount \/ Unmount \/ Swap

EraseSpec == EraseInit /\ [][EraseNext]_deviceVars

-----------------------------------------------------------------------------
(* Properties.                                                              *)

\* A step of the erase that costs the disk in the slot its data, now or when the
\* firmware is done.
Dooms == burn' # burn /\ (spared # spared' \/ files # files' \/ sanitizing # sanitizing')

\* Of the two disks, an erase only ever wipes the one whose serial was typed, unless it is
\* changed for the other within the countdown, after the rescan; and none under those who
\* use its file system, unless it was mounted after the guards had looked, or the guards
\* could not see the mount: an unreadable mount table, a node of another name.  Other
\* namespaces, which no guard asks about, die with a sanitize or a format only (tier2.py erase).
OnlyWhatWasConfirmedDies ==
  [][/\ Dooms => /\ slot = burn.typed \/ burn.swapped
                 /\ ~mounted \/ burn.remounted \/ burn.blind \/ device.stacked
     /\ neighbour' # neighbour => sanitizing \/ Step = "format"]_deviceVars

\* A certificate of success is true for all kinds of disk: nothing that was on it is
\* left, in no cell, once the firmware has finished what it started.
ErasedMeansClean ==
  \A e \in erasures : e.success /\ ~e.swapped /\ ~sanitizing => e.data \cap Everywhere = {}

\* An erase that got to its steps never leaves the disk locked behind its ATA password
\* without a certificate of its own that says it failed, unless the command died: neither its
\* certificate of success nor that of an earlier erase will do (tier2.py erase).
LockedIsReported ==
  [][burn.at \in {"step", "certify", "failed"} /\ burn' = NoBurn /\ locked' =>
       \/ faults' # faults
       \/ \E e \in erasures' : ~e.success /\ e.disk = burn.serial /\ e.data = burn.data]_deviceVars
=============================================================================
