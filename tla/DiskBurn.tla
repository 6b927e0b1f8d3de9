------------------------------- MODULE DiskBurn -------------------------------
(***************************************************************************)
(* Burning files on one disk: the file shredder (flamethrower/tier3.py)    *)
(* and the wipes of slack and of free space (flamethrower/slack.py), next  *)
(* to programs that go on writing.                                         *)
(*                                                                         *)
(* The disk is modelled by where a piece of data still is: in a block of a *)
(* file, in the slack behind a file's end, in a free block (residue), or   *)
(* in a flash cell that no write reaches any more (spare).  An overwrite   *)
(* replaces a block on spinning rust and leaves the old cell behind on     *)
(* flash.  What was written and not synced reaches the disk some time, or  *)
(* never if the file is unlinked first.                                    *)
(***************************************************************************)
EXTENDS Naturals, Sequences, FiniteSets, Functions, SequencesExt

CONSTANTS
  NumPaths,
  Devices,   \* what sysfs and the drive may report of themselves, and whether the file system
             \* lies straight on the disk or on a node of another name (LVM, dm-crypt, md)
  NoFile,
  MaxData, MaxJobs, MaxFaults, MaxMoves  \* bounds

ASSUME DiskBurnAssumption ==
  /\ NumPaths \in Nat \ {0} /\ MaxData \in Nat /\ MaxJobs \in Nat /\ MaxFaults \in Nat
  /\ MaxMoves \in Nat
  /\ MaxData >= 2 * NumPaths
ASSUME NoFileAssumption == NoFile \notin [blocks : Seq(Nat), tail : Nat, ino : Nat]

VARIABLES
  device,    \* the disk
  slot,      \* the disk in the slot: this one, or another of its kind
  mounted,   \* the file system of the disk in the slot is mounted
  files,     \* path -> blocks and slack
  residue,   \* data in free blocks
  spare,     \* data in cells behind the flash translation layer
  litter,    \* data in files that kept their random name
  filler,    \* the filler file: absent, or the free blocks it took that are not synced
  job,       \* the command under way
  certs,     \* its certificates
  fresh, jobs, faults, moves,
  escaped    \* what the command under way planned to burn, and other programs freed or took
             \* to another path before it was

disk == <<device, slot, mounted>>
space == <<residue, spare>>
bounds == <<fresh, jobs, faults, moves>>
fileVars == <<files, residue, spare, litter, filler, certs, fresh, escaped>>

Paths == 1..NumPaths
Data == 1..MaxData
Zero == 0
Noise == MaxData + 1
NoFiller == [there |-> FALSE, dirty |-> {}]

\* media.classify: never assume a hard disk.
Classify(d) ==
  CASE d.name = "virtual" -> "virtual"
    [] d.name = "nvme" -> "nvme"
    [] d.name = "mmc" \/ d.usb \/ d.removable -> "flash_usb"
    [] OTHER -> CASE d.rotational = "1" -> "hdd"
                  [] d.rotational = "0" -> "sata_ssd"
                  [] OTHER -> "unknown"

\* What the disk is, whatever it is taken for.
Flash(d) == ~(d.name \notin {"virtual", "nvme", "mmc"} /\ d.rotational = "1" /\ ~d.usb)

NewFile(n, tail) == [blocks |-> <<n>>, tail |-> tail, ino |-> n]
InBlocks(s) == Range(s) \ {Zero, Noise}
InTail(f) == {f.tail} \ {Zero, Noise}
Holds(f) == IF f = NoFile THEN {} ELSE InBlocks(f.blocks)
Occupied(f) == IF f = NoFile THEN {} ELSE InBlocks(f.blocks) \cup InTail(f)

NoJob == [tool |-> "none", at |-> "idle", todo |-> << >>, size |-> [p \in Paths |-> 0],
          data |-> [p \in Paths |-> {}], held |-> {}, ino |-> 0, moved |-> NoFile]

FilesInit ==
  /\ device \in Devices
  /\ slot = 1 /\ mounted = TRUE
  /\ files = [p \in Paths |-> NewFile(p, NumPaths + p)]
  /\ residue = {} /\ spare = {} /\ litter = {}
  /\ filler = NoFiller
  /\ job = NoJob
  /\ certs = {}
  /\ fresh = 2 * NumPaths /\ jobs = 0 /\ faults = 0 /\ moves = 0
  /\ escaped = {}

\* Data that no name leads to.
Loose == residue \cup spare \cup litter \cup Occupied(job.moved)
Everywhere == Loose \cup UNION {Occupied(files[p]) : p \in Paths}

\* The blocks that held d are written over.
Over(d) == spare' = IF Flash(device) THEN spare \cup d ELSE spare

Proceed(at) == job' = [job EXCEPT !.at = at]
Begin(j) ==
  /\ job = NoJob /\ jobs < MaxJobs /\ mounted /\ slot = 1
  /\ jobs' = jobs + 1
  /\ job' = [j EXCEPT !.at = "confirm"]
  /\ escaped' = {}
  /\ UNCHANGED <<disk, files, space, litter, filler, certs, fresh, faults, moves>>

\* The typed confirmation and the countdown; a dry run or a wrong name ends here.
Confirm(tool, at) ==
  /\ job.tool = tool /\ job.at = "confirm"
  /\ \/ job' = NoJob
     \/ Proceed(at)
  /\ UNCHANGED <<disk, fileVars, jobs, faults, moves>>

Certify(tool, p, data, success) ==
  certs' = certs \cup {[tool |-> tool, path |-> p, data |-> data, escaped |-> escaped,
                        success |-> success, guarantee |-> Classify(device) = "hdd"]}

-----------------------------------------------------------------------------
(* The file shredder: one pass of zeros (tier3.py), or passes of random     *)
(* bytes before it (flamethrower.py).                                       *)

\* enumerate_targets: files that are there, each once, with their size at that moment.
StartShred(targets) ==
  /\ \A p \in Range(targets) : files[p] # NoFile
  /\ Begin([NoJob EXCEPT !.tool = "shred", !.todo = targets,
              !.size = [p \in Paths |-> IF files[p] = NoFile THEN 0 ELSE Len(files[p].blocks)],
              !.data = [p \in Paths |-> Holds(files[p])]])

Target == Head(job.todo)
\* The next target, or the end.
NextTarget ==
  job' = IF Len(job.todo) = 1
         THEN NoJob
         ELSE [job EXCEPT !.todo = Tail(@), !.at = "overwrite", !.moved = NoFile, !.ino = 0]

Filled(blocks, n, with) ==
  [i \in 1..(IF n > Len(blocks) THEN n ELSE Len(blocks)) |-> IF i <= n THEN with ELSE blocks[i]]

Fill(p, with) ==
  LET f == files[p]
      filled == Filled(f.blocks, job.size[Target], with) IN
  /\ files' = [files EXCEPT ![p].blocks = filled]
  /\ Over(InBlocks(f.blocks) \ InBlocks(filled))

\* The file that was opened, under whatever name it is by now.
Opened == {p \in Paths : files[p] # NoFile /\ files[p].ino = job.ino /\ job.ino # 0}

\* overwrite_multipass: every pass but the last; all of them go to the file that was
\* opened, wherever its name points by now.
RandomPass ==
  /\ job.tool = "shred" /\ job.at = "overwrite" /\ job.ino = 0 /\ files[Target] # NoFile
  /\ Fill(Target, Noise)
  /\ job' = [job EXCEPT !.ino = files[Target].ino]
  /\ UNCHANGED <<disk, residue, litter, filler, certs, bounds, escaped>>

\* The zeros, over the bytes there were when the targets were listed.  The path is opened
\* as it is: nobody looks whether it still is the file that was listed.
Overwrite ==
  /\ job.tool = "shred" /\ job.at = "overwrite"
  /\ \/ job.ino = 0 /\ files[Target] # NoFile /\ Fill(Target, Zero)
     \/ \E p \in Opened : Fill(p, Zero)
     \/ job.ino # 0 /\ Opened = {} /\ UNCHANGED <<files, spare>>
  /\ job' = [job EXCEPT !.at = "verify", !.ino = 0]
  /\ UNCHANGED <<disk, residue, litter, filler, certs, bounds, escaped>>

\* _verify_samples reads some places; behind the end of the file everything is zero.
Verify ==
  /\ job.tool = "shred" /\ job.at = "verify" /\ files[Target] # NoFile
  /\ LET blocks == files[Target].blocks
         zeros == {i \in 1..job.size[Target] : i > Len(blocks) \/ blocks[i] = Zero} IN
       \/ zeros # {} /\ Proceed("rename")
       \/ zeros # 1..job.size[Target] /\ NextTarget
  /\ UNCHANGED <<disk, fileVars, jobs, faults, moves>>

Rename ==
  /\ job.tool = "shred" /\ job.at = "rename" /\ files[Target] # NoFile
  /\ job' = [job EXCEPT !.moved = files[Target], !.at = "unlink"]
  /\ files' = [files EXCEPT ![Target] = NoFile]
  /\ UNCHANGED <<disk, space, litter, filler, certs, bounds, escaped>>

TruncateUnlink ==
  /\ job.tool = "shred" /\ job.at = "unlink"
  /\ residue' = residue \cup Occupied(job.moved)
  /\ job' = [job EXCEPT !.moved = NoFile, !.at = "certify"]
  /\ UNCHANGED <<disk, files, spare, litter, filler, certs, bounds, escaped>>

CertifyShred ==
  /\ job.tool = "shred" /\ job.at = "certify"
  /\ Certify("shred", Target, job.data[Target], TRUE)
  /\ NextTarget
  /\ UNCHANGED <<disk, files, space, litter, filler, bounds, escaped>>

\* Mutant: a target that failed gets its certificate with the others.
SkipCertified ==
  /\ job.tool = "shred" /\ job.at \in {"overwrite", "verify", "rename"}
  /\ files[Target] = NoFile \/ faults < MaxFaults
  /\ faults' = IF files[Target] = NoFile THEN faults ELSE faults + 1
  /\ Proceed("certify")
  /\ UNCHANGED <<disk, fileVars, jobs, moves>>

\* An OSError, for one because the file is gone: no certificate, and on to the next.
SkipTarget ==
  /\ job.tool = "shred" /\ job.at \in {"overwrite", "verify", "rename", "unlink"}
  /\ LET gone == job.moved = NoFile /\ files[Target] = NoFile /\ job.ino = 0 IN
       /\ gone \/ faults < MaxFaults
       /\ faults' = IF gone THEN faults ELSE faults + 1
  /\ litter' = litter \cup Occupied(job.moved)
  /\ NextTarget
  /\ UNCHANGED <<disk, files, space, filler, certs, fresh, jobs, moves, escaped>>

\* What a burn does with each of its targets.
BurnTarget == RandomPass \/ Overwrite \/ Verify \/ Rename \/ TruncateUnlink \/ CertifyShred
              \/ SkipTarget

-----------------------------------------------------------------------------
(* The slack of one file.                                                   *)

StartSlack(p) ==
  /\ files[p] # NoFile
  /\ Begin([NoJob EXCEPT !.tool = "slack", !.todo = <<p>>,
              !.size[p] = Len(files[p].blocks), !.data[p] = InTail(files[p]),
              !.held = Holds(files[p])])

\* The file is extended over its slack, wherever it ends by now.
ExtendFile ==
  /\ job.tool = "slack" /\ job.at = "extend" /\ files[Target] # NoFile
  /\ files' = [files EXCEPT ![Target].tail = Noise]
  /\ Over(InTail(files[Target]))
  /\ job' = [job EXCEPT !.at = "truncate", !.ino = files[Target].ino]
  /\ UNCHANGED <<disk, residue, litter, filler, certs, bounds, escaped>>

\* Mutant: the slack counts as part of the last block.
CutBlock ==
  /\ job.tool = "slack" /\ job.at = "truncate" /\ files[Target] # NoFile /\ job.size[Target] > 0
  /\ files' = [files EXCEPT ![Target].blocks = Front(@)]
  /\ Proceed("certify")
  /\ UNCHANGED <<disk, space, litter, filler, certs, bounds, escaped>>

\* ftruncate: a file that is shorter by now grows.
Resized(blocks, n) == [i \in 1..n |-> IF i <= Len(blocks) THEN blocks[i] ELSE Zero]

\* And cut back to the size that the file at the path had when the plan was made, whatever
\* file was opened there.
TruncateFile ==
  /\ job.tool = "slack" /\ job.at = "truncate"
  /\ \/ \E p \in Opened :
          LET resized == Resized(files[p].blocks, job.size[Target]) IN
            /\ files' = [files EXCEPT ![p].blocks = resized]
            /\ residue' = residue \cup (InBlocks(files[p].blocks) \ InBlocks(resized))
     \/ Opened = {} /\ UNCHANGED <<files, residue>>
  /\ Proceed("certify")
  /\ UNCHANGED <<disk, spare, litter, filler, certs, bounds, escaped>>

\* The checksum of a file that is gone ends the command without a certificate.
CertifySlack ==
  /\ job.tool = "slack" /\ job.at = "certify"
  /\ IF files[Target] = NoFile
     THEN UNCHANGED certs
     ELSE Certify("slack", Target, job.data[Target], TRUE)
  /\ job' = NoJob
  /\ UNCHANGED <<disk, files, space, litter, filler, bounds, escaped>>

-----------------------------------------------------------------------------
(* The free space.                                                          *)

StartFree == Begin([NoJob EXCEPT !.tool = "free"])

\* Without --cap-bytes one filler file takes every free block, until a write fails with
\* ENOSPC; that write's exception passes the fsync by.  A filler of an earlier run that
\* died is truncated first.
FillFree ==
  /\ job.tool = "free" /\ job.at = "fill"
  /\ filler' = [there |-> TRUE, dirty |-> residue]
  /\ job' = [job EXCEPT !.at = "unlink", !.data = [p \in Paths |-> residue]]
  /\ UNCHANGED <<disk, files, space, litter, certs, bounds, escaped>>

\* The kernel writes a block of the filler back when it likes to.
Writeback(d) ==
  /\ d \in filler.dirty
  /\ filler' = [filler EXCEPT !.dirty = @ \ {d}]
  /\ residue' = residue \ {d}
  /\ Over({d})
  /\ UNCHANGED <<disk, files, litter, job, certs, bounds, escaped>>

\* The pages that were not written back yet go with the file.
UnlinkFiller ==
  /\ job.tool = "free" /\ job.at = "unlink"
  /\ filler' = NoFiller
  /\ Proceed("certify")
  /\ UNCHANGED <<disk, files, space, litter, certs, bounds, escaped>>

CertifyFree ==
  /\ job.tool = "free" /\ job.at = "certify"
  /\ Certify("free", 0, job.data[1], TRUE)
  /\ job' = NoJob
  /\ UNCHANGED <<disk, files, space, litter, filler, bounds, escaped>>

\* An OSError of either wipe, for one because the file is gone: the certificate says FAILED.
CertifyFailure ==
  /\ \/ job.tool = "slack" /\ job.at = "extend" /\ (files[Target] = NoFile \/ faults < MaxFaults)
     \/ job.tool \in {"slack", "free"} /\ job.at \in {"truncate", "unlink"} /\ faults < MaxFaults
  /\ faults' = IF job.at = "extend" /\ files[Target] = NoFile THEN faults ELSE faults + 1
  /\ Certify(job.tool, IF job.tool = "free" THEN 0 ELSE Target, {}, FALSE)
  /\ job' = NoJob
  /\ UNCHANGED <<disk, files, space, litter, filler, fresh, jobs, moves, escaped>>

-----------------------------------------------------------------------------
(* Other programs.                                                          *)

Writable == mounted /\ slot = 1 /\ ~filler.there /\ fresh < MaxData

\* What the command under way meant to burn at p is beyond its reach.
Escapes(p) == job.data[p] \cap Occupied(files[p])

\* What is appended goes over the slack.
AppendTo(p) ==
  /\ Writable /\ files[p] # NoFile /\ Len(files[p].blocks) < 2
  /\ fresh' = fresh + 1
  /\ files' = [files EXCEPT ![p].blocks = Append(@, fresh + 1), ![p].tail = Zero]
  /\ Over(InTail(files[p]))
  /\ UNCHANGED <<disk, residue, litter, filler, job, certs, jobs, faults, moves, escaped>>

\* An editor writes a new file and renames it over the old one.
SaveOver(p) ==
  /\ Writable
  /\ fresh' = fresh + 1
  /\ files' = [files EXCEPT ![p] = NewFile(fresh + 1, Zero)]
  /\ escaped' = escaped \cup Escapes(p)
  /\ residue' = residue \cup Occupied(files[p])
  /\ UNCHANGED <<disk, spare, litter, filler, job, certs, jobs, faults, moves>>

RemoveFile(p) ==
  /\ mounted /\ slot = 1 /\ files[p] # NoFile
  /\ files' = [files EXCEPT ![p] = NoFile]
  /\ escaped' = escaped \cup Escapes(p)
  /\ residue' = residue \cup Occupied(files[p])
  /\ UNCHANGED <<disk, spare, litter, filler, job, certs, bounds>>

\* Another program renames p, over q if that is there.  (A hard link to p, and p replaced, is
\* the same to the commands: they follow the path.)
MoveFile(p, q) ==
  /\ mounted /\ slot = 1 /\ p # q /\ files[p] # NoFile /\ moves < MaxMoves
  /\ moves' = moves + 1
  /\ files' = [files EXCEPT ![q] = files[p], ![p] = NoFile]
  /\ escaped' = escaped \cup Escapes(p) \cup Escapes(q)
  /\ residue' = residue \cup Occupied(files[q])
  /\ UNCHANGED <<disk, spare, litter, filler, job, certs, fresh, jobs, faults>>

\* A command that is killed, or dies of an error it does not catch.
Killed ==
  /\ job # NoJob /\ faults < MaxFaults
  /\ faults' = faults + 1
  /\ litter' = litter \cup Occupied(job.moved)
  /\ job' = NoJob
  /\ UNCHANGED <<disk, files, space, filler, certs, fresh, jobs, moves, escaped>>

FileStep ==
  \/ \E s \in SetToAllKPermutations(Paths) : s # << >> /\ StartShred(s)
  \/ Confirm("shred", "overwrite")
  \/ BurnTarget
  \/ \E p \in Paths : StartSlack(p)
  \/ Confirm("slack", "extend")
  \/ ExtendFile \/ TruncateFile \/ CertifySlack
  \/ StartFree
  \/ Confirm("free", "fill")
  \/ FillFree \/ UnlinkFiller \/ CertifyFree \/ CertifyFailure
  \/ \E d \in Data : Writeback(d)
  \/ \E p \in Paths : AppendTo(p) \/ SaveOver(p) \/ RemoveFile(p)
  \/ \E p, q \in Paths : MoveFile(p, q)
  \/ Killed

-----------------------------------------------------------------------------
(* Properties.                                                              *)

\* A certificate that claims a kill is true: what the path held when the shred was planned,
\* or its slack, is nowhere on the disk any more, but for what another program freed or took
\* to another path between the plan and the overwrite.
CertifiedIsOverwritten ==
  \A c \in certs : c.tool # "free" /\ c.success /\ c.guarantee =>
    c.data \cap Everywhere \subseteq c.escaped

\* No step of a slack wipe costs any file a piece of what the target held when the wipe was
\* planned, whatever is appended, replaced, moved over the path or away from it between
\* plan, extension and truncation.  (What is appended in between, or is in a longer file that
\* is moved over the path, may be cut off.)
SlackWipeKeepsThePlanned ==
  [][job.tool = "slack" /\ job'.at # job.at =>
       \A p \in Paths : (Holds(files[p]) \ Holds(files'[p])) \cap job.held = {}]_<<files, job>>

\* slack.py:260-264: the fillers are fsync'd, so that every ghost in free space is
\* overwritten on a hard disk when the certificate says so.
FreeWipeReachesTheDisk ==
  \A c \in certs : c.tool = "free" /\ c.success /\ c.guarantee =>
    c.data \cap residue = {}
=============================================================================
