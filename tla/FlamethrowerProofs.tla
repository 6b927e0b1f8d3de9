------------------------- MODULE FlamethrowerProofs -------------------------
(***************************************************************************)
(* Proofs about the three tiers of the flamethrower: the keyring and the   *)
(* audit log it writes, the erase of a whole disk, and the burns of files. *)
(*                                                                         *)
(* AuditLog, for any certificates, any crashes and any edits: no append,   *)
(* whole or torn, repairs a broken chain; verify() is exact until the      *)
(* second edit, which may undo the first; a torn write costs one record.   *)
(*                                                                         *)
(* Keyring, for any vaults, keys, certificates, crashes and losses: a key  *)
(* named by a deletion certificate is on no disk again, and the ceremonies *)
(* implement Deletion.                                                     *)
(*                                                                         *)
(* DiskBurn and DeviceErase, for any number of files, any kinds of disk,   *)
(* any failures, writes of other programs, mounts and swaps: certificates  *)
(* of shreds, slack wipes and erases are true, a slack wipe costs a file   *)
(* nothing, an erase costs no disk its data but the confirmed one, and no  *)
(* disk is left locked in silence.                                         *)
(***************************************************************************)
EXTENDS Keyring, DeviceErase, FunctionTheorems, FiniteSetTheorems, SequenceTheorems, TLAPS

-----------------------------------------------------------------------------
(* The audit log.                                                           *)

\* The log is a sequence of lines, whatever is on them.
IsLog == \E S : lines \in Seq(S)
LogInv == IsLog /\ tampers \in Nat

\* What verify() says of a file depends on its lines up to each entry: a file that verifies
\* verified before a line was written to it, whatever the line.
LEMMA WrittenNeverRepairs ==
  ASSUME NEW S, NEW file \in Seq(S), NEW end, NEW line, Verifies(Written(file, end, line))
  PROVE  Verifies(file)
<1>1. CASE end = "clean"
  <2>1. Written(file, end, line) = Append(file, line) /\ file \in Seq(S \cup {line})
    BY <1>1 DEF Written
  <2>2. \A i \in DOMAIN file :
          i \in DOMAIN Append(file, line) /\ Append(file, line)[i] = file[i]
    BY <2>1
  <2>3. \A i \in DOMAIN file : IsEntry(file[i])
    BY <2>1, <2>2 DEF Verifies
  <2>4. ASSUME NEW i \in DOMAIN file PROVE Continues(file, i)
    <3>1. Continues(Append(file, line), i)
      BY <2>1, <2>2 DEF Verifies
    <3>2. i # 1 => i - 1 \in DOMAIN file
      OBVIOUS
    <3> QED
      BY <2>2, <3>1, <3>2 DEF Continues
  <2> QED
    BY <2>3, <2>4 DEF Verifies
<1>2. CASE end # "clean"
  <2>1. Written(file, end, line) = [file EXCEPT ![Len(file)] = Garbage]
    BY <1>2 DEF Written
  \* The line that was glued to parses no more.
  <2>2. file # << >> => Len(file) \in DOMAIN file
    OBVIOUS
  <2>3. file # << >> => ~IsEntry(Written(file, end, line)[Len(file)])
                        /\ Len(file) \in DOMAIN Written(file, end, line)
    BY <2>1, <2>2 DEF IsEntry, Garbage
  <2>4. file = << >>
    BY <2>3 DEF Verifies
  <2> QED
    BY <2>4 DEF Verifies
<1> QED
  BY <1>1, <1>2

\* Appending the line itself is writing to a file that ends with a newline.
LEMMA AppendIsWritten ==
  ASSUME NEW file, NEW line
  PROVE  Append(file, line) = Written(file, "clean", line)
BY DEF Written

\* Every write of append() is one of these.
LEMMA AppendWrites ==
  ASSUME NEW cert, Log(cert) \/ LogTorn(cert)
  PROVE  \/ lines' = lines
         \/ \E end, line : lines' = Written(lines, end, line)
<1>1. CASE Log(cert)
  BY <1>1 DEF Log
<1>2. CASE LogTorn(cert)
  <2>1. PICK torn \in TornWrites(lines, tail, NewEntry(lines, cert)) : lines' = torn[1]
    BY <1>2 DEF LogTorn
  <2>2. CASE torn = <<lines, tail>>
    BY <2>1, <2>2
  <2>3. CASE torn = <<Written(lines, tail, Garbage), "cut">>
    BY <2>1, <2>3
  <2>4. CASE torn = <<Append(lines, NewEntry(lines, cert)), "nonl">>
    BY <2>1, <2>4, AppendIsWritten
  <2>5. CASE torn = <<Written(lines, tail, NewEntry(lines, cert)), "cut">>
    BY <2>1, <2>5
  <2> QED
    BY <2>2, <2>3, <2>4, <2>5 DEF TornWrites
<1> QED
  BY <1>1, <1>2

\* A file that is written to is still a sequence of lines.
LEMMA WrittenIsLog ==
  ASSUME NEW S, NEW file \in Seq(S), NEW end, NEW line
  PROVE  \E T : Written(file, end, line) \in Seq(T)
<1>1. file \in Seq(S \cup {line, Garbage})
  OBVIOUS
<1>2. Written(file, end, line) \in Seq(S \cup {line, Garbage})
  BY <1>1 DEF Written
<1> QED
  BY <1>2

\* And so after every other step.
LEMMA StepKeepsLog == IsLog /\ [NextAudit]_avars => IsLog'
<1> SUFFICES ASSUME IsLog, [NextAudit]_avars PROVE IsLog'
  OBVIOUS
<1>1. PICK S : lines \in Seq(S)
  BY DEF IsLog
<1>2. CASE lines' = lines
  BY <1>2 DEF IsLog
<1>3. ASSUME NEW cert, Log(cert) \/ LogTorn(cert) PROVE IsLog'
  BY <1>1, <1>2, <1>3, AppendWrites, WrittenIsLog DEF IsLog
<1>4. ASSUME NEW i \in DOMAIN lines, EditEntry(i) PROVE IsLog'
  <2>1. PICK cert : lines' = [lines EXCEPT ![i].body.cert = cert]
    BY <1>4 DEF EditEntry
  <2> DEFINE new == [lines[i] EXCEPT !.body.cert = cert]
  <2>2. lines' = [lines EXCEPT ![i] = new]
    BY <2>1
  <2> HIDE DEF new
  <2>3. lines \in Seq(S \cup {new})
    BY <1>1
  <2>4. lines' \in Seq(S \cup {new})
    BY <1>4, <2>2, <2>3
  <2> QED
    BY <2>4 DEF IsLog
<1>5. ASSUME NEW i \in DOMAIN lines, DeleteEntry(i) PROVE IsLog'
  <2>1. lines' = SubSeq(lines, 1, i - 1) \o SubSeq(lines, i + 1, Len(lines))
    BY <1>5 DEF DeleteEntry, RemoveAt
  <2>2. SubSeq(lines, 1, i - 1) \in Seq(S) /\ SubSeq(lines, i + 1, Len(lines)) \in Seq(S)
    BY <1>1
  <2>3. lines' \in Seq(S)
    BY <2>1, <2>2
  <2> QED
    BY <2>3 DEF IsLog
<1>6. ASSUME NEW i \in DOMAIN lines, NEW j \in DOMAIN lines, SwapEntries(i, j) PROVE IsLog'
  <2>1. lines' = [lines EXCEPT ![i] = lines[j], ![j] = lines[i]]
    BY <1>6 DEF SwapEntries
  <2>2. lines' \in Seq(S)
    BY <1>1, <2>1
  <2> QED
    BY <2>2 DEF IsLog
<1> QED
  BY <1>2, <1>3, <1>4, <1>5, <1>6 DEF NextAudit, avars

\* The bounded counter of edits counts.
LEMMA StepCounts == tampers \in Nat /\ [NextAudit]_avars => tampers' \in Nat
BY DEF NextAudit, avars, Log, LogTorn, EditEntry, DeleteEntry, SwapEntries, MayTamper

\* Edits aside, every step of the log is an append, and none repairs it.
LEMMA StepNeverRepairs ==
  ASSUME IsLog, tampers \in Nat, NextAudit, ~Verifies(lines), tampers' = tampers
  PROVE  ~Verifies(lines')
<1>1. PICK cert : Log(cert) \/ LogTorn(cert)
  <2>1. ~MayTamper
    BY DEF MayTamper
  <2> QED
    BY <2>1 DEF NextAudit, EditEntry, DeleteEntry, SwapEntries
<1>2. lines' = lines \/ \E end, line : lines' = Written(lines, end, line)
  BY <1>1, AppendWrites
<1> QED
  BY <1>2, WrittenNeverRepairs DEF IsLog

-----------------------------------------------------------------------------
(* What an unedited log looks like.                                         *)

Hashes == Seq(Nat \X Certs)
LinkOf(file, i) == IF i = 1 THEN GenesisHash ELSE file[i-1].hash

\* Numbered from 1, each entry linked to the one before it.
Chained(file) ==
  \A i \in DOMAIN file : \E cert \in Certs, prev \in Hashes :
     /\ file[i] = EntryOf([seq |-> i, cert |-> cert, prev |-> prev])
     /\ prev = LinkOf(file, i)
AllParsed(file) == Parsed(file) = DOMAIN file

\* While nobody edits the log, only a torn write keeps it from being chained; the first
\* edit breaks it.
ChainedUntilEdited ==
  /\ tampers = 0 /\ AllParsed(lines) => Chained(lines)
  /\ tampers = 0 /\ crashes = 0 =>
       tail = "clean" /\ AllParsed(lines) /\ Readable(lines) = recorded
  /\ tampers = 1 => ~Verifies(lines)

\* A torn line is charged to its crash, before the record that will be glued to it.
CrashesPay ==
  /\ tail # "clean" => /\ lines # << >>
                       /\ IsEntry(lines[Len(lines)]) => lines[Len(lines)].body.cert \notin recorded
  /\ Cardinality(recorded \ Readable(lines)) + (IF tail = "clean" THEN 0 ELSE 1) <= crashes

Counts == tampers \in Nat /\ crashes \in Nat /\ IsFiniteSet(recorded)

VInv == IsLog /\ Counts /\ ChainedUntilEdited /\ (tampers = 0 => CrashesPay)

\* The largest of the first numbers is the last of them.
LEMMA MaxOfInterval == ASSUME NEW n \in Nat \ {0} PROVE Max(1 .. n) = n /\ n \in 1 .. n /\ 1 .. n # {}
<1>1. n \in 1 .. n /\ \A y \in 1 .. n : n >= y
  OBVIOUS
<1>2. \A x \in 1 .. n : (\A y \in 1 .. n : x >= y) => x = n
  OBVIOUS
<1> QED
  BY <1>1, <1>2 DEF Max

\* A chained log verifies, and its entries are typed.
LEMMA ChainedVerifies ==
  ASSUME NEW S, NEW file \in Seq(S), Chained(file)
  PROVE  /\ Verifies(file) /\ AllParsed(file)
         /\ \A i \in DOMAIN file : /\ file[i].body.seq = i /\ file[i].hash \in Hashes
                                   /\ file[i].body.prev \in Hashes
                                   /\ file[i].body.cert \in Certs
                                   /\ file[i].hash = EntryHash(file[i].body)
                                   /\ file[i].body = [seq |-> i, cert |-> file[i].body.cert,
                                                      prev |-> file[i].body.prev]
<1>1. ASSUME NEW i \in DOMAIN file
      PROVE  /\ IsEntry(file[i]) /\ Continues(file, i)
             /\ file[i].body.seq = i /\ file[i].hash \in Hashes
             /\ file[i].body.prev \in Hashes /\ file[i].body.cert \in Certs
             /\ file[i].hash = EntryHash(file[i].body)
             /\ file[i].body = [seq |-> i, cert |-> file[i].body.cert, prev |-> file[i].body.prev]
  <2>1. PICK cert \in Certs, prev \in Hashes :
          /\ file[i] = EntryOf([seq |-> i, cert |-> cert, prev |-> prev])
          /\ prev = LinkOf(file, i)
    BY DEF Chained
  <2>2. IsEntry(file[i]) /\ file[i].body = [seq |-> i, cert |-> cert, prev |-> prev]
        /\ file[i].hash = EntryHash(file[i].body)
    BY <2>1 DEF EntryOf, IsEntry
  <2>3. file[i].hash = Append(prev, <<i, cert>>) /\ i \in Nat
    BY <2>2 DEF EntryHash
  <2>4. file[i].hash \in Hashes
    BY <2>3 DEF Hashes
  <2>5. i # 1 => file[i-1].body.seq = i - 1
    <3>1. HAVE i # 1
    <3>2. i - 1 \in DOMAIN file
      BY <3>1
    <3>3. PICK c \in Certs, p \in Hashes :
            file[i-1] = EntryOf([seq |-> i - 1, cert |-> c, prev |-> p])
      BY <3>2 DEF Chained
    <3> QED
      BY <3>3 DEF EntryOf
  <2>6. Continues(file, i)
    BY <2>1, <2>2, <2>5 DEF Continues, LinkOf
  <2> QED
    BY <2>2, <2>4, <2>6
<1>2. Verifies(file)
  BY <1>1 DEF Verifies
<1>3. AllParsed(file)
  BY <1>1 DEF AllParsed, Parsed
<1> QED
  BY <1>1, <1>2, <1>3

\* append() to a chained log chains.
LEMMA AppendChains ==
  ASSUME NEW S, NEW file \in Seq(S), Chained(file), NEW cert \in Certs
  PROVE  Chained(Append(file, NewEntry(file, cert)))
<1>1. PICK n \in Nat : n = Len(file) /\ DOMAIN file = 1 .. n /\ Parsed(file) = 1 .. n
  <2>1. AllParsed(file) /\ Len(file) \in Nat /\ DOMAIN file = 1 .. Len(file)
    BY ChainedVerifies
  <2> QED
    BY <2>1 DEF AllParsed
<1>2. SeqsIn(file) = 1 .. n
  <2>1. \A i \in 1 .. n : file[i].body.seq = i
    BY <1>1, ChainedVerifies
  <2> QED
    BY <1>1, <2>1 DEF SeqsIn
<1>3. NextSeq(file) = n + 1
  <2>1. CASE n = 0
    BY <1>2, <2>1 DEF NextSeq
  <2>2. CASE n # 0
    <3>1. n \in Nat \ {0}
      BY <2>2
    <3>2. Max(1 .. n) = n /\ 1 .. n # {}
      BY <3>1, MaxOfInterval
    <3> QED
      BY <1>2, <3>2 DEF NextSeq
  <2> QED
    BY <2>1, <2>2
<1>4. PICK prev \in Hashes :
        prev = LastHash(file) /\ prev = (IF n = 0 THEN GenesisHash ELSE file[n].hash)
  <2>1. CASE n = 0
    <3>1. LastHash(file) = << >> /\ << >> \in Hashes
      BY <1>1, <2>1 DEF LastHash, GenesisHash, Hashes
    <3> QED
      BY <2>1, <3>1 DEF GenesisHash
  <2>2. CASE n # 0
    <3>0. n \in Nat \ {0}
      BY <2>2
    <3>1. Max(1 .. n) = n /\ 1 .. n # {} /\ n \in 1 .. n
      BY <3>0, MaxOfInterval
    <3>2. LastHash(file) = file[n].hash
      BY <1>1, <3>1 DEF LastHash
    <3>3. file[n].hash \in Hashes
      BY <1>1, <3>1, ChainedVerifies
    <3> QED
      BY <2>2, <3>2, <3>3
  <2> QED
    BY <2>1, <2>2
<1>5. NewEntry(file, cert) = EntryOf([seq |-> n + 1, cert |-> cert, prev |-> prev])
  BY <1>3, <1>4 DEF NewEntry
<1>6. PICK new : new = Append(file, NewEntry(file, cert))
  OBVIOUS
<1>7. DOMAIN new = 1 .. n + 1 /\ new[n + 1] = NewEntry(file, cert)
      /\ \A i \in 1 .. n : new[i] = file[i]
  BY <1>1, <1>6
<1>8. ASSUME NEW i \in 1 .. n
      PROVE  \E c \in Certs, p \in Hashes :
               new[i] = EntryOf([seq |-> i, cert |-> c, prev |-> p]) /\ p = LinkOf(new, i)
  <2>1. PICK c \in Certs, p \in Hashes :
          file[i] = EntryOf([seq |-> i, cert |-> c, prev |-> p]) /\ p = LinkOf(file, i)
    BY <1>1 DEF Chained
  <2>2. i # 1 => i - 1 \in 1 .. n
    OBVIOUS
  <2>3. LinkOf(new, i) = LinkOf(file, i)
    BY <1>7, <2>2 DEF LinkOf
  <2> QED
    BY <1>7, <2>1, <2>3
<1>9. LinkOf(new, n + 1) = prev
  <2>1. CASE n = 0
    BY <1>4, <2>1 DEF LinkOf
  <2>2. CASE n # 0
    <3>1. n + 1 # 1 /\ n + 1 - 1 = n /\ n \in 1 .. n
      BY <2>2
    <3> QED
      BY <1>4, <1>7, <2>2, <3>1 DEF LinkOf
  <2> QED
    BY <2>1, <2>2
<1>10. \E c \in Certs, p \in Hashes :
         /\ new[n + 1] = EntryOf([seq |-> n + 1, cert |-> c, prev |-> p])
         /\ p = LinkOf(new, n + 1)
  BY <1>5, <1>7, <1>9
<1>11. \A i \in DOMAIN new : i \in 1 .. n \/ i = n + 1
  BY <1>7
<1>12. Chained(new)
  BY <1>8, <1>10, <1>11 DEF Chained
<1> QED
  BY <1>6, <1>12

\* A write to a file with a line that does not parse leaves such a line; one to a file
\* that ends in the middle of a line makes one.
LEMMA WrittenParsed ==
  ASSUME NEW S, NEW file \in Seq(S), NEW end, NEW line, AllParsed(Written(file, end, line))
  PROVE  \/ file = << >> /\ end # "clean" /\ Written(file, end, line) = file
         \/ end = "clean" /\ AllParsed(file) /\ IsEntry(line)
              /\ Written(file, end, line) = Append(file, line)
<1>1. CASE end = "clean"
  <2>1. Written(file, end, line) = Append(file, line)
    BY <1>1 DEF Written
  <2>2. DOMAIN Append(file, line) = 1 .. Len(file) + 1 /\ Append(file, line)[Len(file) + 1] = line
        /\ \A i \in DOMAIN file : i \in 1 .. Len(file) + 1 /\ Append(file, line)[i] = file[i]
    OBVIOUS
  <2>3. \A i \in 1 .. Len(file) + 1 : IsEntry(Append(file, line)[i])
    BY <2>1, <2>2 DEF AllParsed, Parsed
  <2>4. IsEntry(line)
    BY <2>2, <2>3
  <2>5. AllParsed(file)
    BY <2>2, <2>3 DEF AllParsed, Parsed
  <2> QED
    BY <1>1, <2>1, <2>4, <2>5
<1>2. CASE end # "clean"
  <2>1. Written(file, end, line) = [file EXCEPT ![Len(file)] = Garbage]
    BY <1>2 DEF Written
  <2>2. CASE file = << >>
    BY <1>2, <2>1, <2>2
  <2>3. CASE file # << >>
    <3>1. Len(file) \in DOMAIN file
      BY <2>3
    <3>2. ~IsEntry(Written(file, end, line)[Len(file)]) /\ Len(file) \in DOMAIN Written(file, end, line)
      BY <2>1, <3>1 DEF IsEntry, Garbage
    <3> QED
      BY <3>2 DEF AllParsed, Parsed
  <2> QED
    BY <2>2, <2>3
<1> QED
  BY <1>1, <1>2
-----------------------------------------------------------------------------
(* What the steps do.                                                       *)

\* An append, whole or torn, after which every line parses, wrote its entry whole to a log
\* of which every line parsed, or nothing.
LEMMA AppendsParsed ==
  ASSUME IsLog, NEW cert \in Certs, Log(cert) \/ LogTorn(cert), AllParsed(lines')
  PROVE  lines' = lines \/ (AllParsed(lines) /\ lines' = Append(lines, NewEntry(lines, cert)))
<1>1. PICK S : lines \in Seq(S)
  BY DEF IsLog
<1>2. PICK new : new = NewEntry(lines, cert)
  OBVIOUS
<1>3. \/ lines' = lines \/ lines' = Written(lines, tail, Garbage)
      \/ lines' = Written(lines, "clean", new) \/ lines' = Written(lines, tail, new)
  <2>1. CASE Log(cert)
    BY <1>2, <2>1 DEF Log
  <2>2. CASE LogTorn(cert)
    <3>1. PICK torn \in TornWrites(lines, tail, new) : lines' = torn[1]
      BY <1>2, <2>2 DEF LogTorn
    <3>2. \/ torn[1] = lines \/ torn[1] = Written(lines, tail, Garbage)
          \/ torn[1] = Append(lines, new) \/ torn[1] = Written(lines, tail, new)
      BY <3>1 DEF TornWrites
    <3> QED
      BY <3>1, <3>2, AppendIsWritten
  <2> QED
    BY <2>1, <2>2
<1>4. ~IsEntry(Garbage)
  BY DEF IsEntry, Garbage
<1>5. ASSUME NEW end, NEW line, lines' = Written(lines, end, line), line \in {new, Garbage}
      PROVE  lines' = lines \/ (AllParsed(lines) /\ lines' = Append(lines, new))
  <2>1. AllParsed(Written(lines, end, line))
    BY <1>5
  <2>2. \/ Written(lines, end, line) = lines
        \/ AllParsed(lines) /\ IsEntry(line) /\ Written(lines, end, line) = Append(lines, line)
    BY <1>1, <2>1, WrittenParsed
  <2> QED
    BY <1>4, <1>5, <2>2
<1> QED
  BY <1>2, <1>3, <1>5

\* An unedited log stays chained.
LEMMA AppendKeepsChained ==
  ASSUME IsLog, NEW cert \in Certs, Log(cert) \/ LogTorn(cert),
         AllParsed(lines) => Chained(lines)
  PROVE  (AllParsed(lines) => Chained(lines))'
<1> SUFFICES ASSUME AllParsed(lines') PROVE Chained(lines')
  BY DEF AllParsed, Parsed, Chained, LinkOf
<1>1. PICK S : lines \in Seq(S)
  BY DEF IsLog
<1>2. CASE lines' = lines
  <2>1. AllParsed(lines)
    BY <1>2
  <2> QED
    BY <1>2, <2>1
<1>3. CASE AllParsed(lines) /\ lines' = Append(lines, NewEntry(lines, cert))
  <2>1. Chained(Append(lines, NewEntry(lines, cert)))
    BY <1>1, <1>3, AppendChains
  <2> QED
    BY <1>3, <2>1
<1> QED
  BY <1>2, <1>3, AppendsParsed

\* The lines after a deleted one move up.
LEMMA RemovedLine ==
  ASSUME NEW S, NEW file \in Seq(S), NEW i \in 1 .. Len(file)
  PROVE  /\ DOMAIN RemoveAt(file, i) = 1 .. Len(file) - 1
         /\ \A k \in 1 .. Len(file) - 1 :
              RemoveAt(file, i)[k] = IF k < i THEN file[k] ELSE file[k + 1]
<1>1. PICK n \in Nat : n = Len(file)
  OBVIOUS
<1>2. PICK before : before = SubSeq(file, 1, i - 1)
  OBVIOUS
<1>3. PICK after : after = SubSeq(file, i + 1, n)
  OBVIOUS
<1>4. before \in Seq(S) /\ Len(before) = i - 1 /\ \A k \in 1 .. i - 1 : before[k] = file[k]
  <2>1. \A k \in 1 .. i - 1 : file[k] \in S
    BY <1>1
  <2>2. 1 \in Int /\ i - 1 \in Int
    OBVIOUS
  <2>3. /\ before \in Seq(S) /\ Len(before) = IF 1 <= i - 1 THEN i - 1 - 1 + 1 ELSE 0
        /\ \A k \in 1 .. i - 1 - 1 + 1 : before[k] = file[1 + k - 1]
    BY <1>2, <2>1, <2>2, SubSeqProperties
  <2> QED
    BY <2>3
<1>5. after \in Seq(S) /\ Len(after) = n - i /\ \A k \in 1 .. n - i : after[k] = file[k + i]
  <2>1. \A k \in i + 1 .. n : file[k] \in S
    BY <1>1
  <2>2. i + 1 \in Int /\ n \in Int /\ i <= n
    BY <1>1
  <2>3. /\ after \in Seq(S) /\ Len(after) = IF i + 1 <= n THEN n - (i + 1) + 1 ELSE 0
        /\ \A k \in 1 .. n - (i + 1) + 1 : after[k] = file[(i + 1) + k - 1]
    BY <1>3, <2>1, <2>2, SubSeqProperties
  <2>4. \A k \in 1 .. n - i : k \in 1 .. n - (i + 1) + 1 /\ (i + 1) + k - 1 = k + i
    BY <2>2
  <2> QED
    BY <2>2, <2>3, <2>4
<1>6. RemoveAt(file, i) = before \o after
  BY <1>1, <1>2, <1>3 DEF RemoveAt
<1>7. DOMAIN (before \o after) = 1 .. n - 1
  BY <1>1, <1>4, <1>5, ConcatProperties
<1>8. ASSUME NEW k \in 1 .. n - 1
      PROVE  (before \o after)[k] = IF k < i THEN file[k] ELSE file[k + 1]
  <2>1. CASE k < i
    <3>1. (before \o after)[k] = before[k] /\ k \in 1 .. i - 1
      <4>1. /\ k \in 1 .. Len(before) + Len(after) /\ k <= Len(before) /\ k \in 1 .. i - 1
        BY <1>1, <1>4, <1>5, <2>1
      <4> QED
        BY <1>4, <1>5, <4>1, ConcatProperties
    <3> QED
      BY <1>4, <2>1, <3>1
  <2>2. CASE ~(k < i)
    <3>1. (before \o after)[k] = after[k - (i - 1)] /\ k - (i - 1) \in 1 .. n - i
      BY <1>1, <1>4, <1>5, <2>2, ConcatProperties
    <3>2. k - (i - 1) + i = k + 1
      BY <1>1
    <3> QED
      BY <1>1, <1>5, <2>2, <3>1, <3>2
  <2> QED
    BY <2>1, <2>2
<1> QED
  BY <1>1, <1>6, <1>7, <1>8

\* An edit of a chained log, but for the deletion of its newest entry, breaks it; an edit of
\* a log with a line that does not parse leaves that line in it.
LEMMA EditBreaks ==
  ASSUME IsLog, AllParsed(lines) => Chained(lines), NEW i \in DOMAIN lines, NEW j \in DOMAIN lines,
         EditEntry(i) \/ DeleteEntry(i) \/ SwapEntries(i, j)
  PROVE  ~Verifies(lines')
<1>1. PICK S : lines \in Seq(S)
  BY DEF IsLog
<1>2. CASE EditEntry(i)
  <2>1. PICK cert \in Certs : cert # lines[i].body.cert
                            /\ lines' = [lines EXCEPT ![i].body.cert = cert]
    BY <1>2 DEF EditEntry
  <2>2. DOMAIN lines' = DOMAIN lines /\ \A k \in DOMAIN lines : k # i => lines'[k] = lines[k]
    BY <2>1
  <2>3. lines'[i] = [lines[i] EXCEPT !.body.cert = cert]
    BY <2>1
  <2>4. CASE AllParsed(lines)
    <3>1. PICK c \in Certs, prev \in Hashes :
            lines[i] = EntryOf([seq |-> i, cert |-> c, prev |-> prev])
      BY <2>4 DEF Chained
    <3>2. lines'[i].hash = Append(prev, <<i, c>>) /\ c # cert
          /\ lines'[i].body = [seq |-> i, cert |-> cert, prev |-> prev]
      <4> DEFINE body == [seq |-> i, cert |-> c, prev |-> prev]
      <4>1. lines[i] = [kind |-> "entry", body |-> body, hash |-> Append(prev, <<i, c>>)]
        BY <3>1 DEF EntryOf, EntryHash
      <4>2. [body EXCEPT !.cert = cert] = [seq |-> i, cert |-> cert, prev |-> prev]
        OBVIOUS
      <4>3. lines[i].body = body /\ lines[i].hash = Append(prev, <<i, c>>)
            /\ lines'[i] = [lines[i] EXCEPT !.body = [lines[i].body EXCEPT !.cert = cert]]
        BY <2>3, <4>1
      <4> HIDE DEF body
      <4>4. lines'[i].body = [body EXCEPT !.cert = cert] /\ lines'[i].hash = lines[i].hash
        BY <4>1, <4>3
      <4>5. c # cert
        BY <2>1, <4>3 DEF body
      <4> QED
        BY <4>2, <4>3, <4>4, <4>5
    <3>3. EntryHash(lines'[i].body) = Append(prev, <<i, cert>>)
      BY <3>2 DEF EntryHash
    <3>4. Append(prev, <<i, c>>)[Len(prev) + 1] # Append(prev, <<i, cert>>)[Len(prev) + 1]
      <4>1. <<i, c>> # <<i, cert>> /\ prev \in Seq(Nat \X Certs)
        BY <3>2 DEF Hashes
      <4> QED
        BY <4>1
    <3>5. lines'[i].hash # EntryHash(lines'[i].body)
      BY <3>2, <3>3, <3>4
    <3> QED
      BY <2>2, <3>5 DEF Verifies, Continues
  <2>5. CASE ~AllParsed(lines)
    <3>1. PICK k \in DOMAIN lines : ~IsEntry(lines[k])
      BY <2>5 DEF AllParsed, Parsed
    <3>2. lines'[k] = lines[k]
      BY <1>2, <2>2, <3>1 DEF EditEntry
    <3> QED
      BY <2>2, <3>1, <3>2 DEF Verifies
  <2> QED
    BY <2>4, <2>5
<1>3. CASE DeleteEntry(i)
  <2>1. PICK n \in Nat : n = Len(lines) /\ DOMAIN lines = 1 .. n /\ i \in 1 .. n /\ i < n
    BY <1>1, <1>3 DEF DeleteEntry
  <2>2. lines' = RemoveAt(lines, i)
    BY <1>3 DEF DeleteEntry
  <2>3. /\ DOMAIN lines' = 1 .. n - 1
        /\ \A k \in 1 .. n - 1 : lines'[k] = IF k < i THEN lines[k] ELSE lines[k + 1]
    BY <1>1, <2>1, <2>2, RemovedLine
  <2>4. CASE AllParsed(lines)
    <3>1. \A k \in 1 .. n : lines[k].body.seq = k
      BY <1>1, <2>1, <2>4, ChainedVerifies
    <3>2. i \in 1 .. n - 1 /\ i + 1 \in 1 .. n /\ lines'[i] = lines[i + 1]
      BY <2>1, <2>3
    <3>3. lines'[i].body.seq = i + 1
      BY <3>1, <3>2
    <3>4. CASE i = 1
      BY <2>3, <3>2, <3>3, <3>4 DEF Verifies, Continues
    <3>5. CASE i # 1
      <4>1. i - 1 \in 1 .. n - 1 /\ i - 1 \in 1 .. n /\ i - 1 < i
        BY <2>1, <3>5
      <4>2. lines'[i-1].body.seq = i - 1
        BY <2>3, <3>1, <4>1
      <4> QED
        BY <2>3, <3>2, <3>3, <3>5, <4>2 DEF Verifies, Continues
    <3> QED
      BY <3>4, <3>5
  <2>5. CASE ~AllParsed(lines)
    <3>1. PICK k \in 1 .. n : ~IsEntry(lines[k])
      BY <2>1, <2>5 DEF AllParsed, Parsed
    <3>2. k # i
      BY <1>3, <3>1 DEF DeleteEntry
    <3>3. CASE k < i
      <4>1. k \in 1 .. n - 1 /\ lines'[k] = lines[k]
        BY <2>1, <2>3, <3>3
      <4> QED
        BY <2>3, <3>1, <4>1 DEF Verifies
    <3>4. CASE k > i
      <4>1. k - 1 \in 1 .. n - 1 /\ ~(k - 1 < i) /\ k - 1 + 1 = k
        BY <2>1, <3>4
      <4>2. lines'[k - 1] = lines[k]
        BY <2>3, <4>1
      <4> QED
        BY <2>3, <3>1, <4>1, <4>2 DEF Verifies
    <3> QED
      BY <2>1, <3>2, <3>3, <3>4
  <2> QED
    BY <2>4, <2>5
<1>4. CASE SwapEntries(i, j)
  <2>1. PICK n \in Nat : DOMAIN lines = 1 .. n /\ i \in 1 .. n /\ j \in 1 .. n /\ i < j
    BY <1>1, <1>4 DEF SwapEntries
  <2>2. /\ DOMAIN lines' = 1 .. n /\ lines'[i] = lines[j]
        /\ \A k \in 1 .. n : k # i /\ k # j => lines'[k] = lines[k]
    BY <1>1, <1>4, <2>1 DEF SwapEntries
  <2>3. CASE AllParsed(lines)
    <3>1. \A k \in 1 .. n : lines[k].body.seq = k
      BY <1>1, <2>1, <2>3, ChainedVerifies
    <3>2. lines'[i].body.seq = j
      BY <2>1, <2>2, <3>1
    <3>3. CASE i = 1
      BY <2>1, <2>2, <3>2, <3>3 DEF Verifies, Continues
    <3>4. CASE i # 1
      <4>1. i - 1 \in 1 .. n /\ i - 1 # i /\ i - 1 # j /\ i - 1 + 1 # j
        BY <2>1, <3>4
      <4>2. lines'[i-1].body.seq = i - 1
        BY <2>2, <3>1, <4>1
      <4> QED
        BY <2>1, <2>2, <3>2, <3>4, <4>1, <4>2 DEF Verifies, Continues
    <3> QED
      BY <3>3, <3>4
  <2>4. CASE ~AllParsed(lines)
    <3>1. PICK k \in 1 .. n : ~IsEntry(lines[k])
      BY <2>1, <2>4 DEF AllParsed, Parsed
    <3>2. lines'[k] = lines[k]
      BY <1>4, <2>2, <3>1 DEF SwapEntries
    <3> QED
      BY <2>2, <3>1, <3>2 DEF Verifies
  <2> QED
    BY <2>3, <2>4
<1> QED
  BY <1>2, <1>3, <1>4
\* A write keeps what could be read before it, except on a line it glues to.
LEMMA WrittenReadable ==
  ASSUME NEW S, NEW file \in Seq(S), NEW end, NEW line, NEW cert \in Readable(file),
         end # "clean" => /\ file # << >>
                          /\ IsEntry(file[Len(file)]) => file[Len(file)].body.cert # cert
  PROVE  cert \in Readable(Written(file, end, line))
<1>1. PICK i \in DOMAIN file : IsEntry(file[i]) /\ file[i].body.cert = cert
  BY DEF Readable, Parsed
<1>2. i \in DOMAIN Written(file, end, line) /\ Written(file, end, line)[i] = file[i]
  <2>1. CASE end = "clean"
    BY <2>1 DEF Written
  <2>2. CASE end # "clean"
    <3>1. Written(file, end, line) = [file EXCEPT ![Len(file)] = Garbage]
      BY <2>2 DEF Written
    <3>2. i # Len(file)
      BY <1>1, <2>2
    <3> QED
      BY <3>1, <3>2
  <2> QED
    BY <2>1, <2>2
<1> QED
  BY <1>1, <1>2 DEF Readable, Parsed

\* What an appended entry names can be read.
LEMMA AppendReadable ==
  ASSUME NEW S, NEW file \in Seq(S), NEW cert
  PROVE  Readable(Append(file, NewEntry(file, cert))) = Readable(file) \cup {cert}
<1>1. PICK new : new = NewEntry(file, cert)
  OBVIOUS
<1>2. IsEntry(new) /\ new.body.cert = cert
  BY <1>1 DEF NewEntry, EntryOf, IsEntry
<1>3. PICK longer : longer = Append(file, new)
  OBVIOUS
<1>4. PICK n \in Nat : n = Len(file)
  OBVIOUS
<1>5. /\ DOMAIN file = 1 .. n /\ DOMAIN longer = 1 .. n + 1 /\ longer[n + 1] = new
      /\ \A i \in 1 .. n : longer[i] = file[i]
  BY <1>3, <1>4
<1>6. ASSUME NEW c \in Readable(longer) PROVE c \in Readable(file) \cup {cert}
  <2>1. PICK i \in 1 .. n + 1 : IsEntry(longer[i]) /\ c = longer[i].body.cert
    BY <1>5 DEF Readable, Parsed
  <2>2. CASE i = n + 1
    BY <1>2, <1>5, <2>1, <2>2
  <2>3. CASE i \in 1 .. n
    BY <1>5, <2>1, <2>3 DEF Readable, Parsed
  <2> QED
    BY <2>2, <2>3
<1>7. ASSUME NEW c \in Readable(file) PROVE c \in Readable(longer)
  <2>1. PICK i \in 1 .. n : IsEntry(file[i]) /\ c = file[i].body.cert
    BY <1>5 DEF Readable, Parsed
  <2>2. i \in 1 .. n + 1 /\ longer[i] = file[i]
    BY <1>5
  <2> QED
    BY <1>5, <2>1, <2>2 DEF Readable, Parsed
<1>8. cert \in Readable(longer)
  <2>1. n + 1 \in 1 .. n + 1
    OBVIOUS
  <2> QED
    BY <1>2, <1>5, <2>1 DEF Readable, Parsed
<1> QED
  BY <1>1, <1>3, <1>6, <1>7, <1>8

\* The crashes pay for the records that cannot be read: a line that is cut short loses
\* nothing yet, the record glued to it is lost.
LEMMA AppendPays ==
  ASSUME IsLog, Counts, CrashesPay, NEW cert \in Certs \ recorded, Log(cert) \/ LogTorn(cert)
  PROVE  CrashesPay'
<1>1. PICK S : lines \in Seq(S)
  BY DEF IsLog
<1>2. PICK gone : gone = recorded \ Readable(lines)
  OBVIOUS
<1>3. IsFiniteSet(gone) /\ Cardinality(gone) \in Nat
  BY <1>2, FS_Subset, FS_CardinalityType DEF Counts
<1>4. PICK new : new = NewEntry(lines, cert)
  OBVIOUS
<1>5. ASSUME NEW line, NEW c \in recorded \cap Readable(lines)
      PROVE  c \in Readable(Written(lines, tail, line))
  BY <1>1, WrittenReadable DEF CrashesPay
<1>6. CASE Log(cert)
  <2>1. lines' = Written(lines, tail, new) /\ tail' = "clean" /\ recorded' = recorded \cup {cert}
        /\ crashes' = crashes
    BY <1>4, <1>6 DEF Log
  <2>2. PICK gone2 : gone2 = recorded' \ Readable(lines')
    OBVIOUS
  <2>3. gone2 \in SUBSET (gone \cup {cert})
    BY <1>2, <1>5, <2>1, <2>2
  <2>4. CASE tail = "clean"
    <3>1. lines' = Append(lines, new)
      BY <2>1, <2>4 DEF Written
    <3>2. cert \in Readable(lines')
      BY <1>1, <1>4, <3>1, AppendReadable
    <3>3. gone2 \in SUBSET gone
      BY <2>2, <2>3, <3>2
    <3>4. IsFiniteSet(gone2) /\ Cardinality(gone2) <= Cardinality(gone)
      BY <1>3, <3>3, FS_Subset
    <3>5. Cardinality(gone2) \in Nat
      BY <3>4, FS_CardinalityType
    <3>6. Cardinality(gone2) <= crashes'
      BY <1>2, <1>3, <2>1, <2>4, <3>4, <3>5 DEF CrashesPay, Counts
    <3> QED
      BY <2>1, <2>2, <3>5, <3>6 DEF CrashesPay
  <2>5. CASE tail # "clean"
    <3>1. IsFiniteSet(gone \cup {cert}) /\ Cardinality(gone \cup {cert}) \in Nat
          /\ Cardinality(gone \cup {cert}) <= Cardinality(gone) + 1
      <4>1. PICK more : more = gone \cup {cert}
        OBVIOUS
      <4>2. IsFiniteSet(more)
            /\ Cardinality(more) = IF cert \in gone THEN Cardinality(gone) ELSE Cardinality(gone) + 1
        BY <1>3, <4>1, FS_AddElement
      <4> QED
        BY <1>3, <4>1, <4>2
    <3>2. IsFiniteSet(gone2) /\ Cardinality(gone2) <= Cardinality(gone \cup {cert})
      BY <2>3, <3>1, FS_Subset
    <3>3. Cardinality(gone2) \in Nat
      BY <3>2, FS_CardinalityType
    <3>4. Cardinality(gone) + 1 <= crashes
      BY <1>2, <2>5 DEF CrashesPay
    <3>5. Cardinality(gone2) <= crashes'
      BY <1>3, <2>1, <3>1, <3>2, <3>3, <3>4 DEF Counts
    <3> QED
      BY <2>1, <2>2, <3>3, <3>5 DEF CrashesPay
  <2> QED
    BY <2>4, <2>5
<1>7. CASE LogTorn(cert)
  <2>1. recorded' = recorded /\ crashes' = crashes + 1
    BY <1>7 DEF LogTorn
  <2>2. \/ lines' = lines /\ tail' = tail
        \/ lines' = Written(lines, tail, Garbage) /\ tail' = "cut"
        \/ lines' = Append(lines, new) /\ tail' = "nonl" /\ tail = "clean"
        \/ lines' = Written(lines, tail, new) /\ tail' = "cut" /\ tail # "clean"
    <3>1. PICK torn \in TornWrites(lines, tail, new) : lines' = torn[1] /\ tail' = torn[2]
      BY <1>4, <1>7 DEF LogTorn
    <3>2. \/ torn[1] = lines /\ torn[2] = tail
          \/ torn[1] = Written(lines, tail, Garbage) /\ torn[2] = "cut"
          \/ torn[1] = Append(lines, new) /\ torn[2] = "nonl" /\ tail = "clean"
          \/ torn[1] = Written(lines, tail, new) /\ torn[2] = "cut" /\ tail # "clean"
      BY <3>1 DEF TornWrites
    <3> QED
      BY <3>1, <3>2
  <2>3. \A c \in recorded \cap Readable(lines) : c \in Readable(lines')
    <3>1. tail = "clean" => Append(lines, new) = Written(lines, tail, new)
      BY DEF Written
    <3> QED
      BY <1>5, <2>2, <3>1
  <2>4. recorded' \ Readable(lines') \in SUBSET gone
    BY <1>2, <2>1, <2>3
  <2>5. PICK gone2 : gone2 = recorded' \ Readable(lines')
    OBVIOUS
  <2>6. IsFiniteSet(gone2) /\ Cardinality(gone2) <= Cardinality(gone)
    BY <1>3, <2>4, <2>5, FS_Subset
  <2>7. Cardinality(gone2) \in Nat
    BY <2>6, FS_CardinalityType
  <2>8. Cardinality(gone) <= crashes
    <3>1. Cardinality(gone) + (IF tail = "clean" THEN 0 ELSE 1) <= crashes
      BY <1>2 DEF CrashesPay
    <3> QED
      BY <1>3, <3>1 DEF Counts
  <2>9. Cardinality(gone2) + (IF tail' = "clean" THEN 0 ELSE 1) <= crashes'
    BY <1>3, <2>1, <2>6, <2>7, <2>8 DEF Counts
  <2>10. ASSUME tail' # "clean"
         PROVE  /\ lines' # << >>
                /\ IsEntry(lines'[Len(lines')]) => lines'[Len(lines')].body.cert \notin recorded'
    <3>1. tail # "clean" => lines # << >>
      BY DEF CrashesPay
    <3>2. ~IsEntry(Garbage)
      BY DEF IsEntry, Garbage
    <3>3. ASSUME NEW line PROVE Written(lines, tail, line) # << >>
      <4>1. CASE tail = "clean"
        <5>1. Written(lines, tail, line) = Append(lines, line) /\ lines \in Seq(S \cup {line})
          BY <1>1, <4>1 DEF Written
        <5> QED
          BY <5>1
      <4>2. CASE tail # "clean"
        <5>1. Written(lines, tail, line) = [lines EXCEPT ![Len(lines)] = Garbage]
          BY <4>2 DEF Written
        <5>2. Len(lines) \in DOMAIN lines
          BY <1>1, <3>1, <4>2
        <5> QED
          BY <5>1, <5>2
      <4> QED
        BY <4>1, <4>2
    <3>4. ASSUME NEW line, line = Garbage \/ tail # "clean"
          PROVE  ~IsEntry(Written(lines, tail, line)[Len(Written(lines, tail, line))])
      <4>1. CASE tail = "clean"
        <5>1. Written(lines, tail, line) = Append(lines, Garbage) /\ lines \in Seq(S \cup {Garbage})
          BY <1>1, <3>4, <4>1 DEF Written
        <5>2. Append(lines, Garbage)[Len(Append(lines, Garbage))] = Garbage
          BY <5>1
        <5> QED
          BY <3>2, <5>1, <5>2
      <4>2. CASE tail # "clean"
        <5>1. Written(lines, tail, line) = [lines EXCEPT ![Len(lines)] = Garbage]
              /\ lines \in Seq(S \cup {Garbage})
          BY <1>1, <4>2 DEF Written
        <5>2. Len(lines) \in DOMAIN lines
          BY <1>1, <3>1, <4>2
        <5>3. /\ Len([lines EXCEPT ![Len(lines)] = Garbage]) = Len(lines)
              /\ [lines EXCEPT ![Len(lines)] = Garbage][Len(lines)] = Garbage
          BY <5>1, <5>2
        <5> QED
          BY <3>2, <5>1, <5>3
      <4> QED
        BY <4>1, <4>2
    <3>5. CASE lines' = lines /\ tail' = tail
      BY <2>1, <2>10, <3>5 DEF CrashesPay
    <3>6. CASE \E line : lines' = Written(lines, tail, line) /\ (line = Garbage \/ tail # "clean")
      BY <3>3, <3>4, <3>6
    <3>7. CASE lines' = Append(lines, new)
      <4>1. lines \in Seq(S \cup {new}) /\ new.body.cert = cert
        BY <1>1, <1>4 DEF NewEntry, EntryOf
      <4>2. Append(lines, new) # << >> /\ Append(lines, new)[Len(Append(lines, new))] = new
        BY <4>1
      <4> QED
        BY <2>1, <3>7, <4>1, <4>2
    <3> QED
      BY <2>2, <3>5, <3>6, <3>7
  <2> QED
    BY <2>5, <2>9, <2>10 DEF CrashesPay
<1> QED
  BY <1>6, <1>7
-----------------------------------------------------------------------------
(* The theorems.                                                            *)

\* Every step keeps the log an unedited log, or has the edit counted.
LEMMA StepKeepsV == VInv /\ [NextAudit]_avars => VInv'
<1> SUFFICES ASSUME VInv, [NextAudit]_avars PROVE VInv'
  OBVIOUS
<1>1. IsLog /\ Counts /\ ChainedUntilEdited /\ (tampers = 0 => CrashesPay)
  BY DEF VInv
<1>2. IsLog'
  BY <1>1, StepKeepsLog
<1>3. PICK S : lines \in Seq(S)
  BY <1>1 DEF IsLog
<1>4. CASE UNCHANGED avars
  <2>1. Counts' /\ ChainedUntilEdited' /\ (tampers' = 0 => CrashesPay')
    BY ZenonT(60), <1>1, <1>4 DEF avars, Counts, ChainedUntilEdited, CrashesPay, AllParsed, Parsed, Chained, LinkOf
  <2> QED
    BY <1>2, <2>1 DEF VInv
<1>5. ASSUME NEW cert \in Certs \ (recorded \cup Readable(lines)), Log(cert) \/ LogTorn(cert)
      PROVE  VInv'
  <2>1. Counts' /\ tampers' = tampers
    <3>1. recorded' = recorded \/ recorded' = recorded \cup {cert}
      BY <1>5 DEF Log, LogTorn
    <3>2. IsFiniteSet(recorded')
      BY <1>1, <3>1, FS_AddElement DEF Counts
    <3> QED
      BY <1>1, <1>5, <3>2 DEF Counts, Log, LogTorn
  <2>2. tampers' = 0 => CrashesPay'
    BY <1>1, <1>5, <2>1, AppendPays
  <2>3. tampers' = 0 /\ AllParsed(lines)' => Chained(lines)'
    BY <1>1, <1>5, <2>1, AppendKeepsChained DEF ChainedUntilEdited
  <2>4. ASSUME tampers' = 0, crashes' = 0
        PROVE  tail' = "clean" /\ AllParsed(lines)' /\ Readable(lines)' = recorded'
    <3>1. Log(cert)
      BY <1>1, <1>5, <2>4 DEF LogTorn, Counts
    <3>2. tail = "clean" /\ AllParsed(lines) /\ Readable(lines) = recorded /\ Chained(lines)
      BY <1>1, <2>1, <2>4, <3>1 DEF ChainedUntilEdited, Log
    <3>3. lines' = Append(lines, NewEntry(lines, cert)) /\ tail' = "clean"
          /\ recorded' = recorded \cup {cert}
      BY <3>1, <3>2 DEF Log, Written
    <3>4. PICK longer : longer = Append(lines, NewEntry(lines, cert))
      OBVIOUS
    <3>5. Chained(longer) /\ \E T : longer \in Seq(T)
      BY <1>2, <1>3, <3>2, <3>3, <3>4, AppendChains DEF IsLog
    <3>6. AllParsed(longer)
      BY <3>5, ChainedVerifies
    <3>7. Readable(longer) = recorded'
      BY <1>3, <3>2, <3>3, <3>4, AppendReadable
    <3> QED
      BY <3>3, <3>4, <3>6, <3>7 DEF AllParsed, Readable, Parsed
  <2>5. tampers' = 1 => ~Verifies(lines)'
    <3>1. CASE tampers # 1
      BY <2>1, <3>1
    <3>2. CASE tampers = 1
      <4>1. ~Verifies(lines)
        BY <1>1, <3>2 DEF ChainedUntilEdited
      <4>2. lines' = lines \/ \E end, line : lines' = Written(lines, end, line)
        BY <1>5, AppendWrites
      <4> QED
        BY <1>3, <4>1, <4>2, WrittenNeverRepairs DEF Verifies, Continues
    <3> QED
      BY <3>1, <3>2
  <2> QED
    BY <1>2, <2>1, <2>2, <2>3, <2>4, <2>5 DEF VInv, ChainedUntilEdited
<1>6. ASSUME NEW i \in DOMAIN lines, NEW j \in DOMAIN lines,
             EditEntry(i) \/ DeleteEntry(i) \/ SwapEntries(i, j)
      PROVE  VInv'
  <2>1. Counts' /\ tampers' = tampers + 1
    BY <1>1, <1>6 DEF Counts, EditEntry, DeleteEntry, SwapEntries, MayTamper
  <2>2. tampers' # 0
    BY <1>1, <2>1 DEF Counts
  <2>3. tampers' = 1 => ~Verifies(lines')
    <3>1. HAVE tampers' = 1
    <3>2. AllParsed(lines) => Chained(lines)
      BY <1>1, <2>1, <3>1 DEF Counts, ChainedUntilEdited
    <3> QED
      BY <1>1, <1>6, <3>2, EditBreaks
  <2>4. ChainedUntilEdited'
    BY <2>2, <2>3 DEF ChainedUntilEdited, Verifies, Continues
  <2> QED
    BY <1>2, <2>1, <2>2, <2>4 DEF VInv
<1> QED
  BY <1>4, <1>5, <1>6 DEF NextAudit

\* The empty log is unedited, and no crash has to pay for anything.
LEMMA InitIsV == InitAudit => VInv
<1> SUFFICES ASSUME InitAudit PROVE VInv
  OBVIOUS
<1>1. /\ lines = << >> /\ tail = "clean" /\ recorded = {} /\ crashes = 0 /\ tampers = 0
  BY DEF InitAudit
<1>2. IsLog /\ Counts
  <2>1. lines \in Seq({})
    BY <1>1
  <2> QED
    BY <1>1, <2>1, FS_EmptySet DEF IsLog, Counts
<1>3. AllParsed(lines) /\ Chained(lines) /\ Readable(lines) = recorded
  BY <1>1 DEF AllParsed, Parsed, Chained, Readable
<1>4. CrashesPay
  <2>1. recorded \ Readable(lines) = {}
    BY <1>1
  <2> QED
    BY <1>1, <2>1, FS_EmptySet DEF CrashesPay
<1> QED
  BY <1>1, <1>2, <1>3, <1>4 DEF VInv, ChainedUntilEdited

\* So it holds for ever.
LEMMA SpecKeepsV == SpecAudit => []VInv
BY InitIsV, StepKeepsV, PTL DEF SpecAudit

\* verify() is exact for any number of torn writes, as long as the file was edited at most
\* once: it reports every edit but of the end of the log, and nothing but an edit or a torn
\* write.  Two edits may undo each other (audit.py verify).
THEOREM VerifyFindsTheEdit == SpecAudit => [](tampers <= 1 => VerifyIsExact)
<1>1. VInv => (tampers <= 1 => VerifyIsExact)
  <2> SUFFICES ASSUME VInv, tampers <= 1 PROVE TamperingIsReported /\ UntouchedLogVerifies
    BY DEF VerifyIsExact
  <2>1. TamperingIsReported
    <3>1. tampers > 0 => tampers = 1
      BY DEF VInv, Counts
    <3> QED
      BY <3>1 DEF VInv, ChainedUntilEdited, TamperingIsReported
  <2>2. ASSUME tampers = 0, crashes = 0
        PROVE  Verifies(lines) /\ Readable(lines) = recorded
               /\ \A i \in DOMAIN lines : lines[i].body.seq = i
    <3>1. Chained(lines) /\ Readable(lines) = recorded
      BY <2>2 DEF VInv, ChainedUntilEdited
    <3>2. PICK S : lines \in Seq(S)
      BY DEF VInv, IsLog
    <3>3. \A i \in DOMAIN lines : lines[i].body.seq = i
      BY <3>1, <3>2, ChainedVerifies
    <3>4. Verifies(lines)
      BY <3>1, <3>2, ChainedVerifies
    <3> QED
      BY <3>1, <3>3, <3>4
  <2> QED
    BY <2>1, <2>2 DEF UntouchedLogVerifies
<1> QED
  BY <1>1, SpecKeepsV, PTL

\* A crash in the middle of append() costs at most one record, that of the next append,
\* which is glued to the torn line; so no more records are unreadable than writes were torn,
\* for any number of both (audit.py append).
THEOREM CrashesCostOneRecordEach == SpecAudit => []TornWriteCostsOneRecord
<1>1. VInv => TornWriteCostsOneRecord
  <2> SUFFICES ASSUME VInv, tampers = 0 PROVE Cardinality(recorded \ Readable(lines)) <= crashes
    BY DEF TornWriteCostsOneRecord
  <2>1. PICK gone : gone = recorded \ Readable(lines)
    OBVIOUS
  <2>2. IsFiniteSet(gone)
    BY <2>1, FS_Subset DEF VInv, Counts
  <2>3. Cardinality(gone) \in Nat /\ crashes \in Nat
    BY <2>2, FS_CardinalityType DEF VInv, Counts
  <2>4. Cardinality(gone) + (IF tail = "clean" THEN 0 ELSE 1) <= crashes
    BY <2>1 DEF VInv, CrashesPay
  <2> QED
    BY <2>1, <2>3, <2>4
<1> QED
  BY <1>1, SpecKeepsV, PTL

\* "A broken chain never repairs itself" (audit.py append, verify): a log that fails
\* verification fails it for good, whatever is appended or torn afterwards.
THEOREM BrokenChainsStayBroken == SpecAudit => BrokenChainStaysBroken
<1>1. InitAudit => LogInv
  BY DEF InitAudit, IsLog, LogInv
<1>2. LogInv /\ [NextAudit]_avars => LogInv'
  BY StepKeepsLog, StepCounts DEF LogInv
<1>3. LogInv /\ [NextAudit]_avars
        => [(~Verifies(lines) /\ tampers' = tampers) => ~Verifies(lines')]_avars
  BY StepNeverRepairs DEF LogInv
<1> QED
  BY <1>1, <1>2, <1>3, PTL DEF SpecAudit, BrokenChainStaysBroken

-----------------------------------------------------------------------------
(* The keyring.                                                             *)

USE KeyringAssumption DEF Copies

(* The strengthening.  A key belongs to one vault name, wherever it shows   *)
(* up; a ceremony knows the entry it works on; a certified key is absent    *)
(* from the disk, so in particular no escrow copy is left to recover from.  *)

RegisteredAreUsed == \A n \in Names : meta[n] # None => meta[n].key \in used
StoredAreUsed ==
  \A copy \in Copies, n \in Names :
     stored[copy][n] \in Keys => stored[copy][n] \in used
CertifiedAreUsed == \A c \in certificates : c.key \in used

\* A registered key is found under its own name only.
KeysHaveOneName ==
  \A n, m \in Names : \A copy \in Copies :
     (meta[n] # None /\ stored[copy][m] = meta[n].key) => m = n

\* Creating: the new key is nobody else's and no certificate names it.
CreatingFreshKey ==
  op.pc \in {"write", "open", "save"} =>
     /\ op.kind = "create"
     /\ op.name \in Names /\ op.entry \in EntryType
     /\ meta[op.name] = None
     /\ op.entry.key \in used
     /\ \A c \in certificates : c.key # op.entry.key
     /\ \A n \in Names : meta[n] # None => meta[n].key # op.entry.key
     /\ \A copy \in Copies, n \in Names :
           stored[copy][n] = op.entry.key => n = op.name

\* Burning: the entry is the registered one, and the copies already passed are gone.
BurningRegisteredKey ==
  /\ op.pc = "next" => /\ op.kind \in {"destroy", "master"}
                       /\ \A n \in op.queue : meta[n] # None
  /\ op.pc \in {"burn", "unlink", "certify", "log", "forget"} =>
       /\ op.kind \in {"destroy", "master", "recover"}
       /\ op.name \in Names /\ op.entry \in EntryType
       /\ op.entry = meta[op.name]
  /\ op.pc \in {"burn", "unlink"} =>
       /\ op.kind \in {"destroy", "master"}
       /\ op.copy = "escrow" => stored["keyring"][op.name] = Absent
  /\ op.pc = "unlink" => stored[op.copy][op.name] = Junk
  /\ (op.pc \in {"certify", "log", "forget"} /\ op.kind # "recover") =>
       \A copy \in Copies : stored[copy][op.name] = Absent
  /\ op.pc = "forget" => op.kind # "recover"
  /\ op.pc \in {"burn", "unlink", "certify", "log", "forget"} =>
       \A n \in op.queue : meta[n] # None /\ n # op.name

\* Recovering: the escrow copy that is being restored is still there.
RecoveringFromEscrow ==
  op.pc = "install" =>
     /\ op.kind = "recover"
     /\ op.name \in Names /\ op.entry \in EntryType
     /\ op.entry = meta[op.name]
     /\ stored["escrow"][op.name] = op.entry.key
     /\ op.queue = {}

IInv ==
  /\ TypeOK
  /\ RegisteredAreUsed /\ StoredAreUsed /\ CertifiedAreUsed
  /\ KeysHaveOneName
  /\ CreatingFreshKey
  /\ BurningRegisteredKey
  /\ RecoveringFromEscrow
  /\ CertifiedKeyIsGone

\* The invariant holds of the empty keyring.
LEMMA InitEstablishes == Init => IInv
BY DEF Init, KInit, IInv, TypeOK, NoOp, FileValues, EntryType, OpType, CertificateType,
   RegisteredAreUsed, StoredAreUsed, CertifiedAreUsed, KeysHaveOneName,
   CreatingFreshKey, BurningRegisteredKey, RecoveringFromEscrow, CertifiedKeyIsGone,
   Deletions

\* Every ceremony step, crash and loss preserves it.
LEMMA StepPreserves == IInv /\ [Next]_vars => IInv'
<1> SUFFICES ASSUME IInv, [Next]_vars PROVE IInv'
  OBVIOUS
<1> USE DEF IInv
<1>1. ASSUME NEW n \in Names, NEW escrow \in BOOLEAN, CreateVault(n, escrow)
      PROVE  IInv'
  <2> USE <1>1 DEF CreateVault, Idle, Registered, Put, NoOp
  <2>1. TypeOK'
    <3>1. PICK k \in Keys \ used :
            /\ used' = used \cup {k}
            /\ op' = [NoOp EXCEPT !.pc = "write", !.kind = "create", !.name = n,
                                  !.entry = [key |-> k, escrow |-> escrow]]
      OBVIOUS
    <3>2. [key |-> k, escrow |-> escrow] \in EntryType
      BY <3>1 DEF EntryType
    <3>3. op' \in OpType
      BY <3>1, <3>2 DEF OpType
    <3>4. stored' \in [Copies -> [Names -> FileValues]]
      BY DEF TypeOK, FileValues
    <3>5. used' \subseteq Keys
      BY <3>1 DEF TypeOK
    <3> QED
      BY <3>3, <3>4, <3>5 DEF TypeOK
  <2>2. KeysHaveOneName'
    BY DEF KeysHaveOneName, TypeOK, OpType, EntryType
  <2>3. CreatingFreshKey'
    BY DEF CreatingFreshKey, TypeOK, OpType, EntryType,
           StoredAreUsed, RegisteredAreUsed, CertifiedAreUsed, FileValues
  <2>4. CertifiedKeyIsGone'
    BY DEF CertifiedKeyIsGone, Deletions, TypeOK, OpType,
           EntryType, StoredAreUsed, RegisteredAreUsed, CertifiedAreUsed, FileValues
  <2>5. RegisteredAreUsed' /\ StoredAreUsed' /\ CertifiedAreUsed'
        /\ BurningRegisteredKey' /\ RecoveringFromEscrow'
    BY DEF RegisteredAreUsed, StoredAreUsed, CertifiedAreUsed, BurningRegisteredKey,
           RecoveringFromEscrow
  <2> QED
    BY <2>1, <2>2, <2>3, <2>4, <2>5
<1>2. CASE WriteCopy
  <2> USE <1>2 DEF WriteCopy, Put, Goto
  <2>1. TypeOK'
    BY DEF TypeOK, OpType, EntryType, FileValues, CreatingFreshKey
  <2>2. StoredAreUsed'
    BY DEF StoredAreUsed, TypeOK, OpType, EntryType, CreatingFreshKey
  <2>3. KeysHaveOneName'
    BY DEF KeysHaveOneName, TypeOK, OpType, EntryType,
           CreatingFreshKey
  <2>4. CertifiedKeyIsGone'
    BY DEF CertifiedKeyIsGone, Deletions, TypeOK, OpType,
           EntryType, CreatingFreshKey
  <2>5. RegisteredAreUsed' /\ CertifiedAreUsed' /\ CreatingFreshKey'
        /\ BurningRegisteredKey' /\ RecoveringFromEscrow'
    BY DEF RegisteredAreUsed, CertifiedAreUsed, CreatingFreshKey, BurningRegisteredKey,
           RecoveringFromEscrow
  <2> QED
    BY <2>1, <2>2, <2>3, <2>4, <2>5
<1>3. CASE OpenEscrow
  <2> USE <1>3 DEF OpenEscrow, Put
  <2>1. TypeOK'
    BY DEF TypeOK, OpType, EntryType, FileValues
  <2>2. KeysHaveOneName'
    BY DEF KeysHaveOneName, TypeOK, OpType, EntryType
  <2>3. CertifiedKeyIsGone'
    BY DEF CertifiedKeyIsGone, Deletions, TypeOK, OpType,
           EntryType, StoredAreUsed, RegisteredAreUsed, CertifiedAreUsed, FileValues
  <2>4. RegisteredAreUsed' /\ StoredAreUsed' /\ CertifiedAreUsed' /\ CreatingFreshKey'
        /\ BurningRegisteredKey' /\ RecoveringFromEscrow'
    BY DEF RegisteredAreUsed, StoredAreUsed, CertifiedAreUsed, CreatingFreshKey,
           BurningRegisteredKey, RecoveringFromEscrow
  <2> QED
    BY <2>1, <2>2, <2>3, <2>4
<1>4. CASE SaveEntry
  <2> USE <1>4 DEF SaveEntry, NoOp
  <2>1. TypeOK'
    BY DEF TypeOK, OpType
  <2>2. RegisteredAreUsed'
    BY DEF RegisteredAreUsed, TypeOK, OpType, EntryType,
           CreatingFreshKey
  <2>3. KeysHaveOneName'
    BY DEF KeysHaveOneName, TypeOK, OpType, EntryType,
           CreatingFreshKey
  <2>4. StoredAreUsed' /\ CertifiedAreUsed' /\ CreatingFreshKey' /\ BurningRegisteredKey'
        /\ RecoveringFromEscrow' /\ CertifiedKeyIsGone'
    BY DEF StoredAreUsed, CertifiedAreUsed, CreatingFreshKey, BurningRegisteredKey,
           RecoveringFromEscrow, CertifiedKeyIsGone, Deletions
  <2> QED
    BY <2>1, <2>2, <2>3, <2>4
<1>5. ASSUME NEW kind \in {"destroy", "master"}, NEW names \in SUBSET Registered,
             StartBurn(kind, names)
      PROVE  IInv'
  <2> USE <1>5 DEF StartBurn, NoOp, Registered, Idle
  <2>1. TypeOK'
    BY DEF TypeOK, OpType
  <2>2. RegisteredAreUsed' /\ StoredAreUsed' /\ CertifiedAreUsed' /\ KeysHaveOneName'
        /\ CreatingFreshKey' /\ BurningRegisteredKey' /\ RecoveringFromEscrow'
        /\ CertifiedKeyIsGone'
    BY DEF RegisteredAreUsed, StoredAreUsed, CertifiedAreUsed, KeysHaveOneName,
           CreatingFreshKey, BurningRegisteredKey, RecoveringFromEscrow, CertifiedKeyIsGone,
           Deletions
  <2> QED
    BY <2>1, <2>2
<1>6. CASE NextVault
  <2>0. op.pc = "next" /\ UNCHANGED <<stored, meta, certificates, used, made, lost>>
    BY <1>6 DEF NextVault
  <2>1. RegisteredAreUsed' /\ StoredAreUsed' /\ CertifiedAreUsed' /\ KeysHaveOneName'
        /\ CertifiedKeyIsGone'
    BY <2>0 DEF RegisteredAreUsed, StoredAreUsed, CertifiedAreUsed, KeysHaveOneName,
           CertifiedKeyIsGone, Deletions
  <2>2. CASE op' = NoOp
    <3>1. TypeOK'
      BY <2>0, <2>2 DEF TypeOK, OpType, NoOp
    <3>2. CreatingFreshKey' /\ BurningRegisteredKey' /\ RecoveringFromEscrow'
      BY <2>0, <2>2 DEF NoOp, CreatingFreshKey, BurningRegisteredKey, RecoveringFromEscrow
    <3> QED
      BY <2>1, <3>1, <3>2
  <2>3. ASSUME NEW n \in op.queue,
               op' = [op EXCEPT !.pc = "burn", !.name = n, !.entry = meta[n],
                                !.copy = "keyring", !.kills = {}, !.queue = @ \ {n}]
        PROVE  IInv'
    <3>1. n \in Names /\ meta[n] # None /\ meta[n] \in EntryType
      BY <2>0 DEF TypeOK, OpType, BurningRegisteredKey
    <3>2. op.kind \in {"destroy", "master"}
      BY <2>0 DEF BurningRegisteredKey
    <3>3. op' \in OpType
      BY <2>3, <3>1 DEF TypeOK, OpType
    <3>4. TypeOK'
      BY <2>0, <3>3 DEF TypeOK
    <3>5. op'.pc = "burn" /\ op'.kind = op.kind /\ op'.name = n /\ op'.entry = meta[n]
          /\ op'.copy = "keyring" /\ op'.queue = op.queue \ {n}
      BY <2>3 DEF TypeOK, OpType
    <3>6. BurningRegisteredKey'
      BY <2>0, <3>1, <3>2, <3>5 DEF BurningRegisteredKey
    <3>7. CreatingFreshKey' /\ RecoveringFromEscrow'
      BY <3>5 DEF CreatingFreshKey, RecoveringFromEscrow
    <3> QED
      BY <2>1, <3>4, <3>6, <3>7
  <2> QED
    BY <1>6, <2>2, <2>3 DEF NextVault
<1>7. CASE SkipAbsentCopy
  <2> USE <1>7 DEF SkipAbsentCopy, AfterCopy
  <2>1. TypeOK'
    BY DEF TypeOK, OpType
  <2>2. BurningRegisteredKey'
    BY DEF BurningRegisteredKey, TypeOK, OpType, EntryType
  <2>3. RegisteredAreUsed' /\ StoredAreUsed' /\ CertifiedAreUsed' /\ KeysHaveOneName'
        /\ CreatingFreshKey' /\ RecoveringFromEscrow' /\ CertifiedKeyIsGone'
    BY DEF RegisteredAreUsed, StoredAreUsed, CertifiedAreUsed, KeysHaveOneName,
           CreatingFreshKey, RecoveringFromEscrow, CertifiedKeyIsGone, Deletions
  <2> QED
    BY <2>1, <2>2, <2>3
<1>8. CASE OverwriteCopy
  <2> USE <1>8 DEF OverwriteCopy, Put, Goto
  <2>1. TypeOK'
    BY DEF TypeOK, OpType, EntryType, FileValues
  <2>2. KeysHaveOneName'
    BY DEF KeysHaveOneName, TypeOK, OpType, EntryType
  <2>3. BurningRegisteredKey'
    BY DEF BurningRegisteredKey, TypeOK, OpType, EntryType
  <2>4. CertifiedKeyIsGone'
    BY DEF CertifiedKeyIsGone, Deletions, TypeOK, OpType,
           EntryType, StoredAreUsed, RegisteredAreUsed, CertifiedAreUsed, FileValues
  <2>5. RegisteredAreUsed' /\ StoredAreUsed' /\ CertifiedAreUsed' /\ CreatingFreshKey'
        /\ RecoveringFromEscrow'
    BY DEF RegisteredAreUsed, StoredAreUsed, CertifiedAreUsed, CreatingFreshKey,
           RecoveringFromEscrow
  <2> QED
    BY <2>1, <2>2, <2>3, <2>4, <2>5
<1>9. CASE UnlinkCopy
  <2> USE <1>9 DEF UnlinkCopy, Put, AfterCopy
  <2>1. TypeOK'
    BY DEF TypeOK, OpType, EntryType, FileValues
  <2>2. KeysHaveOneName'
    BY DEF KeysHaveOneName, TypeOK, OpType, EntryType
  <2>3. BurningRegisteredKey'
    BY DEF BurningRegisteredKey, TypeOK, OpType, EntryType
  <2>4. CertifiedKeyIsGone'
    BY DEF CertifiedKeyIsGone, Deletions, TypeOK, OpType,
           EntryType, StoredAreUsed, RegisteredAreUsed, CertifiedAreUsed, FileValues
  <2>5. RegisteredAreUsed' /\ StoredAreUsed' /\ CertifiedAreUsed' /\ CreatingFreshKey'
        /\ RecoveringFromEscrow'
    BY DEF RegisteredAreUsed, StoredAreUsed, CertifiedAreUsed, CreatingFreshKey,
           RecoveringFromEscrow
  <2> QED
    BY <2>1, <2>2, <2>3, <2>4, <2>5
<1>10. CASE IssueCertificate
  <2> USE <1>10 DEF IssueCertificate
  <2>1. TypeOK'
    <3> DEFINE id == NewCertId
    <3>0. id \in Certs
      <4>1. certificates \subseteq CertificateType
        BY DEF TypeOK
      <4>2. CertIds \subseteq Certs
        BY <4>1 DEF CertIds, CertificateType
      <4> QED
        BY <4>2 DEF NewCertId
    <3>1. /\ certificates' = certificates \cup
                 {[id |-> id, vault |-> op.name, key |-> op.entry.key, copies |-> op.kills,
                   type |-> IF op.kind = "recover" THEN "recovery" ELSE "deletion"]}
          /\ op' = [op EXCEPT !.pc = "log", !.cert = id]
      OBVIOUS
    <3> HIDE DEF id
    <3>2. op.name \in Names /\ op.entry.key \in Keys /\ op.kills \subseteq Copies
      BY DEF BurningRegisteredKey, TypeOK, OpType, EntryType
    <3>3. certificates' \subseteq CertificateType
      BY <3>0, <3>1, <3>2 DEF TypeOK, CertificateType
    <3>4. op' \in OpType
      BY <3>0, <3>1 DEF TypeOK, OpType
    <3> QED
      BY <3>3, <3>4 DEF TypeOK
  <2>2. CertifiedAreUsed'
    BY DEF CertifiedAreUsed, TypeOK, OpType, EntryType,
           BurningRegisteredKey, RegisteredAreUsed
  <2>3. CertifiedKeyIsGone'
    BY DEF CertifiedKeyIsGone, Deletions, TypeOK, OpType,
           EntryType, BurningRegisteredKey, KeysHaveOneName
  <2>4. RegisteredAreUsed' /\ StoredAreUsed' /\ KeysHaveOneName' /\ CreatingFreshKey'
        /\ BurningRegisteredKey' /\ RecoveringFromEscrow'
    BY DEF RegisteredAreUsed, StoredAreUsed, KeysHaveOneName, CreatingFreshKey,
           BurningRegisteredKey, RecoveringFromEscrow
  <2> QED
    BY <2>1, <2>2, <2>3, <2>4
<1>11. CASE LogCertificate
  <2> USE <1>11 DEF LogCertificate, NoOp, Goto
  <2>1. TypeOK'
    BY DEF TypeOK, OpType
  <2>2. CreatingFreshKey'
    BY DEF CreatingFreshKey, TypeOK, OpType, EntryType
  <2>3. BurningRegisteredKey'
    BY DEF BurningRegisteredKey, TypeOK, OpType, EntryType
  <2>4. RecoveringFromEscrow'
    BY DEF RecoveringFromEscrow, TypeOK, OpType, EntryType
  <2>5. RegisteredAreUsed' /\ StoredAreUsed' /\ CertifiedAreUsed' /\ KeysHaveOneName'
        /\ CertifiedKeyIsGone'
    BY DEF RegisteredAreUsed, StoredAreUsed, CertifiedAreUsed, KeysHaveOneName,
           CertifiedKeyIsGone, Deletions
  <2> QED
    BY <2>1, <2>2, <2>3, <2>4, <2>5
<1>12. CASE ForgetVault
  <2> USE <1>12 DEF ForgetVault, Goto
  <2>1. TypeOK'
    BY DEF TypeOK, OpType
  <2>2. RegisteredAreUsed' /\ StoredAreUsed' /\ CertifiedAreUsed' /\ KeysHaveOneName'
        /\ CreatingFreshKey' /\ BurningRegisteredKey' /\ RecoveringFromEscrow'
        /\ CertifiedKeyIsGone'
    BY DEF RegisteredAreUsed, StoredAreUsed, CertifiedAreUsed, KeysHaveOneName,
           CreatingFreshKey, BurningRegisteredKey, RecoveringFromEscrow, CertifiedKeyIsGone,
           Deletions
  <2> QED
    BY <2>1, <2>2
<1>13. ASSUME NEW n \in Names, RecoverVault(n)
      PROVE  IInv'
  <2> USE <1>13 DEF RecoverVault, Recoverable, EscrowUsable, Registered, Idle, Put, NoOp
  <2>1. TypeOK'
    BY DEF TypeOK, OpType, EntryType, FileValues
  <2>2. KeysHaveOneName'
    BY DEF KeysHaveOneName, TypeOK, OpType, EntryType
  <2>3. RecoveringFromEscrow'
    BY DEF RecoveringFromEscrow, TypeOK, OpType, EntryType
  <2>4. CertifiedKeyIsGone'
    BY DEF CertifiedKeyIsGone, Deletions, TypeOK, OpType,
           EntryType, StoredAreUsed, RegisteredAreUsed, CertifiedAreUsed, FileValues
  <2>5. RegisteredAreUsed' /\ StoredAreUsed' /\ CertifiedAreUsed' /\ CreatingFreshKey'
        /\ BurningRegisteredKey'
    BY DEF RegisteredAreUsed, StoredAreUsed, CertifiedAreUsed, CreatingFreshKey,
           BurningRegisteredKey
  <2> QED
    BY <2>1, <2>2, <2>3, <2>4, <2>5
<1>14. CASE InstallKey
  <2> USE <1>14 DEF InstallKey, Put, Goto
  <2>1. TypeOK'
    BY DEF TypeOK, OpType, EntryType, FileValues, RecoveringFromEscrow
  <2>2. StoredAreUsed'
    BY DEF StoredAreUsed, TypeOK, OpType, EntryType,
           RecoveringFromEscrow
  <2>3. KeysHaveOneName'
    BY DEF KeysHaveOneName, TypeOK, OpType, EntryType,
           RecoveringFromEscrow
  <2>4. BurningRegisteredKey'
    BY DEF BurningRegisteredKey, RecoveringFromEscrow, TypeOK, OpType
  <2>5. CertifiedKeyIsGone'
    BY DEF CertifiedKeyIsGone, Deletions, TypeOK, OpType,
           EntryType, RecoveringFromEscrow
  <2>6. RegisteredAreUsed' /\ CertifiedAreUsed' /\ CreatingFreshKey'
        /\ RecoveringFromEscrow'
    BY DEF RegisteredAreUsed, CertifiedAreUsed, CreatingFreshKey, RecoveringFromEscrow
  <2> QED
    BY <2>1, <2>2, <2>3, <2>4, <2>5, <2>6
<1>15. CASE Crash
  <2> USE <1>15 DEF Crash, NoOp
  <2>1. TypeOK'
    BY DEF TypeOK, OpType
  <2>2. RegisteredAreUsed' /\ StoredAreUsed' /\ CertifiedAreUsed' /\ KeysHaveOneName'
        /\ CreatingFreshKey' /\ BurningRegisteredKey' /\ RecoveringFromEscrow'
        /\ CertifiedKeyIsGone'
    BY DEF RegisteredAreUsed, StoredAreUsed, CertifiedAreUsed, KeysHaveOneName,
           CreatingFreshKey, BurningRegisteredKey, RecoveringFromEscrow, CertifiedKeyIsGone,
           Deletions
  <2> QED
    BY <2>1, <2>2
<1>16. ASSUME NEW copy \in Copies, NEW n \in Names, LoseCopy(copy, n)
      PROVE  IInv'
  <2> USE <1>16 DEF LoseCopy, Idle, Put
  <2>1. TypeOK'
    BY DEF TypeOK, OpType, EntryType, FileValues
  <2>2. KeysHaveOneName'
    BY DEF KeysHaveOneName, TypeOK, OpType, EntryType
  <2>3. CertifiedKeyIsGone'
    BY DEF CertifiedKeyIsGone, Deletions, TypeOK, OpType,
           EntryType, StoredAreUsed, RegisteredAreUsed, CertifiedAreUsed, FileValues
  <2>4. RegisteredAreUsed' /\ StoredAreUsed' /\ CertifiedAreUsed' /\ CreatingFreshKey'
        /\ BurningRegisteredKey' /\ RecoveringFromEscrow'
    BY DEF RegisteredAreUsed, StoredAreUsed, CertifiedAreUsed, CreatingFreshKey,
           BurningRegisteredKey, RecoveringFromEscrow
  <2> QED
    BY <2>1, <2>2, <2>3, <2>4
<1>18. CASE RefuseKey
  <2> USE <1>18 DEF RefuseKey, Put, NoOp
  <2>1. TypeOK'
    BY DEF TypeOK, OpType, EntryType, FileValues, RecoveringFromEscrow
  <2>2. KeysHaveOneName' /\ StoredAreUsed'
    BY DEF KeysHaveOneName, StoredAreUsed, TypeOK, OpType, EntryType, RecoveringFromEscrow
  <2>3. CertifiedKeyIsGone'
    BY DEF CertifiedKeyIsGone, Deletions, TypeOK, OpType,
           EntryType, CertificateType, RecoveringFromEscrow
  <2>4. RegisteredAreUsed' /\ CertifiedAreUsed' /\ CreatingFreshKey'
        /\ BurningRegisteredKey' /\ RecoveringFromEscrow'
    BY DEF RegisteredAreUsed, CertifiedAreUsed, CreatingFreshKey,
           BurningRegisteredKey, RecoveringFromEscrow
  <2> QED
    BY <2>1, <2>2, <2>3, <2>4
<1>17. CASE UNCHANGED vars
  <2> USE <1>17 DEF vars, kvars
  <2>1. TypeOK'
    BY DEF TypeOK, OpType
  <2>2. RegisteredAreUsed' /\ StoredAreUsed' /\ CertifiedAreUsed' /\ KeysHaveOneName'
        /\ CreatingFreshKey' /\ BurningRegisteredKey' /\ RecoveringFromEscrow'
        /\ CertifiedKeyIsGone'
    BY DEF RegisteredAreUsed, StoredAreUsed, CertifiedAreUsed, KeysHaveOneName,
           CreatingFreshKey, BurningRegisteredKey, RecoveringFromEscrow, CertifiedKeyIsGone,
           Deletions
  <2> QED
    BY <2>1, <2>2
<1> QED
  BY <1>1, <1>2, <1>3, <1>4, <1>5, <1>6, <1>7, <1>8, <1>9, <1>10, <1>11, <1>12, <1>13, <1>14, <1>15, <1>16, <1>17, <1>18
  DEF Next, Ceremony, DestroyVault, DestroyMaster, Registered

\* Files, entries, certificates and the running ceremony keep their types, whatever the
\* vaults, crashes and losses.
THEOREM TypeCorrect == Spec => []TypeOK
<1>1. IInv => TypeOK
  BY DEF IInv
<1> QED
  BY <1>1, InitEstablishes, StepPreserves, PTL DEF Spec

\* The promise of a deletion certificate (destroy_vault, destroy_master, recover_vault):
\* no copy of a certified key is ever on disk again, under any vault name.
THEOREM CertifiedKeysStayGone == Spec => []CertifiedKeyIsGone
<1>1. IInv => CertifiedKeyIsGone
  BY DEF IInv
<1> QED
  BY <1>1, InitEstablishes, StepPreserves, PTL DEF Spec

-----------------------------------------------------------------------------
(* The registry.  What a ceremony has done before it changes an entry:      *)

\* The entry is saved after the copies it promises.
CopiesBeforeEntry ==
  /\ (op.pc \in {"open", "save"} \/ (op.pc = "write" /\ op.copy = "escrow")) =>
       /\ stored["keyring"][op.name] = op.entry.key
       /\ <<"keyring", op.entry.key>> \in made
  /\ (op.pc = "save" /\ op.entry.escrow) => <<"escrow", op.entry.key>> \in made

\* The entry is dropped after the certificate is written.
CertificateBeforeRemoval ==
  (op.pc = "forget" \/ (op.pc = "log" /\ op.kind # "recover")) =>
    \E c \in Deletions : c.vault = op.name /\ c.key = op.entry.key

KInv == IInv /\ RegistryIsTrue /\ CopiesBeforeEntry /\ CertificateBeforeRemoval

LEMMA InitEstablishesK == Init => KInv
BY InitEstablishes DEF Init, KInit, NoOp, KInv, RegistryIsTrue, NoForeignLiveKey,
   RegisteredKeyWasWritten, CopiesBeforeEntry, CertificateBeforeRemoval, Registered

\* Every step keeps it.  A file under a registered name is written by a burn, by a recovery
\* (the vault's own key) and by the disk only.
LEMMA StepPreservesK == KInv /\ [Next]_vars => KInv'
<1> SUFFICES ASSUME KInv, [Next]_vars
             PROVE  NoForeignLiveKey' /\ RegisteredKeyWasWritten' /\ CopiesBeforeEntry'
                    /\ CertificateBeforeRemoval'
  BY StepPreserves DEF KInv, RegistryIsTrue
<1> USE DEF KInv, RegistryIsTrue, Registered
<1>0. TypeOK /\ CreatingFreshKey /\ BurningRegisteredKey /\ RecoveringFromEscrow
  BY DEF IInv
<1>1. ASSUME NEW n \in Names, NEW escrow \in BOOLEAN, CreateVault(n, escrow)
      PROVE  NoForeignLiveKey' /\ RegisteredKeyWasWritten' /\ CopiesBeforeEntry'
             /\ CertificateBeforeRemoval'
  <2> USE <1>0, <1>1 DEF CreateVault, Put, NoOp
  <2>1. op'.pc = "write" /\ op'.copy = "keyring"
    OBVIOUS
  <2>2. NoForeignLiveKey' /\ RegisteredKeyWasWritten'
    BY DEF NoForeignLiveKey, RegisteredKeyWasWritten, TypeOK
  <2> QED
    BY <2>1, <2>2 DEF CopiesBeforeEntry, CertificateBeforeRemoval
<1>2. CASE WriteCopy
  <2> USE <1>0, <1>2 DEF WriteCopy, Put, Goto
  <2>1. op.name \in Names /\ meta[op.name] = None /\ op'.name = op.name /\ op'.entry = op.entry
        /\ op'.copy = op.copy /\ op.copy \in Copies
    BY DEF CreatingFreshKey, TypeOK, OpType
  <2>2. NoForeignLiveKey' /\ RegisteredKeyWasWritten'
    BY <2>1 DEF NoForeignLiveKey, RegisteredKeyWasWritten, TypeOK
  <2>3. op'.pc \in {"open", "save"} /\ (op'.pc = "save" => op.copy = "escrow" \/ ~op.entry.escrow)
    BY <2>1 DEF TypeOK, OpType
  <2>4. stored'["keyring"][op.name] = op.entry.key
    <3>1. CASE op.copy = "keyring"
      BY <2>1, <3>1 DEF TypeOK
    <3>2. CASE op.copy = "escrow"
      BY <2>1, <3>2 DEF CopiesBeforeEntry, TypeOK
    <3> QED
      BY <2>1, <3>1, <3>2
  <2>5. <<"keyring", op.entry.key>> \in made'
    BY <2>1 DEF CopiesBeforeEntry
  <2>6. CopiesBeforeEntry'
    BY <2>1, <2>3, <2>4, <2>5 DEF CopiesBeforeEntry
  <2> QED
    BY <2>2, <2>3, <2>6 DEF CertificateBeforeRemoval
<1>3. CASE OpenEscrow
  <2> USE <1>0, <1>3 DEF OpenEscrow, Put
  <2>1. op.name \in Names /\ meta[op.name] = None /\ op'.name = op.name /\ op'.entry = op.entry
        /\ op'.copy = "escrow" /\ op'.pc = "write"
    BY DEF CreatingFreshKey, TypeOK, OpType
  <2>2. NoForeignLiveKey' /\ RegisteredKeyWasWritten'
    BY <2>1 DEF NoForeignLiveKey, RegisteredKeyWasWritten, TypeOK
  <2>3. stored'["keyring"] = stored["keyring"]
    BY DEF TypeOK
  <2> QED
    BY <2>1, <2>2, <2>3 DEF CopiesBeforeEntry, CertificateBeforeRemoval
<1>4. CASE SaveEntry
  <2> USE <1>0, <1>4 DEF SaveEntry, NoOp
  <2>1. op.name \in Names
    BY DEF CreatingFreshKey
  <2>2. NoForeignLiveKey' /\ RegisteredKeyWasWritten'
    BY <2>1 DEF CopiesBeforeEntry, NoForeignLiveKey, RegisteredKeyWasWritten, TypeOK
  <2> QED
    BY <2>2 DEF CopiesBeforeEntry, CertificateBeforeRemoval
<1>5. ASSUME NEW kind \in {"destroy", "master"}, NEW names \in SUBSET Registered,
             StartBurn(kind, names)
      PROVE  NoForeignLiveKey' /\ RegisteredKeyWasWritten' /\ CopiesBeforeEntry'
             /\ CertificateBeforeRemoval'
  BY <1>5 DEF StartBurn, NoOp, NoForeignLiveKey, RegisteredKeyWasWritten, CopiesBeforeEntry,
     CertificateBeforeRemoval
<1>6. CASE NextVault
  <2>1. op'.pc \in {"idle", "burn"}
    <3>1. CASE op' = NoOp
      BY <3>1 DEF NoOp
    <3>2. ASSUME NEW n \in op.queue,
                 op' = [op EXCEPT !.pc = "burn", !.name = n, !.entry = meta[n],
                                  !.copy = "keyring", !.kills = {}, !.queue = @ \ {n}]
          PROVE  op'.pc = "burn"
      BY <1>0, <3>2 DEF TypeOK, OpType
    <3> QED
      BY <1>6, <3>1, <3>2 DEF NextVault
  <2> QED
    BY <1>6, <2>1 DEF NextVault, NoForeignLiveKey, RegisteredKeyWasWritten, CopiesBeforeEntry,
       CertificateBeforeRemoval
<1>7. CASE SkipAbsentCopy
  <2>1. op'.pc \in {"burn", "certify"}
    BY <1>0, <1>7 DEF SkipAbsentCopy, AfterCopy, TypeOK, OpType
  <2> QED
    BY <1>7, <2>1 DEF SkipAbsentCopy, NoForeignLiveKey, RegisteredKeyWasWritten,
       CopiesBeforeEntry, CertificateBeforeRemoval
<1>8. CASE OverwriteCopy \/ UnlinkCopy
  <2>1. op'.pc \in {"unlink", "burn", "certify"}
    BY <1>0, <1>8 DEF OverwriteCopy, UnlinkCopy, Goto, AfterCopy, TypeOK, OpType
  <2>2. NoForeignLiveKey' /\ RegisteredKeyWasWritten'
    BY <1>0, <1>8 DEF OverwriteCopy, UnlinkCopy, Put, NoForeignLiveKey,
       RegisteredKeyWasWritten, TypeOK
  <2> QED
    BY <2>1, <2>2 DEF CopiesBeforeEntry, CertificateBeforeRemoval
<1>9. CASE IssueCertificate
  <2>1. op'.pc = "log" /\ op'.kind = op.kind /\ op'.name = op.name /\ op'.entry = op.entry
    BY <1>0, <1>9 DEF IssueCertificate, TypeOK, OpType
  <2>2. op.kind # "recover" =>
          \E c \in Deletions' : c.vault = op.name /\ c.key = op.entry.key
    <3> DEFINE c == [id |-> NewCertId, vault |-> op.name, key |-> op.entry.key,
                     copies |-> op.kills,
                     type |-> IF op.kind = "recover" THEN "recovery" ELSE "deletion"]
    <3>1. c \in certificates'
      BY <1>9 DEF IssueCertificate
    <3>2. /\ c.vault = op.name /\ c.key = op.entry.key
          /\ op.kind # "recover" => c.type = "deletion"
      OBVIOUS
    <3> HIDE DEF c
    <3> QED
      BY <3>1, <3>2 DEF Deletions
  <2> QED
    BY <1>9, <2>1, <2>2 DEF IssueCertificate, NoForeignLiveKey, RegisteredKeyWasWritten,
       CopiesBeforeEntry, CertificateBeforeRemoval
<1>10. CASE LogCertificate
  <2>1. \/ op'.pc = "idle"
        \/ op.kind # "recover" /\ op'.pc = "forget" /\ op'.name = op.name /\ op'.entry = op.entry
    BY <1>0, <1>10 DEF LogCertificate, NoOp, Goto, TypeOK, OpType
  <2>2. op.pc = "log"
    BY <1>10 DEF LogCertificate
  <2> QED
    BY <1>10, <2>1, <2>2 DEF LogCertificate, NoForeignLiveKey, RegisteredKeyWasWritten,
       CopiesBeforeEntry, CertificateBeforeRemoval, Deletions
<1>11. CASE ForgetVault
  <2>1. op'.pc = "next"
    BY <1>0, <1>11 DEF ForgetVault, Goto, TypeOK, OpType
  <2>2. NoForeignLiveKey' /\ RegisteredKeyWasWritten'
    BY <1>0, <1>11 DEF ForgetVault, NoForeignLiveKey, RegisteredKeyWasWritten, TypeOK
  <2> QED
    BY <2>1, <2>2 DEF CopiesBeforeEntry, CertificateBeforeRemoval
<1>12. ASSUME NEW n \in Names, RecoverVault(n)
       PROVE  NoForeignLiveKey' /\ RegisteredKeyWasWritten' /\ CopiesBeforeEntry'
              /\ CertificateBeforeRemoval'
  <2>1. op'.pc = "install"
    BY <1>12 DEF RecoverVault, NoOp
  <2>2. NoForeignLiveKey' /\ RegisteredKeyWasWritten'
    BY <1>0, <1>12 DEF RecoverVault, Put, NoForeignLiveKey, RegisteredKeyWasWritten, TypeOK
  <2> QED
    BY <2>1, <2>2 DEF CopiesBeforeEntry, CertificateBeforeRemoval
<1>13. CASE InstallKey
  <2>1. op'.pc = "certify"
    BY <1>0, <1>13 DEF InstallKey, Goto, TypeOK, OpType
  <2>2. NoForeignLiveKey' /\ RegisteredKeyWasWritten'
    BY <1>0, <1>13 DEF InstallKey, Put, NoForeignLiveKey, RegisteredKeyWasWritten, TypeOK,
       RecoveringFromEscrow
  <2> QED
    BY <2>1, <2>2 DEF CopiesBeforeEntry, CertificateBeforeRemoval
<1>17. CASE RefuseKey
  <2>1. op'.pc = "idle"
    BY <1>17 DEF RefuseKey, NoOp
  <2>2. NoForeignLiveKey' /\ RegisteredKeyWasWritten'
    BY <1>0, <1>17 DEF RefuseKey, Put, NoForeignLiveKey, RegisteredKeyWasWritten, TypeOK,
       RecoveringFromEscrow
  <2> QED
    BY <2>1, <2>2 DEF CopiesBeforeEntry, CertificateBeforeRemoval
<1>14. CASE Crash
  BY <1>14 DEF Crash, NoOp, NoForeignLiveKey, RegisteredKeyWasWritten, CopiesBeforeEntry,
     CertificateBeforeRemoval
<1>15. ASSUME NEW copy \in Copies, NEW n \in Names, LoseCopy(copy, n)
       PROVE  NoForeignLiveKey' /\ RegisteredKeyWasWritten' /\ CopiesBeforeEntry'
              /\ CertificateBeforeRemoval'
  <2>1. NoForeignLiveKey' /\ RegisteredKeyWasWritten'
    BY <1>0, <1>15 DEF LoseCopy, Put, NoForeignLiveKey, RegisteredKeyWasWritten, TypeOK
  <2> QED
    BY <1>15, <2>1 DEF LoseCopy, Idle, CopiesBeforeEntry, CertificateBeforeRemoval
<1>16. CASE UNCHANGED vars
  BY <1>16 DEF vars, kvars, NoForeignLiveKey, RegisteredKeyWasWritten, CopiesBeforeEntry,
     CertificateBeforeRemoval, Deletions
<1> QED
  BY <1>1, <1>2, <1>3, <1>4, <1>5, <1>6, <1>7, <1>8, <1>9, <1>10, <1>11, <1>12, <1>13, <1>14,
     <1>15, <1>16, <1>17
  DEF Next, Ceremony, DestroyVault, DestroyMaster

\* What keyring.json says of a key is true (create_vault, recover_vault): its copies were
\* written before the entry, and no other key is in the place of the live one.
THEOREM TheRegistryIsTrue == Spec => []RegistryIsTrue
<1>1. KInv => RegistryIsTrue
  BY DEF KInv
<1> QED
  BY <1>1, InitEstablishesK, StepPreservesK, PTL DEF Spec

\* destroy_vault and destroy_master drop an entry only when the certificate of its key has
\* been written, and nothing else drops or replaces one.
THEOREM RemovalsAreCertified == Spec => NoUncertifiedRemoval
<1> DEFINE Removal ==
      \A n \in Registered :
        meta'[n] # meta[n] => \E c \in Deletions : c.vault = n /\ c.key = meta[n].key
<1>1. KInv /\ [Next]_vars => [Removal]_vars
  <2> SUFFICES ASSUME KInv, Next, NEW n \in Registered, meta'[n] # meta[n]
               PROVE  \E c \in Deletions : c.vault = n /\ c.key = meta[n].key
    OBVIOUS
  <2>0. TypeOK /\ CreatingFreshKey /\ BurningRegisteredKey /\ CertificateBeforeRemoval
    BY DEF KInv, IInv
  <2>1. CASE SaveEntry
    BY <2>0, <2>1 DEF SaveEntry, CreatingFreshKey, Registered, TypeOK
  <2>2. CASE ForgetVault
    <3>1. n = op.name /\ op.entry = meta[n]
      BY <2>0, <2>2 DEF ForgetVault, BurningRegisteredKey, Registered, TypeOK
    <3> QED
      BY <2>0, <2>2, <3>1 DEF ForgetVault, CertificateBeforeRemoval
  <2>3. CASE UNCHANGED meta
    BY <2>3
  <2>4. SaveEntry \/ ForgetVault \/ UNCHANGED meta
    BY DEF Next, Ceremony, CreateVault, DestroyVault, DestroyMaster, StartBurn, RecoverVault,
       WriteCopy, OpenEscrow, NextVault, SkipAbsentCopy, OverwriteCopy, UnlinkCopy,
       IssueCertificate, LogCertificate, InstallKey, RefuseKey, Crash, LoseCopy
  <2> QED
    BY <2>1, <2>2, <2>3, <2>4
<1> QED
  BY <1>1, InitEstablishesK, StepPreservesK, PTL DEF Spec, NoUncertifiedRemoval

\* A good copy of a registered key is destroyed by the burn of its vault or by the disk, and
\* by no create, recovery, crash or log write.
THEOREM NothingElseDestroysKeys == Spec => OnlyBurnsDestroyKeys
<1> DEFINE Destroyed(n, copy) ==
      stored[copy][n] = meta[n].key /\ stored'[copy][n] # meta[n].key
    Kept == \A n \in Registered, copy \in Copies :
      Destroyed(n, copy) => Burning(n) \/ <<copy, meta[n].key>> \in lost'
<1>1. KInv /\ [Next]_vars => [Kept]_vars
  <2> SUFFICES ASSUME KInv, Next, NEW n \in Registered, NEW copy \in Copies, Destroyed(n, copy)
               PROVE  Burning(n) \/ <<copy, meta[n].key>> \in lost'
    OBVIOUS
  <2>0. TypeOK /\ CreatingFreshKey /\ BurningRegisteredKey /\ RecoveringFromEscrow
    BY DEF KInv, IInv
  <2>1. meta[n] # None /\ n \in Names /\ meta[n] \in EntryType /\ meta[n].key \in Keys
    BY <2>0 DEF Registered, TypeOK, EntryType
  <2>2. \A c \in Copies, m \in Names : \A v : Put(c, m, v) => (c = copy /\ m = n /\ v # meta[n].key)
    BY <2>0, <2>1 DEF Put, TypeOK
  <2>3. ASSUME NEW m \in Names, NEW escrow \in BOOLEAN, CreateVault(m, escrow)
        PROVE  FALSE
    BY <2>1, <2>2, <2>3 DEF CreateVault, Registered
  <2>4. CASE WriteCopy \/ OpenEscrow
    <3>1. op.name \in Names /\ meta[op.name] = None /\ op.copy \in Copies
      BY <2>0, <2>4 DEF WriteCopy, OpenEscrow, CreatingFreshKey, TypeOK, OpType
    <3> QED
      BY <2>1, <2>2, <2>4, <3>1 DEF WriteCopy, OpenEscrow
  <2>5. CASE OverwriteCopy \/ UnlinkCopy
    <3>1. op.name \in Names /\ op.copy \in Copies /\ op.kind \in {"destroy", "master"}
      BY <2>0, <2>5 DEF OverwriteCopy, UnlinkCopy, BurningRegisteredKey, TypeOK, OpType
    <3>2. op.name = n
      BY <2>2, <2>5, <3>1 DEF OverwriteCopy, UnlinkCopy
    <3> QED
      BY <3>1, <3>2 DEF Burning
  <2>6. ASSUME NEW m \in Names, RecoverVault(m)
        PROVE  FALSE
    <3>1. copy = "keyring" /\ m = n
      BY <2>2, <2>6 DEF RecoverVault
    <3>2. stored[copy][n] = Absent
      BY <2>6, <3>1 DEF RecoverVault, Recoverable
    <3> QED
      BY <2>1, <3>2
  <2>7. CASE InstallKey
    <3>1. op.name \in Names /\ op.entry = meta[op.name]
      BY <2>0, <2>7 DEF InstallKey, RecoveringFromEscrow
    <3> QED
      BY <2>2, <2>7, <3>1 DEF InstallKey
  <2>8. ASSUME NEW c \in Copies, NEW m \in Names, LoseCopy(c, m)
        PROVE  <<copy, meta[n].key>> \in lost'
    <3>1. c = copy /\ m = n
      BY <2>2, <2>8 DEF LoseCopy
    <3> QED
      BY <2>8, <3>1 DEF LoseCopy
  <2>10. CASE RefuseKey
    <3>1. op.name \in Names /\ op.entry = meta[op.name] /\ copy = "keyring" /\ n = op.name
      BY <2>0, <2>2, <2>10 DEF RefuseKey, RecoveringFromEscrow, Copies
    <3> QED
      BY <2>10, <3>1 DEF RefuseKey
  <2>9. CASE UNCHANGED stored
    BY <2>9
  <2> QED
    BY <2>3, <2>4, <2>5, <2>6, <2>7, <2>8, <2>9, <2>10
    DEF Next, Ceremony, DestroyVault, DestroyMaster, StartBurn, SaveEntry, NextVault,
        SkipAbsentCopy, IssueCertificate, LogCertificate, ForgetVault, Crash
<1> QED
  BY <1>1, InitEstablishesK, StepPreservesK, PTL DEF Spec, OnlyBurnsDestroyKeys
-----------------------------------------------------------------------------
(* That the ceremonies of the keyring implement Deletion, the promise of    *)
(* every burn.  The strengthening, on top of IInv:                          *)

\* A copy being written is a file that is no key yet, so that completing it replaces none.
BeingWritten ==
  /\ op.pc = "write" => op.copy \in Copies /\ stored[op.copy][op.name] = Junk
  /\ op.pc = "install" => stored["keyring"][op.name] = Junk

\* Certificates have ids of their own, and only one that was issued is recorded.
IssuedFirst ==
  /\ \A c, d \in certificates : c.id = d.id => c = d
  /\ recorded \subseteq CertIds
  /\ op.pc = "log" => op.cert \in CertIds

JInv == IInv /\ BeingWritten /\ IssuedFirst

-----------------------------------------------------------------------------
\* What writing a file does to the keys on disk.

LEMMA PutJunk ==
  ASSUME TypeOK, NEW copy \in Copies, NEW n \in Names, NEW v \in {Absent, Junk},
         Put(copy, n, v), UNCHANGED <<CertifiedKeys, LoggedKeys>>
  PROVE  [D!DNext]_(D!dvars)
<1> DEFINE old == stored[copy][n]
<1>1. \A c \in Copies, m \in Names :
        stored'[c][m] = IF c = copy /\ m = n THEN v ELSE stored[c][m]
  BY DEF Put, TypeOK
<1>2. CASE old \in LiveKeys /\ old \notin LiveKeys'
  <2>1. LiveKeys' = LiveKeys \ {old}
    BY <1>1, <1>2 DEF LiveKeys
  <2>2. D!Destroy(old)
    BY <1>2, <2>1 DEF D!Destroy
  <2>3. old \in Keys
    BY <1>2 DEF LiveKeys
  <2> QED
    BY <2>2, <2>3 DEF D!DNext
<1>3. CASE ~(old \in LiveKeys /\ old \notin LiveKeys')
  <2>1. LiveKeys' = LiveKeys
    BY <1>1, <1>3 DEF LiveKeys
  <2> QED
    BY <2>1 DEF D!dvars
<1> QED
  BY <1>2, <1>3

LEMMA PutKey ==
  ASSUME TypeOK, NEW copy \in Copies, NEW n \in Names, NEW k \in Keys,
         stored[copy][n] = Junk, k \in LiveKeys \/ k \notin CertifiedKeys,
         Put(copy, n, k), UNCHANGED <<CertifiedKeys, LoggedKeys>>
  PROVE  [D!DNext]_(D!dvars)
<1>1. \A c \in Copies, m \in Names :
        stored'[c][m] = IF c = copy /\ m = n THEN k ELSE stored[c][m]
  BY DEF Put, TypeOK
<1>2. LiveKeys' = LiveKeys \cup {k}
  <2>1. \A x \in Keys : x \in LiveKeys => x \in LiveKeys'
    BY <1>1 DEF LiveKeys
  <2>2. k \in LiveKeys'
    BY <1>1 DEF LiveKeys
  <2>3. \A x \in LiveKeys' : x # k => x \in LiveKeys
    BY <1>1 DEF LiveKeys
  <2> QED
    BY <2>1, <2>2, <2>3 DEF LiveKeys
<1>3. CASE k \in LiveKeys
  BY <1>2, <1>3 DEF D!dvars
<1>4. CASE k \notin LiveKeys
  <2>1. {} \in SUBSET LiveKeys /\ LiveKeys' = (LiveKeys \ {}) \cup {k}
    BY <1>2
  <2>2. D!Appear(k)
    BY <1>4, <2>1 DEF D!Appear
  <2> QED
    BY <2>2 DEF D!DNext
<1> QED
  BY <1>3, <1>4

-----------------------------------------------------------------------------
LEMMA InitEstablishesJ == Init => JInv /\ D!DInit
<1> SUFFICES ASSUME Init PROVE JInv /\ D!DInit
  OBVIOUS
<1>1. IInv
  BY InitEstablishes
<1>2. BeingWritten /\ IssuedFirst
  BY DEF Init, KInit, InitAudit, NoOp, BeingWritten, IssuedFirst, CertIds
<1>3. LiveKeys \subseteq Keys /\ CertifiedKeys = {} /\ LoggedKeys = {}
  BY DEF Init, KInit, InitAudit, LiveKeys, CertifiedKeys, LoggedKeys, Deletions
<1> QED
  BY <1>1, <1>2, <1>3 DEF JInv, D!DInit

LEMMA StepPreservesJ == JInv /\ [Next]_vars => JInv'
<1> SUFFICES ASSUME JInv, [Next]_vars PROVE BeingWritten' /\ IssuedFirst'
  BY StepPreserves DEF JInv
<1>2. TypeOK /\ BeingWritten /\ IssuedFirst
  BY DEF JInv, IInv
<1>3. CASE UNCHANGED vars
  BY <1>2, <1>3 DEF vars, kvars, avars, BeingWritten, IssuedFirst, CertIds
<1>4. ASSUME NEW n \in Names, NEW escrow \in BOOLEAN, CreateVault(n, escrow)
      PROVE  BeingWritten' /\ IssuedFirst'
  <2>1. op'.pc = "write" /\ op'.copy = "keyring" /\ op'.name = n
    BY <1>4 DEF CreateVault, NoOp
  <2>2. stored'["keyring"][n] = Junk
    BY <1>2, <1>4 DEF CreateVault, Put, TypeOK
  <2> QED
    BY <1>2, <1>4, <2>1, <2>2 DEF CreateVault, avars, BeingWritten, IssuedFirst, CertIds
<1>5. ASSUME NEW n \in Names, RecoverVault(n)
      PROVE  BeingWritten' /\ IssuedFirst'
  <2>1. op'.pc = "install" /\ op'.name = n
    BY <1>5 DEF RecoverVault, NoOp
  <2>2. stored'["keyring"][n] = Junk
    BY <1>2, <1>5 DEF RecoverVault, Put, TypeOK
  <2> QED
    BY <1>2, <1>5, <2>1, <2>2 DEF RecoverVault, avars, BeingWritten, IssuedFirst, CertIds
<1>6. CASE OpenEscrow
  <2>1. op'.pc = "write" /\ op'.copy = "escrow" /\ op'.name = op.name
    BY <1>2, <1>6 DEF OpenEscrow, TypeOK, OpType
  <2>2. op.name \in Names
    BY <1>6 DEF OpenEscrow, JInv, IInv, CreatingFreshKey
  <2>3. stored'["escrow"][op.name] = Junk
    BY <1>2, <1>6, <2>2 DEF OpenEscrow, Put, TypeOK
  <2>4. UNCHANGED <<certificates, recorded>> /\ CertIds' = CertIds
    BY <1>6 DEF OpenEscrow, avars, CertIds
  <2> QED
    BY <1>2, <1>6, <2>1, <2>3, <2>4 DEF BeingWritten, IssuedFirst
<1>7. CASE IssueCertificate
  <2>1. NewCertId \notin CertIds
    BY <1>2, <1>7 DEF IssueCertificate, NewCertId, CertIds, TypeOK, CertificateType
  <2> DEFINE new == [id |-> NewCertId, vault |-> op.name, key |-> op.entry.key,
                     copies |-> op.kills,
                     type |-> IF op.kind = "recover" THEN "recovery" ELSE "deletion"]
  <2>2. certificates' = certificates \cup {new} /\ new.id = NewCertId
    BY <1>7 DEF IssueCertificate
  <2>3. op'.pc = "log" /\ op'.cert = NewCertId
    BY <1>2, <1>7 DEF IssueCertificate, TypeOK, OpType
  <2> HIDE DEF new
  <2>4. CertIds' = CertIds \cup {NewCertId}
    BY <2>2 DEF CertIds
  <2>5. \A c, d \in certificates' : c.id = d.id => c = d
    BY <1>2, <2>1, <2>2 DEF IssuedFirst, CertIds
  <2>6. recorded' = recorded
    BY <1>7 DEF IssueCertificate, avars
  <2> QED
    BY <1>2, <2>3, <2>4, <2>5, <2>6 DEF BeingWritten, IssuedFirst
<1>8. CASE LogCertificate
  <2>1. recorded' \subseteq CertIds
    BY <1>2, <1>8 DEF LogCertificate, Log, LogTorn, avars, IssuedFirst
  <2>2. op'.pc \in {"idle", "forget"} /\ certificates' = certificates
    BY <1>2, <1>8 DEF LogCertificate, NoOp, Goto, TypeOK, OpType
  <2>3. CertIds' = CertIds
    BY <2>2 DEF CertIds
  <2> QED
    BY <1>2, <2>1, <2>2, <2>3 DEF BeingWritten, IssuedFirst
<1>9. ASSUME UNCHANGED <<certificates, recorded>>, op'.pc \notin {"write", "install", "log"}
      PROVE  BeingWritten' /\ IssuedFirst'
  <2>1. CertIds' = CertIds
    BY <1>9 DEF CertIds
  <2> QED
    BY <1>2, <1>9, <2>1 DEF BeingWritten, IssuedFirst
<1>10. ASSUME NEW kind, NEW names, StartBurn(kind, names)
       PROVE  BeingWritten' /\ IssuedFirst'
  BY <1>9, <1>10 DEF StartBurn, NoOp, avars
<1>11. CASE WriteCopy
  BY <1>2, <1>9, <1>11 DEF WriteCopy, Goto, avars, TypeOK, OpType
<1>12. CASE SaveEntry \/ Crash \/ \E copy \in Copies, n \in Names : LoseCopy(copy, n)
  <2>1. op'.pc = "idle"
    <3>1. CASE SaveEntry \/ Crash
      BY <3>1 DEF SaveEntry, Crash, NoOp
    <3>2. ASSUME NEW copy \in Copies, NEW n \in Names, LoseCopy(copy, n) PROVE op'.pc = "idle"
      BY <3>2, Zenon DEF LoseCopy, Idle
    <3> QED
      BY <1>12, <3>1, <3>2
  <2> QED
    BY <1>9, <1>12, <2>1 DEF SaveEntry, Crash, LogTorn, LoseCopy, avars
<1>13. CASE NextVault
  <2>1. op'.pc \in {"idle", "burn"}
    <3>1. CASE op' = NoOp
      BY <3>1 DEF NoOp
    <3>2. ASSUME op' # NoOp PROVE op'.pc = "burn"
      <4>1. PICK n \in op.queue : op' = [op EXCEPT !.pc = "burn", !.name = n, !.entry = meta[n],
                                           !.copy = "keyring", !.kills = {}, !.queue = @ \ {n}]
        BY <1>13, <3>2, Zenon DEF NextVault
      <4> QED
        BY <1>2, <4>1 DEF TypeOK, OpType
    <3> QED
      BY <3>1, <3>2
  <2> QED
    BY <1>9, <1>13, <2>1 DEF NextVault, avars
<1>14. CASE SkipAbsentCopy \/ UnlinkCopy
  <2>1. op'.pc \in {"burn", "certify"}
    <3>1. ASSUME NEW kills, AfterCopy(kills) PROVE op'.pc \in {"burn", "certify"}
      BY <1>2, <3>1 DEF AfterCopy, TypeOK, OpType
    <3> QED
      BY <1>14, <3>1 DEF SkipAbsentCopy, UnlinkCopy
  <2> QED
    BY <1>9, <1>14, <2>1 DEF SkipAbsentCopy, UnlinkCopy, avars
<1>16. CASE RefuseKey
  <2>1. op'.pc = "idle"
    BY <1>16 DEF RefuseKey, NoOp
  <2> QED
    BY <1>9, <1>16, <2>1 DEF RefuseKey, avars
<1>15. CASE OverwriteCopy \/ ForgetVault \/ InstallKey
  BY <1>2, <1>9, <1>15 DEF OverwriteCopy, ForgetVault, InstallKey, Goto, avars, TypeOK, OpType
<1> QED
  BY <1>3, <1>4, <1>5, <1>6, <1>7, <1>8, <1>10, <1>11, <1>12, <1>13, <1>14, <1>15, <1>16
  DEF Next, Ceremony, DestroyVault, DestroyMaster, Registered

-----------------------------------------------------------------------------
\* Every step of a ceremony is a step of the promise, or none.
LEMMA StepImplements == JInv /\ [Next]_vars => [D!DNext]_(D!dvars)
<1> SUFFICES ASSUME JInv, [Next]_vars PROVE [D!DNext]_(D!dvars)
  OBVIOUS
<1>1. TypeOK /\ BeingWritten /\ IssuedFirst
  BY DEF JInv, IInv
<1>2. CASE UNCHANGED vars
  BY <1>2 DEF vars, kvars, avars, D!dvars, LiveKeys, CertifiedKeys, LoggedKeys, CertIds, Deletions
\* What leaves certificates and records alone leaves what they name alone.
<1>3. ASSUME UNCHANGED <<certificates, recorded>>
      PROVE  UNCHANGED <<CertifiedKeys, LoggedKeys>>
  BY <1>3 DEF CertifiedKeys, LoggedKeys, CertIds, Deletions
<1>4. ASSUME UNCHANGED <<stored, certificates, recorded>> PROVE [D!DNext]_(D!dvars)
  BY <1>3, <1>4 DEF LiveKeys, D!dvars
<1>5. ASSUME NEW n \in Names, NEW escrow \in BOOLEAN, CreateVault(n, escrow)
      PROVE  [D!DNext]_(D!dvars)
  BY <1>1, <1>3, <1>5, PutJunk DEF CreateVault, avars
<1>6. CASE WriteCopy
  <2>1. /\ op.name \in Names /\ op.copy \in Copies /\ op.entry.key \in Keys
        /\ stored[op.copy][op.name] = Junk
    BY <1>1, <1>6 DEF WriteCopy, JInv, IInv, CreatingFreshKey, BeingWritten, EntryType
  <2>2. op.entry.key \notin CertifiedKeys
    BY <1>6 DEF WriteCopy, JInv, IInv, CreatingFreshKey, CertifiedKeys, Deletions
  <2> QED
    BY <1>1, <1>3, <1>6, <2>1, <2>2, PutKey DEF WriteCopy, avars
<1>7. CASE OpenEscrow
  <2>1. op.name \in Names
    BY <1>7 DEF OpenEscrow, JInv, IInv, CreatingFreshKey
  <2> QED
    BY <1>1, <1>3, <1>7, <2>1, PutJunk DEF OpenEscrow, avars
<1>8. CASE OverwriteCopy \/ UnlinkCopy
  <2>1. op.name \in Names /\ op.copy \in Copies
    BY <1>1, <1>8 DEF OverwriteCopy, UnlinkCopy, JInv, IInv, BurningRegisteredKey, TypeOK, OpType
  <2> QED
    BY <1>1, <1>3, <1>8, <2>1, PutJunk DEF OverwriteCopy, UnlinkCopy, avars
<1>9. CASE IssueCertificate
  <2> DEFINE new == [id |-> NewCertId, vault |-> op.name, key |-> op.entry.key,
                     copies |-> op.kills,
                     type |-> IF op.kind = "recover" THEN "recovery" ELSE "deletion"]
  <2>1. certificates' = certificates \cup {new} /\ UNCHANGED <<stored, recorded>>
    BY <1>9 DEF IssueCertificate, avars
  <2>2. new.id \notin recorded
    <3>1. NewCertId \notin CertIds
      BY <1>1, <1>9 DEF IssueCertificate, NewCertId, CertIds, TypeOK, CertificateType
    <3> QED
      BY <1>1, <3>1 DEF IssuedFirst
  <2>3. new.key = op.entry.key /\ (new.type = "deletion" <=> op.kind # "recover")
    OBVIOUS
  <2> HIDE DEF new
  <2>4. LiveKeys' = LiveKeys
    BY <2>1 DEF LiveKeys
  <2>5. LoggedKeys' = LoggedKeys
    BY <1>1, <2>1, <2>2 DEF LoggedKeys, IssuedFirst, CertIds, Deletions
  <2>6. CASE op.kind = "recover"
    <3>1. Deletions' = Deletions
      BY <2>1, <2>3, <2>6 DEF Deletions
    <3> QED
      BY <2>4, <2>5, <3>1 DEF CertifiedKeys, D!dvars
  <2>7. CASE op.kind # "recover"
    <3>1. Deletions' = Deletions \cup {new}
      BY <2>1, <2>3, <2>7 DEF Deletions
    <3>2. CertifiedKeys' = CertifiedKeys \cup {op.entry.key}
      BY <2>3, <3>1 DEF CertifiedKeys
    <3>3. /\ op.name \in Names /\ op.entry = meta[op.name] /\ op.entry.key \in Keys
          /\ meta[op.name] # None
          /\ \A copy \in Copies : stored[copy][op.name] = Absent
      BY <1>1, <1>9, <2>7 DEF IssueCertificate, JInv, IInv, BurningRegisteredKey, EntryType
    <3>4. op.entry.key \notin LiveKeys
      BY <3>3 DEF JInv, IInv, KeysHaveOneName, LiveKeys
    <3>5. CASE op.entry.key \in CertifiedKeys
      BY <2>4, <2>5, <3>2, <3>5 DEF D!dvars
    <3>6. CASE op.entry.key \notin CertifiedKeys
      <4>1. D!Certify(op.entry.key)
        BY <2>4, <2>5, <3>2, <3>4, <3>6 DEF D!Certify
      <4> QED
        BY <3>3, <4>1 DEF D!DNext
    <3> QED
      BY <3>5, <3>6
  <2> QED
    BY <2>6, <2>7
<1>10. CASE LogCertificate
  <2>1. UNCHANGED <<stored, certificates>>
    BY <1>10 DEF LogCertificate
  <2>2. CASE recorded' = recorded
    BY <1>4, <2>1, <2>2
  <2>3. CASE recorded' = recorded \cup {op.cert}
    <3>1. op.cert \in CertIds
      BY <1>1, <1>10 DEF LogCertificate, IssuedFirst
    <3>2. PICK c \in certificates : c.id = op.cert
      BY <3>1 DEF CertIds
    <3>3. \A d \in certificates : d.id = op.cert => d = c
      BY <1>1, <3>2 DEF IssuedFirst
    <3>4. LiveKeys' = LiveKeys /\ CertifiedKeys' = CertifiedKeys
      BY <2>1 DEF LiveKeys, CertifiedKeys, Deletions
    <3>5. CASE c \in Deletions
      <4>1. LoggedKeys' = LoggedKeys \cup {c.key}
        BY <1>1, <2>1, <2>3, <3>1, <3>2, <3>3, <3>5 DEF LoggedKeys, IssuedFirst, CertIds, Deletions
      <4>2. c.key \in CertifiedKeys /\ c.key \in Keys
        BY <1>1, <3>5 DEF CertifiedKeys, Deletions, TypeOK, CertificateType
      <4>3. CASE c.key \in LoggedKeys
        BY <3>4, <4>1, <4>3 DEF D!dvars
      <4>4. CASE c.key \notin LoggedKeys
        BY <3>4, <4>1, <4>2, <4>4 DEF D!Record, D!DNext
      <4> QED
        BY <4>3, <4>4
    <3>6. CASE c \notin Deletions
      <4>1. LoggedKeys' = LoggedKeys
        BY <1>1, <2>1, <2>3, <3>1, <3>3, <3>6 DEF LoggedKeys, IssuedFirst, CertIds, Deletions
      <4> QED
        BY <3>4, <4>1 DEF D!dvars
    <3> QED
      BY <3>5, <3>6
  <2> QED
    BY <1>10, <2>2, <2>3 DEF LogCertificate, Log, LogTorn, avars
<1>11. ASSUME NEW n \in Names, RecoverVault(n) PROVE [D!DNext]_(D!dvars)
  BY <1>1, <1>3, <1>11, PutJunk DEF RecoverVault, avars
<1>12. CASE InstallKey
  <2>1. /\ op.name \in Names /\ op.entry.key \in Keys
        /\ stored["escrow"][op.name] = op.entry.key /\ stored["keyring"][op.name] = Junk
    BY <1>1, <1>12 DEF InstallKey, JInv, IInv, RecoveringFromEscrow, BeingWritten, EntryType
  <2>2. op.entry.key \in LiveKeys
    BY <2>1 DEF LiveKeys
  <2> QED
    BY <1>1, <1>3, <1>12, <2>1, <2>2, PutKey DEF InstallKey, avars
<1>16. CASE RefuseKey
  <2>1. op.name \in Names /\ "keyring" \in Copies
    BY <1>16 DEF RefuseKey, JInv, IInv, RecoveringFromEscrow, Copies
  <2> QED
    BY <1>1, <1>3, <1>16, <2>1, PutJunk DEF RefuseKey, avars
<1>13. ASSUME NEW copy \in Copies, NEW n \in Names, LoseCopy(copy, n)
       PROVE  [D!DNext]_(D!dvars)
  BY <1>1, <1>3, <1>13, PutJunk DEF LoseCopy, avars
<1>14. ASSUME NEW kind, NEW names, StartBurn(kind, names) PROVE [D!DNext]_(D!dvars)
  BY <1>4, <1>14 DEF StartBurn, avars
<1>15. CASE SaveEntry \/ NextVault \/ SkipAbsentCopy \/ ForgetVault \/ Crash
  BY <1>4, <1>15 DEF SaveEntry, NextVault, SkipAbsentCopy, ForgetVault, Crash, LogTorn, avars
<1> QED
  BY <1>2, <1>5, <1>6, <1>7, <1>8, <1>9, <1>10, <1>11, <1>12, <1>13, <1>14, <1>15, <1>16
  DEF Next, Ceremony, DestroyVault, DestroyMaster, Registered

\* The ceremonies of the keyring implement Deletion (destroy_vault, destroy_master,
\* create_vault, recover_vault): what a certificate names is gone and stays gone, and
\* the log records only what is certified.
THEOREM CeremoniesImplementDeletion == Spec => DeletionSpec
<1>1. Init => JInv /\ D!DInit
  BY InitEstablishesJ
<1>2. JInv /\ [Next]_vars => JInv'
  BY StepPreservesJ
<1>3. JInv /\ [Next]_vars => [D!DNext]_(D!dvars)
  BY StepImplements
<1> QED
  BY <1>1, <1>2, <1>3, PTL DEF Spec, DeletionSpec, D!DSpec

\* What Deletion promises holds of every system that implements it.
LEMMA DeletionKeepsItsPromise == DeletionSpec => []D!CertifiedIsGone
<1>1. D!DInit => D!CertifiedIsGone
  BY DEF D!DInit, D!CertifiedIsGone
<1>2. D!CertifiedIsGone /\ [D!DNext]_(D!dvars) => D!CertifiedIsGone'
  <2> SUFFICES ASSUME D!CertifiedIsGone, [D!DNext]_(D!dvars) PROVE D!CertifiedIsGone'
    OBVIOUS
  <2>1. CASE UNCHANGED D!dvars
    BY <2>1 DEF D!dvars, D!CertifiedIsGone
  <2>2. ASSUME NEW x \in Keys, D!Appear(x) \/ D!Destroy(x) \/ D!Certify(x) \/ D!Record(x)
        PROVE  D!CertifiedIsGone'
    BY <2>2 DEF D!Appear, D!Destroy, D!Certify, D!Record, D!CertifiedIsGone
  <2> QED
    BY <2>1, <2>2 DEF D!DNext
<1> QED
  BY <1>1, <1>2, PTL DEF DeletionSpec, D!DSpec

\* No key that a certificate names can be read from any copy, and the log names certified
\* keys only (keyring.py _burn_copies, _issue_certificate).
THEOREM CertifiedKeysAreUnreadable == Spec => []D!CertifiedIsGone
BY CeremoniesImplementDeletion, DeletionKeepsItsPromise, PTL

HIDE KeyringAssumption DEF Copies

-----------------------------------------------------------------------------
(* The burns of files and disks.                                            *)

USE DiskBurnAssumption

Tools == {"none", "shred", "slack", "free"}
Places == {"idle", "confirm", "overwrite", "verify", "rename", "unlink", "certify", "extend",
           "truncate", "fill"}
FileRec == [blocks : Seq(Nat), tail : Nat, ino : Nat]
FileType == FileRec \cup {NoFile}
JobType == [tool : Tools, at : Places, todo : Seq(Paths), size : [Paths -> Nat],
            data : [Paths -> SUBSET Nat], held : SUBSET Nat, ino : Nat, moved : FileType]

DiskTypes ==
  /\ files \in [Paths -> FileType]
  /\ job \in JobType
  /\ fresh \in Nat /\ fresh <= MaxData /\ faults \in Nat

\* A piece of data is in one place of the disk that a name leads to, or in none.
Apart ==
  /\ \A p \in Paths : Occupied(files[p]) \cap Loose = {}
  /\ \A p, q \in Paths : p # q => Occupied(files[p]) \cap Occupied(files[q]) = {}
Inner == \A p \in Paths :
  files[p] # NoFile => InBlocks(files[p].blocks) \cap InTail(files[p]) = {}

Rust == ~Flash(device) => spare = {}
FillerInFree == filler.dirty \subseteq residue

\* Nothing is known that was not written.
Known ==
  /\ Everywhere \subseteq 1..fresh
  /\ \A p \in Paths : job.data[p] \subseteq 1..fresh
  /\ \A c \in certs : c.data \subseteq 1..fresh
  /\ job.held \subseteq 1..fresh

HasTargets ==
  /\ job.tool \in {"shred", "slack"} => job.todo # << >>
  /\ job.at = "confirm" => job.ino = 0

Gone(X) == X \cap Everywhere \subseteq escaped
\* The burn still reaches what it planned to destroy.
Reach(p, d) ==
  files[p] # NoFile =>
    IF job.tool = "shred"
    THEN /\ d \notin InTail(files[p])
         /\ \A i \in DOMAIN files[p].blocks : i > job.size[p] => files[p].blocks[i] # d
    ELSE d \notin InBlocks(files[p].blocks)
Clear(p, d) ==
  /\ d \notin Loose
  /\ \A q \in Paths \ {p} : d \notin Occupied(files[q])
  /\ Reach(p, d)
Pending(p) == \A d \in job.data[p] : d \in escaped \/ Clear(p, d)
Treated ==
  \/ job.tool = "shred" /\ job.at \in {"verify", "rename", "unlink", "certify"}
  \/ job.tool = "shred" /\ job.at = "overwrite" /\ job.ino # 0
  \/ job.tool = "slack" /\ job.at \in {"truncate", "certify"}
JobInv ==
  job.tool \in {"shred", "slack"} /\ ~Flash(device) =>
    /\ \A i \in DOMAIN job.todo : Pending(job.todo[i])
    /\ Treated => Gone(job.data[Target])
\* Behind the planned size a slack wipe finds nothing in any file that the target held when it
\* was planned.
Behind(f, n, held) == \A i \in DOMAIN f.blocks : i > n => f.blocks[i] \notin held
SlackInv ==
  job.tool = "slack" => \A p \in Paths :
    files[p] # NoFile => Behind(files[p], job.size[Target], job.held)

DiskInv ==
  /\ DiskTypes /\ Apart /\ Inner /\ Rust /\ FillerInFree /\ Known /\ HasTargets
  /\ CertifiedIsOverwritten /\ JobInv /\ SlackInv

\* A step brings no old piece of data back.
Older == fresh <= fresh' /\ Everywhere' \cap 1..fresh \subseteq Everywhere

-----------------------------------------------------------------------------
LEMMA HddIsRust ==
  ASSUME NEW d, Classify(d) = "hdd"
  PROVE  ~Flash(d)
BY DEF Classify, Flash

LEMMA Spread ==
  \A x : x \in Everywhere <=> x \in Loose \/ \E p \in Paths : x \in Occupied(files[p])
BY Zenon DEF Everywhere

LEMMA SpreadNext ==
  \A x : x \in Everywhere' <=> x \in Loose' \/ \E p \in Paths : x \in Occupied(files'[p])
BY Zenon DEF Everywhere

LEMMA Flow ==
  ASSUME Apart, NEW T \in Paths, NEW N,
         \A q \in Paths \ {T} : files'[q] = files[q],
         Occupied(files'[T]) \subseteq Occupied(files[T]) \cup N,
         Loose' \subseteq Loose \cup (Occupied(files[T]) \ Occupied(files'[T])),
         N \cap Everywhere = {}
  PROVE  Apart' /\ Everywhere' \subseteq Everywhere \cup N
<1>1. Everywhere' \subseteq Everywhere \cup N
  BY Spread, SpreadNext
<1>2. ASSUME NEW p \in Paths PROVE Occupied(files'[p]) \cap Loose' = {}
  <2>1. CASE p = T
    BY <2>1, Spread DEF Apart
  <2>2. CASE p # T
    BY <2>2, Spread DEF Apart
  <2> QED
    BY <2>1, <2>2
<1>3. ASSUME NEW p \in Paths, NEW q \in Paths, p # q
      PROVE  Occupied(files'[p]) \cap Occupied(files'[q]) = {}
  <2>1. CASE p = T
    BY <1>3, <2>1, Spread DEF Apart
  <2>2. CASE q = T
    BY <1>3, <2>2, Spread DEF Apart
  <2>3. CASE p # T /\ q # T
    BY <1>3, <2>3 DEF Apart
  <2> QED
    BY <2>1, <2>2, <2>3
<1> QED
  BY <1>1, <1>2, <1>3 DEF Apart

LEMMA Still ==
  ASSUME Apart, files' = files, Loose' \subseteq Loose
  PROVE  Apart' /\ Everywhere' \subseteq Everywhere
BY Spread, SpreadNext DEF Apart

\* What flows nowhere new stays known, certified and gone.
LEMMA Carried ==
  ASSUME Known, CertifiedIsOverwritten, fresh \in Nat, fresh' \in Nat, fresh <= fresh',
         NEW N, N \subseteq (fresh + 1)..fresh', Everywhere' \subseteq Everywhere \cup N,
         escaped \subseteq escaped', certs' = certs
  PROVE  /\ Everywhere' \subseteq 1..fresh'
         /\ \A c \in certs' : c.data \subseteq 1..fresh'
         /\ CertifiedIsOverwritten'
         /\ \A X \in SUBSET (1..fresh) : Gone(X) => Gone(X)'
<1>1. Everywhere' \subseteq 1..fresh'
  BY DEF Known
<1>2. \A c \in certs' : c.data \subseteq 1..fresh'
  BY DEF Known
<1>3. ASSUME NEW X, X \subseteq 1..fresh, X \cap Everywhere \subseteq escaped
      PROVE  X \cap Everywhere' \subseteq escaped'
  <2> SUFFICES ASSUME NEW x \in X, x \in Everywhere' PROVE x \in escaped'
    OBVIOUS
  <2>1. x \notin N
    BY <1>3
  <2> QED
    BY <1>3, <2>1
<1>4. CertifiedIsOverwritten'
  <2> SUFFICES ASSUME NEW c \in certs, c.tool # "free" /\ c.success /\ c.guarantee,
                      NEW x \in c.data, x \in Everywhere'
               PROVE  x \in c.escaped
    BY DEF CertifiedIsOverwritten
  <2>1. x \in 1..fresh
    BY DEF Known
  <2>2. x \notin N
    BY <2>1
  <2>3. x \in Everywhere
    BY <2>2
  <2> QED
    BY <2>3 DEF CertifiedIsOverwritten
<1>5. ASSUME NEW X \in SUBSET (1..fresh), Gone(X) PROVE Gone(X)'
  BY <1>3, <1>5 DEF Gone
<1> QED
  BY <1>1, <1>2, <1>4, <1>5

LEMMA GoneIsPending ==
  ASSUME DiskTypes, Known, NEW p \in Paths, Gone(job.data[p])
  PROVE  Pending(p)
<1> SUFFICES ASSUME NEW d \in job.data[p], d \notin escaped PROVE Clear(p, d)
  BY DEF Pending
<1>1. d \notin Everywhere
  BY DEF Gone
<1>2. d \notin Loose /\ \A q \in Paths : d \notin Occupied(files[q])
  BY <1>1, Spread
<1>3. d \in 1..MaxData
  BY DEF Known, DiskTypes
<1>4. ASSUME files[p] # NoFile PROVE d \notin InTail(files[p]) /\ d \notin InBlocks(files[p].blocks)
  BY <1>2, <1>4 DEF Occupied
<1>5. ASSUME files[p] # NoFile, NEW i \in DOMAIN files[p].blocks PROVE files[p].blocks[i] # d
  BY <1>3, <1>4, <1>5 DEF InBlocks, Range, Zero, Noise
<1>6. Reach(p, d)
  BY <1>4, <1>5 DEF Reach
<1> QED
  BY <1>2, <1>6 DEF Clear

LEMMA PendingKept ==
  ASSUME DiskTypes, Known, NEW T \in Paths, NEW N,
         \A q \in Paths \ {T} : files'[q] = files[q],
         Occupied(files'[T]) \subseteq Occupied(files[T]) \cup N,
         Loose' \subseteq Loose \cup Occupied(files[T]),
         N \cap 1..fresh = {}, escaped \subseteq escaped',
         job'.data = job.data, job'.size = job.size, job'.tool = job.tool,
         \A d \in job.data[T] : Clear(T, d) => d \in escaped' \/ (d \notin Loose' /\ Reach(T, d)'),
         NEW p \in Paths, Pending(p)
  PROVE  Pending(p)'
<1> SUFFICES ASSUME NEW d \in job.data[p], d \notin escaped' PROVE Clear(p, d)'
  BY DEF Pending
<1>1. Clear(p, d) /\ d \in 1..fresh
  BY DEF Pending, Known
<1>2. CASE p = T
  <2>1. d \notin Loose' /\ Reach(p, d)'
    BY <1>1, <1>2
  <2>2. \A q \in Paths \ {p} : d \notin Occupied(files'[q])
    BY <1>1, <1>2 DEF Clear
  <2> QED
    BY <2>1, <2>2 DEF Clear
<1>3. CASE p # T
  <2>1. d \notin Loose'
    BY <1>1, <1>3 DEF Clear
  <2>2. \A q \in Paths \ {p} : d \notin Occupied(files'[q])
    BY <1>1, <1>3 DEF Clear
  <2>3. Reach(p, d)'
    BY <1>1, <1>3 DEF Clear, Reach
  <2> QED
    BY <2>1, <2>2, <2>3 DEF Clear
<1> QED
  BY <1>2, <1>3

-----------------------------------------------------------------------------
LEMMA FileTypes ==
  ASSUME DiskTypes, NEW p \in Paths, files[p] # NoFile
  PROVE  /\ files[p] \in FileRec
         /\ files[p].blocks \in Seq(Nat) /\ files[p].tail \in Nat /\ files[p].ino \in Nat
<1>1. files[p] \in FileRec
  BY DEF DiskTypes, FileType
<1> QED
  BY <1>1 DEF FileRec

LEMMA Rewritten ==
  ASSUME NEW f \in FileRec, NEW b \in Seq(Nat), NEW g, g = [f EXCEPT !.blocks = b]
  PROVE  g \in FileRec /\ g.blocks = b /\ g.tail = f.tail /\ g.ino = f.ino
BY DEF FileRec

LEMMA Retailed ==
  ASSUME NEW f \in FileRec, NEW s \in Nat, NEW g, g = [f EXCEPT !.tail = s]
  PROVE  g \in FileRec /\ g.blocks = f.blocks /\ g.tail = s /\ g.ino = f.ino
BY DEF FileRec

LEMMA FilledBlocks ==
  ASSUME NEW blocks \in Seq(Nat), NEW n \in Nat, NEW with, with = Zero \/ with = Noise, NEW filled,
         filled = Filled(blocks, n, with)
  PROVE  /\ filled \in Seq(Nat)
         /\ \A i \in DOMAIN filled : \/ i <= n /\ filled[i] = with
                                     \/ i > n /\ i \in DOMAIN blocks /\ filled[i] = blocks[i]
         /\ InBlocks(filled) \subseteq InBlocks(blocks)
<1> DEFINE m == IF n > Len(blocks) THEN n ELSE Len(blocks)
<1>1. m \in Nat
  OBVIOUS
<1>2. with \in Nat
  BY DEF Zero, Noise
<1>3. filled = [i \in 1..m |-> IF i <= n THEN with ELSE blocks[i]]
  BY DEF Filled
<1>4. \A i \in 1..m : i <= n \/ (i > n /\ i \in DOMAIN blocks /\ blocks[i] \in Nat)
  OBVIOUS
<1> HIDE DEF m
<1>5. filled \in [1..m -> Nat]
  BY <1>1, <1>2, <1>3, <1>4
<1>6. filled \in Seq(Nat) /\ DOMAIN filled = 1..m
  BY <1>1, <1>5
<1>7. \A i \in DOMAIN filled : \/ i <= n /\ filled[i] = with
                               \/ i > n /\ i \in DOMAIN blocks /\ filled[i] = blocks[i]
  BY <1>1, <1>3, <1>4, <1>6
<1>8. InBlocks(filled) \subseteq InBlocks(blocks)
  BY <1>7 DEF InBlocks, Range
<1> QED
  BY <1>6, <1>7, <1>8

LEMMA ResizedBlocks ==
  ASSUME NEW blocks \in Seq(Nat), NEW n \in Nat, NEW resized, resized = Resized(blocks, n)
  PROVE  /\ resized \in Seq(Nat) /\ DOMAIN resized = 1..n
         /\ InBlocks(resized) \subseteq InBlocks(blocks)
         /\ \A i \in 1..n : i \in DOMAIN blocks => resized[i] = blocks[i]
<1>1. resized = [i \in 1..n |-> IF i <= Len(blocks) THEN blocks[i] ELSE Zero]
  BY DEF Resized
<1>2. \A i \in 1..n : i <= Len(blocks) => i \in DOMAIN blocks /\ blocks[i] \in Nat
  OBVIOUS
<1>3. resized \in [1..n -> Nat]
  BY <1>1, <1>2 DEF Zero
<1>4. resized \in Seq(Nat) /\ DOMAIN resized = 1..n
  BY <1>3
<1>5. \A i \in 1..n : resized[i] = Zero \/ (i \in DOMAIN blocks /\ resized[i] = blocks[i])
  BY <1>1, <1>2
<1>6. InBlocks(resized) \subseteq InBlocks(blocks)
  BY <1>4, <1>5 DEF InBlocks, Range
<1>7. \A i \in 1..n : i \in DOMAIN blocks => resized[i] = blocks[i]
  BY <1>1
<1> QED
  BY <1>4, <1>6, <1>7

LEMMA NoJobTypes ==
  /\ NoJob \in JobType /\ NoJob.tool = "none" /\ NoJob.at = "idle" /\ NoJob.todo = << >>
  /\ NoJob.size = [p \in Paths |-> 0] /\ NoJob.data = [p \in Paths |-> {}]
  /\ NoJob.held = {} /\ NoJob.ino = 0 /\ NoJob.moved = NoFile
BY DEF NoJob, JobType, Tools, Places, FileType

LEMMA JobParts ==
  ASSUME job \in JobType
  PROVE  /\ job.tool \in Tools /\ job.at \in Places /\ job.todo \in Seq(Paths)
         /\ job.size \in [Paths -> Nat] /\ job.data \in [Paths -> SUBSET Nat]
         /\ job.held \in SUBSET Nat /\ job.ino \in Nat /\ job.moved \in FileType
BY DEF JobType

\* Without a command nothing is pending.
LEMMA NoCommand ==
  ASSUME job' = NoJob, fresh' \in Nat
  PROVE  /\ HasTargets' /\ JobInv' /\ SlackInv' /\ job' \in JobType
         /\ \A p \in Paths : job'.data[p] \subseteq 1..fresh'
         /\ job'.held \subseteq 1..fresh' /\ Occupied(job'.moved) = {}
BY NoJobTypes DEF HasTargets, JobInv, SlackInv, Occupied

LEMMA NoneOccupied == Occupied(NoFile) = {}
BY DEF Occupied

LEMMA HeadTarget ==
  ASSUME DiskTypes, HasTargets, job.tool \in {"shred", "slack"}
  PROVE  /\ Target \in Paths /\ Target = job.todo[1] /\ 1 \in DOMAIN job.todo
         /\ job.todo \in Seq(Paths) /\ job.todo # << >>
         /\ job.size[Target] \in Nat /\ job.data[Target] \in SUBSET Nat
<1>1. job.todo \in Seq(Paths) /\ job.todo # << >>
  BY JobParts DEF DiskTypes, HasTargets
<1>2. Target \in Paths /\ Target = job.todo[1] /\ 1 \in DOMAIN job.todo
  BY <1>1 DEF Target
<1> QED
  BY <1>1, <1>2, JobParts DEF DiskTypes

-----------------------------------------------------------------------------
LEMMA FillHolds ==
  ASSUME DiskInv, job.tool = "shred", NEW T \in Paths, files[T] # NoFile,
         NEW with, with = Zero \/ with = Noise,
         Fill(T, with), device' = device, residue' = residue, litter' = litter, fresh' = fresh,
         escaped' = escaped, job'.moved = job.moved, job'.data = job.data,
         job'.size = job.size, job'.tool = job.tool, job'.todo = job.todo
  PROVE  /\ files' \in [Paths -> FileType]
         /\ Apart' /\ Inner' /\ Rust' /\ Everywhere' \subseteq Everywhere
         /\ ~Flash(device) => \A p \in Paths : Pending(p) => Pending(p)'
         /\ ~Flash(device) /\ T = Target /\ Pending(Target) => Gone(job.data[Target])'
<1> USE DEF DiskInv
<1>1. job.size[Target] \in Nat
  BY HeadTarget
<1>2. PICK f \in FileRec : f = files[T] /\ f.blocks \in Seq(Nat)
  BY <1>1, FileTypes
<1>3. PICK n \in Nat : n = job.size[Target]
  BY <1>1
<1>4. PICK filled : filled = Filled(f.blocks, n, with)
  OBVIOUS
<1>5. /\ filled \in Seq(Nat) /\ InBlocks(filled) \subseteq InBlocks(f.blocks)
      /\ \A i \in DOMAIN filled : \/ i <= n /\ filled[i] = with
                                  \/ i > n /\ i \in DOMAIN f.blocks /\ filled[i] = f.blocks[i]
  <2>1. f.blocks \in Seq(Nat)
    BY <1>2
  <2>2. with = Zero \/ with = Noise
    OBVIOUS
  <2>3. filled \in Seq(Nat)
    BY ONLY <2>1, <2>2, <1>4, n \in Nat, FilledBlocks
  <2>4. InBlocks(filled) \subseteq InBlocks(f.blocks)
    BY ONLY <2>1, <2>2, <1>4, n \in Nat, FilledBlocks
  <2>5. \A i \in DOMAIN filled : \/ i <= n /\ filled[i] = with
                                 \/ i > n /\ i \in DOMAIN f.blocks /\ filled[i] = f.blocks[i]
    BY ONLY <2>1, <2>2, <1>4, n \in Nat, FilledBlocks
  <2> QED
    BY <2>3, <2>4, <2>5
<1>6. files' = [files EXCEPT ![T].blocks = filled]
  BY <1>1, <1>2, <1>3, <1>4 DEF Fill
<1>7. PICK g : g = [f EXCEPT !.blocks = filled]
  OBVIOUS
<1>8. g \in FileRec /\ g.blocks = filled /\ g.tail = f.tail
  BY <1>5, <1>7, Rewritten
<1>9. /\ files' = [files EXCEPT ![T] = g] /\ files' \in [Paths -> FileType]
      /\ files'[T] = g /\ \A q \in Paths \ {T} : files'[q] = files[q]
  <2>1. files' = [files EXCEPT ![T] = g]
    BY <1>2, <1>6, <1>7
  <2>2. files \in [Paths -> FileType] /\ g \in FileType
    BY <1>8 DEF DiskTypes, FileType
  <2> QED
    BY <2>1, <2>2
<1>10. InTail(g) = InTail(f)
  BY <1>8 DEF InTail
<1>11. f # NoFile /\ Occupied(f) = InBlocks(f.blocks) \cup InTail(f)
  BY <1>1, <1>2 DEF Occupied
<1>12. Occupied(g) \subseteq InBlocks(filled) \cup InTail(f)
  BY <1>8, <1>10 DEF Occupied
<1>13. InBlocks(f.blocks) \cap InTail(f) = {}
  BY <1>2, <1>11 DEF Inner
<1>14. spare' = IF Flash(device) THEN spare \cup (InBlocks(f.blocks) \ InBlocks(filled)) ELSE spare
  BY <1>1, <1>2, <1>3, <1>4 DEF Fill, Over
<1>15. Loose' \subseteq Loose \cup (Occupied(f) \ Occupied(g))
  BY <1>11, <1>12, <1>13, <1>14 DEF Loose
<1>16. Apart' /\ Everywhere' \subseteq Everywhere
  <2> DEFINE N == {}
  <2>1. Occupied(files'[T]) \subseteq Occupied(files[T]) \cup N
    BY <1>2, <1>5, <1>9, <1>11, <1>12
  <2>2. Loose' \subseteq Loose \cup (Occupied(files[T]) \ Occupied(files'[T]))
    BY <1>2, <1>9, <1>15
  <2>3. Apart' /\ Everywhere' \subseteq Everywhere \cup N
    BY <1>9, <2>1, <2>2, Flow
  <2> QED
    BY <2>3
<1>17. Inner'
  <2> SUFFICES ASSUME NEW q \in Paths, files'[q] # NoFile
               PROVE  InBlocks(files'[q].blocks) \cap InTail(files'[q]) = {}
    BY DEF Inner
  <2>1. CASE q = T
    BY <1>5, <1>8, <1>9, <1>10, <1>13, <2>1
  <2>2. CASE q # T
    BY <1>9, <2>2 DEF Inner
  <2> QED
    BY <2>1, <2>2
<1>18. Rust'
  BY <1>14 DEF Rust
<1>19. ASSUME ~Flash(device), NEW d \in job.data[T], Clear(T, d)
       PROVE  d \notin Loose' /\ Reach(T, d)'
  <2>1. Loose' = Loose
    BY <1>14, <1>19 DEF Loose
  <2>2. d \notin Loose /\ Reach(T, d)
    BY <1>19 DEF Clear
  <2>3. d \notin InTail(f) /\ \A i \in DOMAIN f.blocks : i > job.size[T] => f.blocks[i] # d
    BY <1>2, <1>11, <2>2 DEF Reach
  <2>4. d # with
    <3>1. d \in 1..fresh /\ fresh <= MaxData /\ fresh \in Nat
      BY DEF Known, DiskTypes
    <3> QED
      BY <3>1 DEF Zero, Noise
  <2>6. d \notin InTail(g) /\ \A i \in DOMAIN g.blocks : i > job.size[T] => g.blocks[i] # d
    BY <1>5, <1>8, <1>10, <2>3, <2>4
  <2>5. Reach(T, d)'
    BY <1>9, <2>6 DEF Reach
  <2> QED
    BY <2>1, <2>2, <2>5
<1>20. ASSUME ~Flash(device), NEW q \in Paths, Pending(q) PROVE Pending(q)'
  <2>1. Loose' \subseteq Loose \cup Occupied(files[T])
    BY <1>2, <1>15
  <2>2. Occupied(files'[T]) \subseteq Occupied(files[T]) \cup {}
    BY <1>2, <1>5, <1>9, <1>11, <1>12
  <2>3. {} \cap 1..fresh = {}
    OBVIOUS
  <2> QED
    BY <1>9, <1>19, <1>20, <2>1, <2>2, <2>3, PendingKept
<1>21. ASSUME ~Flash(device), T = Target, Pending(T) PROVE Gone(job.data[T])'
  <2> SUFFICES ASSUME NEW d \in job'.data[T], d \notin escaped' PROVE d \notin Everywhere'
    BY DEF Gone
  <2>1. d \in 1..fresh /\ d \in Nat
    BY DEF Known
  <2>2. Clear(T, d)
    BY <1>21 DEF Pending
  <2>3. Reach(T, d) /\ d \notin Loose' /\ \A q \in Paths \ {T} : d \notin Occupied(files[q])
    BY <1>19, <1>21, <2>2 DEF Clear
  <2>4. d \notin InTail(f) /\ \A i \in DOMAIN f.blocks : i > n => f.blocks[i] # d
    BY <1>2, <1>3, <1>11, <1>21, <2>3 DEF Reach
  <2>5. d \notin InBlocks(filled)
    BY <1>5, <2>4 DEF InBlocks, Range
  <2>6. d \notin Occupied(files'[T])
    BY <1>9, <1>12, <2>4, <2>5
  <2>7. \A q \in Paths : d \notin Occupied(files'[q])
    BY <1>9, <2>3, <2>6
  <2> QED
    BY <2>3, <2>7, SpreadNext
<1>22. Target = Target'
  BY DEF Target
<1>23. ~Flash(device) /\ T = Target /\ Pending(Target) => Gone(job.data[Target])'
  BY <1>21, <1>22
<1> QED
  BY <1>9, <1>16, <1>17, <1>18, <1>20, <1>23

-----------------------------------------------------------------------------
\* A step that moves nothing between files.
LEMMA Quiet ==
  ASSUME DiskInv, files' = files, device' = device, spare' = spare, Loose' \subseteq Loose,
         filler'.dirty \subseteq residue', fresh' = fresh, faults' \in Nat,
         job' \in JobType, job'.held \subseteq 1..fresh,
         \A p \in Paths : job'.data[p] \subseteq 1..fresh,
         \A c \in certs' : c \in certs \/
           /\ c.data \subseteq 1..fresh
           /\ c.tool # "free" /\ c.success /\ c.guarantee => c.data \cap Everywhere \subseteq c.escaped
  PROVE  /\ DiskTypes' /\ Apart' /\ Inner' /\ Rust' /\ FillerInFree' /\ Known'
         /\ CertifiedIsOverwritten' /\ Older
         /\ Everywhere' \subseteq Everywhere
<1>1. Apart' /\ Everywhere' \subseteq Everywhere
  BY Still DEF DiskInv
<1>2. DiskTypes' /\ Inner' /\ Rust' /\ FillerInFree'
  BY DEF DiskInv, DiskTypes, Inner, Rust, FillerInFree
<1>3. Known'
  BY <1>1 DEF DiskInv, Known
<1>4. CertifiedIsOverwritten'
  <2> SUFFICES ASSUME NEW c \in certs', c.tool # "free" /\ c.success /\ c.guarantee
               PROVE  c.data \cap Everywhere' \subseteq c.escaped
    BY Zenon DEF CertifiedIsOverwritten
  <2>1. c.data \cap Everywhere \subseteq c.escaped
    BY Zenon DEF DiskInv, CertifiedIsOverwritten
  <2> QED
    BY <1>1, <2>1
<1>5. Older
  BY <1>1 DEF Older, DiskInv, DiskTypes
<1> QED
  BY <1>1, <1>2, <1>3, <1>4, <1>5

\* A step that changes one file.
LEMMA OneFile ==
  ASSUME DiskInv, NEW T \in Paths, NEW N,
         files' \in [Paths -> FileType], \A q \in Paths \ {T} : files'[q] = files[q],
         Occupied(files'[T]) \subseteq Occupied(files[T]) \cup N,
         files'[T] # NoFile => InBlocks(files'[T].blocks) \cap InTail(files'[T]) = {},
         Loose' \subseteq Loose \cup (Occupied(files[T]) \ Occupied(files'[T])),
         device' = device, ~Flash(device) => spare' = spare, filler'.dirty \subseteq residue',
         fresh' \in Nat, fresh <= fresh', fresh' <= MaxData, N \subseteq (fresh + 1)..fresh',
         faults' \in Nat,
         escaped \subseteq escaped', certs' = certs,
         job' \in JobType, job'.held \subseteq 1..fresh, \A p \in Paths : job'.data[p] \subseteq 1..fresh
  PROVE  /\ DiskTypes' /\ Apart' /\ Inner' /\ Rust' /\ FillerInFree' /\ Known'
         /\ CertifiedIsOverwritten' /\ Older
         /\ Everywhere' \subseteq Everywhere \cup N
<1>1. N \cap Everywhere = {} /\ fresh \in Nat
  BY DEF DiskInv, Known, DiskTypes
<1>2. Apart' /\ Everywhere' \subseteq Everywhere \cup N
  BY <1>1, Flow DEF DiskInv
<1>3. /\ Everywhere' \subseteq 1..fresh' /\ \A c \in certs' : c.data \subseteq 1..fresh'
      /\ CertifiedIsOverwritten'
  BY <1>1, <1>2, Carried DEF DiskInv
<1>4. Known'
  <2>1. \A p \in Paths : job'.data[p] \subseteq 1..fresh'
    BY <1>1
  <2>2. job'.held \subseteq 1..fresh'
    BY <1>1 DEF JobType
  <2> QED
    BY <1>3, <2>1, <2>2 DEF Known
<1>5. DiskTypes'
  BY DEF DiskInv, DiskTypes
<1>6. Inner'
  <2> SUFFICES ASSUME NEW q \in Paths, files'[q] # NoFile
               PROVE  InBlocks(files'[q].blocks) \cap InTail(files'[q]) = {}
    BY DEF Inner
  <2>1. CASE q = T
    BY <2>1
  <2>2. CASE q # T
    BY <2>2 DEF DiskInv, Inner
  <2> QED
    BY <2>1, <2>2
<1>7. Rust' /\ FillerInFree'
  BY DEF DiskInv, Rust, FillerInFree
<1>8. Older
  BY <1>1, <1>2 DEF Older
<1> QED
  BY <1>2, <1>3, <1>4, <1>5, <1>6, <1>7, <1>8

\* What was planned stays within reach while the burn goes on.
LEMMA PendingStill ==
  ASSUME files' = files, Loose' \subseteq Loose, escaped \subseteq escaped',
         job'.data = job.data, job'.size = job.size, job'.tool = job.tool,
         NEW p, Pending(p)
  PROVE  Pending(p)'
<1> SUFFICES ASSUME NEW d \in job.data[p], d \notin escaped' PROVE Clear(p, d)'
  BY DEF Pending
<1>1. Clear(p, d)
  BY DEF Pending
<1> QED
  BY <1>1 DEF Clear, Reach

LEMMA GoneStill ==
  ASSUME NEW X, NEW N, X \subseteq 1..fresh, N \cap 1..fresh = {}, Gone(X),
         Everywhere' \subseteq Everywhere \cup N, escaped \subseteq escaped'
  PROVE  X \cap Everywhere' \subseteq escaped'
<1> SUFFICES ASSUME NEW x \in X, x \in Everywhere' PROVE x \in escaped'
  OBVIOUS
<1> QED
  BY DEF Gone

\* The command goes on with the same target.
LEMMA SameTarget ==
  ASSUME DiskInv, job.tool \in {"shred", "slack"}, device' = device,
         job'.tool = job.tool, job'.todo = job.todo, job'.data = job.data,
         ~Flash(device) => \A p \in Paths : Pending(p) => Pending(p)',
         ~Flash(device) /\ Treated' => Gone(job.data[Target])'
  PROVE  JobInv'
<1> SUFFICES ASSUME ~Flash(device)
             PROVE  /\ \A i \in DOMAIN job'.todo : Pending(job.todo[i])'
                    /\ Treated' => Gone(job.data[Target])'
  BY DEF JobInv
<1>1. job.todo \in Seq(Paths)
  BY JobParts DEF DiskInv, DiskTypes
<1>2. ASSUME NEW i \in DOMAIN job'.todo PROVE Pending(job.todo[i])'
  <2>1. PICK p \in Paths : p = job.todo[i] /\ p = job'.todo[i]
    BY <1>1
  <2>2. Pending(p)
    BY <2>1 DEF DiskInv, JobInv
  <2>3. Pending(p)'
    BY <2>2
  <2> QED
    BY <2>1, <2>3
<1> QED
  BY <1>2

LEMMA Onwards ==
  ASSUME DiskInv, job.tool = "shred", NextTarget, files' = files, device' = device,
         fresh' = fresh, Loose' \subseteq Loose, escaped' = escaped
  PROVE  /\ HasTargets' /\ JobInv' /\ SlackInv' /\ job' \in JobType /\ job'.held \subseteq 1..fresh
         /\ \A p \in Paths : job'.data[p] \subseteq 1..fresh
<1>1. fresh \in Nat /\ job \in JobType
  BY DEF DiskInv, DiskTypes
<1>2. CASE Len(job.todo) = 1
  BY <1>1, <1>2, NoCommand DEF NextTarget
<1>3. CASE Len(job.todo) # 1
  <2>1. PICK j : j = job'
    OBVIOUS
  <2>2. j = [job EXCEPT !.todo = Tail(@), !.at = "overwrite", !.moved = NoFile, !.ino = 0]
    BY <1>3, <2>1 DEF NextTarget
  <2>3. job.todo \in Seq(Paths) /\ job.todo # << >>
    BY <1>1, JobParts, HeadTarget DEF DiskInv
  <2>4. PICK rest \in Seq(Paths) :
          /\ rest = Tail(job.todo) /\ Len(rest) = Len(job.todo) - 1
          /\ \A i \in 1..Len(rest) : rest[i] = job.todo[i + 1]
    <3>1. PICK s \in Seq(Paths) : s = job.todo /\ s # << >>
      BY <2>3
    <3>2. /\ Tail(s) \in Seq(Paths) /\ Len(Tail(s)) = Len(s) - 1
          /\ \A i \in 1..Len(Tail(s)) : Tail(s)[i] = s[i + 1]
      BY <3>1, HeadTailProperties
    <3> QED
      BY <3>1, <3>2
  <2>5. /\ j \in JobType /\ j.tool = "shred" /\ j.at = "overwrite" /\ j.todo = rest /\ j.ino = 0
        /\ j.size = job.size /\ j.data = job.data /\ j.held = job.held /\ j.moved = NoFile
    BY <1>1, <2>2, <2>4 DEF JobType, Places, FileType
  <2>6. rest # << >> /\ \A i \in DOMAIN rest : i + 1 \in DOMAIN job.todo /\ rest[i] = job.todo[i + 1]
    <3>1. Len(job.todo) \in Nat \ {0, 1} /\ DOMAIN job.todo = 1..Len(job.todo)
      <4>1. PICK s \in Seq(Paths) : s = job.todo /\ s # << >>
        BY <2>3
      <4>2. Len(s) \in Nat /\ Len(s) # 0 /\ DOMAIN s = 1..Len(s)
        BY <4>1
      <4> QED
        BY <1>3, <4>1, <4>2
    <3>2. Len(rest) \in Nat /\ DOMAIN rest = 1..Len(rest)
      OBVIOUS
    <3>3. Len(rest) # 0
      BY <2>4, <3>1
    <3>4. rest # << >>
      BY <3>3
    <3> QED
      BY <2>4, <3>1, <3>2, <3>4
  <2>7. HasTargets' /\ SlackInv'
    BY <2>1, <2>5, <2>6 DEF HasTargets, SlackInv
  <2>8. JobInv'
    <3> SUFFICES ASSUME ~Flash(device)
                 PROVE  \A i \in DOMAIN job'.todo : Pending(job.todo[i])'
      <4>1. ~Treated'
        BY <2>1, <2>5 DEF Treated
      <4> QED
        BY <4>1 DEF JobInv
    <3>1. ASSUME NEW i \in DOMAIN job'.todo PROVE Pending(job.todo[i])'
      <4>1. PICK p : p = job'.todo[i] /\ p = job.todo[i + 1] /\ i + 1 \in DOMAIN job.todo
        BY <2>1, <2>5, <2>6
      <4>2. Pending(p)
        BY <4>1 DEF DiskInv, JobInv
      <4>3. Pending(p)'
        BY <2>1, <2>5, <4>2, PendingStill
      <4> QED
        BY <4>1, <4>3
    <3> QED
      BY <3>1
  <2>9. \A p \in Paths : job'.data[p] \subseteq 1..fresh
    BY <2>1, <2>5 DEF DiskInv, Known
  <2>10. job'.held \subseteq 1..fresh
    BY <2>1, <2>5 DEF DiskInv, Known
  <2> QED
    BY <2>1, <2>5, <2>7, <2>8, <2>9, <2>10
<1> QED
  BY <1>2, <1>3

-----------------------------------------------------------------------------
LEMMA BeginHolds ==
  ASSUME DiskInv, NEW j \in JobType, Begin(j), j.moved = NoFile, j.ino = 0,
         \A p \in Paths : j.data[p] \subseteq 1..fresh,
         j.tool \in {"shred", "slack"} => j.todo # << >>,
         ASSUME j.tool \in {"shred", "slack"}, NEW p \in Paths, NEW d \in j.data[p]
         PROVE  /\ d \notin Loose /\ \A q \in Paths \ {p} : d \notin Occupied(files[q])
                /\ files[p] # NoFile =>
                     IF j.tool = "shred"
                     THEN /\ d \notin InTail(files[p])
                          /\ \A i \in DOMAIN files[p].blocks : i > j.size[p] => files[p].blocks[i] # d
                     ELSE d \notin InBlocks(files[p].blocks),
         j.held \subseteq 1..fresh,
         j.tool = "slack" => \A p \in Paths :
           files[p] # NoFile => Behind(files[p], j.size[Head(j.todo)], j.held)
  PROVE  DiskInv' /\ Older
<1>1. fresh \in Nat /\ job = NoJob /\ faults \in Nat
  BY DEF DiskInv, DiskTypes, Begin
<1>2. PICK k : k = job'
  OBVIOUS
<1>3. k = [j EXCEPT !.at = "confirm"]
  BY <1>2 DEF Begin
<1>4. /\ k \in JobType /\ k.tool = j.tool /\ k.at = "confirm" /\ k.todo = j.todo /\ k.size = j.size
      /\ k.data = j.data /\ k.held = j.held /\ k.ino = 0 /\ k.moved = NoFile
  BY <1>1, <1>3 DEF JobType, Places
<1>5. /\ files' = files /\ device' = device /\ spare' = spare /\ residue' = residue /\ litter' = litter
      /\ filler' = filler /\ fresh' = fresh /\ faults' = faults
      /\ certs' = certs
  BY DEF Begin, disk, space
<1>6. Loose' \subseteq Loose
  BY <1>2, <1>4, <1>5, NoneOccupied DEF Loose
<1>7. filler'.dirty \subseteq residue'
  BY <1>5 DEF DiskInv, FillerInFree
<1>8. job' \in JobType /\ job'.held \subseteq 1..fresh /\ \A p \in Paths : job'.data[p] \subseteq 1..fresh
  BY <1>1, <1>2, <1>4
<1>9. /\ DiskTypes' /\ Apart' /\ Inner' /\ Rust' /\ FillerInFree' /\ Known'
      /\ CertifiedIsOverwritten' /\ Older
  BY <1>1, <1>5, <1>6, <1>7, <1>8, Quiet
<1>10. HasTargets'
  BY <1>2, <1>4 DEF HasTargets
<1>11. SlackInv'
  BY <1>2, <1>4, <1>5 DEF SlackInv, Target
<1>12. JobInv'
  <2>1. ~Treated'
    BY <1>2, <1>4 DEF Treated
  <2>2. ASSUME job'.tool \in {"shred", "slack"}, NEW p \in Paths PROVE Pending(p)'
    <3> SUFFICES ASSUME NEW d \in job'.data[p] PROVE Clear(p, d)'
      BY DEF Pending
    <3>1. d \in j.data[p] /\ j.tool \in {"shred", "slack"}
      BY <1>2, <1>4, <2>2
    <3>2. d \notin Loose' /\ \A q \in Paths \ {p} : d \notin Occupied(files'[q])
      BY <1>5, <1>6, <3>1
    <3>3. Reach(p, d)'
      BY <1>2, <1>4, <1>5, <3>1 DEF Reach
    <3> QED
      BY <3>2, <3>3 DEF Clear
  <2>3. ASSUME job'.tool \in {"shred", "slack"}, NEW i \in DOMAIN job'.todo PROVE Pending(job.todo[i])'
    <3>1. PICK p \in Paths : p = job'.todo[i]
      BY <1>2, <1>4, <2>3 DEF JobType
    <3>2. Pending(p)'
      BY <2>2, <2>3
    <3> QED
      BY <3>1, <3>2
  <2> QED
    BY <2>1, <2>3 DEF JobInv
<1> QED
  BY <1>9, <1>10, <1>11, <1>12 DEF DiskInv

LEMMA TargetsAreSequences ==
  ASSUME NEW s \in SetToAllKPermutations(Paths), s # << >>
  PROVE  s \in Seq(Paths)
<1>1. PICK S \in SUBSET Paths : s \in SetToSeqs(S)
  BY DEF SetToAllKPermutations
<1>2. IsFiniteSet(S)
  <2>1. NumPaths \in Int /\ 1 \in Int
    OBVIOUS
  <2>2. IsFiniteSet(1..NumPaths)
    BY <2>1, FS_Interval, Zenon
  <2> QED
    BY <2>2, FS_Subset, Zenon DEF Paths
<1>3. Cardinality(S) \in Nat
  BY <1>2, FS_CardinalityType
<1>4. s \in [1..Cardinality(S) -> S]
  BY <1>1 DEF SetToSeqs
<1> QED
  BY <1>3, <1>4

LEMMA StartShredHolds ==
  ASSUME DiskInv, NEW targets \in Seq(Paths), targets # << >>, StartShred(targets)
  PROVE  DiskInv' /\ Older
<1>1. PICK j : j = [NoJob EXCEPT !.tool = "shred", !.todo = targets,
              !.size = [p \in Paths |-> IF files[p] = NoFile THEN 0 ELSE Len(files[p].blocks)],
              !.data = [p \in Paths |-> Holds(files[p])]]
  OBVIOUS
<1>2. Begin(j)
  BY <1>1 DEF StartShred
<1>3. \A p \in Paths : files[p] # NoFile =>
        /\ files[p].blocks \in Seq(Nat) /\ files[p].tail \in Nat
        /\ Occupied(files[p]) = InBlocks(files[p].blocks) \cup InTail(files[p])
  BY FileTypes DEF DiskInv, Occupied
<1>4. ASSUME NEW p \in Paths
      PROVE  (IF files[p] = NoFile THEN 0 ELSE Len(files[p].blocks)) \in Nat
  BY <1>3
<1>5. ASSUME NEW p \in Paths
      PROVE  /\ Holds(files[p]) \subseteq Occupied(files[p])
             /\ Holds(files[p]) \subseteq 1..fresh /\ Holds(files[p]) \subseteq Nat
  <2>1. Holds(files[p]) \subseteq Occupied(files[p])
    BY DEF Holds, Occupied
  <2>2. Occupied(files[p]) \subseteq 1..fresh
    BY Spread DEF DiskInv, Known
  <2> QED
    BY <2>1, <2>2
<1>6. /\ j.tool = "shred" /\ j.todo = targets /\ j.at = "idle" /\ j.held = {} /\ j.ino = 0 /\ j.moved = NoFile
      /\ j.size = [p \in Paths |-> IF files[p] = NoFile THEN 0 ELSE Len(files[p].blocks)]
      /\ j.data = [p \in Paths |-> Holds(files[p])]
      /\ j = [tool |-> j.tool, at |-> j.at, todo |-> j.todo, size |-> j.size, data |-> j.data,
              held |-> j.held, ino |-> j.ino, moved |-> j.moved]
  BY <1>1 DEF NoJob
<1>7. j.size \in [Paths -> Nat]
  BY <1>4, <1>6
<1>8. j.data \in [Paths -> SUBSET Nat]
  BY <1>5, <1>6
<1>9. j \in JobType
  BY <1>6, <1>7, <1>8 DEF JobType, Tools, Places, FileType
<1>10. ASSUME NEW p \in Paths, NEW d \in j.data[p]
       PROVE  /\ d \notin Loose /\ \A q \in Paths \ {p} : d \notin Occupied(files[q])
              /\ files[p] # NoFile =>
                   /\ d \notin InTail(files[p])
                   /\ \A i \in DOMAIN files[p].blocks : i > j.size[p] => files[p].blocks[i] # d
  <2>1. d \in Holds(files[p]) /\ d \in Occupied(files[p])
    BY <1>5, <1>6, <1>10
  <2>2. d \notin Loose /\ \A q \in Paths \ {p} : d \notin Occupied(files[q])
    BY <2>1 DEF DiskInv, Apart
  <2>3. ASSUME files[p] # NoFile
        PROVE  /\ d \notin InTail(files[p])
               /\ \A i \in DOMAIN files[p].blocks : ~(i > j.size[p])
    <3>1. d \in InBlocks(files[p].blocks)
      BY <2>1, <2>3 DEF Holds
    <3>2. d \notin InTail(files[p])
      BY <2>3, <3>1 DEF DiskInv, Inner
    <3>3. j.size[p] = Len(files[p].blocks)
      BY <1>6, <2>3
    <3> QED
      BY <1>3, <2>3, <3>2, <3>3
  <2> QED
    BY <2>2, <2>3
<1>11. \A p \in Paths : j.data[p] \subseteq 1..fresh
  BY <1>5, <1>6
<1> QED
  BY <1>2, <1>6, <1>9, <1>10, <1>11, BeginHolds, ZenonT(60)

LEMMA StartSlackHolds ==
  ASSUME DiskInv, NEW T \in Paths, StartSlack(T)
  PROVE  DiskInv' /\ Older
<1>1. PICK j : j = [NoJob EXCEPT !.tool = "slack", !.todo = <<T>>,
                      !.size[T] = Len(files[T].blocks), !.data[T] = InTail(files[T]),
                      !.held = Holds(files[T])]
  OBVIOUS
<1>2. Begin(j) /\ files[T] # NoFile
  BY <1>1 DEF StartSlack
<1>3. /\ files[T].blocks \in Seq(Nat) /\ files[T].tail \in Nat
      /\ Occupied(files[T]) = InBlocks(files[T].blocks) \cup InTail(files[T])
  BY <1>2, FileTypes DEF DiskInv, Occupied
<1>4. /\ j.tool = "slack" /\ j.todo = <<T>> /\ j.at = "idle" /\ j.ino = 0 /\ j.moved = NoFile
      /\ j.size = [[p \in Paths |-> 0] EXCEPT ![T] = Len(files[T].blocks)]
      /\ j.data = [[p \in Paths |-> {}] EXCEPT ![T] = InTail(files[T])]
      /\ j.held = Holds(files[T])
      /\ j = [tool |-> j.tool, at |-> j.at, todo |-> j.todo, size |-> j.size, data |-> j.data,
              held |-> j.held, ino |-> j.ino, moved |-> j.moved]
  BY <1>1 DEF NoJob
<1>5. InTail(files[T]) \subseteq 1..fresh /\ InTail(files[T]) \subseteq Nat
  <2>1. Occupied(files[T]) \subseteq Everywhere
    BY Spread
  <2>2. Everywhere \subseteq 1..fresh /\ fresh \in Nat
    BY DEF DiskInv, Known, DiskTypes
  <2>3. InTail(files[T]) \subseteq Occupied(files[T])
    BY <1>3
  <2>4. InTail(files[T]) \subseteq 1..fresh
    BY <2>1, <2>2, <2>3, Zenon
  <2> QED
    BY <2>2, <2>4
<1>13. Holds(files[T]) \subseteq 1..fresh /\ Holds(files[T]) \subseteq Nat
  <2>1. Holds(files[T]) \subseteq Occupied(files[T])
    BY DEF Holds, Occupied
  <2>2. Occupied(files[T]) \subseteq 1..fresh
    BY Spread DEF DiskInv, Known
  <2> QED
    BY <2>1, <2>2
<1>6. j.size \in [Paths -> Nat] /\ j.size[T] = Len(files[T].blocks)
  BY <1>3, <1>4
<1>7. j.data \in [Paths -> SUBSET Nat] /\ \A p \in Paths : j.data[p] = IF p = T THEN InTail(files[T]) ELSE {}
  BY <1>4, <1>5
<1>8. j.todo \in Seq(Paths) /\ Head(j.todo) = T /\ j.todo # << >>
  <2>1. <<T>> \in Seq(Paths)
    OBVIOUS
  <2>2. Head(<<T>>) = T
    OBVIOUS
  <2>3. <<T>> # << >>
    OBVIOUS
  <2> QED
    BY <1>4, <2>1, <2>2, <2>3
<1>9. j \in JobType
  <2>1. /\ j.tool \in Tools /\ j.at \in Places /\ j.held \in SUBSET Nat /\ j.ino \in Nat
        /\ j.moved \in FileType
    BY <1>4, <1>13 DEF Tools, Places, FileType
  <2> QED
    BY <1>4, <1>6, <1>7, <1>8, <2>1, Zenon DEF JobType
<1>10. ASSUME NEW p \in Paths, NEW d \in j.data[p]
       PROVE  /\ d \notin Loose /\ \A q \in Paths \ {p} : d \notin Occupied(files[q])
              /\ d \notin InBlocks(files[p].blocks)
  <2>1. p = T /\ d \in InTail(files[T]) /\ d \in Occupied(files[T])
    BY <1>3, <1>7, <1>10
  <2>2. d \notin Loose /\ \A q \in Paths \ {p} : d \notin Occupied(files[q])
    BY <2>1 DEF DiskInv, Apart
  <2>3. d \notin InBlocks(files[p].blocks)
    BY <1>2, <2>1 DEF DiskInv, Inner
  <2> QED
    BY <2>2, <2>3
<1>11. \A p \in Paths : j.data[p] \subseteq 1..fresh
  BY <1>5, <1>7
<1>12. ASSUME NEW p \in Paths, files[p] # NoFile
       PROVE  Behind(files[p], j.size[Head(j.todo)], j.held)
  <2>1. j.size[Head(j.todo)] = Len(files[T].blocks) /\ j.held = Holds(files[T])
    BY <1>4, <1>6, <1>8
  <2>2. CASE p = T
    BY <1>3, <2>1, <2>2 DEF Behind
  <2>3. CASE p # T
    <3>1. Occupied(files[p]) \cap Occupied(files[T]) = {}
      BY <2>3 DEF DiskInv, Apart
    <3>2. \A d \in j.held : d \in Occupied(files[T]) /\ d \notin {Zero, Noise}
      BY <1>2, <1>3, <2>1 DEF Holds, InBlocks
    <3>3. ASSUME NEW i \in DOMAIN files[p].blocks PROVE files[p].blocks[i] \notin j.held
      <4>1. files[p].blocks[i] \in {Zero, Noise} \/ files[p].blocks[i] \in Occupied(files[p])
        BY <1>12 DEF Occupied, InBlocks, Range
      <4> QED
        BY <3>1, <3>2, <4>1
    <3> QED
      BY <3>3 DEF Behind
  <2> QED
    BY <2>2, <2>3
<1> QED
  BY <1>2, <1>4, <1>8, <1>9, <1>10, <1>11, <1>12, <1>13, BeginHolds

LEMMA StartFreeHolds ==
  ASSUME DiskInv, StartFree
  PROVE  DiskInv' /\ Older
<1>1. PICK j : j = [NoJob EXCEPT !.tool = "free"]
  OBVIOUS
<1>2. Begin(j)
  BY <1>1 DEF StartFree
<1>3. /\ j \in JobType /\ j.tool = "free" /\ j.data = [p \in Paths |-> {}] /\ j.ino = 0 /\ j.moved = NoFile
      /\ j.held = {}
  BY <1>1, NoJobTypes DEF JobType, Tools
<1>4. \A p \in Paths : j.data[p] \subseteq 1..fresh
  BY <1>3
<1> QED
  BY <1>2, <1>3, <1>4, BeginHolds

LEMMA ConfirmHolds ==
  ASSUME DiskInv, NEW t, NEW a \in {"overwrite", "extend", "fill"}, Confirm(t, a),
         <<t, a>> \in {<<"shred", "overwrite">>, <<"slack", "extend">>, <<"free", "fill">>}
  PROVE  DiskInv' /\ Older
<1>1. fresh \in Nat /\ job \in JobType /\ faults \in Nat
  BY DEF DiskInv, DiskTypes
<1>2. /\ files' = files /\ device' = device /\ spare' = spare /\ residue' = residue /\ litter' = litter
      /\ filler' = filler /\ fresh' = fresh /\ faults' = faults /\ escaped' = escaped
      /\ certs' = certs
  BY DEF Confirm, disk, fileVars
<1>3. filler'.dirty \subseteq residue'
  BY <1>2 DEF DiskInv, FillerInFree
<1>4. CASE job' = NoJob
  <2>1. Loose' \subseteq Loose
    BY <1>1, <1>2, <1>4, NoCommand DEF Loose
  <2>2. /\ HasTargets' /\ JobInv' /\ SlackInv' /\ job' \in JobType
        /\ job'.held \subseteq 1..fresh /\ \A p \in Paths : job'.data[p] \subseteq 1..fresh
    BY <1>1, <1>2, <1>4, NoCommand
  <2>3. /\ DiskTypes' /\ Apart' /\ Inner' /\ Rust' /\ FillerInFree' /\ Known'
        /\ CertifiedIsOverwritten' /\ Older
    BY <1>1, <1>2, <1>3, <2>1, <2>2, Quiet
  <2> QED
    BY <2>2, <2>3 DEF DiskInv
<1>5. CASE Proceed(a)
  <2>1. PICK k : k = job'
    OBVIOUS
  <2>2. k = [job EXCEPT !.at = a] /\ job.tool = t /\ job.at = "confirm"
    BY <1>5, <2>1 DEF Proceed, Confirm
  <2>3. /\ k \in JobType /\ k.tool = job.tool /\ k.at = a /\ k.todo = job.todo /\ k.size = job.size
        /\ k.data = job.data /\ k.held = job.held /\ k.ino = job.ino /\ k.moved = job.moved
    BY <1>1, <2>2 DEF JobType, Places
  <2>4. Loose' \subseteq Loose
    BY <1>2, <2>1, <2>3 DEF Loose
  <2>5. job'.held \subseteq 1..fresh /\ \A p \in Paths : job'.data[p] \subseteq 1..fresh
    BY <2>1, <2>3 DEF DiskInv, Known
  <2>6. /\ DiskTypes' /\ Apart' /\ Inner' /\ Rust' /\ FillerInFree' /\ Known'
        /\ CertifiedIsOverwritten' /\ Older
    BY <1>1, <1>2, <1>3, <2>1, <2>3, <2>4, <2>5, Quiet
  <2>7. HasTargets' /\ job'.ino = 0
    BY <2>1, <2>2, <2>3 DEF DiskInv, HasTargets
  <2>8. SlackInv'
    BY <1>2, <2>1, <2>3 DEF DiskInv, SlackInv, Target
  <2>9. ~Treated'
    BY <2>1, <2>2, <2>3, <2>7 DEF Treated
  <2>10. JobInv'
    <3>1. CASE job.tool \in {"shred", "slack"}
      <4>1. \A p \in Paths : Pending(p) => Pending(p)'
        BY <1>2, <2>1, <2>3, <2>4, PendingStill
      <4> QED
        BY <1>2, <2>1, <2>3, <2>9, <3>1, <4>1, SameTarget
    <3>2. CASE job.tool \notin {"shred", "slack"}
      BY <2>1, <2>3, <3>2 DEF JobInv
    <3> QED
      BY <3>1, <3>2
  <2> QED
    BY <2>6, <2>7, <2>8, <2>10 DEF DiskInv
<1> QED
  BY <1>4, <1>5 DEF Confirm

-----------------------------------------------------------------------------
LEMMA TargetIsPending ==
  ASSUME DiskInv, job.tool \in {"shred", "slack"}, ~Flash(device)
  PROVE  Pending(Target)
<1>1. 1 \in DOMAIN job.todo /\ Target = job.todo[1]
  BY HeadTarget DEF DiskInv
<1>2. Pending(job.todo[1])
  BY <1>1 DEF DiskInv, JobInv
<1> QED
  BY <1>1, <1>2

LEMMA TargetStaysGone ==
  ASSUME DiskInv, job.tool \in {"shred", "slack"}, ~Flash(device), Treated, fresh' = fresh,
         job'.todo = job.todo, job'.data = job.data, Everywhere' \subseteq Everywhere,
         escaped \subseteq escaped'
  PROVE  Gone(job.data[Target])'
<1>1. PICK X : X = job.data[Target] /\ X = job'.data[Target']
  BY DEF Target
<1>2. Gone(X)
  BY <1>1 DEF DiskInv, JobInv
<1>3. X \cap Everywhere' \subseteq escaped'
  BY <1>2 DEF Gone
<1> QED
  BY <1>1, <1>3 DEF Gone

\* Nothing moves but the place of the command in its work on the target.
LEMMA TargetStill ==
  ASSUME DiskInv, job.tool \in {"shred", "slack"},
         files' = files, device' = device, spare' = spare, Loose' \subseteq Loose,
         filler'.dirty \subseteq residue', fresh' = fresh, faults' \in Nat,
         escaped' = escaped, certs' = certs, job' \in JobType, job'.at # "confirm",
         job'.tool = job.tool, job'.todo = job.todo, job'.size = job.size, job'.data = job.data,
         job'.held = job.held, Treated' => Treated
  PROVE  DiskInv' /\ Older
<1>1. job'.held \subseteq 1..fresh /\ \A p \in Paths : job'.data[p] \subseteq 1..fresh
  BY DEF DiskInv, Known
<1>2. /\ DiskTypes' /\ Apart' /\ Inner' /\ Rust' /\ FillerInFree' /\ Known'
      /\ CertifiedIsOverwritten' /\ Older
      /\ Everywhere' \subseteq Everywhere
  BY <1>1, Quiet
<1>3. HasTargets' /\ SlackInv'
  BY DEF DiskInv, HasTargets, SlackInv, Target
<1>4. \A p \in Paths : Pending(p) => Pending(p)'
  BY PendingStill
<1>5. ~Flash(device) /\ Treated' => Gone(job.data[Target])'
  BY <1>2, TargetStaysGone
<1>6. JobInv'
  BY <1>4, <1>5, SameTarget
<1> QED
  BY <1>2, <1>3, <1>6 DEF DiskInv

LEMMA FillStep ==
  ASSUME DiskInv, job.tool = "shred", NEW R \in Paths, files[R] # NoFile, R = Target \/ Treated,
         NEW with, with = Zero \/ with = Noise, Fill(R, with),
         device' = device, residue' = residue, litter' = litter, filler' = filler, fresh' = fresh,
         faults' = faults, escaped' = escaped, certs' = certs,
         job' \in JobType, job'.at # "confirm", job'.moved = job.moved, job'.data = job.data,
         job'.size = job.size, job'.tool = job.tool, job'.todo = job.todo, job'.held = job.held
  PROVE  DiskInv' /\ Older
<1>1. /\ files' \in [Paths -> FileType]
      /\ Apart' /\ Inner' /\ Rust' /\ Everywhere' \subseteq Everywhere
      /\ ~Flash(device) => \A p \in Paths : Pending(p) => Pending(p)'
      /\ ~Flash(device) /\ R = Target /\ Pending(Target) => Gone(job.data[Target])'
  BY FillHolds
<1>2. DiskTypes' /\ FillerInFree' /\ HasTargets' /\ SlackInv'
  BY <1>1 DEF DiskInv, DiskTypes, FillerInFree, HasTargets, SlackInv
<1>3. fresh \in Nat /\ fresh <= fresh /\ {} \subseteq (fresh + 1)..fresh
  BY DEF DiskInv, DiskTypes
<1>4. /\ Everywhere' \subseteq 1..fresh' /\ \A c \in certs' : c.data \subseteq 1..fresh'
      /\ CertifiedIsOverwritten'
  <2>1. Everywhere' \subseteq Everywhere \cup {}
    BY <1>1
  <2> QED
    BY <1>3, <2>1, Carried DEF DiskInv
<1>5. Known'
  BY <1>4 DEF DiskInv, Known
<1>8. ~Flash(device) => Gone(job.data[Target])'
  <2>1. CASE R = Target
    BY <1>1, <2>1, TargetIsPending
  <2>2. CASE Treated
    BY <1>1, <2>2, TargetStaysGone
  <2> QED
    BY <2>1, <2>2
<1>6. JobInv'
  BY <1>1, <1>8, SameTarget
<1>7. Older
  BY <1>1, <1>3 DEF Older
<1> QED
  BY <1>1, <1>2, <1>4, <1>5, <1>6, <1>7 DEF DiskInv

LEMMA RandomPassHolds ==
  ASSUME DiskInv, RandomPass
  PROVE  DiskInv' /\ Older
<1>1. /\ job.tool = "shred" /\ job.at = "overwrite" /\ files[Target] # NoFile /\ Fill(Target, Noise)
      /\ job' = [job EXCEPT !.ino = files[Target].ino]
      /\ device' = device /\ residue' = residue /\ litter' = litter /\ filler' = filler
      /\ fresh' = fresh /\ faults' = faults /\ escaped' = escaped /\ certs' = certs
  BY DEF RandomPass, disk, bounds
<1>2. Target \in Paths /\ files[Target].ino \in Nat /\ job \in JobType
  BY <1>1, HeadTarget, FileTypes DEF DiskInv, DiskTypes
<1>3. PICK k : k = job'
  OBVIOUS
<1>4. /\ k \in JobType /\ k.tool = job.tool /\ k.at = job.at /\ k.todo = job.todo /\ k.size = job.size
      /\ k.data = job.data /\ k.held = job.held /\ k.moved = job.moved
  BY <1>1, <1>2, <1>3 DEF JobType
<1> QED
  BY <1>1, <1>2, <1>3, <1>4, FillStep

LEMMA OverwriteHolds ==
  ASSUME DiskInv, Overwrite
  PROVE  DiskInv' /\ Older
<1>1. /\ job.tool = "shred" /\ job.at = "overwrite" /\ job' = [job EXCEPT !.at = "verify", !.ino = 0]
      /\ device' = device /\ residue' = residue /\ litter' = litter /\ filler' = filler
      /\ fresh' = fresh /\ faults' = faults /\ escaped' = escaped /\ certs' = certs
  BY DEF Overwrite, disk, bounds
<1>2. job \in JobType /\ faults \in Nat
  BY DEF DiskInv, DiskTypes
<1>3. PICK k : k = job'
  OBVIOUS
<1>4. /\ k \in JobType /\ k.tool = job.tool /\ k.at = "verify" /\ k.todo = job.todo /\ k.size = job.size
      /\ k.data = job.data /\ k.held = job.held /\ k.moved = job.moved
  BY <1>1, <1>2, <1>3 DEF JobType, Places
<1>5. CASE files[Target] # NoFile /\ Fill(Target, Zero)
  <2>1. Target \in Paths
    BY <1>1, HeadTarget DEF DiskInv
  <2> QED
    BY <1>1, <1>3, <1>4, <1>5, <2>1, FillStep
<1>7. ASSUME NEW p \in Opened, Fill(p, Zero) PROVE DiskInv' /\ Older
  <2>1. p \in Paths /\ files[p] # NoFile /\ Treated
    BY <1>1 DEF Opened, Treated
  <2> QED
    BY <1>1, <1>3, <1>4, <1>7, <2>1, FillStep
<1>6. CASE job.ino # 0 /\ UNCHANGED <<files, spare>>
  <2>1. Loose' \subseteq Loose
    BY <1>1, <1>3, <1>4, <1>6 DEF Loose
  <2>2. filler'.dirty \subseteq residue'
    BY <1>1 DEF DiskInv, FillerInFree
  <2>3. Treated
    BY <1>1, <1>6 DEF Treated
  <2> QED
    BY <1>1, <1>2, <1>3, <1>4, <1>6, <2>1, <2>2, <2>3, TargetStill
<1> QED
  BY <1>5, <1>6, <1>7 DEF Overwrite

-----------------------------------------------------------------------------
LEMMA OnwardsHolds ==
  ASSUME DiskInv, job.tool = "shred", NextTarget, files' = files, device' = device, spare' = spare,
         Loose' \subseteq Loose, filler'.dirty \subseteq residue', fresh' = fresh, faults' \in Nat,
         escaped' = escaped,
         \A c \in certs' : c \in certs \/
           /\ c.data \subseteq 1..fresh
           /\ c.tool # "free" /\ c.success /\ c.guarantee => c.data \cap Everywhere \subseteq c.escaped
  PROVE  DiskInv' /\ Older
<1>1. /\ HasTargets' /\ JobInv' /\ SlackInv' /\ job' \in JobType /\ job'.held \subseteq 1..fresh
      /\ \A p \in Paths : job'.data[p] \subseteq 1..fresh
  BY Onwards
<1>2. /\ DiskTypes' /\ Apart' /\ Inner' /\ Rust' /\ FillerInFree' /\ Known'
      /\ CertifiedIsOverwritten' /\ Older
  BY <1>1, Quiet
<1> QED
  BY <1>1, <1>2 DEF DiskInv

LEMMA NextTargetMoved ==
  ASSUME NextTarget, DiskInv
  PROVE  Occupied(job'.moved) = {}
<1>1. job'.moved = NoFile
  BY NoJobTypes DEF NextTarget, DiskInv, DiskTypes, JobType
<1> QED
  BY <1>1, NoneOccupied

LEMMA VerifyHolds ==
  ASSUME DiskInv, Verify
  PROVE  DiskInv' /\ Older
<1>1. /\ job.tool = "shred" /\ job.at = "verify"
      /\ files' = files /\ device' = device /\ spare' = spare /\ residue' = residue /\ litter' = litter
      /\ filler' = filler /\ fresh' = fresh /\ faults' = faults /\ escaped' = escaped
      /\ certs' = certs
  BY DEF Verify, disk, fileVars
<1>2. job \in JobType /\ faults \in Nat /\ filler'.dirty \subseteq residue'
  BY <1>1 DEF DiskInv, DiskTypes, FillerInFree
<1>3. CASE Proceed("rename")
  <2>1. PICK k : k = job'
    OBVIOUS
  <2>2. k = [job EXCEPT !.at = "rename"]
    BY <1>3, <2>1 DEF Proceed
  <2>3. /\ k \in JobType /\ k.tool = job.tool /\ k.at = "rename" /\ k.todo = job.todo /\ k.size = job.size
        /\ k.data = job.data /\ k.held = job.held /\ k.moved = job.moved
    BY <1>2, <2>2 DEF JobType, Places
  <2>4. Loose' \subseteq Loose
    BY <1>1, <2>1, <2>3 DEF Loose
  <2>5. Treated
    BY <1>1 DEF Treated
  <2> QED
    BY <1>1, <1>2, <2>1, <2>3, <2>4, <2>5, TargetStill
<1>4. CASE NextTarget
  <2>1. Loose' \subseteq Loose
    BY <1>1, <1>4, NextTargetMoved DEF Loose
  <2> QED
    BY <1>1, <1>2, <1>4, <2>1, OnwardsHolds
<1> QED
  BY <1>3, <1>4 DEF Verify

LEMMA TruncateUnlinkHolds ==
  ASSUME DiskInv, TruncateUnlink
  PROVE  DiskInv' /\ Older
<1>1. /\ job.tool = "shred" /\ job.at = "unlink" /\ residue' = residue \cup Occupied(job.moved)
      /\ job' = [job EXCEPT !.moved = NoFile, !.at = "certify"]
      /\ files' = files /\ device' = device /\ spare' = spare /\ litter' = litter
      /\ filler' = filler /\ fresh' = fresh /\ faults' = faults /\ escaped' = escaped
      /\ certs' = certs
  BY DEF TruncateUnlink, disk, bounds
<1>2. job \in JobType /\ faults \in Nat /\ filler'.dirty \subseteq residue'
  BY <1>1 DEF DiskInv, DiskTypes, FillerInFree
<1>3. PICK k : k = job'
  OBVIOUS
<1>4. /\ k \in JobType /\ k.tool = job.tool /\ k.at = "certify" /\ k.todo = job.todo /\ k.size = job.size
      /\ k.data = job.data /\ k.held = job.held /\ k.moved = NoFile
  BY <1>1, <1>2, <1>3 DEF JobType, Places, FileType
<1>5. Loose' \subseteq Loose
  BY <1>1, <1>3, <1>4, NoneOccupied DEF Loose
<1>6. Treated
  BY <1>1 DEF Treated
<1> QED
  BY <1>1, <1>2, <1>3, <1>4, <1>5, <1>6, TargetStill

\* What a certificate of the target under way claims.
LEMMA TargetCertificate ==
  ASSUME DiskInv, job.tool \in {"shred", "slack"}, Treated, NEW t, NEW p, NEW c,
         c = [tool |-> t, path |-> p, data |-> job.data[Target], escaped |-> escaped,
              success |-> TRUE, guarantee |-> Classify(device) = "hdd"]
  PROVE  /\ c.data \subseteq 1..fresh
         /\ c.tool # "free" /\ c.success /\ c.guarantee => c.data \cap Everywhere \subseteq c.escaped
<1>1. Target \in Paths
  BY HeadTarget DEF DiskInv
<1>2. PICK X : X = job.data[Target]
  OBVIOUS
<1>3. X \subseteq 1..fresh
  BY <1>1, <1>2 DEF DiskInv, Known
<1>4. ASSUME Classify(device) = "hdd" PROVE X \cap Everywhere \subseteq escaped
  <2>1. ~Flash(device)
    BY <1>4, HddIsRust
  <2>2. Gone(X)
    BY <1>2, <2>1 DEF DiskInv, JobInv
  <2> QED
    BY <2>2 DEF Gone
<1>5. PICK g \in BOOLEAN : g = (Classify(device) = "hdd")
  OBVIOUS
<1>6. c = [tool |-> t, path |-> p, data |-> X, escaped |-> escaped, success |-> TRUE, guarantee |-> g]
  BY <1>2, <1>5, Zenon
<1>7. t # "free" /\ TRUE /\ g => X \cap Everywhere \subseteq escaped
  BY <1>4, <1>5, Zenon
<1>8. c.tool = t /\ c.data = X /\ c.guarantee = g /\ c.escaped = escaped
  BY ONLY <1>6, Zenon
<1> QED
  BY <1>3, <1>7, <1>8, Zenon

LEMMA CertifyShredHolds ==
  ASSUME DiskInv, CertifyShred
  PROVE  DiskInv' /\ Older
<1>1. /\ job.tool = "shred" /\ job.at = "certify" /\ NextTarget
      /\ files' = files /\ device' = device /\ spare' = spare /\ residue' = residue /\ litter' = litter
      /\ filler' = filler /\ fresh' = fresh /\ faults' = faults /\ escaped' = escaped
  BY DEF CertifyShred, disk, space, bounds
<1>2. faults \in Nat /\ filler'.dirty \subseteq residue'
  BY <1>1 DEF DiskInv, DiskTypes, FillerInFree
<1>3. Treated
  BY <1>1 DEF Treated
<1>4. PICK c : c = [tool |-> "shred", path |-> Target, data |-> job.data[Target],
                    escaped |-> escaped, success |-> TRUE, guarantee |-> Classify(device) = "hdd"]
  OBVIOUS
<1>5. certs' = certs \cup {c}
  BY <1>4 DEF CertifyShred, Certify
<1>6. /\ c.data \subseteq 1..fresh
      /\ c.tool # "free" /\ c.success /\ c.guarantee => c.data \cap Everywhere \subseteq c.escaped
  BY <1>1, <1>3, <1>4, TargetCertificate
<1>7. Loose' \subseteq Loose
  BY <1>1, NextTargetMoved DEF Loose
<1> HIDE <1>4
<1>8. \A x \in certs' : x \in certs \/
        /\ x.data \subseteq 1..fresh
        /\ x.tool # "free" /\ x.success /\ x.guarantee => x.data \cap Everywhere \subseteq x.escaped
  BY <1>5, <1>6, Zenon
<1> QED
  BY <1>1, <1>2, <1>7, <1>8, OnwardsHolds

LEMMA SkipTargetHolds ==
  ASSUME DiskInv, SkipTarget
  PROVE  DiskInv' /\ Older
<1>1. /\ job.tool = "shred" /\ NextTarget /\ litter' = litter \cup Occupied(job.moved)
      /\ files' = files /\ device' = device /\ spare' = spare /\ residue' = residue
      /\ filler' = filler /\ fresh' = fresh /\ escaped' = escaped /\ certs' = certs
  BY DEF SkipTarget, disk, space
<1>2. faults' \in Nat /\ filler'.dirty \subseteq residue'
  BY <1>1 DEF SkipTarget, DiskInv, DiskTypes, FillerInFree
<1>3. Loose' \subseteq Loose
  BY <1>1, NextTargetMoved DEF Loose
<1> QED
  BY <1>1, <1>2, <1>3, OnwardsHolds

LEMMA RenameHolds ==
  ASSUME DiskInv, Rename
  PROVE  DiskInv' /\ Older
<1>1. /\ job.tool = "shred" /\ job.at = "rename" /\ files[Target] # NoFile
      /\ job' = [job EXCEPT !.moved = files[Target], !.at = "unlink"]
      /\ files' = [files EXCEPT ![Target] = NoFile]
      /\ device' = device /\ spare' = spare /\ residue' = residue /\ litter' = litter
      /\ filler' = filler /\ fresh' = fresh /\ faults' = faults /\ escaped' = escaped
      /\ certs' = certs
  BY DEF Rename, disk, space, bounds
<1>2. PICK T \in Paths : T = Target
  BY <1>1, HeadTarget DEF DiskInv
<1>3. PICK f \in FileRec : f = files[T]
  BY <1>1, <1>2, FileTypes DEF DiskInv
<1>4. /\ job \in JobType /\ files \in [Paths -> FileType] /\ faults \in Nat /\ filler'.dirty \subseteq residue'
      /\ fresh \in Nat /\ fresh <= MaxData
  BY <1>1 DEF DiskInv, DiskTypes, FillerInFree
<1>5. PICK k : k = job'
  OBVIOUS
<1>6. /\ k \in JobType /\ k.tool = job.tool /\ k.at = "unlink" /\ k.todo = job.todo /\ k.size = job.size
      /\ k.data = job.data /\ k.held = job.held /\ k.moved = f
  BY <1>1, <1>2, <1>3, <1>4, <1>5 DEF JobType, Places, FileType
<1>7. /\ files' \in [Paths -> FileType] /\ files'[T] = NoFile
      /\ \A q \in Paths \ {T} : files'[q] = files[q]
  BY <1>1, <1>2, <1>4 DEF FileType
<1>8. Occupied(files'[T]) = {}
  BY <1>7, NoneOccupied
<1>9. Loose' \subseteq Loose \cup Occupied(files[T])
  BY <1>1, <1>3, <1>5, <1>6 DEF Loose
<1>10. job'.held \subseteq 1..fresh /\ \A p \in Paths : job'.data[p] \subseteq 1..fresh
  BY <1>5, <1>6 DEF DiskInv, Known
<1>11. /\ DiskTypes' /\ Apart' /\ Inner' /\ Rust' /\ FillerInFree' /\ Known'
       /\ CertifiedIsOverwritten' /\ Older
       /\ Everywhere' \subseteq Everywhere
  <2>1. {} \subseteq (fresh + 1)..fresh' /\ fresh' \in Nat /\ fresh <= fresh' /\ fresh' <= MaxData
    BY <1>1, <1>4
  <2>2. Occupied(files'[T]) \subseteq Occupied(files[T]) \cup {}
    BY <1>8
  <2>3. Loose' \subseteq Loose \cup (Occupied(files[T]) \ Occupied(files'[T]))
    BY <1>8, <1>9
  <2>4. /\ DiskTypes' /\ Apart' /\ Inner' /\ Rust' /\ FillerInFree' /\ Known'
        /\ CertifiedIsOverwritten' /\ Older
        /\ Everywhere' \subseteq Everywhere \cup {}
    BY <1>1, <1>4, <1>5, <1>6, <1>7, <1>10, <2>1, <2>2, <2>3, OneFile
  <2> QED
    BY <2>4
<1>12. HasTargets' /\ SlackInv'
  BY <1>1, <1>5, <1>6 DEF DiskInv, HasTargets, SlackInv
<1>13. Treated
  BY <1>1 DEF Treated
<1>14. ASSUME ~Flash(device), NEW d \in job.data[T], d \notin escaped'
       PROVE  d \notin Loose' /\ Reach(T, d)'
  <2>1. Gone(job.data[T])
    BY <1>1, <1>2, <1>13, <1>14 DEF DiskInv, JobInv
  <2>2. d \notin Loose /\ d \notin Occupied(files[T])
    BY <1>1, <1>14, <2>1, Spread DEF Gone
  <2> QED
    BY <1>7, <1>9, <2>2 DEF Reach
<1>15. ASSUME ~Flash(device), NEW q \in Paths, Pending(q) PROVE Pending(q)'
  <2>1. Occupied(files'[T]) \subseteq Occupied(files[T]) \cup {} /\ {} \cap 1..fresh = {}
    BY <1>8
  <2>2. escaped \subseteq escaped'
    BY <1>1
  <2>3. \A d \in job.data[T] : Clear(T, d) => d \in escaped' \/ (d \notin Loose' /\ Reach(T, d)')
    BY <1>14, <1>15
  <2> QED
    BY <1>5, <1>6, <1>7, <1>9, <1>15, <2>1, <2>2, <2>3, PendingKept DEF DiskInv
<1>16. ~Flash(device) /\ Treated' => Gone(job.data[Target])'
  BY <1>1, <1>5, <1>6, <1>11, <1>13, TargetStaysGone
<1>17. JobInv'
  BY <1>1, <1>5, <1>6, <1>15, <1>16, SameTarget
<1> QED
  BY <1>11, <1>12, <1>17 DEF DiskInv

LEMMA ExtendFileHolds ==
  ASSUME DiskInv, ExtendFile
  PROVE  DiskInv' /\ Older
<1>1. /\ job.tool = "slack" /\ job.at = "extend" /\ files[Target] # NoFile
      /\ files' = [files EXCEPT ![Target].tail = Noise] /\ Over(InTail(files[Target]))
      /\ job' = [job EXCEPT !.at = "truncate", !.ino = files[Target].ino]
      /\ device' = device /\ residue' = residue /\ litter' = litter
      /\ filler' = filler /\ fresh' = fresh /\ faults' = faults /\ escaped' = escaped
      /\ certs' = certs
  BY DEF ExtendFile, disk, bounds
<1>2. PICK T \in Paths : T = Target /\ 1 \in DOMAIN job.todo
  BY <1>1, HeadTarget DEF DiskInv
<1>3. PICK f \in FileRec : f = files[T] /\ f # NoFile /\ f.ino \in Nat
  BY <1>1, <1>2, FileTypes DEF DiskInv
<1>4. /\ job \in JobType /\ files \in [Paths -> FileType] /\ faults \in Nat /\ filler'.dirty \subseteq residue'
      /\ fresh \in Nat /\ fresh <= MaxData
  BY <1>1 DEF DiskInv, DiskTypes, FillerInFree
<1>5. PICK k : k = job'
  OBVIOUS
<1>6. /\ k \in JobType /\ k.tool = job.tool /\ k.at = "truncate" /\ k.todo = job.todo /\ k.size = job.size
      /\ k.data = job.data /\ k.held = job.held /\ k.moved = job.moved
  BY <1>1, <1>2, <1>3, <1>4, <1>5 DEF JobType, Places
<1>7. PICK g \in FileRec : g = [f EXCEPT !.tail = Noise] /\ g.blocks = f.blocks /\ g.tail = Noise
  <2>1. Noise \in Nat
    BY DEF Noise
  <2>2. PICK h : h = [f EXCEPT !.tail = Noise]
    OBVIOUS
  <2>3. h \in FileRec /\ h.blocks = f.blocks /\ h.tail = Noise
    BY <2>1, <2>2, Retailed
  <2> QED
    BY <2>2, <2>3
<1>8. /\ files' \in [Paths -> FileType] /\ files'[T] = g
      /\ \A q \in Paths \ {T} : files'[q] = files[q]
  <2>1. files' = [files EXCEPT ![T] = g]
    BY <1>1, <1>2, <1>3, <1>7
  <2> QED
    BY <1>4, <2>1 DEF FileType
<1>9. InTail(g) = {} /\ Occupied(g) \subseteq InBlocks(f.blocks)
  BY <1>7 DEF InTail, Occupied
<1>10. /\ Occupied(f) = InBlocks(f.blocks) \cup InTail(f)
       /\ InBlocks(f.blocks) \cap InTail(f) = {}
  BY <1>3 DEF Occupied, DiskInv, Inner
<1>11. spare' = IF Flash(device) THEN spare \cup InTail(f) ELSE spare
  BY <1>1, <1>2, <1>3 DEF Over
<1>12. Loose' \subseteq Loose \cup (Occupied(f) \ Occupied(g))
  BY <1>1, <1>5, <1>6, <1>9, <1>10, <1>11 DEF Loose
<1>13. job'.held \subseteq 1..fresh /\ \A p \in Paths : job'.data[p] \subseteq 1..fresh
  BY <1>5, <1>6 DEF DiskInv, Known
<1>14. /\ DiskTypes' /\ Apart' /\ Inner' /\ Rust' /\ FillerInFree' /\ Known'
       /\ CertifiedIsOverwritten' /\ Older
       /\ Everywhere' \subseteq Everywhere
  <2>1. {} \subseteq (fresh + 1)..fresh' /\ fresh' \in Nat /\ fresh <= fresh' /\ fresh' <= MaxData
    BY <1>1, <1>4
  <2>2. Occupied(files'[T]) \subseteq Occupied(files[T]) \cup {}
    BY <1>3, <1>8, <1>9, <1>10
  <2>3. Loose' \subseteq Loose \cup (Occupied(files[T]) \ Occupied(files'[T]))
    BY <1>3, <1>8, <1>12
  <2>4. InBlocks(files'[T].blocks) \cap InTail(files'[T]) = {}
    BY <1>8, <1>9
  <2>5. ~Flash(device) => spare' = spare
    BY <1>11
  <2>6. /\ DiskTypes' /\ Apart' /\ Inner' /\ Rust' /\ FillerInFree' /\ Known'
        /\ CertifiedIsOverwritten' /\ Older
        /\ Everywhere' \subseteq Everywhere \cup {}
    BY <1>1, <1>4, <1>5, <1>6, <1>8, <1>13, <2>1, <2>2, <2>3, <2>4, <2>5, OneFile
  <2> QED
    BY <2>6
<1>15. HasTargets'
  BY <1>1, <1>5, <1>6 DEF DiskInv, HasTargets
<1>16. SlackInv'
  <2>1. Target' = T
    BY <1>2, <1>5, <1>6 DEF Target
  <2>2. \A p \in Paths : files[p] # NoFile => Behind(files[p], k.size[T], k.held)
    BY <1>1, <1>2, <1>6 DEF DiskInv, SlackInv
  <2>3. Behind(g, k.size[T], k.held)
    BY <1>3, <1>7, <2>2 DEF Behind
  <2> QED
    BY <1>5, <1>8, <2>1, <2>2, <2>3 DEF SlackInv
<1>17. ASSUME ~Flash(device), NEW d \in job.data[T], Clear(T, d)
       PROVE  /\ d \notin Loose' /\ Reach(T, d)'
              /\ \A q \in Paths : d \notin Occupied(files'[q])
  <2>1. d \notin Loose'
    BY <1>1, <1>5, <1>6, <1>11, <1>17 DEF Loose, Clear
  <2>2. d \notin InBlocks(f.blocks)
    BY <1>1, <1>2, <1>3, <1>17 DEF Clear, Reach
  <2>3. Reach(T, d)'
    BY <1>1, <1>5, <1>6, <1>7, <1>8, <2>2 DEF Reach
  <2>4. d \notin Occupied(files'[T])
    BY <1>8, <1>9, <2>2
  <2>5. \A q \in Paths \ {T} : d \notin Occupied(files'[q])
    BY <1>8, <1>17 DEF Clear
  <2> QED
    BY <2>1, <2>3, <2>4, <2>5
<1>18. ASSUME ~Flash(device), NEW q \in Paths, Pending(q) PROVE Pending(q)'
  <2>1. Occupied(files'[T]) \subseteq Occupied(files[T]) \cup {} /\ {} \cap 1..fresh = {}
    BY <1>3, <1>8, <1>9, <1>10
  <2>2. escaped \subseteq escaped' /\ Loose' \subseteq Loose \cup Occupied(files[T])
    BY <1>1, <1>3, <1>12
  <2>3. \A d \in job.data[T] : Clear(T, d) => d \in escaped' \/ (d \notin Loose' /\ Reach(T, d)')
    BY <1>17, <1>18
  <2> QED
    BY <1>5, <1>6, <1>8, <1>18, <2>1, <2>2, <2>3, PendingKept DEF DiskInv
<1>19. ASSUME ~Flash(device) PROVE Gone(job.data[Target])'
  <2>1. PICK X : X = job.data[T] /\ X = job'.data[Target']
    BY <1>2, <1>5, <1>6 DEF Target
  <2>2. ASSUME NEW d \in X, d \notin escaped' PROVE d \notin Everywhere'
    <3>1. Clear(T, d)
      BY <1>1, <1>2, <1>19, <2>1, <2>2, TargetIsPending DEF Pending
    <3> QED
      BY <1>17, <1>19, <2>1, <3>1, SpreadNext
  <2> QED
    BY <2>1, <2>2 DEF Gone
<1>20. JobInv'
  BY <1>1, <1>5, <1>6, <1>18, <1>19, SameTarget
<1> QED
  BY <1>14, <1>15, <1>16, <1>20 DEF DiskInv

LEMMA TruncateFileHolds ==
  ASSUME DiskInv, TruncateFile
  PROVE  DiskInv' /\ Older
<1>1. /\ job.tool = "slack" /\ job.at = "truncate" /\ job' = [job EXCEPT !.at = "certify"]
      /\ device' = device /\ spare' = spare /\ litter' = litter /\ filler' = filler /\ fresh' = fresh
      /\ faults' = faults /\ escaped' = escaped /\ certs' = certs
  BY DEF TruncateFile, Proceed, disk, bounds
<1>2. PICK T \in Paths : T = Target /\ 1 \in DOMAIN job.todo
  BY <1>1, HeadTarget DEF DiskInv
<1>3. /\ job \in JobType /\ files \in [Paths -> FileType] /\ faults \in Nat
      /\ fresh \in Nat /\ fresh <= MaxData
  BY <1>1 DEF DiskInv, DiskTypes
<1>4. PICK k : k = job'
  OBVIOUS
<1>5. /\ k \in JobType /\ k.tool = job.tool /\ k.at = "certify" /\ k.todo = job.todo /\ k.size = job.size
      /\ k.data = job.data /\ k.held = job.held /\ k.moved = job.moved
  BY <1>1, <1>3, <1>4 DEF JobType, Places
<1>6. Treated
  BY <1>1 DEF Treated
<1> DEFINE Cut(R) ==
      LET resized == Resized(files[R].blocks, job.size[T]) IN
        /\ files' = [files EXCEPT ![R].blocks = resized]
        /\ residue' = residue \cup (InBlocks(files[R].blocks) \ InBlocks(resized))
<1>7. CASE UNCHANGED <<files, residue>>
  <2>1. Loose' \subseteq Loose
    BY <1>1, <1>4, <1>5, <1>7 DEF Loose
  <2>2. filler'.dirty \subseteq residue'
    BY <1>1, <1>7 DEF DiskInv, FillerInFree
  <2> QED
    BY <1>1, <1>3, <1>4, <1>5, <1>6, <1>7, <2>1, <2>2, TargetStill
<1>8. ASSUME NEW R \in Opened, Cut(R) PROVE DiskInv' /\ Older
  <2>1. PICK f \in FileRec : R \in Paths /\ f = files[R] /\ f # NoFile /\ f.blocks \in Seq(Nat)
    BY <1>8, FileTypes DEF DiskInv, Opened
  <2>2. PICK n \in Nat : n = job.size[T]
    BY <1>3, JobParts
  <2>3. PICK resized \in Seq(Nat) :
          /\ resized = Resized(f.blocks, n) /\ DOMAIN resized = 1..n
          /\ InBlocks(resized) \subseteq InBlocks(f.blocks)
          /\ \A i \in 1..n : i \in DOMAIN f.blocks => resized[i] = f.blocks[i]
    <3>1. PICK r : r = Resized(f.blocks, n)
      OBVIOUS
    <3>2. PICK b \in Seq(Nat) : b = f.blocks
      BY <2>1
    <3>3. r = Resized(b, n)
      BY <3>1, <3>2
    <3>4. r \in Seq(Nat)
      BY ONLY <3>3, b \in Seq(Nat), n \in Nat, ResizedBlocks
    <3>7. DOMAIN r = 1..n
      BY ONLY <3>3, b \in Seq(Nat), n \in Nat, ResizedBlocks
    <3>5. InBlocks(r) \subseteq InBlocks(b)
      BY ONLY <3>3, b \in Seq(Nat), n \in Nat, ResizedBlocks
    <3>6. \A i \in 1..n : i \in DOMAIN b => r[i] = b[i]
      BY ONLY <3>3, b \in Seq(Nat), n \in Nat DEF Resized
    <3> QED
      BY <3>1, <3>2, <3>4, <3>5, <3>6, <3>7
  <2>4. PICK cut : cut = InBlocks(f.blocks) \ InBlocks(resized)
    OBVIOUS
  <2>5. files' = [files EXCEPT ![R].blocks = resized] /\ residue' = residue \cup cut
    BY <1>2, <1>8, <2>1, <2>2, <2>3, <2>4
  <2>6. PICK g : g = [f EXCEPT !.blocks = resized]
    OBVIOUS
  <2>7. g \in FileRec /\ g.blocks = resized /\ g.tail = f.tail
    BY <2>6, Rewritten
  <2>8. /\ files' \in [Paths -> FileType] /\ files'[R] = g
        /\ \A q \in Paths \ {R} : files'[q] = files[q]
    <3>1. files' = [files EXCEPT ![R] = g]
      BY <2>1, <2>3, <2>5, <2>6
    <3> QED
      BY <1>3, <2>1, <2>7, <3>1 DEF FileType
  <2>9. InTail(g) = InTail(f) /\ Occupied(g) \subseteq InBlocks(resized) \cup InTail(f)
    BY <2>7 DEF InTail, Occupied
  <2>10. /\ Occupied(f) = InBlocks(f.blocks) \cup InTail(f)
         /\ InBlocks(f.blocks) \cap InTail(f) = {}
    BY <2>1 DEF Occupied, DiskInv, Inner
  <2>11. Loose' \subseteq Loose \cup (Occupied(f) \ Occupied(g))
    BY <1>1, <1>4, <1>5, <2>4, <2>5, <2>9, <2>10 DEF Loose
  <2>14. job'.held \subseteq 1..fresh /\ \A p \in Paths : job'.data[p] \subseteq 1..fresh
    BY <1>4, <1>5 DEF DiskInv, Known
  <2>15. /\ DiskTypes' /\ Apart' /\ Inner' /\ Rust' /\ FillerInFree' /\ Known'
         /\ CertifiedIsOverwritten' /\ Older
         /\ Everywhere' \subseteq Everywhere
    <3>1. {} \subseteq (fresh + 1)..fresh' /\ fresh' \in Nat /\ fresh <= fresh' /\ fresh' <= MaxData
      BY <1>1, <1>3
    <3>2. Occupied(files'[R]) \subseteq Occupied(files[R]) \cup {}
      BY <2>1, <2>3, <2>8, <2>9, <2>10
    <3>3. Loose' \subseteq Loose \cup (Occupied(files[R]) \ Occupied(files'[R]))
      BY <2>1, <2>8, <2>11
    <3>4. InBlocks(files'[R].blocks) \cap InTail(files'[R]) = {}
      BY <2>3, <2>7, <2>8, <2>9, <2>10
    <3>5. filler'.dirty \subseteq residue'
      BY <1>1, <2>5 DEF DiskInv, FillerInFree
    <3>6. /\ DiskTypes' /\ Apart' /\ Inner' /\ Rust' /\ FillerInFree' /\ Known'
          /\ CertifiedIsOverwritten' /\ Older
          /\ Everywhere' \subseteq Everywhere \cup {}
      BY <1>1, <1>3, <1>4, <1>5, <2>8, <2>14, <3>1, <2>1, <3>2, <3>3, <3>4, <3>5, OneFile
    <3> QED
      BY <3>6
  <2>16. HasTargets'
    BY <1>1, <1>4, <1>5 DEF DiskInv, HasTargets
  <2>17. SlackInv'
    <3>1. Target' = T
      BY <1>2, <1>4, <1>5 DEF Target
    <3>2. \A p \in Paths : files[p] # NoFile => Behind(files[p], k.size[T], k.held)
      BY <1>1, <1>2, <1>5 DEF DiskInv, SlackInv
    <3>3. Behind(g, k.size[T], k.held)
      BY <1>5, <2>2, <2>3, <2>7 DEF Behind
    <3> QED
      BY <1>4, <2>8, <3>1, <3>2, <3>3 DEF SlackInv
  <2>18. ASSUME NEW d \in job.data[R], Clear(R, d)
         PROVE  d \notin Loose' /\ Reach(R, d)'
    <3>1. d \notin InBlocks(f.blocks) /\ d \notin Loose
      BY <1>1, <2>1, <2>18 DEF Clear, Reach
    <3>2. Loose' \subseteq Loose \cup cut
      BY <1>1, <1>4, <1>5, <2>5 DEF Loose
    <3>3. d \notin Loose' /\ d \notin InBlocks(g.blocks)
      BY <2>3, <2>4, <2>7, <3>1, <3>2
    <3> QED
      BY <1>1, <1>4, <1>5, <2>8, <3>3 DEF Reach
  <2>19. ASSUME ~Flash(device), NEW q \in Paths, Pending(q) PROVE Pending(q)'
    <3>1. Occupied(files'[R]) \subseteq Occupied(files[R]) \cup {} /\ {} \cap 1..fresh = {}
      BY <2>1, <2>3, <2>8, <2>9, <2>10
    <3>2. escaped \subseteq escaped' /\ Loose' \subseteq Loose \cup Occupied(files[R])
      BY <1>1, <2>1, <2>11
    <3>3. \A d \in job.data[R] : Clear(R, d) => d \in escaped' \/ (d \notin Loose' /\ Reach(R, d)')
      BY <2>18
    <3> QED
      BY <1>4, <1>5, <2>1, <2>8, <2>19, <3>1, <3>2, <3>3, PendingKept DEF DiskInv
  <2>20. ~Flash(device) => Gone(job.data[Target])'
    BY <1>1, <1>4, <1>5, <1>6, <2>15, TargetStaysGone
  <2>21. JobInv'
    BY <1>1, <1>4, <1>5, <2>19, <2>20, SameTarget
  <2> QED
    BY <2>15, <2>16, <2>17, <2>21 DEF DiskInv
<1> QED
  BY <1>2, <1>7, <1>8 DEF TruncateFile

LEMMA Ends ==
  ASSUME DiskInv, job' = NoJob, files' = files, device' = device, spare' = spare,
         residue' = residue, litter' \subseteq litter \cup Occupied(job.moved), filler' = filler,
         fresh' = fresh, faults' \in Nat, escaped' = escaped,
         \A c \in certs' : c \in certs \/
           /\ c.data \subseteq 1..fresh
           /\ c.tool # "free" /\ c.success /\ c.guarantee => c.data \cap Everywhere \subseteq c.escaped
  PROVE  DiskInv' /\ Older
<1>1. fresh \in Nat
  BY DEF DiskInv, DiskTypes
<1>2. /\ HasTargets' /\ JobInv' /\ SlackInv' /\ job' \in JobType
      /\ job'.held \subseteq 1..fresh /\ \A p \in Paths : job'.data[p] \subseteq 1..fresh
      /\ Occupied(job'.moved) = {}
  BY <1>1, NoCommand
<1>3. Loose' \subseteq Loose
  BY <1>2 DEF Loose
<1>4. filler'.dirty \subseteq residue'
  BY DEF DiskInv, FillerInFree
<1>5. /\ DiskTypes' /\ Apart' /\ Inner' /\ Rust' /\ FillerInFree' /\ Known'
      /\ CertifiedIsOverwritten' /\ Older
  BY <1>2, <1>3, <1>4, Quiet
<1> QED
  BY <1>2, <1>5 DEF DiskInv

LEMMA CrashHolds ==
  ASSUME DiskInv, Killed
  PROVE  DiskInv' /\ Older
<1>1. faults' \in Nat
  BY DEF Killed, DiskInv, DiskTypes
<1> QED
  BY <1>1, Ends DEF Killed, disk, space

LEMMA CertifySlackHolds ==
  ASSUME DiskInv, CertifySlack
  PROVE  DiskInv' /\ Older
<1>1. /\ job.tool = "slack" /\ job.at = "certify" /\ job' = NoJob
      /\ files' = files /\ device' = device /\ spare' = spare /\ residue' = residue /\ litter' = litter
      /\ filler' = filler /\ fresh' = fresh /\ faults' = faults /\ escaped' = escaped
  BY DEF CertifySlack, disk, space, bounds
<1>2. faults' \in Nat /\ litter' \subseteq litter \cup Occupied(job.moved)
  BY <1>1 DEF DiskInv, DiskTypes
<1>3. Treated
  BY <1>1 DEF Treated
<1>4. PICK c : c = [tool |-> "slack", path |-> Target, data |-> job.data[Target],
                    escaped |-> escaped, success |-> TRUE, guarantee |-> Classify(device) = "hdd"]
  OBVIOUS
<1>5. certs' \subseteq certs \cup {c}
  BY <1>4 DEF CertifySlack, Certify
<1>6. /\ c.data \subseteq 1..fresh
      /\ c.tool # "free" /\ c.success /\ c.guarantee => c.data \cap Everywhere \subseteq c.escaped
  BY <1>1, <1>3, <1>4, TargetCertificate
<1> HIDE <1>4
<1>7. \A x \in certs' : x \in certs \/
        /\ x.data \subseteq 1..fresh
        /\ x.tool # "free" /\ x.success /\ x.guarantee => x.data \cap Everywhere \subseteq x.escaped
  BY <1>5, <1>6, Zenon
<1> QED
  BY <1>1, <1>2, <1>7, Ends

-----------------------------------------------------------------------------
\* A wipe of the free space has no target of its own.
LEMMA FreeStep ==
  ASSUME DiskInv, job'.tool = "free", job'.at # "confirm", job' \in JobType, job'.held \subseteq 1..fresh,
         \A p \in Paths : job'.data[p] \subseteq 1..fresh,
         files' = files, device' = device, spare' = spare, Loose' \subseteq Loose,
         filler'.dirty \subseteq residue', fresh' = fresh, faults' = faults,
         escaped' = escaped, certs' = certs
  PROVE  DiskInv' /\ Older
<1>1. faults' \in Nat
  BY DEF DiskInv, DiskTypes
<1>2. /\ DiskTypes' /\ Apart' /\ Inner' /\ Rust' /\ FillerInFree' /\ Known'
      /\ CertifiedIsOverwritten' /\ Older
  BY <1>1, Quiet
<1>3. HasTargets' /\ JobInv' /\ SlackInv'
  BY DEF HasTargets, JobInv, SlackInv
<1> QED
  BY <1>2, <1>3 DEF DiskInv

LEMMA FillFreeHolds ==
  ASSUME DiskInv, FillFree
  PROVE  DiskInv' /\ Older
<1>1. /\ job.tool = "free" /\ filler' = [there |-> TRUE, dirty |-> residue]
      /\ job' = [job EXCEPT !.at = "unlink", !.data = [p \in Paths |-> residue]]
      /\ files' = files /\ device' = device /\ spare' = spare /\ residue' = residue /\ litter' = litter
      /\ fresh' = fresh /\ faults' = faults /\ escaped' = escaped /\ certs' = certs
  BY DEF FillFree, disk, space, bounds
<1>2. job \in JobType /\ fresh \in Nat /\ residue \subseteq 1..fresh /\ residue \in SUBSET Nat
  <2>1. residue \subseteq Everywhere
    BY Spread DEF Loose
  <2>2. Everywhere \subseteq 1..fresh /\ fresh \in Nat /\ job \in JobType
    BY DEF DiskInv, DiskTypes, Known
  <2> QED
    BY <2>1, <2>2
<1>3. PICK k : k = job'
  OBVIOUS
<1>4. /\ k \in JobType /\ k.tool = job.tool /\ k.at = "unlink" /\ k.data = [p \in Paths |-> residue]
      /\ k.held = job.held /\ k.moved = job.moved
  <2>1. [p \in Paths |-> residue] \in [Paths -> SUBSET Nat]
    BY <1>2
  <2> QED
    BY <1>1, <1>2, <1>3, <2>1 DEF JobType, Places
<1>5. filler'.dirty \subseteq residue'
  BY <1>1
<1>6. Loose' \subseteq Loose
  BY <1>1, <1>3, <1>4 DEF Loose
<1>7. job'.held \subseteq 1..fresh /\ \A p \in Paths : job'.data[p] \subseteq 1..fresh
  BY <1>2, <1>3, <1>4 DEF DiskInv, Known
<1> QED
  BY <1>1, <1>3, <1>4, <1>5, <1>6, <1>7, FreeStep

LEMMA UnlinkFillerHolds ==
  ASSUME DiskInv, UnlinkFiller
  PROVE  DiskInv' /\ Older
<1>1. /\ job.tool = "free" /\ filler' = NoFiller /\ job' = [job EXCEPT !.at = "certify"]
      /\ files' = files /\ device' = device /\ spare' = spare /\ residue' = residue /\ litter' = litter
      /\ fresh' = fresh /\ faults' = faults /\ escaped' = escaped /\ certs' = certs
  BY DEF UnlinkFiller, Proceed, disk, space, bounds
<1>2. job \in JobType
  BY DEF DiskInv, DiskTypes
<1>3. PICK k : k = job'
  OBVIOUS
<1>4. /\ k \in JobType /\ k.tool = job.tool /\ k.at = "certify" /\ k.data = job.data
      /\ k.held = job.held /\ k.moved = job.moved
  BY <1>1, <1>2, <1>3 DEF JobType, Places
<1>5. filler'.dirty \subseteq residue'
  BY <1>1 DEF NoFiller
<1>6. Loose' \subseteq Loose
  BY <1>1, <1>3, <1>4 DEF Loose
<1>7. job'.held \subseteq 1..fresh /\ \A p \in Paths : job'.data[p] \subseteq 1..fresh
  BY <1>3, <1>4 DEF DiskInv, Known
<1> QED
  BY <1>1, <1>3, <1>4, <1>5, <1>6, <1>7, FreeStep

LEMMA CertifyFreeHolds ==
  ASSUME DiskInv, CertifyFree
  PROVE  DiskInv' /\ Older
<1>1. /\ job.tool = "free" /\ job' = NoJob
      /\ files' = files /\ device' = device /\ spare' = spare /\ residue' = residue /\ litter' = litter
      /\ filler' = filler /\ fresh' = fresh /\ faults' = faults /\ escaped' = escaped
  BY DEF CertifyFree, disk, space, bounds
<1>2. faults' \in Nat /\ litter' \subseteq litter \cup Occupied(job.moved)
  BY <1>1 DEF DiskInv, DiskTypes
<1>3. PICK c : c = [tool |-> "free", path |-> 0, data |-> job.data[1],
                    escaped |-> escaped, success |-> TRUE, guarantee |-> Classify(device) = "hdd"]
  OBVIOUS
<1>4. certs' = certs \cup {c} /\ c.tool = "free" /\ c.data = job.data[1]
  BY <1>3 DEF CertifyFree, Certify
<1>5. 1 \in Paths
  BY DEF Paths
<1>6. c.data \subseteq 1..fresh
  BY <1>4, <1>5 DEF DiskInv, Known
<1> HIDE <1>3
<1>7. \A x \in certs' : x \in certs \/
        /\ x.data \subseteq 1..fresh
        /\ x.tool # "free" /\ x.success /\ x.guarantee => x.data \cap Everywhere \subseteq x.escaped
  BY <1>4, <1>6, Zenon
<1> QED
  BY <1>1, <1>2, <1>7, Ends

LEMMA CertifyFailureHolds ==
  ASSUME DiskInv, CertifyFailure
  PROVE  DiskInv' /\ Older
<1>1. /\ job' = NoJob
      /\ files' = files /\ device' = device /\ spare' = spare /\ residue' = residue /\ litter' = litter
      /\ filler' = filler /\ fresh' = fresh /\ escaped' = escaped
  BY DEF CertifyFailure, disk, space
<1>2. faults' \in Nat
  BY DEF CertifyFailure, DiskInv, DiskTypes
<1>3. PICK c : c = [tool |-> job.tool, path |-> IF job.tool = "free" THEN 0 ELSE Target, data |-> {},
                    escaped |-> escaped, success |-> FALSE, guarantee |-> Classify(device) = "hdd"]
  OBVIOUS
<1>4. certs' = certs \cup {c} /\ c.data = {} /\ ~c.success
  BY <1>3 DEF CertifyFailure, Certify
<1> HIDE <1>3
<1>5. \A x \in certs' : x \in certs \/
        /\ x.data \subseteq 1..fresh
        /\ x.tool # "free" /\ x.success /\ x.guarantee => x.data \cap Everywhere \subseteq x.escaped
  BY <1>4
<1>6. litter' \subseteq litter \cup Occupied(job.moved)
  BY <1>1
<1> QED
  BY <1>1, <1>2, <1>5, <1>6, Ends

-----------------------------------------------------------------------------
LEMMA WritebackHolds ==
  ASSUME DiskInv, NEW d, Writeback(d)
  PROVE  DiskInv' /\ Older
<1>1. /\ d \in filler.dirty /\ filler' = [filler EXCEPT !.dirty = @ \ {d}] /\ residue' = residue \ {d}
      /\ spare' = IF Flash(device) THEN spare \cup {d} ELSE spare
      /\ files' = files /\ device' = device /\ litter' = litter /\ job' = job
      /\ fresh' = fresh /\ faults' = faults /\ escaped' = escaped /\ certs' = certs
  BY DEF Writeback, Over, disk, bounds
<1>2. filler'.dirty \subseteq filler.dirty \ {d}
  BY <1>1
<1>3. filler'.dirty \subseteq residue' /\ d \in residue
  BY <1>1, <1>2 DEF DiskInv, FillerInFree
<1>4. Loose' \subseteq Loose
  BY <1>1, <1>3 DEF Loose
<1>5. Apart' /\ Everywhere' \subseteq Everywhere
  BY <1>1, <1>4, Still DEF DiskInv
<1>6. /\ DiskTypes' /\ Inner' /\ Rust' /\ FillerInFree'
      /\ HasTargets' /\ SlackInv'
  BY <1>1, <1>3 DEF DiskInv, DiskTypes, Inner, Rust, FillerInFree,
                    HasTargets, SlackInv, Target
<1>7. fresh \in Nat /\ fresh <= fresh /\ {} \subseteq (fresh + 1)..fresh
  BY DEF DiskInv, DiskTypes
<1>8. Known' /\ CertifiedIsOverwritten'
  <2>1. Everywhere' \subseteq Everywhere \cup {}
    BY <1>5
  <2>2. /\ Everywhere' \subseteq 1..fresh' /\ \A c \in certs' : c.data \subseteq 1..fresh'
        /\ CertifiedIsOverwritten'
    BY <1>1, <1>7, <2>1, Carried DEF DiskInv
  <2> QED
    BY <1>1, <2>2 DEF DiskInv, Known
<1>9. JobInv'
  <2>1. CASE job.tool \in {"shred", "slack"}
    <3>1. \A p \in Paths : Pending(p) => Pending(p)'
      BY <1>1, <1>4, PendingStill
    <3>2. ~Flash(device) /\ Treated' => Gone(job.data[Target])'
      BY <1>1, <1>5, <2>1, TargetStaysGone DEF Treated
    <3> QED
      BY <1>1, <2>1, <3>1, <3>2, SameTarget
  <2>2. CASE job.tool \notin {"shred", "slack"}
    BY <1>1, <2>2 DEF JobInv
  <2> QED
    BY <2>1, <2>2
<1>10. Older
  BY <1>1, <1>5, <1>7 DEF Older
<1> QED
  BY <1>5, <1>6, <1>8, <1>9, <1>10 DEF DiskInv

\* Another program writes, replaces or removes one file, whatever command is under way.
LEMMA Bystander ==
  ASSUME DiskInv, NEW T \in Paths, NEW N,
         files' \in [Paths -> FileType], \A q \in Paths \ {T} : files'[q] = files[q],
         Occupied(files'[T]) \subseteq Occupied(files[T]) \cup N,
         files'[T] # NoFile => InBlocks(files'[T].blocks) \cap InTail(files'[T]) = {},
         Loose' \subseteq Loose \cup (Occupied(files[T]) \ Occupied(files'[T])),
         device' = device, job' = job, certs' = certs, faults' = faults,
         ~Flash(device) => spare' = spare, filler'.dirty \subseteq residue',
         fresh' \in Nat, fresh <= fresh', fresh' <= MaxData, N \subseteq (fresh + 1)..fresh',
         escaped \subseteq escaped',
         ~Flash(device) => \A d \in job.data[T] : Clear(T, d) =>
           d \in escaped' \/ (d \notin Loose' /\ Reach(T, d)'),
         files'[T] # NoFile => \A i \in DOMAIN files'[T].blocks :
           \/ files'[T].blocks[i] > fresh
           \/ files[T] # NoFile /\ i \in DOMAIN files[T].blocks /\ files'[T].blocks[i] = files[T].blocks[i]
  PROVE  DiskInv' /\ Older
<1>1. /\ fresh \in Nat /\ faults' \in Nat /\ job' \in JobType /\ job.todo \in Seq(Paths)
      /\ job'.held \subseteq 1..fresh /\ job.held \subseteq 1..fresh /\ \A p \in Paths : job'.data[p] \subseteq 1..fresh
  BY JobParts DEF DiskInv, DiskTypes, Known
<1>2. /\ DiskTypes' /\ Apart' /\ Inner' /\ Rust' /\ FillerInFree' /\ Known'
      /\ CertifiedIsOverwritten' /\ Older
      /\ Everywhere' \subseteq Everywhere \cup N
  BY <1>1, OneFile
<1>3. HasTargets'
  BY DEF DiskInv, HasTargets
<1>4. SlackInv'
  <2> SUFFICES ASSUME job.tool = "slack", NEW p \in Paths, files'[p] # NoFile
               PROVE  Behind(files'[p], job.size[Target], job.held)
    BY DEF SlackInv, Target
  <2>1. files[p] # NoFile => Behind(files[p], job.size[Target], job.held)
    BY DEF DiskInv, SlackInv
  <2>2. CASE p = T
    <3>1. \A d \in job.held : ~(d > fresh)
      BY <1>1
    <3> QED
      BY <2>1, <2>2, <3>1 DEF Behind
  <2>3. CASE p # T
    BY <2>1, <2>3
  <2> QED
    BY <2>2, <2>3
<1>5. N \cap 1..fresh = {}
  BY <1>1
<1>6. ASSUME ~Flash(device), NEW q \in Paths, Pending(q) PROVE Pending(q)'
  <2>1. Loose' \subseteq Loose \cup Occupied(files[T])
    OBVIOUS
  <2>2. \A d \in job.data[T] : Clear(T, d) => d \in escaped' \/ (d \notin Loose' /\ Reach(T, d)')
    BY <1>6
  <2>3. job'.data = job.data /\ job'.size = job.size /\ job'.tool = job.tool
    OBVIOUS
  <2> QED
    BY <1>5, <1>6, <2>1, <2>2, <2>3, PendingKept DEF DiskInv
<1>7. JobInv'
  <2>1. CASE job.tool \in {"shred", "slack"}
    <3>1. ASSUME ~Flash(device), Treated' PROVE Gone(job.data[Target])'
      <4>1. PICK X : X = job.data[Target] /\ X = job'.data[Target']
        BY DEF Target
      <4>2. Gone(X)
        BY <2>1, <3>1, <4>1 DEF DiskInv, JobInv, Treated
      <4>3. X \subseteq 1..fresh
        BY <1>1, <2>1, <4>1, HeadTarget DEF DiskInv
      <4>4. X \cap Everywhere' \subseteq escaped'
        BY <1>2, <1>5, <4>2, <4>3, GoneStill
      <4> QED
        BY <4>1, <4>4 DEF Gone
    <3> QED
      BY <1>6, <2>1, <3>1, SameTarget
  <2>2. CASE job.tool \notin {"shred", "slack"}
    BY <2>2 DEF JobInv
  <2> QED
    BY <2>1, <2>2
<1> QED
  BY <1>2, <1>3, <1>4, <1>7 DEF DiskInv

LEMMA RemoveFileHolds ==
  ASSUME DiskInv, NEW T \in Paths, RemoveFile(T)
  PROVE  DiskInv' /\ Older
<1>1. /\ files' = [files EXCEPT ![T] = NoFile]
      /\ escaped' = escaped \cup Escapes(T) /\ residue' = residue \cup Occupied(files[T])
      /\ device' = device /\ spare' = spare /\ litter' = litter /\ filler' = filler /\ job' = job
      /\ certs' = certs /\ fresh' = fresh /\ faults' = faults
  BY DEF RemoveFile, disk, bounds
<1>2. /\ files \in [Paths -> FileType] /\ fresh \in Nat /\ fresh <= MaxData
      /\ filler.dirty \subseteq residue
  BY DEF DiskInv, DiskTypes, FillerInFree
<1>3. /\ files' \in [Paths -> FileType] /\ files'[T] = NoFile
      /\ \A q \in Paths \ {T} : files'[q] = files[q]
  BY <1>1, <1>2 DEF FileType
<1>4. Occupied(files'[T]) = {}
  BY <1>3, NoneOccupied
<1>5. Loose' = Loose \cup Occupied(files[T])
  BY <1>1 DEF Loose
<1>6. /\ Occupied(files'[T]) \subseteq Occupied(files[T]) \cup {}
      /\ Loose' \subseteq Loose \cup (Occupied(files[T]) \ Occupied(files'[T]))
      /\ filler'.dirty \subseteq residue' /\ escaped \subseteq escaped'
      /\ {} \subseteq (fresh + 1)..fresh' /\ fresh' \in Nat /\ fresh <= fresh' /\ fresh' <= MaxData
  BY <1>1, <1>2, <1>4, <1>5
<1>7. \A d \in job.data[T] : Clear(T, d) => d \in escaped' \/ (d \notin Loose' /\ Reach(T, d)')
  BY <1>1, <1>3, <1>5 DEF Clear, Reach, Escapes
<1> QED
  BY <1>1, <1>3, <1>6, <1>7, Bystander

LEMMA SaveOverHolds ==
  ASSUME DiskInv, NEW T \in Paths, SaveOver(T)
  PROVE  DiskInv' /\ Older
<1>1. /\ files' = [files EXCEPT ![T] = NewFile(fresh + 1, Zero)]
      /\ escaped' = escaped \cup Escapes(T) /\ residue' = residue \cup Occupied(files[T])
      /\ device' = device /\ spare' = spare /\ litter' = litter /\ filler' = filler /\ job' = job
      /\ certs' = certs /\ fresh' = fresh + 1 /\ faults' = faults /\ fresh < MaxData
  BY DEF SaveOver, Writable, disk
<1>2. /\ files \in [Paths -> FileType] /\ fresh \in Nat
      /\ filler.dirty \subseteq residue
  BY DEF DiskInv, DiskTypes, FillerInFree
<1>3. PICK g : g = NewFile(fresh + 1, Zero)
  OBVIOUS
<1>4. g \in FileRec /\ g.blocks = <<fresh + 1>> /\ g.tail = Zero
  BY <1>2, <1>3 DEF NewFile, FileRec, Zero
<1>5. InTail(g) = {} /\ InBlocks(g.blocks) \subseteq {fresh + 1} /\ Occupied(g) \subseteq {fresh + 1}
  BY <1>4 DEF InTail, InBlocks, Occupied, Range
<1>6. /\ files' \in [Paths -> FileType] /\ files'[T] = g
      /\ \A q \in Paths \ {T} : files'[q] = files[q]
  BY <1>1, <1>2, <1>3, <1>4 DEF FileType
<1>7. Loose' = Loose \cup Occupied(files[T])
  BY <1>1 DEF Loose
<1>8. fresh + 1 \notin Occupied(files[T])
  <2>1. Occupied(files[T]) \subseteq Everywhere
    BY Spread
  <2> QED
    BY <1>2, <2>1 DEF DiskInv, Known
<1>9. /\ Occupied(files'[T]) \subseteq Occupied(files[T]) \cup {fresh + 1}
      /\ Loose' \subseteq Loose \cup (Occupied(files[T]) \ Occupied(files'[T]))
  BY <1>5, <1>6, <1>7, <1>8
<1>10. /\ filler'.dirty \subseteq residue' /\ escaped \subseteq escaped'
       /\ {fresh + 1} \subseteq (fresh + 1)..fresh' /\ fresh' \in Nat /\ fresh <= fresh'
       /\ fresh' <= MaxData
  BY <1>1, <1>2 DEF DiskInv, DiskTypes
<1>11. InBlocks(files'[T].blocks) \cap InTail(files'[T]) = {}
  BY <1>5, <1>6
<1>12. \A i \in DOMAIN files'[T].blocks : files'[T].blocks[i] > fresh
  BY <1>2, <1>4, <1>6
<1>13. ASSUME NEW d \in job.data[T], Clear(T, d), d \notin escaped'
       PROVE  d \notin Loose' /\ Reach(T, d)'
  <2>1. d \notin Loose'
    BY <1>1, <1>7, <1>13 DEF Clear, Escapes
  <2>2. d \in 1..fresh
    BY <1>13 DEF DiskInv, Known
  <2>3. d \notin InTail(g) /\ d \notin InBlocks(g.blocks) /\ \A i \in DOMAIN g.blocks : g.blocks[i] # d
    BY <1>2, <1>4, <1>5, <2>2
  <2>4. Reach(T, d)'
    BY <1>6, <2>3 DEF Reach
  <2> QED
    BY <2>1, <2>4
<1>14. PICK N : N = {fresh + 1}
  OBVIOUS
<1>15. /\ Occupied(files'[T]) \subseteq Occupied(files[T]) \cup N /\ N \subseteq (fresh + 1)..fresh'
       /\ \A d \in job.data[T] : Clear(T, d) => d \in escaped' \/ (d \notin Loose' /\ Reach(T, d)')
  BY <1>9, <1>10, <1>13, <1>14
<1> QED
  BY <1>1, <1>6, <1>9, <1>10, <1>11, <1>12, <1>15, Bystander

LEMMA AppendToHolds ==
  ASSUME DiskInv, NEW T \in Paths, AppendTo(T)
  PROVE  DiskInv' /\ Older
<1>1. /\ files' = [files EXCEPT ![T].blocks = Append(@, fresh + 1), ![T].tail = Zero]
      /\ Over(InTail(files[T])) /\ files[T] # NoFile
      /\ device' = device /\ residue' = residue /\ litter' = litter /\ filler' = filler /\ job' = job
      /\ certs' = certs /\ fresh' = fresh + 1 /\ faults' = faults /\ fresh < MaxData
      /\ escaped' = escaped
  BY DEF AppendTo, Writable, disk
<1>2. /\ files \in [Paths -> FileType] /\ fresh \in Nat
      /\ filler.dirty \subseteq residue
  BY DEF DiskInv, DiskTypes, FillerInFree
<1>3. PICK f \in FileRec : f = files[T] /\ f # NoFile /\ f.blocks \in Seq(Nat) /\ f.ino \in Nat
  BY <1>1, FileTypes DEF DiskInv
<1>4. PICK longer \in Seq(Nat) :
        /\ longer = Append(f.blocks, fresh + 1)
        /\ InBlocks(longer) \subseteq InBlocks(f.blocks) \cup {fresh + 1}
        /\ \A i \in DOMAIN longer : longer[i] = fresh + 1 \/ (i \in DOMAIN f.blocks /\ longer[i] = f.blocks[i])
  <2>1. PICK b \in Seq(Nat) : b = f.blocks
    BY <1>3
  <2>2. PICK d \in Nat : d = fresh + 1
    BY <1>2
  <2>3. PICK l : l = Append(b, d)
    OBVIOUS
  <2>4. /\ l \in Seq(Nat)
        /\ \A i \in DOMAIN l : l[i] = d \/ (i \in DOMAIN b /\ l[i] = b[i])
        /\ InBlocks(l) \subseteq InBlocks(b) \cup {d}
    <3>1. l \in Seq(Nat)
      BY ONLY <2>3, b \in Seq(Nat), d \in Nat
    <3>2. \A i \in DOMAIN l : l[i] = d \/ (i \in DOMAIN b /\ l[i] = b[i])
      BY ONLY <2>3, b \in Seq(Nat), d \in Nat
    <3>3. InBlocks(l) \subseteq InBlocks(b) \cup {d}
      BY ONLY <3>2 DEF InBlocks, Range
    <3> QED
      BY <3>1, <3>2, <3>3
  <2> QED
    BY <2>1, <2>2, <2>3, <2>4
<1>5. PICK g : g = [f EXCEPT !.blocks = longer, !.tail = Zero]
  OBVIOUS
<1>6. g \in FileRec /\ g.blocks = longer /\ g.tail = Zero
  BY <1>3, <1>5 DEF FileRec, Zero
<1>7. /\ files' \in [Paths -> FileType] /\ files'[T] = g
      /\ \A q \in Paths \ {T} : files'[q] = files[q]
  <2>1. files' = [files EXCEPT ![T] = g]
    BY <1>1, <1>2, <1>3, <1>4, <1>5
  <2> QED
    BY <1>2, <1>6, <2>1 DEF FileType
<1>8. InTail(g) = {} /\ Occupied(g) \subseteq InBlocks(f.blocks) \cup {fresh + 1}
  BY <1>4, <1>6 DEF InTail, Occupied
<1>9. /\ Occupied(f) = InBlocks(f.blocks) \cup InTail(f)
      /\ InBlocks(f.blocks) \cap InTail(f) = {}
  BY <1>3 DEF Occupied, DiskInv, Inner
<1>10. fresh + 1 \notin Occupied(f)
  <2>1. Occupied(files[T]) \subseteq Everywhere
    BY Spread
  <2> QED
    BY <1>2, <1>3, <2>1 DEF DiskInv, Known
<1>11. spare' = IF Flash(device) THEN spare \cup InTail(f) ELSE spare
  BY <1>1, <1>3 DEF Over
<1>12. Loose' \subseteq Loose \cup (Occupied(f) \ Occupied(g))
  BY <1>1, <1>8, <1>9, <1>10, <1>11 DEF Loose
<1>13. /\ Occupied(files'[T]) \subseteq Occupied(files[T]) \cup {fresh + 1}
       /\ Loose' \subseteq Loose \cup (Occupied(files[T]) \ Occupied(files'[T]))
       /\ InBlocks(files'[T].blocks) \cap InTail(files'[T]) = {}
  BY <1>3, <1>7, <1>8, <1>9, <1>12
<1>14. /\ filler'.dirty \subseteq residue' /\ escaped \subseteq escaped'
       /\ {fresh + 1} \subseteq (fresh + 1)..fresh' /\ fresh' \in Nat /\ fresh <= fresh'
       /\ fresh' <= MaxData /\ (~Flash(device) => spare' = spare)
  BY <1>1, <1>2, <1>11
<1>15. \A i \in DOMAIN files'[T].blocks :
           \/ files'[T].blocks[i] > fresh
           \/ files[T] # NoFile /\ i \in DOMAIN files[T].blocks /\ files'[T].blocks[i] = files[T].blocks[i]
  <2>1. \A i \in DOMAIN longer : longer[i] > fresh \/ (i \in DOMAIN f.blocks /\ longer[i] = f.blocks[i])
    BY <1>2, <1>4
  <2> QED
    BY <1>3, <1>6, <1>7, <2>1
<1>16. ASSUME ~Flash(device), NEW d \in job.data[T], Clear(T, d)
       PROVE  d \notin Loose' /\ Reach(T, d)'
  <2>1. d \notin Loose'
    BY <1>1, <1>11, <1>16 DEF Loose, Clear
  <2>2. d \in 1..fresh /\ d # fresh + 1
    BY <1>2, <1>16 DEF DiskInv, Known
  <2>3. Reach(T, d)
    BY <1>16 DEF Clear
  <2>4. CASE job.tool = "shred"
    <3>1. \A i \in DOMAIN f.blocks : i > job.size[T] => f.blocks[i] # d
      BY <1>3, <2>3, <2>4 DEF Reach
    <3>2. d \notin InTail(g) /\ \A i \in DOMAIN g.blocks : i > job.size[T] => g.blocks[i] # d
      BY <1>4, <1>6, <1>8, <2>2, <3>1
    <3> QED
      BY <1>1, <1>7, <2>1, <2>4, <3>2 DEF Reach
  <2>5. CASE job.tool # "shred"
    <3>1. d \notin InBlocks(g.blocks)
      BY <1>3, <1>4, <1>6, <2>2, <2>3, <2>5 DEF Reach
    <3> QED
      BY <1>1, <1>7, <2>1, <2>5, <3>1 DEF Reach
  <2> QED
    BY <2>4, <2>5
<1>17. PICK N : N = {fresh + 1}
  OBVIOUS
<1>18. /\ Occupied(files'[T]) \subseteq Occupied(files[T]) \cup N /\ N \subseteq (fresh + 1)..fresh'
       /\ ~Flash(device) => \A d \in job.data[T] : Clear(T, d) =>
           d \in escaped' \/ (d \notin Loose' /\ Reach(T, d)')
  BY <1>13, <1>14, <1>16, <1>17
<1> QED
  BY <1>1, <1>7, <1>13, <1>14, <1>15, <1>18, Bystander

\* A file is renamed, over another or not.
LEMMA MoveFileHolds ==
  ASSUME DiskInv, NEW T \in Paths, NEW U \in Paths, MoveFile(T, U)
  PROVE  DiskInv' /\ Older
<1>1. /\ files' = [files EXCEPT ![U] = files[T], ![T] = NoFile] /\ T # U
      /\ escaped' = escaped \cup Escapes(T) \cup Escapes(U)
      /\ residue' = residue \cup Occupied(files[U])
      /\ device' = device /\ spare' = spare /\ litter' = litter /\ filler' = filler /\ job' = job
      /\ certs' = certs /\ fresh' = fresh /\ faults' = faults
  BY DEF MoveFile, disk
<1>2. /\ files \in [Paths -> FileType] /\ fresh \in Nat /\ fresh <= MaxData
      /\ filler.dirty \subseteq residue
  BY DEF DiskInv, DiskTypes, FillerInFree
<1>3. /\ files' \in [Paths -> FileType] /\ files'[T] = NoFile /\ files'[U] = files[T]
      /\ \A q \in Paths \ {T, U} : files'[q] = files[q]
  BY <1>1, <1>2 DEF FileType
<1>4. Occupied(files'[T]) = {}
  BY <1>3, NoneOccupied
<1>5. Loose' = Loose \cup Occupied(files[U])
  BY <1>1 DEF Loose
<1>6. Everywhere' \subseteq Everywhere
  BY <1>3, <1>4, <1>5, Spread, SpreadNext
<1>7. Apart'
  <2>1. ASSUME NEW p \in Paths PROVE Occupied(files'[p]) \cap Loose' = {}
    BY <1>1, <1>3, <1>4, <1>5 DEF DiskInv, Apart
  <2>2. ASSUME NEW p \in Paths, NEW q \in Paths, p # q
        PROVE  Occupied(files'[p]) \cap Occupied(files'[q]) = {}
    BY <1>1, <1>3, <1>4, <2>2 DEF DiskInv, Apart
  <2> QED
    BY <2>1, <2>2 DEF Apart
<1>8. DiskTypes' /\ Inner' /\ Rust' /\ FillerInFree' /\ HasTargets'
  BY <1>1, <1>2, <1>3 DEF DiskInv, DiskTypes, Inner, Rust, FillerInFree, HasTargets
<1>9. Known' /\ CertifiedIsOverwritten'
  BY <1>1, <1>6 DEF DiskInv, Known, CertifiedIsOverwritten
<1>10. SlackInv'
  <2> SUFFICES ASSUME job.tool = "slack", NEW p \in Paths, files'[p] # NoFile
               PROVE  Behind(files'[p], job.size[Target], job.held)
    BY <1>1 DEF SlackInv, Target
  <2>1. \A q \in Paths : files[q] # NoFile => Behind(files[q], job.size[Target], job.held)
    BY DEF DiskInv, SlackInv
  <2> QED
    BY <1>3, <2>1
<1>11. ASSUME NEW p \in Paths, Pending(p) PROVE Pending(p)'
  <2> SUFFICES ASSUME NEW d \in job.data[p], d \notin escaped' PROVE Clear(p, d)'
    BY <1>1 DEF Pending
  <2>1. Clear(p, d) /\ d \in 1..fresh
    BY <1>1, <1>11 DEF Pending, DiskInv, Known
  <2>2. p \in {T, U} => d \notin Occupied(files[p])
    BY <1>1 DEF Escapes
  <2>3. \A q \in Paths \ {p} : d \notin Occupied(files[q])
    BY <2>1 DEF Clear
  <2>4. d \notin Occupied(files[T]) /\ d \notin Occupied(files[U])
    BY <2>2, <2>3
  <2>5. d \notin Loose'
    BY <1>5, <2>1, <2>4 DEF Clear
  <2>6. \A q \in Paths \ {p} : d \notin Occupied(files'[q])
    BY <1>3, <1>4, <2>3, <2>4
  <2>7. Reach(p, d)'
    <3>1. CASE p = T
      BY <1>3, <3>1 DEF Reach
    <3>2. CASE p = U
      <4>1. ASSUME files[T] # NoFile
            PROVE  /\ d \notin InTail(files[T]) /\ d \notin InBlocks(files[T].blocks)
                   /\ \A i \in DOMAIN files[T].blocks : files[T].blocks[i] # d
        <5>1. d \notin InTail(files[T]) /\ d \notin InBlocks(files[T].blocks)
          BY <2>4, <4>1 DEF Occupied
        <5>2. d \notin {Zero, Noise}
          BY <1>2, <2>1 DEF Zero, Noise
        <5> QED
          BY <5>1, <5>2 DEF InBlocks, Range
      <4> QED
        BY <1>3, <3>2, <4>1 DEF Reach
    <3>3. CASE p \notin {T, U}
      BY <1>1, <1>3, <2>1, <3>3 DEF Clear, Reach
    <3> QED
      BY <3>1, <3>2, <3>3
  <2> QED
    BY <2>5, <2>6, <2>7 DEF Clear
<1>12. JobInv'
  <2>1. CASE job.tool \in {"shred", "slack"}
    <3>1. ASSUME ~Flash(device), Treated' PROVE Gone(job.data[Target])'
      <4>1. PICK X : X = job.data[Target] /\ X = job'.data[Target']
        BY <1>1 DEF Target
      <4>2. Gone(X)
        BY <1>1, <2>1, <3>1, <4>1 DEF DiskInv, JobInv, Treated
      <4>3. X \cap Everywhere' \subseteq escaped'
        BY <1>1, <1>6, <4>2 DEF Gone
      <4> QED
        BY <4>1, <4>3 DEF Gone
    <3> QED
      BY <1>1, <1>11, <2>1, <3>1, SameTarget
  <2>2. CASE job.tool \notin {"shred", "slack"}
    BY <1>1, <2>2 DEF JobInv
  <2> QED
    BY <2>1, <2>2
<1>13. Older
  BY <1>1, <1>2, <1>6 DEF Older
<1> QED
  BY <1>7, <1>8, <1>9, <1>10, <1>12, <1>13 DEF DiskInv

LEMMA FileStepHolds ==
  ASSUME DiskInv, FileStep
  PROVE  DiskInv' /\ Older
<1>1. ASSUME NEW s \in SetToAllKPermutations(Paths), s # << >>, StartShred(s) PROVE DiskInv' /\ Older
  BY <1>1, TargetsAreSequences, StartShredHolds
<1>2. CASE Confirm("shred", "overwrite") \/ Confirm("slack", "extend") \/ Confirm("free", "fill")
  BY <1>2, ConfirmHolds
<1>3. CASE BurnTarget
  BY <1>3, RandomPassHolds, OverwriteHolds, VerifyHolds, RenameHolds, TruncateUnlinkHolds,
     CertifyShredHolds, SkipTargetHolds DEF BurnTarget
<1>4. ASSUME NEW p \in Paths, StartSlack(p) PROVE DiskInv' /\ Older
  BY <1>4, StartSlackHolds
<1>5. CASE ExtendFile \/ TruncateFile \/ CertifySlack
  BY <1>5, ExtendFileHolds, TruncateFileHolds, CertifySlackHolds
<1>6. CASE StartFree \/ FillFree \/ UnlinkFiller \/ CertifyFree \/ CertifyFailure
  BY <1>6, StartFreeHolds, FillFreeHolds, UnlinkFillerHolds, CertifyFreeHolds, CertifyFailureHolds
<1>7. ASSUME NEW d \in Data, Writeback(d) PROVE DiskInv' /\ Older
  BY <1>7, WritebackHolds
<1>8. ASSUME NEW p \in Paths, AppendTo(p) \/ SaveOver(p) \/ RemoveFile(p) PROVE DiskInv' /\ Older
  BY <1>8, AppendToHolds, SaveOverHolds, RemoveFileHolds
<1>9. CASE Killed
  BY <1>9, CrashHolds
<1>10. ASSUME NEW p \in Paths, NEW q \in Paths, MoveFile(p, q) PROVE DiskInv' /\ Older
  BY <1>10, MoveFileHolds
<1> QED
  BY <1>1, <1>2, <1>3, <1>4, <1>5, <1>6, <1>7, <1>8, <1>9, <1>10 DEF FileStep

-----------------------------------------------------------------------------
(* The erase of the whole disk.                                             *)

Erasing == {"confirm", "rescan", "step", "certify", "failed"}
Todos == {<< >>, <<"format">>, <<"sanitize">>, <<"set-pass", "erase">>, <<"erase">>, <<"zero-fill">>}
BurnType == [at : Erasing \cup {"idle"}, todo : Todos, serial : Nat, typed : Nat, data : SUBSET Nat,
             blind : BOOLEAN, remounted : BOOLEAN, swapped : BOOLEAN]

\* File burns and erases of the same disk exclude each other.
OneAtATime == burn.at # "idle" \/ sanitizing => job = NoJob
\* An erase that may still write has a plan its media allows, and no other is running.
Planned ==
  burn.at \in {"confirm", "rescan", "step"} =>
    /\ ~sanitizing /\ burn.todo # << >>
    /\ burn.todo = <<"zero-fill">> => ~Flash(device)
\* What an erase claims or is about to claim is clean, once the firmware is done.
Clean ==
  ~sanitizing \/ slot = 2 =>
    /\ \A e \in erasures : e.success /\ ~e.swapped => e.data \cap Everywhere = {}
    /\ burn.at = "certify" /\ ~burn.swapped => burn.data \cap Everywhere = {}
Dated == burn.data \subseteq 1..fresh /\ \A e \in erasures : e.data \subseteq 1..fresh
\* Only an erase with a password in its plan locks a disk, and its last step unlocks it.
Unlocking ==
  /\ locked => Classify(device) = "sata_ssd"
  /\ burn.at \in {"confirm", "rescan", "step"} =>
       (burn.todo \in {<<"set-pass", "erase">>, <<"erase">>} <=> Classify(device) = "sata_ssd")
  /\ burn.at = "certify" => ~locked

\* What was confirmed is still so, or was changed too late to be noticed.
Confirmed ==
  /\ burn.at \in {"step", "certify", "failed"} => slot = burn.typed \/ burn.swapped
  /\ burn.at = "rescan" => burn.typed = burn.serial
  /\ burn.at # "idle" => ~mounted \/ burn.remounted \/ burn.blind \/ device.stacked

EraseInv ==
  /\ burn \in BurnType /\ slot \in {1, 2}
  /\ OneAtATime /\ Planned /\ Clean /\ Dated /\ Unlocking /\ Confirmed

EIInv == DiskInv /\ EraseInv

LEMMA NoBurnFields ==
  /\ NoBurn \in BurnType /\ NoBurn.at = "idle" /\ NoBurn.data = {}
BY DEF NoBurn, BurnType, Erasing, Todos

LEMMA BurnFields ==
  ASSUME burn \in BurnType
  PROVE  /\ burn.at \in Erasing \cup {"idle"} /\ burn.todo \in Todos /\ burn.serial \in Nat
         /\ burn.typed \in Nat /\ burn.data \in SUBSET Nat
         /\ burn.blind \in BOOLEAN /\ burn.remounted \in BOOLEAN /\ burn.swapped \in BOOLEAN
BY DEF BurnType

LEMMA Plans ==
  ASSUME NEW d
  PROVE  /\ Plan(d) \in Todos
         /\ Plan(d) = <<"zero-fill">> => ~Flash(d)
         /\ Plan(d) # << >> =>
              (Plan(d) \in {<<"set-pass", "erase">>, <<"erase">>} <=> Classify(d) = "sata_ssd")
<1>1. Plan(d) = <<"zero-fill">> => Classify(d) = "hdd"
  BY DEF Plan
<1>2. Plan(d) \in Todos
  BY DEF Plan, Todos
<1>3. Plan(d) # << >> =>
        (Plan(d) \in {<<"set-pass", "erase">>, <<"erase">>} <=> Classify(d) = "sata_ssd")
  BY DEF Plan
<1> QED
  BY <1>1, <1>2, <1>3, HddIsRust

LEMMA Steps ==
  ASSUME NEW s \in Todos, s # << >>
  PROVE  /\ Tail(s) \in Todos
         /\ Len(s) = 1 => Head(s) # "set-pass"
         /\ Len(s) # 1 => s = <<"set-pass", "erase">>
         /\ Head(s) = "zero-fill" => s = <<"zero-fill">>
         /\ Head(s) = "set-pass" => s = <<"set-pass", "erase">> /\ Tail(s) = <<"erase">> /\ Len(s) = 2
         /\ Head(s) \in {"format", "erase", "sanitize", "zero-fill"} => Len(s) = 1
<1>1. CASE s = <<"set-pass", "erase">>
  BY <1>1 DEF Todos
<1>2. CASE s = <<"format">>
  BY <1>2 DEF Todos
<1>3. CASE s = <<"sanitize">>
  BY <1>3 DEF Todos
<1>4. CASE s = <<"erase">>
  BY <1>4 DEF Todos
<1>5. CASE s = <<"zero-fill">>
  BY <1>5 DEF Todos
<1> QED
  BY <1>1, <1>2, <1>3, <1>4, <1>5 DEF Todos

LEMMA WipedHolds ==
  ASSUME DiskInv, job = NoJob, job' = job, NEW left, left \subseteq Everywhere,
         ~Flash(device) => left = {}, Wiped(left), device' = device, faults' = faults
  PROVE  /\ DiskInv' /\ Everywhere' \subseteq Everywhere
         /\ slot = 1 => Everywhere' = left
         /\ fresh' = fresh
<1>1. CASE slot # 1
  <2>1. /\ files' = files /\ residue' = residue /\ spare' = spare /\ litter' = litter /\ filler' = filler
        /\ certs' = certs /\ fresh' = fresh /\ escaped' = escaped
    BY <1>1 DEF Wiped, fileVars
  <2>2. Loose' = Loose /\ Everywhere' = Everywhere
    BY <2>1 DEF Loose, Everywhere
  <2>3. Loose' \subseteq Loose /\ litter' \subseteq litter \cup Occupied(job.moved) /\ job' = NoJob
    BY <2>1, <2>2
  <2>4. faults' \in Nat
    BY DEF DiskInv, DiskTypes
  <2>5. DiskInv'
    BY <2>1, <2>3, <2>4, Ends
  <2> QED
    BY <1>1, <2>1, <2>2, <2>5
<1>2. CASE slot = 1
  <2>1. /\ files' = [p \in Paths |-> NoFile] /\ residue' = {} /\ litter' = {} /\ filler' = NoFiller
        /\ spare' = left
        /\ certs' = certs /\ fresh' = fresh /\ escaped' = escaped
    BY <1>2 DEF Wiped
  <2>2. Loose' = left
    BY <2>1, NoJobTypes, NoneOccupied DEF Loose
  <2>3. \A p \in Paths : files'[p] = NoFile /\ Occupied(files'[p]) = {}
    BY <2>1, NoneOccupied
  <2>4. Everywhere' = left
    BY <2>2, <2>3, SpreadNext
  <2>5. DiskTypes'
    BY <2>1 DEF DiskInv, DiskTypes, FileType
  <2>6. Apart' /\ Inner'
    BY <2>3 DEF Apart, Inner
  <2>7. Rust' /\ FillerInFree'
    BY <2>1 DEF Rust, FillerInFree, NoFiller, DiskInv
  <2>8. fresh \in Nat /\ fresh <= fresh /\ {} \subseteq (fresh + 1)..fresh
    BY DEF DiskInv, DiskTypes
  <2>9. /\ Everywhere' \subseteq 1..fresh' /\ \A c \in certs' : c.data \subseteq 1..fresh'
        /\ CertifiedIsOverwritten'
    <3>1. Everywhere' \subseteq Everywhere \cup {}
      BY <2>4
    <3> QED
      BY <2>1, <2>8, <3>1, Carried DEF DiskInv
  <2>10. /\ HasTargets' /\ JobInv' /\ SlackInv'
         /\ \A p \in Paths : job'.data[p] \subseteq 1..fresh' /\ job'.held \subseteq 1..fresh'
    BY <2>1, <2>8, NoCommand
  <2>11. Known'
    <3>1. job'.held \subseteq 1..fresh'
      BY <2>1 DEF DiskInv, Known
    <3> QED
      BY <2>9, <2>10, <3>1 DEF Known
  <2> QED
    BY <2>1, <2>4, <2>5, <2>6, <2>7, <2>9, <2>10, <2>11 DEF DiskInv
<1> QED
  BY <1>1, <1>2

-----------------------------------------------------------------------------
\* A step of the erase that leaves the data alone.
LEMMA SameDisk ==
  ASSUME DiskInv, faults' \in Nat,
         UNCHANGED <<device, files, residue, spare, litter, filler, certs, fresh, escaped, job>>
  PROVE  DiskInv' /\ Everywhere' = Everywhere
<1>1. Loose' = Loose /\ Everywhere' = Everywhere
  BY DEF Loose, Everywhere
<1>2. DiskTypes' /\ Inner' /\ Rust' /\ FillerInFree' /\ HasTargets'
  BY DEF DiskInv, DiskTypes, Inner, Rust, FillerInFree, HasTargets
<1>3. Apart' /\ Known' /\ CertifiedIsOverwritten'
  BY <1>1 DEF DiskInv, Apart, Known, CertifiedIsOverwritten
<1>4. Target' = Target /\ (Treated' <=> Treated)
  BY DEF Target, Treated
<1>5. SlackInv'
  BY <1>4 DEF DiskInv, SlackInv
<1>6. \A p : Pending(p) => Pending(p)'
  BY <1>1 DEF Pending, Clear, Reach
<1>7. \A X : Gone(X) => Gone(X)'
  BY <1>1 DEF Gone
<1>8. JobInv'
  <2> SUFFICES ASSUME job.tool \in {"shred", "slack"}, ~Flash(device)
               PROVE  /\ \A i \in DOMAIN job'.todo : Pending(job.todo[i])'
                      /\ Treated' => Gone(job.data[Target])'
    BY DEF JobInv
  <2>1. \A i \in DOMAIN job.todo : Pending(job.todo[i])
    BY DEF DiskInv, JobInv
  <2>2. ASSUME NEW i \in DOMAIN job'.todo PROVE Pending(job.todo[i])'
    <3>1. PICK p : p = job.todo[i] /\ p = job'.todo[i]
      OBVIOUS
    <3>2. Pending(p)'
      BY <1>6, <2>1, <3>1
    <3> QED
      BY <3>1, <3>2
  <2>3. ASSUME Treated' PROVE Gone(job.data[Target])'
    <3>1. PICK X : X = job.data[Target] /\ X = job'.data[Target']
      BY <1>4
    <3>2. Gone(X)
      BY <1>4, <2>3, <3>1 DEF DiskInv, JobInv
    <3>3. Gone(X)'
      BY <1>7, <3>2
    <3> QED
      BY <3>1, <3>3
  <2> QED
    BY <2>2, <2>3
<1> QED
  BY <1>1, <1>2, <1>3, <1>5, <1>8 DEF DiskInv

\* What a file burn or another program leaves alone.
LEMMA FileStepFrame ==
  ASSUME FileStep, DiskInv
  PROVE  /\ device' = device /\ slot' = slot /\ mounted' = mounted
         /\ faults' = faults \/ faults' = faults + 1
<1>1. ASSUME NEW j, Begin(j) PROVE UNCHANGED <<disk, faults>>
  BY <1>1 DEF Begin
<1>2. UNCHANGED disk /\ (faults' = faults \/ faults' = faults + 1)
  <2>1. ASSUME NEW s, StartShred(s) PROVE UNCHANGED <<disk, faults>>
    BY <1>1, <2>1 DEF StartShred
  <2>2. ASSUME NEW t, NEW a, Confirm(t, a) PROVE UNCHANGED <<disk, faults>>
    BY <2>2 DEF Confirm
  <2>3. CASE BurnTarget
    BY <2>3 DEF BurnTarget, RandomPass, Overwrite, Verify, Rename, TruncateUnlink, CertifyShred,
                SkipTarget, bounds
  <2>4. ASSUME NEW p, StartSlack(p) PROVE UNCHANGED <<disk, faults>>
    BY <1>1, <2>4 DEF StartSlack
  <2>5. CASE ExtendFile \/ TruncateFile \/ CertifySlack
    BY <2>5 DEF ExtendFile, TruncateFile, CertifySlack, bounds
  <2>6. CASE StartFree
    BY <1>1, <2>6 DEF StartFree
  <2>7. CASE FillFree \/ UnlinkFiller \/ CertifyFree \/ CertifyFailure
    BY <2>7 DEF FillFree, UnlinkFiller, CertifyFree, CertifyFailure, bounds
  <2>8. ASSUME NEW d, Writeback(d) PROVE UNCHANGED <<disk, faults>>
    BY <2>8 DEF Writeback, bounds
  <2>9. ASSUME NEW p, AppendTo(p) \/ SaveOver(p) \/ RemoveFile(p) PROVE UNCHANGED <<disk, faults>>
    BY <2>9 DEF AppendTo, SaveOver, RemoveFile, bounds
  <2>10. CASE Killed
    BY <2>10 DEF Killed
  <2>11. ASSUME NEW p, NEW q, MoveFile(p, q) PROVE UNCHANGED <<disk, faults>>
    BY <2>11 DEF MoveFile
  <2> QED
    BY <2>1, <2>2, <2>3, <2>4, <2>5, <2>6, <2>7, <2>8, <2>9, <2>10, <2>11 DEF FileStep
<1> QED
  BY <1>2 DEF disk

LEMMA FilesGoOn ==
  ASSUME EIInv, FileStep, OneCommand, UNCHANGED eraseVars
  PROVE  EIInv'
<1>1. DiskInv' /\ Older
  BY FileStepHolds DEF EIInv
<1>2. /\ device' = device /\ slot' = slot /\ mounted' = mounted
      /\ faults' = faults \/ faults' = faults + 1
  BY FileStepFrame DEF EIInv
<1>3. /\ burn' = burn /\ locked' = locked /\ sanitizing' = sanitizing /\ erasures' = erasures
  BY DEF eraseVars
<1>4. faults \in Nat /\ fresh \in Nat /\ fresh' \in Nat
  BY <1>1 DEF EIInv, DiskInv, DiskTypes
<1>5. OneAtATime'
  BY <1>3, NoBurnFields DEF OneAtATime, OneCommand
<1>6. Planned' /\ Confirmed'
  BY <1>2, <1>3 DEF EIInv, EraseInv, Planned, Confirmed
<1>7. Dated'
  BY <1>1, <1>3, <1>4 DEF EIInv, EraseInv, Dated, Older
<1>8. Unlocking'
  BY <1>2, <1>3, <1>4 DEF EIInv, EraseInv, Unlocking
<1>9. Clean'
  <2>1. ASSUME NEW X, X \subseteq 1..fresh, X \cap Everywhere = {} PROVE X \cap Everywhere' = {}
    BY <1>1, <2>1 DEF Older
  <2>2. burn.data \subseteq 1..fresh /\ \A e \in erasures : e.data \subseteq 1..fresh
    BY DEF EIInv, EraseInv, Dated
  <2> QED
    BY <1>2, <1>3, <2>1, <2>2 DEF EIInv, EraseInv, Clean
<1> QED
  BY <1>1, <1>2, <1>3, <1>5, <1>6, <1>7, <1>8, <1>9 DEF EIInv, EraseInv

\* What a step of the erase keeps, when neither the data nor the certificates change.
LEMMA ErasePasses ==
  ASSUME EIInv, faults' \in Nat, faults <= faults', burn' \in BurnType, slot' \in {1, 2},
         UNCHANGED <<device, files, residue, spare, litter, filler, certs, fresh, escaped, job,
                     sanitizing, erasures>>,
         burn'.at # "idle" => job = NoJob, Planned', Confirmed', Unlocking',
         slot' = slot \/ ~sanitizing,
         burn'.data = burn.data \/ burn'.data = {},
         burn'.at = "certify" /\ ~burn'.swapped => burn.at = "certify" /\ ~burn.swapped
  PROVE  EIInv'
<1>1. DiskInv' /\ Everywhere' = Everywhere
  BY SameDisk DEF EIInv
<1>2. OneAtATime'
  BY DEF EIInv, EraseInv, OneAtATime
<1>3. Dated'
  BY DEF EIInv, EraseInv, Dated
<1>4. Clean'
  <2>1. sanitizing' = sanitizing /\ erasures' = erasures
    OBVIOUS
  <2>2. ~sanitizing' \/ slot' = 2 => ~sanitizing \/ slot = 2
    BY <2>1
  <2> QED
    BY <1>1, <2>1, <2>2 DEF EIInv, EraseInv, Clean
<1> QED
  BY <1>1, <1>2, <1>3, <1>4 DEF EIInv, EraseInv

LEMMA EraseTypes ==
  ASSUME EIInv
  PROVE  /\ burn \in BurnType /\ slot \in {1, 2} /\ faults \in Nat /\ fresh \in Nat
         /\ Everywhere \subseteq 1..fresh /\ OneAtATime /\ Planned /\ Clean /\ Dated /\ Unlocking
         /\ Confirmed /\ DiskInv
BY DEF EIInv, EraseInv, DiskInv, DiskTypes, Known

LEMMA StartEraseHolds ==
  ASSUME EIInv, NEW typed \in 1..2, NEW readable \in BOOLEAN, StartErase(typed, readable)
  PROVE  EIInv'
<1>1. /\ burn = NoBurn /\ job = NoJob /\ ~sanitizing /\ Plan(device) # << >> /\ Erasable(readable)
      /\ device' = device /\ slot' = slot /\ mounted' = mounted /\ faults' = faults /\ locked' = locked
      /\ UNCHANGED <<files, residue, spare, litter, filler, certs, fresh, escaped, job,
                     sanitizing, erasures>>
  BY DEF StartErase, disk, fileVars
<1>2. /\ burn \in BurnType /\ slot \in {1, 2} /\ faults \in Nat /\ Unlocking
  BY EraseTypes
<1>3. PICK b : b = burn'
  OBVIOUS
<1>4. PICK steps \in Todos :
        /\ steps = Plan(device) /\ (steps = <<"zero-fill">> => ~Flash(device))
        /\ steps \in {<<"set-pass", "erase">>, <<"erase">>} <=> Classify(device) = "sata_ssd"
  BY <1>1, Plans
<1>9. PICK blind \in BOOLEAN : blind = (mounted /\ ~readable)
  OBVIOUS
<1>10. ~mounted \/ blind \/ device.stacked
  BY <1>1, <1>9 DEF Erasable
<1>5. b = [NoBurn EXCEPT !.at = "confirm", !.todo = steps, !.serial = slot, !.typed = typed,
                         !.blind = blind]
  BY <1>3, <1>4, <1>9 DEF StartErase
<1>6. /\ b \in BurnType /\ b.at = "confirm" /\ b.todo = steps /\ b.serial = slot /\ b.typed = typed
      /\ b.data = {} /\ b.blind = blind
  <2>1. b = [at |-> "confirm", todo |-> steps, serial |-> slot, typed |-> typed, data |-> {},
             blind |-> blind, remounted |-> FALSE, swapped |-> FALSE]
    BY <1>5 DEF NoBurn
  <2>2. slot \in Nat /\ typed \in Nat
    BY <1>2
  <2> QED
    BY <2>1, <2>2 DEF BurnType, Erasing
<1>7. Planned' /\ Confirmed'
  BY <1>1, <1>3, <1>4, <1>6, <1>10 DEF Planned, Confirmed
<1>8. Unlocking'
  BY <1>1, <1>2, <1>3, <1>4, <1>6 DEF Unlocking
<1> QED
  BY <1>1, <1>2, <1>3, <1>6, <1>7, <1>8, ErasePasses

LEMMA BurnEnds ==
  ASSUME EIInv, burn' = NoBurn, UNCHANGED <<disk, fileVars, job, locked, sanitizing, erasures>>,
         faults' \in Nat, faults <= faults', Unlocking'
  PROVE  EIInv'
<1>1. slot \in {1, 2}
  BY EraseTypes
<1>2. Planned' /\ Confirmed'
  BY NoBurnFields DEF Planned, Confirmed
<1> QED
  BY <1>1, <1>2, NoBurnFields, ErasePasses DEF disk, fileVars

LEMMA Goes ==
  ASSUME burn \in BurnType, NEW a \in Erasing, NEW b, b = [burn EXCEPT !.at = a]
  PROVE  /\ b \in BurnType /\ b.at = a /\ b.todo = burn.todo /\ b.serial = burn.serial
         /\ b.typed = burn.typed /\ b.data = burn.data /\ b.remounted = burn.remounted /\ b.blind = burn.blind
         /\ b.swapped = burn.swapped
BY DEF BurnType

LEMMA ConfirmSerialHolds ==
  ASSUME EIInv, ConfirmSerial
  PROVE  EIInv'
<1>1. /\ burn.at = "confirm" /\ UNCHANGED <<disk, fileVars, job, faults, locked, sanitizing, erasures>>
  BY DEF ConfirmSerial, diskVars
<1>2. burn \in BurnType /\ slot \in {1, 2} /\ faults \in Nat /\ Unlocking /\ Planned /\ Confirmed /\ OneAtATime
  BY EraseTypes
<1>3. CASE burn' = NoBurn
  <2>1. Unlocking'
    BY <1>1, <1>2, <1>3, NoBurnFields DEF Unlocking, disk
  <2> QED
    BY <1>1, <1>2, <1>3, <2>1, BurnEnds
<1>4. CASE burn.typed = burn.serial /\ burn' = [burn EXCEPT !.at = "rescan"]
  <2>1. PICK b : b = burn'
    OBVIOUS
  <2>2. /\ b \in BurnType /\ b.at = "rescan" /\ b.todo = burn.todo /\ b.serial = burn.serial
        /\ b.typed = burn.typed /\ b.data = burn.data /\ b.remounted = burn.remounted /\ b.blind = burn.blind
        /\ b.swapped = burn.swapped
    BY <1>2, <1>4, <2>1, Goes DEF Erasing
  <2>3. Planned' /\ Confirmed' /\ Unlocking'
    BY <1>1, <1>2, <1>4, <2>1, <2>2 DEF Planned, Confirmed, Unlocking, disk
  <2>4. job = NoJob
    BY <1>1, <1>2 DEF OneAtATime
  <2> QED
    BY <1>1, <1>2, <2>1, <2>2, <2>3, <2>4, ErasePasses DEF disk, fileVars
<1> QED
  BY <1>3, <1>4 DEF ConfirmSerial

LEMMA RescanHolds ==
  ASSUME EIInv, Rescan
  PROVE  EIInv'
<1>1. /\ burn.at = "rescan" /\ UNCHANGED <<disk, fileVars, job, faults, locked, sanitizing, erasures>>
  BY DEF Rescan, diskVars
<1>2. burn \in BurnType /\ slot \in {1, 2} /\ faults \in Nat /\ Unlocking /\ Planned /\ Confirmed /\ OneAtATime
  BY EraseTypes
<1>3. CASE burn' = NoBurn
  <2>1. Unlocking'
    BY <1>1, <1>2, <1>3, NoBurnFields DEF Unlocking, disk
  <2> QED
    BY <1>1, <1>2, <1>3, <2>1, BurnEnds
<1>4. CASE slot = burn.serial /\ burn' = [burn EXCEPT !.at = "step"]
  <2>1. PICK b : b = burn'
    OBVIOUS
  <2>2. /\ b \in BurnType /\ b.at = "step" /\ b.todo = burn.todo /\ b.serial = burn.serial
        /\ b.typed = burn.typed /\ b.data = burn.data /\ b.remounted = burn.remounted /\ b.blind = burn.blind
        /\ b.swapped = burn.swapped
    BY <1>2, <1>4, <2>1, Goes DEF Erasing
  <2>3. Planned' /\ Confirmed' /\ Unlocking'
    BY <1>1, <1>2, <1>4, <2>1, <2>2 DEF Planned, Confirmed, Unlocking, disk
  <2>4. job = NoJob
    BY <1>1, <1>2 DEF OneAtATime
  <2> QED
    BY <1>1, <1>2, <2>1, <2>2, <2>3, <2>4, ErasePasses DEF disk, fileVars
<1> QED
  BY <1>3, <1>4 DEF Rescan

\* What a step of the plan that is done leaves of it.
LEMMA DoneFields ==
  ASSUME EIInv, burn.at = "step", Done
  PROVE  /\ burn' \in BurnType /\ burn'.todo = Tail(burn.todo) /\ burn'.data \subseteq 1..fresh
         /\ burn'.at = IF Len(burn.todo) = 1 THEN "certify" ELSE "step"
         /\ burn'.serial = burn.serial /\ burn'.typed = burn.typed /\ burn'.remounted = burn.remounted
         /\ burn'.swapped = burn.swapped /\ burn'.blind = burn.blind /\ (slot = 2 => burn'.data = {})
<1>1. /\ burn \in BurnType /\ slot \in {1, 2} /\ fresh \in Nat /\ Everywhere \subseteq 1..fresh /\ Planned
  BY EraseTypes
<1>2. burn.todo \in Todos /\ burn.todo # << >>
  BY <1>1, BurnFields DEF Planned
<1>3. PICK rest \in Todos : rest = Tail(burn.todo)
  BY <1>2, Steps
<1>4. PICK a \in Erasing : a = IF Len(burn.todo) = 1 THEN "certify" ELSE "step"
  BY DEF Erasing
<1>5. PICK X : X = IF slot = 1 THEN Everywhere ELSE {}
  OBVIOUS
<1>6. X \subseteq 1..fresh /\ (slot = 2 => X = {})
  BY <1>1, <1>5
<1>7. PICK b : b = burn'
  OBVIOUS
<1>8. b = [burn EXCEPT !.todo = rest, !.at = a, !.data = X]
  BY <1>3, <1>4, <1>5, <1>7 DEF Done
<1>9. /\ b \in BurnType /\ b.todo = rest /\ b.at = a /\ b.data = X /\ b.serial = burn.serial
      /\ b.typed = burn.typed /\ b.remounted = burn.remounted /\ b.swapped = burn.swapped
      /\ b.blind = burn.blind
  <2>1. X \in SUBSET Nat
    BY <1>1, <1>6
  <2> QED
    BY <1>1, <1>3, <1>4, <1>8, <2>1 DEF BurnType
<1> QED
  BY <1>3, <1>4, <1>7, <1>9, <1>6

\* The plan and the guards still hold for what is left of it.
LEMMA DoneKeeps ==
  ASSUME EIInv, burn.at = "step", Done, UNCHANGED disk, UNCHANGED job,
         sanitizing' = sanitizing \/ Len(burn.todo) = 1
  PROVE  OneAtATime' /\ Planned' /\ Confirmed' /\ slot' \in {1, 2}
<1>1. /\ burn \in BurnType /\ slot \in {1, 2} /\ Planned /\ Confirmed /\ OneAtATime
  BY EraseTypes
<1>2. /\ burn.todo \in Todos /\ burn.todo # << >> /\ ~sanitizing /\ job = NoJob
  BY <1>1, BurnFields DEF Planned, OneAtATime
<1>3. PICK steps \in Todos : steps = burn.todo /\ steps # << >>
  BY <1>2
<1>4. /\ burn'.todo = Tail(steps) /\ burn'.at = IF Len(steps) = 1 THEN "certify" ELSE "step"
      /\ burn'.typed = burn.typed /\ burn'.remounted = burn.remounted
      /\ burn'.swapped = burn.swapped /\ burn'.serial = burn.serial /\ burn'.blind = burn.blind
  BY <1>3, DoneFields
<1>5. Len(steps) # 1 => Tail(steps) = <<"erase">> /\ <<"erase">> # << >> /\ <<"erase">> # <<"zero-fill">>
  <2>1. Len(steps) # 1 => steps = <<"set-pass", "erase">>
    BY <1>3, Steps
  <2>2. Head(<<"set-pass", "erase">>) = "set-pass" /\ <<"set-pass", "erase">> \in Todos
    BY DEF Todos
  <2>3. Tail(<<"set-pass", "erase">>) = <<"erase">>
    OBVIOUS
  <2> QED
    BY <2>1, <2>3
<1>6. OneAtATime'
  BY <1>2 DEF OneAtATime
<1>7. Planned'
  BY <1>2, <1>3, <1>4, <1>5 DEF Planned
<1>8. Confirmed'
  BY <1>1, <1>4 DEF Confirmed, disk
<1> QED
  BY <1>1, <1>6, <1>7, <1>8 DEF disk

\* Between setting the password and erasing, the disk is locked.
LEMMA DoneUnlocks ==
  ASSUME EIInv, burn.at = "step", Done, device' = device,
         locked' => Classify(device) = "sata_ssd", Len(burn.todo) = 1 => ~locked'
  PROVE  Unlocking'
<1>1. burn \in BurnType /\ Planned /\ Unlocking
  BY EraseTypes
<1>2. PICK steps \in Todos : steps = burn.todo /\ steps # << >>
  BY <1>1, BurnFields DEF Planned
<1>3. burn'.todo = Tail(steps) /\ burn'.at = IF Len(steps) = 1 THEN "certify" ELSE "step"
  BY <1>2, DoneFields
<1>4. CASE Len(steps) = 1
  BY <1>2, <1>3, <1>4 DEF Unlocking
<1>5. CASE Len(steps) # 1
  <2>1. steps = <<"set-pass", "erase">> /\ burn'.at = "step"
    BY <1>2, <1>3, <1>5, Steps
  <2>2. burn'.todo = <<"erase">>
    BY <1>3, <2>1
  <2>3. Classify(device) = "sata_ssd"
    BY <1>1, <1>2, <2>1 DEF Unlocking
  <2> QED
    BY <2>1, <2>2, <2>3 DEF Unlocking
<1> QED
  BY <1>4, <1>5

\* A step that overwrites or erases the disk in the slot.
LEMMA WipeKeeps ==
  ASSUME EIInv, burn.at = "step", Done, Wiped({}), UNCHANGED <<disk, job, faults, sanitizing, erasures>>
  PROVE  /\ DiskInv' /\ Clean' /\ Dated' /\ OneAtATime' /\ Planned' /\ Confirmed' /\ slot' \in {1, 2}
         /\ burn' \in BurnType
<1>1. /\ burn \in BurnType /\ slot \in {1, 2} /\ DiskInv /\ Clean /\ Dated /\ Planned /\ OneAtATime
      /\ fresh \in Nat
  BY EraseTypes
<1>2. job = NoJob /\ device' = device /\ slot' = slot /\ ~sanitizing
  BY <1>1 DEF OneAtATime, Planned, disk
<1>3. PICK left : left = {}
  OBVIOUS
<1>4. Wiped(left) /\ left \subseteq Everywhere
  BY <1>3
<1>5. DiskInv' /\ Everywhere' \subseteq Everywhere /\ (slot = 1 => Everywhere' = left) /\ fresh' = fresh
  BY <1>1, <1>2, <1>3, <1>4, WipedHolds
<1>6. burn' \in BurnType /\ burn'.data \subseteq 1..fresh /\ (slot = 2 => burn'.data = {})
  BY DoneFields
<1>7. Dated'
  BY <1>1, <1>5, <1>6 DEF Dated
<1>8. Clean'
  <2>1. CASE slot = 1
    BY <1>3, <1>5, <2>1 DEF Clean
  <2>2. CASE slot = 2
    BY <1>1, <1>2, <1>5, <1>6, <2>2 DEF Clean
  <2> QED
    BY <1>1, <2>1, <2>2
<1>9. OneAtATime' /\ Planned' /\ Confirmed' /\ slot' \in {1, 2}
  BY DoneKeeps
<1> QED
  BY <1>5, <1>6, <1>7, <1>8, <1>9

LEMMA ZeroFillHolds ==
  ASSUME EIInv, ZeroFill
  PROVE  EIInv'
<1>1. /\ burn.at = "step" /\ Step = "zero-fill" /\ Wiped(IF Flash(device) THEN Everywhere ELSE {}) /\ Done
      /\ UNCHANGED <<disk, job, faults, locked, sanitizing, erasures>>
  BY DEF ZeroFill
<1>2. burn \in BurnType /\ Planned /\ Unlocking
  BY EraseTypes
<1>3. PICK steps \in Todos : steps = burn.todo /\ steps # << >>
  BY <1>1, <1>2, BurnFields DEF Planned
<1>4. steps = <<"zero-fill">>
  BY <1>1, <1>3, Steps DEF Step
<1>5. ~Flash(device)
  BY <1>1, <1>2, <1>3, <1>4 DEF Planned
<1>6. Wiped({})
  BY <1>1, <1>5
<1>7. ~locked
  <2>1. burn.todo # <<"erase">> /\ burn.todo # <<"set-pass", "erase">>
    BY <1>3, <1>4
  <2> QED
    BY <1>1, <1>2, <2>1 DEF Unlocking
<1>8. Unlocking'
  BY <1>1, <1>7, DoneUnlocks DEF disk
<1> QED
  BY <1>1, <1>6, <1>8, WipeKeeps DEF EIInv, EraseInv

LEMMA SetPasswordHolds ==
  ASSUME EIInv, SetPassword
  PROVE  EIInv'
<1>1. /\ burn.at = "step" /\ Step = "set-pass" /\ locked' = TRUE /\ Done
      /\ UNCHANGED <<disk, fileVars, job, faults, sanitizing, erasures>>
  BY DEF SetPassword, diskVars
<1>2. /\ burn \in BurnType /\ Planned /\ Unlocking /\ faults \in Nat /\ DiskInv /\ Clean /\ Dated /\ fresh \in Nat
      /\ slot \in {1, 2}
  BY EraseTypes
<1>3. PICK steps \in Todos : steps = burn.todo /\ steps # << >>
  BY <1>1, <1>2, BurnFields DEF Planned
<1>4. steps = <<"set-pass", "erase">> /\ Tail(steps) = <<"erase">> /\ Len(steps) = 2
  BY <1>1, <1>3, Steps DEF Step
<1>5. /\ burn' \in BurnType /\ burn'.todo = <<"erase">> /\ burn'.at = "step" /\ burn'.data \subseteq 1..fresh
  <2>1. /\ burn' \in BurnType /\ burn'.todo = Tail(burn.todo) /\ burn'.data \subseteq 1..fresh
        /\ burn'.at = IF Len(burn.todo) = 1 THEN "certify" ELSE "step"
    BY <1>1, DoneFields
  <2>2. Len(burn.todo) # 1 /\ Tail(burn.todo) = <<"erase">>
    BY <1>3, <1>4
  <2> QED
    BY <2>1, <2>2
<1>6. Unlocking'
  <2>1. Classify(device) = "sata_ssd"
    BY <1>1, <1>2, <1>3, <1>4 DEF Unlocking
  <2> QED
    BY <1>1, <1>3, <1>4, <2>1, DoneUnlocks DEF disk
<1>7. DiskInv' /\ Everywhere' = Everywhere
  BY <1>1, <1>2, SameDisk DEF disk, fileVars
<1>8. Clean' /\ Dated'
  BY <1>1, <1>2, <1>5, <1>7 DEF Clean, Dated, disk, fileVars
<1>9. OneAtATime' /\ Planned' /\ Confirmed' /\ slot' \in {1, 2}
  BY <1>1, DoneKeeps
<1> QED
  BY <1>5, <1>6, <1>7, <1>8, <1>9 DEF EIInv, EraseInv

LEMMA FirmwareEraseHolds ==
  ASSUME EIInv, FirmwareErase
  PROVE  EIInv'
<1>1. /\ burn.at = "step" /\ Wiped({}) /\ Done /\ locked' = FALSE
      /\ UNCHANGED <<disk, job, faults, sanitizing, erasures>>
  BY DEF FirmwareErase
<1>2. Unlocking'
  BY <1>1, DoneUnlocks DEF disk
<1> QED
  BY <1>1, <1>2, WipeKeeps DEF EIInv, EraseInv

LEMMA StartSanitizeHolds ==
  ASSUME EIInv, StartSanitize
  PROVE  EIInv'
<1>1. /\ burn.at = "step" /\ Step = "sanitize" /\ sanitizing' = TRUE /\ Done
      /\ UNCHANGED <<disk, fileVars, job, faults, locked, erasures>>
  BY DEF StartSanitize, diskVars
<1>2. /\ burn \in BurnType /\ Planned /\ faults \in Nat /\ DiskInv /\ Clean /\ Dated /\ fresh \in Nat
      /\ slot \in {1, 2} /\ Unlocking /\ ~sanitizing
  BY <1>1, EraseTypes DEF Planned
<1>3. PICK steps \in Todos : steps = burn.todo /\ steps # << >>
  BY <1>1, <1>2, BurnFields DEF Planned
<1>4. Len(steps) = 1
  BY <1>1, <1>3, Steps DEF Step
<1>5. /\ burn' \in BurnType /\ burn'.at = "certify" /\ burn'.data \subseteq 1..fresh
      /\ (slot = 2 => burn'.data = {})
  BY <1>1, <1>3, <1>4, DoneFields
<1>6. Unlocking'
  <2>1. burn.todo # <<"erase">> /\ burn.todo # <<"set-pass", "erase">>
    BY <1>1 DEF Step
  <2>2. ~locked
    BY <1>1, <1>2, <2>1 DEF Unlocking
  <2> QED
    BY <1>1, <2>2, DoneUnlocks DEF disk
<1>7. DiskInv' /\ Everywhere' = Everywhere
  BY <1>1, <1>2, SameDisk DEF disk, fileVars
<1>8. Dated'
  BY <1>1, <1>2, <1>5 DEF Dated, fileVars
<1>9. Clean'
  <2>1. CASE slot = 1
    BY <1>1, <2>1 DEF Clean, disk
  <2>2. CASE slot = 2
    BY <1>1, <1>2, <1>5, <1>7, <2>2 DEF Clean, disk
  <2> QED
    BY <1>2, <2>1, <2>2
<1>10. OneAtATime' /\ Planned' /\ Confirmed' /\ slot' \in {1, 2}
  BY <1>1, <1>3, <1>4, DoneKeeps
<1> QED
  BY <1>5, <1>6, <1>7, <1>8, <1>9, <1>10 DEF EIInv, EraseInv

LEMMA StepFailsHolds ==
  ASSUME EIInv, StepFails
  PROVE  EIInv'
<1>1. /\ burn.at = "step" /\ burn' = [burn EXCEPT !.at = "failed"]
      /\ UNCHANGED <<disk, fileVars, job, faults, locked, sanitizing, erasures>>
  BY DEF StepFails, diskVars
<1>2. burn \in BurnType /\ slot \in {1, 2} /\ faults \in Nat /\ Confirmed /\ OneAtATime /\ Unlocking
  BY EraseTypes
<1>3. PICK b : b = burn'
  OBVIOUS
<1>4. /\ b \in BurnType /\ b.at = "failed" /\ b.todo = burn.todo /\ b.serial = burn.serial
      /\ b.typed = burn.typed /\ b.data = burn.data /\ b.remounted = burn.remounted /\ b.blind = burn.blind
      /\ b.swapped = burn.swapped
  BY <1>1, <1>2, <1>3, Goes DEF Erasing
<1>5. Planned' /\ Confirmed' /\ Unlocking'
  BY <1>1, <1>2, <1>3, <1>4 DEF Planned, Confirmed, Unlocking, disk
<1>6. job = NoJob
  BY <1>1, <1>2 DEF OneAtATime
<1> QED
  BY <1>1, <1>2, <1>3, <1>4, <1>5, <1>6, ErasePasses DEF disk, fileVars

LEMMA CertifyEraseHolds ==
  ASSUME EIInv, CertifyErase
  PROVE  EIInv'
<1>1. /\ burn.at \in {"certify", "failed"} /\ burn' = NoBurn
      /\ UNCHANGED <<disk, fileVars, job, faults, locked, sanitizing>>
  BY DEF CertifyErase, diskVars
<1>2. /\ burn \in BurnType /\ slot \in {1, 2} /\ faults \in Nat /\ DiskInv /\ Clean /\ Dated
      /\ Unlocking
  BY EraseTypes
<1>3. PICK g \in BOOLEAN : g = (burn.at = "certify")
  OBVIOUS
<1>4. PICK e : e = [disk |-> burn.serial, success |-> g, swapped |-> burn.swapped, data |-> burn.data]
  OBVIOUS
<1>5. e.success = g /\ e.swapped = burn.swapped /\ e.data = burn.data
  BY <1>4
<1>6. erasures' = erasures \cup {e}
  BY <1>3, <1>4 DEF CertifyErase
<1>7. DiskInv' /\ Everywhere' = Everywhere
  BY <1>1, <1>2, SameDisk DEF disk, fileVars
<1>8. Clean'
  <2>1. ASSUME ~sanitizing \/ slot = 2, NEW x \in erasures', x.success, ~x.swapped
        PROVE  x.data \cap Everywhere = {}
    <3>1. CASE x \in erasures
      BY <1>2, <2>1, <3>1 DEF Clean
    <3>2. CASE x = e
      BY <1>2, <1>3, <1>5, <2>1, <3>2 DEF Clean
    <3> QED
      BY <1>6, <2>1, <3>1, <3>2
  <2> QED
    BY <1>1, <1>7, <2>1, NoBurnFields DEF Clean, disk
<1>9. Dated'
  BY <1>1, <1>2, <1>5, <1>6, NoBurnFields DEF Dated, fileVars
<1>10. Unlocking'
  BY <1>1, <1>2, NoBurnFields DEF Unlocking, disk
<1>11. OneAtATime' /\ Planned' /\ Confirmed'
  BY <1>1, NoBurnFields DEF OneAtATime, Planned, Confirmed, EIInv, EraseInv
<1> QED
  BY <1>1, <1>2, <1>7, <1>8, <1>9, <1>10, <1>11, NoBurnFields DEF EIInv, EraseInv, disk

LEMMA DieHolds ==
  ASSUME EIInv, Die
  PROVE  EIInv'
<1>1. /\ burn' = NoBurn /\ faults' = faults + 1
      /\ UNCHANGED <<disk, fileVars, job, locked, sanitizing, erasures>>
  BY DEF Die
<1>2. faults \in Nat /\ Unlocking
  BY EraseTypes
<1>3. Unlocking'
  BY <1>1, <1>2, NoBurnFields DEF Unlocking, disk
<1> QED
  BY <1>1, <1>2, <1>3, BurnEnds

LEMMA SanitizeEndsHolds ==
  ASSUME EIInv, SanitizeEnds
  PROVE  EIInv'
<1>1. /\ sanitizing /\ sanitizing' = FALSE /\ Wiped({})
      /\ UNCHANGED <<disk, job, faults, burn, locked, erasures>>
  BY DEF SanitizeEnds
<1>2. /\ burn \in BurnType /\ slot \in {1, 2} /\ DiskInv /\ Clean /\ Dated /\ Planned /\ OneAtATime
      /\ fresh \in Nat /\ Unlocking /\ Confirmed
  BY EraseTypes
<1>3. job = NoJob /\ device' = device /\ slot' = slot
  BY <1>1, <1>2 DEF OneAtATime, disk
<1>4. PICK left : left = {}
  OBVIOUS
<1>5. Wiped(left) /\ left \subseteq Everywhere
  BY <1>1, <1>4
<1>6. DiskInv' /\ Everywhere' \subseteq Everywhere /\ (slot = 1 => Everywhere' = left) /\ fresh' = fresh
  BY <1>1, <1>2, <1>3, <1>4, <1>5, WipedHolds
<1>7. Dated' /\ OneAtATime' /\ Planned' /\ Confirmed' /\ Unlocking'
  BY <1>1, <1>2, <1>3, <1>6 DEF Dated, OneAtATime, Planned, Confirmed, Unlocking, disk
<1>8. Clean'
  <2>1. CASE slot = 1
    BY <1>4, <1>6, <2>1 DEF Clean
  <2>2. CASE slot = 2
    BY <1>1, <1>2, <1>3, <1>6, <2>2 DEF Clean
  <2> QED
    BY <1>2, <2>1, <2>2
<1> QED
  BY <1>1, <1>2, <1>3, <1>6, <1>7, <1>8 DEF EIInv, EraseInv

LEMMA MountHolds ==
  ASSUME EIInv, Mount
  PROVE  EIInv'
<1>1. /\ ~locked /\ mounted' = TRUE
      /\ UNCHANGED <<device, slot, fileVars, job, faults, locked, sanitizing, erasures>>
  BY DEF Mount, diskVars
<1>2. /\ burn \in BurnType /\ slot \in {1, 2} /\ faults \in Nat /\ Confirmed /\ OneAtATime /\ Planned
      /\ Unlocking
  BY EraseTypes
<1>3. PICK g \in BOOLEAN : g = (burn # NoBurn)
  OBVIOUS
<1>4. PICK b : b = burn'
  OBVIOUS
<1>5. b = [burn EXCEPT !.remounted = g]
  BY <1>3, <1>4 DEF Mount
<1>6. /\ b \in BurnType /\ b.at = burn.at /\ b.todo = burn.todo /\ b.serial = burn.serial
      /\ b.typed = burn.typed /\ b.data = burn.data /\ b.remounted = g /\ b.blind = burn.blind
      /\ b.swapped = burn.swapped
  BY <1>2, <1>5 DEF BurnType
<1>7. burn.at # "idle" => g
  BY <1>3, NoBurnFields
<1>8. Confirmed'
  BY <1>1, <1>2, <1>4, <1>6, <1>7 DEF Confirmed
<1>9. Planned' /\ Unlocking'
  BY <1>1, <1>2, <1>4, <1>6 DEF Planned, Unlocking
<1>10. burn'.at # "idle" => job = NoJob
  BY <1>2, <1>4, <1>6 DEF OneAtATime
<1> QED
  BY <1>1, <1>2, <1>4, <1>6, <1>8, <1>9, <1>10, ErasePasses DEF fileVars

LEMMA UnmountHolds ==
  ASSUME EIInv, Unmount
  PROVE  EIInv'
<1>1. /\ mounted' = FALSE
      /\ UNCHANGED <<device, slot, fileVars, job, faults, burn, locked, sanitizing, erasures>>
  BY DEF Unmount, diskVars, eraseVars
<1>2. /\ burn \in BurnType /\ slot \in {1, 2} /\ faults \in Nat /\ Confirmed /\ OneAtATime /\ Planned
      /\ Unlocking
  BY EraseTypes
<1>3. Confirmed' /\ Planned' /\ Unlocking'
  BY <1>1, <1>2 DEF Confirmed, Planned, Unlocking
<1>4. burn'.at # "idle" => job = NoJob
  BY <1>1, <1>2 DEF OneAtATime
<1> QED
  BY <1>1, <1>2, <1>3, <1>4, ErasePasses DEF fileVars

LEMMA SwapHolds ==
  ASSUME EIInv, Swap
  PROVE  EIInv'
<1>1. /\ ~mounted /\ ~locked /\ ~sanitizing /\ slot' = 3 - slot
      /\ UNCHANGED <<device, mounted, fileVars, job, faults, locked, sanitizing, erasures>>
  BY DEF Swap, diskVars
<1>2. /\ burn \in BurnType /\ slot \in {1, 2} /\ faults \in Nat /\ Confirmed /\ OneAtATime /\ Planned
      /\ Unlocking
  BY EraseTypes
<1>3. PICK g \in BOOLEAN : g = (burn.at \in {"step", "certify", "failed"})
  <2>1. CASE burn.at \in {"step", "certify", "failed"}
    <3>1. (burn.at \in {"step", "certify", "failed"}) = TRUE
      BY <2>1
    <3> QED
      BY ONLY <3>1, Zenon
  <2>2. CASE burn.at \notin {"step", "certify", "failed"}
    <3>1. (burn.at \in {"step", "certify", "failed"}) = FALSE
      BY <2>2
    <3> QED
      BY ONLY <3>1, Zenon
  <2> QED
    BY ONLY <2>1, <2>2, Zenon
<1>4. PICK b : b = burn'
  OBVIOUS
<1>5. b = [burn EXCEPT !.swapped = g]
  BY <1>3, <1>4 DEF Swap
<1>6. /\ b \in BurnType /\ b.at = burn.at /\ b.todo = burn.todo /\ b.serial = burn.serial
      /\ b.typed = burn.typed /\ b.data = burn.data /\ b.remounted = burn.remounted /\ b.blind = burn.blind
      /\ b.swapped = g
  BY <1>2, <1>5 DEF BurnType
<1>7. burn.at \in {"step", "certify", "failed"} => g
  BY <1>3
<1>8. Confirmed'
  BY <1>1, <1>2, <1>4, <1>6, <1>7 DEF Confirmed
<1>9. Planned' /\ Unlocking'
  BY <1>1, <1>2, <1>4, <1>6 DEF Planned, Unlocking
<1>10. burn'.at # "idle" => job = NoJob
  BY <1>2, <1>4, <1>6 DEF OneAtATime
<1>11. ~(burn'.at = "certify" /\ ~burn'.swapped) /\ slot' \in {1, 2}
  BY <1>1, <1>2, <1>4, <1>6, <1>7
<1> QED
  BY <1>1, <1>2, <1>4, <1>6, <1>8, <1>9, <1>10, <1>11, ErasePasses DEF fileVars

-----------------------------------------------------------------------------
LEMMA FirstFile ==
  ASSUME NEW p \in Paths, NEW f, f = NewFile(p, NumPaths + p)
  PROVE  /\ f \in FileRec /\ InBlocks(f.blocks) = {p} /\ InTail(f) = {NumPaths + p}
         /\ f # NoFile => Occupied(f) = {p, NumPaths + p}
<1>1. p \in Nat /\ p # Zero /\ p # Noise /\ NumPaths + p \in Nat /\ NumPaths + p # Zero /\ NumPaths + p # Noise
  BY DEF Paths, Zero, Noise
<1>2. f.blocks = <<p>> /\ f.tail = NumPaths + p /\ f.ino = p /\ f \in FileRec
  BY <1>1 DEF NewFile, FileRec
<1>3. Range(<<p>>) = {p}
  BY DEF Range
<1>4. InBlocks(f.blocks) = {p}
  BY <1>1, <1>2, <1>3 DEF InBlocks
<1>5. InTail(f) = {NumPaths + p}
  BY <1>1, <1>2 DEF InTail
<1> QED
  BY <1>2, <1>4, <1>5 DEF Occupied

LEMMA InitHolds ==
  ASSUME EraseInit
  PROVE  EIInv
<1>1. /\ files = [p \in Paths |-> NewFile(p, NumPaths + p)] /\ residue = {} /\ spare = {} /\ litter = {}
      /\ filler = NoFiller /\ job = NoJob /\ certs = {} /\ fresh = 2 * NumPaths /\ faults = 0
      /\ escaped = {} /\ slot = 1 /\ mounted = TRUE
      /\ burn = NoBurn /\ locked = FALSE /\ sanitizing = FALSE /\ erasures = {}
  BY DEF EraseInit, FilesInit
<1>2. ASSUME NEW p \in Paths
      PROVE  /\ files[p] \in FileRec /\ InBlocks(files[p].blocks) = {p} /\ InTail(files[p]) = {NumPaths + p}
             /\ Occupied(files[p]) \subseteq {p, NumPaths + p}
  BY <1>1, FirstFile, NoneOccupied
<1>3. fresh \in Nat /\ fresh <= MaxData
  BY <1>1
<1>4. /\ HasTargets /\ JobInv /\ SlackInv /\ job \in JobType /\ job.held \subseteq 1..fresh /\ Occupied(job.moved) = {}
      /\ \A p \in Paths : job.data[p] \subseteq 1..fresh
  BY <1>1, <1>3, NoJobTypes, NoneOccupied DEF HasTargets, JobInv, SlackInv
<1>5. Loose = {}
  BY <1>1, <1>4 DEF Loose
<1>6. DiskTypes
  <2>1. files \in [Paths -> FileType]
    BY <1>1, <1>2 DEF FileType
  <2> QED
    BY <1>1, <1>3, <1>4, <2>1 DEF DiskTypes
<1>7. Apart
  <2>1. ASSUME NEW p \in Paths, NEW q \in Paths, p # q
        PROVE  {p, NumPaths + p} \cap {q, NumPaths + q} = {}
    BY <2>1 DEF Paths
  <2>2. \A p \in Paths : Occupied(files[p]) \cap Loose = {}
    BY <1>5
  <2>3. ASSUME NEW p \in Paths, NEW q \in Paths, p # q
        PROVE  Occupied(files[p]) \cap Occupied(files[q]) = {}
    <3>1. {p, NumPaths + p} \cap {q, NumPaths + q} = {}
      BY <2>1, <2>3
    <3>2. Occupied(files[p]) \subseteq {p, NumPaths + p} /\ Occupied(files[q]) \subseteq {q, NumPaths + q}
      BY <1>2
    <3> QED
      BY ONLY <3>1, <3>2
  <2> QED
    BY <2>2, <2>3 DEF Apart
<1>8. Inner
  <2>1. \A p \in Paths : {p} \cap {NumPaths + p} = {}
    BY DEF Paths
  <2> QED
    BY <1>2, <2>1 DEF Inner
<1>9. Known
  <2>1. \A p \in Paths : {p, NumPaths + p} \subseteq 1..fresh
    BY <1>1 DEF Paths
  <2>2. ASSUME NEW x \in Everywhere PROVE x \in 1..fresh
    <3>1. PICK p \in Paths : x \in Occupied(files[p])
      BY <1>5, Spread
    <3>2. Occupied(files[p]) \subseteq {p, NumPaths + p}
      BY <1>2
    <3>3. {p, NumPaths + p} \subseteq 1..fresh
      BY <2>1
    <3> QED
      BY <3>1, <3>2, <3>3
  <2> QED
    BY <1>1, <1>4, <2>2 DEF Known
<1>10. Rust /\ FillerInFree /\ CertifiedIsOverwritten
  BY <1>1 DEF Rust, FillerInFree, NoFiller, CertifiedIsOverwritten
<1>11. DiskInv
  BY <1>4, <1>6, <1>7, <1>8, <1>9, <1>10 DEF DiskInv
<1>12. burn \in BurnType /\ slot \in {1, 2} /\ OneAtATime /\ Planned /\ Clean /\ Dated /\ Unlocking /\ Confirmed
  BY <1>1, NoBurnFields DEF OneAtATime, Planned, Clean, Dated, Unlocking, Confirmed
<1> QED
  BY <1>11, <1>12 DEF EIInv, EraseInv

LEMMA NextKeeps ==
  ASSUME EIInv, [EraseNext]_deviceVars
  PROVE  EIInv'
<1>1. CASE FileStep /\ OneCommand /\ UNCHANGED eraseVars
  BY <1>1, FilesGoOn
<1>2. ASSUME NEW typed \in 1..2, NEW readable \in BOOLEAN, StartErase(typed, readable) PROVE EIInv'
  BY <1>2, StartEraseHolds
<1>3. CASE Erase
  BY <1>3, ConfirmSerialHolds, RescanHolds, ZeroFillHolds, SetPasswordHolds, FirmwareEraseHolds,
     StartSanitizeHolds, StepFailsHolds, CertifyEraseHolds, DieHolds DEF Erase
<1>4. CASE SanitizeEnds \/ Mount \/ Unmount \/ Swap
  BY <1>4, SanitizeEndsHolds, MountHolds, UnmountHolds, SwapHolds
<1>5. CASE UNCHANGED deviceVars
  <2>1. UNCHANGED <<disk, fileVars, job, faults, burn, locked, sanitizing, erasures>>
    BY <1>5 DEF deviceVars, diskVars, eraseVars
  <2>2. /\ burn \in BurnType /\ slot \in {1, 2} /\ faults \in Nat /\ Planned /\ Confirmed /\ Unlocking
        /\ OneAtATime
    BY EraseTypes
  <2>3. Planned' /\ Confirmed' /\ Unlocking' /\ (burn'.at # "idle" => job = NoJob)
    BY <2>1, <2>2 DEF Planned, Confirmed, Unlocking, OneAtATime, disk
  <2> QED
    BY <2>1, <2>2, <2>3, ErasePasses DEF disk, fileVars
<1> QED
  BY <1>1, <1>2, <1>3, <1>4, <1>5 DEF EraseNext

\* The inductive invariant: what is on the disk and where, what the command under way still
\* reaches, and what an erase under way has already confirmed, wiped or locked.
THEOREM DiskInvariant == EraseSpec => []EIInv
<1>1. EraseInit => EIInv
  BY InitHolds
<1>2. EIInv /\ [EraseNext]_deviceVars => EIInv'
  BY NextKeeps
<1> QED
  BY <1>1, <1>2, PTL DEF EraseSpec

\* Every certificate of a shredded file or a wiped slack is true on a hard disk: the pieces of
\* data tier3.py and slack.py sign for are nowhere on it, but for those that another program
\* freed or took to another path while the command was at work.
THEOREM CertificatesAreTrue == EraseSpec => []CertifiedIsOverwritten
<1>1. EIInv => CertifiedIsOverwritten
  BY DEF EIInv, DiskInv
<1> QED
  BY <1>1, DiskInvariant, PTL

\* The steps of a slack wipe.
LEMMA SlackSteps ==
  ASSUME DiskInv, FileStep, job.tool = "slack", job'.at # job.at
  PROVE  UNCHANGED files \/ ExtendFile \/ TruncateFile
<1>1. job # NoJob
  BY NoJobTypes
<1>2. ASSUME NEW j, Begin(j) PROVE FALSE
  BY <1>1, <1>2 DEF Begin
<1>3. ASSUME NEW s, StartShred(s) PROVE FALSE
  BY <1>2, <1>3 DEF StartShred
<1>4. ASSUME NEW p, StartSlack(p) PROVE FALSE
  BY <1>2, <1>4 DEF StartSlack
<1>5. ~StartFree
  BY <1>2 DEF StartFree
<1>6. ASSUME NEW t, NEW a, Confirm(t, a) PROVE UNCHANGED files
  BY <1>6 DEF Confirm, fileVars
<1>7. ~BurnTarget
  BY DEF BurnTarget, RandomPass, Overwrite, Verify, Rename, TruncateUnlink, CertifyShred, SkipTarget
<1>8. CertifySlack \/ FillFree \/ UnlinkFiller \/ CertifyFree \/ CertifyFailure \/ Killed => UNCHANGED files
  BY DEF CertifySlack, FillFree, UnlinkFiller, CertifyFree, CertifyFailure, Killed
<1>9. ASSUME NEW p, AppendTo(p) \/ SaveOver(p) \/ RemoveFile(p) PROVE FALSE
  BY <1>9 DEF AppendTo, SaveOver, RemoveFile
<1>10. ASSUME NEW p, NEW q, MoveFile(p, q) PROVE FALSE
  BY <1>10 DEF MoveFile
<1>11. ASSUME NEW d, Writeback(d) PROVE FALSE
  BY <1>11 DEF Writeback
<1> QED
  BY <1>3, <1>4, <1>5, <1>6, <1>7, <1>8, <1>9, <1>10, <1>11 DEF FileStep

LEMMA ExtendKeeps ==
  ASSUME DiskInv, ExtendFile
  PROVE  \A p \in Paths : Holds(files'[p]) = Holds(files[p])
<1>1. /\ job.tool = "slack" /\ files[Target] # NoFile /\ files' = [files EXCEPT ![Target].tail = Noise]
  BY DEF ExtendFile
<1>2. PICK T \in Paths : T = Target
  BY <1>1, HeadTarget DEF DiskInv
<1>3. PICK f \in FileRec : f = files[T] /\ f # NoFile
  BY <1>1, <1>2, FileTypes DEF DiskInv
<1>4. PICK g : g = [f EXCEPT !.tail = Noise]
  OBVIOUS
<1>5. g \in FileRec /\ g.blocks = f.blocks
  <2>1. Noise \in Nat
    BY DEF Noise
  <2> QED
    BY <1>4, <2>1, Retailed
<1>6. files'[T] = g /\ \A q \in Paths \ {T} : files'[q] = files[q]
  <2>1. files \in [Paths -> FileType]
    BY DEF DiskInv, DiskTypes
  <2> QED
    BY <1>1, <1>2, <1>3, <1>4, <2>1
<1>7. Holds(g) \subseteq Holds(f) /\ (g # NoFile => Holds(g) = Holds(f))
  BY <1>3, <1>5 DEF Holds
<1>8. g # NoFile
  BY <1>5, NoFileAssumption DEF FileRec
<1> QED
  BY <1>3, <1>6, <1>7, <1>8

LEMMA TruncateKeeps ==
  ASSUME DiskInv, TruncateFile
  PROVE  \A p \in Paths : (Holds(files[p]) \ Holds(files'[p])) \cap job.held = {}
<1> DEFINE Cut(R) == files' = [files EXCEPT ![R].blocks = Resized(files[R].blocks, job.size[Target])]
<1>1. job.tool = "slack" /\ (UNCHANGED files \/ \E R \in Opened : Cut(R))
  BY DEF TruncateFile
<1>2. ASSUME NEW R \in Opened, Cut(R)
      PROVE  \A p \in Paths : (Holds(files[p]) \ Holds(files'[p])) \cap job.held = {}
  <2>1. PICK f \in FileRec : R \in Paths /\ f = files[R] /\ f # NoFile /\ f.blocks \in Seq(Nat)
    BY <1>2, FileTypes DEF DiskInv, Opened
  <2>2. PICK n \in Nat : n = job.size[Target]
    BY <1>1, HeadTarget DEF DiskInv
  <2>3. PICK b \in Seq(Nat) : b = f.blocks
    BY <2>1
  <2>4. PICK r : r = Resized(b, n)
    OBVIOUS
  <2>5. /\ r \in Seq(Nat) /\ DOMAIN r = 1..n
        /\ \A i \in 1..n : i \in DOMAIN b => r[i] = b[i]
    <3>1. r \in Seq(Nat)
      BY ONLY <2>4, b \in Seq(Nat), n \in Nat, ResizedBlocks
    <3>2. DOMAIN r = 1..n
      BY ONLY <2>4, b \in Seq(Nat), n \in Nat, ResizedBlocks
    <3>3. \A i \in 1..n : i \in DOMAIN b => r[i] = b[i]
      BY ONLY <2>4, b \in Seq(Nat), n \in Nat DEF Resized
    <3> QED
      BY <3>1, <3>2, <3>3
  <2>6. PICK g : g = [f EXCEPT !.blocks = r]
    OBVIOUS
  <2>7. g \in FileRec /\ g.blocks = r /\ g # NoFile
    <3>1. g \in FileRec /\ g.blocks = r
      BY ONLY <2>5, <2>6, f \in FileRec, Rewritten
    <3>2. NoFile \notin FileRec
      BY NoFileAssumption DEF FileRec
    <3> QED
      BY <3>1, <3>2
  <2>8. files'[R] = g /\ \A q \in Paths \ {R} : files'[q] = files[q]
    <3>1. files \in [Paths -> FileType]
      BY DEF DiskInv, DiskTypes
    <3>2. files' = [files EXCEPT ![R].blocks = r]
      BY <1>2, <2>1, <2>2, <2>3, <2>4
    <3>3. files' = [files EXCEPT ![R] = g]
      BY <2>1, <2>6, <3>2
    <3> QED
      BY <2>1, <3>1, <3>3
  <2>9. \A i \in DOMAIN b : i > n => b[i] \notin job.held
    BY <1>1, <2>1, <2>2, <2>3 DEF DiskInv, SlackInv, Behind
  <2>10. ASSUME NEW d \in InBlocks(b), d \in job.held PROVE d \in InBlocks(r)
    <3>1. PICK i \in DOMAIN b : b[i] = d
      BY <2>10 DEF InBlocks, Range
    <3>2. i \in 1..n
      BY <2>9, <2>10, <3>1
    <3>3. i \in DOMAIN r /\ r[i] = d
      BY <2>5, <3>1, <3>2
    <3> QED
      BY <2>10, <3>3 DEF InBlocks, Range
  <2>11. Holds(f) = InBlocks(b) /\ Holds(g) = InBlocks(r)
    BY <2>1, <2>3, <2>7 DEF Holds
  <2> QED
    BY <2>1, <2>8, <2>10, <2>11
<1> QED
  BY <1>1, <1>2

\* Wiping the slack of a file takes from no file what the target held when the wipe was
\* planned, whatever other programs append, save, remove or rename in between.
THEOREM SlackWipesOnlySlack == EraseSpec => SlackWipeKeepsThePlanned
<1> DEFINE Kept == job.tool = "slack" /\ job'.at # job.at =>
      \A p \in Paths : (Holds(files[p]) \ Holds(files'[p])) \cap job.held = {}
<1>1. EIInv /\ [EraseNext]_deviceVars => [Kept]_<<files, job>>
  <2> SUFFICES ASSUME EIInv, EraseNext, job.tool = "slack", job'.at # job.at, ~UNCHANGED <<files, job>>
               PROVE  \A p \in Paths : (Holds(files[p]) \ Holds(files'[p])) \cap job.held = {}
    BY DEF deviceVars, diskVars, fileVars
  <2>1. FileStep /\ DiskInv
    BY DEF EraseNext, Erase, EIInv, StartErase, ConfirmSerial, Rescan, ZeroFill, SetPassword, FirmwareErase,
           StartSanitize, StepFails, CertifyErase, Die, SanitizeEnds, Mount, Unmount, Swap, diskVars
  <2>2. CASE UNCHANGED files
    BY <2>2
  <2>3. CASE ExtendFile
    <3>1. \A p \in Paths : Holds(files'[p]) = Holds(files[p])
      BY <2>1, <2>3, ExtendKeeps
    <3> QED
      BY <3>1
  <2>4. CASE TruncateFile
    BY <2>1, <2>4, TruncateKeeps
  <2>5. UNCHANGED files \/ ExtendFile \/ TruncateFile
    BY <2>1, SlackSteps
  <2> QED
    BY <2>2, <2>3, <2>4, <2>5
<1> QED
  BY <1>1, DiskInvariant, PTL DEF EraseSpec, SlackWipeKeepsThePlanned

\* A certificate of a successful erase is true, for every kind of disk and whatever the drive
\* says it can do.
THEOREM ErasesAreTrue == EraseSpec => []ErasedMeansClean
<1>1. EIInv => ErasedMeansClean
  BY Zenon DEF EIInv, EraseInv, Clean, ErasedMeansClean
<1> QED
  BY <1>1, DiskInvariant, PTL

\* No erase leaves the disk behind an ATA password without reporting its own failure.
THEOREM LocksAreReported == EraseSpec => LockedIsReported
<1> DEFINE Reported == burn.at \in {"step", "certify", "failed"} /\ burn' = NoBurn /\ locked' =>
      \/ faults' # faults
      \/ \E e \in erasures' : ~e.success /\ e.disk = burn.serial /\ e.data = burn.data
<1>1. EIInv /\ [EraseNext]_deviceVars => [Reported]_deviceVars
  <2> SUFFICES ASSUME EIInv, EraseNext, burn.at \in {"step", "certify", "failed"}, burn' = NoBurn,
                      locked', faults' = faults
               PROVE  \E e \in erasures' : ~e.success /\ e.disk = burn.serial /\ e.data = burn.data
    OBVIOUS
  <2>1. burn \in BurnType /\ faults \in Nat /\ Unlocking
    BY EraseTypes
  <2>2. burn # NoBurn /\ burn'.at = "idle"
    BY NoBurnFields
  <2>3. CASE CertifyErase
    <3>1. burn.at = "failed"
      BY <2>1, <2>3 DEF CertifyErase, Unlocking
    <3>2. PICK e : e = [disk |-> burn.serial, success |-> burn.at = "certify",
                        swapped |-> burn.swapped, data |-> burn.data]
      OBVIOUS
    <3>3. e \in erasures'
      BY <2>3, <3>2 DEF CertifyErase
    <3>4. ~e.success /\ e.disk = burn.serial /\ e.data = burn.data
      BY <3>1, <3>2
    <3> QED
      BY <3>3, <3>4
  <2>4. CASE Die
    BY <2>1, <2>4 DEF Die
  <2>5. CASE ConfirmSerial \/ Rescan
    BY <2>5 DEF ConfirmSerial, Rescan
  <2>6. CASE ZeroFill \/ SetPassword \/ FirmwareErase \/ StartSanitize
    <3>1. Done
      BY <2>6 DEF ZeroFill, SetPassword, FirmwareErase, StartSanitize
    <3>2. burn'.at \in {"certify", "step"}
      BY <2>6, <3>1, DoneFields DEF ZeroFill, SetPassword, FirmwareErase, StartSanitize
    <3> QED
      BY <2>2, <3>2
  <2>7. CASE StepFails
    <3>1. burn'.at = "failed"
      BY <2>1, <2>7, Goes DEF StepFails, Erasing
    <3> QED
      BY <2>2, <3>1
  <2>8. ASSUME NEW typed, NEW readable, StartErase(typed, readable) PROVE FALSE
    BY <2>2, <2>8 DEF StartErase
  <2>9. CASE (FileStep /\ UNCHANGED eraseVars) \/ SanitizeEnds \/ Unmount
    BY <2>2, <2>9 DEF SanitizeEnds, Unmount, eraseVars
  <2>10. CASE Mount \/ Swap
    <3>1. burn'.at = burn.at
      BY <2>1, <2>10 DEF Mount, Swap, BurnType
    <3> QED
      BY <2>2, <3>1
  <2> QED
    BY <2>3, <2>4, <2>5, <2>6, <2>7, <2>8, <2>9, <2>10 DEF EraseNext, Erase
<1> QED
  BY <1>1, DiskInvariant, PTL DEF EraseSpec, LockedIsReported

\* An erase costs no disk its data but the one that was confirmed, and none whose file system
\* is mounted, but where the guards were blind: the mount table unreadable, the file system on
\* a node of another name, or mounted after they had looked.  Other namespaces die with a
\* sanitize or a format only.
THEOREM ErasesOnlyTheConfirmed == EraseSpec => OnlyWhatWasConfirmedDies
<1> DEFINE Unused == ~mounted \/ burn.remounted \/ burn.blind \/ device.stacked
<1> DEFINE Allowed == /\ Dooms => (slot = burn.typed \/ burn.swapped) /\ Unused
                      /\ neighbour' # neighbour => sanitizing \/ Step = "format"
<1>1. EIInv /\ [EraseNext]_deviceVars => [Allowed]_deviceVars
  <2> SUFFICES ASSUME EIInv, EraseNext
               PROVE  Allowed
    OBVIOUS
  <2>1. burn.at = "step" => slot = burn.typed \/ burn.swapped
    BY DEF EIInv, EraseInv, Confirmed
  <2>2. burn.at # "idle" => Unused
    BY DEF EIInv, EraseInv, Confirmed
  <2>3. ASSUME Dooms PROVE burn.at = "step"
    <3>1. ~UNCHANGED burn /\ ~UNCHANGED <<spared, files, sanitizing>>
      BY <2>3 DEF Dooms
    <3>2. CASE UNCHANGED eraseVars
      BY <3>1, <3>2 DEF eraseVars
    <3>3. ASSUME NEW typed, NEW readable, StartErase(typed, readable) PROVE FALSE
      BY <3>1, <3>3 DEF StartErase, beside, fileVars
    <3>4. CASE ConfirmSerial \/ Rescan \/ SetPassword \/ StepFails \/ CertifyErase \/ Die
      BY <3>1, <3>4 DEF ConfirmSerial, Rescan, SetPassword, StepFails, CertifyErase, Die, diskVars, fileVars, beside
    <3>5. CASE ZeroFill \/ FirmwareErase \/ StartSanitize
      BY <3>5 DEF ZeroFill, FirmwareErase, StartSanitize
    <3>6. CASE SanitizeEnds
      BY <3>1, <3>6 DEF SanitizeEnds
    <3>7. CASE Mount \/ Unmount \/ Swap
      BY <3>1, <3>7 DEF Mount, Unmount, Swap, diskVars, fileVars, eraseVars, beside
    <3> QED
      BY <3>2, <3>3, <3>4, <3>5, <3>6, <3>7 DEF EraseNext, Erase
  <2>4. ASSUME neighbour' # neighbour PROVE sanitizing \/ Step = "format"
    <3>1. CASE SanitizeEnds
      BY <3>1 DEF SanitizeEnds
    <3>2. CASE FirmwareErase
      BY <2>4, <3>2 DEF FirmwareErase
    <3>3. ASSUME NEW typed, NEW readable, StartErase(typed, readable) PROVE FALSE
      BY <2>4, <3>3 DEF StartErase, beside
    <3>4. CASE ConfirmSerial \/ Rescan \/ SetPassword \/ StartSanitize \/ StepFails \/ CertifyErase \/ Die
      BY <2>4, <3>4 DEF ConfirmSerial, Rescan, SetPassword, StartSanitize, StepFails, CertifyErase, Die, beside
    <3>5. CASE ZeroFill \/ Mount \/ Unmount \/ Swap \/ UNCHANGED eraseVars
      BY <2>4, <3>5 DEF ZeroFill, Mount, Unmount, Swap, eraseVars, beside
    <3> QED
      BY <3>1, <3>2, <3>3, <3>4, <3>5 DEF EraseNext, Erase
  <2> QED
    BY <2>1, <2>2, <2>3, <2>4
<1> QED
  BY <1>1, DiskInvariant, PTL DEF EraseSpec, OnlyWhatWasConfirmedDies
=============================================================================
