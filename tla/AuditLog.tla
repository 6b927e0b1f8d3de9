------------------------------ MODULE AuditLog ------------------------------
(***************************************************************************)
(* The cross-burn audit log of the flamethrower (flamethrower/audit.py):   *)
(* one JSON line per deletion or recovery certificate, each line carrying  *)
(* a sequence number and the hash of the entry before it.                  *)
(*                                                                         *)
(* The file is a sequence of lines.  A line is an entry or "garbage" (text *)
(* that json.loads refuses).  `tail' says how the file ends: with a        *)
(* newline ("clean"), in the middle of a JSON object ("cut"), or after a   *)
(* complete object whose newline never reached the disk ("nonl").          *)
(*                                                                         *)
(* SHA-256 is an injective function of the entry body: the hash of a body  *)
(* is the previous hash extended with the body's own fields.  Timestamp,   *)
(* operator, media, method and verification text are part of the body in   *)
(* the code; here the certificate id stands for all of them.               *)
(***************************************************************************)
EXTENDS Naturals, Sequences, FiniteSets, SequencesExt

CONSTANTS
  Certs,        \* certificate ids that may be logged
  MaxCrashes,   \* bound on writes torn by a crash
  MaxTampers    \* bound on edits of the file behind the tool's back

ASSUME BoundsAssumption == MaxCrashes \in Nat /\ MaxTampers \in Nat

VARIABLES
  lines,     \* the lines of audit.jsonl
  tail,      \* how the file ends
  recorded,  \* certificates whose append() returned to its caller
  crashes,   \* torn writes so far
  tampers    \* edits so far

avars == <<lines, tail, recorded, crashes, tampers>>

GenesisHash == << >>
Garbage == [kind |-> "garbage"]
EntryHash(body) == Append(body.prev, <<body.seq, body.cert>>)
EntryOf(body) == [kind |-> "entry", body |-> body, hash |-> EntryHash(body)]
IsEntry(line) == line.kind = "entry"

Parsed(file) == {i \in DOMAIN file : IsEntry(file[i])}
SeqsIn(file) == {file[i].body.seq : i \in Parsed(file)}
Readable(file) == {file[i].body.cert : i \in Parsed(file)}

\* Mutant: chaining to the previous entry's own link.
LastHashOneBehind(file) ==
  IF Parsed(file) = {} THEN GenesisHash ELSE file[Max(Parsed(file))].body.prev

\* Lines that do not parse are skipped: the hash is that of the last entry that does.
LastHash(file) == IF Parsed(file) = {} THEN GenesisHash ELSE file[Max(Parsed(file))].hash
NextSeq(file) == IF SeqsIn(file) = {} THEN 1 ELSE Max(SeqsIn(file)) + 1

NewEntry(file, cert) ==
  EntryOf([seq |-> NextSeq(file), cert |-> cert, prev |-> LastHash(file)])

\* Mutant: the log opened with mode "w".
WrittenAfresh(file, end, line) == <<line>>

\* open(path, "a") continues whatever the last line is: after a torn write the new
\* entry lands on the same line, and that line no longer parses.
Written(file, end, line) ==
  IF end = "clean" THEN Append(file, line) ELSE [file EXCEPT ![Len(file)] = Garbage]

\* What the file becomes when a crash tears the write: nothing arrived, a part of the
\* object did, or all of it but the newline.
TornWrites(file, end, line) ==
  {<<file, end>>, <<Written(file, end, Garbage), "cut">>}
    \cup (IF end = "clean" THEN {<<Append(file, line), "nonl">>}
                           ELSE {<<Written(file, end, line), "cut">>})

-----------------------------------------------------------------------------
(* verify(): TRUE iff the list of problems is empty.                        *)

\* Mutant: the stored hash is taken on trust.
ContinuesOnTrust(file, i) ==
  /\ file[i].body.seq = IF i = 1 THEN 1 ELSE file[i-1].body.seq + 1
  /\ file[i].body.prev = IF i = 1 THEN GenesisHash ELSE file[i-1].hash

Continues(file, i) ==
  /\ file[i].body.seq = IF i = 1 THEN 1 ELSE file[i-1].body.seq + 1
  /\ file[i].body.prev = IF i = 1 THEN GenesisHash ELSE file[i-1].hash
  /\ file[i].hash = EntryHash(file[i].body)

\* Mutant: only the newest line is checked.
VerifiesNewest(file) ==
  file # << >> => IsEntry(Last(file)) /\ (IF Len(file) > 1 /\ ~IsEntry(file[Len(file) - 1])
                                          THEN FALSE ELSE Continues(file, Len(file)))

Verifies(file) ==
  /\ \A i \in DOMAIN file : IsEntry(file[i])
  /\ \A i \in DOMAIN file : Continues(file, i)

-----------------------------------------------------------------------------
InitAudit ==
  /\ lines = << >>
  /\ tail = "clean"
  /\ recorded = {}
  /\ crashes = 0
  /\ tampers = 0

Log(cert) ==
  /\ lines' = Written(lines, tail, NewEntry(lines, cert))
  /\ tail' = "clean"
  /\ recorded' = recorded \cup {cert}
  /\ UNCHANGED <<crashes, tampers>>

LogTorn(cert) ==
  /\ crashes < MaxCrashes
  /\ \E torn \in TornWrites(lines, tail, NewEntry(lines, cert)) :
        lines' = torn[1] /\ tail' = torn[2]
  /\ crashes' = crashes + 1
  /\ UNCHANGED <<recorded, tampers>>

\* The environment: somebody edits the file without recomputing the hashes.
MayTamper == tampers < MaxTampers /\ tampers' = tampers + 1

EditEntry(i) ==
  /\ MayTamper
  /\ IsEntry(lines[i])
  /\ \E cert \in Certs \ {lines[i].body.cert} :
        lines' = [lines EXCEPT ![i].body.cert = cert]
  /\ UNCHANGED <<tail, recorded, crashes>>

\* The newest entry is left out: the log keeps no length and no head, so what remains
\* after it is deleted is an older log that verifies.
DeleteEntry(i) ==
  /\ MayTamper
  /\ IsEntry(lines[i])
  /\ i < Len(lines)
  /\ lines' = RemoveAt(lines, i)
  /\ UNCHANGED <<tail, recorded, crashes>>

SwapEntries(i, j) ==
  /\ MayTamper
  /\ i < j
  /\ IsEntry(lines[i]) /\ IsEntry(lines[j])
  /\ lines' = [lines EXCEPT ![i] = lines[j], ![j] = lines[i]]
  /\ UNCHANGED <<tail, recorded, crashes>>

NextAudit ==
  \/ \E cert \in Certs \ (recorded \cup Readable(lines)) : Log(cert) \/ LogTorn(cert)
  \/ \E i \in DOMAIN lines : EditEntry(i) \/ DeleteEntry(i)
  \/ \E i, j \in DOMAIN lines : SwapEntries(i, j)

SpecAudit == InitAudit /\ [][NextAudit]_avars

-----------------------------------------------------------------------------
(* Properties                                                               *)

\* verify() reports an edited or reordered entry, and a deleted one that is not the
\* newest, and goes on reporting it whatever is appended afterwards (audit.py verify,
\* lines 201-233).
TamperingIsReported == (tampers > 0) => ~Verifies(lines)

\* A log that only append() ever wrote, without a crash, verifies, and holds one entry
\* per recorded certificate, numbered from 1 without a gap.
UntouchedLogVerifies ==
  (tampers = 0 /\ crashes = 0) =>
     /\ Verifies(lines)
     /\ Readable(lines) = recorded
     /\ \A i \in DOMAIN lines : lines[i].body.seq = i

\* verify() is exact, up to the end of the log: it reports every edit that is not of the
\* newest entry, and nothing else but a torn write (audit.py verify).
VerifyIsExact == TamperingIsReported /\ UntouchedLogVerifies

\* A torn write costs at most one later record: the entry glued to the torn line
\* (append opens the file in "a" mode and never looks at its last byte).
TornWriteCostsOneRecord ==
  (tampers = 0) => Cardinality(recorded \ Readable(lines)) <= crashes

\* "A broken chain never repairs itself": no append turns a log that fails
\* verification into one that passes.
BrokenChainStaysBroken ==
  [][(~Verifies(lines) /\ tampers' = tampers) => ~Verifies(lines')]_avars
=============================================================================
