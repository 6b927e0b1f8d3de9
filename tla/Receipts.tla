------------------------------- MODULE Receipts -------------------------------
(***************************************************************************)
(* The receipts of one vault: mail that was forwarded (vault/receipts.py), *)
(* pushes of a point of sale (vault/poshook.py) and scans (vault/scan.py). *)
(*                                                                         *)
(* All three check that the content is new by reading index.jsonl, make    *)
(* the directory rcpt-<date>-<hash>, write two files there and append one  *)
(* line to the index.  Senders retry, several at once; an ingest may die   *)
(* between two steps or in the middle of its line; the date changes.       *)
(*                                                                         *)
(* A message stands for its bytes and their hash, and a receipt for the    *)
(* message and the date in its directory's name.  The "original" of a scan *)
(* is its image together with the text that was read from it.              *)
(***************************************************************************)
EXTENDS Naturals, Sequences, FiniteSets, SequencesExt

CONSTANTS
  Messages,   \* what is sent to this vault, each with its own bytes
  Source,     \* "email", "pos" or "scan" of each
  Txn,        \* transaction_id of each push, NoTxn when it has none
  NoTxn,
  Callers,    \* ingests that may run at the same time
  MaxDays, MaxIngests, MaxCrashes  \* bounds

ASSUME ReceiptsAssumption ==
  /\ Source \in [Messages -> {"email", "pos", "scan"}]
  /\ \A m \in Messages : Txn[m] # NoTxn => Source[m] = "pos"
  /\ MaxDays \in Nat \ {0} /\ MaxIngests \in Nat /\ MaxCrashes \in Nat

VARIABLES
  day,        \* today
  dirs,       \* the receipt directories: which files are in each
  index,      \* the lines of index.jsonl
  open,       \* the last line of it has no newline
  call,       \* what each ingest is doing
  ingests, crashes,
  stored,     \* receipts whose ingest returned
  straddled,  \* messages an ingest was working on when the date changed
  doubled,    \* transactions two pushes of which ran at the same time
  torn        \* lines cut short

vars == <<day, dirs, index, open, call, ingests, crashes, stored, straddled, doubled, torn>>
disk == <<dirs, index, open>>
history == <<stored, straddled, doubled, torn>>

Days == 1..MaxDays
Receipt(m, d) == [message |-> m, day |-> d]
Garbage == [message |-> "none", day |-> 0]   \* a line json.loads refuses
Listed == {index[i] : i \in DOMAIN index} \ {Garbage}
NoDir == {"absent"}
NoCall == [at |-> "idle", message |-> "none", day |-> 0]

Init ==
  /\ day = 1
  /\ dirs = [x \in Messages \X Days |-> NoDir]
  /\ index = << >> /\ open = FALSE
  /\ call = [c \in Callers |-> NoCall]
  /\ ingests = 0 /\ crashes = 0
  /\ stored = {} /\ straddled = {} /\ doubled = {} /\ torn = 0

Dir(c) == <<call[c].message, call[c].day>>
Goto(c, at) == call' = [call EXCEPT ![c].at = at]
Return(c) == call' = [call EXCEPT ![c] = NoCall]
Busy(m) == {c \in Callers : call[c].message = m}
\* Pushes of one transaction.
SameTxn(m, n) == Txn[m] # NoTxn /\ Txn[m] = Txn[n]

\* The account has the integration, the message names this vault and is well-formed; the
\* others are refused before anything is written.
Ingest(c, m) ==
  /\ call[c] = NoCall
  /\ ingests < MaxIngests
  /\ ingests' = ingests + 1
  /\ call' = [call EXCEPT ![c] = [at |-> "check", message |-> m, day |-> 0]]
  /\ doubled' = IF \E n \in Messages : SameTxn(m, n) /\ Busy(n) # {}
                THEN doubled \cup {Txn[m]} ELSE doubled
  /\ UNCHANGED <<day, disk, crashes, stored, straddled, torn>>

\* _index_hashes skips the lines it cannot parse.
CheckNew(c) ==
  /\ call[c].at = "check"
  /\ LET m == call[c].message IN
       IF \E r \in Listed : r.message = m
       THEN Return(c)
       ELSE Goto(c, IF Txn[m] # NoTxn THEN "txn" ELSE "mkdir")
  /\ UNCHANGED <<day, disk, ingests, crashes, history>>

\* Mutant: only the content hash tells retries apart.
SkipTxn(c) ==
  /\ call[c].at = "txn"
  /\ Goto(c, "mkdir")
  /\ UNCHANGED <<day, disk, ingests, crashes, history>>

\* list_receipts parses every line, and one bad line is an error: the push fails.
CheckTxn(c) ==
  /\ call[c].at = "txn"
  /\ IF \/ Garbage \in Range(index)
        \/ \E r \in Listed : SameTxn(r.message, call[c].message)
     THEN Return(c)
     ELSE Goto(c, "mkdir")
  /\ UNCHANGED <<day, disk, ingests, crashes, history>>

\* Mutant: a directory that is there will do.
ShareDir(c) ==
  /\ call[c].at = "mkdir"
  /\ LET d == <<call[c].message, day>> IN
       dirs' = [dirs EXCEPT ![d] = @ \ NoDir]
  /\ call' = [call EXCEPT ![c].at = "first", ![c].day = day]
  /\ UNCHANGED <<day, index, open, ingests, crashes, history>>

\* The date of the moment; a directory that is there refuses the ingest.
MakeDir(c) ==
  /\ call[c].at = "mkdir"
  /\ LET d == <<call[c].message, day>> IN
       IF dirs[d] # NoDir
       THEN Return(c) /\ UNCHANGED dirs
       ELSE /\ dirs' = [dirs EXCEPT ![d] = {}]
            /\ call' = [call EXCEPT ![c].at = "first", ![c].day = day]
  /\ UNCHANGED <<day, index, open, ingests, crashes, history>>

\* Mail and scans keep the original first, pushes the record.
FilesOf(m) ==
  IF Source[m] = "pos" THEN <<"receipt.json", "original">> ELSE <<"original", "receipt.json">>

WriteFirst(c) ==
  /\ call[c].at = "first"
  /\ dirs' = [dirs EXCEPT ![Dir(c)] = @ \cup {FilesOf(call[c].message)[1]}]
  /\ Goto(c, "second")
  /\ UNCHANGED <<day, index, open, ingests, crashes, history>>

\* Mutant: the second file is left for later.
SkipSecond(c) ==
  /\ call[c].at = "second"
  /\ Goto(c, "append")
  /\ UNCHANGED <<day, disk, ingests, crashes, history>>

WriteSecond(c) ==
  /\ call[c].at = "second"
  /\ dirs' = [dirs EXCEPT ![Dir(c)] = @ \cup {FilesOf(call[c].message)[2]}]
  /\ Goto(c, "append")
  /\ UNCHANGED <<day, index, open, ingests, crashes, history>>

\* A line written behind one without a newline makes one line of both, and it does not parse.
WithLine(r) == IF open THEN Append(Front(index), Garbage) ELSE Append(index, r)

\* Mutant: the index is opened for writing instead of appending.
ReplaceIndex(c) ==
  /\ call[c].at = "append"
  /\ index' = <<Receipt(call[c].message, call[c].day)>> /\ open' = FALSE
  /\ stored' = stored \cup {Receipt(call[c].message, call[c].day)}
  /\ Return(c)
  /\ UNCHANGED <<day, dirs, ingests, crashes, straddled, doubled, torn>>

AppendIndex(c) ==
  /\ call[c].at = "append"
  /\ index' = WithLine(Receipt(call[c].message, call[c].day)) /\ open' = FALSE
  /\ stored' = stored \cup {Receipt(call[c].message, call[c].day)}
  /\ Return(c)
  /\ UNCHANGED <<day, dirs, ingests, crashes, straddled, doubled, torn>>

-----------------------------------------------------------------------------
Crash(c) ==
  /\ call[c] # NoCall
  /\ crashes < MaxCrashes
  /\ crashes' = crashes + 1
  /\ Return(c)
  /\ UNCHANGED <<day, disk, ingests, history>>

\* The line is cut somewhere, at the earliest after its first byte and at the latest
\* before its newline, when it still parses.
TearLine(c) ==
  /\ call[c].at = "append"
  /\ crashes < MaxCrashes
  /\ crashes' = crashes + 1 /\ torn' = torn + 1
  /\ \E r \in {Garbage, Receipt(call[c].message, call[c].day)} : index' = WithLine(r)
  /\ open' = TRUE
  /\ Return(c)
  /\ UNCHANGED <<day, dirs, ingests, stored, straddled, doubled>>

NextDay ==
  /\ day < MaxDays
  /\ day' = day + 1
  /\ straddled' = straddled \cup {m \in Messages : Busy(m) # {}}
  /\ UNCHANGED <<disk, call, ingests, crashes, stored, doubled, torn>>

\* What each of the three does once it has begun; only a push has a transaction.
From(c, source) == call[c] # NoCall /\ Source[call[c].message] = source
Mail(c) ==
  /\ From(c, "email")
  /\ CheckNew(c) \/ MakeDir(c) \/ WriteFirst(c) \/ WriteSecond(c) \/ AppendIndex(c)
Push(c) ==
  /\ From(c, "pos")
  /\ \/ CheckNew(c) \/ CheckTxn(c) \/ MakeDir(c) \/ WriteFirst(c) \/ WriteSecond(c)
     \/ AppendIndex(c)
Scan(c) ==
  /\ From(c, "scan")
  /\ CheckNew(c) \/ MakeDir(c) \/ WriteFirst(c) \/ WriteSecond(c) \/ AppendIndex(c)

Next ==
  \/ \E c \in Callers :
       \/ \E m \in Messages : Ingest(c, m)
       \/ Mail(c) \/ Push(c) \/ Scan(c)
       \/ Crash(c) \/ TearLine(c)
  \/ NextDay

Spec == Init /\ [][Next]_vars

-----------------------------------------------------------------------------
(* Properties                                                               *)

Files == {"original", "receipt.json"}
Receipts == [message : Messages, day : Days]

\* Type invariant; a directory that is there holds nothing but its two files, and what was
\* reported stored has both.
TypeOK ==
  /\ day \in Days
  /\ dirs \in [Messages \X Days -> (SUBSET Files) \cup {NoDir}]
  /\ index \in Seq(Receipts \cup {Garbage}) /\ open \in BOOLEAN
  /\ call \in [Callers ->
       [at : {"idle", "check", "txn", "mkdir", "first", "second", "append"},
        message : Messages \cup {"none"}, day : 0..MaxDays]]
  /\ ingests \in 0..MaxIngests /\ crashes \in 0..MaxCrashes /\ torn \in 0..crashes
  /\ stored \subseteq {r \in Receipts : r.day <= day} /\ straddled \subseteq Messages
  /\ doubled \subseteq {Txn[m] : m \in Messages}

Lines(P(_)) == {i \in DOMAIN index : index[i] # Garbage /\ P(index[i].message)}

\* "Ingestion is idempotent ... retries never create dupes" (receipts.py:17-18): however
\* often and however many at a time a message is sent, it is listed once; the directory of
\* the day is what two ingests that both saw an index without it fight for.  Not covered:
\* the date changes between the check of one and its directory (receipts.py ingest, poshook.py ingest).
ListedOnce ==
  \A m \in Messages \ straddled : Cardinality(Lines(LAMBDA n : n = m)) <= 1

\* One transaction is listed once, whatever differs in its pushes; its check has nothing to
\* fight for, so two pushes at the same time are not covered (poshook.py:181-185).
TransactionOnce ==
  \A t \in {Txn[m] : m \in Messages} \ (doubled \cup {NoTxn}) :
     Cardinality(Lines(LAMBDA n : Txn[n] = t)) <= 1

\* "Retries never create dupes", of a message or of a transaction (receipts.py:17-18).
NoDuplicates == ListedOnce /\ TransactionOnce

\* A receipt in the list can be shown, with its original beside it, whatever died and
\* whichever of the two files its source writes first.
ListedIsWhole == \A r \in Listed : dirs[<<r.message, r.day>>] = Files

\* An ingest that returned is in the list, except that a line cut short takes the next one
\* with it: no more of them are missing than lines were torn (receipts.py:262-265).
TornLineCostsOneReceipt == Cardinality(stored \ Listed) <= torn
=============================================================================
