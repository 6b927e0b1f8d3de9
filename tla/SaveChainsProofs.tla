-------------------------- MODULE SaveChainsProofs --------------------------
(***************************************************************************)
(* What the save chains promise, for any number of machines, contents and  *)
(* commits, any clocks and any way pushes overlap: journals stay whole, a  *)
(* sync never goes ahead with a remote that lost something, and journals   *)
(* only grow.  The three follow from one inductive invariant, SInv, which  *)
(* says for each command what it still has to do between reading a journal *)
(* and writing it.                                                         *)
(***************************************************************************)
EXTENDS SaveChains, FiniteSetTheorems, SequenceTheorems, TLAPS

\* What a blob file and a journal may hold, and the commands a machine may be running.
Contents == Blobs \cup {Torn, Absent}
Logs == Seq(Made) \cup {None, Torn}
Runs == [pc : {"idle", "copy", "append", "blobs", "open", "upload", "draft", "rename",
               "install", "pin", "move"},
         kind : {"none", "commit", "push", "fetch", "fix"}, base : Seq(Made), from : Seq(Made),
         todo : SUBSET Blobs, name : Blobs \cup {None}, ids : (SUBSET Made) \cup {None}]

TypeOK ==
  /\ commits \in [1 .. MaxCommits -> [parent : Nat \cup {None}, blob : Blobs] \cup {None}]
  /\ journal \in [Machines -> Seq(Made)]
  /\ remote \in Logs /\ draft \in Logs /\ writers \subseteq Machines
  /\ store \in [Places -> [Blobs -> Contents]]
  /\ pin \in [Machines -> (SUBSET Made) \cup {None}]
  /\ run \in [Machines -> Runs]
  /\ seen \in [Machines -> SUBSET Made]
  /\ spoilt \subseteq Blobs /\ damaged \subseteq Blobs
  /\ contended \in BOOLEAN /\ mixed \in BOOLEAN /\ mishaps \in Nat

Uploading(m) == run[m].pc \in {"blobs", "open", "upload"}
Drafting(m) == run[m].pc \in {"draft", "rename"}
DraftLog == IF draft \in {None, Torn} THEN <<>> ELSE draft

\* The pin, the log read and the list about to be pinned hold all that the machine ever saw.
PinCovers(m) ==
  /\ IF pin[m] = None THEN seen[m] = {} ELSE seen[m] \subseteq pin[m]
  /\ Uploading(m) \/ run[m].pc \in {"draft", "install"} => seen[m] \subseteq Ids(run[m].from)
  /\ run[m].pc \in {"rename", "pin"} => run[m].ids # None /\ seen[m] \subseteq run[m].ids
  /\ run[m].pc = "move" => IF run[m].ids = None THEN seen[m] = {} ELSE seen[m] \subseteq run[m].ids

\* The journal a command read is still the journal: a machine runs one command at a time.
ReadJournal(m) ==
  Uploading(m) \/ run[m].pc \in {"copy", "append", "install"} => run[m].base = journal[m]

\* Unless two pushes overlapped, the one push still has the remote log it read in front.
OnePush ==
  /\ \A m \in Machines : Uploading(m) \/ Drafting(m) => run[m].kind = "push"
  /\ ~contended =>
       /\ \A m, n \in Machines : run[m].kind = "push" /\ run[n].kind = "push" => m = n
       /\ \A m \in Machines :
            /\ Uploading(m) \/ run[m].pc = "draft" => IsPrefix(RemoteLog, run[m].from)
            /\ run[m].pc = "rename" => IsPrefix(RemoteLog, DraftLog)

\* Unless two pushes wrote their drafts at the same time, a draft is what its push wrote.
OneDraft ==
  /\ writers # {} => draft # None
  /\ \A m \in Machines : run[m].kind = "push" => remote # None
  /\ mixed => contended
  /\ ~mixed =>
       /\ Readable
       /\ \A m, n \in Machines : Drafting(m) /\ Drafting(n) => m = n
       /\ \A m \in Machines :
            /\ run[m].pc = "draft" => m \in writers /\ draft = <<>>
            /\ run[m].pc = "rename" => draft \in Seq(Made)

\* Parents come first in every log read or written, unless two were mixed.
Ordered ==
  ~mixed =>
    /\ ParentsFirst(RemoteLog)
    /\ \A m \in Machines :
         /\ ParentsFirst(journal[m]) /\ ParentsFirst(run[m].from)
         /\ run[m].pc = "rename" => ParentsFirst(DraftLog)

\* A blob of the remote's log is there, unless a recorded mishap accounts for it.
Fine(b) == Good(Remote, b) \/ b \in spoilt \cup damaged

\* A machine has the blobs of its journal, of the entry it is about to append and, but for
\* those still to install, of the log it is about to merge; --fix moves none of them away.
Kept(m) ==
  /\ run[m].pc \in {"copy", "append", "open", "upload"} => run[m].name \in Blobs
  /\ \A b \in Blobs : \/ store[m][b] \in {Absent, b}
                      \/ b \in spoilt
                      \/ run[m].pc = "copy" /\ run[m].name = b
  /\ \A b \in BlobsOf(Ids(journal[m])) : Good(m, b) \/ b \in spoilt
  /\ run[m].pc = "append" => Good(m, run[m].name) \/ run[m].name \in spoilt
  /\ run[m].pc = "install" =>
       \A b \in BlobsOf(Ids(run[m].from)) : b \in run[m].todo \/ store[m][b] # Absent
  /\ run[m].pc = "move" => run[m].todo \cap BlobsOf(Ids(journal[m])) = {}

\* A push has uploaded every blob of the log it will write but those it has yet to send.
Uploaded(m) ==
  Uploading(m) =>
    /\ run[m].todo \subseteq BlobsOf(Ids(run[m].base))
    /\ run[m].pc # "blobs" => run[m].name \in BlobsOf(Ids(run[m].base))
    /\ \A b \in BlobsOf(Ids(run[m].from) \cup Ids(run[m].base)) :
         b \in run[m].todo \/ (run[m].pc # "blobs" /\ b = run[m].name) \/ Fine(b)

\* The blobs of the remote's log are there, and those of all that may become it.
FineLog(log) == \A b \in BlobsOf(Ids(log)) : Fine(b)
RemoteFine ==
  /\ FineLog(RemoteLog) /\ FineLog(DraftLog)
  /\ \A m \in Machines : run[m].pc = "draft" => FineLog(run[m].from)

SInv ==
  /\ TypeOK /\ OnePush /\ OneDraft /\ Ordered /\ RemoteFine
  /\ \A m \in Machines : PinCovers(m) /\ ReadJournal(m) /\ Kept(m) /\ Uploaded(m)

-----------------------------------------------------------------------------
\* What the operators on logs return.

\* The ids of a set in increasing order: all of them, and nothing else.
LEMMA InOrderIsSorted ==
  ASSUME NEW S \in SUBSET Nat, IsFiniteSet(S)
  PROVE  /\ InOrder(S) \in Seq(S)
         /\ Ids(InOrder(S)) = S
         /\ \A i, j \in DOMAIN InOrder(S) : i < j => InOrder(S)[i] < InOrder(S)[j]
<1> DEFINE n == Cardinality(S)
           below(x) == {y \in S : y < x}
           rank == [x \in S |-> Cardinality(below(x)) + 1]
<1>0. n \in Nat
  BY FS_CardinalityType
<1>1. \A x \in S : IsFiniteSet(below(x)) /\ Cardinality(below(x)) \in Nat /\ Cardinality(below(x)) < n
  <2> TAKE x \in S
  <2>1. below(x) \in SUBSET S /\ below(x) # S
    BY x \in S
  <2>2. IsFiniteSet(below(x)) /\ Cardinality(below(x)) <= n /\ Cardinality(below(x)) # n
    BY <2>1, FS_Subset
  <2>3. Cardinality(below(x)) \in Nat
    BY <2>2, FS_CardinalityType
  <2> HIDE DEF n, below
  <2> QED
    BY <1>0, <2>2, <2>3
<1>2. \A x, y \in S : x < y => Cardinality(below(x)) < Cardinality(below(y))
  <2> SUFFICES ASSUME NEW x \in S, NEW y \in S, x < y
               PROVE  Cardinality(below(x)) < Cardinality(below(y))
    OBVIOUS
  <2>1. below(x) \in SUBSET below(y)
    <3>1. \A z \in S : z < x => z < y
      OBVIOUS
    <3> QED
      BY <3>1
  <2>2. x \in below(y) /\ x \notin below(x)
    OBVIOUS
  <2>3. Cardinality(below(x)) <= Cardinality(below(y)) /\ Cardinality(below(x)) # Cardinality(below(y))
    BY <1>1, <2>1, <2>2, FS_Subset
  <2> HIDE DEF below
  <2> QED
    BY <1>1, <2>3
<1>3. \A x, y \in S : Cardinality(below(x)) = Cardinality(below(y)) => x = y
  <2> SUFFICES ASSUME NEW x \in S, NEW y \in S, Cardinality(below(x)) = Cardinality(below(y)), x # y
               PROVE  FALSE
    OBVIOUS
  <2>1. x < y \/ y < x
    OBVIOUS
  <2> HIDE DEF below
  <2> QED
    BY <1>1, <1>2, <2>1
<1>4. rank \in Injection(S, 1 .. n)
  <2> HIDE DEF below, n
  <2>1. rank \in [S -> 1 .. n]
    BY <1>0, <1>1
  <2>2. \A x, y \in S : rank[x] = rank[y] => x = y
    BY <1>1, <1>3
  <2> HIDE DEF rank
  <2>3. IsInjective(rank)
    BY <2>1, <2>2 DEF IsInjective
  <2> QED
    BY <2>1, <2>3 DEF Injection
<1>5. rank \in Surjection(S, 1 .. n)
  <2>1. IsFiniteSet(1 .. n) /\ Cardinality(1 .. n) = n
    <3> HIDE DEF n
    <3> QED
      BY <1>0, FS_Interval
  <2> HIDE DEF rank
  <2> QED
    BY <1>4, <2>1, FS_Injection
<1>6. \A i \in 1 .. n : \E x \in S : Cardinality(below(x)) = i - 1
  <2> TAKE i \in 1 .. n
  <2>1. PICK x \in S : rank[x] = i
    BY <1>5 DEF Surjection
  <2> HIDE DEF below, n
  <2> QED
    BY <1>0, <1>1, <2>1
<1> DEFINE seq == InOrder(S)
<1>7. DOMAIN seq = 1 .. n /\ \A i \in 1 .. n : seq[i] \in S /\ Cardinality(below(seq[i])) = i - 1
  BY <1>6 DEF InOrder
<1>8. seq \in Seq(S)
  <2>1. \A i \in 1 .. n : (CHOOSE x \in S : Cardinality(below(x)) = i - 1) \in S
    BY <1>6
  <2>2. seq \in [1 .. n -> S]
    BY <2>1 DEF InOrder
  <2> HIDE DEF seq, below, n
  <2> QED
    BY <1>0, <2>2
<1> HIDE DEF seq, below, n
<1>9. \A x \in S : \E i \in 1 .. n : seq[i] = x
  <2> TAKE x \in S
  <2>1. Cardinality(below(x)) + 1 \in 1 .. n
    BY <1>0, <1>1
  <2>2. Cardinality(below(seq[Cardinality(below(x)) + 1])) = Cardinality(below(x))
    BY <1>1, <1>7, <2>1
  <2> QED
    BY <1>3, <1>7, <2>1, <2>2
<1>10. \A i, j \in 1 .. n : i < j => seq[i] < seq[j]
  <2> SUFFICES ASSUME NEW i \in 1 .. n, NEW j \in 1 .. n, i < j, ~(seq[i] < seq[j])
               PROVE  FALSE
    OBVIOUS
  <2>1. seq[i] \in S /\ seq[j] \in S /\ seq[i] \in Nat /\ seq[j] \in Nat
    BY <1>7
  <2>2. seq[j] < seq[i] \/ seq[j] = seq[i]
    BY <2>1
  <2>3. Cardinality(below(seq[i])) = i - 1 /\ Cardinality(below(seq[j])) = j - 1
    BY <1>7
  <2>4. CASE seq[j] < seq[i]
    <3>1. Cardinality(below(seq[j])) < Cardinality(below(seq[i]))
      BY <1>2, <2>1, <2>4
    <3> QED
      BY <1>0, <2>3, <3>1
  <2> QED
    BY <1>0, <2>2, <2>3, <2>4
<1>11. Ids(seq) = S
  BY <1>7, <1>9 DEF Ids, ToSet
<1> QED
  BY <1>7, <1>8, <1>10, <1>11 DEF seq

\* A prefix is a shorter sequence with the same elements.
LEMMA PrefixElements ==
  ASSUME NEW s \in Seq(Nat), NEW t \in Seq(Nat)
  PROVE  IsPrefix(s, t) <=> Len(s) <= Len(t) /\ \A i \in 1 .. Len(s) : s[i] = t[i]
BY DEF IsPrefix

\* Prefixes compose.
LEMMA PrefixTransitive ==
  ASSUME NEW s \in Seq(Nat), NEW t \in Seq(Nat), NEW u \in Seq(Nat), IsPrefix(s, t), IsPrefix(t, u)
  PROVE  IsPrefix(s, u)
BY PrefixElements

\* An increasing sequence put behind another one.
LEMMA AppendedInOrder ==
  ASSUME NEW M \in SUBSET Nat, NEW base \in Seq(M), NEW s \in Seq(M),
         \A i, j \in DOMAIN s : i < j => s[i] < s[j]
  PROVE  /\ base \o s \in Seq(M)
         /\ Ids(base \o s) = Ids(base) \cup Ids(s)
         /\ IsPrefix(base, base \o s)
         /\ \A i \in DOMAIN (base \o s) : i > Len(base) =>
              /\ (base \o s)[i] \in Ids(s)
              /\ \A x \in Ids(s) : x < (base \o s)[i] =>
                   \E j \in 1 .. i - 1 : (base \o s)[j] = x
<1> DEFINE b == Len(base)
           k == Len(s)
<1>1. b \in Nat /\ k \in Nat /\ DOMAIN s = 1 .. k /\ DOMAIN base = 1 .. b
  OBVIOUS
<1>2. base \o s \in Seq(M) /\ DOMAIN (base \o s) = 1 .. b + k /\ Len(base \o s) = b + k
  OBVIOUS
<1>3. \A i \in 1 .. b : (base \o s)[i] = base[i]
  OBVIOUS
<1>4. \A i \in 1 .. k : (base \o s)[b + i] = s[i]
  OBVIOUS
<1>5. \A i \in 1 .. k : s[i] \in Nat
  <2>1. \A i \in DOMAIN s : s[i] \in M
    OBVIOUS
  <2> QED
    BY <1>1, <2>1
<1>6. Ids(s) = {s[i] : i \in 1 .. k} /\ Ids(base) = {base[i] : i \in 1 .. b}
  BY <1>1 DEF Ids, ToSet
<1>7. Ids(base \o s) = {(base \o s)[i] : i \in 1 .. b + k}
  BY <1>2 DEF Ids, ToSet
<1>8. IsPrefix(base, base \o s)
  BY <1>1, <1>2, <1>3 DEF IsPrefix
<1>9. \A i, j \in 1 .. k : i < j => s[i] < s[j]
  BY <1>1
<1>10. \A i \in 1 .. b + k : i > b => i - b \in 1 .. k /\ (base \o s)[i] = s[i - b]
  <2> TAKE i \in 1 .. b + k
  <2> HAVE i > b
  <2>1. i - b \in 1 .. k /\ b + (i - b) = i
    BY <1>1
  <2> QED
    BY <1>4, <2>1
<1>11. \A i \in 1 .. k : b + i \in 1 .. b + k
  BY <1>1
<1>12. \A i \in 1 .. b : i \in 1 .. b + k
  BY <1>1
<1> DEFINE both == base \o s
<1> HIDE DEF both, b, k
<1>13. Ids(both) \subseteq Ids(base) \cup Ids(s)
  <2> SUFFICES ASSUME NEW i \in 1 .. b + k PROVE both[i] \in Ids(base) \cup Ids(s)
    BY <1>7 DEF both
  <2>1. CASE i > b
    BY <1>6, <1>10, <2>1 DEF both
  <2>2. CASE ~(i > b)
    <3>1. i \in 1 .. b
      BY <1>1, <2>2
    <3> QED
      BY <1>3, <1>6, <3>1 DEF both
  <2> QED
    BY <2>1, <2>2
<1>14. Ids(base) \cup Ids(s) \subseteq Ids(both)
  BY <1>3, <1>4, <1>6, <1>7, <1>11, <1>12 DEF both
<1>15. ASSUME NEW i \in 1 .. b + k, i > b
       PROVE  /\ both[i] \in Ids(s)
              /\ \A x \in Ids(s) : x < both[i] => \E j \in 1 .. i - 1 : both[j] = x
  <2>1. i - b \in 1 .. k /\ both[i] = s[i - b]
    BY <1>10, <1>15 DEF both
  <2>2. ASSUME NEW x \in Ids(s), x < both[i] PROVE \E j \in 1 .. i - 1 : both[j] = x
    <3>1. PICK l \in 1 .. k : s[l] = x
      BY <1>6
    <3>2. ~(i - b < l) /\ l # i - b
      BY <1>5, <1>9, <2>1, <2>2, <3>1
    <3>3. l < i - b
      BY <1>1, <2>1, <3>2
    <3>4. b + l \in 1 .. i - 1
      BY <1>1, <3>3
    <3>5. both[b + l] = x
      BY <1>4, <3>1 DEF both
    <3> QED
      BY <3>4, <3>5
  <2> QED
    BY <1>6, <2>1, <2>2
<1> QED
  BY <1>2, <1>8, <1>13, <1>14, <1>15 DEF both, b, k

\* What merging two logs keeps and adds.
LEMMA MergedLogs ==
  ASSUME NEW M \in SUBSET Nat, IsFiniteSet(M), NEW base \in Seq(M), NEW log \in Seq(M)
  PROVE  /\ Merged(base, log) \in Seq(M)
         /\ Ids(Merged(base, log)) = Ids(base) \cup Ids(log)
         /\ IsPrefix(base, Merged(base, log))
         /\ \A i \in DOMAIN Merged(base, log) : i > Len(base) =>
              /\ Merged(base, log)[i] \in NewTo(base, log)
              /\ \A x \in NewTo(base, log) : x < Merged(base, log)[i] =>
                   \E j \in 1 .. i - 1 : Merged(base, log)[j] = x
<1> DEFINE S == NewTo(base, log)
<1>1. S \in SUBSET M /\ S \in SUBSET Nat
  <2>1. \A i \in DOMAIN log : log[i] \in M
    OBVIOUS
  <2>2. S \subseteq M
    BY <2>1 DEF NewTo, Ids, ToSet
  <2> QED
    BY <2>2
<1>2. IsFiniteSet(S)
  BY <1>1, FS_Subset
<1>3. Ids(base) \cup S = Ids(base) \cup Ids(log)
  BY DEF NewTo
<1> HIDE DEF S
<1>4. PICK s \in Seq(S) : s = InOrder(S) /\ Ids(s) = S /\ \A i, j \in DOMAIN s : i < j => s[i] < s[j]
  BY <1>1, <1>2, InOrderIsSorted
<1>5. s \in Seq(M)
  BY <1>1, SeqMonotonic
<1>6. Merged(base, log) = base \o s
  BY <1>4 DEF Merged, S
<1>7. /\ base \o s \in Seq(M)
      /\ Ids(base \o s) = Ids(base) \cup Ids(s)
      /\ IsPrefix(base, base \o s)
      /\ \A i \in DOMAIN (base \o s) : i > Len(base) =>
           /\ (base \o s)[i] \in Ids(s)
           /\ \A x \in Ids(s) : x < (base \o s)[i] => \E j \in 1 .. i - 1 : (base \o s)[j] = x
  BY <1>4, <1>5, AppendedInOrder
<1>8. Ids(Merged(base, log)) = Ids(base) \cup Ids(log)
  BY <1>3, <1>4, <1>6, <1>7
<1>9. Ids(s) = NewTo(base, log)
  BY <1>4 DEF S
<1> QED
  BY <1>6, <1>7, <1>8, <1>9

\* The commits made are finitely many numbers.
LEMMA MadeIsFinite == Made \in SUBSET Nat /\ Made \subseteq 1 .. MaxCommits /\ IsFiniteSet(Made)
<1>1. Made \in SUBSET (1 .. MaxCommits) /\ MaxCommits \in Nat
  BY SaveChainsAssumption DEF Made
<1>2. IsFiniteSet(1 .. MaxCommits)
  BY <1>1, FS_Interval
<1> HIDE DEF Made
<1>3. IsFiniteSet(Made)
  BY <1>1, <1>2, FS_Subset
<1> QED
  BY <1>1, <1>3

\* So two logs of commits made are merged into one.
LEMMA MergedMade ==
  ASSUME NEW base \in Seq(Made), NEW log \in Seq(Made)
  PROVE  /\ Merged(base, log) \in Seq(Made)
         /\ Ids(Merged(base, log)) = Ids(base) \cup Ids(log)
         /\ IsPrefix(base, Merged(base, log))
         /\ \A i \in DOMAIN Merged(base, log) : i > Len(base) =>
              /\ Merged(base, log)[i] \in NewTo(base, log)
              /\ \A x \in NewTo(base, log) : x < Merged(base, log)[i] =>
                   \E j \in 1 .. i - 1 : Merged(base, log)[j] = x
BY MadeIsFinite, MergedLogs

\* Parents come first in a merged log, as in the two it is made of.
LEMMA MergedParentsFirst ==
  ASSUME TypeOK, NEW base \in Seq(Made), NEW log \in Seq(Made),
         ParentsFirst(base), ParentsFirst(log)
  PROVE  ParentsFirst(Merged(base, log))
<1> DEFINE both == Merged(base, log)
           S == NewTo(base, log)
<1>2. /\ both \in Seq(Made)
      /\ Ids(both) = Ids(base) \cup Ids(log)
      /\ IsPrefix(base, both)
      /\ \A i \in DOMAIN both : i > Len(base) =>
           /\ both[i] \in S
           /\ \A x \in S : x < both[i] => \E j \in 1 .. i - 1 : both[j] = x
  BY MergedMade
<1>3. both \in Seq(Nat) /\ base \in Seq(Nat) /\ log \in Seq(Nat)
  BY <1>2, MadeIsFinite, SeqMonotonic
<1> HIDE DEF both, S
<1>4. Len(base) <= Len(both) /\ \A i \in 1 .. Len(base) : both[i] = base[i]
  BY <1>2, <1>3, PrefixElements DEF IsPrefix
<1> SUFFICES ASSUME NEW i \in DOMAIN both, commits[both[i]].parent # None,
                    commits[both[i]].parent < both[i]
             PROVE  \E j \in 1 .. i - 1 : both[j] = commits[both[i]].parent
  BY DEF ParentsFirst, both
<1>5. i \in 1 .. Len(both) /\ Len(base) \in Nat /\ both[i] \in Nat
  BY <1>2, <1>3
<1> DEFINE parent == commits[both[i]].parent
<1>6. CASE i <= Len(base)
  <2>1. i \in DOMAIN base /\ both[i] = base[i] /\ i \in 1 .. Len(base)
    BY <1>3, <1>4, <1>5, <1>6
  <2>2. PICK j \in 1 .. i - 1 : base[j] = parent
    BY <2>1 DEF ParentsFirst
  <2>3. j \in 1 .. Len(base)
    BY <1>5, <1>6
  <2> QED
    BY <1>4, <2>2, <2>3
<1>7. CASE i > Len(base)
  <2>1. both[i] \in S /\ \A x \in S : x < both[i] => \E j \in 1 .. i - 1 : both[j] = x
    BY <1>2, <1>7
  <2>2. PICK k \in DOMAIN log : log[k] = both[i]
    BY <2>1 DEF S, NewTo, Ids, ToSet
  <2>3. PICK l \in 1 .. k - 1 : log[l] = parent
    BY <2>2 DEF ParentsFirst
  <2>4. l \in DOMAIN log
    BY <1>3
  <2>5. parent \in Ids(log)
    BY <2>3, <2>4 DEF Ids, ToSet
  <2>6. CASE parent \in Ids(base)
    <3>1. PICK j \in DOMAIN base : base[j] = parent
      BY <2>6 DEF Ids, ToSet
    <3>2. j \in 1 .. Len(base) /\ j \in 1 .. i - 1
      BY SMTT(30), <1>3, <1>5, <1>7
    <3> QED
      BY <1>4, <3>1, <3>2
  <2>7. CASE parent \notin Ids(base)
    <3>1. parent \in S
      BY <2>5, <2>7 DEF S, NewTo
    <3> QED
      BY <2>1, <3>1
  <2> QED
    BY <2>6, <2>7
<1> QED
  BY <1>5, <1>6, <1>7

-----------------------------------------------------------------------------
\* What every step leaves alone.

\* Commits are only added, and what is known to have gone wrong stays known.
Grows ==
  /\ Made \subseteq Made' /\ \A id \in Made : commits'[id] = commits[id]
  /\ spoilt \subseteq spoilt' /\ damaged \subseteq damaged' /\ (mixed => mixed')

\* Every step, and every mishap, only adds commits and mishaps known.
LEMMA StepGrows == ASSUME TypeOK, [Next]_vars PROVE Grows
<1>1. spoilt \subseteq spoilt' /\ damaged \subseteq damaged' /\ (mixed => mixed')
  <2> DEFINE Claim == spoilt \subseteq spoilt' /\ damaged \subseteq damaged' /\ (mixed => mixed')
  <2>0. mixed \in BOOLEAN
    BY DEF TypeOK
  <2>1. ASSUME NEW m \in Machines, Step(m) PROVE Claim
    <3>1. CASE UNCHANGED <<spoilt, damaged, mixed>>
      BY <3>1
    <3>2. ASSUME NEW b \in Blobs, CopyFile(m, b) PROVE Claim
      BY <3>2 DEF CopyFile
    <3>3. CASE OpenBlob(m) \/ CopyFails(m)
      BY <3>3 DEF OpenBlob, CopyFails
    <3>4. CASE Crash(m)
      BY <3>4 DEF Crash
    <3>5. CASE OpenDraft(m)
      BY <3>5 DEF OpenDraft
    <3> QED
      BY <2>1, <3>1, <3>2, <3>3, <3>4, <3>5
      DEF Step, history, disk, Commit, AppendEntry, Push, CheckBlob, UploadBlob, WriteDraft,
          WriteRemote, Fetch, InstallBlob, WriteJournal, SetPin, Fix, MoveOrphan, RewriteConfig
  <2>2. CASE RollBack
    BY <2>2 DEF RollBack
  <2>3. ASSUME NEW b \in Blobs, DamageBlob(b) PROVE Claim
    BY <2>3 DEF DamageBlob
  <2>4. CASE UNCHANGED vars
    BY <2>4 DEF vars, history
  <2> QED
    BY <2>1, <2>2, <2>3, <2>4 DEF Next
<1>2. Made \subseteq Made' /\ \A id \in Made : commits'[id] = commits[id]
  <2>1. \/ commits' = commits
        \/ \E id \in (1 .. MaxCommits) \ Made : \E c : commits' = [commits EXCEPT ![id] = c]
    <3>1. ASSUME NEW m \in Machines, Step(m)
          PROVE  \/ commits' = commits
                 \/ \E id \in (1 .. MaxCommits) \ Made : \E c : commits' = [commits EXCEPT ![id] = c]
      <4>1. CASE AppendEntry(m)
        BY <4>1 DEF AppendEntry
      <4>2. CASE Push(m) \/ Fetch(m) \/ Fix(m) \/ OpenBlob(m) \/ UploadBlob(m) \/ CopyFails(m)
        BY <4>2 DEF Push, Fetch, Fix, OpenBlob, UploadBlob, CopyFails, disk
      <4>3. CASE OpenDraft(m) \/ WriteDraft(m) \/ WriteRemote(m)
        BY <4>3 DEF OpenDraft, WriteDraft, WriteRemote
      <4>4. CASE WriteJournal(m) \/ SetPin(m) \/ RewriteConfig(m) \/ Crash(m)
        BY <4>4 DEF WriteJournal, SetPin, RewriteConfig, Crash
      <4>5. ASSUME NEW b \in Blobs,
                   \/ Commit(m, b) \/ CopyFile(m, b) \/ CheckBlob(m, b)
                   \/ InstallBlob(m, b) \/ MoveOrphan(m, b)
            PROVE  commits' = commits
        BY <4>5 DEF Commit, CopyFile, CheckBlob, InstallBlob, MoveOrphan, disk
      <4> QED
        BY <3>1, <4>1, <4>2, <4>3, <4>4, <4>5 DEF Step
    <3>2. CASE RollBack \/ (\E b \in Blobs : DamageBlob(b)) \/ UNCHANGED vars
      BY <3>2 DEF RollBack, DamageBlob, vars, disk
    <3> QED
      BY <3>1, <3>2 DEF Next
  <2>2. CASE commits' = commits
    BY <2>2 DEF Made
  <2>3. ASSUME NEW id \in (1 .. MaxCommits) \ Made, NEW c, commits' = [commits EXCEPT ![id] = c]
        PROVE  Made \subseteq Made' /\ \A x \in Made : commits'[x] = commits[x]
    <3>1. \A x \in Made : x \in 1 .. MaxCommits /\ x # id /\ commits[x] # None
      BY DEF Made
    <3>2. \A x \in Made : commits'[x] = commits[x]
      BY <2>3, <3>1 DEF TypeOK
    <3> QED
      BY <3>1, <3>2 DEF Made
  <2> QED
    BY <2>1, <2>2, <2>3
<1> QED
  BY <1>1, <1>2 DEF Grows

\* So what was a commit, a log or a command still is one.
LEMMA MadeGrows ==
  ASSUME TypeOK, Grows
  PROVE  /\ Made \subseteq Made' /\ SUBSET Made \subseteq SUBSET Made'
         /\ Seq(Made) \subseteq Seq(Made') /\ Runs \subseteq Runs' /\ Logs \subseteq Logs'
<1>1. Made \subseteq Made'
  BY DEF Grows
<1>2. Seq(Made) \subseteq Seq(Made')
  BY <1>1, SeqMonotonic
<1>3. Runs \subseteq Runs'
  BY <1>1, <1>2 DEF Runs
<1> QED
  BY <1>1, <1>2, <1>3 DEF Logs

\* A log that has parents first keeps them first when commits are added.
LEMMA ParentsFirstStable ==
  ASSUME TypeOK, Grows, NEW log \in Seq(Made), ParentsFirst(log)
  PROVE  ParentsFirst(log)'
<1>1. \A i \in DOMAIN log : log[i] \in Made
  OBVIOUS
<1> QED
  BY <1>1 DEF Grows, ParentsFirst

\* The blobs that commits name stay the same.
LEMMA BlobsOfStable ==
  ASSUME TypeOK, Grows, NEW ids \in SUBSET Made
  PROVE  BlobsOf(ids)' = BlobsOf(ids)
BY DEF Grows, BlobsOf, BlobOf

\* A command runs on one machine: the others keep their disks, pins and commands.
Untouched(m) ==
  /\ journal'[m] = journal[m] /\ pin'[m] = pin[m] /\ run'[m] = run[m] /\ seen'[m] = seen[m]
  /\ store'[m] = store[m]

\* A step of one machine leaves every other machine alone.
LEMMA OthersUntouched ==
  ASSUME TypeOK, NEW n \in Machines, Step(n), NEW m \in Machines, m # n
  PROVE  Untouched(m)
<1>1. journal'[m] = journal[m] /\ pin'[m] = pin[m] /\ seen'[m] = seen[m]
  BY DEF TypeOK, Step, disk, history, Commit, CopyFile, CopyFails, AppendEntry, Push, CheckBlob, OpenBlob,
         UploadBlob, OpenDraft, WriteDraft, WriteRemote, Fetch, InstallBlob, WriteJournal, SetPin, Fix, MoveOrphan,
         RewriteConfig, Crash
<1>2. run'[m] = run[m]
  BY DEF TypeOK, Step, disk, history, Commit, CopyFile, CopyFails, AppendEntry, Push, CheckBlob, OpenBlob,
         UploadBlob, OpenDraft, WriteDraft, WriteRemote, Fetch, InstallBlob, WriteJournal, SetPin, Fix, MoveOrphan,
         RewriteConfig, Crash, Start, Continue, End
<1>3. store'[m] = store[m]
  BY SaveChainsAssumption
  DEF TypeOK, Places, Step, disk, history, Commit, CopyFile, CopyFails, AppendEntry, Push, CheckBlob, OpenBlob,
      UploadBlob, OpenDraft, WriteDraft, WriteRemote, Fetch, InstallBlob, WriteJournal, SetPin, Fix, MoveOrphan,
      RewriteConfig, Crash, Put
<1> QED
  BY <1>1, <1>2, <1>3 DEF Untouched

-----------------------------------------------------------------------------
\* Types.

\* The remote log is a log of commits made.
LEMMA RemoteLogType == ASSUME TypeOK PROVE RemoteLog \in Seq(Made) /\ DraftLog \in Seq(Made)
BY EmptySeq DEF TypeOK, Logs, RemoteLog, DraftLog

\* The ids of a log are commits made.
LEMMA IdsOfLog == ASSUME NEW log \in Seq(Made) PROVE Ids(log) \subseteq Made
BY DEF Ids, ToSet

\* Commits name blobs.
LEMMA BlobsAreBlobs == ASSUME TypeOK, NEW ids \in SUBSET Made PROVE BlobsOf(ids) \subseteq Blobs
<1>1. \A id \in Made : commits[id].blob \in Blobs
  BY DEF TypeOK, Made
<1> QED
  BY <1>1 DEF BlobsOf, BlobOf

\* What one log has and another lacks are commits made.
LEMMA NewIds ==
  ASSUME NEW base \in Seq(Made), NEW log \in Seq(Made)
  PROVE  NewTo(base, log) \subseteq Made
BY IdsOfLog DEF NewTo

\* A set of ids is not None.
LEMMA IdsAreSome == ASSUME NEW ids \in SUBSET Made PROVE ids # None
BY SaveChainsAssumption DEF Made

\* A journal can be read.
LEMMA LogsAreSome == ASSUME NEW log \in Seq(Made) PROVE log # None /\ log # Torn
<1>1. log \in Seq(Nat)
  BY MadeIsFinite, SeqMonotonic
<1> QED
  BY <1>1, SaveChainsAssumption

\* What comes of a log that is written over another one: nothing that was in neither.
LEMMA OverlaidLogs ==
  ASSUME NEW old \in Seq(Made) \cup {Torn}, NEW log \in Seq(Made), NEW new \in Overlaid(old, log)
  PROVE  /\ new = Torn \/ (new \in Seq(Made) /\ Ids(new) \subseteq Ids(log) \cup
                                               (IF old = Torn THEN {} ELSE Ids(old)))
         /\ old = <<>> => new = log
<1>1. CASE old = <<>>
  BY <1>1, SaveChainsAssumption DEF Overlaid
<1>2. CASE old = Torn
  <2>1. old # <<>>
    BY <1>2, EmptySeq, LogsAreSome
  <2> QED
    BY <1>2, <2>1 DEF Overlaid
<1>3. CASE old # <<>> /\ old # Torn
  <2>1. old \in Seq(Made)
    BY <1>3
  <2>2. CASE new \in {Torn, log}
    BY <1>3, <2>2
  <2>3. ASSUME NEW k \in DOMAIN old, new = Overlay(old, log, k)
        PROVE  new \in Seq(Made) /\ Ids(new) \subseteq Ids(log) \cup Ids(old)
    <3> DEFINE n == Max({Len(old), Len(log)})
    <3>1. PICK lo \in Nat : lo = Len(old)
      BY <2>1
    <3>2. PICK ll \in Nat : ll = Len(log)
      OBVIOUS
    <3>3. n \in {lo, ll} /\ n >= lo /\ n >= ll
      BY <3>1, <3>2 DEF Max
    <3> HIDE DEF n
    <3>4. /\ DOMAIN old = 1 .. lo /\ DOMAIN log = 1 .. ll
          /\ \A i \in 1 .. lo : old[i] \in Made
          /\ \A i \in 1 .. ll : log[i] \in Made
      BY <2>1, <3>1, <3>2
    <3>5. /\ DOMAIN new = 1 .. n
          /\ \A i \in 1 .. n : new[i] = IF i \in DOMAIN old /\ (i <= k \/ i > Len(log)) THEN old[i] ELSE log[i]
          /\ new = [i \in 1 .. n |-> new[i]]
      BY <2>3 DEF Overlay, n
    <3>6. \A i \in 1 .. n : \/ i \in 1 .. lo /\ new[i] = old[i]
                            \/ i \in 1 .. ll /\ new[i] = log[i]
      BY <3>2, <3>3, <3>4, <3>5
    <3>7. new \in [1 .. n -> Made]
      BY <3>4, <3>5, <3>6
    <3>8. new \in Seq(Made)
      BY <3>3, <3>7
    <3>9. Ids(new) \subseteq Ids(log) \cup Ids(old)
      BY <3>4, <3>5, <3>6 DEF Ids, ToSet
    <3> QED
      BY <3>8, <3>9
  <2> QED
    BY <1>3, <2>2, <2>3 DEF Overlaid
<1> QED
  BY <1>1, <1>2, <1>3

\* The empty log is a log.
LEMMA EmptyLog == <<>> \in Seq(Made)
BY EmptySeq

\* The command on m after a step of m.
LEMMA RunAfter ==
  ASSUME TypeOK, NEW m \in Machines, Step(m)
  PROVE  /\ run'[m] \in Runs
         /\ run' = [run EXCEPT ![m] = run'[m]]
<1> DEFINE r == run[m]
<1>1. r \in Runs
  BY DEF TypeOK
<1>2. Idle \in Runs
  BY EmptySeq DEF Idle, Runs
<1>3. journal[m] \in Seq(Made) /\ RemoteLog \in Seq(Made)
  BY RemoteLogType DEF TypeOK
<1>4. run' = [run EXCEPT ![m] = run'[m]]
  BY DEF TypeOK, Step, disk, history, Commit, CopyFile, CopyFails, AppendEntry, Push, CheckBlob, OpenBlob,
         UploadBlob, OpenDraft, WriteDraft, WriteRemote, Fetch, InstallBlob, WriteJournal, SetPin, Fix, MoveOrphan,
         RewriteConfig, Crash, Start, Continue, End
<1>5. ASSUME NEW b \in Blobs, Commit(m, b) PROVE run'[m] \in Runs
  <2> DEFINE q == [Idle EXCEPT !.pc = "append", !.name = b, !.base = journal[m]]
  <2>1. /\ [[q EXCEPT !.pc = "copy"] EXCEPT !.kind = "commit"] \in Runs
        /\ [q EXCEPT !.kind = "commit"] \in Runs
    BY <1>3, EmptyLog DEF Idle, Runs
  <2>2. \/ run' = [run EXCEPT ![m] = [[q EXCEPT !.pc = "copy"] EXCEPT !.kind = "commit"]]
        \/ run' = [run EXCEPT ![m] = [q EXCEPT !.kind = "commit"]]
    BY <1>5 DEF Commit, Start
  <2> HIDE DEF q
  <2> QED
    BY <2>1, <2>2 DEF TypeOK
<1>6. ASSUME (\E b \in Blobs : CopyFile(m, b)) \/ CopyFails(m) PROVE run'[m] \in Runs
  <2>1. [r EXCEPT !.pc = "append"] \in Runs
    BY <1>1 DEF Runs
  <2> QED
    BY <1>6, <2>1 DEF TypeOK, CopyFile, CopyFails, Continue
<1>7. CASE AppendEntry(m) \/ SetPin(m) \/ RewriteConfig(m) \/ Crash(m)
  BY <1>2, <1>7 DEF TypeOK, AppendEntry, SetPin, RewriteConfig, Crash, Continue, End
<1>8. CASE Push(m)
  <2>1. BlobsOf(NewTo(RemoteLog, journal[m])) \subseteq Blobs
    BY <1>3, NewIds, BlobsAreBlobs
  <2> DEFINE q == [[Idle EXCEPT !.pc = "blobs", !.base = journal[m], !.from = RemoteLog,
                                !.todo = BlobsOf(NewTo(RemoteLog, journal[m]))] EXCEPT !.kind = "push"]
  <2>2. q \in Runs
    <3> DEFINE todo == BlobsOf(NewTo(RemoteLog, journal[m]))
    <3>1. todo \in SUBSET Blobs
      BY <2>1
    <3> HIDE DEF todo
    <3>2. [[Idle EXCEPT !.pc = "blobs", !.base = journal[m], !.from = RemoteLog, !.todo = todo]
             EXCEPT !.kind = "push"] \in Runs
      BY <1>3, <3>1, EmptyLog DEF Idle, Runs
    <3> QED
      BY <3>2 DEF todo
  <2>3. run' = run \/ run' = [run EXCEPT ![m] = q]
    BY <1>8 DEF Push, Start
  <2> HIDE DEF q
  <2> QED
    BY <1>1, <2>2, <2>3 DEF TypeOK
<1>9. ASSUME NEW b \in Blobs, CheckBlob(m, b) PROVE run'[m] \in Runs
  <2> DEFINE todo == r.todo \ {b}
  <2>1. todo \in SUBSET Blobs
    BY <1>1 DEF Runs
  <2>2. \/ run' = [run EXCEPT ![m] = [r EXCEPT !.pc = "open", !.name = b, !.todo = todo]]
        \/ run' = [run EXCEPT ![m] = [r EXCEPT !.todo = todo]]
        \/ run' = [run EXCEPT ![m] = Idle]
    BY <1>9 DEF CheckBlob, Continue, End
  <2> HIDE DEF todo
  <2>3. [r EXCEPT !.pc = "open", !.name = b, !.todo = todo] \in Runs /\ [r EXCEPT !.todo = todo] \in Runs
    BY <1>1, <2>1 DEF Runs
  <2> QED
    BY <1>2, <2>2, <2>3 DEF TypeOK
<1>10. CASE OpenBlob(m) \/ UploadBlob(m)
  <2>1. \/ run' = [run EXCEPT ![m] = [r EXCEPT !.pc = "upload"]]
        \/ run' = [run EXCEPT ![m] = [r EXCEPT !.pc = "blobs", !.name = None]]
    BY <1>10 DEF OpenBlob, UploadBlob, Continue
  <2>2. [r EXCEPT !.pc = "upload"] \in Runs
    BY <1>1 DEF Runs
  <2>3. [r EXCEPT !.pc = "blobs", !.name = None] \in Runs
    BY <1>1 DEF Runs
  <2> QED
    BY <2>1, <2>2, <2>3 DEF TypeOK
<1>11. CASE OpenDraft(m)
  <2> DEFINE log == Merged(r.from, r.base)
  <2>1. log \in Seq(Made)
    BY <1>1, MergedMade DEF Runs
  <2>2. run' = [run EXCEPT ![m] = [Idle EXCEPT !.pc = "draft", !.kind = "push", !.from = log]]
    BY <1>11 DEF OpenDraft, Continue
  <2> HIDE DEF log
  <2>3. [Idle EXCEPT !.pc = "draft", !.kind = "push", !.from = log] \in Runs
    BY <2>1, EmptyLog DEF Idle, Runs
  <2> QED
    BY <2>2, <2>3 DEF TypeOK
<1>15. CASE WriteDraft(m) \/ WriteRemote(m) \/ WriteJournal(m)
  <2>1. Ids(r.from) \subseteq Made /\ r.ids \in (SUBSET Made) \cup {None}
    BY <1>1, IdsOfLog DEF Runs
  <2>2. PICK ids \in (SUBSET Made) \cup {None} :
          \/ run' = [run EXCEPT ![m] = [Idle EXCEPT !.pc = "rename", !.kind = "push", !.ids = ids]]
          \/ run' = [run EXCEPT ![m] = [Idle EXCEPT !.pc = "pin", !.kind = "push", !.ids = ids]]
          \/ run' = [run EXCEPT ![m] = [Idle EXCEPT !.pc = "pin", !.kind = r.kind, !.ids = ids]]
          \/ run' = [run EXCEPT ![m] = Idle]
    BY <1>15, <2>1 DEF WriteDraft, WriteRemote, WriteJournal, Continue, End
  <2>3. /\ [Idle EXCEPT !.pc = "rename", !.kind = "push", !.ids = ids] \in Runs
        /\ [Idle EXCEPT !.pc = "pin", !.kind = "push", !.ids = ids] \in Runs
        /\ [Idle EXCEPT !.pc = "pin", !.kind = r.kind, !.ids = ids] \in Runs
    BY <1>1, EmptyLog DEF Idle, Runs
  <2> QED
    BY <1>2, <2>2, <2>3 DEF TypeOK
<1>12. CASE Fetch(m)
  <2>1. Missing(m) \subseteq Blobs
    BY <1>3, IdsOfLog, BlobsAreBlobs DEF Missing
  <2>2. remote \in Seq(Made)
    BY <1>12 DEF TypeOK, Logs, Fetch, Readable
  <2> QED
    BY <1>3, <1>12, <2>1, <2>2 DEF TypeOK, Fetch, Start, Idle, Runs
<1>13. ASSUME NEW b \in Blobs, InstallBlob(m, b) \/ MoveOrphan(m, b) PROVE run'[m] \in Runs
  <2> DEFINE todo == r.todo \ {b}
  <2>1. todo \in SUBSET Blobs
    BY <1>1 DEF Runs
  <2>2. run' = [run EXCEPT ![m] = [r EXCEPT !.todo = todo]]
    BY <1>13 DEF InstallBlob, MoveOrphan, Continue
  <2> HIDE DEF todo
  <2>3. [r EXCEPT !.todo = todo] \in Runs
    BY <1>1, <2>1 DEF Runs
  <2> QED
    BY <2>2, <2>3 DEF TypeOK
<1>14. CASE Fix(m)
  <2>1. Orphans(m) \subseteq Blobs
    BY DEF Orphans
  <2>2. pin[m] \in (SUBSET Made) \cup {None}
    BY DEF TypeOK
  <2> QED
    BY <1>2, <1>14, <2>1, <2>2 DEF TypeOK, Fix, Start, Idle, Runs
<1> QED
  BY <1>4, <1>5, <1>6, <1>7, <1>8, <1>9, <1>10, <1>11, <1>12, <1>13, <1>14, <1>15 DEF Step

\* The initial state is typed.
LEMMA InitIsTyped == Init => TypeOK
<1> SUFFICES ASSUME Init PROVE TypeOK
  OBVIOUS
<1>1. Idle \in Runs
  BY EmptySeq DEF Idle, Runs
<1>2. /\ commits \in [1 .. MaxCommits -> [parent : Nat \cup {None}, blob : Blobs] \cup {None}]
      /\ remote \in Logs /\ draft \in Logs
  BY DEF Init, Logs
<1>3. journal \in [Machines -> Seq(Made)]
  BY EmptySeq DEF Init
<1> QED
  BY <1>1, <1>2, <1>3 DEF Init, TypeOK, Contents, Places

\* The newest entry of a log is a commit made.
LEMMA HeadType ==
  ASSUME NEW log \in Seq(Made)
  PROVE  HeadOf(log) \in Nat \cup {None} /\ (log # <<>> => HeadOf(log) \in Made /\ HeadOf(log) = log[Len(log)])
<1>1. CASE log = <<>>
  BY <1>1 DEF HeadOf
<1>2. CASE log # <<>>
  <2>1. Len(log) \in DOMAIN log
    BY <1>2, EmptySeq
  <2>2. log[Len(log)] \in Made
    BY <2>1
  <2> QED
    BY <1>2, <2>2, MadeIsFinite DEF HeadOf, Last
<1> QED
  BY <1>1, <1>2

\* The entry a commit appends is new.
LEMMA AppendedEntry ==
  ASSUME TypeOK, NEW m \in Machines, AppendEntry(m), ReadJournal(m), Kept(m), journal' # journal
  PROVE  \E id \in (1 .. MaxCommits) \ Made :
           /\ commits' = [commits EXCEPT ![id] = [parent |-> HeadOf(journal[m]), blob |-> run[m].name]]
           /\ commits'[id] = [parent |-> HeadOf(journal[m]), blob |-> run[m].name]
           /\ id \in Made' /\ journal'[m] = Append(journal[m], id)
           /\ run[m].pc = "append"
<1> DEFINE made == [parent |-> HeadOf(journal[m]), blob |-> run[m].name]
<1>1. run[m].pc = "append" /\ run[m].base = journal[m] /\ run[m].name \in Blobs
  BY DEF AppendEntry, ReadJournal, Kept
<1>2. PICK id \in (1 .. MaxCommits) \ Made :
        /\ commits' = [commits EXCEPT ![id] = made]
        /\ journal' = [journal EXCEPT ![m] = Append(@, id)]
  BY <1>1 DEF AppendEntry
<1>3. made # None
  <2>1. made \in [parent : Nat \cup {None}, blob : Blobs]
    BY <1>1, HeadType DEF TypeOK
  <2> QED
    BY <2>1, SaveChainsAssumption
<1> HIDE DEF made
<1>4. commits'[id] = made
  BY <1>2 DEF TypeOK
<1>5. id \in Made'
  BY <1>2, <1>3, <1>4 DEF Made
<1>6. journal'[m] = Append(journal[m], id)
  BY <1>2 DEF TypeOK
<1> QED
  BY <1>1, <1>2, <1>4, <1>5, <1>6 DEF made

\* It is one of the commits made then.
LEMMA AppendedId ==
  ASSUME TypeOK, NEW m \in Machines, AppendEntry(m), Kept(m), journal' # journal
  PROVE  \E id : journal' = [journal EXCEPT ![m] = Append(@, id)] /\ id \in Made'
<1> DEFINE made == [parent |-> HeadOf(run[m].base), blob |-> run[m].name]
<1>1. PICK id \in 1 .. MaxCommits :
        commits' = [commits EXCEPT ![id] = made] /\ journal' = [journal EXCEPT ![m] = Append(@, id)]
  BY DEF AppendEntry
<1>2. made \in [parent : Nat \cup {None}, blob : Blobs]
  <2>1. run[m].name \in Blobs
    BY DEF AppendEntry, Kept
  <2>2. run[m] \in Runs
    BY DEF TypeOK
  <2>3. HeadOf(run[m].base) \in Nat \cup {None}
    BY <2>2, HeadType DEF Runs
  <2> QED
    BY <2>1, <2>3
<1>3. made # None
  BY <1>2, SaveChainsAssumption
<1> HIDE DEF made
<1>4. id \in Made'
  BY <1>1, <1>3 DEF TypeOK, Made
<1> QED
  BY <1>1, <1>4

\* Every step of a command keeps the types.
LEMMA StepTypes ==
  ASSUME TypeOK, OnePush, OneDraft, NEW m \in Machines, Step(m), Kept(m), PinCovers(m)
  PROVE  TypeOK'
<1>1. Grows
  BY StepGrows DEF Next
<1>2. /\ Made \subseteq Made' /\ SUBSET Made \subseteq SUBSET Made'
      /\ Seq(Made) \subseteq Seq(Made') /\ Runs \subseteq Runs' /\ Logs \subseteq Logs'
  BY <1>1, MadeGrows
<1>3. /\ run[m] \in Runs /\ journal[m] \in Seq(Made) /\ RemoteLog \in Seq(Made)
      /\ pin[m] \in (SUBSET Made) \cup {None}
  BY RemoteLogType DEF TypeOK
<1>4. /\ run[m].base \in Seq(Made) /\ run[m].from \in Seq(Made)
      /\ run[m].name \in Blobs \cup {None} /\ run[m].ids \in (SUBSET Made) \cup {None}
  BY <1>3 DEF Runs
<1>5. run' \in [Machines -> Runs']
  BY <1>2, RunAfter DEF TypeOK
<1>6. commits' \in [1 .. MaxCommits -> [parent : Nat \cup {None}, blob : Blobs] \cup {None}]
  <2> DEFINE Commits == [parent : Nat \cup {None}, blob : Blobs]
             made == [parent |-> HeadOf(run[m].base), blob |-> run[m].name]
  <2>1. CASE UNCHANGED commits
    BY <2>1 DEF TypeOK
  <2>2. CASE AppendEntry(m) /\ commits' # commits
    <3>1. PICK id \in 1 .. MaxCommits : commits' = [commits EXCEPT ![id] = made] /\ run[m].pc = "append"
      BY <2>2 DEF AppendEntry
    <3>2. run[m].name \in Blobs
      BY <3>1 DEF Kept
    <3>3. HeadOf(run[m].base) \in Nat \cup {None}
      BY <1>4, HeadType
    <3>4. made \in Commits
      BY <3>2, <3>3
    <3> HIDE DEF made, Commits
    <3>5. commits \in [1 .. MaxCommits -> Commits \cup {None}]
      BY DEF TypeOK, Commits
    <3>6. commits' \in [1 .. MaxCommits -> Commits \cup {None}]
      BY <3>1, <3>4, <3>5
    <3> QED
      BY <3>6 DEF Commits
  <2> QED
    BY <2>1, <2>2
    DEF Step, disk, drafts, history, Commit, CopyFile, CopyFails, AppendEntry, Push, CheckBlob,
        OpenBlob, UploadBlob, OpenDraft, WriteDraft, WriteRemote, Fetch, InstallBlob, WriteJournal,
        SetPin, Fix, MoveOrphan, RewriteConfig, Crash
<1>7. journal' \in [Machines -> Seq(Made)']
  <2>1. CASE UNCHANGED journal
    BY <1>2, <2>1 DEF TypeOK
  <2>2. CASE WriteJournal(m)
    <3>1. Merged(run[m].base, run[m].from) \in Seq(Made)
      BY <1>4, MergedMade
    <3> QED
      BY <1>2, <2>2, <3>1 DEF TypeOK, WriteJournal
  <2>3. CASE AppendEntry(m) /\ journal' # journal
    <3>1. PICK id : journal' = [journal EXCEPT ![m] = Append(@, id)] /\ id \in Made'
      BY <2>3, AppendedId
    <3>2. Append(journal[m], id) \in Seq(Made')
      BY <1>2, <1>3, <3>1
    <3> QED
      BY <1>2, <3>1, <3>2 DEF TypeOK
  <2> QED
    BY <2>1, <2>2, <2>3
    DEF Step, disk, drafts, history, Commit, CopyFile, CopyFails, AppendEntry, Push, CheckBlob,
        OpenBlob, UploadBlob, OpenDraft, WriteDraft, WriteRemote, Fetch, InstallBlob, WriteJournal,
        SetPin, Fix, MoveOrphan, RewriteConfig, Crash
<1>8. remote' \in Logs' /\ draft' \in Logs' /\ writers' \subseteq Machines
  <2>1. Seq(Made) \subseteq Logs /\ <<>> \in Logs /\ None \in Logs /\ Torn \in Logs
    BY EmptyLog DEF Logs
  <2>2. /\ remote \in Logs' /\ draft \in Logs' /\ writers \subseteq Machines
        /\ RemoteLog \in Logs' /\ <<>> \in Logs' /\ None \in Logs'
    BY <1>2, <1>3, <2>1 DEF TypeOK
  <2>3. CASE UNCHANGED <<remote, draft, writers>>
    BY <2>2, <2>3
  <2>4. CASE Push(m) \/ OpenDraft(m) \/ WriteRemote(m) \/ Crash(m)
    BY <2>2, <2>4 DEF Push, OpenDraft, WriteRemote, Crash, drafts
  <2>5. CASE WriteDraft(m)
    <3>1. \A old \in Logs \ {None} : Overlaid(old, run[m].from) \subseteq Logs
      BY <1>4, OverlaidLogs DEF Logs
    <3>2. run[m].pc = "draft" /\ writers' = writers \ {m}
      BY <2>5 DEF WriteDraft
    <3>3. CASE m \in writers
      <4>1. draft \in Logs \ {None}
        BY <3>3 DEF TypeOK, OneDraft
      <4>2. draft' \in Overlaid(draft, run[m].from) /\ remote' = remote
        BY <2>5, <3>3 DEF WriteDraft
      <4>3. draft' \in Logs
        BY <3>1, <4>1, <4>2
      <4> QED
        BY <1>2, <2>2, <3>2, <4>2, <4>3
    <3>4. CASE m \notin writers
      <4>1. remote' \in {remote} \cup Overlaid(remote, run[m].from) /\ draft' = draft
        BY <2>5, <3>4 DEF WriteDraft
      <4>2. remote \in Logs \ {None}
        BY <3>2 DEF TypeOK, OneDraft, OnePush, Drafting
      <4>3. remote' \in Logs
        BY <3>1, <4>1, <4>2
      <4> QED
        BY <1>2, <2>2, <3>2, <4>1, <4>3
    <3> QED
      BY <3>3, <3>4
  <2> QED
    BY <2>3, <2>4, <2>5
    DEF Step, disk, drafts, history, Commit, CopyFile, CopyFails, AppendEntry, Push, CheckBlob,
        OpenBlob, UploadBlob, OpenDraft, WriteDraft, WriteRemote, Fetch, InstallBlob, WriteJournal,
        SetPin, Fix, MoveOrphan, RewriteConfig, Crash
<1>9. store' \in [Places -> [Blobs -> Contents]]
  <2>1. m \in Places /\ Remote \in Places
    BY DEF Places
  <2>2. \A place \in Places, b \in Blobs, c \in Contents :
          Put(place, b, c) => store' \in [Places -> [Blobs -> Contents]]
    BY DEF TypeOK, Put
  <2>3. \A b \in Blobs : b \in Contents /\ Torn \in Contents /\ Absent \in Contents
    BY DEF Contents
  <2>4. CASE UNCHANGED store
    BY <2>4 DEF TypeOK
  <2>5. ASSUME NEW b \in Blobs, Commit(m, b) \/ InstallBlob(m, b) \/ MoveOrphan(m, b),
               store' # store
        PROVE  store' \in [Places -> [Blobs -> Contents]]
    BY <2>1, <2>2, <2>3, <2>5 DEF Commit, InstallBlob, MoveOrphan
  <2>6. ASSUME (\E b \in Blobs : CopyFile(m, b)) \/ CopyFails(m)
        PROVE  store' \in [Places -> [Blobs -> Contents]]
    <3>1. run[m].name \in Blobs
      BY <2>6 DEF Kept, CopyFile, CopyFails
    <3>2. \E c \in Contents : Put(m, run[m].name, c)
      BY <2>6 DEF CopyFile, CopyFails, Contents
    <3> QED
      BY <2>1, <2>2, <3>1, <3>2
  <2>7. CASE OpenBlob(m)
    <3>1. run[m].name \in Blobs
      BY <2>7 DEF Kept, OpenBlob
    <3> QED
      BY <2>1, <2>2, <2>3, <2>7, <3>1 DEF OpenBlob
  <2>8. CASE UploadBlob(m)
    <3>1. run[m].name \in Blobs
      BY <2>8 DEF Kept, UploadBlob
    <3>2. store[m][run[m].name] \in Contents
      BY <2>1, <3>1 DEF TypeOK
    <3> QED
      BY <2>1, <2>2, <2>8, <3>1, <3>2 DEF UploadBlob
  <2> QED
    BY <2>4, <2>5, <2>6, <2>7, <2>8
    DEF Step, disk, drafts, history, Commit, CopyFile, CopyFails, AppendEntry, Push, CheckBlob,
        OpenBlob, UploadBlob, OpenDraft, WriteDraft, WriteRemote, Fetch, InstallBlob, WriteJournal,
        SetPin, Fix, MoveOrphan, RewriteConfig, Crash
<1>10. pin' \in [Machines -> (SUBSET Made)' \cup {None}]
  <2>1. CASE UNCHANGED pin
    BY <1>2, <2>1 DEF TypeOK
  <2>2. CASE SetPin(m) \/ RewriteConfig(m)
    BY <1>2, <1>4, <2>2 DEF TypeOK, SetPin, RewriteConfig
  <2> QED
    BY <2>1, <2>2
    DEF Step, disk, drafts, history, Commit, CopyFile, CopyFails, AppendEntry, Push, CheckBlob,
        OpenBlob, UploadBlob, OpenDraft, WriteDraft, WriteRemote, Fetch, InstallBlob, WriteJournal,
        SetPin, Fix, MoveOrphan, RewriteConfig, Crash
<1>11. seen' \in [Machines -> (SUBSET Made)']
  <2>1. CASE UNCHANGED seen
    BY <1>2, <2>1 DEF TypeOK
  <2>2. CASE SetPin(m)
    <3>1. run[m].ids \in SUBSET Made
      BY <1>4, <2>2 DEF SetPin, PinCovers
    <3>2. seen[m] \cup run[m].ids \in (SUBSET Made)'
      BY <1>2, <3>1 DEF TypeOK
    <3> QED
      BY <1>2, <2>2, <3>2 DEF TypeOK, SetPin
  <2> QED
    BY <2>1, <2>2
    DEF Step, disk, drafts, history, Commit, CopyFile, CopyFails, AppendEntry, Push, CheckBlob,
        OpenBlob, UploadBlob, OpenDraft, WriteDraft, WriteRemote, Fetch, InstallBlob, WriteJournal,
        SetPin, Fix, MoveOrphan, RewriteConfig, Crash
<1>12. spoilt' \subseteq Blobs /\ damaged' \subseteq Blobs
  <2>1. CASE UNCHANGED <<spoilt, damaged>>
    BY <2>1 DEF TypeOK
  <2>2. ASSUME NEW b \in Blobs, CopyFile(m, b) PROVE spoilt' \subseteq Blobs /\ damaged' = damaged
    BY <2>2 DEF TypeOK, CopyFile, Kept
  <2>3. CASE OpenBlob(m)
    BY <2>3 DEF TypeOK, OpenBlob, Kept
  <2>4. CASE Crash(m) \/ CopyFails(m)
    BY <2>4 DEF TypeOK, Crash, CopyFails, Kept
  <2> QED
    BY <2>1, <2>2, <2>3, <2>4
    DEF TypeOK, Step, disk, history, Commit, CopyFile, CopyFails, AppendEntry, Push, CheckBlob, OpenBlob,
         UploadBlob, OpenDraft, WriteDraft, WriteRemote, Fetch, InstallBlob, WriteJournal, SetPin, Fix, MoveOrphan,
         RewriteConfig, Crash
<1>13. contended' \in BOOLEAN /\ mixed' \in BOOLEAN /\ mishaps' \in Nat
  <2>1. CASE UNCHANGED <<contended, mixed, mishaps>>
    BY <2>1 DEF TypeOK
  <2>2. CASE Push(m) \/ OpenDraft(m)
    BY <2>2 DEF TypeOK, Push, OpenDraft
  <2>3. CASE Crash(m) \/ CopyFails(m)
    BY <2>3 DEF TypeOK, Crash, CopyFails
  <2> QED
    BY <2>1, <2>2, <2>3
    DEF Step, disk, drafts, history, Commit, CopyFile, CopyFails, AppendEntry, Push, CheckBlob,
        OpenBlob, UploadBlob, OpenDraft, WriteDraft, WriteRemote, Fetch, InstallBlob, WriteJournal,
        SetPin, Fix, MoveOrphan, RewriteConfig, Crash
<1> QED
  BY <1>5, <1>6, <1>7, <1>8, <1>9, <1>10, <1>11, <1>12, <1>13 DEF TypeOK

\* Every mishap keeps them too, and touches no machine.
LEMMA MishapTypes ==
  ASSUME TypeOK, RollBack \/ (\E b \in Blobs : DamageBlob(b)) \/ UNCHANGED vars
  PROVE  /\ TypeOK' /\ commits' = commits
         /\ \A m \in Machines : Untouched(m)
<1>1. CASE UNCHANGED vars
  BY <1>1 DEF vars, disk, drafts, history, TypeOK, Untouched, Runs, Made, Logs
<1>2. CASE RollBack
  <2>1. PICK n \in 0 .. Len(remote) - 1 : remote' = SubSeq(remote, 1, n)
    BY <1>2 DEF RollBack
  <2>2. remote \in Seq(Made)
    BY <1>2 DEF RollBack, TypeOK, Logs, Readable
  <2>3. remote' \in Seq(Made)
    BY <2>1, <2>2
  <2>4. commits' = commits /\ \A m \in Machines : Untouched(m)
    BY <1>2 DEF RollBack, Untouched
  <2>5. Made' = Made /\ Runs' = Runs /\ Logs' = Logs
    BY <2>4 DEF Made, Runs, Logs
  <2>6. mishaps' \in Nat
    BY <1>2 DEF RollBack, TypeOK
  <2>7. remote' \in Logs
    BY <2>3 DEF Logs
  <2> QED
    BY <1>2, <2>4, <2>5, <2>6, <2>7 DEF RollBack, TypeOK, drafts
<1>3. ASSUME NEW b \in Blobs, DamageBlob(b)
      PROVE  /\ TypeOK' /\ commits' = commits
             /\ \A m \in Machines : Untouched(m)
  <2>1. store' = [store EXCEPT ![Remote][b] = Torn]
    BY <1>3 DEF DamageBlob, Put
  <2>2. store' \in [Places -> [Blobs -> Contents]]
    BY <2>1 DEF TypeOK, Contents, Places
  <2>3. \A m \in Machines : store'[m] = store[m]
    BY <2>1, SaveChainsAssumption DEF TypeOK, Places
  <2>4. damaged' \subseteq Blobs
    BY <1>3 DEF DamageBlob, TypeOK
  <2>5. mishaps' \in Nat
    BY <1>3 DEF DamageBlob, TypeOK
  <2> QED
    BY <1>3, <2>2, <2>3, <2>4, <2>5 DEF DamageBlob, TypeOK, Untouched, Runs, Made, Logs, drafts
<1> QED
  BY <1>1, <1>2, <1>3

-----------------------------------------------------------------------------
\* What each step does to the command on its machine.

\* A step inside a command keeps its kind and the journals it has read.
SameCommand(q, r) == q.kind = r.kind /\ q.base = r.base /\ q.from = r.from

\* New-SaveCommit starts with the journal it read.
LEMMA CommitRun ==
  ASSUME TypeOK, NEW m \in Machines, NEW b \in Blobs, Commit(m, b)
  PROVE  /\ run[m] = Idle
         /\ run'[m].pc = IF store[m][b] = Absent THEN "copy" ELSE "append"
         /\ run'[m].kind = "commit" /\ run'[m].name = b /\ run'[m].base = journal[m]
         /\ run'[m].from = <<>>
<1>1. run \in [Machines -> Runs]
  BY DEF TypeOK
<1> QED
  BY ZenonT(60), <1>1 DEF Commit, Start, Idle

\* After the copy comes the append.
LEMMA CopyFileRun ==
  ASSUME TypeOK, NEW m \in Machines, (\E b \in Blobs : CopyFile(m, b)) \/ CopyFails(m)
  PROVE  SameCommand(run'[m], run[m]) /\ run'[m].pc = "append" /\ run'[m].name = run[m].name
<1>1. run \in [Machines -> Runs]
  BY DEF TypeOK
<1>0. run[m] \in Runs
  BY <1>1
<1>2. run'[m] = [run[m] EXCEPT !.pc = "append"]
  BY <1>1 DEF CopyFile, CopyFails, Continue
<1> QED
  BY <1>0, <1>2 DEF Runs, SameCommand

\* The last step of a command, or a crash, leaves the machine idle.
LEMMA EndRun ==
  ASSUME TypeOK, NEW m \in Machines,
         AppendEntry(m) \/ SetPin(m) \/ RewriteConfig(m) \/ Crash(m)
  PROVE  run'[m] = Idle
<1>1. run \in [Machines -> Runs]
  BY DEF TypeOK
<1> QED
  BY <1>1 DEF AppendEntry, SetPin, RewriteConfig, Crash, Continue, End

\* A push starts with the two logs it read and the blobs it may have to send.
LEMMA PushRun ==
  ASSUME TypeOK, NEW m \in Machines, Push(m), run' # run
  PROVE  /\ run'[m].pc = "blobs" /\ run'[m].kind = "push"
         /\ run'[m].base = journal[m] /\ run'[m].from = RemoteLog
         /\ run'[m].todo = BlobsOf(NewTo(RemoteLog, journal[m]))
         /\ contended' = (contended \/ \E n \in Machines : run[n].kind = "push")
<1>1. run \in [Machines -> Runs]
  BY DEF TypeOK
<1> QED
  BY ZenonT(60), <1>1 DEF Push, Start, Idle

\* Looking at a blob either skips it or goes on to open it.
LEMMA CheckBlobRun ==
  ASSUME TypeOK, NEW m \in Machines, NEW b \in Blobs, CheckBlob(m, b), run'[m] # Idle
  PROVE  /\ SameCommand(run'[m], run[m])
         /\ run[m].pc = "blobs" /\ b \in run[m].todo
         /\ run'[m].todo = run[m].todo \ {b} /\ run'[m].ids = run[m].ids
         /\ \/ run'[m].pc = "blobs" /\ Good(Remote, b)
            \/ run'[m].pc = "open" /\ run'[m].name = b
<1> DEFINE todo == run[m].todo \ {b}
<1>1. run \in [Machines -> Runs]
  BY DEF TypeOK
<1>0. run[m] \in Runs
  BY <1>1
<1>2. \/ run'[m] = [run[m] EXCEPT !.pc = "open", !.name = b, !.todo = todo]
      \/ run'[m] = [run[m] EXCEPT !.todo = todo] /\ Good(Remote, b)
  BY <1>1 DEF CheckBlob, Continue, End
<1> HIDE DEF todo
<1>3. CASE run'[m] = [run[m] EXCEPT !.pc = "open", !.name = b, !.todo = todo]
  <2>1. /\ SameCommand(run'[m], run[m]) /\ run'[m].pc = "open" /\ run'[m].name = b
        /\ run'[m].todo = todo /\ run'[m].ids = run[m].ids
    BY <1>0, <1>3 DEF Runs, SameCommand
  <2> QED
    BY <2>1 DEF CheckBlob, todo
<1>4. CASE run'[m] = [run[m] EXCEPT !.todo = todo] /\ Good(Remote, b)
  <2>1. /\ SameCommand(run'[m], run[m]) /\ run'[m].pc = run[m].pc
        /\ run'[m].todo = todo /\ run'[m].ids = run[m].ids
    BY <1>0, <1>4 DEF Runs, SameCommand
  <2> QED
    BY <1>4, <2>1 DEF CheckBlob, todo
<1> QED
  BY <1>2, <1>3, <1>4

\* Opening a blob at the remote leads to its upload.
LEMMA OpenBlobRun ==
  ASSUME TypeOK, NEW m \in Machines, OpenBlob(m)
  PROVE  /\ SameCommand(run'[m], run[m]) /\ run[m].pc = "open" /\ run'[m].pc = "upload"
         /\ run'[m].name = run[m].name /\ run'[m].todo = run[m].todo /\ run'[m].ids = run[m].ids
<1>1. run \in [Machines -> Runs]
  BY DEF TypeOK
<1>0. run[m] \in Runs
  BY <1>1
<1>2. run'[m] = [run[m] EXCEPT !.pc = "upload"] /\ run[m].pc = "open"
  BY <1>1 DEF OpenBlob, Continue
<1> QED
  BY <1>0, <1>2 DEF Runs, SameCommand

\* An upload leads back to the blobs left to send.
LEMMA UploadBlobRun ==
  ASSUME TypeOK, NEW m \in Machines, UploadBlob(m)
  PROVE  /\ SameCommand(run'[m], run[m]) /\ run[m].pc = "upload" /\ run'[m].pc = "blobs"
         /\ run'[m].todo = run[m].todo /\ run'[m].ids = run[m].ids
<1>1. run \in [Machines -> Runs]
  BY DEF TypeOK
<1>0. run[m] \in Runs
  BY <1>1
<1>2. run'[m] = [run[m] EXCEPT !.pc = "blobs", !.name = None] /\ run[m].pc = "upload"
  BY <1>1 DEF UploadBlob, Continue
<1> QED
  BY <1>0, <1>2 DEF Runs, SameCommand

\* The draft is opened for the two logs merged.
LEMMA OpenDraftRun ==
  ASSUME TypeOK, NEW m \in Machines, OpenDraft(m)
  PROVE  /\ run'[m].pc = "draft" /\ run'[m].kind = "push" /\ run'[m].from = Merged(run[m].from, run[m].base)
         /\ Merged(run[m].from, run[m].base) \in Seq(Made)
         /\ Ids(Merged(run[m].from, run[m].base)) = Ids(run[m].from) \cup Ids(run[m].base)
         /\ IsPrefix(run[m].from, Merged(run[m].from, run[m].base))
<1> DEFINE log == Merged(run[m].from, run[m].base)
<1>1. run \in [Machines -> Runs]
  BY DEF TypeOK
<1>2. run[m].from \in Seq(Made) /\ run[m].base \in Seq(Made)
  BY <1>1 DEF Runs
<1>3. log \in Seq(Made) /\ Ids(log) = Ids(run[m].from) \cup Ids(run[m].base) /\ IsPrefix(run[m].from, log)
  BY <1>2, MergedMade
<1>4. run'[m] = [Idle EXCEPT !.pc = "draft", !.kind = "push", !.from = log]
  BY <1>1 DEF OpenDraft, Continue
<1> HIDE DEF log
<1>5. run'[m].pc = "draft" /\ run'[m].kind = "push" /\ run'[m].from = log
  BY <1>4 DEF Idle
<1> QED
  BY <1>3, <1>5 DEF log

\* The write of the draft leads to the rename.
LEMMA WriteDraftRun ==
  ASSUME TypeOK, NEW m \in Machines, WriteDraft(m)
  PROVE  /\ run[m].pc = "draft" /\ run'[m].pc = "rename" /\ run'[m].kind = "push"
         /\ run'[m].from = <<>> /\ run'[m].ids = Ids(run[m].from) /\ run'[m].ids # None
         /\ run[m].from \in Seq(Made)
<1>1. run \in [Machines -> Runs]
  BY DEF TypeOK
<1>2. run[m].from \in Seq(Made)
  BY <1>1 DEF Runs
<1>3. Ids(run[m].from) # None
  BY <1>2, IdsOfLog, IdsAreSome
<1>4. run'[m] = [Idle EXCEPT !.pc = "rename", !.kind = "push", !.ids = Ids(run[m].from)]
  BY <1>1 DEF WriteDraft, Continue
<1> QED
  BY <1>2, <1>3, <1>4 DEF WriteDraft, Idle

\* The rename leads to the pin, or ends the push.
LEMMA WriteRemoteRun ==
  ASSUME TypeOK, NEW m \in Machines, WriteRemote(m)
  PROVE  /\ run[m].pc = "rename"
         /\ \/ run'[m] = Idle
            \/ run'[m].pc = "pin" /\ run'[m].kind = "push" /\ run'[m].from = <<>> /\ run'[m].ids = run[m].ids
<1>1. run \in [Machines -> Runs]
  BY DEF TypeOK
<1>2. run'[m] = Idle \/ run'[m] = [Idle EXCEPT !.pc = "pin", !.kind = "push", !.ids = run[m].ids]
  BY <1>1 DEF WriteRemote, Continue, End
<1> QED
  BY <1>2 DEF WriteRemote, Idle

\* The write of the journal leads to the pin.
LEMMA WriteJournalRun ==
  ASSUME TypeOK, NEW m \in Machines, WriteJournal(m)
  PROVE  /\ run[m].pc = "install" /\ run'[m].pc = "pin" /\ run'[m].kind = run[m].kind /\ run'[m].from = <<>>
         /\ run'[m].ids = Ids(run[m].from) /\ run'[m].ids # None
         /\ run[m].from \in Seq(Made)
<1>1. run \in [Machines -> Runs]
  BY DEF TypeOK
<1>2. run[m].from \in Seq(Made)
  BY <1>1 DEF Runs
<1>3. Ids(run[m].from) # None
  BY <1>2, IdsOfLog, IdsAreSome
<1>4. run'[m] = [Idle EXCEPT !.pc = "pin", !.kind = run[m].kind, !.ids = Ids(run[m].from)]
  BY <1>1 DEF WriteJournal, Continue
<1> QED
  BY <1>2, <1>3, <1>4 DEF WriteJournal, Idle

\* A fetch starts with the two logs it read and the blobs it lacks.
LEMMA FetchRun ==
  ASSUME TypeOK, NEW m \in Machines, Fetch(m)
  PROVE  /\ run[m] = Idle /\ run'[m].pc = "install" /\ run'[m].kind = "fetch"
         /\ run'[m].base = journal[m] /\ run'[m].from = RemoteLog /\ run'[m].todo = Missing(m)
<1>1. run \in [Machines -> Runs]
  BY DEF TypeOK
<1> QED
  BY <1>1 DEF Fetch, Start, Idle, RemoteLog, Readable

\* One blob installed, or moved away, is one blob less to do.
LEMMA OneBlobRun ==
  ASSUME TypeOK, NEW m \in Machines, NEW b \in Blobs, InstallBlob(m, b) \/ MoveOrphan(m, b)
  PROVE  /\ SameCommand(run'[m], run[m]) /\ run'[m].pc = run[m].pc
         /\ run'[m].name = run[m].name /\ run'[m].todo = run[m].todo \ {b} /\ run'[m].ids = run[m].ids
<1> DEFINE todo == run[m].todo \ {b}
<1>1. run \in [Machines -> Runs]
  BY DEF TypeOK
<1>0. run[m] \in Runs
  BY <1>1
<1>2. run'[m] = [run[m] EXCEPT !.todo = todo]
  BY <1>1 DEF InstallBlob, MoveOrphan, Continue
<1> HIDE DEF todo
<1>3. SameCommand(run'[m], run[m]) /\ run'[m].pc = run[m].pc
      /\ run'[m].name = run[m].name /\ run'[m].todo = todo /\ run'[m].ids = run[m].ids
  BY <1>0, <1>2 DEF Runs, SameCommand
<1> QED
  BY <1>3 DEF todo

\* --fix starts with the blobs that no entry of the journal names.
LEMMA FixRun ==
  ASSUME TypeOK, NEW m \in Machines, Fix(m)
  PROVE  /\ run'[m].pc = "move" /\ run'[m].kind = "fix" /\ run'[m].from = <<>>
         /\ run'[m].todo = Orphans(m)
         /\ run'[m].ids = IF pin[m] = {} THEN None ELSE pin[m]
<1>1. run \in [Machines -> Runs]
  BY DEF TypeOK
<1> QED
  BY <1>1 DEF Fix, Start, Idle

-----------------------------------------------------------------------------
\* The pins.

\* A machine's pin covers what it saw as long as nobody touches the machine.
LEMMA PinStable ==
  ASSUME NEW m \in Machines, Untouched(m), PinCovers(m)
  PROVE  PinCovers(m)'
BY DEF Untouched, PinCovers, Uploading

\* A sync that may go ahead has everything ever seen in front of it.
LEMMA PinHoldsAll ==
  ASSUME NEW m \in Machines, PinCovers(m), PinHolds(m), Readable
  PROVE  seen[m] \subseteq Ids(RemoteLog)
BY DEF PinCovers, PinHolds, RemoteLog, Readable

\* Every step keeps the pin covering what the machine saw.
LEMMA StepKeepsPin ==
  ASSUME TypeOK, NEW m \in Machines, Step(m), PinCovers(m)
  PROVE  PinCovers(m)'
<1> DEFINE r == run[m]
<1>1. r \in Runs /\ run \in [Machines -> Runs]
  BY DEF TypeOK
<1>3. ASSUME UNCHANGED <<pin, seen>>, run'[m].pc \in {"idle", "copy", "append"} PROVE PinCovers(m)'
  BY <1>3 DEF PinCovers, Uploading
<1>2. ASSUME pin' = pin, seen' = seen, run'[m].pc = r.pc,
             run'[m].from = r.from, run'[m].ids = r.ids
      PROVE  PinCovers(m)'
  BY <1>2 DEF PinCovers, Uploading
<1>4. ASSUME UNCHANGED <<pin, seen>>, Uploading(m) /\ Uploading(m)',
             run'[m].from = r.from, run'[m].ids = r.ids
      PROVE  PinCovers(m)'
  BY <1>4 DEF PinCovers, Uploading
<1>5. ASSUME (\E b \in Blobs : Commit(m, b) \/ CopyFile(m, b)) \/ CopyFails(m) PROVE PinCovers(m)'
  <2>1. run'[m].pc \in {"copy", "append"}
    BY <1>5, CommitRun, CopyFileRun
  <2> QED
    BY <1>3, <1>5, <2>1 DEF Commit, CopyFile, CopyFails, history
<1>6. CASE AppendEntry(m) \/ Crash(m)
  <2>1. run'[m].pc = "idle"
    BY <1>6, EndRun DEF Idle
  <2> QED
    BY <1>3, <1>6, <2>1 DEF AppendEntry, Crash, disk, history
<1>7. CASE Push(m)
  <2>1. CASE run' = run
    <3>1. pin' = pin /\ seen' = seen
      BY <1>7 DEF Push
    <3> QED
      BY <1>2, <2>1, <3>1
  <2>2. CASE run' # run
    <3>1. run'[m].pc = "blobs" /\ run'[m].from = RemoteLog
      BY <1>7, <2>2, PushRun
    <3>2. seen[m] \subseteq Ids(RemoteLog)
      BY <1>7, PinHoldsAll DEF Push
    <3> QED
      BY <1>7, <3>1, <3>2 DEF Push, PinCovers, Uploading
  <2> QED
    BY <2>1, <2>2
<1>8. ASSUME NEW b \in Blobs, CheckBlob(m, b) PROVE PinCovers(m)'
  <2>1. CASE run'[m] = Idle
    <3>1. run'[m].pc = "idle"
      BY <2>1 DEF Idle
    <3> QED
      BY <1>3, <1>8, <3>1 DEF CheckBlob, disk, history
  <2>2. CASE run'[m] # Idle
    <3>1. /\ r.pc = "blobs" /\ run'[m].pc \in {"blobs", "open"}
          /\ run'[m].from = r.from /\ run'[m].ids = r.ids
      BY <1>8, <2>2, CheckBlobRun DEF SameCommand
    <3> QED
      BY <1>4, <1>8, <3>1 DEF CheckBlob, disk, history, Uploading
  <2> QED
    BY <2>1, <2>2
<1>9. CASE OpenBlob(m) \/ UploadBlob(m)
  <2>1. /\ r.pc \in {"open", "upload"} /\ run'[m].pc \in {"blobs", "upload"}
        /\ run'[m].from = r.from /\ run'[m].ids = r.ids
    BY <1>9, OpenBlobRun, UploadBlobRun DEF SameCommand
  <2> QED
    BY <1>4, <1>9, <2>1 DEF OpenBlob, UploadBlob, history, Uploading
<1>10. CASE OpenDraft(m)
  <2>1. run'[m].pc = "draft" /\ Ids(run'[m].from) = Ids(r.from) \cup Ids(r.base)
    BY <1>10, OpenDraftRun
  <2>2. r.pc = "blobs" /\ pin' = pin /\ seen' = seen
    BY <1>10 DEF OpenDraft
  <2>3. seen'[m] \subseteq Ids(run'[m].from)
    BY <2>1, <2>2 DEF PinCovers, Uploading
  <2> QED
    BY <2>1, <2>2, <2>3 DEF PinCovers, Uploading
<1>16. CASE WriteDraft(m) \/ WriteJournal(m)
  <2>1. /\ r.pc \in {"draft", "install"} /\ run'[m].pc \in {"rename", "pin"}
        /\ run'[m].ids = Ids(r.from) /\ run'[m].ids # None
    BY <1>16, WriteDraftRun, WriteJournalRun
  <2> QED
    BY <1>16, <2>1 DEF WriteDraft, WriteJournal, history, PinCovers, Uploading
<1>17. CASE WriteRemote(m)
  <2>1. r.pc = "rename" /\ pin' = pin /\ seen' = seen
    BY <1>17 DEF WriteRemote, history
  <2>2. run'[m].pc = "idle" \/ (run'[m].pc = "pin" /\ run'[m].ids = r.ids)
    BY <1>17, WriteRemoteRun DEF Idle
  <2> QED
    BY <2>1, <2>2 DEF PinCovers, Uploading
<1>11. CASE Fetch(m)
  <2>1. run'[m].pc = "install" /\ run'[m].from = RemoteLog
    BY <1>11, FetchRun
  <2>2. seen[m] \subseteq Ids(RemoteLog)
    BY <1>11, PinHoldsAll DEF Fetch
  <2> QED
    BY <1>11, <2>1, <2>2 DEF Fetch, disk, history, PinCovers, Uploading
<1>12. ASSUME NEW b \in Blobs, InstallBlob(m, b) \/ MoveOrphan(m, b) PROVE PinCovers(m)'
  <2>1. run'[m].pc = r.pc /\ run'[m].from = r.from /\ run'[m].ids = r.ids
    BY <1>12, OneBlobRun DEF SameCommand
  <2> QED
    <3>1. pin' = pin /\ seen' = seen
      BY <1>12 DEF InstallBlob, MoveOrphan, history
    <3> QED
      BY <1>2, <2>1, <3>1
<1>13. CASE SetPin(m)
  <2>1. run'[m].pc = "idle" /\ pin'[m] = r.ids /\ seen'[m] = seen[m] \cup r.ids
    <3>1. run'[m] = Idle
      BY <1>13, EndRun
    <3>2. pin \in [Machines -> (SUBSET Made) \cup {None}] /\ seen \in [Machines -> SUBSET Made]
      BY DEF TypeOK
    <3> QED
      BY <1>13, <3>1, <3>2 DEF SetPin, Idle
  <2>2. r.ids # None /\ seen[m] \subseteq r.ids
    BY <1>13 DEF SetPin, PinCovers
  <2> QED
    BY <2>1, <2>2 DEF PinCovers, Uploading
<1>14. CASE Fix(m)
  <2>1. run'[m].pc = "move" /\ run'[m].ids = IF pin[m] = {} THEN None ELSE pin[m]
    BY <1>14, FixRun
  <2> QED
    BY <1>14, <2>1 DEF Fix, disk, history, PinCovers, Uploading
<1>15. CASE RewriteConfig(m)
  <2>1. run'[m].pc = "idle" /\ pin'[m] = r.ids /\ seen' = seen
    <3>1. run'[m] = Idle
      BY <1>15, EndRun
    <3>2. pin \in [Machines -> (SUBSET Made) \cup {None}]
      BY DEF TypeOK
    <3> QED
      BY <1>15, <3>1, <3>2 DEF RewriteConfig, Idle, history
  <2> QED
    BY <1>15, <2>1 DEF RewriteConfig, PinCovers, Uploading
<1> QED
  BY <1>5, <1>6, <1>7, <1>8, <1>9, <1>10, <1>11, <1>12, <1>13, <1>14, <1>15,
     <1>16, <1>17 DEF Step

-----------------------------------------------------------------------------
\* The journal a command read is the journal it extends.

\* The journal read is still the journal as long as nobody touches the machine.
LEMMA ReadStable ==
  ASSUME NEW m \in Machines, Untouched(m), ReadJournal(m)
  PROVE  ReadJournal(m)'
BY DEF Untouched, ReadJournal, Uploading

\* Every step keeps the journal read and the journal the same.
LEMMA StepKeepsRead ==
  ASSUME TypeOK, NEW m \in Machines, Step(m), ReadJournal(m)
  PROVE  ReadJournal(m)'
<1>1. ASSUME run'[m].pc \in {"idle", "draft", "rename", "pin", "move"} PROVE ReadJournal(m)'
  BY <1>1 DEF ReadJournal, Uploading
<1>2. ASSUME run'[m].base = journal[m], journal' = journal PROVE ReadJournal(m)'
  BY <1>2 DEF ReadJournal, Uploading
<1>3. ASSUME run[m].pc \in {"copy", "append", "blobs", "open", "upload", "install"},
             run'[m].base = run[m].base, journal' = journal
      PROVE  ReadJournal(m)'
  BY <1>3 DEF ReadJournal, Uploading
<1>4. ASSUME NEW b \in Blobs, Commit(m, b) PROVE ReadJournal(m)'
  BY <1>2, <1>4, CommitRun DEF Commit
<1>5. ASSUME (\E b \in Blobs : CopyFile(m, b)) \/ CopyFails(m) PROVE ReadJournal(m)'
  BY <1>3, <1>5, CopyFileRun DEF CopyFile, CopyFails, SameCommand
<1>6. CASE AppendEntry(m) \/ SetPin(m) \/ RewriteConfig(m) \/ Crash(m)
  BY <1>1, <1>6, EndRun DEF Idle
<1>7. CASE Push(m)
  <2>1. journal' = journal
    BY <1>7 DEF Push
  <2>2. CASE run' = run
    BY <2>1, <2>2 DEF ReadJournal, Uploading
  <2>3. CASE run' # run
    BY <1>2, <1>7, <2>1, <2>3, PushRun
  <2> QED
    BY <2>2, <2>3
<1>8. ASSUME NEW b \in Blobs, CheckBlob(m, b) PROVE ReadJournal(m)'
  <2>1. CASE run'[m] = Idle
    BY <1>1, <2>1 DEF Idle
  <2>2. CASE run'[m] # Idle
    BY <1>3, <1>8, <2>2, CheckBlobRun DEF CheckBlob, disk, SameCommand
  <2> QED
    BY <2>1, <2>2
<1>9. CASE OpenBlob(m)
  BY <1>3, <1>9, OpenBlobRun DEF OpenBlob, SameCommand
<1>10. CASE UploadBlob(m)
  BY <1>3, <1>10, UploadBlobRun DEF UploadBlob, SameCommand
<1>11. CASE OpenDraft(m) \/ WriteDraft(m) \/ WriteRemote(m) \/ WriteJournal(m)
  BY <1>1, <1>11, OpenDraftRun, WriteDraftRun, WriteRemoteRun, WriteJournalRun DEF Idle
<1>12. CASE Fetch(m)
  BY <1>2, <1>12, FetchRun DEF Fetch, disk
<1>13. ASSUME NEW b \in Blobs, InstallBlob(m, b) PROVE ReadJournal(m)'
  BY <1>3, <1>13, OneBlobRun DEF InstallBlob, SameCommand
<1>14. ASSUME NEW b \in Blobs, MoveOrphan(m, b) PROVE ReadJournal(m)'
  <2>1. run'[m].pc = "move"
    BY <1>14, OneBlobRun DEF MoveOrphan
  <2> QED
    BY <1>1, <2>1
<1>15. CASE Fix(m)
  BY <1>1, <1>15, FixRun
<1> QED
  BY <1>4, <1>5, <1>6, <1>7, <1>8, <1>9, <1>10, <1>11, <1>12, <1>13, <1>14, <1>15 DEF Step

-----------------------------------------------------------------------------
\* Pushes.  One that finds no other under way reads a journal nobody else extends.

\* The start of a push creates the remote at most.
LEMMA PushKeepsRemote == ASSUME NEW m \in Machines, Push(m) PROVE RemoteLog' = RemoteLog
BY DEF Push, RemoteLog

\* A command that pushes after a step did so before or has just begun.
LEMMA StepPushes ==
  ASSUME TypeOK, NEW m \in Machines, Step(m),
         Uploading(m) \/ Drafting(m) => run[m].kind = "push",
         ~(Push(m) /\ run' # run)
  PROVE  /\ run'[m].kind = "push" => run[m].kind = "push"
         /\ (Uploading(m) \/ Drafting(m))' => run'[m].kind = "push"
         /\ Uploading(m)' => Uploading(m) /\ run'[m].from = run[m].from
         /\ run'[m].pc = "draft" => OpenDraft(m)
         /\ run'[m].pc = "rename" => WriteDraft(m)
         /\ contended' = contended
<1> DEFINE Claim == /\ run'[m].kind = "push" => run[m].kind = "push"
                    /\ (Uploading(m) \/ Drafting(m))' => run'[m].kind = "push"
                    /\ Uploading(m)' => Uploading(m) /\ run'[m].from = run[m].from
                    /\ run'[m].pc = "draft" => OpenDraft(m)
                    /\ run'[m].pc = "rename" => WriteDraft(m)
           pushing == {"blobs", "open", "upload", "draft", "rename"}
<1>1. ASSUME run'[m].kind # "push", run'[m].pc \notin pushing PROVE Claim
  BY <1>1 DEF Uploading, Drafting
<1>2. ASSUME SameCommand(run'[m], run[m]), run'[m].pc \notin pushing PROVE Claim
  BY <1>2 DEF Uploading, Drafting, SameCommand
<1>3. ASSUME SameCommand(run'[m], run[m]), run[m].pc \in {"blobs", "open", "upload"},
             run'[m].pc \in {"blobs", "open", "upload"}
      PROVE  Claim
  BY <1>3 DEF Uploading, Drafting, SameCommand
<1> HIDE DEF Claim
<1>4. ASSUME NEW b \in Blobs, Commit(m, b) PROVE Claim
  BY <1>1, <1>4, CommitRun
<1>5. ASSUME (\E b \in Blobs : CopyFile(m, b)) \/ CopyFails(m) PROVE Claim
  BY <1>2, <1>5, CopyFileRun
<1>6. ASSUME AppendEntry(m) \/ SetPin(m) \/ RewriteConfig(m) \/ Crash(m) PROVE Claim
  BY <1>1, <1>6, EndRun DEF Idle
<1>7. ASSUME Push(m) PROVE Claim
  <2>1. run[m] = Idle /\ run' = run
    BY <1>7 DEF Push
  <2> QED
    BY <1>1, <2>1 DEF Idle
<1>8. ASSUME NEW b \in Blobs, CheckBlob(m, b) PROVE Claim
  <2>1. CASE run'[m] = Idle
    BY <1>1, <2>1 DEF Idle
  <2>2. CASE run'[m] # Idle
    BY <1>3, <1>8, <2>2, CheckBlobRun
  <2> QED
    BY <2>1, <2>2
<1>9. ASSUME OpenBlob(m) \/ UploadBlob(m) PROVE Claim
  BY <1>3, <1>9, OpenBlobRun, UploadBlobRun
<1>10. ASSUME OpenDraft(m) PROVE Claim
  <2>1. run'[m].pc = "draft" /\ run'[m].kind = "push"
    BY <1>10, OpenDraftRun
  <2>2. run[m].pc = "blobs"
    BY <1>10 DEF OpenDraft
  <2> QED
    BY <1>10, <2>1, <2>2 DEF Claim, Uploading, Drafting
<1>11. ASSUME WriteDraft(m) PROVE Claim
  BY <1>11, WriteDraftRun DEF Claim, Uploading, Drafting
<1>12. ASSUME WriteRemote(m) PROVE Claim
  BY <1>12, WriteRemoteRun DEF Claim, Uploading, Drafting, Idle
<1>13. ASSUME WriteJournal(m) PROVE Claim
  BY <1>13, WriteJournalRun DEF Claim, Uploading, Drafting
<1>14. ASSUME Fetch(m) PROVE Claim
  BY <1>1, <1>14, FetchRun
<1>15. ASSUME NEW b \in Blobs, InstallBlob(m, b) \/ MoveOrphan(m, b) PROVE Claim
  <2>1. run'[m].pc \in {"install", "move"} /\ SameCommand(run'[m], run[m])
    BY <1>15, OneBlobRun DEF InstallBlob, MoveOrphan
  <2> QED
    BY <1>2, <2>1
<1>16. ASSUME Fix(m) PROVE Claim
  BY <1>1, <1>16, FixRun
<1>17. contended' = contended
  <2>1. ASSUME Push(m) PROVE contended' = contended
    <3>1. run \in [Machines -> Runs] /\ run' = run
      BY <2>1 DEF TypeOK
    <3>2. CASE contended' # contended
      <4>1. run[m] = Idle
        BY <2>1 DEF Push
      <4>2. run'[m].pc = "blobs"
        BY <2>1, <3>1, <3>2 DEF Push, Start, Idle
      <4> QED
        BY <3>1, <4>1, <4>2 DEF Idle
    <3> QED
      BY <3>2
  <2> QED
    BY <2>1
    DEF Step, disk, history, Commit, CopyFile, CopyFails, AppendEntry, CheckBlob, OpenBlob,
        UploadBlob, OpenDraft, WriteDraft, WriteRemote, Fetch, InstallBlob, WriteJournal, SetPin,
        Fix, MoveOrphan, RewriteConfig, Crash
<1> QED
  BY <1>4, <1>5, <1>6, <1>7, <1>8, <1>9, <1>10, <1>11, <1>12, <1>13, <1>14, <1>15, <1>16, <1>17
  DEF Step, Claim

\* Only the last three steps of a push touch the draft and what the remote already has.
LEMMA OtherSteps ==
  ASSUME NEW m \in Machines, Step(m), ~(OpenDraft(m) \/ WriteDraft(m) \/ WriteRemote(m))
  PROVE  /\ remote' = remote \/ (Push(m) /\ remote' = RemoteLog)
         /\ RemoteLog' = RemoteLog
         /\ draft' = draft /\ DraftLog' = DraftLog /\ mixed' = mixed
         /\ writers' = writers \/ writers' = writers \ {m}
<1>1. draft' = draft /\ mixed' = mixed /\ (writers' = writers \/ writers' = writers \ {m})
  BY DEF Step, disk, drafts, history, Commit, CopyFile, CopyFails, AppendEntry, Push, CheckBlob,
         OpenBlob, UploadBlob, Fetch, InstallBlob, WriteJournal, SetPin, Fix, MoveOrphan,
         RewriteConfig, Crash
<1>2. remote' = remote \/ (Push(m) /\ remote' = RemoteLog)
  BY DEF Step, disk, Commit, CopyFile, CopyFails, AppendEntry, Push, CheckBlob,
         OpenBlob, UploadBlob, Fetch, InstallBlob, WriteJournal, SetPin, Fix, MoveOrphan,
         RewriteConfig, Crash
<1>3. RemoteLog' = RemoteLog
  <2>1. CASE Push(m)
    BY <2>1, PushKeepsRemote
  <2>2. CASE remote' = remote
    BY <2>2 DEF RemoteLog
  <2> QED
    BY <1>2, <2>1, <2>2
<1> QED
  BY <1>1, <1>2, <1>3 DEF DraftLog

\* A push that writes its draft alone writes the log it merged, and leaves the remote alone.
LEMMA AloneWrites ==
  ASSUME TypeOK, OneDraft, ~mixed, NEW m \in Machines, WriteDraft(m)
  PROVE  /\ draft' = run[m].from /\ remote' = remote /\ DraftLog' = run[m].from /\ RemoteLog' = RemoteLog
<1>1. run[m].from \in Seq(Made) /\ run[m].pc = "draft"
  BY WriteDraftRun
<1>2. m \in writers /\ draft = <<>>
  BY <1>1 DEF OneDraft
<1>3. draft' \in Overlaid(draft, run[m].from) /\ remote' = remote
  BY <1>2 DEF WriteDraft
<1>4. draft' = run[m].from
  BY <1>1, <1>2, <1>3, EmptyLog, OverlaidLogs
<1> QED
  BY <1>1, <1>3, <1>4, LogsAreSome DEF DraftLog, RemoteLog

\* The rename puts the draft in the place of the remote.
LEMMA RenamedRemote ==
  ASSUME NEW m \in Machines, WriteRemote(m)
  PROVE  RemoteLog' = RemoteLog \/ RemoteLog' = DraftLog
<1>1. remote' = remote \/ (draft # None /\ remote' = draft)
  BY DEF WriteRemote
<1> QED
  BY <1>1 DEF RemoteLog, DraftLog

\* A log is a prefix of itself.
LEMMA PrefixReflexive == ASSUME NEW s \in Seq(Nat) PROVE IsPrefix(s, s)
BY DEF IsPrefix

\* Logs are sequences of numbers.
LEMMA LogsAreNumbers == ASSUME NEW log \in Seq(Made) PROVE log \in Seq(Nat)
BY MadeIsFinite, SeqMonotonic

\* Every step keeps the one push reading the log it extends.
LEMMA StepKeepsOnePush ==
  ASSUME TypeOK, OnePush, OneDraft, NEW m \in Machines, Step(m)
  PROVE  OnePush'
<1>1. \A k \in Machines \ {m} : run'[k] = run[k]
  BY OthersUntouched DEF Untouched
<1>2. Uploading(m) \/ Drafting(m) => run[m].kind = "push"
  BY DEF OnePush
<1>3. RemoteLog \in Seq(Nat) /\ DraftLog \in Seq(Nat)
  BY RemoteLogType, LogsAreNumbers
<1>4. CASE Push(m) /\ run' # run
  <2>1. run'[m].pc = "blobs" /\ run'[m].kind = "push" /\ run'[m].from = RemoteLog
    BY <1>4, PushRun
  <2>2. contended' = (contended \/ \E n \in Machines : run[n].kind = "push")
    BY <1>4, PushRun
  <2>3. RemoteLog' = RemoteLog
    BY <1>4, PushKeepsRemote
  <2>4. IsPrefix(RemoteLog, RemoteLog)
    BY <1>3, PrefixReflexive
  <2>5. \A k \in Machines : (Uploading(k) \/ Drafting(k))' => run'[k].kind = "push"
    BY <1>1, <2>1 DEF OnePush, Uploading, Drafting
  <2>6. ~contended' => \A k \in Machines : run'[k].kind = "push" => k = m
    BY <1>1, <2>2
  <2>7. ASSUME ~contended', NEW k \in Machines
        PROVE  /\ Uploading(k)' \/ run'[k].pc = "draft" => IsPrefix(RemoteLog', run'[k].from)
               /\ run'[k].pc = "rename" => IsPrefix(RemoteLog, DraftLog)'
    <3>1. (Uploading(k) \/ Drafting(k))' => k = m
      BY <2>5, <2>6, <2>7
    <3> QED
      BY <2>1, <2>3, <2>4, <3>1 DEF Drafting, Uploading
  <2> QED
    BY <2>5, <2>6, <2>7 DEF OnePush
<1>5. CASE ~(Push(m) /\ run' # run)
  <2>1. /\ run'[m].kind = "push" => run[m].kind = "push"
        /\ (Uploading(m) \/ Drafting(m))' => run'[m].kind = "push"
        /\ Uploading(m)' => Uploading(m) /\ run'[m].from = run[m].from
        /\ run'[m].pc = "draft" => OpenDraft(m)
        /\ run'[m].pc = "rename" => WriteDraft(m)
        /\ contended' = contended
    BY <1>2, <1>5, StepPushes
  <2>2. \A k \in Machines : run'[k].kind = "push" => run[k].kind = "push"
    BY <1>1, <2>1
  <2>3. \A k \in Machines : (Uploading(k) \/ Drafting(k))' => run'[k].kind = "push"
    BY <1>1, <2>1 DEF OnePush, Uploading, Drafting
  <2>4. ASSUME ~contended, NEW k \in Machines
        PROVE  /\ Uploading(k)' \/ run'[k].pc = "draft" => IsPrefix(RemoteLog', run'[k].from)
               /\ run'[k].pc = "rename" => IsPrefix(RemoteLog', DraftLog')
    <3>1. /\ \A i, j \in Machines : run[i].kind = "push" /\ run[j].kind = "push" => i = j
          /\ \A i \in Machines :
               /\ Uploading(i) \/ run[i].pc = "draft" => IsPrefix(RemoteLog, run[i].from)
               /\ run[i].pc = "rename" => IsPrefix(RemoteLog, DraftLog)
      BY <2>4 DEF OnePush
    <3>2. CASE OpenDraft(m) \/ WriteDraft(m) \/ WriteRemote(m)
      <4>1. run[m].kind = "push"
        BY <1>2, <3>2 DEF OpenDraft, WriteDraft, WriteRemote, Uploading, Drafting
      <4>2. (Uploading(k) \/ Drafting(k))' => k = m
        BY <2>2, <2>3, <3>1, <4>1
      <4>3. CASE OpenDraft(m)
        <5>1. /\ run'[m].pc = "draft" /\ IsPrefix(run[m].from, run'[m].from) /\ run'[m].from \in Seq(Made)
          BY <4>3, OpenDraftRun
        <5>2. run[m].pc = "blobs" /\ RemoteLog' = RemoteLog
          BY <4>3 DEF OpenDraft, RemoteLog
        <5>3. IsPrefix(RemoteLog, run[m].from)
          BY <3>1, <5>2 DEF Uploading
        <5>4. run[m] \in Runs
          BY DEF TypeOK
        <5>5. run[m].from \in Seq(Nat) /\ run'[m].from \in Seq(Nat)
          BY <5>1, <5>4, LogsAreNumbers DEF Runs
        <5>6. IsPrefix(RemoteLog, run'[m].from)
          BY <1>3, <5>1, <5>3, <5>5, PrefixTransitive
        <5> QED
          BY <4>2, <5>1, <5>2, <5>6 DEF Uploading, Drafting
      <4>4. CASE WriteDraft(m)
        <5>1. run[m].pc = "draft" /\ run'[m].pc = "rename"
          BY <4>4, WriteDraftRun
        <5>2. ~mixed
          BY <2>4 DEF OneDraft
        <5>3. DraftLog' = run[m].from /\ RemoteLog' = RemoteLog
          BY <4>4, <5>2, AloneWrites
        <5> QED
          BY <3>1, <4>2, <5>1, <5>3 DEF Uploading, Drafting
      <4>5. CASE WriteRemote(m)
        <5>1. run'[m].pc \in {"idle", "pin"}
          BY <4>5, WriteRemoteRun DEF Idle
        <5> QED
          BY <4>2, <5>1 DEF Uploading, Drafting
      <4> QED
        BY <3>2, <4>3, <4>4, <4>5
    <3>3. CASE ~(OpenDraft(m) \/ WriteDraft(m) \/ WriteRemote(m))
      <4>1. RemoteLog' = RemoteLog /\ DraftLog' = DraftLog
        BY <3>3, OtherSteps
      <4>2. CASE k = m
        BY <2>1, <3>1, <3>3, <4>1, <4>2 DEF Uploading
      <4>3. CASE k # m
        BY <1>1, <3>1, <4>1, <4>3 DEF Uploading
      <4> QED
        BY <4>2, <4>3
    <3> QED
      BY <3>2, <3>3
  <2>5. ~contended' => \A i, j \in Machines : run'[i].kind = "push" /\ run'[j].kind = "push" => i = j
    BY <2>1, <2>2 DEF OnePush
  <2> QED
    BY <2>1, <2>3, <2>4, <2>5 DEF OnePush
<1> QED
  BY <1>4, <1>5

\* Nobody else's draft is touched by a step after which drafts are not mixed.
LEMMA DraftsOfOthers ==
  ASSUME TypeOK, OneDraft, NEW m \in Machines, Step(m), ~mixed, ~mixed',
         NEW k \in Machines, k # m, Drafting(k)
  PROVE  draft' = draft /\ DraftLog' = DraftLog /\ (writers' = writers \/ writers' = writers \ {m})
<1>1. ~OpenDraft(m)
  BY DEF OpenDraft, Drafting
<1>2. ~(WriteDraft(m) \/ WriteRemote(m))
  BY DEF OneDraft, Drafting, WriteDraft, WriteRemote
<1> QED
  BY <1>1, <1>2, OtherSteps

\* A remote that is there stays there.
LEMMA RemoteStays ==
  ASSUME TypeOK, OneDraft, NEW m \in Machines, Step(m), remote # None
  PROVE  remote' # None
<1>1. CASE WriteDraft(m)
  <2>1. run[m].from \in Seq(Made) /\ remote \in Seq(Made) \cup {Torn}
    BY <1>1, WriteDraftRun DEF TypeOK, Logs
  <2>2. \A new \in Overlaid(remote, run[m].from) : new # None
    BY <2>1, OverlaidLogs, LogsAreSome, SaveChainsAssumption
  <2> QED
    BY <1>1, <2>2 DEF WriteDraft
<1>2. CASE WriteRemote(m)
  BY <1>2 DEF WriteRemote
<1>3. CASE OpenDraft(m)
  BY <1>3 DEF OpenDraft
<1>4. CASE ~(OpenDraft(m) \/ WriteDraft(m) \/ WriteRemote(m))
  <2>1. remote' = remote \/ remote' = RemoteLog
    BY <1>4, OtherSteps
  <2> QED
    BY <2>1, RemoteLogType, LogsAreSome
<1> QED
  BY <1>1, <1>2, <1>3, <1>4

\* Every step keeps what is known of the draft.
LEMMA StepKeepsOneDraft ==
  ASSUME TypeOK, OnePush, OneDraft, NEW m \in Machines, Step(m)
  PROVE  OneDraft'
<1>1. \A k \in Machines \ {m} : run'[k] = run[k]
  BY OthersUntouched DEF Untouched
<1>2. Uploading(m) \/ Drafting(m) => run[m].kind = "push"
  BY DEF OnePush
<1>3. Grows
  BY StepGrows DEF Next
<1>4. /\ run'[m].kind = "push" => run[m].kind = "push" \/ Push(m)
      /\ run'[m].pc = "draft" => OpenDraft(m)
      /\ run'[m].pc = "rename" => WriteDraft(m)
  <2>1. CASE Push(m) /\ run' # run
    BY <2>1, PushRun
  <2>2. CASE ~(Push(m) /\ run' # run)
    BY <1>2, <2>2, StepPushes
  <2> QED
    BY <2>1, <2>2
<1>6. \A k \in Machines : run'[k].kind = "push" => remote' # None
  <2>1. CASE Push(m)
    <3>1. remote' = RemoteLog
      BY <2>1 DEF Push
    <3> QED
      BY <3>1, RemoteLogType, LogsAreSome
  <2>2. CASE ~Push(m)
    <3>1. \A k \in Machines : run'[k].kind = "push" => run[k].kind = "push"
      BY <1>1, <1>4, <2>2
    <3> QED
      BY <3>1, RemoteStays DEF OneDraft
  <2> QED
    BY <2>1, <2>2
<1>7. writers' # {} => draft' # None
  <2>1. CASE OpenDraft(m)
    BY <2>1, EmptyLog, LogsAreSome DEF OpenDraft
  <2>2. CASE WriteDraft(m)
    <3>1. run[m].from \in Seq(Made)
      BY <2>2, WriteDraftRun
    <3>2. CASE m \in writers
      <4>1. draft \in Seq(Made) \cup {Torn}
        BY <3>2 DEF OneDraft, TypeOK, Logs
      <4>2. \A new \in Overlaid(draft, run[m].from) : new # None
        BY <3>1, <4>1, OverlaidLogs, LogsAreSome, SaveChainsAssumption
      <4> QED
        BY <2>2, <3>2, <4>2 DEF WriteDraft
    <3>3. CASE m \notin writers
      BY <2>2, <3>3 DEF WriteDraft, OneDraft
    <3> QED
      BY <3>2, <3>3
  <2>3. CASE WriteRemote(m)
    BY <2>3 DEF WriteRemote, OneDraft, drafts
  <2>4. CASE ~(OpenDraft(m) \/ WriteDraft(m) \/ WriteRemote(m))
    <3>1. draft' = draft /\ writers' \subseteq writers
      BY <2>4, OtherSteps
    <3> QED
      BY <3>1 DEF OneDraft
  <2> QED
    BY <2>1, <2>2, <2>3, <2>4
<1>8. mixed' => contended'
  <2>1. contended => contended'
    BY DEF TypeOK, Step, disk, history, Commit, CopyFile, CopyFails, AppendEntry, Push, CheckBlob,
           OpenBlob, UploadBlob, OpenDraft, WriteDraft, WriteRemote, Fetch, InstallBlob,
           WriteJournal, SetPin, Fix, MoveOrphan, RewriteConfig, Crash
  <2>2. CASE OpenDraft(m) /\ \E n \in Machines : run[n].pc \in {"draft", "rename"}
    <3>1. PICK n \in Machines : run[n].pc \in {"draft", "rename"}
      BY <2>2
    <3>2. run[m].pc = "blobs"
      BY <2>2 DEF OpenDraft
    <3>3. n # m /\ run[n].kind = "push" /\ run[m].kind = "push"
      BY <3>1, <3>2 DEF OnePush, Uploading, Drafting
    <3>4. contended
      BY <3>3 DEF OnePush
    <3> QED
      BY <2>1, <3>4
  <2>3. CASE mixed' = mixed
    BY <2>1, <2>3 DEF OneDraft
  <2>4. CASE OpenDraft(m) /\ ~\E n \in Machines : run[n].pc \in {"draft", "rename"}
    <3>1. mixed' = (mixed \/ \E n \in Machines : run[n].pc \in {"draft", "rename"})
      BY <2>4 DEF OpenDraft
    <3>2. mixed' => mixed
      BY <2>4, <3>1 DEF TypeOK
    <3> QED
      BY <2>1, <3>2 DEF OneDraft
  <2>5. CASE WriteDraft(m) \/ WriteRemote(m)
    BY <2>3, <2>5 DEF WriteDraft, WriteRemote, history
  <2>6. CASE ~(OpenDraft(m) \/ WriteDraft(m) \/ WriteRemote(m))
    BY <2>3, <2>6, OtherSteps
  <2> QED
    BY <2>2, <2>4, <2>5, <2>6
<1>9. ASSUME ~mixed'
      PROVE  /\ Readable'
             /\ \A i, j \in Machines : Drafting(i)' /\ Drafting(j)' => i = j
             /\ \A k \in Machines : /\ run'[k].pc = "draft" => k \in writers' /\ draft' = <<>>
                                    /\ run'[k].pc = "rename" => draft' \in Seq(Made)'
  <2>1. ~mixed
    BY <1>3, <1>9 DEF Grows
  <2>2. /\ Readable
        /\ \A i, j \in Machines : Drafting(i) /\ Drafting(j) => i = j
        /\ \A k \in Machines : /\ run[k].pc = "draft" => k \in writers /\ draft = <<>>
                               /\ run[k].pc = "rename" => draft \in Seq(Made)
    BY <2>1 DEF OneDraft
  <2>3. Readable'
    <3>1. CASE WriteDraft(m)
      BY <2>1, <2>2, <3>1, AloneWrites DEF Readable
    <3>2. CASE WriteRemote(m)
      <4>1. draft # Torn
        <5>1. run[m].pc = "rename"
          BY <3>2 DEF WriteRemote
        <5> QED
          BY <2>2, <5>1, LogsAreSome
      <4> QED
        BY <2>2, <3>2, <4>1 DEF WriteRemote, Readable
    <3>3. CASE OpenDraft(m)
      BY <2>2, <3>3 DEF OpenDraft, Readable
    <3>4. CASE ~(OpenDraft(m) \/ WriteDraft(m) \/ WriteRemote(m))
      <4>1. remote' = remote \/ remote' = RemoteLog
        BY <3>4, OtherSteps
      <4> QED
        BY <2>2, <4>1, RemoteLogType, LogsAreSome DEF Readable
    <3> QED
      BY <3>1, <3>2, <3>3, <3>4
  <2>4. OpenDraft(m) => \A n \in Machines : ~Drafting(n)
    BY <1>9 DEF OpenDraft, Drafting
  <2>5. \A k \in Machines \ {m} : Drafting(k)' = Drafting(k)
    BY <1>1 DEF Drafting
  <2>6. \A i, j \in Machines : Drafting(i)' /\ Drafting(j)' => i = j
    <3>1. Drafting(m)' => OpenDraft(m) \/ Drafting(m)
      BY <1>4 DEF Drafting, WriteDraft
    <3> QED
      BY <2>2, <2>4, <2>5, <3>1
  <2>7. ASSUME NEW k \in Machines
        PROVE  /\ run'[k].pc = "draft" => k \in writers' /\ draft' = <<>>
               /\ run'[k].pc = "rename" => draft' \in Seq(Made)'
    <3>1. CASE k = m
      <4>1. OpenDraft(m) => k \in writers' /\ draft' = <<>>
        BY <3>1 DEF OpenDraft
      <4>2. WriteDraft(m) => draft' \in Seq(Made)'
        BY <1>3, <2>1, AloneWrites, WriteDraftRun, MadeGrows
      <4> QED
        BY <1>4, <3>1, <4>1, <4>2
    <3>2. CASE k # m
      <4>1. run'[k] = run[k]
        BY <1>1, <3>2
      <4>2. Drafting(k) => draft' = draft /\ (writers' = writers \/ writers' = writers \ {m})
        BY <1>9, <2>1, <3>2, DraftsOfOthers
      <4> QED
        BY <1>3, <2>2, <3>2, <4>1, <4>2, MadeGrows DEF Drafting
    <3> QED
      BY <3>1, <3>2
  <2> QED
    BY <2>3, <2>6, <2>7
<1> QED
  BY <1>6, <1>7, <1>8, <1>9 DEF OneDraft

\* What a mishap leaves of the journal of the remote is the beginning of it.
LEMMA MishapShortens ==
  ASSUME TypeOK, RollBack \/ (\E b \in Blobs : DamageBlob(b)) \/ UNCHANGED vars
  PROVE  /\ RemoteLog' \in Seq(Made) /\ IsPrefix(RemoteLog', RemoteLog)
         /\ RemoteLog' = RemoteLog \/ mishaps' # mishaps
<1>1. RemoteLog \in Seq(Made) /\ RemoteLog \in Seq(Nat)
  BY RemoteLogType, LogsAreNumbers
<1>2. CASE RollBack
  <2>1. PICK n \in 0 .. Len(remote) - 1 : remote' = SubSeq(remote, 1, n)
    BY <1>2 DEF RollBack
  <2>2. remote \in Seq(Made) /\ RemoteLog = remote
    BY <1>2 DEF RollBack, TypeOK, Logs, Readable, RemoteLog
  <2>3. remote' \in Seq(Made) /\ Len(remote') = n /\ \A i \in 1 .. n : remote'[i] = remote[i]
    BY <2>1, <2>2
  <2>4. remote' # None /\ remote' # Torn
    BY <2>3, LogsAreSome
  <2>5. IsPrefix(remote', remote)
    BY <2>2, <2>3 DEF IsPrefix
  <2> QED
    BY <1>2, <2>2, <2>3, <2>4, <2>5 DEF RollBack, RemoteLog, TypeOK
<1>3. CASE RemoteLog' = RemoteLog
  BY <1>1, <1>3, PrefixReflexive
<1> QED
  BY <1>2, <1>3 DEF DamageBlob, vars, disk, RemoteLog

\* It leaves the drafts alone, and a remote that can be read readable.
LEMMA MishapKeepsDrafts ==
  ASSUME TypeOK, RollBack \/ (\E b \in Blobs : DamageBlob(b)) \/ UNCHANGED vars
  PROVE  /\ draft' = draft /\ writers' = writers /\ DraftLog' = DraftLog
         /\ contended' = contended /\ mixed' = mixed
         /\ remote' = remote \/ (remote' # None /\ remote' # Torn)
<1>1. draft' = draft /\ writers' = writers /\ contended' = contended /\ mixed' = mixed
  BY DEF RollBack, DamageBlob, vars, disk, drafts, history
<1>2. remote' = remote \/ (remote' # None /\ remote' # Torn)
  <2>1. CASE RollBack
    <3>1. PICK n \in 0 .. Len(remote) - 1 : remote' = SubSeq(remote, 1, n)
      BY <2>1 DEF RollBack
    <3>2. remote \in Seq(Made)
      BY <2>1 DEF RollBack, TypeOK, Logs, Readable
    <3>3. remote' \in Seq(Made)
      BY <3>1, <3>2
    <3> QED
      BY <3>3, LogsAreSome
  <2> QED
    BY <2>1 DEF DamageBlob, vars, disk
<1> QED
  BY <1>1, <1>2 DEF DraftLog

\* A remote put back is a prefix of what it was.
LEMMA MishapKeepsOnePush ==
  ASSUME TypeOK, OnePush, OneDraft, RollBack \/ (\E b \in Blobs : DamageBlob(b)) \/ UNCHANGED vars
  PROVE  OnePush' /\ OneDraft'
<1>1. commits' = commits /\ \A k \in Machines : run'[k] = run[k]
  BY MishapTypes DEF Untouched
<1>2. RemoteLog' \in Seq(Nat) /\ IsPrefix(RemoteLog', RemoteLog) /\ RemoteLog \in Seq(Nat)
  BY MishapShortens, RemoteLogType, LogsAreNumbers
<1>3. /\ draft' = draft /\ writers' = writers /\ DraftLog' = DraftLog
      /\ contended' = contended /\ mixed' = mixed
      /\ remote' = remote \/ (remote' # None /\ remote' # Torn)
  BY MishapKeepsDrafts
<1>4. \A log \in Seq(Nat) : IsPrefix(RemoteLog, log) => IsPrefix(RemoteLog', log)
  BY <1>2, PrefixTransitive
<1>5. DraftLog \in Seq(Nat) /\ \A k \in Machines : run[k].from \in Seq(Nat)
  <2>1. \A k \in Machines : run[k] \in Runs
    BY DEF TypeOK
  <2> QED
    BY <2>1, RemoteLogType, LogsAreNumbers DEF Runs
<1>6. OnePush'
  BY <1>1, <1>3, <1>4, <1>5 DEF OnePush, Uploading, Drafting
<1>7. OneDraft'
  BY <1>1, <1>3 DEF OneDraft, Drafting, Readable, Made
<1> QED
  BY <1>6, <1>7

-----------------------------------------------------------------------------
\* Parents come first.

\* An entry that follows its parent, the newest entry before it, keeps parents first.
LEMMA AppendedParentsFirst ==
  ASSUME TypeOK, NEW m \in Machines, AppendEntry(m), ReadJournal(m), Kept(m), journal' # journal,
         \A i \in DOMAIN journal[m] : LET parent == commits'[journal[m][i]].parent IN
           parent # None /\ parent < journal[m][i] => \E j \in 1 .. i - 1 : journal[m][j] = parent
  PROVE  ParentsFirst(journal[m])'
<1>1. PICK log \in Seq(Made) : log = journal[m]
  BY DEF TypeOK
<1>2. PICK id \in (1 .. MaxCommits) \ Made :
        /\ commits'[id] = [parent |-> HeadOf(journal[m]), blob |-> run[m].name]
        /\ journal'[m] = Append(journal[m], id)
  BY AppendedEntry
<1>3. commits'[id].parent = HeadOf(log)
  BY <1>1, <1>2
<1>4. PICK longer : longer = journal'[m]
  OBVIOUS
<1>5. longer = Append(log, id)
  BY <1>1, <1>2, <1>4
<1>6. /\ DOMAIN longer = 1 .. Len(log) + 1 /\ Len(log) \in Nat /\ DOMAIN log = 1 .. Len(log)
      /\ longer[Len(log) + 1] = id
      /\ \A i \in 1 .. Len(log) : longer[i] = log[i]
  BY <1>5
<1>7. \A i \in 1 .. Len(log) : commits'[log[i]].parent # None /\ commits'[log[i]].parent < log[i] =>
        \E j \in 1 .. i - 1 : log[j] = commits'[log[i]].parent
  BY <1>1, <1>6
<1>8. \A i \in DOMAIN longer : commits'[longer[i]].parent # None /\ commits'[longer[i]].parent < longer[i] =>
        \E j \in 1 .. i - 1 : longer[j] = commits'[longer[i]].parent
  <2> SUFFICES ASSUME NEW i \in DOMAIN longer, commits'[longer[i]].parent # None,
                      commits'[longer[i]].parent < longer[i]
               PROVE  \E j \in 1 .. i - 1 : longer[j] = commits'[longer[i]].parent
    OBVIOUS
  <2>1. CASE i \in 1 .. Len(log)
    <3>1. PICK j \in 1 .. i - 1 : log[j] = commits'[log[i]].parent
      BY <1>6, <1>7, <2>1
    <3>2. j \in 1 .. Len(log)
      BY <1>6, <2>1
    <3> QED
      BY <1>6, <2>1, <3>1, <3>2
  <2>2. CASE i = Len(log) + 1
    <3>1. commits'[longer[i]].parent = HeadOf(log)
      BY <1>3, <1>6, <2>2
    <3>2. log # <<>>
      BY <3>1 DEF HeadOf
    <3>3. HeadOf(log) = log[Len(log)]
      BY <3>2, HeadType
    <3>4. Len(log) \in 1 .. Len(log) /\ Len(log) \in 1 .. i - 1
      BY <1>6, <2>2, <3>2, EmptySeq
    <3> QED
      BY <1>6, <3>1, <3>3, <3>4
  <2> QED
    BY <1>6, <2>1, <2>2
<1> QED
  BY <1>4, <1>8 DEF ParentsFirst

\* What a command has read, or is about to write, after a step.
LEMMA ReadAfter ==
  ASSUME TypeOK, NEW m \in Machines, Step(m)
  PROVE  \/ run'[m].from = run[m].from \/ run'[m].from = RemoteLog \/ run'[m].from = <<>>
         \/ OpenDraft(m) /\ run'[m].from = Merged(run[m].from, run[m].base)
<1>1. run'[m] = Idle => run'[m].from = <<>>
  BY DEF Idle
<1>2. CASE run'[m] = run[m]
  BY <1>2
<1>3. CASE run'[m] # Idle /\ run'[m] # run[m]
  <2>1. CASE OpenDraft(m)
    BY <2>1, OpenDraftRun
  <2>2. CASE WriteDraft(m) \/ WriteRemote(m) \/ WriteJournal(m)
    BY <1>3, <2>2, WriteDraftRun, WriteRemoteRun, WriteJournalRun
  <2>3. CASE Push(m)
    BY <1>3, <2>3, PushRun
  <2>4. CASE Fetch(m) \/ Fix(m) \/ AppendEntry(m) \/ SetPin(m) \/ RewriteConfig(m) \/ Crash(m)
    BY <1>3, <2>4, FetchRun, FixRun, EndRun
  <2>5. CASE OpenBlob(m) \/ UploadBlob(m) \/ CopyFails(m)
    BY <2>5, OpenBlobRun, UploadBlobRun, CopyFileRun DEF SameCommand
  <2>6. ASSUME NEW b \in Blobs,
               \/ Commit(m, b) \/ CopyFile(m, b) \/ CheckBlob(m, b)
               \/ InstallBlob(m, b) \/ MoveOrphan(m, b)
        PROVE  run'[m].from = run[m].from \/ run'[m].from = <<>>
    BY <1>3, <2>6, CommitRun, CopyFileRun, CheckBlobRun, OneBlobRun DEF SameCommand
  <2> QED
    BY <2>1, <2>2, <2>3, <2>4, <2>5, <2>6 DEF Step
<1> QED
  BY <1>1, <1>2, <1>3

\* Every step keeps parents first in every log.
LEMMA StepKeepsOrdered ==
  ASSUME TypeOK, OnePush, OneDraft, Ordered, NEW m \in Machines, Step(m), ReadJournal(m), Kept(m)
  PROVE  Ordered'
<1> SUFFICES ASSUME ~mixed'
             PROVE  /\ ParentsFirst(RemoteLog)'
                    /\ \A k \in Machines :
                         /\ ParentsFirst(journal[k])' /\ ParentsFirst(run[k].from)'
                         /\ run'[k].pc = "rename" => ParentsFirst(DraftLog)'
  BY DEF Ordered
<1>1. Grows
  BY StepGrows DEF Next
<1>2. /\ ~mixed /\ ParentsFirst(RemoteLog)
      /\ \A k \in Machines :
           /\ ParentsFirst(journal[k]) /\ ParentsFirst(run[k].from)
           /\ run[k].pc = "rename" => ParentsFirst(DraftLog)
  BY <1>1 DEF Grows, Ordered
<1>3. /\ \A k \in Machines : journal[k] \in Seq(Made) /\ run[k].from \in Seq(Made)
      /\ RemoteLog \in Seq(Made) /\ DraftLog \in Seq(Made)
  <2>1. \A k \in Machines : run[k] \in Runs
    BY DEF TypeOK
  <2> QED
    BY <2>1, RemoteLogType DEF TypeOK, Runs
<1>4. ASSUME NEW log \in Seq(Made), ParentsFirst(log) PROVE ParentsFirst(log)'
  BY <1>1, <1>4, ParentsFirstStable
<1>5. ParentsFirst(RemoteLog)'
  <2>1. ASSUME NEW log \in Seq(Made), ParentsFirst(log), RemoteLog' = log PROVE ParentsFirst(RemoteLog)'
    <3>1. ParentsFirst(log)'
      BY <1>4, <2>1
    <3> QED
      BY <2>1, <3>1 DEF ParentsFirst
  <2>2. CASE WriteRemote(m)
    <3>1. run[m].pc = "rename" /\ (RemoteLog' = RemoteLog \/ RemoteLog' = DraftLog)
      BY <2>2, RenamedRemote DEF WriteRemote
    <3> QED
      BY <1>2, <1>3, <2>1, <3>1
  <2>3. RemoteLog' = RemoteLog => ParentsFirst(RemoteLog)'
    BY <1>2, <1>3, <2>1
  <2>4. CASE OpenDraft(m)
    BY <2>3, <2>4 DEF OpenDraft, RemoteLog
  <2>5. CASE WriteDraft(m)
    BY <1>2, <2>3, <2>5, AloneWrites
  <2> QED
    BY <2>2, <2>3, <2>4, <2>5, OtherSteps
<1>6. ASSUME NEW k \in Machines PROVE ParentsFirst(journal[k])'
  <2>1. CASE journal'[k] = journal[k]
    <3>1. PICK log \in Seq(Made) : log = journal[k]
      BY <1>3
    <3>2. ParentsFirst(log)'
      BY <1>2, <1>4, <3>1
    <3> QED
      BY <2>1, <3>1, <3>2 DEF ParentsFirst
  <2>2. CASE k = m /\ WriteJournal(m)
    <3>1. PICK log : log = Merged(run[m].base, run[m].from)
      OBVIOUS
    <3>2. run[m].base = journal[m]
      BY <2>2 DEF WriteJournal, ReadJournal, Uploading
    <3>3. log \in Seq(Made)
      BY <1>3, <3>1, <3>2, MergedMade
    <3>4. ParentsFirst(log)
      BY <1>2, <1>3, <3>1, <3>2, MergedParentsFirst
    <3>5. ParentsFirst(log)'
      BY <1>4, <3>3, <3>4
    <3>6. journal'[k] = log
      BY <2>2, <3>1 DEF WriteJournal, TypeOK
    <3> QED
      BY <3>5, <3>6 DEF ParentsFirst
  <2>3. CASE k = m /\ AppendEntry(m) /\ journal' # journal
    <3>1. PICK log \in Seq(Made) : log = journal[m]
      BY <1>3
    <3>2. ParentsFirst(log)'
      BY <1>2, <1>4, <3>1
    <3>3. \A i \in DOMAIN log : LET parent == commits'[log[i]].parent IN
            parent # None /\ parent < log[i] => \E j \in 1 .. i - 1 : log[j] = parent
      BY <3>2 DEF ParentsFirst
    <3> QED
      BY <2>3, <3>1, <3>3, AppendedParentsFirst
  <2> QED
    BY <2>1, <2>2, <2>3, OthersUntouched
    DEF Untouched, Step, disk, history, Commit, CopyFile, CopyFails, Push, CheckBlob, OpenBlob,
        UploadBlob, OpenDraft, WriteDraft, WriteRemote, Fetch, InstallBlob, SetPin, Fix, MoveOrphan,
        RewriteConfig, Crash, AppendEntry
<1>7. ASSUME NEW k \in Machines PROVE ParentsFirst(run[k].from)'
  <2>1. ASSUME NEW log \in Seq(Made), ParentsFirst(log), run'[k].from = log
        PROVE  ParentsFirst(run[k].from)'
    <3>1. ParentsFirst(log)'
      BY <1>4, <2>1
    <3> QED
      BY <2>1, <3>1 DEF ParentsFirst
  <2>2. run'[k].from = <<>> => ParentsFirst(run[k].from)'
    BY DEF ParentsFirst
  <2>3. CASE k # m
    BY <1>2, <1>3, <2>1, <2>3, OthersUntouched DEF Untouched
  <2>4. CASE k = m /\ OpenDraft(m)
    <3>1. PICK log \in Seq(Made) : log = Merged(run[m].from, run[m].base) /\ run'[m].from = log
      BY <2>4, OpenDraftRun
    <3>2. run[m].base = journal[m]
      BY <2>4 DEF OpenDraft, ReadJournal, Uploading
    <3>3. ParentsFirst(log)
      BY <1>2, <1>3, <3>1, <3>2, MergedParentsFirst
    <3> QED
      BY <2>1, <2>4, <3>1, <3>3
  <2>5. CASE k = m /\ ~OpenDraft(m)
    <3>1. run'[k].from \in {run[k].from, RemoteLog, <<>>}
      BY <2>5, ReadAfter
    <3> QED
      BY <1>2, <1>3, <2>1, <2>2, <3>1
  <2> QED
    BY <2>3, <2>4, <2>5
<1>8. ASSUME NEW k \in Machines, run'[k].pc = "rename" PROVE ParentsFirst(DraftLog)'
  <2>1. ASSUME NEW log \in Seq(Made), ParentsFirst(log), DraftLog' = log PROVE ParentsFirst(DraftLog)'
    <3>1. ParentsFirst(log)'
      BY <1>4, <2>1
    <3> QED
      BY <2>1, <3>1 DEF ParentsFirst
  <2>2. CASE k = m
    <3>1. WriteDraft(m)
      <4>1. CASE Push(m) /\ run' # run
        BY <1>8, <2>2, <4>1, PushRun
      <4>2. CASE ~(Push(m) /\ run' # run)
        BY <1>8, <2>2, <4>2, StepPushes DEF OnePush
      <4> QED
        BY <4>1, <4>2
    <3> QED
      BY <1>2, <1>3, <2>1, <3>1, AloneWrites
  <2>3. CASE k # m
    <3>1. run[k].pc = "rename"
      BY <1>8, <2>3, OthersUntouched DEF Untouched
    <3>2. DraftLog' = DraftLog
      BY <1>2, <2>3, <3>1, DraftsOfOthers DEF Drafting
    <3> QED
      BY <1>2, <1>3, <2>1, <3>1, <3>2
  <2> QED
    BY <2>2, <2>3
<1> QED
  BY <1>5, <1>6, <1>7, <1>8

-----------------------------------------------------------------------------
\* The stores of the machines.

\* What a journal names stays what it names.
LEMMA BlobsStay ==
  ASSUME TypeOK, Grows, NEW log \in Seq(Made)
  PROVE  BlobsOf(Ids(log))' = BlobsOf(Ids(log))
<1>1. Ids(log) \subseteq Made
  BY IdsOfLog
<1>2. \A id \in Ids(log) : commits'[id].blob = commits[id].blob
  BY <1>1 DEF Grows
<1> QED
  BY <1>2 DEF BlobsOf, BlobOf, Ids

\* The blobs of a journal left alone stay the same.
LEMMA JournalBlobsStay ==
  ASSUME TypeOK, Grows, NEW k \in Machines, journal'[k] = journal[k]
  PROVE  BlobsOf(Ids(journal[k]))' = BlobsOf(Ids(journal[k]))
<1>1. PICK log \in Seq(Made) : log = journal[k]
  BY DEF TypeOK
<1>2. BlobsOf(Ids(log))' = BlobsOf(Ids(log))
  BY BlobsStay
<1>3. BlobsOf(Ids(journal[k]))' = BlobsOf(Ids(log))'
  BY <1>1 DEF BlobsOf, BlobOf
<1> QED
  BY <1>1, <1>2, <1>3

\* The blobs of the logs a command read stay the same.
LEMMA ReadBlobsStay ==
  ASSUME TypeOK, Grows, NEW k \in Machines, SameCommand(run'[k], run[k])
  PROVE  /\ BlobsOf(Ids(run[k].from))' = BlobsOf(Ids(run[k].from))
         /\ BlobsOf(Ids(run[k].base))' = BlobsOf(Ids(run[k].base))
<1>1. run[k] \in Runs
  BY DEF TypeOK
<1>2. PICK from \in Seq(Made) : from = run[k].from
  BY <1>1 DEF Runs
<1>3. PICK base \in Seq(Made) : base = run[k].base
  BY <1>1 DEF Runs
<1>4. BlobsOf(Ids(from))' = BlobsOf(Ids(from)) /\ BlobsOf(Ids(base))' = BlobsOf(Ids(base))
  BY BlobsStay
<1>5. run'[k].from = from /\ run'[k].base = base
  BY <1>2, <1>3 DEF SameCommand
<1>6. /\ BlobsOf(Ids(run[k].from))' = BlobsOf(Ids(from))'
      /\ BlobsOf(Ids(run[k].base))' = BlobsOf(Ids(base))'
  BY <1>5 DEF BlobsOf, BlobOf
<1> QED
  BY <1>2, <1>3, <1>4, <1>6

\* A machine has its blobs as long as nobody touches it.
LEMMA KeptStable ==
  ASSUME TypeOK, Grows, NEW k \in Machines, Untouched(k), Kept(k)
  PROVE  Kept(k)'
<1>1. BlobsOf(Ids(journal[k]))' = BlobsOf(Ids(journal[k]))
  BY JournalBlobsStay DEF Untouched
<1>2. BlobsOf(Ids(run[k].from))' = BlobsOf(Ids(run[k].from))
  BY ReadBlobsStay DEF Untouched, SameCommand
<1>3. spoilt \subseteq spoilt' /\ run'[k] = run[k] /\ store'[k] = store[k]
  BY DEF Grows, Untouched
<1> QED
  BY <1>1, <1>2, <1>3 DEF Kept, Good

\* A command that changes nothing in the store of its machine.
LEMMA KeptAside ==
  ASSUME TypeOK, Grows, NEW m \in Machines, Kept(m),
         store'[m] = store[m], journal'[m] = journal[m],
         run[m].pc = "copy" => run[m].name \in spoilt',
         run'[m].pc \in {"idle", "blobs", "open", "upload", "draft", "rename", "pin"},
         run'[m].pc \in {"open", "upload"} => run'[m].name \in Blobs
  PROVE  Kept(m)'
<1>1. BlobsOf(Ids(journal[m]))' = BlobsOf(Ids(journal[m]))
  BY JournalBlobsStay
<1>2. spoilt \subseteq spoilt'
  BY DEF Grows
<1>3. \A b \in Blobs : store'[m][b] \in {Absent, b} \/ b \in spoilt'
  BY <1>2 DEF Kept
<1>4. \A b \in BlobsOf(Ids(journal[m])) : store'[m][b] = b \/ b \in spoilt'
  BY <1>2 DEF Kept, Good
<1> QED
  BY <1>1, <1>3, <1>4 DEF Kept, Good

\* A write at a machine changes one blob of it.
LEMMA OwnStore ==
  ASSUME TypeOK, NEW m \in Machines, NEW b \in Blobs, NEW c, Put(m, b, c)
  PROVE  \A x \in Blobs : store'[m][x] = IF x = b THEN c ELSE store[m][x]
BY DEF TypeOK, Put, Places

\* A write at the remote changes one blob of it, and no machine.
LEMMA RemoteStore ==
  ASSUME TypeOK, NEW m \in Machines, NEW b \in Blobs, NEW c, Put(Remote, b, c)
  PROVE  /\ store'[m] = store[m]
         /\ \A x \in Blobs : store'[Remote][x] = IF x = b THEN c ELSE store[Remote][x]
BY SaveChainsAssumption DEF TypeOK, Put, Places

\* Every step keeps the blobs of the journals at the machines.
LEMMA StepKeepsKept ==
  ASSUME TypeOK, NEW m \in Machines, Step(m), ReadJournal(m), Kept(m)
  PROVE  Kept(m)'
<1> DEFINE named == BlobsOf(Ids(journal[m]))
<1>1. Grows
  BY StepGrows DEF Next
<1>2. spoilt \subseteq spoilt'
  BY <1>1 DEF Grows
<1>3. journal[m] \in Seq(Made) /\ named \subseteq Blobs
  BY IdsOfLog, BlobsAreBlobs DEF TypeOK
<1>4. journal'[m] = journal[m] => BlobsOf(Ids(journal[m]))' = named
  BY <1>1, JournalBlobsStay
<1>5. run[m] \in Runs
  BY DEF TypeOK
<1> HIDE DEF named
<1>6. ASSUME NEW b \in Blobs, Commit(m, b) PROVE Kept(m)'
  <2>1. /\ run[m].pc = "idle" /\ run'[m].name = b
        /\ run'[m].pc = IF store[m][b] = Absent THEN "copy" ELSE "append"
    BY <1>6, CommitRun DEF Idle
  <2>2. \A x \in Blobs : store[m][x] \in {Absent, x} \/ x \in spoilt
    BY <2>1 DEF Kept
  <2>3. \A x \in named : store[m][x] = x \/ x \in spoilt
    BY DEF Kept, Good, named
  <2>4. journal' = journal /\ spoilt' = spoilt
    BY <1>6 DEF Commit, history
  <2>5. CASE store[m][b] = Absent
    <3>1. \A x \in Blobs : store'[m][x] = IF x = b THEN Torn ELSE store[m][x]
      BY <1>6, <2>5, OwnStore DEF Commit
    <3>2. \A x \in named : store'[m][x] = x \/ x \in spoilt
      <4> TAKE x \in named
      <4>1. x = b => store[m][x] # x
        BY <2>5, SaveChainsAssumption
      <4> QED
        BY <1>3, <2>3, <3>1, <4>1
    <3> QED
      BY <1>4, <2>1, <2>2, <2>4, <2>5, <3>1, <3>2 DEF Kept, Good
  <2>6. CASE store[m][b] # Absent
    <3>1. store' = store
      BY <1>6, <2>6 DEF Commit
    <3>2. store[m][b] = b \/ b \in spoilt
      BY <2>2, <2>6
    <3> QED
      BY <1>4, <2>1, <2>2, <2>3, <2>4, <2>6, <3>1, <3>2 DEF Kept, Good
  <2> QED
    BY <2>5, <2>6
<1>7. ASSUME (\E c \in Blobs : CopyFile(m, c)) \/ CopyFails(m) PROVE Kept(m)'
  <2>1. PICK b \in Blobs : b = run[m].name
    BY <1>7 DEF CopyFile, CopyFails, Kept
  <2>2. run'[m].pc = "append" /\ run'[m].name = b /\ run[m].pc = "copy" /\ journal' = journal
    BY <1>7, <2>1, CopyFileRun DEF CopyFile, CopyFails
  <2>3. PICK c : Put(m, b, c) /\ (c = b \/ b \in spoilt')
    BY <1>7, <2>1 DEF CopyFile, CopyFails
  <2>4. \A x \in Blobs : store'[m][x] = IF x = b THEN c ELSE store[m][x]
    BY <2>3, OwnStore
  <2>5. \A x \in Blobs : store'[m][x] \in {Absent, x} \/ x \in spoilt'
    BY <1>2, <2>1, <2>2, <2>3, <2>4 DEF Kept
  <2>6. \A x \in named : store'[m][x] = x \/ x \in spoilt'
    BY <1>2, <1>3, <2>3, <2>4 DEF Kept, Good, named
  <2>7. store'[m][b] = b \/ b \in spoilt'
    BY <2>3, <2>4
  <2> QED
    BY <1>4, <2>2, <2>5, <2>6, <2>7 DEF Kept, Good
<1>8. CASE AppendEntry(m) /\ journal' # journal
  <2>1. PICK id :
          /\ commits'[id] = [parent |-> HeadOf(journal[m]), blob |-> run[m].name]
          /\ journal'[m] = Append(journal[m], id)
          /\ run[m].pc = "append"
    BY <1>8, AppendedEntry
  <2>2. store' = store /\ spoilt' = spoilt
    BY <1>8 DEF AppendEntry, history
  <2>3. run'[m].pc = "idle"
    BY <1>8, EndRun DEF Idle
  <2>4. PICK log \in Seq(Made) : log = journal[m]
    BY <1>3
  <2>5. commits'[id].blob = run[m].name
    BY <2>1
  <2>7. Ids(Append(log, id)) \subseteq Ids(log) \cup {id}
    BY DEF Ids, ToSet
  <2>8. BlobsOf(Ids(log))' = named
    BY <1>1, <2>4, BlobsStay DEF named
  <2>9. journal'[m] = Append(log, id)
    BY <2>1, <2>4
  <2>10. BlobsOf(Ids(journal[m]))' \subseteq named \cup {run[m].name}
    BY <2>5, <2>7, <2>8, <2>9 DEF BlobsOf, BlobOf, Ids
  <2>11. \A x \in named \cup {run[m].name} : store[m][x] = x \/ x \in spoilt
    BY <2>1 DEF Kept, Good, named
  <2>12. \A x \in Blobs : store[m][x] \in {Absent, x} \/ x \in spoilt
    BY <2>1 DEF Kept
  <2> QED
    BY <2>2, <2>3, <2>10, <2>11, <2>12 DEF Kept, Good
<1>9. CASE AppendEntry(m) /\ journal' = journal
  <2>1. run'[m].pc = "idle" /\ store' = store /\ run[m].pc = "append"
    BY <1>9, EndRun DEF Idle, AppendEntry
  <2> QED
    BY <1>1, <1>9, <2>1, KeptAside
<1>10. CASE Crash(m)
  <2>1. run'[m].pc = "idle" /\ store' = store /\ journal' = journal
    <3>1. run'[m] = Idle
      BY <1>10, EndRun
    <3> QED
      BY <1>10, <3>1 DEF Idle, Crash
  <2>2. run[m].pc = "copy" => run[m].name \in spoilt'
    BY <1>10 DEF Crash
  <2> QED
    BY <1>1, <2>1, <2>2, KeptAside
<1>11. CASE Push(m)
  <2>1. store' = store /\ journal' = journal /\ run[m].pc = "idle"
    BY <1>11 DEF Push, Idle
  <2>2. run'[m].pc \in {"idle", "blobs"}
    BY <1>11, <2>1, PushRun
  <2> QED
    BY <1>1, <2>1, <2>2, KeptAside
<1>12. ASSUME NEW b \in Blobs, CheckBlob(m, b) PROVE Kept(m)'
  <2>1. store' = store /\ journal' = journal /\ run[m].pc = "blobs"
    BY <1>12 DEF CheckBlob, disk
  <2>2. run'[m].pc \in {"idle", "blobs"} \/ (run'[m].pc = "open" /\ run'[m].name \in Blobs)
    BY <1>12, CheckBlobRun DEF Idle
  <2> QED
    BY <1>1, <2>1, <2>2, KeptAside
<1>13. CASE OpenBlob(m) \/ UploadBlob(m)
  <2>1. run[m].name \in Blobs
    BY <1>13 DEF Kept, OpenBlob, UploadBlob
  <2>2. store'[m] = store[m] /\ journal' = journal /\ run[m].pc \in {"open", "upload"}
    BY <1>13, <2>1, RemoteStore DEF OpenBlob, UploadBlob
  <2>3. run'[m].pc = "blobs" \/ (run'[m].pc = "upload" /\ run'[m].name \in Blobs)
    BY <1>13, <2>1, OpenBlobRun, UploadBlobRun
  <2> QED
    BY <1>1, <2>2, <2>3, KeptAside
<1>14. CASE OpenDraft(m) \/ WriteDraft(m) \/ WriteRemote(m)
  <2>1. /\ store' = store /\ journal' = journal /\ run[m].pc \in {"blobs", "draft", "rename"}
        /\ run'[m].pc \in {"idle", "draft", "rename", "pin"}
    <3>1. /\ store' = store /\ journal' = journal /\ run[m].pc \in {"blobs", "draft", "rename"}
      BY <1>14 DEF OpenDraft, WriteDraft, WriteRemote
    <3>2. run'[m].pc \in {"idle", "draft", "rename", "pin"}
      BY <1>14, OpenDraftRun, WriteDraftRun, WriteRemoteRun DEF Idle
    <3> QED
      BY <3>1, <3>2
  <2> QED
    BY <1>1, <2>1, KeptAside
<1>15. CASE SetPin(m) \/ RewriteConfig(m)
  <2>1. /\ store' = store /\ journal' = journal /\ run[m].pc \in {"pin", "move"}
        /\ run'[m].pc = "idle"
    BY <1>15, EndRun DEF SetPin, RewriteConfig, Idle
  <2> QED
    BY <1>1, <2>1, KeptAside
<1>16. CASE Fetch(m)
  <2>1. /\ run[m].pc = "idle" /\ run'[m].pc = "install"
        /\ run'[m].from = RemoteLog /\ run'[m].todo = Missing(m)
    BY <1>16, FetchRun DEF Idle
  <2>2. store' = store /\ journal' = journal /\ commits' = commits /\ spoilt' = spoilt
    BY <1>16 DEF Fetch, disk, history
  <2>3. BlobsOf(Ids(run[m].from))' = BlobsOf(Ids(RemoteLog))
    BY <2>1, <2>2 DEF BlobsOf, BlobOf
  <2>4. \A b \in BlobsOf(Ids(RemoteLog)) : b \in Missing(m) \/ store[m][b] # Absent
    BY DEF Missing
  <2> QED
    BY <1>4, <2>1, <2>2, <2>3, <2>4 DEF Kept, Good, named
<1>17. ASSUME NEW b \in Blobs, InstallBlob(m, b) PROVE Kept(m)'
  <2>1. /\ SameCommand(run'[m], run[m]) /\ run'[m].pc = "install" /\ run[m].pc = "install"
        /\ run'[m].todo = run[m].todo \ {b}
    BY <1>17, OneBlobRun DEF InstallBlob
  <2>2. journal' = journal /\ spoilt' = spoilt
    BY <1>17 DEF InstallBlob, history
  <2>3. BlobsOf(Ids(run[m].from))' = BlobsOf(Ids(run[m].from))
    BY <1>1, <2>1, ReadBlobsStay
  <2>4. \A x \in Blobs : store'[m][x] = store[m][x] \/ (x = b /\ store[m][x] = Absent /\ store'[m][x] = x)
    BY <1>17, OwnStore DEF InstallBlob
  <2>5. store'[m][b] # Absent
    BY <1>17, OwnStore, SaveChainsAssumption DEF InstallBlob
  <2>6. \A x \in Blobs : store'[m][x] \in {Absent, x} \/ x \in spoilt
    BY <2>1, <2>4 DEF Kept
  <2>7. \A x \in named : store'[m][x] = x \/ x \in spoilt
    BY <1>3, <2>4 DEF Kept, Good, named
  <2>8. \A x \in BlobsOf(Ids(run[m].from)) : x \in run[m].todo \ {b} \/ store'[m][x] # Absent
    <3>1. BlobsOf(Ids(run[m].from)) \subseteq Blobs
      BY <1>5, IdsOfLog, BlobsAreBlobs DEF Runs
    <3>2. \A x \in BlobsOf(Ids(run[m].from)) : x \in run[m].todo \/ store[m][x] # Absent
      BY <2>1 DEF Kept
    <3> QED
      BY <2>4, <2>5, <3>1, <3>2
  <2> QED
    BY <1>4, <2>1, <2>2, <2>3, <2>6, <2>7, <2>8 DEF Kept, Good
<1>18. CASE WriteJournal(m)
  <2>1. run'[m].pc = "pin" /\ run[m].pc = "install" /\ run[m].todo = {} /\ run[m].base = journal[m]
    BY <1>18, WriteJournalRun DEF WriteJournal, ReadJournal
  <2>2. store' = store /\ spoilt' = spoilt /\ commits' = commits
    BY <1>18 DEF WriteJournal, history
  <2>3. journal'[m] = Merged(journal[m], run[m].from)
    BY <1>18, <2>1 DEF WriteJournal, TypeOK
  <2>4. run[m].from \in Seq(Made)
    BY <1>5 DEF Runs
  <2>5. Ids(Merged(journal[m], run[m].from)) = Ids(journal[m]) \cup Ids(run[m].from)
    BY <1>3, <2>4, MergedMade
  <2>6. BlobsOf(Ids(journal[m]))' = named \cup BlobsOf(Ids(run[m].from))
    BY <2>2, <2>3, <2>5 DEF BlobsOf, BlobOf, Ids, named
  <2>7. \A x \in Blobs : store[m][x] \in {Absent, x} \/ x \in spoilt
    BY <2>1 DEF Kept
  <2>8. BlobsOf(Ids(run[m].from)) \subseteq Blobs
    BY <2>4, IdsOfLog, BlobsAreBlobs
  <2>9. \A x \in named \cup BlobsOf(Ids(run[m].from)) : store[m][x] = x \/ x \in spoilt
    BY <2>1, <2>7, <2>8 DEF Kept, Good, named
  <2> QED
    BY <2>1, <2>2, <2>6, <2>7, <2>9 DEF Kept, Good
<1>19. CASE Fix(m)
  <2>1. run[m].pc = "idle" /\ run'[m].pc = "move" /\ run'[m].todo = Orphans(m)
    <3>1. run[m] = Idle
      BY <1>19 DEF Fix, Start
    <3> QED
      BY <1>19, <3>1, FixRun DEF Idle
  <2>2. store' = store /\ journal' = journal /\ spoilt' = spoilt
    BY <1>19 DEF Fix, disk, history
  <2>3. Orphans(m) \cap named = {}
    BY DEF Orphans, named
  <2> QED
    BY <1>4, <2>1, <2>2, <2>3 DEF Kept, Good, named
<1>20. ASSUME NEW b \in Blobs, MoveOrphan(m, b) PROVE Kept(m)'
  <2>1. /\ run'[m].pc = "move" /\ run[m].pc = "move" /\ b \in run[m].todo
        /\ run'[m].todo = run[m].todo \ {b}
    BY <1>20, OneBlobRun DEF MoveOrphan
  <2>2. journal' = journal /\ spoilt' = spoilt
    BY <1>20 DEF MoveOrphan, history
  <2>3. \A x \in Blobs : store'[m][x] = IF x = b THEN Absent ELSE store[m][x]
    BY <1>20, OwnStore DEF MoveOrphan
  <2>4. b \notin named /\ (run[m].todo \ {b}) \cap named = {}
    BY <2>1 DEF Kept, named
  <2>5. \A x \in Blobs : store'[m][x] \in {Absent, x} \/ x \in spoilt
    BY <2>1, <2>3 DEF Kept
  <2>6. \A x \in named : store'[m][x] = x \/ x \in spoilt
    BY <1>3, <2>3, <2>4 DEF Kept, Good, named
  <2> QED
    BY <1>4, <2>1, <2>2, <2>4, <2>5, <2>6 DEF Kept, Good
<1> QED
  BY <1>6, <1>7, <1>8, <1>9, <1>10, <1>11, <1>12, <1>13, <1>14, <1>15, <1>16, <1>17, <1>18, <1>19, <1>20
  DEF Step

-----------------------------------------------------------------------------
\* The blobs of the remote.

\* The blob a push copies is stored on its machine, or its name is spoilt.
LEMMA SourceIsKept ==
  ASSUME NEW m \in Machines, Kept(m), ReadJournal(m), Uploaded(m), run[m].pc = "upload"
  PROVE  Good(m, run[m].name) \/ run[m].name \in spoilt
BY DEF Kept, ReadJournal, Uploaded, Uploading

\* No step spoils a blob at the remote unnoticed.
LEMMA StepKeepsFine ==
  ASSUME TypeOK, NEW m \in Machines, Step(m), Kept(m), ReadJournal(m), Uploaded(m),
         NEW b \in Blobs, Fine(b)
  PROVE  Fine(b)'
<1>1. spoilt \subseteq spoilt' /\ damaged \subseteq damaged'
  BY StepGrows DEF Next, Grows
<1>2. ASSUME store'[Remote] = store[Remote] PROVE Fine(b)'
  BY <1>1, <1>2 DEF Fine, Good
<1>3. ASSUME NEW x \in Blobs, NEW c, Put(m, x, c) PROVE store'[Remote] = store[Remote]
  BY <1>3, SaveChainsAssumption DEF TypeOK, Put, Places
<1>4. CASE OpenBlob(m)
  <2>1. PICK name \in Blobs : name = run[m].name
    BY <1>4 DEF OpenBlob, Kept
  <2>2. \A x \in Blobs : store'[Remote][x] = IF x = name THEN Torn ELSE store[Remote][x]
    BY <1>4, <2>1, RemoteStore DEF OpenBlob
  <2>3. store[Remote][name] = Absent \/ name \in spoilt'
    BY <1>4, <2>1 DEF OpenBlob
  <2> QED
    BY <1>1, <2>2, <2>3, SaveChainsAssumption DEF Fine, Good
<1>5. CASE UploadBlob(m)
  <2>1. PICK name \in Blobs : name = run[m].name
    BY <1>5 DEF UploadBlob, Kept
  <2>2. \A x \in Blobs : store'[Remote][x] = IF x = name THEN store[m][name] ELSE store[Remote][x]
    BY <1>5, <2>1, RemoteStore DEF UploadBlob
  <2>3. store[m][name] = name \/ name \in spoilt
    BY <1>5, <2>1, SourceIsKept DEF UploadBlob, Good
  <2> QED
    BY <1>1, <2>2, <2>3 DEF Fine, Good
<1>6. ASSUME \/ CopyFails(m)
             \/ \E c \in Blobs : Commit(m, c) \/ CopyFile(m, c) \/ InstallBlob(m, c) \/ MoveOrphan(m, c)
      PROVE  store'[Remote] = store[Remote]
  <2>1. CASE store' = store
    BY <2>1
  <2>2. CASE store' # store
    <3>1. (\E c \in Blobs : CopyFile(m, c)) \/ CopyFails(m) => run[m].name \in Blobs
      BY DEF CopyFile, CopyFails, Kept
    <3>2. \E x \in Blobs : \E v : Put(m, x, v)
      BY <1>6, <2>2, <3>1 DEF Commit, CopyFile, CopyFails, InstallBlob, MoveOrphan
    <3> QED
      BY <1>3, <3>2
  <2> QED
    BY <2>1, <2>2
<1> QED
  BY <1>2, <1>4, <1>5, <1>6
  DEF Step, disk, history, AppendEntry, Push, CheckBlob, OpenDraft, WriteDraft, WriteRemote, Fetch,
    WriteJournal, SetPin, Fix, RewriteConfig, Crash

\* A mishap that spoils one is recorded.
LEMMA MishapKeepsFine ==
  ASSUME TypeOK, RollBack \/ (\E b \in Blobs : DamageBlob(b)) \/ UNCHANGED vars,
         NEW b \in Blobs, Fine(b)
  PROVE  Fine(b)'
<1>1. CASE RollBack \/ UNCHANGED vars
  BY <1>1 DEF RollBack, vars, disk, history, Fine, Good
<1>2. ASSUME NEW c \in Blobs, DamageBlob(c) PROVE Fine(b)'
  <2>1. store' = [store EXCEPT ![Remote][c] = Torn] /\ spoilt' = spoilt /\ damaged' = damaged \cup {c}
    BY <1>2 DEF DamageBlob, Put
  <2>2. b # c => store'[Remote][b] = store[Remote][b]
    BY <2>1 DEF TypeOK, Places
  <2> QED
    BY <2>1, <2>2 DEF Fine, Good
<1> QED
  BY <1>1, <1>2

\* What a push has uploaded stays as long as nobody touches its machine.
LEMMA UploadedStable ==
  ASSUME TypeOK, Grows, NEW k \in Machines, Untouched(k), Uploaded(k),
         \A b \in Blobs : Fine(b) => Fine(b)'
  PROVE  Uploaded(k)'
<1>1. /\ BlobsOf(Ids(run[k].from))' = BlobsOf(Ids(run[k].from))
      /\ BlobsOf(Ids(run[k].base))' = BlobsOf(Ids(run[k].base))
  BY ReadBlobsStay DEF Untouched, SameCommand
<1>2. /\ BlobsOf(Ids(run[k].from) \cup Ids(run[k].base)) =
           BlobsOf(Ids(run[k].from)) \cup BlobsOf(Ids(run[k].base))
      /\ BlobsOf(Ids(run[k].from) \cup Ids(run[k].base))' =
           BlobsOf(Ids(run[k].from))' \cup BlobsOf(Ids(run[k].base))'
  BY DEF BlobsOf
<1>3. BlobsOf(Ids(run[k].from) \cup Ids(run[k].base)) \subseteq Blobs
  <2>1. run[k] \in Runs
    BY DEF TypeOK
  <2> QED
    BY <1>2, <2>1, IdsOfLog, BlobsAreBlobs DEF Runs
<1>4. run'[k] = run[k]
  BY DEF Untouched
<1> QED
  BY <1>1, <1>2, <1>3, <1>4 DEF Uploaded, Uploading

\* Every step keeps the push owing only the blobs it has yet to send.
LEMMA StepKeepsUploaded ==
  ASSUME TypeOK, NEW m \in Machines, Step(m), Kept(m), ReadJournal(m), Uploaded(m), RemoteFine
  PROVE  Uploaded(m)'
<1> DEFINE base == BlobsOf(Ids(run[m].base))
           both == BlobsOf(Ids(run[m].from) \cup Ids(run[m].base))
<1>1. Grows /\ run[m] \in Runs
  BY StepGrows DEF Next, TypeOK
<1>2. both = BlobsOf(Ids(run[m].from)) \cup base /\ both \subseteq Blobs
  <2>1. both = BlobsOf(Ids(run[m].from)) \cup base
    BY DEF BlobsOf
  <2> QED
    BY <1>1, <2>1, IdsOfLog, BlobsAreBlobs DEF Runs
<1>3. \A b \in Blobs : Fine(b) => Fine(b)'
  BY StepKeepsFine
<1>4. ASSUME SameCommand(run'[m], run[m])
      PROVE  /\ BlobsOf(Ids(run[m].base))' = base
             /\ BlobsOf(Ids(run[m].from) \cup Ids(run[m].base))' = both
  <2>1. /\ BlobsOf(Ids(run[m].from))' = BlobsOf(Ids(run[m].from))
        /\ BlobsOf(Ids(run[m].base))' = base
    BY <1>1, <1>4, ReadBlobsStay
  <2>2. BlobsOf(Ids(run[m].from) \cup Ids(run[m].base))' =
          BlobsOf(Ids(run[m].from))' \cup BlobsOf(Ids(run[m].base))'
    BY DEF BlobsOf
  <2> QED
    BY <1>2, <2>1, <2>2
<1> HIDE DEF base, both
<1>5. Uploading(m) =>
        /\ run[m].todo \subseteq base
        /\ run[m].pc # "blobs" => run[m].name \in base
        /\ \A b \in both : b \in run[m].todo \/ (run[m].pc # "blobs" /\ b = run[m].name) \/ Fine(b)
  BY DEF Uploaded, base, both
<1>6. ASSUME run'[m].pc \notin {"blobs", "open", "upload"} PROVE Uploaded(m)'
  BY <1>6 DEF Uploaded, Uploading
<1>7. CASE Push(m) /\ run' # run
  <2>1. /\ run'[m].pc = "blobs" /\ run'[m].base = journal[m] /\ run'[m].from = RemoteLog
        /\ run'[m].todo = BlobsOf(NewTo(RemoteLog, journal[m]))
    BY <1>7, PushRun
  <2>2. commits' = commits /\ \A b : Fine(b)' = Fine(b)
    BY <1>7 DEF Push, Fine, Good
  <2>3. BlobsOf(Ids(run[m].base))' = BlobsOf(Ids(journal[m]))
    BY <2>1, <2>2 DEF BlobsOf, BlobOf
  <2>4. BlobsOf(Ids(run[m].from) \cup Ids(run[m].base))' = BlobsOf(Ids(RemoteLog) \cup Ids(journal[m]))
    BY <2>1, <2>2 DEF BlobsOf, BlobOf
  <2>5. BlobsOf(NewTo(RemoteLog, journal[m])) \subseteq BlobsOf(Ids(journal[m]))
    BY DEF BlobsOf, NewTo
  <2>6. \A b \in BlobsOf(Ids(RemoteLog) \cup Ids(journal[m])) :
          b \in BlobsOf(NewTo(RemoteLog, journal[m])) \/ b \in BlobsOf(Ids(RemoteLog))
    BY DEF BlobsOf, NewTo
  <2>7. \A b \in BlobsOf(Ids(RemoteLog) \cup Ids(journal[m])) :
          b \in run'[m].todo \/ Fine(b)'
    BY <2>1, <2>2, <2>6 DEF RemoteFine, FineLog
  <2> QED
    BY <2>1, <2>3, <2>4, <2>5, <2>7 DEF Uploaded, Uploading
<1>8. CASE Push(m) /\ run' = run
  BY <1>6, <1>8 DEF Push, Idle
<1>9. ASSUME NEW b \in Blobs, CheckBlob(m, b) PROVE Uploaded(m)'
  <2>1. CASE run'[m] = Idle
    BY <1>6, <2>1 DEF Idle
  <2>2. CASE run'[m] # Idle
    <3>1. /\ SameCommand(run'[m], run[m])
          /\ run[m].pc = "blobs" /\ b \in run[m].todo
          /\ run'[m].todo = run[m].todo \ {b}
          /\ \/ run'[m].pc = "blobs" /\ Good(Remote, b)
             \/ run'[m].pc = "open" /\ run'[m].name = b
      BY <1>9, <2>2, CheckBlobRun
    <3>2. run[m].todo \subseteq base /\ \A x \in both : x \in run[m].todo \/ Fine(x)
      BY <1>5, <3>1 DEF Uploading
    <3>3. \A x \in both : Fine(x) => Fine(x)'
      BY <1>2, <1>3
    <3>4. CASE run'[m].pc = "blobs" /\ Good(Remote, b)
      <4>1. Fine(b)'
        BY <1>3, <3>4 DEF Fine
      <4>2. \A x \in both : x \in run[m].todo \ {b} \/ Fine(x)'
        BY <3>2, <3>3, <4>1
      <4> QED
        BY <1>4, <3>1, <3>2, <3>4, <4>2 DEF Uploaded, Uploading
    <3>5. CASE run'[m].pc = "open" /\ run'[m].name = b
      BY <1>4, <3>1, <3>2, <3>3, <3>5 DEF Uploaded, Uploading
    <3> QED
      BY <3>1, <3>4, <3>5
  <2> QED
    BY <2>1, <2>2
<1>10. CASE OpenBlob(m)
  <2>1. /\ SameCommand(run'[m], run[m]) /\ run[m].pc = "open" /\ run'[m].pc = "upload"
        /\ run'[m].name = run[m].name /\ run'[m].todo = run[m].todo
    BY <1>10, OpenBlobRun
  <2>2. /\ run[m].todo \subseteq base /\ run[m].name \in base
        /\ \A x \in both : x \in run[m].todo \/ x = run[m].name \/ Fine(x)'
    BY <1>2, <1>3, <1>5, <2>1 DEF Uploading
  <2> QED
    BY <1>4, <2>1, <2>2 DEF Uploaded, Uploading
<1>11. CASE UploadBlob(m)
  <2>1. /\ SameCommand(run'[m], run[m]) /\ run[m].pc = "upload" /\ run'[m].pc = "blobs"
        /\ run'[m].todo = run[m].todo
    BY <1>11, UploadBlobRun
  <2>2. PICK name \in Blobs : name = run[m].name
    BY <2>1 DEF Kept
  <2>3. Fine(name)'
    <3>1. store'[Remote][name] = store[m][name]
      BY <1>11, <2>2, RemoteStore DEF UploadBlob
    <3>2. store[m][name] = name \/ name \in spoilt
      BY <2>1, <2>2, SourceIsKept DEF Good
    <3>3. spoilt' = spoilt
      BY <1>11 DEF UploadBlob, history
    <3> QED
      BY <3>1, <3>2, <3>3 DEF Fine, Good
  <2>4. /\ run[m].todo \subseteq base
        /\ \A x \in both : x \in run[m].todo \/ Fine(x)'
    BY <1>2, <1>3, <1>5, <2>1, <2>2, <2>3 DEF Uploading
  <2> QED
    BY <1>4, <2>1, <2>4 DEF Uploaded, Uploading
<1>12. CASE ~(Push(m) \/ OpenBlob(m) \/ UploadBlob(m) \/ \E b \in Blobs : CheckBlob(m, b))
  <2>1. AppendEntry(m) \/ SetPin(m) \/ RewriteConfig(m) \/ Crash(m) => run'[m].pc = "idle"
    BY EndRun DEF Idle
  <2>2. \A b \in Blobs : Commit(m, b) => run'[m].pc \in {"copy", "append"}
    BY CommitRun
  <2>3. (\E b \in Blobs : CopyFile(m, b)) \/ CopyFails(m) => run'[m].pc = "append"
    BY CopyFileRun
  <2>4. \A b \in Blobs : InstallBlob(m, b) \/ MoveOrphan(m, b) => run'[m].pc \in {"install", "move"}
    BY OneBlobRun DEF InstallBlob, MoveOrphan
  <2>5. WriteJournal(m) \/ Fetch(m) \/ Fix(m) => run'[m].pc \in {"pin", "install", "move"}
    BY WriteJournalRun, FetchRun, FixRun
  <2>6. OpenDraft(m) \/ WriteDraft(m) \/ WriteRemote(m) => run'[m].pc \in {"idle", "draft", "rename", "pin"}
    BY OpenDraftRun, WriteDraftRun, WriteRemoteRun DEF Idle
  <2> QED
    BY <1>6, <1>12, <2>1, <2>2, <2>3, <2>4, <2>5, <2>6 DEF Step
<1> QED
  BY <1>7, <1>8, <1>9, <1>10, <1>11, <1>12

\* What is made of the ids of logs whose blobs are there has its blobs there.
LEMMA FineLogStays ==
  ASSUME TypeOK, Grows, \A b \in Blobs : Fine(b) => Fine(b)',
         NEW old \in Seq(Made), NEW more \in Seq(Made), FineLog(old), FineLog(more),
         NEW new \in Seq(Made), Ids(new) \subseteq Ids(old) \cup Ids(more)
  PROVE  FineLog(new)'
<1>1. BlobsOf(Ids(new))' = BlobsOf(Ids(new)) /\ BlobsOf(Ids(new)) \subseteq Blobs
  BY BlobsStay, IdsOfLog, BlobsAreBlobs
<1>2. \A b \in BlobsOf(Ids(new)) : Fine(b)
  BY DEF FineLog, BlobsOf
<1> QED
  BY <1>1, <1>2 DEF FineLog

\* Every step keeps the blobs of the remote log, and of what may become it, at the remote.
LEMMA StepKeepsRemoteFine ==
  ASSUME TypeOK, OnePush, OneDraft, NEW m \in Machines, Step(m),
         Kept(m), ReadJournal(m), Uploaded(m), RemoteFine
  PROVE  RemoteFine'
<1>1. Grows /\ RemoteLog \in Seq(Made) /\ DraftLog \in Seq(Made) /\ <<>> \in Seq(Made)
  BY StepGrows, RemoteLogType, EmptyLog DEF Next
<1>2. \A b \in Blobs : Fine(b) => Fine(b)'
  BY StepKeepsFine
<1>3. FineLog(<<>>) /\ FineLog(RemoteLog) /\ FineLog(DraftLog)
  BY DEF RemoteFine, FineLog, BlobsOf, Ids, ToSet
<1>4. ASSUME NEW old \in Seq(Made), NEW more \in Seq(Made), FineLog(old), FineLog(more),
             NEW new \in Seq(Made), Ids(new) \subseteq Ids(old) \cup Ids(more)
      PROVE  FineLog(new)'
  BY <1>1, <1>2, <1>4, FineLogStays
<1>5. \A log \in {<<>>, RemoteLog, DraftLog} :
        /\ RemoteLog' = log => FineLog(RemoteLog)'
        /\ DraftLog' = log => FineLog(DraftLog)'
  <2> TAKE log \in {<<>>, RemoteLog, DraftLog}
  <2>1. PICK l \in Seq(Made) : l = log /\ FineLog(l)
    BY <1>1, <1>3
  <2>2. FineLog(l)'
    BY <1>4, <2>1
  <2>3. RemoteLog' = l => FineLog(RemoteLog)'
    BY <2>2 DEF FineLog, BlobsOf, BlobOf
  <2>4. DraftLog' = l => FineLog(DraftLog)'
    BY <2>2 DEF FineLog, BlobsOf, BlobOf
  <2> QED
    BY <2>1, <2>3, <2>4
<1>6. FineLog(RemoteLog)' /\ FineLog(DraftLog)'
  <2>1. CASE OpenDraft(m)
    <3>1. RemoteLog' = RemoteLog /\ DraftLog' = <<>>
      <4>1. remote' = remote /\ draft' = <<>>
        BY <2>1 DEF OpenDraft
      <4> QED
        BY <4>1 DEF RemoteLog, DraftLog
    <3> QED
      BY <1>5, <3>1
  <2>2. CASE WriteRemote(m)
    <3>1. RemoteLog' = RemoteLog \/ RemoteLog' = DraftLog
      BY <2>2, RenamedRemote
    <3>2. DraftLog' = DraftLog \/ DraftLog' = <<>>
      <4>1. draft' = draft \/ draft' = None
        BY <2>2 DEF WriteRemote, drafts
      <4> QED
        BY <4>1 DEF DraftLog
    <3> QED
      BY <1>5, <3>1, <3>2
  <2>3. CASE WriteDraft(m)
    <3>1. PICK from \in Seq(Made) : from = run[m].from /\ FineLog(from) /\ run[m].pc = "draft"
      BY <2>3, WriteDraftRun DEF RemoteFine
    <3>2. CASE m \in writers
      <4>1. draft' \in Overlaid(draft, from) /\ remote' = remote /\ draft \in Seq(Made) \cup {Torn}
        BY <2>3, <3>1, <3>2 DEF WriteDraft, OneDraft, TypeOK, Logs
      <4>2. PICK new \in Seq(Made) : new = DraftLog' /\ Ids(new) \subseteq Ids(from) \cup Ids(DraftLog)
        <5>1. /\ draft' = Torn \/ (draft' \in Seq(Made) /\ Ids(draft') \subseteq Ids(from) \cup
                                     (IF draft = Torn THEN {} ELSE Ids(draft)))
          BY <4>1, OverlaidLogs
        <5>2. CASE draft' = Torn
          <6>1. DraftLog' = <<>> /\ Ids(<<>>) = {}
            BY <5>2 DEF DraftLog, Ids, ToSet
          <6> QED
            BY <1>1, <6>1
        <5>3. CASE draft' \in Seq(Made)
          <6>1. DraftLog' = draft'
            BY <5>3, LogsAreSome DEF DraftLog
          <6>2. draft # Torn => DraftLog = draft
            BY <4>1, LogsAreSome DEF DraftLog
          <6> QED
            BY <5>1, <5>3, <6>1, <6>2, LogsAreSome
        <5> QED
          BY <5>1, <5>2, <5>3
      <4>3. FineLog(new)'
        BY <1>1, <1>3, <1>4, <3>1, <4>2
      <4>4. FineLog(DraftLog)'
        BY <4>2, <4>3 DEF FineLog, BlobsOf, BlobOf
      <4>5. RemoteLog' = RemoteLog
        BY <4>1 DEF RemoteLog
      <4> QED
        BY <1>5, <4>4, <4>5
    <3>3. CASE m \notin writers
      <4>0. run[m].kind = "push"
        BY <3>1 DEF OnePush, Drafting
      <4>1. /\ remote' \in {remote} \cup Overlaid(remote, from) /\ draft' = draft
            /\ remote \in Seq(Made) \cup {Torn}
        BY <2>3, <3>1, <3>3, <4>0 DEF WriteDraft, OneDraft, TypeOK, Logs
      <4>2. DraftLog' = DraftLog
        BY <4>1 DEF DraftLog
      <4>3. CASE remote' = remote
        <5>1. RemoteLog' = RemoteLog
          BY <4>3 DEF RemoteLog
        <5> QED
          BY <1>5, <4>2, <5>1
      <4>4. CASE remote' \in Overlaid(remote, from)
        <5>1. PICK new \in Seq(Made) : new = RemoteLog' /\ Ids(new) \subseteq Ids(from) \cup Ids(RemoteLog)
          <6>1. remote' = Torn \/ (remote' \in Seq(Made) /\ Ids(remote') \subseteq Ids(from) \cup
                                       (IF remote = Torn THEN {} ELSE Ids(remote)))
            BY <4>1, <4>4, OverlaidLogs
          <6>2. CASE remote' = Torn
            <7>1. RemoteLog' = <<>> /\ Ids(<<>>) = {}
              BY <6>2 DEF RemoteLog, Ids, ToSet
            <7> QED
              BY <1>1, <7>1
          <6>3. CASE remote' \in Seq(Made)
            <7>1. RemoteLog' = remote'
              BY <6>3, LogsAreSome DEF RemoteLog
            <7>2. remote # Torn => RemoteLog = remote
              BY <4>1, LogsAreSome DEF RemoteLog
            <7> QED
              BY <6>1, <6>3, <7>1, <7>2, LogsAreSome
          <6> QED
            BY <6>1, <6>2, <6>3
        <5>2. FineLog(new)'
          BY <1>1, <1>3, <1>4, <3>1, <5>1
        <5>3. FineLog(RemoteLog)'
          BY <5>1, <5>2 DEF FineLog, BlobsOf, BlobOf
        <5> QED
          BY <1>5, <4>2, <5>3
      <4> QED
        BY <4>1, <4>3, <4>4
    <3> QED
      BY <3>2, <3>3
  <2>4. CASE ~(OpenDraft(m) \/ WriteDraft(m) \/ WriteRemote(m))
    BY <1>5, <2>4, OtherSteps
  <2> QED
    BY <2>1, <2>2, <2>3, <2>4
<1>7. ASSUME NEW k \in Machines, run'[k].pc = "draft" PROVE FineLog(run[k].from)'
  <2>1. ASSUME NEW log \in Seq(Made), FineLog(log)', run'[k].from = log PROVE FineLog(run[k].from)'
    BY <2>1 DEF FineLog, BlobsOf, BlobOf
  <2>2. CASE k # m
    <3>1. run'[k] = run[k] /\ run[k] \in Runs
      BY <2>2, OthersUntouched DEF Untouched, TypeOK
    <3>2. run[k].from \in Seq(Made) /\ FineLog(run[k].from)
      BY <1>7, <3>1 DEF Runs, RemoteFine
    <3>3. PICK log \in Seq(Made) : log = run[k].from
      BY <3>2
    <3>4. FineLog(log)'
      BY <1>4, <3>2, <3>3
    <3> QED
      BY <2>1, <3>1, <3>3, <3>4
  <2>3. CASE k = m
    <3>1. OpenDraft(m)
      <4>1. CASE Push(m) /\ run' # run
        BY <1>7, <2>3, <4>1, PushRun
      <4>2. CASE ~(Push(m) /\ run' # run)
        BY <1>7, <2>3, <4>2, StepPushes DEF OnePush
      <4> QED
        BY <4>1, <4>2
    <3>2. PICK log \in Seq(Made) :
            log = run'[m].from /\ Ids(log) = Ids(run[m].from) \cup Ids(run[m].base)
      BY <3>1, OpenDraftRun
    <3>3. run[m].pc = "blobs" /\ run[m].todo = {}
      BY <3>1 DEF OpenDraft
    <3>4. \A b \in BlobsOf(Ids(run[m].from) \cup Ids(run[m].base)) : Fine(b)
      BY <3>3 DEF Uploaded, Uploading
    <3>5. FineLog(log)
      BY <3>2, <3>4 DEF FineLog
    <3>6. FineLog(log)'
      BY <1>4, <3>5
    <3> QED
      BY <2>1, <2>3, <3>2, <3>6
  <2> QED
    BY <2>2, <2>3
<1> QED
  BY <1>6, <1>7 DEF RemoteFine

-----------------------------------------------------------------------------
\* The invariant.

\* A mishap shortens the journal of the remote, or damages a blob, and nothing else.
LEMMA MishapKeepsRemote ==
  ASSUME TypeOK, Ordered, RemoteFine,
         RollBack \/ (\E b \in Blobs : DamageBlob(b)) \/ UNCHANGED vars
  PROVE  Ordered' /\ RemoteFine'
<1>1. /\ RemoteLog \in Seq(Made) /\ RemoteLog' \in Seq(Made) /\ IsPrefix(RemoteLog', RemoteLog)
      /\ DraftLog \in Seq(Made)
      /\ commits' = commits
      /\ \A k \in Machines : journal'[k] = journal[k] /\ run'[k] = run[k]
  BY MishapTypes, MishapShortens, RemoteLogType DEF Untouched
<1>0. DraftLog' = DraftLog /\ mixed' = mixed
  BY MishapKeepsDrafts
<1>2. PICK new \in Seq(Made) : new = RemoteLog'
  BY <1>1
<1>3. PICK old \in Seq(Made) : old = RemoteLog
  BY <1>1
<1>4. Len(new) <= Len(old) /\ \A i \in 1 .. Len(new) : new[i] = old[i]
  <2>1. new \in Seq(Nat) /\ old \in Seq(Nat) /\ IsPrefix(new, old)
    BY <1>1, <1>2, <1>3, LogsAreNumbers
  <2> QED
    BY <2>1, PrefixElements
<1>5. ASSUME ~mixed PROVE ParentsFirst(RemoteLog)'
  <2>1. ParentsFirst(old)
    BY <1>3, <1>5 DEF Ordered
  <2>2. \A i \in DOMAIN new : commits[new[i]].parent # None /\ commits[new[i]].parent < new[i] =>
          \E j \in 1 .. i - 1 : new[j] = commits[new[i]].parent
    <3> TAKE i \in DOMAIN new
    <3> HAVE commits[new[i]].parent # None /\ commits[new[i]].parent < new[i]
    <3>1. i \in 1 .. Len(new) /\ i \in DOMAIN old /\ new[i] = old[i] /\ Len(new) \in Nat
      BY <1>4
    <3>2. PICK j \in 1 .. i - 1 : old[j] = commits[new[i]].parent
      BY <2>1, <3>1 DEF ParentsFirst
    <3>3. j \in 1 .. Len(new)
      BY <3>1
    <3> QED
      BY <1>4, <3>2, <3>3
  <2> QED
    BY <1>1, <1>2, <2>2 DEF ParentsFirst
<1>6. Ordered'
  <2> SUFFICES ASSUME ~mixed
               PROVE  \A k \in Machines :
                        /\ ParentsFirst(journal[k])' /\ ParentsFirst(run[k].from)'
                        /\ run'[k].pc = "rename" => ParentsFirst(DraftLog)'
    BY <1>0, <1>5 DEF Ordered
  <2>1. \A k \in Machines :
          /\ ParentsFirst(journal[k]) /\ ParentsFirst(run[k].from)
          /\ run[k].pc = "rename" => ParentsFirst(DraftLog)
    BY DEF Ordered
  <2>2. ASSUME NEW k \in Machines PROVE ParentsFirst(journal[k])' /\ ParentsFirst(run[k].from)'
    <3>1. ParentsFirst(journal[k]) /\ journal'[k] = journal[k] /\ commits' = commits
      BY <1>1, <2>1
    <3>2. ParentsFirst(run[k].from) /\ run'[k] = run[k]
      BY <1>1, <2>1
    <3>3. ParentsFirst(journal[k])'
      BY <3>1 DEF ParentsFirst
    <3>4. ParentsFirst(run[k].from)'
      BY <3>1, <3>2 DEF ParentsFirst
    <3> QED
      BY <3>3, <3>4
  <2>3. ParentsFirst(DraftLog) => ParentsFirst(DraftLog)'
    BY <1>0, <1>1 DEF ParentsFirst
  <2> QED
    BY <1>1, <2>1, <2>2, <2>3
<1>7. RemoteFine'
  <2>1. Ids(new) \subseteq Ids(old)
    BY <1>4 DEF Ids, ToSet
  <2>2. Grows
    BY StepGrows DEF Next
  <2>3. \A b \in Blobs : Fine(b) => Fine(b)'
    BY MishapKeepsFine
  <2>4. ASSUME NEW log \in Seq(Made), FineLog(log), NEW shorter \in Seq(Made), Ids(shorter) \subseteq Ids(log)
        PROVE  FineLog(shorter)'
    BY <2>2, <2>3, <2>4, FineLogStays
  <2>5. FineLog(RemoteLog)'
    <3>1. FineLog(old)
      BY <1>3 DEF RemoteFine
    <3>2. FineLog(new)'
      BY <2>1, <2>4, <3>1
    <3> QED
      BY <1>2, <3>2 DEF FineLog, BlobsOf, BlobOf
  <2>6. FineLog(DraftLog)'
    <3>1. PICK log \in Seq(Made) : log = DraftLog /\ FineLog(log)
      BY <1>1 DEF RemoteFine
    <3>2. FineLog(log)'
      BY <2>4, <3>1
    <3> QED
      BY <1>0, <3>1, <3>2 DEF FineLog, BlobsOf, BlobOf
  <2>7. ASSUME NEW k \in Machines, run'[k].pc = "draft" PROVE FineLog(run[k].from)'
    <3>1. run[k] \in Runs /\ run[k].pc = "draft"
      BY <1>1, <2>7 DEF TypeOK
    <3>2. PICK log \in Seq(Made) : log = run[k].from /\ FineLog(log)
      BY <3>1 DEF Runs, RemoteFine
    <3>3. FineLog(log)'
      BY <2>4, <3>2
    <3> QED
      BY <1>1, <3>2, <3>3 DEF FineLog, BlobsOf, BlobOf
  <2> QED
    BY <2>5, <2>6, <2>7 DEF RemoteFine
<1> QED
  BY <1>6, <1>7

\* The empty chains satisfy the invariant.
LEMMA InitEstablishesS == Init => SInv
<1> SUFFICES ASSUME Init PROVE SInv
  OBVIOUS
<1>1. TypeOK
  BY InitIsTyped
<1>2. \A m \in Machines : run[m].pc = "idle" /\ run[m].kind = "none" /\ run[m].from = <<>>
  BY DEF Init, Idle
<1>4. RemoteLog = <<>> /\ DraftLog = <<>> /\ \A m \in Machines : journal[m] = <<>>
  BY DEF Init, RemoteLog, DraftLog
<1>5. Ids(<<>>) = {} /\ BlobsOf({}) = {}
  BY DEF Ids, ToSet, BlobsOf
<1>6. OnePush
  BY <1>2 DEF OnePush, Uploading, Drafting
<1>7. OneDraft
  BY <1>2, SaveChainsAssumption DEF Init, OneDraft, Drafting, Readable
<1>8. Ordered
  BY <1>2, <1>4 DEF Ordered, ParentsFirst
<1>9. RemoteFine
  BY <1>2, <1>4, <1>5 DEF RemoteFine, FineLog
<1>10. ASSUME NEW m \in Machines PROVE PinCovers(m) /\ ReadJournal(m) /\ Kept(m) /\ Uploaded(m)
  <2>1. \A b \in Blobs : store[m][b] = Absent
    BY DEF Init, Places
  <2> QED
    BY <1>2, <1>4, <1>5, <2>1 DEF Init, PinCovers, ReadJournal, Kept, Uploaded, Uploading
<1> QED
  BY <1>1, <1>6, <1>7, <1>8, <1>9, <1>10 DEF SInv

\* Every step of a command and every mishap preserves it.
LEMMA StepPreservesS == SInv /\ [Next]_vars => SInv'
<1> SUFFICES ASSUME SInv, [Next]_vars PROVE SInv'
  OBVIOUS
<1>1. TypeOK /\ OnePush /\ OneDraft /\ Ordered /\ RemoteFine
  BY DEF SInv
<1>2. \A k \in Machines : PinCovers(k) /\ ReadJournal(k) /\ Kept(k) /\ Uploaded(k)
  BY DEF SInv
<1>3. Grows
  BY <1>1, StepGrows
<1>4. ASSUME NEW m \in Machines, Step(m) PROVE SInv'
  <2>1. TypeOK' /\ OnePush' /\ OneDraft' /\ Ordered' /\ RemoteFine'
    BY <1>1, <1>2, <1>4, StepTypes, StepKeepsOnePush, StepKeepsOneDraft, StepKeepsOrdered,
       StepKeepsRemoteFine
  <2>2. PinCovers(m)' /\ ReadJournal(m)' /\ Kept(m)' /\ Uploaded(m)'
    BY <1>1, <1>2, <1>4, StepKeepsPin, StepKeepsRead, StepKeepsKept, StepKeepsUploaded
  <2>3. \A b \in Blobs : Fine(b) => Fine(b)'
    BY <1>1, <1>2, <1>4, StepKeepsFine
  <2>4. ASSUME NEW k \in Machines, k # m
        PROVE  PinCovers(k)' /\ ReadJournal(k)' /\ Kept(k)' /\ Uploaded(k)'
    <3>1. Untouched(k)
      BY <1>1, <1>4, <2>4, OthersUntouched
    <3> QED
      BY <1>1, <1>2, <1>3, <2>3, <3>1, PinStable, ReadStable, KeptStable, UploadedStable
  <2> QED
    BY <2>1, <2>2, <2>4 DEF SInv
<1>5. ASSUME RollBack \/ (\E b \in Blobs : DamageBlob(b)) \/ UNCHANGED vars PROVE SInv'
  <2>1. TypeOK' /\ commits' = commits /\ \A k \in Machines : Untouched(k)
    BY <1>1, <1>5, MishapTypes
  <2>2. OnePush' /\ OneDraft' /\ Ordered' /\ RemoteFine'
    BY <1>1, <1>5, MishapKeepsOnePush, MishapKeepsRemote
  <2>4. \A b \in Blobs : Fine(b) => Fine(b)'
    BY <1>1, <1>5, MishapKeepsFine
  <2>5. \A k \in Machines : PinCovers(k)' /\ ReadJournal(k)' /\ Kept(k)' /\ Uploaded(k)'
    BY <1>1, <1>2, <1>3, <2>1, <2>4, PinStable, ReadStable, KeptStable, UploadedStable
  <2> QED
    BY <2>1, <2>2, <2>5 DEF SInv
<1> QED
  BY <1>4, <1>5 DEF Next

\* So it holds for ever.
LEMMA SpecKeepsS == Spec => []SInv
BY InitEstablishesS, StepPreservesS, PTL DEF Spec

-----------------------------------------------------------------------------
\* Everything a journal names is there, and after its parent, at the machines and at the
\* remote, for any machines, contents, commits, clocks and mishaps; the order, and a remote
\* that can be read, but for pushes that wrote their drafts at the same time, the content
\* but for a name of which a copy went wrong (New-SaveCommit; merged_entries,
\* write_journal_atomic, push and fetch of chains-sync.sh; chains-doctor.sh --fix).
THEOREM JournalsStayWhole == Spec => []JournalsAreWhole
<1>1. SInv => JournalsAreWhole
  BY DEF SInv, OneDraft, Ordered, Kept, RemoteFine, FineLog, Fine, JournalsAreWhole
<1> QED
  BY <1>1, SpecKeepsS, PTL

\* A sync goes ahead only with a remote that still has everything the machine ever saw there
\* (the pin check of chains-sync.sh), whatever crashed, was repaired or was put back.
THEOREM RollbacksStayRefused == Spec => RollbacksAreRefused
<1>1. SInv /\ [Next]_vars =>
        [\A m \in Machines : ~Syncing(m) /\ Syncing(m)' => seen[m] \subseteq Ids(remote')]_vars
  <2> SUFFICES ASSUME SInv, [Next]_vars, NEW m \in Machines, ~Syncing(m), Syncing(m)'
               PROVE  seen[m] \subseteq Ids(remote')
    OBVIOUS
  <2>1. TypeOK /\ OnePush /\ PinCovers(m)
    BY DEF SInv
  <2>2. Step(m) /\ run'[m] # run[m]
    <3>1. run'[m] # run[m]
      BY DEF Syncing
    <3>2. ~(RollBack \/ (\E b \in Blobs : DamageBlob(b)) \/ UNCHANGED vars)
      BY <2>1, <3>1, MishapTypes DEF Untouched
    <3> QED
      BY <2>1, <3>1, <3>2, OthersUntouched DEF Next, Untouched
  <2>3. Push(m) \/ Fetch(m)
    <3>1. run'[m] # Idle /\ ~SameCommand(run'[m], run[m]) /\ run'[m].kind \notin {"commit", "fix"}
      BY DEF Syncing, SameCommand, Idle
    <3>2. ~(OpenDraft(m) \/ WriteDraft(m) \/ WriteRemote(m))
      <4>1. OpenDraft(m) \/ WriteDraft(m) \/ WriteRemote(m) => Uploading(m) \/ Drafting(m)
        BY DEF OpenDraft, WriteDraft, WriteRemote, Uploading, Drafting
      <4> QED
        BY <2>1, <4>1 DEF OnePush, Syncing
    <3>3. ~WriteJournal(m)
      BY <2>1, WriteJournalRun DEF Syncing
    <3> QED
      BY <2>1, <2>2, <3>1, <3>2, <3>3, CommitRun, CopyFileRun, EndRun, CheckBlobRun, OpenBlobRun,
         UploadBlobRun, OneBlobRun, FixRun DEF Step
  <2>4. PinHolds(m) /\ Readable /\ remote' = RemoteLog
    BY <2>3 DEF Push, Fetch, disk, RemoteLog, Readable
  <2> QED
    BY <2>1, <2>4, PinHoldsAll
<1> QED
  BY <1>1, SpecKeepsS, PTL DEF Spec, RollbacksAreRefused

\* No fetch loses or reorders a commit of the machine, and no push one of the remote unless
\* two pushes overlapped (merged_entries of chains-sync.sh).
THEOREM JournalsKeepGrowing == Spec => JournalsOnlyGrow
<1>1. SInv /\ [Next]_vars =>
        [/\ \A m \in Machines : IsPrefix(journal[m], journal'[m])
         /\ contended' \/ mishaps' # mishaps \/ IsPrefix(RemoteLog, RemoteLog')]_vars
  <2> SUFFICES ASSUME SInv, [Next]_vars
               PROVE  /\ \A m \in Machines : IsPrefix(journal[m], journal'[m])
                      /\ contended' \/ mishaps' # mishaps \/ IsPrefix(RemoteLog, RemoteLog')
    OBVIOUS
  <2>1. TypeOK /\ OnePush /\ OneDraft /\ \A m \in Machines : ReadJournal(m) /\ Kept(m)
    BY DEF SInv
  <2>2. /\ RemoteLog \in Seq(Nat)
        /\ \A m \in Machines : journal[m] \in Seq(Nat) /\ journal[m] \in Seq(Made) /\ run[m] \in Runs
    BY <2>1, RemoteLogType, LogsAreNumbers DEF TypeOK
  <2>3. ASSUME NEW m \in Machines PROVE IsPrefix(journal[m], journal'[m])
    <3>1. CASE journal'[m] = journal[m]
      BY <2>2, <3>1, PrefixReflexive
    <3>2. CASE WriteJournal(m)
      <4>1. run[m].base = journal[m]
        BY <2>1, <3>2 DEF WriteJournal, ReadJournal
      <4>2. journal'[m] = Merged(journal[m], run[m].from)
        BY <2>1, <3>2, <4>1 DEF WriteJournal, TypeOK
      <4>3. run[m].from \in Seq(Made)
        BY <2>2 DEF Runs
      <4> QED
        BY <2>2, <4>2, <4>3, MergedMade
    <3>3. CASE AppendEntry(m) /\ journal' # journal
      <4>1. PICK log \in Seq(Nat) : log = journal[m]
        BY <2>2
      <4>2. PICK id : journal'[m] = Append(log, id)
        BY <2>1, <3>3, <4>1, AppendedEntry
      <4>3. IsPrefix(log, Append(log, id))
        BY DEF IsPrefix
      <4> QED
        BY <4>1, <4>2, <4>3
    <3>4. ASSUME NEW k \in Machines, Step(k), k # m PROVE journal'[m] = journal[m]
      BY <2>1, <3>4, OthersUntouched DEF Untouched
    <3>5. RollBack \/ (\E b \in Blobs : DamageBlob(b)) \/ UNCHANGED vars => journal'[m] = journal[m]
      BY <2>1, MishapTypes DEF Untouched
    <3>6. CASE Step(m)
      BY <3>1, <3>2, <3>3, <3>6
      DEF Step, disk, history, Commit, CopyFile, CopyFails, AppendEntry, Push, CheckBlob, OpenBlob,
          UploadBlob, OpenDraft, WriteDraft, WriteRemote, Fetch, InstallBlob, SetPin, Fix, MoveOrphan,
          RewriteConfig, Crash
    <3> QED
      BY <3>1, <3>4, <3>5, <3>6 DEF Next
  <2>4. contended' \/ mishaps' # mishaps \/ IsPrefix(RemoteLog, RemoteLog')
    <3>1. CASE RemoteLog' = RemoteLog
      BY <2>2, <3>1, PrefixReflexive
    <3>2. ASSUME NEW m \in Machines, OpenDraft(m) \/ WriteDraft(m) \/ WriteRemote(m)
          PROVE  contended' \/ IsPrefix(RemoteLog, RemoteLog')
      <4>1. contended' = contended
        BY <3>2 DEF OpenDraft, WriteDraft, WriteRemote, history
      <4>2. CASE contended
        BY <4>1, <4>2
      <4>3. CASE ~contended
        <5>1. CASE OpenDraft(m)
          <6>1. RemoteLog' = RemoteLog
            BY <5>1 DEF OpenDraft, RemoteLog
          <6> QED
            BY <2>2, <6>1, PrefixReflexive
        <5>2. CASE WriteDraft(m)
          <6>1. RemoteLog' = RemoteLog
            BY <2>1, <4>3, <5>2, AloneWrites DEF OneDraft
          <6> QED
            BY <2>2, <6>1, PrefixReflexive
        <5>3. CASE WriteRemote(m)
          <6>1. IsPrefix(RemoteLog, DraftLog)
            BY <2>1, <4>3, <5>3 DEF WriteRemote, OnePush
          <6> QED
            BY <2>2, <5>3, <6>1, RenamedRemote, PrefixReflexive
        <5> QED
          BY <3>2, <5>1, <5>2, <5>3
      <4> QED
        BY <4>2, <4>3
    <3>3. ASSUME NEW m \in Machines, Step(m), ~(OpenDraft(m) \/ WriteDraft(m) \/ WriteRemote(m))
          PROVE  RemoteLog' = RemoteLog
      BY <3>3, OtherSteps
    <3>4. RollBack \/ (\E b \in Blobs : DamageBlob(b)) \/ UNCHANGED vars =>
            RemoteLog' = RemoteLog \/ mishaps' # mishaps
      BY <2>1, MishapShortens
    <3> QED
      BY <3>1, <3>2, <3>3, <3>4 DEF Next
  <2> QED
    BY <2>3, <2>4
<1> QED
  BY <1>1, SpecKeepsS, PTL DEF Spec, JournalsOnlyGrow
=============================================================================
